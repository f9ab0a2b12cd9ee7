--------------------------- MODULE ConbeeFunctions --------------------------
(***************************************************************************)
(* The getters and setters of conbee-functions.c, one call after another:  *)
(* the request is built and written, the stick answers, the line may       *)
(* damage the answer, the answer is read, parsed and freed, or not.  That  *)
(* a call gets the answer to its own request is the matter of module       *)
(* ConbeeDevice, that packets get across the matter of module Slip.        *)
(***************************************************************************)
EXTENDS FrameCodec

CONSTANTS Parameters, \* device parameters with a getter and a setter
          Width,      \* bytes of a parameter's value in the library
          StickWidth, \* the same in the stick
          ByteValues, \* bytes that occur in values and in damage
          Requests,   \* frames an application builds and queues by itself
          MaxCalls,   \* bound on the calls
          Damages     \* what the line may do: "change" a byte, "split" a packet

ASSUME FunctionsAssumption ==
    /\ Parameters \subseteq 0..255 /\ ByteValues \subseteq 0..255
    /\ Width \in [Parameters -> {1, 2, 4, 8}]
    /\ StickWidth \in [Parameters -> 1..16]
    /\ Requests \subseteq {DeviceStatusRequest, NetworkJoinCreateRequest,
                           NetworkLeaveRequest, GetApsDataRequest}
    /\ MaxCalls \in 0..255
    /\ Damages \subseteq {"change", "split"}

Values(width) == [1..width -> ByteValues]
NONE == -2

VARIABLES stage,    \* where the call is
          request,  \* its request
          packet,   \* the request as bytes on the line
          answers,  \* packets on their way to the library
          response, \* the frame conbee_wait_for_frame returned
          data,     \* what the getter stored for its caller
          returned, \* what the function returned
          frames,   \* frames allocated for calls and not freed
          calls,    \* number of calls so far, the sequence number
          stored,   \* values in the stick
          status,   \* history: status the stick answered
          damaged   \* history: the answer has been damaged

libVars   == <<request, response, data, returned, frames, calls>>
stickVars == <<stored, status>>
vars == <<stage, libVars, packet, answers, stickVars, damaged>>

Init == /\ stage = "idle" /\ request = BlankFrame /\ packet = <<>> /\ answers = <<>>
        /\ response = BlankFrame /\ data = <<>> /\ returned = NONE
        /\ frames = 0 /\ calls = 0
        /\ stored \in [Parameters -> UNION {Values(StickWidth[p]) : p \in Parameters}]
        /\ \A p \in Parameters : Len(stored[p]) = StickWidth[p]
        /\ status = STATUS_SUCCESS /\ damaged = FALSE
-----------------------------------------------------------------------------
(* A request is queued under the next sequence number; the worker writes   *)
(* it and frees it.                                                        *)
Queue(f) ==
    LET numbered == [f EXCEPT !.sequence_number = calls]
    IN /\ stage = "idle" /\ calls < MaxCalls
       /\ stage' = "sent"
       /\ request' = numbered
       /\ packet' = WriteFrame(numbered)
       /\ calls' = calls + 1
       /\ data' = <<>> /\ returned' = NONE /\ damaged' = FALSE
       /\ UNCHANGED <<response, frames, answers, stickVars>>

Get(p)        == Queue(ReadParameterRequest(p))
Set(p, value) == Queue(WriteParameterRequest(p, value))
GetVersion    == Queue(ReadFirmwareRequest)
Enqueue(f)    == Queue(f)

(* The stick: it takes a request apart by its layout and answers it, or    *)
(* refuses it with a status and no payload.                                *)
Answer(code, payload) ==
    Packet(<<packet[1], packet[2], code>> \o LE16(5 + Len(payload)) \o payload)

StickAnswers ==
    /\ stage = "sent" /\ WellChecked(packet)
    /\ \/ /\ packet[1] = COMMAND_READ_PARAMETER
          /\ LET p == packet[8]
             IN answers' = <<Answer(STATUS_SUCCESS,
                                    LE16(1 + StickWidth[p]) \o <<p>> \o stored[p])>>
          /\ UNCHANGED stored
       \/ /\ packet[1] = COMMAND_WRITE_PARAMETER
          /\ Len(packet) - 10 = StickWidth[packet[8]]
          /\ stored' = [stored EXCEPT ![packet[8]] = SubSeq(packet, 9, Len(packet) - 2)]
          /\ answers' = <<Answer(STATUS_SUCCESS, LE16(1) \o <<packet[8]>>)>>
       \/ /\ packet[1] = COMMAND_VERSION
          /\ answers' = <<Answer(STATUS_SUCCESS, <<0, 7, 1, 2>>)>>
          /\ UNCHANGED stored
       \/ /\ packet[1] \in DOMAIN StateByteAt
          /\ \E b \in ByteValues :
                answers' = <<Answer(STATUS_SUCCESS,
                                    [k \in 1..StateByteAt[packet[1]] |->
                                       IF k < StateByteAt[packet[1]] THEN 0 ELSE b])>>
          /\ UNCHANGED stored
    /\ status' = STATUS_SUCCESS
    /\ stage' = "answered"
    /\ UNCHANGED <<libVars, packet, damaged>>

StickRefuses ==
    /\ stage = "sent"
    /\ answers' = <<Answer(STATUS_BUSY, <<>>)>>
    /\ status' = STATUS_BUSY
    /\ stage' = "answered"
    /\ UNCHANGED <<libVars, packet, stored, damaged>>

(* The line changes one byte of the answer, or a byte becomes the END code *)
(* that makes two packets of it.                                           *)
Change(i, b) ==
    /\ "change" \in Damages /\ stage = "answered" /\ ~damaged
    /\ b # answers[1][i]
    /\ answers' = <<[answers[1] EXCEPT ![i] = b]>>
    /\ damaged' = TRUE
    /\ UNCHANGED <<stage, libVars, packet, stickVars>>
Piece(bytes) == IF bytes = <<>> THEN <<>> ELSE <<bytes>>
Split(i) ==
    /\ "split" \in Damages /\ stage = "answered" /\ ~damaged
    /\ answers' = Piece(SubSeq(answers[1], 1, i - 1))
                  \o Piece(SubSeq(answers[1], i + 1, Len(answers[1])))
    /\ damaged' = TRUE
    /\ UNCHANGED <<stage, libVars, packet, stickVars>>
-----------------------------------------------------------------------------
(* The worker reads a packet and queues a frame, whatever came out of it.  *)
(* conbee_wait_for_frame returns it when it has the command and sequence   *)
(* number of the request and spins on it otherwise.                        *)
Matches(f) == /\ f.command = request.command
              /\ f.sequence_number = request.sequence_number

ReadAnswer ==
    /\ stage = "answered" /\ answers # <<>>
    /\ LET read == ReadFrame(Head(answers))
           found == read.result = "frame" /\ Matches(read.frame)
       IN \/ /\ found
             /\ response' = read.frame
             /\ stage' = "received"
          \/ /\ ~found /\ read.result # "undefined"
             /\ stage' = "stuck" /\ UNCHANGED response
          \/ /\ read.result = "undefined"
             /\ stage' = "undefined" /\ UNCHANGED response
    /\ frames' = frames + 1
    /\ answers' = Tail(answers)
    /\ UNCHANGED <<request, data, returned, calls, packet, stickVars, damaged>>

uint8(n) == n % 256

Return(value, freed) ==
    /\ stage' = "returned"
    /\ returned' = value
    /\ frames' = frames - freed
    /\ UNCHANGED <<request, response, calls, packet, answers, stickVars, damaged>>

(* All getters and setters.                                                *)
ReturnRefused ==
    /\ stage = "received"
    /\ request.command \in {COMMAND_READ_PARAMETER, COMMAND_WRITE_PARAMETER}
    /\ ~HasStatus(response, STATUS_SUCCESS)
    /\ Return(-1, 1)
    /\ UNCHANGED data

(* The getters: the parser's -1 goes through a uint8_t, and the response   *)
(* is not freed.                                                           *)
ReturnGet ==
    /\ stage = "received"
    /\ request.command = COMMAND_READ_PARAMETER /\ HasStatus(response, STATUS_SUCCESS)
    /\ \/ /\ HasValue(response, Width[request.payload[1]])
          /\ data' = ValueOf(response) /\ Return(uint8(0), 0)
       \/ /\ ~HasValue(response, Width[request.payload[1]])
          /\ UNCHANGED data /\ Return(uint8(-1), 0)

ReturnSetFreesTwice ==    \* faulty variant
    /\ stage = "received"
    /\ request.command = COMMAND_WRITE_PARAMETER /\ HasStatus(response, STATUS_SUCCESS)
    /\ Return(uint8(0), 2)
    /\ UNCHANGED data
ReturnSet ==
    /\ stage = "received"
    /\ request.command = COMMAND_WRITE_PARAMETER /\ HasStatus(response, STATUS_SUCCESS)
    /\ Return(uint8(0), 1)
    /\ UNCHANGED data

(* conbee_get_firmware_version; a response with less than four bytes of    *)
(* payload gives it whatever follows in memory.                            *)
ReturnVersion ==
    /\ stage = "received"
    /\ request.command = COMMAND_VERSION
    /\ data' \in IF RefusesVersion(response) THEN {data}
                ELSE IF response.payload_length >= 4 THEN {VersionOf(response)}
                ELSE [1..4 -> ByteValues]
    /\ Return(uint8(IF RefusesVersion(response) THEN -1 ELSE 0), 1)

(* conbee_device_state_response, called by the application on the answer   *)
(* to a request of its own; a payload that is too short gives whatever     *)
(* follows in memory.                                                      *)
ParseState ==
    /\ stage = "received"
    /\ request.command \in DOMAIN StateByteAt
    /\ LET at == StateByteAt[response.command]
       IN \E byte \in IF at <= response.payload_length THEN {response.payload[at]}
                       ELSE ByteValues :
             data' = StateOf(byte)
    /\ Return(0, 1)

NextCall == /\ stage = "returned"
            /\ stage' = "idle"
            /\ UNCHANGED <<libVars, packet, answers, stickVars, damaged>>

Next == \/ \E p \in Parameters : Get(p) \/ \E v \in Values(Width[p]) : Set(p, v)
        \/ GetVersion
        \/ \E f \in Requests : Enqueue(f)
        \/ StickAnswers \/ StickRefuses
        \/ \E i \in 1..(IF answers = <<>> THEN 0 ELSE Len(answers[1])) :
              Split(i) \/ \E b \in ByteValues : Change(i, b)
        \/ ReadAnswer
        \/ ReturnRefused \/ ReturnGet \/ ReturnSet \/ ReturnVersion \/ ParseState
        \/ NextCall

Spec == Init /\ [][Next]_vars
-----------------------------------------------------------------------------
(* What a function returns fits its types: an error is -1 or, squeezed     *)
(* through the uint8_t, 255; bytes on the line are bytes, sums included.   *)
TypeOK ==
    /\ stage \in {"idle", "sent", "answered", "received", "returned", "stuck", "undefined"}
    /\ packet \in Seq(Byte) /\ \A i \in DOMAIN answers : answers[i] \in Seq(Byte)
    /\ returned \in {NONE, -1} \cup Byte
    /\ data \in Seq(Byte) /\ frames \in 0..MaxCalls /\ calls \in 0..MaxCalls
    /\ status \in {STATUS_SUCCESS, STATUS_BUSY} /\ damaged \in BOOLEAN
    /\ \A p \in Parameters : stored[p] \in Values(StickWidth[p])

(* A call that returns 0 has done what it is for: the getter's data is the *)
(* value the stick has, through two layouts, the skipped length and        *)
(* parameter and the checks of status and length; the setter's value is in *)
(* the stick.                                                              *)
ZeroMeansDone ==
    stage = "returned" /\ returned = 0 =>
        /\ request.command = COMMAND_READ_PARAMETER => data = stored[request.payload[1]]
        /\ request.command = COMMAND_WRITE_PARAMETER =>
               /\ status = STATUS_SUCCESS
               /\ stored[request.payload[1]] = Tail(request.payload)

(* The device state an application is given is the byte the stick sent: no *)
(* bit of it is in two fields, and none of the six that mean something is  *)
(* in none, when the answer is no refusal.                                 *)
StateIsWhole ==
    stage = "returned" /\ request.command \in DOMAIN StateByteAt /\ status = STATUS_SUCCESS =>
        Total(data) = Last(response.payload) % 64

(* A request reaches the stick with all of its payload: the length field   *)
(* of the frame, the two bytes of payload_length that conbee_write_frame   *)
(* puts in front and the place of the checksum fit together.               *)
PayloadArrives ==
    stage = "sent" /\ request.payload_length > 0 =>
        LET n == request.payload_length
        IN /\ Len(packet) = 9 + n
           /\ FromLE16(packet[6], packet[7]) = n
           /\ SubSeq(packet, 8, 7 + n) = request.payload

(* An answer with one byte changed, or cut in two, is not returned to the  *)
(* caller: the checksum or the sequence number gives it away.  It does so  *)
(* for every changed byte; a part of a cut answer may still check out by   *)
(* coincidence, which takes longer values than those of the run.           *)
DamageRejected == stage \in {"received", "returned"} => ~damaged

(* Whatever an undamaged answer carries, its lengths are in bounds when    *)
(* conbee_read_frame takes it apart, a refusal without payload included.   *)
UndefinedOnlyFromDamage == stage = "undefined" => damaged

(* conbee.c:309: conbee_read_frame returns "-1 - error occured": any       *)
(* packet makes a frame or an error.                                       *)
ReadIsDefined == stage # "undefined"

(* conbee-functions.c: "@return -1 - an error occured".                    *)
ErrorIsNegative == stage = "returned" => returned \in {0, -1}

(* conbee.c:1007: "free the frame after processing".  When a function has  *)
(* returned, nothing it or the worker allocated for the call is left.      *)
NoFrameLeft == stage = "returned" => frames = 0

(* conbee.c:525-526: get_version returns 0 when "version information are   *)
(* valid": not for an answer that refuses the request.                     *)
VersionIsReal ==
    stage = "returned" /\ request.command = COMMAND_VERSION /\ returned = 0 =>
        status = STATUS_SUCCESS
=============================================================================
