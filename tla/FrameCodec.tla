----------------------------- MODULE FrameCodec -----------------------------
(***************************************************************************)
(* Frames as bytes: what conbee_write_frame makes of a request and         *)
(* conbee_read_frame of an answer, with the requests and the parsers of    *)
(* conbee.c.  Module Slip is about how packets get across, module          *)
(* ConbeeFunctions about the calls that use all this.                      *)
(***************************************************************************)
EXTENDS Integers, SequencesExt

Byte == 0..255

COMMAND_DEVICE_STATE         == 7
COMMAND_CHANGE_NETWORK_STATE == 8
COMMAND_READ_PARAMETER       == 10
COMMAND_WRITE_PARAMETER      == 11
COMMAND_VERSION              == 13
COMMAND_DEVICE_STATE_CHANGED == 14
COMMAND_APS_DATA_INDICATION  == 23
NETWORK_OFFLINE              == 0
NETWORK_CONNECTED            == 2
STATUS_SUCCESS               == 0
STATUS_BUSY                  == 2

(* uint16_t as memcpy lays it out on a little-endian machine.              *)
U16(n) == n % 65536
LE16(n) == <<n % 256, U16(n) \div 256>>
FromLE16(lo, hi) == lo + 256 * hi

(* crc16: the bytes added up one after another, the two's complement of    *)
(* the sum.                                                                *)
Total(bytes) ==
    LET upTo[k \in 0..Len(bytes)] == IF k = 0 THEN 0 ELSE upTo[k - 1] + bytes[k]
    IN upTo[Len(bytes)]
crc16(bytes) == U16(65536 - U16(Total(bytes)))
-----------------------------------------------------------------------------
(* struct conbee_frame and its builders.                                   *)
Frame(command, length, payload) ==
    [command |-> command, sequence_number |-> 0, status |-> 0, length |-> length,
     payload_length |-> Len(payload), payload |-> payload]

BlankFrame == Frame(0, 0, <<>>)

ReadFirmwareRequest      == Frame(COMMAND_VERSION, 5, <<>>)
ReadParameterRequest(p)  == Frame(COMMAND_READ_PARAMETER, 8, <<p>>)
(* Faulty variant: the length of the parameter's number forgotten.         *)
WriteParameterShort(p, value) ==
    Frame(COMMAND_WRITE_PARAMETER, 7 + Len(value), <<p>> \o value)
WriteParameterRequest(p, value) ==
    Frame(COMMAND_WRITE_PARAMETER, 8 + Len(value), <<p>> \o value)
DeviceStatusRequest      == Frame(COMMAND_DEVICE_STATE, 8, <<0, 0, 0>>)
NetworkJoinCreateRequest == Frame(COMMAND_CHANGE_NETWORK_STATE, 6, <<NETWORK_CONNECTED>>)
NetworkLeaveRequest      == Frame(COMMAND_CHANGE_NETWORK_STATE, 6, <<NETWORK_OFFLINE>>)
GetApsDataRequest        == Frame(COMMAND_APS_DATA_INDICATION, 8, <<7>>)

(* conbee_write_frame: the checksum goes behind the first frame->length    *)
(* bytes of the buffer, over what comes after them.  No builder sets a     *)
(* length greater than what has been filled in.                            *)
Packet(bytes) == bytes \o LE16(crc16(bytes))
WriteFrame(f) ==
    LET header == <<f.command, f.sequence_number, 0>> \o LE16(f.length)
        body == IF f.payload_length > 0 THEN LE16(f.payload_length) \o f.payload
                                        ELSE <<>>
    IN Packet(SubSeq(header \o body, 1, f.length))

(* conbee_read_frame on a packet of slip_receive_packet.  A packet of one  *)
(* byte has a negative number of bytes to sum, one of two to four leaves   *)
(* part of the header to what the stack held, and of one of six, with its  *)
(* payload_length of -1 = 65535, more is copied than there is: all these   *)
(* are "undefined".                                                        *)
PayloadLengthOneLess(n) ==  \* faulty variant: one byte too many for the rest
    IF n > 5 THEN U16(n - 8) ELSE 0
PayloadLength(n) == IF n > 5 THEN U16(n - 7) ELSE 0
LowByteChecked(bytes) ==  \* faulty variant: one byte of the checksum compared
    LET n == Len(bytes)
    IN crc16(SubSeq(bytes, 1, n - 2)) % 256 = bytes[n - 1]
WellChecked(bytes) ==
    LET n == Len(bytes)
    IN crc16(SubSeq(bytes, 1, n - 2)) = FromLE16(bytes[n - 1], bytes[n])
ReadFrame(bytes) ==
    LET n == Len(bytes)
        length == PayloadLength(n)
    IN IF n = 1 THEN [result |-> "undefined", frame |-> BlankFrame]
       ELSE IF ~WellChecked(bytes) THEN [result |-> "wrong crc", frame |-> BlankFrame]
       ELSE IF n < 5 \/ length > n THEN [result |-> "undefined", frame |-> BlankFrame]
       ELSE [result |-> "frame",
             frame |-> [command |-> bytes[1], sequence_number |-> bytes[2],
                        status |-> bytes[3], length |-> FromLE16(bytes[4], bytes[5]),
                        payload_length |-> length,
                        payload |-> SubSeq(bytes, 6, 5 + length)]]

(* conbee_read_parameter_response_uint8 to _uint64, for values of "size"   *)
(* bytes: a length and the parameter's number come before the value.       *)
HasValue(f, size) == f.payload_length - 3 = size
ValueAfterLength(f) ==    \* faulty variant: the parameter's number not skipped
    SubSeq(f.payload, 3, f.payload_length)
ValueOf(f) == SubSeq(f.payload, 4, f.payload_length)

(* conbee_get_version refuses an answer only when command, status and      *)
(* length are all three wrong; it copies four bytes of payload, in the     *)
(* order ntohl leaves them.                                                *)
RefusesVersion(f) ==
    f.command # COMMAND_VERSION /\ f.status # STATUS_SUCCESS /\ f.length # 9
VersionOf(f) == Reverse(SubSeq(f.payload, 1, 4))

(* conbee_frame_success, _failure, _busy and the other five.               *)
HasStatus(f, status) == f.status = status

(* conbee_device_state_response: which byte of the payload is the state,   *)
(* for the commands that have one, whether the payload reaches that far or *)
(* not, and the five fields made of it.                                    *)
StateByteAt ==
    [command \in {COMMAND_DEVICE_STATE, COMMAND_DEVICE_STATE_CHANGED,
                  COMMAND_APS_DATA_INDICATION} |->
        CASE command = COMMAND_DEVICE_STATE         -> 2
          [] command = COMMAND_DEVICE_STATE_CHANGED -> 1
          [] command = COMMAND_APS_DATA_INDICATION  -> 4]
And(byte, mask) == (byte \div mask % 2) * mask      \* of one bit
StateOverlapping(byte) ==  \* faulty variant: the network state one bit too wide
    <<byte % 8, And(byte, 4), And(byte, 8), And(byte, 16), And(byte, 32)>>
StateOf(byte) ==
    <<byte % 4, And(byte, 4), And(byte, 8), And(byte, 16), And(byte, 32)>>
=============================================================================
