-------------------------------- MODULE Slip --------------------------------
(***************************************************************************)
(* One direction of the serial line: slip_transmit_packet at one end,      *)
(* slip_receive_packet at the other, byte by byte, over a line that may    *)
(* change or lose bytes and that may be unplugged.  Only the four codes of *)
(* SLIP and one plain byte are told apart.                                 *)
(***************************************************************************)
EXTENDS Naturals, Sequences

CONSTANTS END, ESC, ESC_END, ESC_ESC, \* the codes of slip.h
          Zero,         \* the plain byte, also what "uint8_t c = 0" starts with
          Packets,      \* what the transmitter is asked to send
          BufferSize,   \* length of the receiver's buffer
          MaxPackets,   \* bound on the packets sent
          MaxNoise,     \* bound on the bytes changed or lost
          WireCapacity, \* bytes under way before a write blocks
          MayUnplug     \* whether the stick can be pulled out

Bytes == {END, ESC, ESC_END, ESC_ESC, Zero}

ASSUME SlipAssumption ==
    /\ END \notin {ESC, ESC_END, ESC_ESC, Zero}
    /\ ESC \notin {ESC_END, ESC_ESC, Zero}
    /\ ESC_END \notin {ESC_ESC, Zero}
    /\ ESC_ESC # Zero
    /\ Packets \subseteq Seq(Bytes) \ {<<>>}
    /\ BufferSize \in Nat \ {0} /\ WireCapacity \in Nat \ {0}
    /\ MaxPackets \in Nat /\ MaxNoise \in Nat
    /\ MayUnplug \in BOOLEAN

VARIABLES tx,        \* where slip_transmit_packet is
          out,       \* what it still has to send of its buffer
          sent,      \* history: the packets it was given
          wire,      \* bytes under way, each with the packet it belongs to
          plugged,   \* the tty answers
          noise,     \* bytes changed or lost so far, for the bound only
          hit,       \* history: the packets damage has reached
          escaped,   \* slip_receive_packet has read an ESC
          c,         \* its variable for the byte read
          buffer,    \* the bytes it has stored, "received" many
          delivered  \* history: the packets it has returned

txVars == <<tx, out, sent>>
rxVars == <<escaped, c, buffer, delivered>>
vars == <<txVars, rxVars, wire, plugged, noise, hit>>

Init == /\ tx = "idle" /\ out = <<>> /\ sent = <<>>
        /\ wire = <<>> /\ plugged = TRUE /\ noise = 0 /\ hit = {}
        /\ escaped = FALSE /\ c = Zero /\ buffer = <<>> /\ delivered = <<>>
-----------------------------------------------------------------------------
(* Damage to a packet takes the next one with it only if the END between   *)
(* them is stored as data behind an ESC and the one that opens the next is *)
(* needed: the closing END turned into an ESC, or a second byte damaged.   *)
Reached(packet, closingToESC) ==
    hit \cup {packet} \cup IF closingToESC \/ packet \in hit THEN {packet + 1} ELSE {}

(* conbee_write_byte: the byte goes out, or write() fails and the byte is  *)
(* missing from its packet.                                                *)
WriteByte(b, packet) ==
    /\ plugged /\ Len(wire) < WireCapacity
    /\ wire' = Append(wire, [byte |-> b, of |-> packet, closing |-> FALSE])
    /\ UNCHANGED <<noise, hit>>
WriteClosing(packet) ==
    /\ plugged /\ Len(wire) < WireCapacity
    /\ wire' = Append(wire, [byte |-> END, of |-> packet, closing |-> TRUE])
    /\ UNCHANGED <<noise, hit>>
WriteFails(packet) ==
    /\ \/ ~plugged /\ UNCHANGED noise
       \/ plugged /\ noise < MaxNoise /\ noise' = noise + 1
    /\ hit' = Reached(packet, FALSE)
    /\ UNCHANGED wire

(* Faulty variant: no END before the packet.                               *)
TransmitStartUnframed(p) ==
    /\ tx = "idle" /\ Len(sent) < MaxPackets
    /\ sent' = Append(sent, p) /\ out' = p /\ tx' = "body"
    /\ UNCHANGED <<rxVars, plugged, wire, noise, hit>>

(* slip_transmit_packet: an END before the packet, its result not checked. *)
TransmitStart(p) ==
    /\ tx = "idle" /\ Len(sent) < MaxPackets
    /\ sent' = Append(sent, p) /\ out' = p /\ tx' = "body"
    /\ WriteByte(END, Len(sent) + 1) \/ WriteFails(Len(sent) + 1)
    /\ UNCHANGED <<rxVars, plugged>>

TransmitPlain ==
    /\ tx = "body" /\ out # <<>>
    /\ Head(out) \notin {END, ESC}
    /\ WriteByte(Head(out), Len(sent)) \/ WriteFails(Len(sent))
    /\ out' = Tail(out)
    /\ UNCHANGED <<tx, sent, rxVars, plugged>>

(* The two bytes END and ESC become take two writes; when the first fails  *)
(* the second is left out.                                                 *)
TransmitEscape ==
    /\ tx = "body" /\ out # <<>>
    /\ Head(out) \in {END, ESC}
    /\ \/ /\ WriteByte(ESC, Len(sent))
          /\ tx' = "escape" /\ UNCHANGED out
       \/ /\ WriteFails(Len(sent))
          /\ out' = Tail(out) /\ UNCHANGED tx
    /\ UNCHANGED <<sent, rxVars, plugged>>

Code(b) == IF b = END THEN ESC_END ELSE ESC_ESC

TransmitEscaped ==
    /\ tx = "escape"
    /\ WriteByte(Code(Head(out)), Len(sent)) \/ WriteFails(Len(sent))
    /\ tx' = "body" /\ out' = Tail(out)
    /\ UNCHANGED <<sent, rxVars, plugged>>

TransmitEnd ==
    /\ tx = "body" /\ out = <<>>
    /\ WriteClosing(Len(sent)) \/ WriteFails(Len(sent))
    /\ tx' = "idle"
    /\ UNCHANGED <<out, sent, rxVars, plugged>>
-----------------------------------------------------------------------------
(* slip_receive_packet, one call after another.                            *)

(* Faulty variant: the bound off by one.                                   *)
StoreOneTooMany(b) ==
    buffer' = IF Len(buffer) =< BufferSize THEN Append(buffer, b) ELSE buffer

Store(b) == buffer' = IF Len(buffer) < BufferSize THEN Append(buffer, b) ELSE buffer

(* END: what is stored is returned, unless it is nothing; the next call    *)
(* starts with c = 0.                                                      *)
ReceiveEnd(b) ==
    /\ ~escaped /\ b = END
    /\ \/ /\ buffer # <<>>
          /\ delivered' = Append(delivered, buffer)
          /\ buffer' = <<>> /\ c' = Zero
       \/ /\ buffer = <<>>
          /\ c' = b /\ UNCHANGED <<buffer, delivered>>
    /\ UNCHANGED escaped

ReceiveEscape(b) ==
    /\ ~escaped /\ b = ESC
    /\ escaped' = TRUE /\ c' = b
    /\ UNCHANGED <<buffer, delivered>>

ReceivePlain(b) ==
    /\ ~escaped /\ b \notin {END, ESC}
    /\ Store(b) /\ c' = b
    /\ UNCHANGED <<escaped, delivered>>

(* Faulty variant: the second code forgotten.                              *)
DecodeEndOnly(b) == IF b = ESC_END THEN END ELSE b

Decode(b) == IF b = ESC_END THEN END ELSE IF b = ESC_ESC THEN ESC ELSE b

(* The byte after an ESC; one that is no code is stored as it is.          *)
ReceiveEscaped(b) ==
    /\ escaped
    /\ c' = Decode(b) /\ Store(Decode(b))
    /\ escaped' = FALSE
    /\ UNCHANGED delivered

Receive(b) == ReceiveEnd(b) \/ ReceiveEscape(b) \/ ReceivePlain(b) \/ ReceiveEscaped(b)

(* conbee_read_byte with a byte to read.                                   *)
ReadByte == /\ plugged /\ wire # <<>>
            /\ Receive(Head(wire).byte)
            /\ wire' = Tail(wire)
            /\ UNCHANGED <<txVars, plugged, noise, hit>>

(* conbee_read_byte fails and leaves c alone.  Its result is kept in a     *)
(* uint32_t, so "err < 0" is never true and c is taken for a byte read.    *)
ReadError == /\ ~plugged
             /\ Receive(c)
             /\ UNCHANGED <<txVars, wire, plugged, noise, hit>>
-----------------------------------------------------------------------------
(* The line changes or loses a byte, or the stick is pulled out.           *)
Change(i, b) == /\ noise < MaxNoise
                /\ b # wire[i].byte
                /\ wire' = [wire EXCEPT ![i] = [@ EXCEPT !.byte = b]]
                /\ noise' = noise + 1
                /\ hit' = Reached(wire[i].of, wire[i].closing /\ b = ESC)
                /\ UNCHANGED <<txVars, rxVars, plugged>>

Lose(i) == /\ noise < MaxNoise
           /\ wire' = SubSeq(wire, 1, i - 1) \o SubSeq(wire, i + 1, Len(wire))
           /\ noise' = noise + 1
           /\ hit' = Reached(wire[i].of, FALSE)
           /\ UNCHANGED <<txVars, rxVars, plugged>>

Unplug == /\ MayUnplug /\ plugged
          /\ plugged' = FALSE
          /\ wire' = <<>>
          /\ UNCHANGED <<txVars, rxVars, noise, hit>>

Next == \/ \E p \in Packets : TransmitStart(p)
        \/ TransmitPlain \/ TransmitEscape \/ TransmitEscaped \/ TransmitEnd
        \/ ReadByte \/ ReadError
        \/ \E i \in DOMAIN wire : Lose(i) \/ \E b \in Bytes : Change(i, b)
        \/ Unplug

Spec == Init /\ [][Next]_vars
-----------------------------------------------------------------------------
(* The buffer of the caller is never overrun, whatever the line carries.   *)
TypeOK ==
    /\ tx \in {"idle", "body", "escape"} /\ out \in Seq(Bytes) /\ sent \in Seq(Packets)
    /\ wire \in Seq([byte : Bytes, of : 1..MaxPackets, closing : BOOLEAN])
    /\ Len(wire) \in 0..WireCapacity
    /\ plugged \in BOOLEAN /\ noise \in 0..MaxNoise /\ hit \subseteq 1..(MaxPackets + 1)
    /\ escaped \in BOOLEAN /\ c \in Bytes
    /\ buffer \in Seq(Bytes) /\ Len(buffer) \in 0..BufferSize
    /\ delivered \in Seq(Seq(Bytes))

(* What a packet comes out as: cut at the length of the receiver's buffer. *)
Cut(p) == SubSeq(p, 1, IF Len(p) < BufferSize THEN Len(p) ELSE BufferSize)

(* Packets come out in the order they went in, with their bytes, whatever  *)
(* codes of SLIP these are, at any moment until something is damaged.      *)
InOrderUntilDamage ==
    plugged /\ hit = {} =>
        /\ Len(delivered) <= Len(sent)
        /\ \A i \in DOMAIN delivered : delivered[i] = Cut(sent[i])

Quiet == plugged /\ tx = "idle" /\ wire = <<>>

(* Damage does not spread: packets before the first one it reaches and     *)
(* after the last one come out whole and in order, since each packet is    *)
(* enclosed in an END of its own on either side.                           *)
DamageConfined ==
    Quiet =>
        \A i \in DOMAIN sent :
            /\ (\A k \in hit : k > i) =>
                   i <= Len(delivered) /\ delivered[i] = Cut(sent[i])
            /\ (\A k \in hit : k < i) =>
                   LET fromEnd == Len(sent) - i
                   IN fromEnd < Len(delivered)
                      /\ delivered[Len(delivered) - fromEnd] = Cut(sent[i])

(* slip.c:119, on a failing read_byte: "if an error occured return         *)
(* immediatly".  No packet comes out of a line that has gone.              *)
NoPacketFromDeadLine == [][~plugged => delivered' = delivered]_vars
=============================================================================
