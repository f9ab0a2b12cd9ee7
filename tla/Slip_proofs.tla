----------------------------- MODULE Slip_proofs -----------------------------
(***************************************************************************)
(* Proofs about Slip, for every set of packets, every length of the        *)
(* receiver's buffer, every capacity of the line and every bound.          *)
(***************************************************************************)
EXTENDS Slip, SequenceTheorems, TLAPS

LinkByte == [byte : Bytes, of : 1..MaxPackets, closing : BOOLEAN]

(* TypeOK is not inductive: a write is put on the account of a packet that *)
(* must exist, and the second byte of an escape needs a byte to stand for. *)
Underway ==
    /\ Len(sent) \in 0..MaxPackets
    /\ tx # "idle" => Len(sent) \in 1..MaxPackets
    /\ tx = "escape" => out # <<>>

LEMMA Codes ==
    /\ END \in Bytes /\ ESC \in Bytes /\ Zero \in Bytes
    /\ \A b \in Bytes : Code(b) \in Bytes /\ Decode(b) \in Bytes
    /\ \A p \in Packets : p \in Seq(Bytes) /\ p # <<>>
    /\ BufferSize \in Nat /\ BufferSize > 0
    /\ WireCapacity \in Nat /\ MaxPackets \in Nat /\ MaxNoise \in Nat
  BY SlipAssumption DEF Bytes, Code, Decode

(* What a write leaves, for any byte and the packet being sent.            *)
LEMMA WriteTypes ==
    ASSUME TypeOK, NEW n \in 1..MaxPackets, NEW b \in Bytes,
           WriteByte(b, n) \/ WriteClosing(n) \/ WriteFails(n)
    PROVE  /\ wire' \in Seq(LinkByte) /\ Len(wire') \in 0..WireCapacity
           /\ noise' \in 0..MaxNoise /\ hit' \subseteq 1..(MaxPackets + 1)
  <1>1. /\ WireCapacity \in Nat /\ MaxPackets \in Nat /\ MaxNoise \in Nat
        /\ wire \in Seq(LinkByte) /\ Len(wire) \in 0..WireCapacity
        /\ noise \in 0..MaxNoise /\ hit \subseteq 1..(MaxPackets + 1)
    BY Codes DEF TypeOK, LinkByte
  <1>2. CASE WriteByte(b, n) \/ WriteClosing(n)
    <2>1. PICK x \in LinkByte : /\ wire' = Append(wire, x) /\ Len(wire) < WireCapacity
                                /\ UNCHANGED <<noise, hit>>
      BY <1>2, Codes DEF WriteByte, WriteClosing, LinkByte
    <2>2. wire' \in Seq(LinkByte) /\ Len(wire') = Len(wire) + 1
      BY <1>1, <2>1, AppendProperties
    <2> QED
      BY <1>1, <2>1, <2>2
  <1>3. CASE WriteFails(n)
    <2>1. n \in 1..(MaxPackets + 1) /\ n + 1 \in 1..(MaxPackets + 1)
      BY <1>1
    <2>2. hit' \subseteq 1..(MaxPackets + 1)
      BY <1>1, <1>3, <2>1 DEF WriteFails, Reached
    <2>3. wire' = wire /\ noise' \in 0..MaxNoise
      BY <1>1, <1>3 DEF WriteFails
    <2> QED
      BY <1>1, <2>2, <2>3
  <1> QED
    BY <1>2, <1>3

(* What a byte taken by the receiver leaves.                               *)
LEMMA ReceiveTypes ==
    ASSUME TypeOK, NEW b \in Bytes, Receive(b)
    PROVE  /\ escaped' \in BOOLEAN /\ c' \in Bytes
           /\ buffer' \in Seq(Bytes) /\ Len(buffer') \in 0..BufferSize
           /\ delivered' \in Seq(Seq(Bytes))
  <1>1. /\ escaped \in BOOLEAN /\ c \in Bytes /\ BufferSize \in Nat /\ BufferSize > 0
        /\ buffer \in Seq(Bytes) /\ Len(buffer) \in 0..BufferSize
        /\ delivered \in Seq(Seq(Bytes))
    BY Codes DEF TypeOK
  <1>2. ASSUME NEW d \in Bytes, Store(d)
        PROVE  buffer' \in Seq(Bytes) /\ Len(buffer') \in 0..BufferSize
    <2>1. Append(buffer, d) \in Seq(Bytes) /\ Len(Append(buffer, d)) = Len(buffer) + 1
      BY <1>1, AppendProperties
    <2> QED
      BY <1>1, <1>2, <2>1 DEF Store
  <1>3. CASE ReceiveEnd(b)
    <2>1. Append(delivered, buffer) \in Seq(Seq(Bytes))
      BY <1>1, AppendProperties
    <2>2. <<>> \in Seq(Bytes) /\ Len(<<>>) = 0
      BY EmptySeq
    <2>3. CASE buffer = <<>>
      BY <1>1, <1>3, <2>3 DEF ReceiveEnd
    <2>4. CASE buffer # <<>>
      <3>1. /\ delivered' = Append(delivered, buffer) /\ buffer' = <<>>
            /\ c' = Zero /\ escaped' = escaped
        BY <1>3, <2>4 DEF ReceiveEnd
      <3>2. Zero \in Bytes /\ 0 \in 0..BufferSize
        BY <1>1, Codes
      <3>3. buffer' \in Seq(Bytes) /\ Len(buffer') \in 0..BufferSize
        BY <2>2, <3>1, <3>2
      <3> QED
        BY <1>1, <2>1, <3>1, <3>2, <3>3
    <2> QED
      BY <2>3, <2>4
  <1>4. CASE ReceiveEscape(b)
    BY <1>1, <1>4 DEF ReceiveEscape
  <1>5. CASE ReceivePlain(b)
    BY <1>1, <1>2, <1>5 DEF ReceivePlain
  <1>6. CASE ReceiveEscaped(b)
    BY <1>1, <1>2, <1>6, Codes DEF ReceiveEscaped
  <1> QED
    BY <1>3, <1>4, <1>5, <1>6 DEF Receive

LEMMA TypeInit == Init => TypeOK /\ Underway
  <1>1. /\ <<>> \in Seq(Bytes) /\ <<>> \in Seq(Packets) /\ <<>> \in Seq(LinkByte)
        /\ <<>> \in Seq(Seq(Bytes)) /\ Len(<<>>) = 0
    BY EmptySeq
  <1>2. /\ 0 \in 0..MaxPackets /\ 0 \in 0..WireCapacity
        /\ 0 \in 0..MaxNoise /\ 0 \in 0..BufferSize /\ Zero \in Bytes
    BY Codes
  <1> SUFFICES ASSUME Init PROVE TypeOK /\ Underway
    OBVIOUS
  <1>3. Len(wire) \in 0..WireCapacity /\ Len(buffer) \in 0..BufferSize /\ Len(sent) \in 0..MaxPackets
    BY <1>1, <1>2 DEF Init
  <1> QED
    BY <1>1, <1>2, <1>3 DEF Init, TypeOK, Underway, LinkByte

LEMMA TypeTransmit ==
    ASSUME TypeOK, Underway,
           \/ \E p \in Packets : TransmitStart(p)
           \/ TransmitPlain \/ TransmitEscape \/ TransmitEscaped \/ TransmitEnd
    PROVE  TypeOK' /\ Underway'
  <1>1. /\ MaxPackets \in Nat /\ out \in Seq(Bytes) /\ sent \in Seq(Packets)
        /\ Len(sent) \in 0..MaxPackets
    BY Codes DEF TypeOK, Underway
  <1>2. out # <<>> => Head(out) \in Bytes /\ Tail(out) \in Seq(Bytes)
    BY <1>1, HeadTailProperties
  <1> DEFINE Sends == /\ tx' \in {"idle", "body", "escape"} /\ out' \in Seq(Bytes)
                      /\ sent' \in Seq(Packets) /\ Underway'
                      /\ UNCHANGED <<rxVars, plugged>>
                      /\ \E n \in 1..MaxPackets, b \in Bytes :
                            WriteByte(b, n) \/ WriteClosing(n) \/ WriteFails(n)
  <1> HIDE DEF Sends
  <1>3. ASSUME NEW p \in Packets, TransmitStart(p) PROVE Sends
    <2>1. sent' = Append(sent, p) /\ out' = p /\ tx' = "body" /\ Len(sent) < MaxPackets
      BY <1>3 DEF TransmitStart
    <2>2. sent' \in Seq(Packets) /\ Len(sent') = Len(sent) + 1
      BY <1>1, <2>1, AppendProperties
    <2>3. Len(sent) + 1 \in 1..MaxPackets /\ Underway'
      BY <1>1, <2>1, <2>2 DEF Underway
    <2> QED
      BY <1>3, <2>1, <2>2, <2>3, Codes DEF Sends, TransmitStart
  <1>4. ASSUME TransmitPlain PROVE Sends
    <2>1. Len(sent) \in 1..MaxPackets /\ (tx = "escape" => out # <<>>)
      BY <1>4 DEF TransmitPlain, Underway
    <2>2. /\ tx' \in {"idle", "body", "escape"} /\ out' \in Seq(Bytes)
          /\ sent' = sent /\ (tx' = "escape" => out' # <<>>)
      BY <1>1, <1>2, <1>4, <2>1 DEF TransmitPlain
    <2>3. UNCHANGED <<rxVars, plugged>>
      BY <1>4 DEF TransmitPlain
    <2>4. WriteByte(Head(out), Len(sent)) \/ WriteFails(Len(sent))
      BY <1>4 DEF TransmitPlain
    <2>5. \E n \in 1..MaxPackets, b \in Bytes :
             WriteByte(b, n) \/ WriteClosing(n) \/ WriteFails(n)
      BY <1>2, <1>4, <2>1, <2>4, Codes DEF TransmitPlain
    <2>6. Underway' /\ sent' \in Seq(Packets)
      BY <1>1, <2>1, <2>2 DEF Underway
    <2> QED
      BY <2>2, <2>3, <2>5, <2>6 DEF Sends
  <1>5. ASSUME TransmitEscape PROVE Sends
    <2>1. Len(sent) \in 1..MaxPackets /\ (tx = "escape" => out # <<>>)
      BY <1>5 DEF TransmitEscape, Underway
    <2>2. /\ tx' \in {"idle", "body", "escape"} /\ out' \in Seq(Bytes)
          /\ sent' = sent /\ (tx' = "escape" => out' # <<>>)
      BY <1>1, <1>2, <1>5, <2>1 DEF TransmitEscape
    <2>3. UNCHANGED <<rxVars, plugged>>
      BY <1>5 DEF TransmitEscape
    <2>4. WriteByte(ESC, Len(sent)) \/ WriteFails(Len(sent))
      BY <1>5 DEF TransmitEscape
    <2>5. \E n \in 1..MaxPackets, b \in Bytes :
             WriteByte(b, n) \/ WriteClosing(n) \/ WriteFails(n)
      BY <1>2, <1>5, <2>1, <2>4, Codes DEF TransmitEscape
    <2>6. Underway' /\ sent' \in Seq(Packets)
      BY <1>1, <2>1, <2>2 DEF Underway
    <2> QED
      BY <2>2, <2>3, <2>5, <2>6 DEF Sends
  <1>6. ASSUME TransmitEscaped PROVE Sends
    <2>1. Len(sent) \in 1..MaxPackets /\ (tx = "escape" => out # <<>>)
      BY <1>6 DEF TransmitEscaped, Underway
    <2>2. /\ tx' \in {"idle", "body", "escape"} /\ out' \in Seq(Bytes)
          /\ sent' = sent /\ (tx' = "escape" => out' # <<>>)
      BY <1>1, <1>2, <1>6, <2>1 DEF TransmitEscaped
    <2>3. UNCHANGED <<rxVars, plugged>>
      BY <1>6 DEF TransmitEscaped
    <2>4. WriteByte(Code(Head(out)), Len(sent)) \/ WriteFails(Len(sent))
      BY <1>6 DEF TransmitEscaped
    <2>5. \E n \in 1..MaxPackets, b \in Bytes :
             WriteByte(b, n) \/ WriteClosing(n) \/ WriteFails(n)
      BY <1>2, <1>6, <2>1, <2>4, Codes DEF TransmitEscaped
    <2>6. Underway' /\ sent' \in Seq(Packets)
      BY <1>1, <2>1, <2>2 DEF Underway
    <2> QED
      BY <2>2, <2>3, <2>5, <2>6 DEF Sends
  <1>7. ASSUME TransmitEnd PROVE Sends
    <2>1. Len(sent) \in 1..MaxPackets /\ (tx = "escape" => out # <<>>)
      BY <1>7 DEF TransmitEnd, Underway
    <2>2. /\ tx' \in {"idle", "body", "escape"} /\ out' \in Seq(Bytes)
          /\ sent' = sent /\ (tx' = "escape" => out' # <<>>)
      BY <1>1, <1>2, <1>7, <2>1 DEF TransmitEnd
    <2>3. UNCHANGED <<rxVars, plugged>>
      BY <1>7 DEF TransmitEnd
    <2>4. WriteClosing(Len(sent)) \/ WriteFails(Len(sent))
      BY <1>7 DEF TransmitEnd
    <2>5. \E n \in 1..MaxPackets, b \in Bytes :
             WriteByte(b, n) \/ WriteClosing(n) \/ WriteFails(n)
      BY <1>2, <1>7, <2>1, <2>4, Codes DEF TransmitEnd
    <2>6. Underway' /\ sent' \in Seq(Packets)
      BY <1>1, <2>1, <2>2 DEF Underway
    <2> QED
      BY <2>2, <2>3, <2>5, <2>6 DEF Sends
  <1>8. Sends
    BY <1>3, <1>4, <1>5, <1>6, <1>7
  <1>9. PICK n \in 1..MaxPackets, b \in Bytes : WriteByte(b, n) \/ WriteClosing(n) \/ WriteFails(n)
    BY <1>8 DEF Sends
  <1>10. /\ wire' \in Seq(LinkByte) /\ Len(wire') \in 0..WireCapacity
         /\ noise' \in 0..MaxNoise /\ hit' \subseteq 1..(MaxPackets + 1)
    BY <1>9, WriteTypes
  <1> QED
    BY <1>8, <1>10 DEF Sends, TypeOK, LinkByte, rxVars

(* Damage to a byte on its way, a byte lost, and the bytes around it.      *)
LEMMA TypeLine ==
    ASSUME TypeOK, Underway,
           \/ ReadByte \/ ReadError \/ Unplug
           \/ \E i \in DOMAIN wire : Lose(i) \/ \E b \in Bytes : Change(i, b)
    PROVE  TypeOK' /\ Underway'
  <1>1. /\ WireCapacity \in Nat /\ MaxPackets \in Nat /\ MaxNoise \in Nat
        /\ wire \in Seq(LinkByte) /\ Len(wire) \in 0..WireCapacity
        /\ noise \in 0..MaxNoise /\ hit \subseteq 1..(MaxPackets + 1)
        /\ c \in Bytes
    BY Codes DEF TypeOK, LinkByte
  <1>2. wire # <<>> => /\ Head(wire) \in LinkByte /\ Tail(wire) \in Seq(LinkByte)
                       /\ Len(wire) > 0 /\ Len(Tail(wire)) = Len(wire) - 1
    BY <1>1, HeadTailProperties, EmptySeq
  <1>3. CASE ReadByte
    <2>1. Head(wire).byte \in Bytes /\ Receive(Head(wire).byte)
      BY <1>2, <1>3 DEF ReadByte, LinkByte
    <2>2. wire' \in Seq(LinkByte) /\ Len(wire') \in 0..WireCapacity
      BY <1>1, <1>2, <1>3 DEF ReadByte
    <2> QED
      BY <1>3, <2>1, <2>2, ReceiveTypes DEF ReadByte, TypeOK, Underway, LinkByte, txVars
  <1>4. CASE ReadError
    BY <1>1, <1>4, ReceiveTypes DEF ReadError, TypeOK, Underway, txVars
  <1>5. CASE Unplug
    <2>1. wire' = <<>> /\ <<>> \in Seq(LinkByte) /\ Len(<<>>) = 0
      BY <1>5, EmptySeq DEF Unplug
    <2>2. wire' \in Seq(LinkByte) /\ Len(wire') \in 0..WireCapacity
      BY <1>1, <2>1
    <2>3. plugged' \in BOOLEAN /\ UNCHANGED <<txVars, rxVars, noise, hit>>
      BY <1>5 DEF Unplug
    <2> QED
      BY <2>2, <2>3 DEF TypeOK, Underway, LinkByte, txVars, rxVars
  <1>6. ASSUME NEW i \in DOMAIN wire, Lose(i) \/ \E b \in Bytes : Change(i, b)
        PROVE  TypeOK' /\ Underway'
    <2>1. i \in 1..Len(wire) /\ wire[i] \in LinkByte
      BY <1>1, LenProperties, ElementOfSeq
    <2>2. wire[i].of \in 1..(MaxPackets + 1) /\ wire[i].of + 1 \in 1..(MaxPackets + 1)
      BY <1>1, <2>1 DEF LinkByte
    <2>3. hit' \subseteq 1..(MaxPackets + 1)
      <3>1. \E any \in BOOLEAN : hit' = Reached(wire[i].of, any)
        BY <1>6 DEF Lose, Change
      <3> QED
        BY <1>1, <2>2, <3>1 DEF Reached
    <2>4. noise' \in 0..MaxNoise
      <3>1. noise < MaxNoise /\ noise' = noise + 1
        BY <1>6 DEF Lose, Change
      <3> QED
        BY <1>1, <3>1
    <2>5. ASSUME NEW b \in Bytes, Change(i, b)
          PROVE  wire' \in Seq(LinkByte) /\ Len(wire') = Len(wire)
      <3>1. [wire[i] EXCEPT !.byte = b] \in LinkByte
        BY <2>1 DEF LinkByte
      <3>2. wire' = [wire EXCEPT ![i] = [wire[i] EXCEPT !.byte = b]]
        BY <2>5 DEF Change
      <3> QED
        BY <1>1, <2>1, <3>1, <3>2, ExceptSeq
    <2>6. ASSUME Lose(i)
          PROVE  wire' \in Seq(LinkByte) /\ Len(wire') \in 0..WireCapacity
      <3>1. \A j \in 1..Len(wire) : wire[j] \in LinkByte
        BY <1>1, ElementOfSeq
      <3>2. /\ SubSeq(wire, 1, i - 1) \in Seq(LinkByte)
            /\ Len(SubSeq(wire, 1, i - 1)) = i - 1
        <4>1. /\ 1 \in Int /\ i - 1 \in Int /\ \A j \in 1..(i - 1) : wire[j] \in LinkByte
              /\ (IF 1 <= i - 1 THEN (i - 1) - 1 + 1 ELSE 0) = i - 1
          BY <1>1, <2>1, <3>1
        <4> QED
          BY <4>1, SubSeqProperties
      <3>3. /\ SubSeq(wire, i + 1, Len(wire)) \in Seq(LinkByte)
            /\ Len(SubSeq(wire, i + 1, Len(wire))) = Len(wire) - i
        <4>1. /\ i + 1 \in Int /\ Len(wire) \in Int
              /\ \A j \in (i + 1)..Len(wire) : wire[j] \in LinkByte
              /\ (IF i + 1 <= Len(wire) THEN Len(wire) - (i + 1) + 1 ELSE 0) = Len(wire) - i
          BY <1>1, <2>1, <3>1
        <4> QED
          BY <4>1, SubSeqProperties
      <3>4. wire' = SubSeq(wire, 1, i - 1) \o SubSeq(wire, i + 1, Len(wire))
        BY <2>6 DEF Lose
      <3>5. wire' \in Seq(LinkByte) /\ Len(wire') = (i - 1) + (Len(wire) - i)
        BY <3>2, <3>3, <3>4, ConcatProperties
      <3> QED
        BY <1>1, <2>1, <3>5
    <2>7. UNCHANGED <<txVars, rxVars, plugged>>
      BY <1>6 DEF Lose, Change
    <2>8. wire' \in Seq(LinkByte) /\ Len(wire') \in 0..WireCapacity
      BY <1>1, <1>6, <2>5, <2>6
    <2> QED
      BY <2>3, <2>4, <2>7, <2>8 DEF TypeOK, Underway, LinkByte, txVars, rxVars
  <1> QED
    BY <1>3, <1>4, <1>5, <1>6

LEMMA TypeNext == TypeOK /\ Underway /\ [Next]_vars => TypeOK' /\ Underway'
  <1> SUFFICES ASSUME TypeOK, Underway, [Next]_vars PROVE TypeOK' /\ Underway'
    OBVIOUS
  <1>1. CASE Next
    BY <1>1, TypeTransmit, TypeLine DEF Next
  <1>2. CASE UNCHANGED vars
    BY <1>2 DEF vars, txVars, rxVars, TypeOK, Underway
  <1> QED
    BY <1>1, <1>2

(* The buffer slip_receive_packet is given is never overrun, whatever the  *)
(* line carries and wherever it breaks, and every byte stays a byte.       *)
THEOREM TypeCorrect == Spec => []TypeOK
  BY TypeInit, TypeNext, PTL DEF Spec
-----------------------------------------------------------------------------
(* What comes out.  A packet is an END, its bytes and an END; at is where  *)
(* a byte stands in it: 0 the opening END, 2n-1 the n-th byte or the ESC   *)
(* in its place, 2n the code behind that ESC, Whole the closing END.       *)
Whole(j) == 2 * Len(sent[j]) + 1

Coded(j, n) == sent[j][n] \in {END, ESC}

OnPath(j, a) ==
    \/ a = 0
    \/ /\ j \in 1..Len(sent)
       /\ \/ a = Whole(j)
          \/ \E n \in 1..Len(sent[j]) : a = 2 * n - 1 \/ (a = 2 * n /\ Coded(j, n))

Meant(j, a, b) ==
    \/ a \in {0, Whole(j)} /\ b = END
    \/ \E n \in 1..Len(sent[j]) :
          \/ a = 2 * n - 1 /\ b = IF Coded(j, n) THEN ESC ELSE sent[j][n]
          \/ a = 2 * n /\ Coded(j, n) /\ b = Code(sent[j][n])

Before(j, a, k, b) == j < k \/ (j = k /\ a < b)

(* What the first n bytes of a packet leave in the receiver's buffer.      *)
Part(j, n) == SubSeq(sent[j], 1, IF n < BufferSize THEN n ELSE BufferSize)

Stored(s, b) == IF Len(s) < BufferSize THEN Append(s, b) ELSE s

(* dam holds, packet by packet, the places a byte was changed at or is     *)
(* missing from; a write that fails on an ESC takes its code along.        *)
Missing(dam, j, a) ==
    \/ a \in dam[j]
    \/ \E n \in 1..Len(sent[j]) : a = 2 * n /\ 2 * n - 1 \in dam[j]

(* Between two places of the line everything is missing.                   *)
Gap(dam, j, a, k, b) ==
    \A x \in 1..Len(sent) : \A y \in Nat :
        OnPath(x, y) /\ Before(j, a, x, y) /\ Before(x, y, k, b) => Missing(dam, x, y)

Damage(dam) ==
    /\ dam \in [Nat -> SUBSET Nat]
    /\ \A j \in Nat : dam[j] # {} => j \in hit
    /\ \A j \in Nat : \A x, y \in dam[j] : x # y => j + 1 \in hit

(* What the receiver has made of everything before place a of packet j.    *)
InSync(a) == \A n \in Nat : (a = 2 * n + 1 => ~escaped) /\ (a = 2 * n + 2 => escaped)

AtOpening(j, a) ==
    a = 0 => /\ j \notin hit => ~escaped
             /\ j - 1 \notin hit => ~escaped /\ buffer = <<>>

InPacket(j, a) ==
    a > 0 /\ j \notin hit =>
        /\ InSync(a)
        /\ \A n \in Nat : a \in {2 * n + 1, 2 * n + 2} => buffer = Part(j, n)

BackInSync(dam, j, a) ==
    a > 0 /\ j + 1 \notin hit => InSync(a) \/ \E d \in dam[j] : d < a

FirstOut(j) ==
    \A i \in 1..(j - 1) :
        (\A k \in hit : k > i) => i <= Len(delivered) /\ delivered[i] = Cut(sent[i])

CountOut(j, a) ==
    (\A k \in hit : k >= j) /\ (a = 0 \/ j \notin hit) => Len(delivered) = j - 1

LastOut(j) ==
    \A i \in 1..(j - 1) :
        (\A k \in hit : k < i) =>
            /\ (j - 1) - i < Len(delivered)
            /\ delivered[Len(delivered) - ((j - 1) - i)] = Cut(sent[i])

Heard(dam, j, a) ==
    /\ AtOpening(j, a) /\ InPacket(j, a) /\ BackInSync(dam, j, a)
    /\ FirstOut(j) /\ CountOut(j, a) /\ LastOut(j)

LEMMA SentTypes ==
    ASSUME TypeOK
    PROVE  /\ Len(sent) \in Nat
           /\ \A j \in 1..Len(sent) : /\ sent[j] \in Seq(Bytes)
                                      /\ Len(sent[j]) \in Nat /\ Len(sent[j]) > 0
                                      /\ \A n \in 1..Len(sent[j]) : sent[j][n] \in Bytes
  <1>1. sent \in Seq(Packets) /\ Len(sent) \in Nat
    BY LenProperties DEF TypeOK
  <1>2. ASSUME NEW j \in 1..Len(sent)
        PROVE  /\ sent[j] \in Seq(Bytes)
               /\ Len(sent[j]) \in Nat /\ Len(sent[j]) > 0
               /\ \A n \in 1..Len(sent[j]) : sent[j][n] \in Bytes
    <2>1. sent[j] \in Seq(Bytes) /\ sent[j] # <<>>
      BY <1>1, Codes, ElementOfSeq
    <2>2. Len(sent[j]) \in Nat \ {0}
      BY <2>1, EmptySeq
    <2>3. \A n \in 1..Len(sent[j]) : sent[j][n] \in Bytes
      BY <2>1, ElementOfSeq
    <2> QED
      BY <2>1, <2>2, <2>3
  <1> QED
    BY <1>1, <1>2

(* The buffer as the bytes of a packet arrive.                             *)
LEMMA PartGrows ==
    ASSUME TypeOK, NEW j \in 1..Len(sent)
    PROVE  /\ Part(j, 0) = <<>>
           /\ Part(j, Len(sent[j])) = Cut(sent[j])
           /\ Part(j, Len(sent[j])) # <<>>
           /\ \A n \in 1..Len(sent[j]) : Part(j, n) = Stored(Part(j, n - 1), sent[j][n])
  <1> DEFINE s == sent[j]
             min(n) == IF n < BufferSize THEN n ELSE BufferSize
  <1>1. /\ s \in Seq(Bytes) /\ Len(s) \in Nat /\ Len(s) > 0
        /\ \A n \in 1..Len(s) : s[n] \in Bytes
        /\ BufferSize \in Nat /\ BufferSize > 0
    BY SentTypes, Codes
  <1> HIDE DEF s
  <1>2. ASSUME NEW m \in 0..Len(s)
        PROVE  /\ SubSeq(s, 1, m) \in Seq(Bytes) /\ Len(SubSeq(s, 1, m)) = m
               /\ \A k \in 1..m : SubSeq(s, 1, m)[k] = s[k]
    <2>1. 1 \in Int /\ m \in Int /\ \A k \in 1..m : s[k] \in Bytes
      BY <1>1
    <2>2. /\ SubSeq(s, 1, m) \in Seq(Bytes)
          /\ Len(SubSeq(s, 1, m)) = IF 1 <= m THEN m - 1 + 1 ELSE 0
          /\ \A k \in 1..(m - 1 + 1) : SubSeq(s, 1, m)[k] = s[1 + k - 1]
      BY <2>1, SubSeqProperties
    <2> QED
      BY <2>2
  <1>3. \A n \in 0..Len(s) : min(n) \in 0..Len(s)
    BY <1>1
  <1>4. \A n \in Nat : Part(j, n) = SubSeq(s, 1, min(n))
    BY DEF Part, s
  <1>5. Part(j, 0) = <<>>
    <2>1. Part(j, 0) = SubSeq(s, 1, 0)
      BY <1>1, <1>4
    <2> QED
      BY <2>1, SubSeqEmpty
  <1>6. Part(j, Len(s)) # <<>>
    <2>1. Len(SubSeq(s, 1, min(Len(s)))) > 0
      BY <1>1, <1>2, <1>3
    <2> QED
      BY <1>1, <1>4, <2>1
  <1>7. ASSUME NEW n \in 1..Len(s)
        PROVE  Part(j, n) = Stored(Part(j, n - 1), s[n])
    <2> DEFINE u == SubSeq(s, 1, min(n - 1))
               v == SubSeq(s, 1, min(n))
    <2>1. /\ u \in Seq(Bytes) /\ Len(u) = min(n - 1) /\ \A k \in 1..min(n - 1) : u[k] = s[k]
          /\ v \in Seq(Bytes) /\ Len(v) = min(n) /\ \A k \in 1..min(n) : v[k] = s[k]
      <3>1. min(n - 1) \in 0..Len(s) /\ min(n) \in 0..Len(s)
        BY <1>1
      <3> QED
        BY <1>2, <3>1
    <2>2. Part(j, n - 1) = u /\ Part(j, n) = v
      BY <1>1, <1>4
    <2> HIDE DEF u, v
    <2>3. CASE n - 1 < BufferSize
      <3>1. min(n - 1) = n - 1 /\ min(n) = n
        BY <1>1, <2>3
      <3>2. /\ Append(u, s[n]) \in Seq(Bytes) /\ Len(Append(u, s[n])) = Len(u) + 1
            /\ \A k \in 1..Len(u) : Append(u, s[n])[k] = u[k]
            /\ Append(u, s[n])[Len(u) + 1] = s[n]
        BY <1>1, <2>1, AppendProperties
      <3>3. Len(v) = Len(Append(u, s[n])) /\ \A k \in 1..Len(v) : v[k] = Append(u, s[n])[k]
        BY <1>1, <2>1, <3>1, <3>2
      <3>4. v = Append(u, s[n])
        BY <2>1, <3>2, <3>3, SeqEqual
      <3> QED
        BY <2>1, <2>2, <2>3, <3>1, <3>4 DEF Stored
    <2>4. CASE ~(n - 1 < BufferSize)
      <3>1. min(n - 1) = BufferSize /\ min(n) = BufferSize
        BY <1>1, <2>4
      <3> QED
        BY <1>1, <2>1, <2>2, <3>1 DEF Stored, u, v
    <2> QED
      BY <2>3, <2>4
  <1> QED
    BY <1>5, <1>6, <1>7 DEF Part, Cut, s

(* slip_receive_packet, byte by byte.                                      *)
LEMMA Received ==
    ASSUME TypeOK, NEW b \in Bytes, Receive(b)
    PROVE  /\ escaped => /\ ~escaped' /\ delivered' = delivered
                         /\ buffer' = Stored(buffer, Decode(b))
           /\ ~escaped /\ b = END /\ buffer = <<>> =>
                 ~escaped' /\ delivered' = delivered /\ buffer' = <<>>
           /\ ~escaped /\ b = END /\ buffer # <<>> =>
                 ~escaped' /\ delivered' = Append(delivered, buffer) /\ buffer' = <<>>
           /\ ~escaped /\ b = ESC =>
                 escaped' /\ delivered' = delivered /\ buffer' = buffer
           /\ ~escaped /\ b \notin {END, ESC} =>
                 ~escaped' /\ delivered' = delivered /\ buffer' = Stored(buffer, b)
           /\ Len(delivered) \in Nat /\ Len(delivered') \in Nat
           /\ Len(delivered) <= Len(delivered')
           /\ \A i \in 1..Len(delivered) : delivered'[i] = delivered[i]
  <1>1. END # ESC
    BY SlipAssumption
  <1>2. escaped \in BOOLEAN
    BY DEF TypeOK
  <1>3. /\ escaped => /\ ~escaped' /\ delivered' = delivered
                      /\ buffer' = Stored(buffer, Decode(b))
        /\ ~escaped /\ b = END /\ buffer = <<>> =>
              ~escaped' /\ delivered' = delivered /\ buffer' = <<>>
        /\ ~escaped /\ b = END /\ buffer # <<>> =>
              ~escaped' /\ delivered' = Append(delivered, buffer) /\ buffer' = <<>>
        /\ ~escaped /\ b = ESC =>
              escaped' /\ delivered' = delivered /\ buffer' = buffer
        /\ ~escaped /\ b \notin {END, ESC} =>
              ~escaped' /\ delivered' = delivered /\ buffer' = Stored(buffer, b)
    <2>1. CASE ReceiveEnd(b)
      BY <1>1, <1>2, <2>1 DEF ReceiveEnd
    <2>2. CASE ReceiveEscape(b)
      BY <1>1, <1>2, <2>2 DEF ReceiveEscape
    <2>3. CASE ReceivePlain(b)
      BY <1>1, <1>2, <2>3 DEF ReceivePlain, Store, Stored
    <2>4. CASE ReceiveEscaped(b)
      BY <1>1, <1>2, <2>4 DEF ReceiveEscaped, Store, Stored
    <2> QED
      BY <2>1, <2>2, <2>3, <2>4 DEF Receive
  <1>4. delivered \in Seq(Seq(Bytes)) /\ buffer \in Seq(Bytes) /\ Len(delivered) \in Nat
    BY LenProperties DEF TypeOK
  <1>5. delivered' = delivered \/ delivered' = Append(delivered, buffer)
    BY <1>2, <1>3
  <1>6. CASE delivered' = Append(delivered, buffer)
    <2>1. /\ Len(delivered') = Len(delivered) + 1
          /\ \A i \in 1..Len(delivered) : delivered'[i] = delivered[i]
      BY <1>4, <1>6, AppendProperties
    <2> QED
      BY <1>3, <1>4, <2>1
  <1> QED
    BY <1>3, <1>4, <1>5, <1>6

(* A place in a packet is one of five, each with its byte and the place    *)
(* that follows it.                                                        *)
Opening(j, a, b, next) == a = 0 /\ b = END /\ next = 1

Plain(j, n, a, b, next) ==
    /\ a = 2 * n - 1 /\ ~Coded(j, n) /\ b = sent[j][n] /\ next = 2 * n + 1

FirstOfTwo(j, n, a, b, next) ==
    /\ a = 2 * n - 1 /\ Coded(j, n) /\ b = ESC /\ next = 2 * n

SecondOfTwo(j, n, a, b, next) ==
    /\ a = 2 * n /\ Coded(j, n) /\ b = Code(sent[j][n]) /\ next = 2 * n + 1

Inside(j, a, b, next) ==
    \/ Opening(j, a, b, next)
    \/ \E n \in 1..Len(sent[j]) : \/ Plain(j, n, a, b, next)
                                  \/ FirstOfTwo(j, n, a, b, next)
                                  \/ SecondOfTwo(j, n, a, b, next)

LEMMA PlaceInside ==
    ASSUME TypeOK, NEW j \in 1..Len(sent), NEW a \in Nat, OnPath(j, a)
    PROVE  /\ a <= Whole(j) /\ Whole(j) \in Nat /\ Whole(j) >= 3
           /\ a = Whole(j) => \A b : Meant(j, a, b) => b = END
           /\ a # Whole(j) =>
                 \E next \in Nat :
                     /\ OnPath(j, next) /\ a < next
                     /\ \A y \in Nat : OnPath(j, y) => ~(a < y /\ y < next)
                     /\ \E b : Inside(j, a, b, next) /\ \A d : Meant(j, a, d) => d = b
  <1> DEFINE L == Len(sent[j])
  <1>1. L \in Nat /\ L > 0
    BY SentTypes
  <1>2. Whole(j) = 2 * L + 1
    BY DEF Whole
  <1> HIDE DEF L
  <1>3. \A y \in Nat : OnPath(j, y) <=>
            \/ y = 0 \/ y = 2 * L + 1
            \/ \E n \in 1..L : y = 2 * n - 1 \/ (y = 2 * n /\ Coded(j, n))
    BY <1>2 DEF OnPath, L
  <1>4. \A y, b : Meant(j, y, b) <=>
            \/ y \in {0, 2 * L + 1} /\ b = END
            \/ \E n \in 1..L : \/ y = 2 * n - 1 /\ b = IF Coded(j, n) THEN ESC ELSE sent[j][n]
                               \/ y = 2 * n /\ Coded(j, n) /\ b = Code(sent[j][n])
    BY <1>2 DEF Meant, L
  <1>5. a <= Whole(j) /\ Whole(j) \in Nat /\ Whole(j) >= 3
    BY <1>1, <1>2, <1>3
  <1>6. ASSUME a = Whole(j), NEW b, Meant(j, a, b) PROVE b = END
    <2>1. ~ \E n \in 1..L : a = 2 * n - 1 \/ a = 2 * n
      BY <1>1, <1>2, <1>6
    <2> QED
      BY <1>4, <1>6, <2>1
  <1> DEFINE Follows(next, b) ==
                 /\ OnPath(j, next) /\ a < next
                 /\ \A y \in Nat : OnPath(j, y) => ~(a < y /\ y < next)
                 /\ Inside(j, a, b, next) /\ \A d : Meant(j, a, d) => d = b
  <1>7. ASSUME a = 0 PROVE Follows(1, END)
    <2>1. OnPath(j, 1)
      BY <1>1, <1>3
    <2>2. \A d : Meant(j, a, d) => d = END
      BY <1>1, <1>4, <1>7
    <2> QED
      BY <1>7, <2>1, <2>2 DEF Inside, Opening
  <1>8. ASSUME NEW n \in 1..L, a = 2 * n - 1, ~Coded(j, n) PROVE Follows(2 * n + 1, sent[j][n])
    <2>1. OnPath(j, 2 * n + 1)
      <3>1. CASE n = L
        BY <1>1, <1>3, <3>1
      <3>2. CASE n # L
        <4>1. n + 1 \in 1..L /\ 2 * n + 1 = 2 * (n + 1) - 1 /\ 2 * n + 1 \in Nat
          BY <1>1, <3>2
        <4> QED
          BY <1>3, <4>1
      <3> QED
        BY <3>1, <3>2
    <2>2. ASSUME NEW y \in Nat, OnPath(j, y), a < y, y < 2 * n + 1 PROVE FALSE
      <3>1. y = 2 * n
        BY <1>1, <1>8, <2>2
      <3>2. \E m \in 1..L : y = 2 * m - 1 \/ (y = 2 * m /\ Coded(j, m))
        BY <1>1, <1>3, <2>2, <3>1
      <3> QED
        BY <1>1, <1>8, <3>1, <3>2
    <2>3. ASSUME NEW d, Meant(j, a, d) PROVE d = sent[j][n]
      <3>1. PICK m \in 1..L : \/ a = 2 * m - 1 /\ d = IF Coded(j, m) THEN ESC ELSE sent[j][m]
                              \/ a = 2 * m /\ Coded(j, m) /\ d = Code(sent[j][m])
        BY <1>1, <1>4, <1>8, <2>3
      <3>2. m = n /\ a # 2 * m
        BY <1>1, <1>8, <3>1
      <3> QED
        BY <1>8, <3>1, <3>2
    <2>4. Inside(j, a, sent[j][n], 2 * n + 1)
      BY <1>8 DEF Inside, Plain, L
    <2> QED
      BY <1>1, <1>8, <2>1, <2>2, <2>3, <2>4
  <1>9. ASSUME NEW n \in 1..L, a = 2 * n - 1, Coded(j, n) PROVE Follows(2 * n, ESC)
    <2>1. OnPath(j, 2 * n)
      BY <1>1, <1>3, <1>9
    <2>2. ASSUME NEW d, Meant(j, a, d) PROVE d = ESC
      <3>1. PICK m \in 1..L : \/ a = 2 * m - 1 /\ d = IF Coded(j, m) THEN ESC ELSE sent[j][m]
                              \/ a = 2 * m /\ Coded(j, m) /\ d = Code(sent[j][m])
        BY <1>1, <1>4, <1>9, <2>2
      <3>2. m = n /\ a # 2 * m
        BY <1>1, <1>9, <3>1
      <3> QED
        BY <1>9, <3>1, <3>2
    <2>3. Inside(j, a, ESC, 2 * n)
      BY <1>9 DEF Inside, FirstOfTwo, L
    <2> QED
      BY <1>1, <1>9, <2>1, <2>2, <2>3
  <1>10. ASSUME NEW n \in 1..L, a = 2 * n, Coded(j, n) PROVE Follows(2 * n + 1, Code(sent[j][n]))
    <2>1. OnPath(j, 2 * n + 1)
      <3>1. CASE n = L
        BY <1>1, <1>3, <3>1
      <3>2. CASE n # L
        <4>1. n + 1 \in 1..L /\ 2 * n + 1 = 2 * (n + 1) - 1 /\ 2 * n + 1 \in Nat
          BY <1>1, <3>2
        <4> QED
          BY <1>3, <4>1
      <3> QED
        BY <3>1, <3>2
    <2>2. ASSUME NEW d, Meant(j, a, d) PROVE d = Code(sent[j][n])
      <3>1. PICK m \in 1..L : \/ a = 2 * m - 1 /\ d = IF Coded(j, m) THEN ESC ELSE sent[j][m]
                              \/ a = 2 * m /\ Coded(j, m) /\ d = Code(sent[j][m])
        BY <1>1, <1>4, <1>10, <2>2
      <3>2. m = n /\ a # 2 * m - 1
        BY <1>1, <1>10, <3>1
      <3> QED
        BY <1>10, <3>1, <3>2
    <2>3. Inside(j, a, Code(sent[j][n]), 2 * n + 1)
      BY <1>10 DEF Inside, SecondOfTwo, L
    <2> QED
      BY <1>1, <1>10, <2>1, <2>2, <2>3
  <1>11. ASSUME a # Whole(j) PROVE \E next \in Nat : \E b : Follows(next, b)
    <2>1. CASE a = 0
      BY <1>7, <2>1
    <2>2. CASE a # 0
      <3>1. PICK n \in 1..L : a = 2 * n - 1 \/ (a = 2 * n /\ Coded(j, n))
        BY <1>2, <1>3, <1>11, <2>2
      <3>2. 2 * n \in Nat /\ 2 * n + 1 \in Nat
        BY <1>1
      <3> HIDE DEF Follows
      <3> QED
        BY <1>8, <1>9, <1>10, <3>1, <3>2
    <2> QED
      BY <2>1, <2>2
  <1> QED
    BY <1>5, <1>6, <1>11

(* What a gap says of the packets it reaches into.                         *)
LEMMA GapDamage ==
    ASSUME TypeOK, NEW dam, Damage(dam),
           NEW j \in 1..Len(sent), NEW a \in Nat, OnPath(j, a),
           NEW k \in 1..(Len(sent) + 1), NEW b \in Nat, OnPath(k, b),
           Before(j, a, k, b), Gap(dam, j, a, k, b)
    PROVE  /\ j <= k
           /\ \A x \in Nat : j < x /\ x < k => x \in hit /\ x + 1 \in hit
           /\ b > 0 /\ j < k => 0 \in dam[k] /\ k \in hit
           /\ j < k /\ a # Whole(j) => Whole(j) \in dam[j] /\ j \in hit
           /\ k = j => \A y \in Nat : OnPath(j, y) /\ a < y /\ y < b =>
                           \E d \in dam[j] : d < b
           /\ j < k => \A y \in Nat : OnPath(j, y) /\ a < y =>
                           y \in dam[j] \/ (y # Whole(j) /\ y - 1 \in dam[j] /\ a <= y - 1)
  <1>1. Len(sent) \in Nat /\ \A x \in 1..Len(sent) : Len(sent[x]) \in Nat /\ Len(sent[x]) > 0
    BY SentTypes
  <1>2. \A x \in Nat : dam[x] \subseteq Nat
    BY DEF Damage
  <1>3. \A x \in 1..Len(sent) : Whole(x) \in Nat /\ Whole(x) > 0 /\ OnPath(x, Whole(x)) /\ OnPath(x, 0)
    BY <1>1 DEF Whole, OnPath
  <1>4. ASSUME NEW x \in 1..Len(sent), Missing(dam, x, 0) PROVE 0 \in dam[x]
    BY <1>1, <1>4 DEF Missing
  <1>5. ASSUME NEW x \in 1..Len(sent), Missing(dam, x, Whole(x)) PROVE Whole(x) \in dam[x]
    <2>1. \A n \in 1..Len(sent[x]) : Whole(x) # 2 * n
      BY <1>1 DEF Whole
    <2> QED
      BY <1>5, <2>1 DEF Missing
  <1>6. j <= k
    BY <1>1 DEF Before
  <1>7. ASSUME NEW x \in Nat, j < x, x < k PROVE x \in hit /\ x + 1 \in hit
    <2>1. x \in 1..Len(sent)
      BY <1>1, <1>7
    <2>2. Missing(dam, x, 0) /\ Missing(dam, x, Whole(x))
      BY <1>3, <1>7, <2>1 DEF Gap, Before
    <2>3. 0 \in dam[x] /\ Whole(x) \in dam[x] /\ Whole(x) # 0
      BY <1>3, <1>4, <1>5, <2>1, <2>2
    <2> QED
      BY <2>3 DEF Damage
  <1>8. ASSUME b > 0, j < k PROVE 0 \in dam[k] /\ k \in hit
    <2>1. k \in 1..Len(sent)
      BY <1>8 DEF OnPath
    <2>2. Missing(dam, k, 0)
      BY <1>3, <1>8, <2>1 DEF Gap, Before
    <2>3. 0 \in dam[k]
      BY <1>4, <2>1, <2>2
    <2> QED
      BY <2>1, <2>3 DEF Damage
  <1>9. ASSUME j < k, a # Whole(j) PROVE Whole(j) \in dam[j] /\ j \in hit
    <2>1. a < Whole(j)
      BY <1>3, <1>9, PlaceInside
    <2>2. Missing(dam, j, Whole(j))
      BY <1>3, <1>9, <2>1 DEF Gap, Before
    <2>3. Whole(j) \in dam[j]
      BY <1>5, <2>2
    <2> QED
      BY <2>3 DEF Damage
  <1>10. ASSUME k = j, NEW y \in Nat, OnPath(j, y), a < y, y < b PROVE \E d \in dam[j] : d < b
    <2>1. Missing(dam, j, y)
      BY <1>10 DEF Gap, Before
    <2>2. CASE y \in dam[j]
      BY <1>10, <2>2
    <2>3. ASSUME NEW n \in 1..Len(sent[j]), y = 2 * n, 2 * n - 1 \in dam[j]
          PROVE  \E d \in dam[j] : d < b
      <3>1. 2 * n - 1 < b
        BY <1>1, <1>10, <2>3
      <3> QED
        BY <2>3, <3>1
    <2> QED
      BY <2>1, <2>2, <2>3 DEF Missing
  <1>11. ASSUME j < k, NEW y \in Nat, OnPath(j, y), a < y
         PROVE  y \in dam[j] \/ (y # Whole(j) /\ y - 1 \in dam[j] /\ a <= y - 1)
    <2>1. Missing(dam, j, y)
      BY <1>11 DEF Gap, Before
    <2>2. ASSUME NEW n \in 1..Len(sent[j]), y = 2 * n, 2 * n - 1 \in dam[j]
          PROVE  y # Whole(j) /\ y - 1 \in dam[j] /\ a <= y - 1
      BY <1>1, <1>11, <2>2 DEF Whole
    <2> QED
      BY <2>1, <2>2 DEF Missing
  <1> QED
    BY <1>6, <1>7, <1>8, <1>9, <1>10, <1>11

(* A byte inside a packet, read as it was meant: a receiver that is in     *)
(* step with the packet stays so and stores its next byte.                 *)
LEMMA ReadInside ==
    ASSUME TypeOK, NEW j \in 1..Len(sent), NEW a \in Nat, NEW next \in Nat,
           NEW x \in Bytes, Inside(j, a, x, next), Receive(x)
    PROVE  /\ a = 0 \/ InSync(a) => InSync(next)'
           /\ a > 0 /\ InSync(a) => delivered' = delivered
           /\ a = 0 /\ ~escaped => buffer' = <<>> /\ next = 1
           /\ a = 0 /\ ~escaped /\ buffer = <<>> => delivered' = delivered
           /\ a > 0 /\ InSync(a) /\ (\A n \in Nat : a \in {2 * n + 1, 2 * n + 2} => buffer = Part(j, n))
              => \A n \in Nat : next \in {2 * n + 1, 2 * n + 2} => buffer' = Part(j, n)
  <1>1. /\ Len(sent[j]) \in Nat /\ \A n \in 1..Len(sent[j]) : sent[j][n] \in Bytes
        /\ \A n \in 1..Len(sent[j]) : Part(j, n) = Stored(Part(j, n - 1), sent[j][n])
    BY SentTypes, PartGrows
  <1>2. /\ escaped \in BOOLEAN
        /\ escaped => /\ ~escaped' /\ delivered' = delivered
                      /\ buffer' = Stored(buffer, Decode(x))
        /\ ~escaped /\ x = END /\ buffer = <<>> =>
              ~escaped' /\ delivered' = delivered /\ buffer' = <<>>
        /\ ~escaped /\ x = END /\ buffer # <<>> => ~escaped' /\ buffer' = <<>>
        /\ ~escaped /\ x = ESC =>
              escaped' /\ delivered' = delivered /\ buffer' = buffer
        /\ ~escaped /\ x \notin {END, ESC} =>
              ~escaped' /\ delivered' = delivered /\ buffer' = Stored(buffer, x)
    BY Received DEF TypeOK
  <1>3. CASE Opening(j, a, x, next)
    <2>1. a = 0 /\ x = END /\ next = 1
      BY <1>3 DEF Opening
    <2>2. ~escaped'
      BY <1>2, <2>1
    <2>3. InSync(next)'
      BY <2>1, <2>2 DEF InSync
    <2> QED
      BY <1>2, <2>1, <2>3
  <1>4. ASSUME NEW n \in 1..Len(sent[j]),
               \/ Plain(j, n, a, x, next)
               \/ FirstOfTwo(j, n, a, x, next)
               \/ SecondOfTwo(j, n, a, x, next)
        PROVE  /\ a > 0
               /\ InSync(a) => InSync(next)' /\ delivered' = delivered
               /\ InSync(a) /\ (\A m \in Nat : a \in {2 * m + 1, 2 * m + 2} => buffer = Part(j, m))
                  => \A m \in Nat : next \in {2 * m + 1, 2 * m + 2} => buffer' = Part(j, m)
    <2>1. n \in Nat /\ n - 1 \in Nat /\ n >= 1
      BY <1>1
    <2>2. CASE Plain(j, n, a, x, next)
      <3>1. a = 2 * (n - 1) + 1 /\ next = 2 * n + 1 /\ x = sent[j][n] /\ x \notin {END, ESC}
        BY <2>1, <2>2 DEF Plain, Coded
      <3>2. InSync(a) => ~escaped
        BY <2>1, <3>1 DEF InSync
      <3>3. InSync(a) => ~escaped' /\ delivered' = delivered /\ buffer' = Stored(buffer, x)
        BY <1>2, <3>1, <3>2
      <3>4. ~escaped' => InSync(next)'
        BY <2>1, <3>1 DEF InSync
      <3>5. (\A m \in Nat : a \in {2 * m + 1, 2 * m + 2} => buffer = Part(j, m)) => buffer = Part(j, n - 1)
        BY <2>1, <3>1
      <3>6. \A m \in Nat : next \in {2 * m + 1, 2 * m + 2} => m = n
        BY <2>1, <3>1
      <3> QED
        BY <1>1, <2>1, <3>1, <3>3, <3>4, <3>5, <3>6
    <2>3. CASE FirstOfTwo(j, n, a, x, next)
      <3>1. a = 2 * (n - 1) + 1 /\ next = 2 * (n - 1) + 2 /\ x = ESC
        BY <2>1, <2>3 DEF FirstOfTwo
      <3>2. InSync(a) => ~escaped
        BY <2>1, <3>1 DEF InSync
      <3>3. InSync(a) => escaped' /\ delivered' = delivered /\ buffer' = buffer
        BY <1>2, <3>1, <3>2
      <3>4. escaped' => InSync(next)'
        BY <2>1, <3>1 DEF InSync
      <3>5. (\A m \in Nat : a \in {2 * m + 1, 2 * m + 2} => buffer = Part(j, m)) => buffer = Part(j, n - 1)
        BY <2>1, <3>1
      <3>6. \A m \in Nat : next \in {2 * m + 1, 2 * m + 2} => m = n - 1
        BY <2>1, <3>1
      <3> QED
        BY <2>1, <3>1, <3>3, <3>4, <3>5, <3>6
    <2>4. CASE SecondOfTwo(j, n, a, x, next)
      <3>1. /\ a = 2 * (n - 1) + 2 /\ next = 2 * n + 1 /\ x = Code(sent[j][n])
            /\ sent[j][n] \in {END, ESC}
        BY <2>1, <2>4 DEF SecondOfTwo, Coded
      <3>2. InSync(a) => escaped
        BY <2>1, <3>1 DEF InSync
      <3>3. Decode(x) = sent[j][n]
        BY <3>1, SlipAssumption DEF Code, Decode
      <3>4. InSync(a) => ~escaped' /\ delivered' = delivered /\ buffer' = Stored(buffer, sent[j][n])
        BY <1>2, <3>2, <3>3
      <3>5. ~escaped' => InSync(next)'
        BY <2>1, <3>1 DEF InSync
      <3>6. (\A m \in Nat : a \in {2 * m + 1, 2 * m + 2} => buffer = Part(j, m)) => buffer = Part(j, n - 1)
        BY <2>1, <3>1
      <3>7. \A m \in Nat : next \in {2 * m + 1, 2 * m + 2} => m = n
        BY <2>1, <3>1
      <3>8. a > 0
        BY <2>1, <3>1
      <3>9. Part(j, n) = Stored(Part(j, n - 1), sent[j][n])
        BY <1>1
      <3> QED
        BY <3>4, <3>5, <3>6, <3>7, <3>8, <3>9
    <2> QED
      BY <1>4, <2>2, <2>3, <2>4
  <1> QED
    BY <1>3, <1>4 DEF Inside

(* The closing END of a packet nothing has happened to: it comes out.      *)
LEMMA ReadClosing ==
    ASSUME TypeOK, NEW dam, NEW j \in 1..Len(sent), j \notin hit,
           Heard(dam, j, Whole(j)), Receive(END)
    PROVE  /\ ~escaped' /\ buffer' = <<>>
           /\ delivered' = Append(delivered, Cut(sent[j]))
  <1>1. Len(sent[j]) \in Nat /\ Whole(j) = 2 * Len(sent[j]) + 1 /\ Whole(j) > 0
    BY SentTypes DEF Whole
  <1>2. ~escaped /\ buffer = Part(j, Len(sent[j]))
    BY <1>1 DEF Heard, InPacket, InSync
  <1>3. buffer = Cut(sent[j]) /\ buffer # <<>>
    BY <1>2, PartGrows
  <1>4. END \in Bytes
    BY Codes
  <1> QED
    BY <1>2, <1>3, <1>4, Received

(* The byte at the front of the line and the place the line goes on at.    *)
AtFront(dam, j, a, x, k, b) ==
    /\ j \in 1..Len(sent) /\ a \in Nat /\ OnPath(j, a)
    /\ k \in 1..(Len(sent) + 1) /\ b \in Nat /\ OnPath(k, b)
    /\ Before(j, a, k, b) /\ Gap(dam, j, a, k, b)
    /\ x \in Bytes
    /\ Meant(j, a, x) \/ a \in dam[j]
    /\ a = Whole(j) /\ x = ESC => j + 1 \in hit

(* Where nothing has happened the line goes on at the next byte.           *)
LEMMA ReadClean ==
    ASSUME TypeOK, NEW dam, Damage(dam), NEW j, NEW a, NEW x, NEW k, NEW b,
           AtFront(dam, j, a, x, k, b), Receive(x)
    PROVE  /\ a # Whole(j) /\ k = j /\ (\A d \in dam[j] : ~(d < b)) => Inside(j, a, x, b)
           /\ a # Whole(j) /\ k = j => a < b
           /\ a = Whole(j) => k > j
           /\ a = Whole(j) /\ j \notin hit => x = END
           /\ j \notin hit /\ k > j => a = Whole(j)
           /\ j \notin hit => dam[j] = {}
  <1> USE DEF AtFront
  <1>1. /\ dam[j] \subseteq Nat
        /\ j \notin hit => dam[j] = {}
    BY DEF Damage
  <1>2. a # Whole(j) /\ k = j => a < b
    BY DEF Before
  <1>3. a = Whole(j) => k > j
    BY PlaceInside, GapDamage DEF Before
  <1>4. a = Whole(j) /\ j \notin hit => x = END
    BY <1>1, PlaceInside
  <1>5. j \notin hit /\ k > j => a = Whole(j)
    BY GapDamage
  <1>6. ASSUME a # Whole(j), k = j, \A d \in dam[j] : ~(d < b)
        PROVE  Inside(j, a, x, b)
    <2>1. Meant(j, a, x)
      BY <1>2, <1>6
    <2>2. PICK next \in Nat :
              /\ OnPath(j, next) /\ a < next
              /\ \A y \in Nat : OnPath(j, y) => ~(a < y /\ y < next)
              /\ Inside(j, a, x, next)
      BY <1>6, <2>1, PlaceInside
    <2>3. ~(b < next)
      BY <1>2, <1>6, <2>2
    <2>4. ~(next < b)
      BY <1>6, <2>2, GapDamage
    <2>5. next = b
      BY <2>2, <2>3, <2>4
    <2> QED
      BY <2>2, <2>5
  <1> QED
    BY <1>1, <1>2, <1>3, <1>4, <1>5, <1>6

(* Reading keeps what the receiver is known to have made of the line.      *)
LEMMA ReadHeard ==
    ASSUME TypeOK, NEW dam, Damage(dam), NEW j, NEW a, NEW x, NEW k, NEW b,
           AtFront(dam, j, a, x, k, b), Heard(dam, j, a), Receive(x), UNCHANGED <<sent, hit>>
    PROVE  Heard(dam, k, b)'
  <1>1. /\ j \in 1..Len(sent) /\ a \in Nat /\ OnPath(j, a)
        /\ k \in 1..(Len(sent) + 1) /\ b \in Nat /\ OnPath(k, b)
        /\ Before(j, a, k, b) /\ Gap(dam, j, a, k, b)
        /\ x \in Bytes
        /\ Meant(j, a, x) \/ a \in dam[j]
        /\ a = Whole(j) /\ x = ESC => j + 1 \in hit
        /\ Len(sent) \in Nat /\ j \in Nat /\ k \in Nat
        /\ dam[j] \subseteq Nat /\ hit \subseteq Nat
    BY SentTypes DEF AtFront, Damage, TypeOK
  <1>2. /\ j <= k
        /\ \A y \in Nat : j < y /\ y < k => y \in hit /\ y + 1 \in hit
        /\ b > 0 /\ j < k => 0 \in dam[k] /\ k \in hit
        /\ j < k /\ a # Whole(j) => Whole(j) \in dam[j] /\ j \in hit
        /\ k = j => \A y \in Nat : OnPath(j, y) /\ a < y /\ y < b =>
                        \E d \in dam[j] : d < b
        /\ j < k => \A y \in Nat : OnPath(j, y) /\ a < y =>
                        y \in dam[j] \/ (y # Whole(j) /\ y - 1 \in dam[j] /\ a <= y - 1)
    BY <1>1, GapDamage
  <1>3. /\ a # Whole(j) /\ k = j /\ (\A d \in dam[j] : ~(d < b)) => Inside(j, a, x, b)
        /\ a # Whole(j) /\ k = j => a < b
        /\ a = Whole(j) => k > j
        /\ a = Whole(j) /\ j \notin hit => x = END
        /\ j \notin hit /\ k > j => a = Whole(j)
        /\ j \notin hit => dam[j] = {}
    BY ReadClean
  <1>4. /\ a <= Whole(j) /\ Whole(j) \in Nat /\ Whole(j) >= 3
        /\ a = Whole(j) => \A d : Meant(j, a, d) => d = END
    BY <1>1, PlaceInside
  <1>5. /\ AtOpening(j, a) /\ InPacket(j, a) /\ BackInSync(dam, j, a)
        /\ FirstOut(j) /\ CountOut(j, a) /\ LastOut(j)
    BY DEF Heard
  \* A packet that nothing has happened to, read to its end.
  <1>6. ASSUME j \notin hit, k > j
        PROVE  /\ ~escaped' /\ buffer' = <<>>
               /\ delivered' = Append(delivered, Cut(sent[j]))
    <2>1. a = Whole(j) /\ x = END
      BY <1>3, <1>6
    <2> QED
      BY <1>1, <1>6, <2>1, ReadClosing
  \* The same, read on from its middle.
  <1>7. ASSUME j \notin hit, k = j
        PROVE  /\ b > 0 /\ InSync(b)'
               /\ \A n \in Nat : b \in {2 * n + 1, 2 * n + 2} => buffer' = Part(j, n)
               /\ a > 0 \/ j - 1 \notin hit => delivered' = delivered
    <2>1. a # Whole(j) /\ Inside(j, a, x, b) /\ a < b
      BY <1>1, <1>3, <1>7
    <2>2. a = 0 => ~escaped
      BY <1>5, <1>7 DEF AtOpening
    <2>3. a > 0 => InSync(a) /\ \A n \in Nat : a \in {2 * n + 1, 2 * n + 2} => buffer = Part(j, n)
      BY <1>5, <1>7 DEF InPacket
    <2>4. InSync(b)'
      BY <1>1, <2>1, <2>3, ReadInside
    <2>5. CASE a = 0
      <3>1. buffer' = <<>> /\ b = 1
        BY <1>1, <2>1, <2>2, <2>5, ReadInside
      <3>2. \A n \in Nat : b \in {2 * n + 1, 2 * n + 2} => n = 0
        BY <3>1
      <3>3. j - 1 \notin hit => buffer = <<>>
        BY <1>5, <2>5 DEF AtOpening
      <3>4. j - 1 \notin hit => delivered' = delivered
        BY <1>1, <2>1, <2>2, <2>5, <3>3, ReadInside
      <3> QED
        BY <1>1, <2>4, <2>5, <3>1, <3>2, <3>4, PartGrows
    <2>6. CASE a > 0
      <3>1. \A n \in Nat : b \in {2 * n + 1, 2 * n + 2} => buffer' = Part(j, n)
        BY <1>1, <2>1, <2>3, <2>6, ReadInside
      <3>2. delivered' = delivered
        BY <1>1, <2>1, <2>3, <2>6, ReadInside
      <3> QED
        BY <1>1, <2>1, <2>4, <2>6, <3>1, <3>2
    <2> QED
      BY <1>1, <2>5, <2>6
  <1>8. AtOpening(k, b)'
    <2> SUFFICES ASSUME b = 0
                 PROVE  /\ k \notin hit => ~escaped'
                        /\ k - 1 \notin hit => ~escaped' /\ buffer' = <<>>
      BY DEF AtOpening
    <2>1. j < k
      BY <1>1 DEF Before
    <2>2. ASSUME k - 1 \notin hit PROVE ~escaped' /\ buffer' = <<>>
      <3>1. k - 1 = j
        BY <1>1, <1>2, <2>1, <2>2
      <3> QED
        BY <1>6, <2>1, <2>2, <3>1
    <2>3. ASSUME k \notin hit PROVE ~escaped'
      <3>1. j + 1 = k
        <4>1. ~(j < k - 1)
          <5> SUFFICES ASSUME j < k - 1 PROVE FALSE
            OBVIOUS
          <5>1. PICK y \in Nat : y + 1 = k /\ j < y /\ y < k
            <6>1. k - 1 \in Nat /\ (k - 1) + 1 = k /\ j < k - 1 /\ k - 1 < k
              BY <1>1
            <6> QED
              BY <6>1
          <5>2. y + 1 \in hit
            BY <1>2, <5>1
          <5> QED
            BY <2>3, <5>1, <5>2
        <4> QED
          BY <1>1, <2>1, <4>1
      <3>2. \A d, e \in dam[j] : d = e
        BY <1>1, <2>3, <3>1 DEF Damage
      <3>3. \A d \in dam[j] : a \in dam[j] \/ Whole(j) \in dam[j] => ~(d < a)
        BY <1>1, <1>4, <3>2
      <3>4. a > 0 /\ (a \in dam[j] \/ Whole(j) \in dam[j]) => InSync(a)
        BY <1>5, <2>3, <3>1, <3>3 DEF BackInSync
      <3>5. ASSUME NEW y \in Nat, y = Whole(j)
            PROVE  /\ InSync(y) => ~escaped
                   /\ InSync(y)' => ~escaped'
        <4>1. Len(sent[j]) \in Nat /\ y = 2 * Len(sent[j]) + 1
          BY <1>1, <3>5, SentTypes DEF Whole
        <4> QED
          BY <4>1 DEF InSync
      <3>6. CASE a = Whole(j)
        <4>1. CASE a \in dam[j]
          <5>1. x # ESC
            BY <1>1, <2>3, <3>1, <3>6
          <5>2. ~escaped
            BY <1>1, <1>4, <3>4, <3>5, <3>6, <4>1
          <5> QED
            BY <1>1, <5>1, <5>2, Received
        <4>2. CASE a \notin dam[j]
          <5>1. x = END
            BY <1>1, <1>4, <3>6, <4>2
          <5> QED
            BY <1>1, <5>1, Received DEF TypeOK
        <4> QED
          BY <4>1, <4>2
      <3>7. CASE a # Whole(j)
        <4>1. Whole(j) \in dam[j] /\ a \notin dam[j]
          BY <1>2, <2>1, <3>2, <3>7
        <4>2. PICK next \in Nat : OnPath(j, next) /\ a < next /\ Inside(j, a, x, next)
          BY <1>1, <3>7, <4>1, PlaceInside
        <4>3. next <= Whole(j)
          BY <4>2, <1>1, PlaceInside
        <4>4. next = Whole(j)
          <5>1. next \in dam[j] \/ (next # Whole(j) /\ next - 1 \in dam[j])
            BY <1>2, <2>1, <4>2
          <5>2. CASE next \in dam[j]
            BY <3>2, <4>1, <5>2
          <5>3. CASE next - 1 \in dam[j]
            <6>1. next - 1 = Whole(j)
              BY <3>2, <4>1, <5>3
            <6> QED
              BY <1>4, <4>2, <4>3, <6>1
          <5> QED
            BY <5>1, <5>2, <5>3
        <4>5. InSync(next)'
          BY <1>1, <3>4, <4>1, <4>2, ReadInside
        <4> QED
          BY <3>5, <4>2, <4>4, <4>5
      <3> QED
        BY <3>6, <3>7
    <2> QED
      BY <2>2, <2>3
  <1>9. InPacket(k, b)'
    <2> SUFFICES ASSUME b > 0, k \notin hit
                 PROVE  /\ InSync(b)'
                        /\ \A n \in Nat : b \in {2 * n + 1, 2 * n + 2} => buffer' = Part(k, n)
      BY DEF InPacket, Part
    <2>1. k = j
      BY <1>1, <1>2
    <2> QED
      BY <1>7, <2>1
  <1>10. BackInSync(dam, k, b)'
    <2> SUFFICES ASSUME b > 0, k + 1 \notin hit, ~ \E d \in dam[k] : d < b
                 PROVE  InSync(b)'
      BY DEF BackInSync
    <2>1. k = j
      BY <1>1, <1>2
    <2>2. a # Whole(j) /\ a < b /\ Inside(j, a, x, b)
      BY <1>1, <1>3, <2>1
    <2>3. a > 0 => InSync(a)
      <3>1. \A d \in dam[j] : ~(d < a)
        BY <1>1, <2>1, <2>2
      <3> QED
        BY <1>5, <2>1, <3>1 DEF BackInSync
    <2> QED
      BY <1>1, <2>2, <2>3, ReadInside
  <1>11. /\ Len(delivered) \in Nat /\ Len(delivered') \in Nat /\ Len(delivered) <= Len(delivered')
         /\ \A i \in 1..Len(delivered) : delivered'[i] = delivered[i]
    BY <1>1, Received
  <1>12. ASSUME j \notin hit, k > j
         PROVE  /\ Len(delivered') = Len(delivered) + 1
                /\ delivered'[Len(delivered) + 1] = Cut(sent[j])
    <2>1. delivered \in Seq(Seq(Bytes)) /\ Cut(sent[j]) \in Seq(Bytes)
      <3>1. /\ sent[j] \in Seq(Bytes) /\ Len(sent[j]) \in Nat
            /\ \A n \in 1..Len(sent[j]) : sent[j][n] \in Bytes
        BY <1>1, SentTypes
      <3> DEFINE m == IF Len(sent[j]) < BufferSize THEN Len(sent[j]) ELSE BufferSize
      <3>2. m \in Int /\ 1 \in Int /\ \A n \in 1..m : sent[j][n] \in Bytes
        BY <3>1, Codes
      <3> HIDE DEF m
      <3>3. SubSeq(sent[j], 1, m) \in Seq(Bytes)
        BY <3>2, SubSeqProperties
      <3> QED
        BY <3>3 DEF TypeOK, Cut, m
    <2> QED
      BY <1>6, <1>12, <2>1, AppendProperties
  <1>13. FirstOut(k)'
    <2> SUFFICES ASSUME NEW i \in 1..(k - 1), \A h \in hit : h > i
                 PROVE  i <= Len(delivered') /\ delivered'[i] = Cut(sent[i])
      BY DEF FirstOut
    <2>1. CASE i < j
      <3>1. i <= Len(delivered) /\ delivered[i] = Cut(sent[i])
        BY <1>1, <1>5, <2>1 DEF FirstOut
      <3> QED
        BY <1>1, <1>11, <3>1
    <2>2. CASE i = j
      <3>1. j \notin hit /\ k > j
        BY <1>1, <2>2
      <3>2. Len(delivered) = j - 1
        BY <1>1, <1>5, <2>2, <3>1 DEF CountOut
      <3> QED
        BY <1>1, <1>12, <2>2, <3>1, <3>2
    <2>3. CASE i > j
      BY <1>1, <1>2, <2>3
    <2> QED
      BY <1>1, <2>1, <2>2, <2>3
  <1>14. CountOut(k, b)'
    <2> SUFFICES ASSUME \A h \in hit : h >= k, b = 0 \/ k \notin hit
                 PROVE  Len(delivered') = k - 1
      BY DEF CountOut
    <2>1. CASE k = j
      <3>1. j \notin hit /\ j - 1 \notin hit
        <4>1. b # 0
          BY <1>1, <2>1 DEF Before
        <4> QED
          BY <1>1, <2>1, <4>1
      <3>2. delivered' = delivered
        BY <1>7, <2>1, <3>1
      <3> QED
        BY <1>1, <1>5, <2>1, <3>1, <3>2 DEF CountOut
    <2>2. CASE k > j
      <3>1. j \notin hit /\ \A h \in hit : h >= j
        <4>1. \A h \in hit : h \in Nat /\ h > j
          BY <1>1, <2>2
        <4> QED
          BY <1>1, <4>1
      <3>2. Len(delivered) = j - 1
        BY <1>5, <3>1 DEF CountOut
      <3>3. k = j + 1
        BY <1>1, <1>2, <2>2
      <3> QED
        BY <1>1, <1>12, <2>2, <3>1, <3>2, <3>3
    <2> QED
      BY <1>1, <1>2, <2>1, <2>2
  <1>15. LastOut(k)'
    <2> SUFFICES ASSUME NEW i \in 1..(k - 1), \A h \in hit : h < i
                 PROVE  /\ (k - 1) - i < Len(delivered')
                        /\ delivered'[Len(delivered') - ((k - 1) - i)] = Cut(sent[i])
      BY DEF LastOut
    <2>1. CASE k = j
      <3>1. j \notin hit /\ j - 1 \notin hit
        BY <1>1, <2>1
      <3>2. delivered' = delivered
        BY <1>7, <2>1, <3>1
      <3> QED
        BY <1>1, <1>5, <2>1, <3>2 DEF LastOut
    <2>2. CASE k > j
      <3>1. i <= j
        BY <1>1, <1>2
      <3>2. j \notin hit
        BY <1>1, <3>1
      <3>3. k = j + 1
        <4>1. ~(j + 1 < k)
          BY <1>1, <1>2, <3>1
        <4> QED
          BY <1>1, <2>2, <4>1
      <3>4. CASE i = j
        BY <1>1, <1>11, <1>12, <2>2, <3>2, <3>3, <3>4
      <3>5. CASE i < j
        <4>1. i \in 1..(j - 1) /\ i \in Nat
          BY <1>1, <3>5
        <4>2. /\ (j - 1) - i < Len(delivered)
              /\ delivered[Len(delivered) - ((j - 1) - i)] = Cut(sent[i])
          BY <1>5, <4>1 DEF LastOut
        <4>3. Len(delivered') = Len(delivered) + 1
          BY <1>12, <2>2, <3>2
        <4>4. /\ Len(delivered') - ((k - 1) - i) = Len(delivered) - ((j - 1) - i)
              /\ Len(delivered) - ((j - 1) - i) \in 1..Len(delivered)
              /\ (k - 1) - i < Len(delivered')
          BY <1>1, <1>11, <3>3, <4>1, <4>2, <4>3
        <4>5. delivered'[Len(delivered) - ((j - 1) - i)] = delivered[Len(delivered) - ((j - 1) - i)]
          BY <1>11, <4>4
        <4> QED
          BY <4>2, <4>4, <4>5
      <3> QED
        BY <1>1, <3>1, <3>4, <3>5
    <2> QED
      BY <1>1, <1>2, <2>1, <2>2
  <1> QED
    BY <1>8, <1>9, <1>10, <1>13, <1>14, <1>15 DEF Heard

(* Damage further back on the line, or a packet more to send, changes      *)
(* nothing in what has been heard.                                         *)
LEMMA HeardKept ==
    ASSUME NEW dam, NEW dam2, NEW j \in Nat, NEW a \in Nat, Heard(dam, j, a),
           hit \subseteq hit', dam[j] \subseteq dam2[j], UNCHANGED rxVars,
           \A i \in 1..(j - 1) : sent'[i] = sent[i],
           a > 0 => sent'[j] = sent[j]
    PROVE  Heard(dam2, j, a)'
  <1>1. UNCHANGED <<escaped, buffer, delivered>>
    BY DEF rxVars
  <1>2. AtOpening(j, a)'
    BY <1>1 DEF Heard, AtOpening
  <1>3. InPacket(j, a)'
    BY <1>1 DEF Heard, InPacket, InSync, Part
  <1>4. BackInSync(dam2, j, a)'
    BY <1>1 DEF Heard, BackInSync, InSync
  <1>5. FirstOut(j)'
    BY <1>1 DEF Heard, FirstOut
  <1>6. CountOut(j, a)'
    BY <1>1 DEF Heard, CountOut
  <1>7. LastOut(j)'
    BY <1>1 DEF Heard, LastOut
  <1> QED
    BY <1>2, <1>3, <1>4, <1>5, <1>6, <1>7 DEF Heard

(* The byte the receiver would have read next is lost.                     *)
LEMMA HeardPastLoss ==
    ASSUME NEW dam, NEW dam2, NEW j \in Nat, NEW a \in Nat, Heard(dam, j, a),
           NEW k \in Nat, NEW b \in Nat, Before(j, a, k, b),
           hit' \subseteq Nat, hit \subseteq hit', j \in hit', j \in hit => j + 1 \in hit',
           a \in dam2[j], UNCHANGED rxVars,
           \A i \in 1..(j - 1) : sent'[i] = sent[i],
           \A y \in Nat : j < y /\ y < k => y \in hit' /\ y + 1 \in hit',
           b > 0 /\ j < k => 0 \in dam2[k] /\ k \in hit',
           j < k /\ j \notin hit => \E n \in Nat : a = 2 * n + 1
    PROVE  Heard(dam2, k, b)'
  <1>1. UNCHANGED <<escaped, buffer, delivered>>
    BY DEF rxVars
  <1>2. /\ InPacket(j, a) /\ FirstOut(j)
    BY DEF Heard
  <1>3. j <= k
    BY DEF Before
  <1>4. AtOpening(k, b)'
    <2> SUFFICES ASSUME b = 0
                 PROVE  /\ k \notin hit' => ~escaped'
                        /\ k - 1 \notin hit' => ~escaped' /\ buffer' = <<>>
      BY DEF AtOpening
    <2>1. j < k
      BY DEF Before
    <2>2. k - 1 \in hit'
      BY <2>1
    <2>3. ASSUME k \notin hit' PROVE ~escaped'
      <3>1. k = j + 1
        <4>1. ~(j < k - 1)
          BY <2>3
        <4> QED
          BY <2>1, <4>1
      <3>2. j \notin hit
        BY <2>3, <3>1
      <3>3. PICK n \in Nat : a = 2 * n + 1
        BY <2>1, <3>2
      <3>4. InSync(a)
        BY <1>2, <3>2, <3>3 DEF InPacket
      <3> QED
        BY <1>1, <3>3, <3>4 DEF InSync
    <2> QED
      BY <2>2, <2>3
  <1>5. InPacket(k, b)'
    <2>1. b > 0 => k \in hit'
      BY <1>3
    <2> QED
      BY <2>1 DEF InPacket
  <1>6. BackInSync(dam2, k, b)'
    <2>1. b > 0 => \E d \in dam2[k] : d < b
      <3>1. CASE j = k
        BY <3>1 DEF Before
      <3>2. CASE j < k
        BY <3>2
      <3> QED
        BY <1>3, <3>1, <3>2
    <2> QED
      BY <2>1 DEF BackInSync
  <1>7. FirstOut(k)'
    <2> SUFFICES ASSUME NEW i \in 1..(k - 1), \A h \in hit' : h > i
                 PROVE  i <= Len(delivered') /\ delivered'[i] = Cut(sent'[i])
      BY DEF FirstOut
    <2>1. i \in 1..(j - 1)
      BY <1>3
    <2> QED
      BY <1>1, <1>2, <2>1 DEF FirstOut
  <1>8. CountOut(k, b)'
    <2>1. ~((\A h \in hit' : h >= k) /\ (b = 0 \/ k \notin hit'))
      BY <1>3 DEF Before
    <2> QED
      BY <2>1 DEF CountOut
  <1>9. LastOut(k)'
    <2>1. ASSUME NEW i \in 1..(k - 1), \A h \in hit' : h < i
          PROVE  FALSE
      <3>1. j < i /\ i < k /\ i \in Nat
        BY <2>1
      <3> QED
        BY <2>1, <3>1
    <2> QED
      BY <2>1 DEF LastOut
  <1> QED
    BY <1>4, <1>5, <1>6, <1>7, <1>8, <1>9 DEF Heard

-----------------------------------------------------------------------------
(* The line: each byte under way with the place it was written for and the *)
(* place the next one was.                                                 *)
Link(dam, w, j, a, k, b) ==
    /\ w.of = j
    /\ w.closing <=> a = Whole(j)
    /\ AtFront(dam, j, a, w.byte, k, b)

LEMMA LinkStretched ==
    ASSUME TypeOK, NEW dam, NEW dam2, NEW w, NEW v, NEW j, NEW a, NEW k, NEW b, NEW l, NEW e,
           Link(dam, w, j, a, k, b),
           Len(sent') \in Nat, Len(sent) <= Len(sent'),
           \A i \in 1..Len(sent) : sent'[i] = sent[i],
           hit \subseteq hit', \A x \in Nat : dam[x] \subseteq dam2[x],
           v.of = w.of, v.closing = w.closing, v.byte \in Bytes,
           \/ v.byte = w.byte
           \/ a \in dam2[j] /\ (w.closing /\ v.byte = ESC => j + 1 \in hit'),
           \/ l = k /\ e = b
           \/ /\ l \in 1..(Len(sent') + 1) /\ e \in Nat /\ OnPath(l, e)' /\ Before(k, b, l, e)
              /\ Gap(dam2, k, b, l, e)' /\ b \in dam2[k]
    PROVE  Link(dam2, v, j, a, l, e)'
  <1>1. /\ j \in 1..Len(sent) /\ a \in Nat /\ OnPath(j, a)
        /\ k \in 1..(Len(sent) + 1) /\ b \in Nat /\ OnPath(k, b)
        /\ Before(j, a, k, b) /\ Gap(dam, j, a, k, b)
        /\ Meant(j, a, w.byte) \/ a \in dam[j]
        /\ a = Whole(j) /\ w.byte = ESC => j + 1 \in hit
        /\ w.of = j /\ (w.closing <=> a = Whole(j))
        /\ Len(sent) \in Nat /\ \A x \in 1..Len(sent) : Len(sent[x]) \in Nat
    BY SentTypes DEF Link, AtFront
  <1>2. \A x \in 1..Len(sent) : \A y :
            /\ OnPath(x, y)' <=> OnPath(x, y)
            /\ Missing(dam, x, y) => Missing(dam2, x, y)'
            /\ Whole(x)' = Whole(x)
    <2> SUFFICES ASSUME NEW x \in 1..Len(sent), NEW y
                 PROVE  /\ OnPath(x, y)' <=> OnPath(x, y)
                        /\ Missing(dam, x, y) => Missing(dam2, x, y)'
                        /\ Whole(x)' = Whole(x)
      OBVIOUS
    <2>1. sent'[x] = sent[x] /\ x \in 1..Len(sent') /\ x \in Nat
      BY <1>1
    <2>2. Whole(x)' = Whole(x) /\ \A n : Coded(x, n)' <=> Coded(x, n)
      BY <2>1 DEF Whole, Coded
    <2>3. OnPath(x, y)' <=> OnPath(x, y)
      BY <2>1, <2>2 DEF OnPath
    <2>4. dam[x] \subseteq dam2[x]
      BY <2>1
    <2>5. Missing(dam, x, y) => Missing(dam2, x, y)'
      BY <2>1, <2>4 DEF Missing
    <2> QED
      BY <2>2, <2>3, <2>5
  <1>3. /\ j \in 1..Len(sent') /\ OnPath(j, a)' /\ Whole(j)' = Whole(j)
        /\ Meant(j, a, v.byte)' \/ a \in dam2[j]
    <2>1. Meant(j, a, w.byte) => Meant(j, a, w.byte)'
      BY <1>1 DEF Meant, Whole, Coded
    <2> QED
      BY <1>1, <1>2, <2>1
  <1>4. a = Whole(j)' /\ v.byte = ESC => j + 1 \in hit'
    BY <1>1, <1>3
  <1>5. OnPath(k, b)' /\ k \in 1..(Len(sent') + 1) /\ (k \notin 1..Len(sent) => b = 0)
    <2>1. k \notin 1..Len(sent) => b = 0
      BY <1>1 DEF OnPath
    <2>2. OnPath(k, b)'
      <3>1. CASE k \in 1..Len(sent)
        BY <1>1, <1>2, <3>1
      <3>2. CASE b = 0
        BY <3>2 DEF OnPath
      <3> QED
        BY <2>1, <3>1, <3>2
    <2> QED
      BY <1>1, <2>1, <2>2
  <1>6. Gap(dam2, j, a, k, b)'
    <2> SUFFICES ASSUME NEW x \in 1..Len(sent'), NEW y \in Nat, OnPath(x, y)',
                        Before(j, a, x, y), Before(x, y, k, b)
                 PROVE  Missing(dam2, x, y)'
      BY DEF Gap, Before
    <2>1. x \in 1..Len(sent)
      BY <1>1, <1>5 DEF Before
    <2> QED
      BY <1>1, <1>2, <2>1 DEF Gap
  <1>7. CASE l = k /\ e = b
    BY <1>1, <1>3, <1>4, <1>5, <1>6, <1>7 DEF Link, AtFront, Before
  <1>8. CASE /\ l \in 1..(Len(sent') + 1) /\ e \in Nat /\ OnPath(l, e)' /\ Before(k, b, l, e)
             /\ Gap(dam2, k, b, l, e)' /\ b \in dam2[k]
    <2>1. Before(j, a, l, e)
      BY <1>1, <1>8 DEF Before
    <2>2. Gap(dam2, j, a, l, e)'
      <3> SUFFICES ASSUME NEW x \in 1..Len(sent'), NEW y \in Nat, OnPath(x, y)',
                          Before(j, a, x, y), Before(x, y, l, e)
                   PROVE  Missing(dam2, x, y)'
        BY DEF Gap, Before
      <3>1. CASE Before(x, y, k, b)
        BY <1>6, <3>1 DEF Gap, Before
      <3>2. CASE x = k /\ y = b
        BY <1>8, <3>2 DEF Missing
      <3>3. CASE Before(k, b, x, y)
        BY <1>8, <3>3 DEF Gap, Before
      <3>4. x \in Nat /\ k \in Nat
        BY <1>1
      <3> QED
        BY <1>1, <3>1, <3>2, <3>3, <3>4 DEF Before
    <2> QED
      BY <1>1, <1>3, <1>4, <1>8, <2>1, <2>2 DEF Link, AtFront, Before
  <1> QED
    BY <1>7, <1>8

(* Where slip_transmit_packet stands in its packet.                        *)
TxPacket == IF tx = "idle" THEN Len(sent) + 1 ELSE Len(sent)

TxAt == IF tx = "idle" THEN 0
        ELSE 2 * (Len(sent[Len(sent)]) - Len(out)) + (IF tx = "body" THEN 1 ELSE 2)

Sending ==
    tx # "idle" =>
        LET p == sent[Len(sent)]
        IN /\ Len(out) <= Len(p)
           /\ \A i \in 1..Len(out) : out[i] = p[Len(p) - Len(out) + i]
           /\ tx = "escape" => out # <<>> /\ Head(out) \in {END, ESC}

(* A step of the transmitter takes it from one place to the next; the byte *)
(* goes out, or it is missing.                                             *)
Moves(j, a, k, b) ==
    /\ j = TxPacket /\ a = TxAt /\ k = TxPacket' /\ b = TxAt'
    /\ j \in 1..Len(sent') /\ OnPath(j, a)'
    /\ k \in 1..(Len(sent') + 1) /\ OnPath(k, b)'
    /\ Before(j, a, k, b)
    /\ Len(sent) <= Len(sent') /\ \A i \in 1..Len(sent) : sent'[i] = sent[i]
    /\ a > 0 => j <= Len(sent)
    /\ k > j => k = j + 1 /\ b = 0 /\ \E n \in Nat : a = 2 * n + 1
    /\ UNCHANGED <<rxVars, plugged>>

Puts(j, a, k, b) ==
    /\ \E w \in LinkByte : /\ wire' = Append(wire, w)
                           /\ w.of = j
                           /\ w.closing <=> a = Whole(j)'
                           /\ Meant(j, a, w.byte)'
                           /\ w.closing => w.byte = END
    /\ hit' = hit
    /\ \A x \in 1..Len(sent') : \A y \in Nat :
          ~(OnPath(x, y)' /\ Before(j, a, x, y) /\ Before(x, y, k, b))

Drops(j, a, k, b) ==
    /\ wire' = wire
    /\ hit' = Reached(j, FALSE)
    /\ \A x \in 1..Len(sent') : \A y \in Nat :
          OnPath(x, y)' /\ Before(j, a, x, y) /\ Before(x, y, k, b) =>
              x = j /\ \E n \in 1..Len(sent'[j]) : y = 2 * n /\ a = 2 * n - 1

LEMMA PathAfter ==
    ASSUME TypeOK, NEW j \in 1..Len(sent), NEW n \in 1..Len(sent[j])
    PROVE  /\ OnPath(j, 2 * n + 1) /\ OnPath(j, 2 * n - 1)
           /\ Coded(j, n) => OnPath(j, 2 * n)
           /\ \A y \in Nat : 2 * n - 1 < y /\ y < 2 * n + 1 => y = 2 * n
           /\ OnPath(j, 2 * n) => Coded(j, n)
           /\ 2 * n - 1 < Whole(j) /\ 2 * n < Whole(j) /\ 2 * n + 1 <= Whole(j)
  <1>1. Len(sent[j]) \in Nat /\ n \in Nat /\ n >= 1 /\ n <= Len(sent[j])
    BY SentTypes
  <1>2. OnPath(j, 2 * n + 1)
    <2>1. CASE n = Len(sent[j])
      BY <2>1 DEF OnPath, Whole
    <2>2. CASE n # Len(sent[j])
      <3>1. n + 1 \in 1..Len(sent[j]) /\ 2 * n + 1 = 2 * (n + 1) - 1
        BY <1>1, <2>2
      <3> QED
        BY <3>1 DEF OnPath
    <2> QED
      BY <2>1, <2>2
  <1>3. OnPath(j, 2 * n - 1) /\ (Coded(j, n) => OnPath(j, 2 * n))
    BY DEF OnPath
  <1>4. \A y \in Nat : 2 * n - 1 < y /\ y < 2 * n + 1 => y = 2 * n
    BY <1>1
  <1>5. OnPath(j, 2 * n) => Coded(j, n)
    <2> SUFFICES ASSUME OnPath(j, 2 * n) PROVE Coded(j, n)
      OBVIOUS
    <2>1. 2 * n # 0 /\ 2 * n # Whole(j)
      BY <1>1 DEF Whole
    <2>2. PICK m \in 1..Len(sent[j]) : 2 * n = 2 * m - 1 \/ (2 * n = 2 * m /\ Coded(j, m))
      BY <2>1 DEF OnPath
    <2>3. m = n
      BY <1>1, <2>2
    <2> QED
      BY <1>1, <2>2, <2>3
  <1> QED
    BY <1>1, <1>2, <1>3, <1>4, <1>5 DEF Whole

(* What is left of the packet while it is sent.                            *)
LEMMA SendingFacts ==
    ASSUME TypeOK, Underway, Sending, tx # "idle"
    PROVE  LET j == Len(sent)
               n == Len(sent[j]) - Len(out)
           IN /\ j \in 1..MaxPackets /\ j \in 1..Len(sent)
              /\ Len(sent[j]) \in Nat /\ Len(out) \in Nat /\ n \in 0..Len(sent[j])
              /\ out = <<>> => n = Len(sent[j])
              /\ out # <<>> => /\ n + 1 \in 1..Len(sent[j])
                               /\ Head(out) = sent[j][n + 1] /\ Head(out) \in Bytes
                               /\ Len(Tail(out)) = Len(out) - 1
                               /\ \A i \in 1..Len(Tail(out)) :
                                     Tail(out)[i] = sent[j][Len(sent[j]) - Len(Tail(out)) + i]
  <1> DEFINE j == Len(sent)
             n == Len(sent[j]) - Len(out)
  <1>1. j \in 1..MaxPackets /\ j \in 1..Len(sent)
    BY Codes DEF Underway
  <1>2. Len(sent[j]) \in Nat /\ out \in Seq(Bytes) /\ Len(out) \in Nat
    BY <1>1, SentTypes, LenProperties DEF TypeOK
  <1>3. Len(out) <= Len(sent[j]) /\ \A i \in 1..Len(out) : out[i] = sent[j][n + i]
    BY DEF Sending
  <1>4. n \in 0..Len(sent[j])
    BY <1>2, <1>3
  <1>5. out = <<>> => n = Len(sent[j])
    BY <1>2
  <1>6. ASSUME out # <<>>
        PROVE  /\ n + 1 \in 1..Len(sent[j])
               /\ Head(out) = sent[j][n + 1] /\ Head(out) \in Bytes
               /\ Len(Tail(out)) = Len(out) - 1
               /\ \A i \in 1..Len(Tail(out)) :
                     Tail(out)[i] = sent[j][Len(sent[j]) - Len(Tail(out)) + i]
    <2>1. /\ Len(out) > 0 /\ Head(out) \in Bytes /\ Head(out) = out[1]
          /\ Len(Tail(out)) = Len(out) - 1
          /\ \A i \in 1..Len(Tail(out)) : Tail(out)[i] = out[i + 1]
      BY <1>2, <1>6, HeadTailProperties, EmptySeq
    <2>2. Head(out) = sent[j][n + 1] /\ n + 1 \in 1..Len(sent[j])
      BY <1>2, <1>3, <1>4, <2>1
    <2>3. ASSUME NEW i \in 1..Len(Tail(out))
          PROVE  Tail(out)[i] = sent[j][Len(sent[j]) - Len(Tail(out)) + i]
      <3>1. /\ i + 1 \in 1..Len(out)
            /\ n + (i + 1) = Len(sent[j]) - Len(Tail(out)) + i
        <4>1. Len(Tail(out)) = Len(out) - 1 /\ i \in 1..(Len(out) - 1)
          BY <2>1
        <4>2. i + 1 \in 1..Len(out)
          BY <1>2, <4>1
        <4>3. n + (i + 1) = Len(sent[j]) - (Len(out) - 1) + i
          <5>1. \A u, v, m \in Int : (u - v) + (m + 1) = u - (v - 1) + m
            OBVIOUS
          <5>2. Len(sent[j]) \in Int /\ Len(out) \in Int /\ i \in Int
            BY <1>2
          <5> QED
            BY <5>1, <5>2
        <4> QED
          BY <4>1, <4>2, <4>3
      <3>2. out[i + 1] = sent[j][n + (i + 1)]
        BY <1>3, <3>1
      <3> QED
        BY <2>1, <3>1, <3>2
    <2> QED
      BY <2>1, <2>2, <2>3
  <1> QED
    BY <1>1, <1>2, <1>4, <1>5, <1>6

LEMMA TransmitStarts ==
    ASSUME TypeOK, Underway, NEW p \in Packets, TransmitStart(p)
    PROVE  /\ Sending'
           /\ \E j, a, k, b \in Nat :
                 Moves(j, a, k, b) /\ (Puts(j, a, k, b) \/ Drops(j, a, k, b))
  <1>1. /\ tx = "idle" /\ sent' = Append(sent, p) /\ out' = p /\ tx' = "body"
        /\ Len(sent) \in Nat /\ sent \in Seq(Packets)
        /\ UNCHANGED <<rxVars, plugged>>
        /\ WriteByte(END, Len(sent) + 1) \/ WriteFails(Len(sent) + 1)
        /\ Len(sent) < MaxPackets
    BY SentTypes DEF TransmitStart, TypeOK
  <1>2. /\ Len(sent') = Len(sent) + 1 /\ sent'[Len(sent) + 1] = p
        /\ \A i \in 1..Len(sent) : sent'[i] = sent[i]
    BY <1>1, AppendProperties
  <1>3. p \in Seq(Bytes) /\ Len(p) \in Nat /\ Len(p) > 0
    BY Codes, EmptySeq, LenProperties
  <1>4. PICK j : j = Len(sent) + 1
    OBVIOUS
  <1>5. /\ j \in Nat /\ j \in 1..Len(sent') /\ Len(sent') = j /\ sent'[j] = p
    BY <1>1, <1>2, <1>4
  <1>6. TxPacket = j /\ TxAt = 0 /\ TxPacket' = j /\ TxAt' = 1
    BY <1>1, <1>3, <1>4, <1>5 DEF TxPacket, TxAt
  <1>7. OnPath(j, 0)' /\ OnPath(j, 1)'
    <2>1. 1 \in 1..Len(sent'[j]) /\ 1 = 2 * 1 - 1
      BY <1>3, <1>5
    <2> QED
      BY <1>5, <2>1 DEF OnPath
  <1>8. Moves(j, 0, j, 1)
    BY <1>1, <1>2, <1>4, <1>5, <1>6, <1>7 DEF Moves, Before
  <1>9. \A x \in 1..Len(sent') : \A y \in Nat : ~(Before(j, 0, x, y) /\ Before(x, y, j, 1))
    BY <1>5 DEF Before
  <1>10. CASE WriteByte(END, Len(sent) + 1)
    <2>1. PICK w : w = [byte |-> END, of |-> j, closing |-> FALSE]
      OBVIOUS
    <2>2. w \in LinkByte
      BY <1>1, <1>4, <2>1, Codes DEF LinkByte, Underway
    <2>3. 0 # Whole(j)'
      BY <1>3, <1>5 DEF Whole
    <2>4. Meant(j, 0, w.byte)'
      BY <2>1 DEF Meant
    <2>5. wire' = Append(wire, w) /\ hit' = hit
      BY <1>4, <1>10, <2>1 DEF WriteByte
    <2>6. Puts(j, 0, j, 1)
      BY <1>9, <2>1, <2>2, <2>3, <2>4, <2>5 DEF Puts
    <2> QED
      BY <1>1, <1>3, <1>5, <1>8, <2>6 DEF Sending
  <1>11. CASE WriteFails(Len(sent) + 1)
    <2>1. wire' = wire /\ hit' = Reached(j, FALSE)
      BY <1>4, <1>11 DEF WriteFails
    <2>2. Drops(j, 0, j, 1)
      BY <1>9, <2>1 DEF Drops
    <2> QED
      BY <1>1, <1>3, <1>5, <1>8, <2>2 DEF Sending
  <1> QED
    BY <1>1, <1>10, <1>11

LEMMA TransmitsOn ==
    ASSUME TypeOK, Underway, Sending,
           TransmitPlain \/ TransmitEscape \/ TransmitEscaped \/ TransmitEnd
    PROVE  /\ Sending'
           /\ \E j, a, k, b \in Nat :
                 Moves(j, a, k, b) /\ (Puts(j, a, k, b) \/ Drops(j, a, k, b))
  <1>1. tx # "idle" /\ sent' = sent /\ UNCHANGED <<rxVars, plugged>>
    BY DEF TransmitPlain, TransmitEscape, TransmitEscaped, TransmitEnd
  <1>2. PICK j : j = Len(sent)
    OBVIOUS
  <1>3. PICK n : n = Len(sent[j]) - Len(out)
    OBVIOUS
  <1>4. /\ j \in 1..MaxPackets /\ j \in 1..Len(sent) /\ j \in Nat /\ n \in Nat
        /\ Len(sent[j]) \in Nat /\ Len(out) \in Nat /\ n \in 0..Len(sent[j])
        /\ out = <<>> => n = Len(sent[j])
        /\ out # <<>> => /\ n + 1 \in 1..Len(sent[j])
                         /\ Head(out) = sent[j][n + 1] /\ Head(out) \in Bytes
                         /\ Len(Tail(out)) = Len(out) - 1
                         /\ \A i \in 1..Len(Tail(out)) :
                               Tail(out)[i] = sent[j][Len(sent[j]) - Len(Tail(out)) + i]
    <2>1. /\ Len(sent) \in 1..MaxPackets /\ Len(sent) \in 1..Len(sent)
          /\ Len(sent[Len(sent)]) \in Nat /\ Len(out) \in Nat
          /\ Len(sent[Len(sent)]) - Len(out) \in 0..Len(sent[Len(sent)])
          /\ out = <<>> => Len(sent[Len(sent)]) - Len(out) = Len(sent[Len(sent)])
          /\ out # <<>> => /\ Len(sent[Len(sent)]) - Len(out) + 1 \in 1..Len(sent[Len(sent)])
                           /\ Head(out) = sent[Len(sent)][Len(sent[Len(sent)]) - Len(out) + 1]
                           /\ Head(out) \in Bytes
                           /\ Len(Tail(out)) = Len(out) - 1
                           /\ \A i \in 1..Len(Tail(out)) :
                                 Tail(out)[i] = sent[Len(sent)][Len(sent[Len(sent)]) - Len(Tail(out)) + i]
      BY <1>1, SendingFacts, Zenon
    <2>2. j \in 1..MaxPackets /\ j \in 1..Len(sent) /\ n \in 0..Len(sent[j])
      BY <1>2, <1>3, <2>1
    <2>3. j \in Nat /\ n \in Nat
      BY <2>2
    <2>4. out # <<>> => \A i \in 1..Len(Tail(out)) :
                           Tail(out)[i] = sent[j][Len(sent[j]) - Len(Tail(out)) + i]
      BY <1>2, <2>1
    <2> QED
      BY <1>2, <1>3, <2>1, <2>2, <2>3, <2>4
  <1>5. \A x, y : /\ OnPath(x, y)' <=> OnPath(x, y)
                  /\ Meant(x, 0, y)' <=> Meant(x, 0, y)
    BY <1>1 DEF OnPath, Meant, Whole, Coded
  <1>6. \A x, y, z : (Meant(x, y, z)' <=> Meant(x, y, z)) /\ Whole(x)' = Whole(x)
    BY <1>1 DEF Meant, Whole, Coded
  <1>7. /\ TxPacket = j
        /\ tx = "body" => TxAt = 2 * n + 1
        /\ tx = "escape" => TxAt = 2 * (n + 1)
    <2>1. 2 * n + 2 = 2 * (n + 1)
      BY <1>4
    <2>2. tx = "body" \/ tx = "escape"
      BY <1>1 DEF TypeOK
    <2>3. TxPacket = j /\ TxAt = 2 * n + (IF tx = "body" THEN 1 ELSE 2)
      BY <1>1, <1>2, <1>3 DEF TxPacket, TxAt
    <2> QED
      BY <2>1, <2>2, <2>3
  <1>8. ASSUME tx' = "body", out # <<>>, out' = Tail(out)
        PROVE  TxPacket' = j /\ TxAt' = 2 * (n + 1) + 1 /\ Sending'
    <2>1. Len(out') = Len(out) - 1 /\ Len(sent[j]) - (Len(out) - 1) = n + 1
      BY <1>3, <1>4, <1>8
    <2>2. TxPacket' = j /\ TxAt' = 2 * (n + 1) + 1
      BY <1>1, <1>2, <1>8, <2>1 DEF TxPacket, TxAt
    <2>3. Len(out') <= Len(sent[j])
      BY <1>4, <2>1
    <2> QED
      BY <1>1, <1>2, <1>4, <1>8, <2>2, <2>3 DEF Sending
  \* A byte of the packet, whole or the second half of two.
  <1>9. ASSUME NEW w \in LinkByte, w.of = j, ~w.closing,
               wire' = Append(wire, w), hit' = hit, NEW a \in Nat, NEW b \in Nat,
               OnPath(j, a), OnPath(j, b), a < b, a < Whole(j), Meant(j, a, w.byte),
               \A y \in Nat : ~(OnPath(j, y) /\ a < y /\ y < b)
        PROVE  Puts(j, a, j, b)
    <2>1. Meant(j, a, w.byte)' /\ a # Whole(j)'
      BY <1>6, <1>9, SentTypes DEF Whole
    <2>2. \A x \in 1..Len(sent') : \A y \in Nat :
              ~(OnPath(x, y)' /\ Before(j, a, x, y) /\ Before(x, y, j, b))
      BY <1>1, <1>4, <1>5, <1>9 DEF Before
    <2> QED
      BY <1>9, <2>1, <2>2 DEF Puts
  <1>10. ASSUME NEW a \in Nat, NEW b \in Nat, a > 0, OnPath(j, a), OnPath(j, b), a < b,
                TxAt = a, TxPacket' = j, TxAt' = b
         PROVE  Moves(j, a, j, b)
    BY <1>1, <1>4, <1>5, <1>7, <1>10, SentTypes DEF Moves, Before
  <1>11. ASSUME NEW a \in Nat, NEW b \in Nat, WriteFails(j),
                \A y \in Nat : OnPath(j, y) /\ a < y /\ y < b =>
                    \E m \in 1..Len(sent[j]) : y = 2 * m /\ a = 2 * m - 1
         PROVE  Drops(j, a, j, b)
    <2>1. wire' = wire /\ hit' = Reached(j, FALSE)
      BY <1>11 DEF WriteFails
    <2> QED
      BY <1>1, <1>4, <1>5, <1>11, <2>1 DEF Drops, Before
  <1>12. ASSUME out # <<>>
         PROVE  /\ 2 * n + 1 \in Nat /\ 2 * (n + 1) \in Nat /\ 2 * (n + 1) + 1 \in Nat
                /\ 2 * n + 1 > 0 /\ 2 * n + 1 < 2 * (n + 1) /\ 2 * (n + 1) < 2 * (n + 1) + 1
                /\ n + 1 \in 1..Len(sent[j]) /\ 2 * (n + 1) - 1 = 2 * n + 1
                /\ OnPath(j, 2 * (n + 1) + 1) /\ OnPath(j, 2 * n + 1)
                /\ Coded(j, n + 1) => OnPath(j, 2 * (n + 1))
                /\ OnPath(j, 2 * (n + 1)) => Coded(j, n + 1)
                /\ \A y \in Nat : 2 * n + 1 < y /\ y < 2 * (n + 1) + 1 => y = 2 * (n + 1)
                /\ 2 * n + 1 < Whole(j) /\ 2 * (n + 1) < Whole(j)
                /\ Coded(j, n + 1) <=> Head(out) \in {END, ESC}
    <2>1. PICK m : m = n + 1
      OBVIOUS
    <2>2. m \in 1..Len(sent[j]) /\ 2 * m - 1 = 2 * n + 1 /\ m \in Nat
      BY <1>4, <1>12, <2>1
    <2>3. /\ OnPath(j, 2 * m + 1) /\ OnPath(j, 2 * m - 1)
          /\ Coded(j, m) => OnPath(j, 2 * m)
          /\ \A y \in Nat : 2 * m - 1 < y /\ y < 2 * m + 1 => y = 2 * m
          /\ OnPath(j, 2 * m) => Coded(j, m)
          /\ 2 * m - 1 < Whole(j) /\ 2 * m < Whole(j)
      BY <1>4, <2>2, PathAfter
    <2>4. Coded(j, m) <=> Head(out) \in {END, ESC}
      BY <1>4, <1>12, <2>1 DEF Coded
    <2>5. /\ 2 * n + 1 \in Nat /\ 2 * m \in Nat /\ 2 * m + 1 \in Nat /\ 2 * n + 1 > 0
          /\ 2 * n + 1 < 2 * m /\ 2 * m < 2 * m + 1
      BY <1>4, <2>2
    <2> QED
      BY <2>1, <2>2, <2>3, <2>4, <2>5
  <1>13. CASE TransmitPlain
    <2>1. /\ tx = "body" /\ tx' = "body" /\ out # <<>> /\ out' = Tail(out)
          /\ Head(out) \notin {END, ESC}
          /\ WriteByte(Head(out), j) \/ WriteFails(j)
      BY <1>2, <1>13 DEF TransmitPlain
    <2>2. PICK a \in Nat, b \in Nat : a = 2 * n + 1 /\ b = 2 * (n + 1) + 1
      BY <1>12, <2>1
    <2>3. \A y \in Nat : ~(OnPath(j, y) /\ a < y /\ y < b)
      BY <1>12, <2>1, <2>2
    <2>4. Moves(j, a, j, b)
      <3>1. a < b /\ a > 0
        BY <1>12, <2>1, <2>2
      <3> QED
        BY <1>7, <1>8, <1>10, <1>12, <2>1, <2>2, <3>1
    <2>5. Puts(j, a, j, b) \/ Drops(j, a, j, b)
      <3>1. CASE WriteByte(Head(out), j)
        <4>1. PICK w : w = [byte |-> Head(out), of |-> j, closing |-> FALSE]
          OBVIOUS
        <4>2. w \in LinkByte
          BY <1>4, <2>1, <4>1 DEF LinkByte
        <4>3. Meant(j, a, w.byte)
          BY <1>4, <1>12, <2>1, <2>2, <4>1 DEF Meant
        <4>4. wire' = Append(wire, w) /\ hit' = hit /\ w.of = j /\ ~w.closing
          BY <3>1, <4>1 DEF WriteByte
        <4>5. a < b /\ a < Whole(j) /\ OnPath(j, a) /\ OnPath(j, b)
          BY <1>12, <2>1, <2>2
        <4> QED
          BY <1>9, <2>3, <4>2, <4>3, <4>4, <4>5
      <3>2. CASE WriteFails(j)
        BY <1>11, <2>3, <3>2
      <3> QED
        BY <2>1, <3>1, <3>2
    <2>6. Sending'
      BY <1>8, <2>1
    <2> QED
      BY <1>4, <2>4, <2>5, <2>6
  <1>14. CASE TransmitEscape
    <2>1. /\ tx = "body" /\ out # <<>> /\ Head(out) \in {END, ESC}
          /\ \/ WriteByte(ESC, j) /\ tx' = "escape" /\ out' = out
             \/ WriteFails(j) /\ tx' = "body" /\ out' = Tail(out)
      BY <1>2, <1>14 DEF TransmitEscape
    <2>2. PICK a \in Nat : a = 2 * n + 1
      BY <1>12, <2>1
    <2>3. CASE WriteByte(ESC, j) /\ tx' = "escape" /\ out' = out
      <3>1. PICK b \in Nat : b = 2 * (n + 1)
        BY <1>12, <2>1
      <3>2. TxPacket' = j /\ TxAt' = b
        <4>1. TxPacket' = j /\ TxAt' = 2 * n + 2
          BY <1>1, <1>2, <1>3, <2>3 DEF TxPacket, TxAt
        <4> QED
          BY <1>4, <3>1, <4>1
      <3>3. /\ a < b /\ a > 0 /\ a < Whole(j) /\ OnPath(j, a) /\ OnPath(j, b)
            /\ \A y \in Nat : ~(a < y /\ y < b)
        BY <1>4, <1>12, <2>1, <2>2, <3>1
      <3>4. Moves(j, a, j, b)
        BY <1>7, <1>10, <2>1, <2>2, <3>2, <3>3
      <3>5. PICK w : w = [byte |-> ESC, of |-> j, closing |-> FALSE]
        OBVIOUS
      <3>6. w \in LinkByte
        BY <1>4, <3>5, Codes DEF LinkByte
      <3>7. Meant(j, a, w.byte)
        BY <1>4, <1>12, <2>1, <2>2, <3>5 DEF Meant
      <3>8. wire' = Append(wire, w) /\ hit' = hit /\ w.of = j /\ ~w.closing
        BY <2>3, <3>5 DEF WriteByte
      <3>9. Puts(j, a, j, b)
        BY <1>9, <3>3, <3>6, <3>7, <3>8
      <3>10. Sending'
        BY <1>1, <2>1, <2>3 DEF Sending
      <3> QED
        BY <1>4, <3>4, <3>9, <3>10
    <2>4. CASE WriteFails(j) /\ tx' = "body" /\ out' = Tail(out)
      <3>1. PICK b \in Nat : b = 2 * (n + 1) + 1
        BY <1>12, <2>1
      <3>2. a < b /\ a > 0
        BY <1>12, <2>1, <2>2, <3>1
      <3>3. Moves(j, a, j, b)
        BY <1>7, <1>8, <1>10, <1>12, <2>1, <2>2, <2>4, <3>1, <3>2
      <3>4. \A y \in Nat : OnPath(j, y) /\ a < y /\ y < b =>
                \E m \in 1..Len(sent[j]) : y = 2 * m /\ a = 2 * m - 1
        BY <1>12, <2>1, <2>2, <3>1
      <3>5. Drops(j, a, j, b)
        BY <1>11, <2>4, <3>4
      <3> QED
        BY <1>4, <1>8, <2>1, <2>4, <3>3, <3>5
    <2> QED
      BY <2>1, <2>3, <2>4
  <1>15. CASE TransmitEscaped
    <2>1. /\ tx = "escape" /\ tx' = "body" /\ out' = Tail(out)
          /\ out # <<>> /\ Head(out) \in {END, ESC}
          /\ WriteByte(Code(Head(out)), j) \/ WriteFails(j)
      BY <1>2, <1>15 DEF TransmitEscaped, Sending
    <2>2. PICK a \in Nat, b \in Nat : a = 2 * (n + 1) /\ b = 2 * (n + 1) + 1
      BY <1>12, <2>1
    <2>3. /\ a < b /\ a > 0 /\ a < Whole(j) /\ OnPath(j, a) /\ OnPath(j, b)
          /\ \A y \in Nat : ~(a < y /\ y < b)
      BY <1>4, <1>12, <2>1, <2>2
    <2>4. Moves(j, a, j, b)
      BY <1>7, <1>8, <1>10, <2>1, <2>2, <2>3
    <2>5. Puts(j, a, j, b) \/ Drops(j, a, j, b)
      <3>1. CASE WriteByte(Code(Head(out)), j)
        <4>1. PICK w : w = [byte |-> Code(Head(out)), of |-> j, closing |-> FALSE]
          OBVIOUS
        <4>2. w \in LinkByte
          BY <1>4, <2>1, <4>1, Codes DEF LinkByte
        <4>3. Meant(j, a, w.byte)
          BY <1>4, <1>12, <2>1, <2>2, <4>1 DEF Meant
        <4>4. wire' = Append(wire, w) /\ hit' = hit /\ w.of = j /\ ~w.closing
          BY <3>1, <4>1 DEF WriteByte
        <4> QED
          BY <1>9, <2>3, <4>2, <4>3, <4>4
      <3>2. CASE WriteFails(j)
        BY <1>11, <2>3, <3>2
      <3> QED
        BY <2>1, <3>1, <3>2
    <2>6. Sending'
      BY <1>8, <2>1
    <2> QED
      BY <1>4, <2>4, <2>5, <2>6
  <1>16. CASE TransmitEnd
    <2>1. /\ tx = "body" /\ tx' = "idle" /\ out = <<>>
          /\ WriteClosing(j) \/ WriteFails(j)
      BY <1>2, <1>16 DEF TransmitEnd
    <2>2. PICK a \in Nat, k \in Nat : a = Whole(j) /\ k = j + 1
      BY <1>4 DEF Whole
    <2>3. a = 2 * n + 1 /\ TxAt = a /\ a > 0 /\ TxPacket' = k /\ TxAt' = 0
      BY <1>1, <1>2, <1>4, <1>7, <2>1, <2>2 DEF Whole, TxPacket, TxAt
    <2>4. OnPath(j, a) /\ OnPath(k, 0)
      BY <1>4, <2>2 DEF OnPath
    <2>5. \A x \in 1..Len(sent') : \A y \in Nat :
              ~(OnPath(x, y)' /\ Before(j, a, x, y) /\ Before(x, y, k, 0))
      <3>1. \A y \in Nat : OnPath(j, y) => ~(a < y)
        BY <1>4, <2>2, PlaceInside
      <3> QED
        BY <1>1, <1>4, <1>5, <2>2, <3>1 DEF Before
    <2>6. Moves(j, a, k, 0)
      BY <1>1, <1>2, <1>4, <1>5, <1>7, <2>2, <2>3, <2>4 DEF Moves, Before
    <2>7. Puts(j, a, k, 0) \/ Drops(j, a, k, 0)
      <3>1. CASE WriteClosing(j)
        <4>1. PICK w : w = [byte |-> END, of |-> j, closing |-> TRUE]
          OBVIOUS
        <4>2. w \in LinkByte
          BY <1>4, <4>1, Codes DEF LinkByte
        <4>3. Meant(j, a, w.byte)' /\ a = Whole(j)'
          BY <1>6, <2>2, <4>1 DEF Meant
        <4>4. wire' = Append(wire, w) /\ hit' = hit /\ w.of = j /\ w.closing /\ w.byte = END
          BY <3>1, <4>1 DEF WriteClosing
        <4> QED
          BY <2>5, <4>2, <4>3, <4>4 DEF Puts
      <3>2. CASE WriteFails(j)
        BY <2>5, <3>2 DEF WriteFails, Drops
      <3> QED
        BY <2>1, <3>1, <3>2
    <2>8. Sending'
      BY <2>1 DEF Sending
    <2> QED
      BY <1>4, <2>2, <2>6, <2>7, <2>8
  <1> QED
    BY <1>13, <1>14, <1>15, <1>16

LEMMA Transmits ==
    ASSUME TypeOK, Underway, Sending,
           \/ \E p \in Packets : TransmitStart(p)
           \/ TransmitPlain \/ TransmitEscape \/ TransmitEscaped \/ TransmitEnd
    PROVE  /\ Sending'
           /\ \E j, a, k, b \in Nat :
                 Moves(j, a, k, b) /\ (Puts(j, a, k, b) \/ Drops(j, a, k, b))
  BY TransmitStarts, TransmitsOn

(* The whole line, from the receiver to the transmitter.                   *)
Marked(pk, at, dam) ==
    /\ pk \in [1..(Len(wire) + 1) -> Nat] /\ at \in [1..(Len(wire) + 1) -> Nat]
    /\ pk[Len(wire) + 1] = TxPacket /\ at[Len(wire) + 1] = TxAt
    /\ \A i \in 1..Len(wire) : Link(dam, wire[i], pk[i], at[i], pk[i + 1], at[i + 1])
    /\ Damage(dam)

Sound ==
    plugged => \E pk, at, dam : Marked(pk, at, dam) /\ Heard(dam, pk[1], at[1])

SlipInv == TypeOK /\ Underway /\ Sending /\ Sound

(* Damage at one more place.                                               *)
LEMMA DamageGrows ==
    ASSUME NEW dam, Damage(dam), NEW j \in Nat, NEW a \in Nat,
           hit \subseteq hit', j \in hit', j \in hit => j + 1 \in hit'
    PROVE  \E dam2 : /\ Damage(dam2)' /\ a \in dam2[j]
                     /\ \A x \in Nat : dam[x] \subseteq dam2[x]
  <1>1. dam \in [Nat -> SUBSET Nat] /\ dam[j] \subseteq Nat
    BY DEF Damage
  <1>2. PICK dam2 : /\ dam2 \in [Nat -> SUBSET Nat]
                    /\ dam2[j] = dam[j] \cup {a}
                    /\ \A x \in Nat : x # j => dam2[x] = dam[x]
    <2> DEFINE more == [dam EXCEPT ![j] = dam[j] \cup {a}]
    <2>1. /\ more \in [Nat -> SUBSET Nat]
          /\ more[j] = dam[j] \cup {a}
          /\ \A x \in Nat : x # j => more[x] = dam[x]
      BY <1>1
    <2> HIDE DEF more
    <2> QED
      BY <2>1
  <1>3. \A x \in Nat : dam2[x] # {} => x \in hit'
    BY <1>2 DEF Damage
  <1>4. ASSUME NEW x \in Nat, NEW d \in dam2[x], NEW e \in dam2[x], d # e
        PROVE  x + 1 \in hit'
    <2>1. CASE x = j
      <3>1. dam[j] # {}
        BY <1>2, <1>4, <2>1
      <3> QED
        BY <2>1, <3>1 DEF Damage
    <2>2. CASE x # j
      BY <1>2, <1>4, <2>2 DEF Damage
    <2> QED
      BY <2>1, <2>2
  <1>5. Damage(dam2)'
    BY <1>2, <1>3, <1>4 DEF Damage
  <1>6. a \in dam2[j] /\ \A x \in Nat : dam[x] \subseteq dam2[x]
    BY <1>2
  <1> QED
    BY <1>5, <1>6

LEMMA ReachedGrows ==
    ASSUME NEW j, NEW t, hit' = Reached(j, t)
    PROVE  /\ hit \subseteq hit' /\ j \in hit' /\ (j \in hit => j + 1 \in hit')
           /\ t => j + 1 \in hit'
  BY DEF Reached

LEMMA SoundInit == Init => Sending /\ Sound
  <1> SUFFICES ASSUME Init PROVE Sound
    BY DEF Init, Sending
  <1>1. Len(wire) = 0 /\ TxPacket = 1 /\ TxAt = 0 /\ hit = {}
    BY DEF Init, TxPacket, TxAt
  <1>2. PICK pk, at, dam : /\ pk = [i \in 1..1 |-> 1] /\ at = [i \in 1..1 |-> 0]
                           /\ dam = [j \in Nat |-> {}]
    OBVIOUS
  <1>3. Marked(pk, at, dam)
    <2>1. Damage(dam)
      BY <1>1, <1>2 DEF Damage
    <2> QED
      BY <1>1, <1>2, <2>1 DEF Marked
  <1>4. Heard(dam, 1, 0)
    <2>1. Len(delivered) = 0 /\ ~escaped /\ buffer = <<>>
      BY DEF Init
    <2> QED
      BY <2>1 DEF Heard, AtOpening, InPacket, BackInSync, FirstOut, CountOut, LastOut
  <1> QED
    BY <1>2, <1>3, <1>4 DEF Sound

(* Every link of the line outlives a step that damages other bytes only.   *)
LEMMA LinkKept ==
    ASSUME TypeOK, NEW dam, NEW dam2, NEW w, NEW j, NEW a, NEW k, NEW b,
           Link(dam, w, j, a, k, b),
           Len(sent') \in Nat, Len(sent) <= Len(sent'),
           \A i \in 1..Len(sent) : sent'[i] = sent[i],
           hit \subseteq hit', \A x \in Nat : dam[x] \subseteq dam2[x]
    PROVE  Link(dam2, w, j, a, k, b)'
  <1>1. w.byte \in Bytes
    BY DEF Link, AtFront
  <1> QED
    BY <1>1, LinkStretched

(* Where the receiver stands.                                              *)
LEMMA FrontPlace ==
    ASSUME TypeOK, Underway, NEW pk, NEW at, NEW dam, Marked(pk, at, dam)
    PROVE  /\ Len(wire) \in Nat /\ wire \in Seq(LinkByte) /\ Len(sent) \in Nat
           /\ \A i \in 1..(Len(wire) + 1) : pk[i] \in Nat /\ at[i] \in Nat
           /\ pk[1] <= Len(sent) + 1
           /\ at[1] > 0 => pk[1] \in 1..Len(sent)
  <1>1. Len(wire) \in Nat /\ wire \in Seq(LinkByte) /\ Len(sent) \in Nat
    BY SentTypes, LenProperties DEF TypeOK, LinkByte
  <1>2. \A i \in 1..(Len(wire) + 1) : pk[i] \in Nat /\ at[i] \in Nat
    BY DEF Marked
  <1>3. CASE Len(wire) = 0
    <2>1. pk[1] = TxPacket /\ at[1] = TxAt
      BY <1>3 DEF Marked
    <2>2. CASE tx = "idle"
      <3>1. pk[1] = Len(sent) + 1 /\ at[1] = 0
        BY <2>1, <2>2 DEF TxPacket, TxAt
      <3> QED
        BY <1>1, <1>2, <3>1
    <2>3. CASE tx # "idle"
      <3>1. pk[1] = Len(sent) /\ Len(sent) >= 1
        BY <2>1, <2>3 DEF TxPacket, Underway
      <3> QED
        BY <1>1, <1>2, <3>1
    <2> QED
      BY <2>2, <2>3
  <1>4. CASE Len(wire) > 0
    <2>1. Link(dam, wire[1], pk[1], at[1], pk[1 + 1], at[1 + 1])
      BY <1>1, <1>4 DEF Marked
    <2>2. pk[1] \in 1..Len(sent)
      BY <2>1 DEF Link, AtFront
    <2> QED
      BY <1>1, <1>2, <2>2
  <1> QED
    BY <1>1, <1>3, <1>4

LEMMA FrontKept ==
    ASSUME TypeOK, Underway, NEW pk, NEW at, NEW dam, NEW dam2,
           Marked(pk, at, dam), Heard(dam, pk[1], at[1]), UNCHANGED rxVars,
           \A i \in 1..Len(sent) : sent'[i] = sent[i],
           hit \subseteq hit', \A x \in Nat : dam[x] \subseteq dam2[x]
    PROVE  \A j, a : j = pk[1] /\ a = at[1] => Heard(dam2, j, a)'
  <1> SUFFICES ASSUME NEW j, NEW a, j = pk[1], a = at[1] PROVE Heard(dam2, j, a)'
    OBVIOUS
  <1>1. /\ j \in Nat /\ a \in Nat /\ Len(sent) \in Nat
        /\ j <= Len(sent) + 1 /\ (a > 0 => j \in 1..Len(sent))
    <2>1. 1 \in 1..(Len(wire) + 1)
      BY FrontPlace
    <2> QED
      BY <2>1, FrontPlace
  <1>2. \A i \in 1..(j - 1) : i \in 1..Len(sent)
    BY <1>1
  <1>3. Heard(dam, j, a)
    OBVIOUS
  <1> QED
    BY <1>1, <1>2, <1>3, HeardKept

LEMMA SoundPut ==
    ASSUME TypeOK, Underway, TypeOK', NEW pk, NEW at, NEW dam,
           Marked(pk, at, dam), Heard(dam, pk[1], at[1]),
           NEW j \in Nat, NEW a \in Nat, NEW k \in Nat, NEW b \in Nat,
           Moves(j, a, k, b), Puts(j, a, k, b)
    PROVE  Sound'
  <1>1. PICK n : n = Len(wire)
    OBVIOUS
  <1>2. PICK w \in LinkByte : /\ wire' = Append(wire, w)
                              /\ w.of = j
                              /\ w.closing <=> a = Whole(j)'
                              /\ Meant(j, a, w.byte)'
                              /\ w.closing => w.byte = END
    BY DEF Puts
  <1>3. /\ n \in Nat /\ wire \in Seq(LinkByte) /\ Len(sent) \in Nat /\ Len(sent') \in Nat
        /\ \A i \in 1..(n + 1) : pk[i] \in Nat /\ at[i] \in Nat
        /\ pk[1] <= Len(sent) + 1 /\ (at[1] > 0 => pk[1] \in 1..Len(sent))
    <2>1. Len(sent') \in Nat
      BY LenProperties DEF TypeOK
    <2> QED
      BY <1>1, <2>1, FrontPlace
  <1>4. /\ Len(wire') = n + 1 /\ wire'[n + 1] = w
        /\ \A i \in 1..n : wire'[i] = wire[i]
    BY <1>1, <1>2, <1>3, AppendProperties
  <1>5. /\ j = TxPacket /\ a = TxAt /\ k = TxPacket' /\ b = TxAt'
        /\ Len(sent) <= Len(sent') /\ \A i \in 1..Len(sent) : sent'[i] = sent[i]
        /\ hit' = hit /\ UNCHANGED rxVars
    BY DEF Moves, Puts
  <1>6. PICK pk2, at2 :
            /\ pk2 = [i \in 1..(n + 2) |-> IF i = n + 2 THEN k ELSE pk[i]]
            /\ at2 = [i \in 1..(n + 2) |-> IF i = n + 2 THEN b ELSE at[i]]
    OBVIOUS
  <1>7. /\ pk2 \in [1..(n + 2) -> Nat] /\ at2 \in [1..(n + 2) -> Nat]
        /\ pk2[n + 2] = k /\ at2[n + 2] = b
        /\ \A i \in 1..(n + 1) : pk2[i] = pk[i] /\ at2[i] = at[i]
        /\ pk[n + 1] = j /\ at[n + 1] = a
    <2>1. pk[n + 1] = j /\ at[n + 1] = a
      BY <1>1, <1>5 DEF Marked
    <2>2. /\ n + 2 \in 1..(n + 2)
          /\ \A i \in 1..(n + 1) : i \in 1..(n + 2) /\ i # n + 2
      BY <1>3
    <2>3. \A i \in 1..(n + 2) : i # n + 2 => i \in 1..(n + 1)
      BY <1>3
    <2> QED
      BY <1>3, <1>6, <2>1, <2>2, <2>3
  <1>8. ASSUME NEW i \in 1..n, NEW v, v = wire[i]
        PROVE  Link(dam, v, pk2[i], at2[i], pk2[i + 1], at2[i + 1])'
    <2>1. Link(dam, v, pk[i], at[i], pk[i + 1], at[i + 1])
      BY <1>1, <1>8 DEF Marked
    <2>2. Link(dam, v, pk[i], at[i], pk[i + 1], at[i + 1])'
      BY <1>3, <1>5, <2>1, LinkKept
    <2>3. i \in 1..(n + 1) /\ i + 1 \in 1..(n + 1)
      BY <1>3
    <2> QED
      BY <1>7, <2>2, <2>3
  <1>9. Link(dam, w, j, a, k, b)'
    <2>1. w.byte \in Bytes /\ END # ESC
      BY SlipAssumption DEF LinkByte
    <2>2. Gap(dam, j, a, k, b)'
      BY DEF Puts, Gap, Before
    <2> QED
      BY <1>2, <2>1, <2>2 DEF Link, AtFront, Moves, Before
  <1>10. \A i \in 1..(n + 1) : Link(dam, wire[i], pk2[i], at2[i], pk2[i + 1], at2[i + 1])'
    <2> SUFFICES ASSUME NEW i \in 1..(n + 1), NEW v, v = wire'[i]
                 PROVE  Link(dam, v, pk2[i], at2[i], pk2[i + 1], at2[i + 1])'
      BY DEF Link
    <2>1. CASE i = n + 1
      <3>1. i + 1 = n + 2 /\ i \in 1..(n + 1) /\ v = w
        BY <1>3, <1>4, <2>1
      <3> QED
        BY <1>7, <1>9, <2>1, <3>1
    <2>2. CASE i # n + 1
      <3>1. i \in 1..n /\ v = wire[i]
        BY <1>3, <1>4, <2>2
      <3> QED
        BY <1>8, <3>1
    <2> QED
      BY <2>1, <2>2
  <1>11. Damage(dam)'
    BY <1>5 DEF Marked, Damage
  <1>12. Marked(pk2, at2, dam)'
    <2>1. Len(wire') + 1 = n + 2
      BY <1>3, <1>4
    <2> QED
      BY <1>4, <1>5, <1>7, <1>10, <1>11, <2>1 DEF Marked
  <1>13. \A f, g : f = pk[1] /\ g = at[1] => Heard(dam, f, g)'
    BY <1>5, FrontKept
  <1>14. pk2[1] = pk[1] /\ at2[1] = at[1]
    BY <1>3, <1>7
  <1> QED
    BY <1>12, <1>13, <1>14 DEF Sound

LEMMA SoundDrop ==
    ASSUME TypeOK, Underway, TypeOK', NEW pk, NEW at, NEW dam,
           Marked(pk, at, dam), Heard(dam, pk[1], at[1]),
           NEW j \in Nat, NEW a \in Nat, NEW k \in Nat, NEW b \in Nat,
           Moves(j, a, k, b), Drops(j, a, k, b)
    PROVE  Sound'
  <1>1. PICK n : n = Len(wire)
    OBVIOUS
  <1>2. /\ n \in Nat /\ Len(sent) \in Nat /\ Len(sent') \in Nat
        /\ \A i \in 1..(n + 1) : pk[i] \in Nat /\ at[i] \in Nat
        /\ hit' \subseteq Nat
    <2>1. Len(sent') \in Nat /\ hit' \subseteq Nat
      BY LenProperties DEF TypeOK
    <2> QED
      BY <1>1, <2>1, FrontPlace
  <1>3. /\ j = TxPacket /\ a = TxAt /\ k = TxPacket' /\ b = TxAt'
        /\ Len(sent) <= Len(sent') /\ \A i \in 1..Len(sent) : sent'[i] = sent[i]
        /\ wire' = wire /\ hit' = Reached(j, FALSE) /\ UNCHANGED rxVars
    BY DEF Moves, Drops
  <1>4. hit \subseteq hit' /\ j \in hit' /\ (j \in hit => j + 1 \in hit')
    BY <1>3, ReachedGrows
  <1>5. Damage(dam)
    BY DEF Marked
  <1>6. PICK dam2 : Damage(dam2)' /\ a \in dam2[j] /\ \A x \in Nat : dam[x] \subseteq dam2[x]
    BY <1>4, <1>5, DamageGrows
  <1>7. PICK pk2, at2 :
            /\ pk2 = [i \in 1..(n + 1) |-> IF i = n + 1 THEN k ELSE pk[i]]
            /\ at2 = [i \in 1..(n + 1) |-> IF i = n + 1 THEN b ELSE at[i]]
    OBVIOUS
  <1>8. /\ pk2 \in [1..(n + 1) -> Nat] /\ at2 \in [1..(n + 1) -> Nat]
        /\ pk2[n + 1] = k /\ at2[n + 1] = b
        /\ \A i \in 1..n : pk2[i] = pk[i] /\ at2[i] = at[i]
        /\ pk[n + 1] = j /\ at[n + 1] = a
    <2>1. pk[n + 1] = j /\ at[n + 1] = a
      BY <1>1, <1>3 DEF Marked
    <2>2. /\ n + 1 \in 1..(n + 1)
          /\ \A i \in 1..n : i \in 1..(n + 1) /\ i # n + 1
      BY <1>2
    <2> QED
      BY <1>2, <1>7, <2>1, <2>2
  <1>9. Gap(dam2, j, a, k, b)'
    <2> SUFFICES ASSUME NEW x \in 1..Len(sent'), NEW y \in Nat, OnPath(x, y)',
                        Before(j, a, x, y), Before(x, y, k, b)
                 PROVE  Missing(dam2, x, y)'
      BY DEF Gap, Before
    <2>1. x = j /\ \E m \in 1..Len(sent'[j]) : y = 2 * m /\ a = 2 * m - 1
      BY DEF Drops
    <2> QED
      BY <1>6, <2>1 DEF Missing
  <1>10. ASSUME NEW i \in 1..n, NEW v, v = wire[i]
         PROVE  Link(dam2, v, pk2[i], at2[i], pk2[i + 1], at2[i + 1])'
    <2>1. Link(dam, v, pk[i], at[i], pk[i + 1], at[i + 1])
      BY <1>1, <1>10 DEF Marked
    <2>2. CASE i = n
      <3>1. Link(dam, v, pk[i], at[i], j, a) /\ v.byte \in Bytes
        BY <1>2, <1>8, <2>1, <2>2 DEF Link, AtFront
      <3>2. k \in 1..(Len(sent') + 1) /\ OnPath(k, b)' /\ Before(j, a, k, b)
        BY DEF Moves
      <3>3. Link(dam2, v, pk[i], at[i], k, b)'
        BY <1>2, <1>3, <1>4, <1>6, <1>9, <3>1, <3>2, LinkStretched
      <3>4. pk2[i] = pk[i] /\ at2[i] = at[i] /\ pk2[i + 1] = k /\ at2[i + 1] = b
        BY <1>8, <2>2
      <3> QED
        BY <3>3, <3>4
    <2>3. CASE i # n
      <3>1. Link(dam2, v, pk[i], at[i], pk[i + 1], at[i + 1])'
        BY <1>2, <1>3, <1>4, <1>6, <2>1, LinkKept
      <3>2. i + 1 \in 1..n
        BY <1>2, <2>3
      <3>3. pk2[i] = pk[i] /\ at2[i] = at[i] /\ pk2[i + 1] = pk[i + 1] /\ at2[i + 1] = at[i + 1]
        BY <1>8, <3>2
      <3> QED
        BY <3>1, <3>3
    <2> QED
      BY <2>2, <2>3
  <1>11. \A i \in 1..n : Link(dam2, wire[i], pk2[i], at2[i], pk2[i + 1], at2[i + 1])'
    BY <1>3, <1>10 DEF Link
  <1>12. Marked(pk2, at2, dam2)'
    BY <1>1, <1>3, <1>6, <1>8, <1>11 DEF Marked
  <1>13. CASE n > 0
    <2>1. \A f, g : f = pk[1] /\ g = at[1] => Heard(dam2, f, g)'
      BY <1>3, <1>4, <1>6, FrontKept
    <2>2. pk2[1] = pk[1] /\ at2[1] = at[1]
      BY <1>2, <1>8, <1>13
    <2> QED
      BY <1>12, <2>1, <2>2 DEF Sound
  <1>14. CASE n = 0
    <2>1. Heard(dam, j, a)
      BY <1>8, <1>14
    <2>2. Before(j, a, k, b) /\ (k > j => k = j + 1 /\ b = 0 /\ \E m \in Nat : a = 2 * m + 1)
      BY DEF Moves
    <2>3. \A i \in 1..(j - 1) : sent'[i] = sent[i]
      <3>1. j <= Len(sent) + 1
        BY <1>2, <1>3 DEF TxPacket
      <3>2. \A i \in 1..(j - 1) : i \in 1..Len(sent)
        BY <1>2, <3>1
      <3> QED
        BY <1>3, <3>2
    <2>4. Heard(dam2, k, b)'
      <3>1. \A y \in Nat : ~(j < y /\ y < k)
        BY <2>2 DEF Before
      <3>2. ~(b > 0 /\ j < k)
        BY <2>2
      <3> QED
        BY <1>2, <1>3, <1>4, <1>6, <2>1, <2>2, <2>3, <3>1, <3>2, HeardPastLoss
    <2>5. pk2[1] = k /\ at2[1] = b
      BY <1>8, <1>14
    <2> QED
      BY <1>12, <2>4, <2>5 DEF Sound
  <1> QED
    BY <1>2, <1>13, <1>14

LEMMA SoundRead ==
    ASSUME TypeOK, Underway, NEW pk, NEW at, NEW dam,
           Marked(pk, at, dam), Heard(dam, pk[1], at[1]), ReadByte
    PROVE  Sound'
  <1>1. PICK n : n = Len(wire)
    OBVIOUS
  <1>2. /\ n \in Nat /\ wire \in Seq(LinkByte) /\ wire # <<>> /\ Len(sent) \in Nat
        /\ \A i \in 1..(n + 1) : pk[i] \in Nat /\ at[i] \in Nat
        /\ wire' = Tail(wire) /\ Receive(Head(wire).byte)
        /\ sent' = sent /\ tx' = tx /\ out' = out /\ hit' = hit
    BY <1>1, FrontPlace DEF ReadByte, txVars
  <1>3. n >= 1 /\ Head(wire) = wire[1] /\ Len(wire') = n - 1
        /\ \A i \in 1..(n - 1) : wire'[i] = wire[i + 1]
    BY <1>1, <1>2, HeadTailProperties, EmptySeq
  <1>4. PICK pk2, at2 : /\ pk2 = [i \in 1..n |-> pk[i + 1]]
                        /\ at2 = [i \in 1..n |-> at[i + 1]]
    OBVIOUS
  <1>5. /\ pk2 \in [1..n -> Nat] /\ at2 \in [1..n -> Nat]
        /\ pk2[n] = pk[n + 1] /\ at2[n] = at[n + 1]
        /\ \A i \in 1..n : pk2[i] = pk[i + 1] /\ at2[i] = at[i + 1]
    BY <1>2, <1>3, <1>4
  <1>6. ASSUME NEW i \in 1..(n - 1), NEW v, v = wire[i + 1]
        PROVE  Link(dam, v, pk2[i], at2[i], pk2[i + 1], at2[i + 1])'
    <2>1. i + 1 \in 1..n /\ i \in 1..n
      BY <1>2
    <2>2. Link(dam, v, pk[i + 1], at[i + 1], pk[(i + 1) + 1], at[(i + 1) + 1])
      BY <1>1, <1>6, <2>1 DEF Marked
    <2>3. Link(dam, v, pk[i + 1], at[i + 1], pk[(i + 1) + 1], at[(i + 1) + 1])'
      BY <1>2, <2>2, LinkKept
    <2> QED
      BY <1>5, <2>1, <2>3
  <1>7. \A i \in 1..(n - 1) : Link(dam, wire[i], pk2[i], at2[i], pk2[i + 1], at2[i + 1])'
    BY <1>3, <1>6 DEF Link
  <1>8. Marked(pk2, at2, dam)'
    <2>1. Len(wire') + 1 = n /\ Len(wire') = n - 1
      BY <1>2, <1>3
    <2>2. TxPacket' = TxPacket /\ TxAt' = TxAt
      BY <1>2 DEF TxPacket, TxAt
    <2>3. pk2[n] = TxPacket' /\ at2[n] = TxAt'
      BY <1>1, <1>5, <2>2 DEF Marked
    <2>4. Damage(dam)'
      BY <1>2 DEF Marked, Damage
    <2> QED
      BY <1>5, <1>7, <2>1, <2>3, <2>4 DEF Marked
  <1>9. Heard(dam, pk2[1], at2[1])'
    <2>1. PICK j, a, k, b, x : j = pk[1] /\ a = at[1] /\ k = pk[2] /\ b = at[2] /\ x = Head(wire).byte
      OBVIOUS
    <2>2. Link(dam, wire[1], pk[1], at[1], pk[1 + 1], at[1 + 1])
      BY <1>1, <1>2, <1>3 DEF Marked
    <2>3. AtFront(dam, j, a, x, k, b)
      BY <1>3, <2>1, <2>2 DEF Link
    <2>4. Heard(dam, k, b)'
      BY <1>2, <2>1, <2>3, ReadHeard DEF Marked
    <2>5. pk2[1] = k /\ at2[1] = b
      BY <1>2, <1>3, <1>5, <2>1
    <2> QED
      BY <2>4, <2>5
  <1> QED
    BY <1>8, <1>9 DEF Sound

LEMMA SoundChange ==
    ASSUME TypeOK, Underway, NEW pk, NEW at, NEW dam,
           Marked(pk, at, dam), Heard(dam, pk[1], at[1]),
           NEW i \in DOMAIN wire, NEW x \in Bytes, Change(i, x)
    PROVE  Sound'
  <1>1. PICK n : n = Len(wire)
    OBVIOUS
  <1>2. /\ n \in Nat /\ wire \in Seq(LinkByte) /\ Len(sent) \in Nat /\ i \in 1..n
        /\ \A m \in 1..(n + 1) : pk[m] \in Nat /\ at[m] \in Nat
        /\ wire' = [wire EXCEPT ![i] = [wire[i] EXCEPT !.byte = x]]
        /\ hit' = Reached(wire[i].of, wire[i].closing /\ x = ESC)
        /\ sent' = sent /\ tx' = tx /\ out' = out /\ UNCHANGED rxVars
    BY <1>1, FrontPlace, LenProperties DEF Change, txVars
  <1>3. PICK j, a, old, new : /\ j = pk[i] /\ a = at[i] /\ old = wire[i]
                              /\ new = [wire[i] EXCEPT !.byte = x]
    OBVIOUS
  <1>4. Link(dam, old, j, a, pk[i + 1], at[i + 1]) /\ j \in Nat /\ a \in Nat /\ old.of = j
    BY <1>1, <1>2, <1>3 DEF Marked, Link
  <1>5. old \in LinkByte /\ new.of = old.of /\ new.closing = old.closing /\ new.byte = x
    <2>1. old \in LinkByte
      BY <1>1, <1>2, <1>3, ElementOfSeq
    <2>2. new = [old EXCEPT !.byte = x]
      BY <1>3
    <2> QED
      BY <2>1, <2>2 DEF LinkByte
  <1>6. /\ hit \subseteq hit' /\ j \in hit' /\ (j \in hit => j + 1 \in hit')
        /\ old.closing /\ x = ESC => j + 1 \in hit'
    BY <1>2, <1>3, <1>4, ReachedGrows
  <1>7. Damage(dam)
    BY DEF Marked
  <1>8. PICK dam2 : Damage(dam2)' /\ a \in dam2[j] /\ \A y \in Nat : dam[y] \subseteq dam2[y]
    BY <1>4, <1>6, <1>7, DamageGrows
  <1>9. Len(wire') = n /\ \A m \in 1..n : wire'[m] = IF m = i THEN new ELSE wire[m]
    <2>1. new \in LinkByte
      BY <1>3, <1>5 DEF LinkByte
    <2> QED
      BY <1>1, <1>2, <1>3, <2>1, ExceptSeq
  <1>10. ASSUME NEW m \in 1..n, NEW v, v = wire'[m]
         PROVE  Link(dam2, v, pk[m], at[m], pk[m + 1], at[m + 1])'
    <2>1. CASE m = i
      <3>1. v = new /\ m = i
        BY <1>9, <1>10, <2>1
      <3>2. v.of = old.of /\ v.closing = old.closing /\ v.byte = x
        BY <1>5, <3>1
      <3>3. Len(sent') \in Nat /\ Len(sent) <= Len(sent') /\ \A y \in 1..Len(sent) : sent'[y] = sent[y]
        BY <1>2
      <3>4. Link(dam2, v, j, a, pk[i + 1], at[i + 1])'
        BY <1>4, <1>6, <1>8, <3>2, <3>3, LinkStretched
      <3> QED
        BY <1>3, <3>1, <3>4
    <2>2. CASE m # i
      <3>1. Link(dam, v, pk[m], at[m], pk[m + 1], at[m + 1])
        BY <1>1, <1>9, <1>10, <2>2 DEF Marked
      <3> QED
        BY <1>2, <1>6, <1>8, <3>1, LinkKept
    <2> QED
      BY <2>1, <2>2
  <1>11. \A m \in 1..n : Link(dam2, wire[m], pk[m], at[m], pk[m + 1], at[m + 1])'
    BY <1>10 DEF Link
  <1>12. Marked(pk, at, dam2)'
    <2>1. TxPacket' = TxPacket /\ TxAt' = TxAt
      BY <1>2 DEF TxPacket, TxAt
    <2> QED
      BY <1>1, <1>8, <1>9, <1>11, <2>1 DEF Marked
  <1>13. \A f, g : f = pk[1] /\ g = at[1] => Heard(dam2, f, g)'
    BY <1>2, <1>6, <1>8, FrontKept
  <1> QED
    BY <1>12, <1>13 DEF Sound

(* A byte missing from the line moves those behind it up.                  *)
LEMMA LineLost ==
    ASSUME TypeOK, NEW i \in DOMAIN wire, Lose(i)
    PROVE  /\ Len(wire') = Len(wire) - 1
           /\ \A m \in 1..(Len(wire) - 1) :
                 wire'[m] = IF m < i THEN wire[m] ELSE wire[m + 1]
  <1>1. PICK n : n = Len(wire)
    OBVIOUS
  <1>2. n \in Nat /\ wire \in Seq(LinkByte) /\ i \in 1..n
    BY <1>1, LenProperties DEF TypeOK, LinkByte
  <1>3. \A m \in 1..n : wire[m] \in LinkByte
    BY <1>1, <1>2, ElementOfSeq
  <1>4. PICK u, v : u = SubSeq(wire, 1, i - 1) /\ v = SubSeq(wire, i + 1, n)
    OBVIOUS
  <1>5. u \in Seq(LinkByte) /\ Len(u) = i - 1 /\ \A m \in 1..(i - 1) : u[m] = wire[m]
    <2>1. /\ 1 \in Int /\ i - 1 \in Int /\ \A m \in 1..(i - 1) : wire[m] \in LinkByte
          /\ (IF 1 <= i - 1 THEN (i - 1) - 1 + 1 ELSE 0) = i - 1
      BY <1>2, <1>3
    <2>2. /\ u \in Seq(LinkByte) /\ Len(u) = i - 1
          /\ \A m \in 1..(i - 1 - 1 + 1) : u[m] = wire[1 + m - 1]
      BY <1>4, <2>1, SubSeqProperties
    <2>3. \A m \in 1..(i - 1) : m \in 1..(i - 1 - 1 + 1) /\ 1 + m - 1 = m
      BY <1>2
    <2> QED
      BY <2>2, <2>3
  <1>6. v \in Seq(LinkByte) /\ Len(v) = n - i /\ \A m \in 1..(n - i) : v[m] = wire[i + m]
    <2>1. /\ i + 1 \in Int /\ n \in Int /\ \A m \in (i + 1)..n : wire[m] \in LinkByte
          /\ (IF i + 1 <= n THEN n - (i + 1) + 1 ELSE 0) = n - i
      BY <1>2, <1>3
    <2>2. /\ v \in Seq(LinkByte) /\ Len(v) = n - i
          /\ \A m \in 1..(n - (i + 1) + 1) : v[m] = wire[i + 1 + m - 1]
      BY <1>4, <2>1, SubSeqProperties
    <2>3. \A m \in 1..(n - i) : m \in 1..(n - (i + 1) + 1) /\ i + 1 + m - 1 = i + m
      BY <1>2
    <2> QED
      BY <2>2, <2>3
  <1>7. /\ Len(wire') = (i - 1) + (n - i)
        /\ \A m \in 1..((i - 1) + (n - i)) :
              wire'[m] = IF m <= i - 1 THEN u[m] ELSE v[m - (i - 1)]
    <2>1. wire' = u \o v
      BY <1>1, <1>4 DEF Lose
    <2> QED
      BY <1>5, <1>6, <2>1, ConcatProperties
  <1>8. ASSUME NEW m \in 1..(n - 1)
        PROVE  wire'[m] = IF m < i THEN wire[m] ELSE wire[m + 1]
    <2>1. m \in 1..((i - 1) + (n - i))
      BY <1>2
    <2>2. CASE m < i
      BY <1>2, <1>5, <1>7, <2>1, <2>2
    <2>3. CASE ~(m < i)
      <3>1. m - (i - 1) \in 1..(n - i) /\ i + (m - (i - 1)) = m + 1 /\ ~(m <= i - 1)
        BY <1>2, <2>3
      <3>2. wire'[m] = wire[i + (m - (i - 1))]
        BY <1>6, <1>7, <2>1, <3>1
      <3> QED
        BY <2>3, <3>1, <3>2
    <2> QED
      BY <2>2, <2>3
  <1>9. (i - 1) + (n - i) = n - 1
    BY <1>2
  <1> QED
    BY <1>1, <1>7, <1>8, <1>9

LEMMA SoundLose ==
    ASSUME TypeOK, Underway, TypeOK', NEW pk, NEW at, NEW dam,
           Marked(pk, at, dam), Heard(dam, pk[1], at[1]),
           NEW i \in DOMAIN wire, Lose(i)
    PROVE  Sound'
  <1>1. PICK n : n = Len(wire)
    OBVIOUS
  <1>2. /\ n \in Nat /\ wire \in Seq(LinkByte) /\ Len(sent) \in Nat /\ i \in 1..n
        /\ \A m \in 1..(n + 1) : pk[m] \in Nat /\ at[m] \in Nat
        /\ hit' = Reached(wire[i].of, FALSE) /\ hit' \subseteq Nat
        /\ sent' = sent /\ tx' = tx /\ out' = out /\ UNCHANGED rxVars
    <2>1. hit' \subseteq Nat
      BY DEF TypeOK
    <2> QED
      BY <1>1, <2>1, FrontPlace, LenProperties DEF Lose, txVars
  <1>3. PICK j, a, k, b, w : /\ j = pk[i] /\ a = at[i] /\ k = pk[i + 1] /\ b = at[i + 1]
                             /\ w = wire[i]
    OBVIOUS
  <1>4. Link(dam, w, j, a, k, b) /\ w.of = j
    BY <1>1, <1>2, <1>3 DEF Marked, Link
  <1>5. /\ j \in 1..Len(sent) /\ a \in Nat /\ OnPath(j, a)
        /\ k \in 1..(Len(sent) + 1) /\ b \in Nat /\ OnPath(k, b)
        /\ Before(j, a, k, b) /\ Gap(dam, j, a, k, b)
    BY <1>4 DEF Link, AtFront
  <1>6. hit \subseteq hit' /\ j \in hit' /\ (j \in hit => j + 1 \in hit')
    BY <1>2, <1>3, <1>4, ReachedGrows
  <1>7. Damage(dam)
    BY DEF Marked
  <1>8. PICK dam2 : Damage(dam2)' /\ a \in dam2[j] /\ \A y \in Nat : dam[y] \subseteq dam2[y]
    BY <1>5, <1>6, <1>7, DamageGrows
  <1>9. Len(sent') \in Nat /\ Len(sent) <= Len(sent') /\ \A y \in 1..Len(sent) : sent'[y] = sent[y]
    BY <1>2
  <1>10. PICK pk2, at2 :
            /\ pk2 = [m \in 1..n |-> IF m < i THEN pk[m] ELSE pk[m + 1]]
            /\ at2 = [m \in 1..n |-> IF m < i THEN at[m] ELSE at[m + 1]]
    OBVIOUS
  <1>11. /\ pk2 \in [1..n -> Nat] /\ at2 \in [1..n -> Nat]
         /\ \A m \in 1..n : m < i => pk2[m] = pk[m] /\ at2[m] = at[m]
         /\ \A m \in 1..n : ~(m < i) => pk2[m] = pk[m + 1] /\ at2[m] = at[m + 1]
    <2>1. \A m \in 1..n : m \in 1..(n + 1) /\ m + 1 \in 1..(n + 1)
      BY <1>2
    <2> QED
      BY <1>2, <1>10, <2>1
  <1>12. ASSUME NEW m \in 1..n, NEW v, v = wire[m]
         PROVE  /\ Link(dam, v, pk[m], at[m], pk[m + 1], at[m + 1])
                /\ Link(dam2, v, pk[m], at[m], pk[m + 1], at[m + 1])'
    <2>1. Link(dam, v, pk[m], at[m], pk[m + 1], at[m + 1])
      BY <1>1, <1>12 DEF Marked
    <2> QED
      BY <1>6, <1>8, <1>9, <2>1, LinkKept
  <1>13. Gap(dam2, j, a, k, b)' /\ OnPath(k, b)' /\ k \in 1..(Len(sent') + 1)
    <2>1. Link(dam2, w, j, a, k, b)'
      BY <1>2, <1>3, <1>12
    <2> QED
      BY <2>1 DEF Link, AtFront
  <1>14. ASSUME NEW m \in 1..(n - 1), NEW v, v = wire'[m]
         PROVE  Link(dam2, v, pk2[m], at2[m], pk2[m + 1], at2[m + 1])'
    <2>1. m \in 1..n /\ m + 1 \in 1..n
      BY <1>2
    <2>2. v = IF m < i THEN wire[m] ELSE wire[m + 1]
      BY <1>1, <1>14, LineLost
    <2>3. CASE m + 1 < i
      <3>1. v = wire[m] /\ m < i
        BY <1>2, <2>2, <2>3
      <3>2. Link(dam2, v, pk[m], at[m], pk[m + 1], at[m + 1])'
        BY <1>12, <2>1, <3>1
      <3> QED
        BY <1>11, <2>1, <2>3, <3>1, <3>2
    <2>4. CASE m + 1 = i
      <3>1. v = wire[m] /\ m < i /\ ~(m + 1 < i)
        BY <1>2, <2>2, <2>4
      <3>2. Link(dam, v, pk[m], at[m], j, a)
        BY <1>3, <1>12, <2>1, <2>4, <3>1
      <3>3. v.byte \in Bytes
        BY <3>2 DEF Link, AtFront
      <3>4. Link(dam2, v, pk[m], at[m], k, b)'
        BY <1>5, <1>6, <1>8, <1>9, <1>13, <3>2, <3>3, LinkStretched
      <3>5. pk2[m] = pk[m] /\ at2[m] = at[m] /\ pk2[m + 1] = k /\ at2[m + 1] = b
        BY <1>3, <1>11, <2>1, <2>4, <3>1
      <3> QED
        BY <3>4, <3>5
    <2>5. CASE m >= i
      <3>1. v = wire[m + 1] /\ ~(m < i) /\ ~(m + 1 < i)
        BY <1>2, <2>2, <2>5
      <3>2. Link(dam2, v, pk[m + 1], at[m + 1], pk[(m + 1) + 1], at[(m + 1) + 1])'
        BY <1>12, <2>1, <3>1
      <3>3. /\ pk2[m] = pk[m + 1] /\ at2[m] = at[m + 1]
            /\ pk2[m + 1] = pk[(m + 1) + 1] /\ at2[m + 1] = at[(m + 1) + 1]
        BY <1>11, <2>1, <3>1
      <3> QED
        BY <3>2, <3>3
    <2> QED
      BY <1>2, <2>3, <2>4, <2>5
  <1>15. \A m \in 1..(n - 1) : Link(dam2, wire[m], pk2[m], at2[m], pk2[m + 1], at2[m + 1])'
    BY <1>14 DEF Link
  <1>16. Marked(pk2, at2, dam2)'
    <2>1. TxPacket' = TxPacket /\ TxAt' = TxAt
      BY <1>2 DEF TxPacket, TxAt
    <2>2. Len(wire') = n - 1 /\ Len(wire') + 1 = n
      BY <1>1, <1>2, LineLost
    <2>3. pk2[n] = TxPacket' /\ at2[n] = TxAt'
      <3>1. n \in 1..n /\ ~(n < i)
        BY <1>2
      <3> QED
        BY <1>1, <1>11, <2>1, <3>1 DEF Marked
    <2> QED
      BY <1>8, <1>11, <1>15, <2>2, <2>3 DEF Marked
  <1>17. CASE i > 1
    <2>1. \A f, g : f = pk[1] /\ g = at[1] => Heard(dam2, f, g)'
      BY <1>2, <1>6, <1>8, FrontKept
    <2>2. pk2[1] = pk[1] /\ at2[1] = at[1]
      BY <1>2, <1>11, <1>17
    <2> QED
      BY <1>16, <2>1, <2>2 DEF Sound
  <1>18. CASE i = 1
    <2>1. Heard(dam, j, a)
      BY <1>3, <1>18
    <2>2. /\ \A x \in Nat : j < x /\ x < k => x \in hit /\ x + 1 \in hit
          /\ b > 0 /\ j < k => 0 \in dam[k] /\ k \in hit
          /\ j < k /\ a # Whole(j) => j \in hit
      BY <1>5, <1>7, GapDamage
    <2>3. j < k /\ j \notin hit => \E m \in Nat : a = 2 * m + 1
      <3>1. Len(sent[j]) \in Nat
        BY <1>5, SentTypes
      <3> QED
        BY <2>2, <3>1 DEF Whole
    <2>4. \A y \in Nat : j < y /\ y < k => y \in hit' /\ y + 1 \in hit'
      BY <1>6, <2>2
    <2>5. b > 0 /\ j < k => 0 \in dam2[k] /\ k \in hit'
      BY <1>5, <1>6, <1>8, <2>2
    <2>6. \A y \in 1..(j - 1) : sent'[y] = sent[y]
      BY <1>2
    <2>7. Heard(dam2, k, b)'
      <3>1. j \in Nat /\ k \in Nat /\ b \in Nat /\ a \in Nat /\ a \in dam2[j]
        BY <1>5, <1>8
      <3>2. UNCHANGED rxVars /\ hit' \subseteq Nat /\ hit \subseteq hit' /\ Before(j, a, k, b)
        BY <1>2, <1>5, <1>6
      <3> QED
        BY <1>6, <2>1, <2>3, <2>4, <2>5, <2>6, <3>1, <3>2, HeardPastLoss
    <2>8. pk2[1] = k /\ at2[1] = b
      BY <1>2, <1>3, <1>11, <1>18
    <2> QED
      BY <1>16, <2>7, <2>8 DEF Sound
  <1> QED
    BY <1>2, <1>17, <1>18

LEMMA SoundNext == SlipInv /\ [Next]_vars => SlipInv'
  <1> SUFFICES ASSUME TypeOK, Underway, Sending, Sound, [Next]_vars PROVE SlipInv'
    BY DEF SlipInv
  <1>1. TypeOK' /\ Underway'
    BY TypeNext
  <1>2. CASE \/ \E p \in Packets : TransmitStart(p)
             \/ TransmitPlain \/ TransmitEscape \/ TransmitEscaped \/ TransmitEnd
    <2>1. Sending'
      BY <1>2, Transmits
    <2>2. PICK j \in Nat, a \in Nat, k \in Nat, b \in Nat :
              Moves(j, a, k, b) /\ (Puts(j, a, k, b) \/ Drops(j, a, k, b))
      BY <1>2, Transmits
    <2>3. CASE plugged
      <3>1. PICK pk, at, dam : Marked(pk, at, dam) /\ Heard(dam, pk[1], at[1])
        BY <2>3 DEF Sound
      <3>2. Sound'
        BY <1>1, <2>2, <3>1, SoundPut, SoundDrop
      <3> QED
        BY <1>1, <2>1, <3>2 DEF SlipInv
    <2>4. CASE ~plugged
      BY <1>1, <2>1, <2>2, <2>4 DEF SlipInv, Sound, Moves
    <2> QED
      BY <2>3, <2>4
  <1>3. CASE ReadByte \/ \E i \in DOMAIN wire : Lose(i) \/ \E x \in Bytes : Change(i, x)
    <2>1. UNCHANGED txVars /\ plugged' = plugged
      BY <1>3 DEF ReadByte, Lose, Change
    <2>2. Sending'
      BY <2>1 DEF Sending, txVars
    <2>3. CASE plugged
      <3>1. PICK pk, at, dam : Marked(pk, at, dam) /\ Heard(dam, pk[1], at[1])
        BY <2>3 DEF Sound
      <3>2. CASE ReadByte
        BY <1>1, <2>2, <3>1, <3>2, SoundRead DEF SlipInv
      <3>3. CASE \E i \in DOMAIN wire : Lose(i)
        BY <1>1, <2>2, <3>1, <3>3, SoundLose DEF SlipInv
      <3>4. CASE \E i \in DOMAIN wire : \E x \in Bytes : Change(i, x)
        BY <1>1, <2>2, <3>1, <3>4, SoundChange DEF SlipInv
      <3> QED
        BY <1>3, <3>2, <3>3, <3>4
    <2>4. CASE ~plugged
      BY <1>1, <2>1, <2>2, <2>4 DEF SlipInv, Sound
    <2> QED
      BY <2>3, <2>4
  <1>4. CASE ReadError \/ Unplug
    <2>1. Sending'
      BY <1>4 DEF ReadError, Unplug, Sending, txVars
    <2>2. ~plugged'
      BY <1>4 DEF ReadError, Unplug
    <2> QED
      BY <1>1, <2>1, <2>2 DEF SlipInv, Sound
  <1>5. CASE UNCHANGED vars
    <2>1. UNCHANGED <<tx, out, sent, wire, plugged, hit, escaped, buffer, delivered>>
      BY <1>5 DEF vars, txVars, rxVars
    <2>2. Sending'
      BY <2>1 DEF Sending
    <2>3. CASE plugged
      <3>1. PICK pk, at, dam : Marked(pk, at, dam) /\ Heard(dam, pk[1], at[1])
        BY <2>3 DEF Sound
      <3>2. Marked(pk, at, dam)'
        <4>1. Len(sent) \in Nat
          BY SentTypes
        <4>2. ASSUME NEW i \in 1..Len(wire), NEW v, v = wire[i]
              PROVE  Link(dam, v, pk[i], at[i], pk[i + 1], at[i + 1])'
          <5>1. Link(dam, v, pk[i], at[i], pk[i + 1], at[i + 1])
            BY <3>1, <4>2 DEF Marked
          <5> QED
            BY <2>1, <4>1, <5>1, LinkKept
        <4>3. \A i \in 1..Len(wire) : Link(dam, wire[i], pk[i], at[i], pk[i + 1], at[i + 1])'
          BY <2>1, <4>2 DEF Link
        <4>4. Damage(dam)' /\ TxPacket' = TxPacket /\ TxAt' = TxAt
          BY <2>1, <3>1 DEF Marked, Damage, TxPacket, TxAt
        <4> QED
          BY <2>1, <3>1, <4>3, <4>4 DEF Marked
      <3>3. Heard(dam, pk[1], at[1])'
        BY <2>1, <3>1 DEF Heard, AtOpening, InPacket, BackInSync, InSync, FirstOut,
                          CountOut, LastOut, Part
      <3> QED
        BY <1>1, <2>2, <3>2, <3>3 DEF SlipInv, Sound
    <2>4. CASE ~plugged
      BY <1>1, <2>1, <2>2, <2>4 DEF SlipInv, Sound
    <2> QED
      BY <2>3, <2>4
  <1> QED
    BY <1>2, <1>3, <1>4, <1>5 DEF Next

LEMMA SoundAlways == Spec => []SlipInv
  <1>1. Init => SlipInv
    BY TypeInit, SoundInit DEF SlipInv
  <1> QED
    BY <1>1, SoundNext, PTL DEF Spec

(* slip_receive_packet returns the packets slip_transmit_packet was given, *)
(* in their order and with their bytes, whatever codes of SLIP they hold   *)
(* and wherever either end stands, as long as the line has damaged none.   *)
THEOREM InOrder == Spec => []InOrderUntilDamage
  <1>1. SlipInv => InOrderUntilDamage
    <2> SUFFICES ASSUME SlipInv, plugged, hit = {}
                 PROVE  /\ Len(delivered) <= Len(sent)
                        /\ \A i \in DOMAIN delivered : delivered[i] = Cut(sent[i])
      BY DEF InOrderUntilDamage
    <2>1. TypeOK /\ Underway /\ Sound
      BY DEF SlipInv
    <2>2. PICK pk, at, dam : Marked(pk, at, dam) /\ Heard(dam, pk[1], at[1])
      BY <2>1 DEF Sound
    <2>3. PICK j : j = pk[1]
      OBVIOUS
    <2>4. j \in Nat /\ j <= Len(sent) + 1 /\ Len(sent) \in Nat
      <3>1. Len(wire) \in Nat /\ 1 \in 1..(Len(wire) + 1)
        BY <2>1, <2>2, FrontPlace
      <3> QED
        BY <2>1, <2>2, <2>3, <3>1, FrontPlace
    <2>5. Len(delivered) = j - 1 /\ \A i \in 1..(j - 1) : delivered[i] = Cut(sent[i])
      BY <2>2, <2>3 DEF Heard, CountOut, FirstOut
    <2>6. DOMAIN delivered = 1..Len(delivered)
      BY <2>1, LenProperties DEF TypeOK
    <2> QED
      BY <2>4, <2>5, <2>6
  <1> QED
    BY <1>1, SoundAlways, PTL

(* Each packet is sent between an END of its own and another, so that the  *)
(* packets before and after the damaged ones come out whole and in place.  *)
THEOREM DamageStaysPut == Spec => []DamageConfined
  <1>1. SlipInv => DamageConfined
    <2> SUFFICES ASSUME SlipInv, Quiet, NEW i \in DOMAIN sent
                 PROVE  /\ (\A k \in hit : k > i) =>
                              i <= Len(delivered) /\ delivered[i] = Cut(sent[i])
                        /\ (\A k \in hit : k < i) =>
                              /\ Len(sent) - i < Len(delivered)
                              /\ delivered[Len(delivered) - (Len(sent) - i)] = Cut(sent[i])
      BY DEF DamageConfined
    <2>1. TypeOK /\ Underway /\ Sound /\ plugged /\ tx = "idle" /\ wire = <<>>
      BY DEF SlipInv, Quiet
    <2>2. PICK pk, at, dam : Marked(pk, at, dam) /\ Heard(dam, pk[1], at[1])
      BY <2>1 DEF Sound
    <2>3. Len(wire) = 0
      BY <2>1, EmptySeq
    <2>4. pk[1] = Len(sent) + 1
      BY <2>1, <2>2, <2>3 DEF Marked, TxPacket
    <2>5. Len(sent) \in Nat /\ i \in 1..Len(sent)
      BY <2>1, LenProperties DEF TypeOK
    <2>6. i \in 1..(pk[1] - 1) /\ (pk[1] - 1) - i = Len(sent) - i
      BY <2>4, <2>5
    <2>7. FirstOut(pk[1]) /\ LastOut(pk[1])
      BY <2>2 DEF Heard
    <2> QED
      BY <2>6, <2>7 DEF FirstOut, LastOut
  <1> QED
    BY <1>1, SoundAlways, PTL
=============================================================================
