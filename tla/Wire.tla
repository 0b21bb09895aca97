-------------------------------- MODULE Wire --------------------------------
(***************************************************************************)
(* The wire format (gravital-talk-core: header, packet, checksum, message, *)
(* the payloads of floor.rs): a message is encoded into its payload and    *)
(* the payload into a datagram, the datagram may be damaged or cut short   *)
(* on its way, and the receiver decodes it.  Where each encoder writes a   *)
(* field and where its decoder reads it are two tables, each taken from    *)
(* its own function.  A field of 4 or 8 bytes holds less than 2^31 here.   *)
(***************************************************************************)
EXTENDS Integers, Sequences, Bitwise

CONSTANTS
  Samples,     \* the messages sent, by kind
  Flips        \* what a damaged byte is XORed with

VARIABLE wire

HEADER_SIZE == 24
DEFAULT_MTU == 1200
MAX_PAYLOAD_SIZE == DEFAULT_MTU - HEADER_SIZE
MAX_FRAGMENTS == 16
PROTOCOL_VERSION == 1

Ok(v) == [ok |-> TRUE, value |-> v]
Err(e) == [ok |-> FALSE, value |-> e]

\* u16/u32/u64::to_be_bytes and from_be_bytes.
ToBytes(v, n) == [i \in 1..n |-> IF n - i > 3 THEN 0 ELSE (v \div 256 ^ (n - i)) % 256]
FromBytes(b) ==
  LET upto[i \in 0..Len(b)] == IF i = 0 THEN 0 ELSE 256 * upto[i - 1] + b[i]
  IN upto[Len(b)]

\* Rust's buf[range]: bytes from r[1] up to but not including r[2], counted from 0.
Slice(buf, r) == SubSeq(buf, r[1] + 1, r[2])

-----------------------------------------------------------------------------
(* MessageType *)

code == [
  HandshakeClientHello |-> 1, HandshakeServerHello |-> 2,
  HandshakeSessionConfirm |-> 3, HandshakeKeyExchange |-> 4,
  AudioFrame |-> 16, AudioFragment |-> 17, AudioFec |-> 18,
  Heartbeat |-> 32, HeartbeatAck |-> 33,
  ControlPause |-> 48, ControlResume |-> 49, ControlMetrics |-> 50, ControlBitrate |-> 51,
  FloorRequest |-> 64, FloorGrant |-> 65, FloorDeny |-> 66, FloorRelease |-> 67,
  FloorTaken |-> 68,
  AuthChallenge |-> 80, AuthResponse |-> 81, AuthAccepted |-> 82, AuthRejected |-> 83,
  Error |-> 254, Close |-> 255]

Codes(first, names) == [c \in first..(first + Len(names) - 1) |-> names[c - first + 1]]

from_code(c) ==
  CASE c \in 1..4 -> Ok(Codes(1, <<"HandshakeClientHello", "HandshakeServerHello",
                                   "HandshakeSessionConfirm", "HandshakeKeyExchange">>)[c])
    [] c \in 16..18 -> Ok(Codes(16, <<"AudioFrame", "AudioFragment", "AudioFec">>)[c])
    [] c \in 32..33 -> Ok(Codes(32, <<"Heartbeat", "HeartbeatAck">>)[c])
    [] c \in 48..51 -> Ok(Codes(48, <<"ControlPause", "ControlResume",
                                      "ControlMetrics", "ControlBitrate">>)[c])
    [] c \in 64..68 -> Ok(Codes(64, <<"FloorRequest", "FloorGrant", "FloorDeny",
                                      "FloorRelease", "FloorTaken">>)[c])
    [] c \in 80..83 -> Ok(Codes(80, <<"AuthChallenge", "AuthResponse",
                                      "AuthAccepted", "AuthRejected">>)[c])
    [] c \in 69..79 \cup 84..127 -> Ok("Extension")
    [] c = 254 -> Ok("Error")
    [] c = 255 -> Ok("Close")
    [] OTHER -> Err("UnknownMessageType")

-----------------------------------------------------------------------------
(* The payloads of the messages: where encode writes, where decode reads. *)

ClientHello_encode == [
  size |-> 80, ephemeral_public_key |-> <<0, 32>>, client_nonce |-> <<32, 64>>,
  protocol_version |-> <<64, 65>>, codec_preferred |-> <<65, 66>>,
  sample_rate |-> <<66, 70>>, channels |-> <<70, 71>>, frame_duration_ms |-> <<71, 72>>,
  max_bitrate |-> <<72, 76>>, capability_flags |-> <<76, 80>>]
ClientHello_decode == [
  size |-> 80, ephemeral_public_key |-> <<0, 32>>, client_nonce |-> <<32, 64>>,
  protocol_version |-> <<64, 65>>, codec_preferred |-> <<65, 66>>,
  sample_rate |-> <<66, 70>>, channels |-> <<70, 71>>, frame_duration_ms |-> <<71, 72>>,
  max_bitrate |-> <<72, 76>>, capability_flags |-> <<76, 80>>]

ServerHello_encode == [
  size |-> 84, ephemeral_public_key |-> <<0, 32>>, server_nonce |-> <<32, 64>>,
  session_id |-> <<64, 68>>, protocol_version |-> <<68, 69>>, codec_accepted |-> <<69, 70>>,
  sample_rate |-> <<70, 74>>, channels |-> <<74, 75>>, frame_duration_ms |-> <<75, 76>>,
  max_bitrate |-> <<76, 80>>, capability_flags |-> <<80, 84>>]
\* Mutant: the server's reply is read with the client's layout.
ServerHelloAsClients == [
  size |-> 84, ephemeral_public_key |-> <<0, 32>>, server_nonce |-> <<32, 64>>,
  session_id |-> <<64, 68>>, protocol_version |-> <<68, 69>>, codec_accepted |-> <<69, 70>>,
  sample_rate |-> <<66, 70>>, channels |-> <<74, 75>>, frame_duration_ms |-> <<75, 76>>,
  max_bitrate |-> <<76, 80>>, capability_flags |-> <<80, 84>>]
ServerHello_decode == [
  size |-> 84, ephemeral_public_key |-> <<0, 32>>, server_nonce |-> <<32, 64>>,
  session_id |-> <<64, 68>>, protocol_version |-> <<68, 69>>, codec_accepted |-> <<69, 70>>,
  sample_rate |-> <<70, 74>>, channels |-> <<74, 75>>, frame_duration_ms |-> <<75, 76>>,
  max_bitrate |-> <<76, 80>>, capability_flags |-> <<80, 84>>]

KeyExchangeMsg == [size |-> 20, session_id |-> <<0, 4>>, auth_tag |-> <<4, 20>>]
SessionConfirm == [size |-> 20, session_id |-> <<0, 4>>, server_auth_tag |-> <<4, 20>>]
FecHeader == [size |-> 9, seq_base |-> <<0, 4>>, window |-> <<4, 5>>, data_len |-> <<5, 9>>]
ControlBitrateMsg == [size |-> 4, requested_bitrate |-> <<0, 4>>]
AuthChallengeMsg == [size |-> 32, nonce |-> <<0, 32>>]
AuthResponseMsg == [size |-> 96, public_key |-> <<0, 32>>, signature |-> <<32, 96>>]
FragmentHeader == [size |-> 4, index |-> <<0, 2>>, total |-> <<2, 4>>]
FloorPayload == [size |-> 4, ssrc |-> <<0, 4>>]
NoPayload == [size |-> 0]

Arrays == {"ephemeral_public_key", "client_nonce", "server_nonce", "auth_tag",
           "server_auth_tag", "nonce", "public_key", "signature"}

Payload(t, hello, reply) ==
  CASE t = "HandshakeClientHello" -> hello
    [] t = "HandshakeServerHello" -> reply
    [] t = "HandshakeKeyExchange" -> KeyExchangeMsg
    [] t = "HandshakeSessionConfirm" -> SessionConfirm
    [] t = "AudioFec" -> FecHeader
    [] t = "AudioFragment" -> FragmentHeader
    [] t = "ControlBitrate" -> ControlBitrateMsg
    [] t = "AuthChallenge" -> AuthChallengeMsg
    [] t = "AuthResponse" -> AuthResponseMsg
    [] t \in {"FloorRequest", "FloorGrant", "FloorDeny", "FloorRelease", "FloorTaken"} ->
         FloorPayload
    [] OTHER -> NoPayload

Written(t) == Payload(t, ClientHello_encode, ServerHello_encode)
ReadBack(t) == Payload(t, ClientHello_decode, ServerHello_decode)
Fields(layout) == DOMAIN layout \ {"size"}

\* <Msg>::encode, into a buffer of the message's own size.
PayloadEncode(t, m) ==
  LET at == Written(t)
      Byte(i) == LET f == CHOOSE f \in Fields(at) : at[f][1] < i /\ i <= at[f][2]
                     n == at[f][2] - at[f][1]
                 IN (IF f \in Arrays THEN m[f] ELSE ToBytes(m[f], n))[i - at[f][1]]
  IN [i \in 1..at.size |-> Byte(i)]

\* <Msg>::decode.  A longer buffer is read up to the message's size.
PayloadDecode(t, buf) ==
  LET at == ReadBack(t)
      m == [f \in Fields(at) |-> IF f \in Arrays THEN Slice(buf, at[f])
                                                 ELSE FromBytes(Slice(buf, at[f]))]
  IN IF Len(buf) < at.size THEN Err("MalformedPayload")
     ELSE IF t = "AudioFec" /\ m.window = 0 THEN Err("MalformedPayload")
     ELSE IF t = "AudioFragment" /\ m.total \notin 1..MAX_FRAGMENTS
          THEN Err("TooManyFragments")
     ELSE IF t = "AudioFragment" /\ m.index >= m.total THEN Err("FragmentOutOfRange")
     ELSE Ok(m)

-----------------------------------------------------------------------------
(* CRC-16/CCITT-FALSE *)

POLY == 4129    \* 0x1021

TABLE == [i \in 0..255 |->
  LET shifted[bit \in 0..8] ==
        IF bit = 0 THEN i * 256
        ELSE LET crc == shifted[bit - 1]
                 left == (crc * 2) % 65536
             IN IF crc >= 32768 THEN left ^^ POLY ELSE left
  IN shifted[8]]

\* Mutant: the loop stops one byte short.
CrcStopsShort(crc, data) ==
  LET after[i \in 0..Len(data)] ==
        IF i = 0 THEN crc
        ELSE LET c == after[i - 1]
             IN ((c * 256) % 65536) ^^ TABLE[(c \div 256) ^^ data[i]]
  IN IF data = <<>> THEN crc ELSE after[Len(data) - 1]

CrcOfPiece(crc, data) ==
  LET after[i \in 0..Len(data)] ==
        IF i = 0 THEN crc
        ELSE LET c == after[i - 1]
             IN ((c * 256) % 65536) ^^ TABLE[(c \div 256) ^^ data[i]]
  IN after[Len(data)]

\* The loop over the bytes, 16 at a time: TLC's recursion is not deep enough for all.
crc_step(crc, data) ==
  LET pieces == (Len(data) + 15) \div 16
      Piece(k) == SubSeq(data, 16 * k - 15, IF k = pieces THEN Len(data) ELSE 16 * k)
      after[k \in 0..pieces] ==
        IF k = 0 THEN crc
        ELSE CHOOSE c \in {CrcOfPiece(before, Piece(k)) : before \in {after[k - 1]}} : TRUE
  IN after[pieces]

\* crc16_two_segments.
crc16_two_segments(a, b) == crc_step(crc_step(65535, a), b)

\* The checksum the receiver computes: header, payload, payload_len.
compute_checksum(header, payload, payload_len) ==
  crc_step(crc_step(crc_step(65535, header), payload), ToBytes(payload_len, 2))

-----------------------------------------------------------------------------
(* The header and the packet *)

HeaderEncode(h) ==
  <<71, 83, PROTOCOL_VERSION, h.flags, h.msg_type, 0, 0, 0>>
    \o ToBytes(h.session_id, 4) \o ToBytes(h.sequence, 4) \o ToBytes(h.timestamp, 8)

\* PacketHeader::decode, its checks and then its fields.
HeaderCheck(buf) ==
  IF Len(buf) < HEADER_SIZE THEN Err("TooShort")
  ELSE IF buf[1] # 71 \/ buf[2] # 83 THEN Err("BadMagic")
  ELSE IF buf[3] # PROTOCOL_VERSION THEN Err("ProtocolMismatch")
  ELSE IF Slice(buf, <<5, 8>>) # <<0, 0, 0>> THEN Err("ReservedFieldNonZero")
  ELSE Ok(buf)
HeaderFields(buf) ==
  [flags |-> buf[4], msg_type |-> buf[5],
   session_id |-> FromBytes(Slice(buf, <<8, 12>>)),
   sequence |-> FromBytes(Slice(buf, <<12, 16>>)),
   timestamp |-> FromBytes(Slice(buf, <<16, 24>>))]

PacketEncode(h, payload, room) ==
  LET header == HeaderEncode(h)
      len == ToBytes(Len(payload), 2)
      crc == crc_step(crc16_two_segments(header, payload), len)
  IN IF Len(payload) > MAX_PAYLOAD_SIZE THEN Err("PayloadTooLarge")
     ELSE IF room < HEADER_SIZE + Len(payload) + 4 THEN Err("BufferTooSmall")
     ELSE Ok(header \o payload \o len \o ToBytes(crc, 2))

PacketDecode(buf) ==
  LET total == Len(buf)
      payload_len == FromBytes(Slice(buf, <<total - 4, total - 2>>))
      payload == Slice(buf, <<HEADER_SIZE, HEADER_SIZE + payload_len>>)
  IN IF total < HEADER_SIZE + 4 THEN Err("TooShort")
     ELSE IF ~HeaderCheck(buf).ok THEN HeaderCheck(buf)
     ELSE IF HEADER_SIZE + payload_len + 4 # total THEN Err("LengthMismatch")
     ELSE IF payload_len > MAX_PAYLOAD_SIZE THEN Err("PayloadTooLarge")
     ELSE IF FromBytes(Slice(buf, <<total - 2, total>>)) #
             compute_checksum(SubSeq(buf, 1, HEADER_SIZE), payload, payload_len)
          THEN Err("BadChecksum")
     ELSE Ok([header |-> HeaderFields(buf), payload |-> payload])

\* What the receiver makes of a datagram: the packet, its type, then its message.
Received(buf) ==
  LET packet == PacketDecode(buf)
      type == from_code(packet.value.header.msg_type)
  IN IF ~packet.ok THEN packet
     ELSE IF ~type.ok THEN type
     ELSE LET m == PayloadDecode(type.value, packet.value.payload)
          IN IF m.ok THEN Ok([header |-> packet.value.header, type |-> type.value, m |-> m.value])
             ELSE m

-----------------------------------------------------------------------------
(* A datagram's trip *)

WireInit == wire = [at |-> "sender"]

WireSend ==
  /\ wire.at = "sender"
  /\ \E s \in Samples :
       LET h == [s.header EXCEPT !.msg_type = code[s.type]]
           out == PacketEncode(h, PayloadEncode(s.type, s.m), DEFAULT_MTU)
       IN /\ out.ok
          /\ wire' = [at |-> "net", sent |-> [header |-> h, type |-> s.type, m |-> s.m],
                      buf |-> out.value, intact |-> TRUE]

\* External: the network damages up to two neighbouring bytes, or cuts the datagram.
WireDamage ==
  /\ wire.at = "net" /\ wire.intact
  /\ \E i \in 1..(Len(wire.buf) - 1), x, y \in Flips \cup {0} :
       /\ x # 0 \/ y # 0
       /\ wire' = [wire EXCEPT !.intact = FALSE,
                               !.buf = [@ EXCEPT ![i] = @ ^^ x, ![i + 1] = @ ^^ y]]

WireTruncate ==
  /\ wire.at = "net" /\ wire.intact
  /\ \E n \in 0..(Len(wire.buf) - 1) :
       wire' = [wire EXCEPT !.intact = FALSE, !.buf = SubSeq(@, 1, n)]

WireReceive ==
  /\ wire.at = "net"
  /\ wire' = [at |-> "receiver", sent |-> wire.sent, intact |-> wire.intact,
              got |-> Received(wire.buf)]

WireNext == WireSend \/ WireDamage \/ WireTruncate \/ WireReceive

-----------------------------------------------------------------------------
\* What PacketBuilder::encode wrote around a message's encode is what the receiver
\* reads: every field of header and message, the type through code and from_code.
RoundTrip ==
  wire.at = "receiver" /\ wire.intact => wire.got = Ok(wire.sent)

\* PacketView::decode refuses a datagram cut short or damaged within two neighbouring
\* bytes, wherever they are: header, payload, payload_len or the checksum itself.
DamageDetected ==
  wire.at = "receiver" /\ ~wire.intact => ~wire.got.ok
=============================================================================
