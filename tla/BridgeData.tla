------------------------------- MODULE BridgeData -------------------------------
(***************************************************************************)
(* The byte stream from the phone: PhoneBridgeReader cuts it into frames,  *)
(* whatever pieces the USB transfers bring, and ToggleBuffer keeps the     *)
(* newest sample of the phone and of the software model.                   *)
(*                                                                         *)
(* Bytes are small numbers and the sizes are scaled down, in proportion: a *)
(* frame is the magic, a type, a length and that many bytes of payload,    *)
(* and the receive buffer holds exactly an identity frame.                 *)
(***************************************************************************)
EXTENDS Naturals, Sequences

CONSTANTS
  BridgeChunks,   \* what one transfer may bring
  MaxStream,      \* bound on the bytes received
  BRIDGE_MAGIC,   \* the magic, two bytes
  SENSOR_LEN,     \* payload of a sensor frame
  IDENTITY_LEN,   \* payload of an identity frame
  HANDSHAKE_MIN   \* least payload of a handshake

HEADER_SIZE == Len(BRIDGE_MAGIC) + 2
RX_BUF_MAX == HEADER_SIZE + IDENTITY_LEN

ASSUME BridgeAssumption ==
  /\ MaxStream \in Nat /\ SENSOR_LEN \in 1 .. IDENTITY_LEN /\ HANDSHAKE_MIN \in 1 .. IDENTITY_LEN
  /\ IDENTITY_LEN \in Nat /\ BRIDGE_MAGIC \in Seq(Nat) /\ BridgeChunks \subseteq Seq(Nat)

VARIABLES
  reader,  \* rx_buf[..rx_len] and handshake_complete
  toggle,  \* the newest samples and the counters; None is the empty payload
  stream,  \* history: the bytes received since the buffer was last emptied unread
  before,  \* history: what had been decoded by then
  received \* history: the number of bytes in all

bridgeVars == <<reader, toggle, stream, before, received>>

Nothing == [bridge |-> << >>, frames |-> 0, discards |-> 0, identity |-> << >>, handshake |-> FALSE]

(* ---------------------------- one frame: the parser ---------------------------- *)

FrameSensor == 1
FrameIdentity == 2
FrameHandshake == 3

(* PhoneSensorFrame::is_valid: all components are finite; 9 is a NaN.      *)
is_valid(payload) == \A i \in DOMAIN payload : payload[i] # 9
REQUIRED_PROTO_VERSION == 1

(* Of a complete frame: what it is.                                        *)
parse_bridge_frame(frame) ==
  LET type == frame[Len(BRIDGE_MAGIC) + 1]
      payload == SubSeq(frame, HEADER_SIZE + 1, Len(frame))
  IN CASE type = FrameSensor /\ Len(payload) = SENSOR_LEN /\ is_valid(payload) -> "Sensor"
       [] type = FrameIdentity /\ Len(payload) = IDENTITY_LEN -> "Identity"
       [] type = FrameHandshake /\ Len(payload) >= HANDSHAKE_MIN ->
            IF payload[1] = REQUIRED_PROTO_VERSION THEN "Handshake" ELSE "VersionMismatch"
       [] OTHER -> "Discard"

(* What the reader does with it.                                           *)
Delivered(d, frame) ==
  LET payload == SubSeq(frame, HEADER_SIZE + 1, Len(frame))
      result == parse_bridge_frame(frame)
  IN CASE result = "Sensor" -> [d EXCEPT !.bridge = payload, !.frames = @ + 1]
       [] result = "Identity" -> [d EXCEPT !.identity = payload]
       [] result = "Handshake" -> [d EXCEPT !.handshake = TRUE]
       [] result = "VersionMismatch" -> [d EXCEPT !.handshake = FALSE, !.discards = @ + 1]
       [] OTHER -> [d EXCEPT !.discards = @ + 1]

(* ------------------------------ the scanning loop ------------------------------ *)

MagicAt(s, i) == SubSeq(s, i, i + Len(BRIDGE_MAGIC) - 1) = BRIDGE_MAGIC
FrameTotal(s, i) == HEADER_SIZE + s[i + Len(BRIDGE_MAGIC) + 1]

(* From position i: the frames of s up to the first that is incomplete,    *)
(* skipping one byte wherever there is no magic.                           *)
Scanned(s, decoded) ==
  LET scan[i \in 1 .. Len(s) + 1] ==
        LET left == Len(s) - i + 1 IN
        IF left < HEADER_SIZE THEN [at |-> i, frames |-> << >>]
        ELSE IF ~ MagicAt(s, i) THEN scan[i + 1]
        ELSE IF left < FrameTotal(s, i) THEN [at |-> i, frames |-> << >>]
        ELSE LET rest == scan[i + FrameTotal(s, i)] IN
             [rest EXCEPT !.frames = <<SubSeq(s, i, i + FrameTotal(s, i) - 1)>> \o @]
      done[n \in 0 .. Len(scan[1].frames)] ==
        IF n = 0 THEN decoded ELSE Delivered(done[n - 1], scan[1].frames[n])
  IN [decoded |-> done[Len(scan[1].frames)], left |-> SubSeq(s, scan[1].at, Len(s))]

(* ---------------------------------- steps ---------------------------------- *)

BridgeInit ==
  /\ reader = [rx |-> << >>]
  /\ toggle = [decoded |-> Nothing, model |-> << >>]
  /\ stream = << >>
  /\ before = Nothing
  /\ received = 0

(* A transfer that does not fit throws away what was waiting, and its own  *)
(* tail if it is longer than the buffer.                                   *)
Overflows(data) == Len(data) > RX_BUF_MAX - Len(reader.rx)
(* Mutant: a transfer is stored from the start of the buffer.              *)
FromStart(data) == IF Len(data) > RX_BUF_MAX THEN SubSeq(data, 1, RX_BUF_MAX) ELSE data

Kept(data) ==
  IF Overflows(data)
  THEN SubSeq(data, 1, IF Len(data) < RX_BUF_MAX THEN Len(data) ELSE RX_BUF_MAX)
  ELSE reader.rx \o data

process_rx_bytes(data) ==
  /\ received + Len(data) <= MaxStream
  /\ received' = received + Len(data)
  /\ LET result == Scanned(Kept(data), toggle.decoded) IN
       /\ reader' = [rx |-> result.left]
       /\ toggle' = [toggle EXCEPT !.decoded = result.decoded]
  /\ stream' = IF Overflows(data) THEN Kept(data) ELSE stream \o data
  /\ before' = IF Overflows(data) THEN toggle.decoded ELSE before

(* ToggleBuffer::update_virtual: a sample of the software model.           *)
update_virtual(sample) ==
  /\ toggle' = [toggle EXCEPT !.model = sample]
  /\ UNCHANGED <<reader, stream, before, received>>

(* PhoneBridgeReader::reset, for a reconnection.                           *)
reset ==
  /\ reader' = [rx |-> << >>]
  /\ toggle' = [toggle EXCEPT !.decoded.handshake = FALSE]
  /\ stream' = << >>
  /\ before' = toggle'.decoded
  /\ received' = received

(* ToggleBuffer::read_accel, read_gyro and read_mag.                       *)
Or(a, b) == IF a # << >> THEN a ELSE b
read_sample(mode) ==
  IF mode = "phone" THEN Or(toggle.decoded.bridge, toggle.model)
  ELSE Or(toggle.model, toggle.decoded.bridge)

BridgeNext ==
  \/ \E data \in BridgeChunks : process_rx_bytes(data)
  \/ \E sample \in [1 .. SENSOR_LEN -> {4}] : update_virtual(sample)
  \/ reset

BridgeSpec == BridgeInit /\ [][BridgeNext]_bridgeVars

-------------------------------------------------------------------------------

(* However the transfers cut the stream, the reader has decoded exactly    *)
(* the frames of the whole of it, in order, and keeps the rest: none is    *)
(* lost, doubled or torn at a transfer's end, and in phone mode a read     *)
(* gives the newest of them.  Only a frame longer than the buffer fills it.*)
(* Toggling the mode never opens a gap: if one mode has a sample, both do. *)
DecodedWhole ==
  LET whole == Scanned(stream, before) IN
  /\ toggle.decoded = whole.decoded
  /\ reader.rx = whole.left
  /\ Len(reader.rx) = RX_BUF_MAX => FrameTotal(reader.rx, 1) > RX_BUF_MAX
  /\ whole.decoded.bridge # << >> => read_sample("phone") = whole.decoded.bridge
  /\ read_sample("phone") = << >> <=> read_sample("model") = << >>
===============================================================================
