------------------------------ MODULE TsPacket ------------------------------
(***************************************************************************)
(* The layout arithmetic of the transport-stream packets that              *)
(* src/bin/ts_write.hh produces: how many of the 188 bytes of a packet the *)
(* headers take, how much room is left for payload, and how many packets   *)
(* one call of write_video or write_audio writes.  No state.               *)
(***************************************************************************)
EXTENDS Integers

\* ts::Packet::SIZE.
SIZE == 188

PAT_PID      == 0
PMT_PID      == 4096
ES_VIDEO_PID == 256
ES_AUDIO_PID == 257

Streams == {"video", "audio"}
EsPids  == {ES_VIDEO_PID, ES_AUDIO_PID}
Pid(s)  == IF s = "video" THEN ES_VIDEO_PID ELSE ES_AUDIO_PID

\* The values of an unsigned integer with m of them.
UInt(m) == 0..m-1

\* The sync byte, and the three bytes ts::Header::dump writes.
HEADER_SIZE == 1 + 3

(***************************************************************************)
(* AdaptationField::dump: the number of bytes written.  The length byte    *)
(* and the flag byte are always there, six more with a PCR, and stuffing   *)
(* fills the field up to adaptation_field_length + 1 bytes.                *)
(***************************************************************************)
AfDump(adaptation_field_length, pcr_flag) ==
  LET fixed == IF pcr_flag THEN 8 ELSE 2 IN
  IF fixed < adaptation_field_length + 1 THEN adaptation_field_length + 1 ELSE fixed

\* PES::dump with both PTS and DTS: nine fixed bytes and two five-byte stamps.
PES_HEADER_SIZE == 9 + 5 + 5

\* PES_packet_length, a uint16_t: what follows the field, the rest of the
\* header and the n bytes of payload.
PesPacketLength(n) == (13 + n) % 65536

\* The adaptation field of a first packet: adaptation_field_length is a uint8_t.
FirstAfLength(stuffing_byte_size) == (7 + stuffing_byte_size) % 256

\* SIZE - wrote_size of a first packet, once its three headers are dumped.
FirstRoom(stuffing_byte_size, pcr_flag) ==
  SIZE - (HEADER_SIZE + AfDump(FirstAfLength(stuffing_byte_size), pcr_flag)
                      + PES_HEADER_SIZE)

\* SIZE - wrote_size of a further packet without an adaptation field.
RestRoom == SIZE - HEADER_SIZE

(***************************************************************************)
(* The adaptation field of a further packet that the `left` bytes of       *)
(* payload do not fill: one flag byte, and delta bytes of stuffing.  A     *)
(* field is at least two bytes, so 183 bytes left do not fit in one packet.*)
(***************************************************************************)
RestAfLength(left) ==
  1 + (IF left < RestRoom - 2 THEN RestRoom - left - 2 ELSE 0)

\* Bytes the adaptation field of a further packet takes, 0 without one.
RestAf(left) == IF left < RestRoom THEN AfDump(RestAfLength(left), FALSE) ELSE 0

(***************************************************************************)
(* Packets that the loop of write_video or write_audio still writes for    *)
(* `left` bytes, and that a whole call writes for `size` bytes: the amount *)
(* by which a call moves its continuity counter and g_output_ts_count.     *)
(***************************************************************************)
RestPackets(left) ==
  (left \div RestRoom) + (CASE left % RestRoom = 0            -> 0
                            [] left % RestRoom = RestRoom - 1 -> 2
                            [] OTHER                          -> 1)

NumPackets(size) ==
  IF size < FirstRoom(0, TRUE) THEN 1 ELSE 1 + RestPackets(size - FirstRoom(0, TRUE))
=============================================================================
