---------------------------- MODULE ChannelData -----------------------------
(***************************************************************************)
(* stunxx::ChannelData (include/stunxx/ChannelData.hpp): a 4-byte header      *)
(* (channel number, length), a payload, and padding to a whole word.  An      *)
(* object made by decode() is a view of the bytes it was decoded from.        *)
(*                                                                         *)
(* A definition named X_bug is X with a plausible slip; nothing uses it but *)
(* the mutation runs, which put it in place of X.                           *)
(***************************************************************************)
EXTENDS StunWire

CHAN_HEADER_SIZE == 4

isValidChannel(ch) == 16384 <= ch /\ ch <= 32767

(* totalSize(), of a payload of n bytes *)
totalSize(n) == CHAN_HEADER_SIZE + Padded(n)

(* encode() into a buffer of room bytes: whether it succeeds, and the length  *)
(* field it then writes.                                                     *)
CanEncode_bug(channel, n, room) == room >= totalSize(n)
CanEncode(channel, n, room) == isValidChannel(channel) /\ room >= totalSize(n)

LengthWritten(n) == ToUInt16(n)

(* decode() of size bytes that begin with the words channel and length: it     *)
(* asks for the payload, not for its padding.                                *)
CanDecode_bug(channel, length, size) ==
    size >= CHAN_HEADER_SIZE /\ isValidChannel(channel)
CanDecode_late_bug(channel, length, size) ==
    isValidChannel(channel) /\ size >= CHAN_HEADER_SIZE + totalSize(length)
CanDecode(channel, length, size) ==
    /\ size >= CHAN_HEADER_SIZE
    /\ isValidChannel(channel)
    /\ size >= CHAN_HEADER_SIZE + length

isChannelData_bug(channel, size) == FALSE
isChannelData(channel, size) == size >= 2 /\ isValidChannel(channel)
=============================================================================
