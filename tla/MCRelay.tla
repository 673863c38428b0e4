------------------------------ MODULE MCRelay -------------------------------
(* Instances of Relay for TLC. *)
EXTENDS Relay

Fill(n, b) == [i \in 1 .. n |-> b]

(* Sizes around every limit of the opaque classes. *)
OpaqueSizes == {0, 1, 4, 7, 8, 20, 32, MaxUsername, MaxUsername + 1,
                MaxString, MaxString + 1}

(* The bytes of every value of one word that some decode() tells apart: the    *)
(* families, the ends of the class and number ranges in both of their places,  *)
(* the first and last channel, reserved bytes that are not zero.               *)
MCWords ==
    [1 .. 4 -> {0, 1, 3, 40}] \cup
    { <<0, 0, 3, 0>>, <<9, 9, 6, 99>>, <<0, 0, 11, 5>>, <<0, 0, 7, 0>>, <<0, 0, 2, 99>>,
      <<0, 0, 4, 100>>, <<1, 0, 128, 40>>, <<2, 7, 160, 8>>, <<2, 0, 191, 8>>,
      <<3, 0, 128, 40>>, <<1, 0, 128, 41>>, <<1, 0, 224, 8>>,
      <<64, 0, 0, 0>>, <<127, 255, 0, 0>>, <<63, 255, 0, 0>>, <<128, 0, 0, 0>>,
      <<64, 0, 0, 1>>, <<255, 255, 255, 255>> }

(* Values with something behind the word, or less than one. *)
MCOther ==
    { <<>>, <<128>>, <<127, 1>>, <<0, 0, 5>>, <<0, 0, 5, 1, 79>>,
      <<1, 2, 3, 4, 5>>, <<2, 0, 160, 8, 7, 7>>,
      \* entries: two, one unpadded, one too long, one with a tail
      <<0, 1, 0, 0, 0, 2, 0, 3, 9, 8, 7, 6>>, <<0, 1, 0, 3, 9, 8, 7>>,
      <<0, 1, 0, 5, 9, 8, 7, 6>>, <<0, 2, 0, 1, 9, 0, 0, 0, 1, 1>>,
      <<0, 1, 0, 2, 9, 8, 1, 1, 0, 2, 0, 0>>,
      \* addresses: IPv4, IPv6, IPv6 cut short, no family at all
      <<0, 1, 33, 18, 1, 2, 3, 4>>, <<0, 2, 0, 0>> \o Fill(16, 170),
      <<5, 2, 0, 0>> \o Fill(15, 1), <<0, 9, 0, 80>> \o Fill(16, 170) }

MCInputs ==
    [kind : Kinds \ Opaque, bytes : MCWords \cup MCOther]
    \cup [kind : Opaque, bytes : {Fill(n, 7) : n \in OpaqueSizes}]

Entries ==
    { [algorithm |-> 1, parameters |-> <<>>],
      [algorithm |-> 2, parameters |-> <<9>>],
      [algorithm |-> 65535, parameters |-> <<0, 1, 0, 4>>] }

Addresses ==
    { [family |-> IPv4, port |-> 8466, bytes |-> <<33, 18, 164, 66>>],
      [family |-> IPv4, port |-> 65535, bytes |-> <<10, 0, 0, 1>>],
      [family |-> IPv6, port |-> 80, bytes |-> [i \in 1 .. 16 |-> 16 * i - 1]],
      \* a family that nobody set, and one that does not exist
      [family |-> 0, port |-> 0, bytes |-> Fill(16, 0)],
      [family |-> 3, port |-> 80, bytes |-> [i \in 1 .. 16 |-> 16 * i - 1]] }

MCValues ==
    [kind : ShortString \cup LongString \cup Unlimited,
     value : {Fill(n, 7) : n \in OpaqueSizes}]
    \cup [kind : Marker, value : {<<>>}]
    \cup UNION { [kind : {k}, value : {Fill(FixedSize[k], 7)}] : k \in DOMAIN FixedSize }
    \cup [kind : Numeric, value : {<<0, 0, 0, 0>>, <<1, 2, 3, 4>>}]
    \cup [kind : {"RequestedTransport"}, value : {0, 17, 255}]
    \cup [kind : {"EvenPort"}, value : BOOLEAN]
    \cup [kind : AddressFamily, value : {0, IPv4, IPv6}]
    \cup [kind : {"ChannelNumber"}, value : {0, 16383, 16384, 20000, 32767, 32768}]
    \cup [kind : {"ErrorCode"},
          value : [code : {0, 299, 300, 420, 699, 700, 1100, 65535},
                   reason : {<<>>, <<79, 75>>}]]
    \cup [kind : {"AddressErrorCode"},
          value : [family : {0, IPv4, IPv6}, code : {300, 440, 508, 1308},
                   reason : {<<>>, <<79, 75>>}]]
    \cup [kind : {"UnknownAttributes"}, value : {<<>>, <<127>>, <<1, 65535>>}]
    \cup [kind : {"PasswordAlgorithm"}, value : Entries]
    \cup [kind : {"PasswordAlgorithms"},
          value : UNION {[1 .. n -> Entries] : n \in 0 .. 2}]
    \cup [kind : XorKinds, value : Addresses]

(* Two messages. *)
MCTransactions == {Fill(12, 0), [i \in 1 .. 12 |-> 20 * i]}
=============================================================================
