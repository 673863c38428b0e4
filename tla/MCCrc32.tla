------------------------------ MODULE MCCrc32 -------------------------------
(* Instances of Crc32 for TLC. *)
EXTENDS Crc32, CrcTable

(* Every first byte, so that every entry of the table is used; 0xA5, 0x81 *)
MCFirstBytes == Byte
MCOtherBytes == {{0, 2, 5, 7}}
MCDamage == {{0, 7}}
=============================================================================
