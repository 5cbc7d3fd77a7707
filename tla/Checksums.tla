----------------------------- MODULE Checksums -----------------------------
(***************************************************************************)
(* Crc16 of Utils.cpp. It has a module of its own because it uses Bitwise, *)
(* which a module with proofs cannot.                                      *)
(***************************************************************************)
EXTENDS Integers, Sequences, Folds, SequencesExt, Bitwise

\* One byte into the checksum: eight shifts, polynomial 0x8005.
Crc16Byte(crc, byte) ==
  LET shift(c, i) == IF c >= 32768 THEN ((2 * c) % 65536) ^^ 32773 ELSE 2 * c
  IN  FoldLeft(shift, crc ^^ (256 * byte), [i \in 1 .. 8 |-> i])

\* Mutant of Crc16: a sum of the bytes.
SumOfBytes(bytes) == FoldLeft(LAMBDA a, b : (a + b) % 65536, 0, bytes)

Crc16(bytes) == FoldLeft(Crc16Byte, 0, bytes)
=============================================================================
