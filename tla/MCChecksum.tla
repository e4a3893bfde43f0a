------------------------------ MODULE MCChecksum ------------------------------
(* Checksum for TLC. *)
EXTENDS Checksum, SequencesExt

CONSTANTS MaxLength, Bytes

\* Type and code, the place of the checksum, and what follows: identifier,
\* sequence number and data.
MCPackets == {<<8, 0, 0, 0>> \o rest : rest \in BoundedSeq(Bytes, MaxLength)}
=============================================================================
