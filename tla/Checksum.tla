------------------------------- MODULE Checksum -------------------------------
(***************************************************************************)
(* calculate_checksum of the Pinger (pinger.py:42) for the packet of an    *)
(* echo request, and what a host that receives it adds up.                 *)
(*                                                                         *)
(* The code adds words in the byte order of its own host; the receiver, by *)
(* the protocol, in network order.  A packet is shorter than 64 KB: the    *)
(* sum has less than 32 bits, and to cut it to 32 changes nothing.         *)
(***************************************************************************)
EXTENDS Integers, Sequences

CONSTANTS
  Packets,  \* packets that may be sent, with no checksum in them yet
  Unknown   \* no answer yet

Byte == 0 .. 255

ASSUME PacketsAssumption ==
  \A p \in Packets : p \in Seq(Byte) /\ Len(p) <= 65535

ASSUME UnknownAssumption == Unknown \notin Int

VARIABLES
  data,       \* source_string
  byteorder,  \* of the host
  count,      \* bytes that have been added
  sum,
  answer,     \* the two bytes that are put in the packet, read in network order
  net         \* history: what a receiver has added up of these bytes

checksumVars == <<data, byteorder, count, sum, answer, net>>

\* hi * 256 + lo
Word(hi, lo) == 256 * hi + lo

ChecksumInit ==
  /\ data \in Packets /\ byteorder \in {"little", "big"}
  /\ count = 0 /\ sum = 0 /\ net = 0 /\ answer = Unknown

\* A pair of bytes is a word of the host.
HostWord(first, second) ==
  IF byteorder = "little" THEN Word(second, first) ELSE Word(first, second)

AddPair ==
  /\ answer = Unknown /\ count + 2 <= Len(data)
  /\ LET first == data[count + 1]
         second == data[count + 2]
     IN  /\ sum' = sum + HostWord(first, second)
         /\ net' = net + Word(first, second)
  /\ count' = count + 2
  /\ UNCHANGED <<data, byteorder, answer>>

\* An odd byte at the end is a low byte, on any host; for the receiver it is
\* followed by a zero.
AddLast ==
  /\ answer = Unknown /\ count + 1 = Len(data)
  /\ sum' = sum + data[count + 1]
  /\ net' = net + Word(data[count + 1], 0)
  /\ count' = count + 1
  /\ UNCHANGED <<data, byteorder, answer>>

\* (mutant: the carry of that addition is dropped)
FoldedOnce(s) == ((s \div 65536) + (s % 65536)) % 65536

\* The high 16 bits are added to the low ones, and then the carry.
Folded(s) ==
  LET once == (s \div 65536) + (s % 65536)
  IN  (once + (once \div 65536)) % 65536

\* Word w of the host, as its two bytes in memory are read in network order.
InNetworkOrder(w) == IF byteorder = "little" THEN Word(w % 256, w \div 256) ELSE w

\* The complement.  htons and the packing in network order leave the bytes in
\* memory in the order of the host.
Finish ==
  /\ answer = Unknown /\ count = Len(data)
  /\ answer' = InNetworkOrder(65535 - Folded(sum))
  /\ UNCHANGED <<data, byteorder, count, sum, net>>

ChecksumNext == AddPair \/ AddLast \/ Finish

ChecksumSpec == ChecksumInit /\ [][ChecksumNext]_checksumVars

-----------------------------------------------------------------------------
(* Properties *)

ChecksumTypeOK ==
  /\ data \in Seq(Byte) /\ Len(data) <= 65535
  /\ byteorder \in {"little", "big"}
  /\ count \in 0 .. Len(data) /\ sum \in Nat /\ net \in Nat
  /\ answer # Unknown => answer \in Nat /\ answer <= 65535

\* A target that adds up the packet finds no error, that is a multiple of 65535
\* (RFC 1071), and so answers the request: whatever the bytes and their number on a
\* little-endian host, for an even number on a big-endian one (pinger.py:68).
Verifies ==
  answer # Unknown /\ (byteorder = "little" \/ Len(data) % 2 = 0)
    => (net + answer) % 65535 = 0
=============================================================================
