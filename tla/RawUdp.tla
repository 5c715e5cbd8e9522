-------------------------------- MODULE RawUdp --------------------------------
(***************************************************************************)
(* The raw socket (common/socket.cpp): the IP and UDP headers sendRawUdp   *)
(* puts before a message, with their checksums, and what receiveRawUdp     *)
(* takes.  All are bytes; the machine reads words in little-endian order.  *)
(***************************************************************************)
EXTENDS Naturals, Sequences

IPPROTO_UDP == 17
IPDEFTTL == 64

\* A number of 16 bits in network order (htons), and one as the machine
\* stores it.
Word(n) == <<n \div 256, n % 256>>
Stored(n) == <<n % 256, n \div 256>>

\* The loop that adds the carries back until there are none.
FoldCarries[c \in Nat] ==
  IF c < 65536 THEN c ELSE FoldCarries[(c % 65536) + (c \div 65536)]

\* The loop over the words: the checksum after each number of them.
AddWords(bytes, checksum) ==
  LET upto[n \in 0 .. Len(bytes) \div 2] ==
        IF n = 0 THEN checksum ELSE upto[n - 1] + (bytes[2 * n - 1] + 256 * bytes[2 * n])
  IN upto

\* Mutant: the last byte of an odd number of bytes is left out.
AddChecksumEven(bytes, checksum) == FoldCarries[AddWords(bytes, checksum)[Len(bytes) \div 2]]

\* addChecksum: the words of the bytes, an odd last byte alone, the carries.
AddChecksum(bytes, checksum) ==
  LET last == IF Len(bytes) % 2 = 1 THEN bytes[Len(bytes)] ELSE 0
  IN FoldCarries[AddWords(bytes, checksum)[Len(bytes) \div 2] + last]

FinishChecksum(checksum) == 65535 - checksum

IpHeader(source, destination, size, check) ==
  <<69, 0>> \o Word(size) \o <<0, 0, 0, 0, IPDEFTTL, IPPROTO_UDP>> \o Stored(check)
    \o source \o destination

UdpHeader(sourcePort, destinationPort, size, check) ==
  Word(sourcePort) \o Word(destinationPort) \o Word(size) \o Stored(check)

\* sendRawUdp.
RawFrame(source, sourcePort, destination, destinationPort, message) ==
  LET ip(check) == IpHeader(source, destination, 28 + Len(message), check)
      udp(check) == UdpHeader(sourcePort, destinationPort, 8 + Len(message), check)
      pseudo == AddChecksum(Word(8 + Len(message)),
                  AddChecksum(Word(IPPROTO_UDP),
                    AddChecksum(destination, AddChecksum(source, 0))))
      sum == AddChecksum(message, AddChecksum(udp(0), pseudo))
  IN [ip |-> ip(FinishChecksum(AddChecksum(ip(0), 0))),
      udp |-> udp(FinishChecksum(sum)), data |-> message]

\* receiveRawUdp: is a frame for the port?
IsValidFrame(frame, expectedPort) ==
  /\ Len(frame.ip) = 20 /\ Len(frame.udp) = 8
  /\ frame.ip[1] = 69
  /\ frame.ip[10] = IPPROTO_UDP
  /\ SubSeq(frame.udp, 3, 4) = Word(expectedPort)
=============================================================================
