----------------------------- MODULE DhcpMessage -----------------------------
(***************************************************************************)
(* DHCP messages (common/message.cpp) and what the client reads from their *)
(* options (configureDhcp).  The options are the bytes the code writes and *)
(* scans; of the fixed part only op, htype, hlen, xid and yiaddr are kept. *)
(* An address, or a number of 32 bits, is four bytes in network order.     *)
(***************************************************************************)
EXTENDS Naturals, Sequences, FiniteSetsExt

OP_BOOTREQUEST == 1
OP_BOOTREPLY == 2
HTYPE_ETHER == 1
ETH_ALEN == 6

OPT_SUBNET_MASK == 1
OPT_GATEWAY == 3
OPT_DNS == 6
OPT_MTU == 26
OPT_BROADCAST_ADDR == 28
OPT_REQUESTED_IP == 50
OPT_LEASE_TIME == 51
OPT_MESSAGE_TYPE == 53
OPT_SERVER_ID == 54
OPT_PARAMETER_LIST == 55
OPT_T1 == 58
OPT_T2 == 59
OPT_END == 255

DHCPDISCOVER == 1
DHCPOFFER == 2
DHCPREQUEST == 3
DHCPACK == 5
DHCPNAK == 6

Cookie == <<99, 130, 83, 99>>
Zero == <<0, 0, 0, 0>>

kRequestParameters ==
  <<OPT_SUBNET_MASK, OPT_GATEWAY, OPT_DNS, OPT_BROADCAST_ADDR, OPT_LEASE_TIME, OPT_T1,
    OPT_T2, OPT_MTU>>

-----------------------------------------------------------------------------
(* Building a message.                                                     *)

\* The constructor: the cookie and the type.
NewMessage(op, xid, type) ==
  [op |-> op, htype |-> HTYPE_ETHER, hlen |-> ETH_ALEN, xid |-> xid, yiaddr |-> Zero,
   options |-> Cookie \o <<OPT_MESSAGE_TYPE, 1, type>>]

AddOption(m, code, value) ==
  [m EXCEPT !.options = @ \o <<code, Len(value)>> \o value]

EndOptions(m) == [m EXCEPT !.options = Append(@, OPT_END)]

Discover(xid) ==
  EndOptions(AddOption(NewMessage(OP_BOOTREQUEST, xid, DHCPDISCOVER),
                       OPT_PARAMETER_LIST, kRequestParameters))

Request(xid, requestAddress, serverAddress) ==
  LET m == AddOption(NewMessage(OP_BOOTREQUEST, xid, DHCPREQUEST),
                     OPT_PARAMETER_LIST, kRequestParameters)
  IN EndOptions(AddOption(AddOption(m, OPT_REQUESTED_IP, requestAddress),
                          OPT_SERVER_ID, serverAddress))

\* A message with the first n options of a list, for each n.
AddOptions(m, list) ==
  LET upto[n \in 0 .. Len(list)] ==
        IF n = 0 THEN m ELSE AddOption(upto[n - 1], list[n].code, list[n].value)
  IN upto

\* A reply that gives the options of a list, in its order.  Message::offer
\* and Message::ack are this one with the server, the lease time, the
\* netmask, the gateway and the DNS servers; Message::nack names the server
\* only and offers no address.
Reply(xid, type, address, list) ==
  LET m == [NewMessage(OP_BOOTREPLY, xid, type) EXCEPT !.yiaddr = address]
  IN EndOptions(AddOptions(m, list)[Len(list)])

\* The message as it is sent, the rest of its fixed part being zeros.
Bytes(m) == <<m.op, m.htype, m.hlen, m.xid>> \o m.yiaddr \o m.options

\* What a receiver has of such bytes.
MessageOf(bytes) ==
  [op |-> bytes[1], htype |-> bytes[2], hlen |-> bytes[3], xid |-> bytes[4],
   yiaddr |-> SubSeq(bytes, 5, 8), options |-> SubSeq(bytes, 9, Len(bytes))]

-----------------------------------------------------------------------------
(* Reading a message.                                                      *)

\* isValidDhcpMessage.
IsValidDhcpMessage(m, op, xid) ==
  /\ Len(m.options) >= 4
  /\ m.op = op /\ m.htype = HTYPE_ETHER /\ m.hlen = ETH_ALEN
  /\ SubSeq(m.options, 1, 4) = Cookie
  /\ m.xid = xid

\* The byte at an offset of the options.  A message is received into a
\* buffer of zeros, so these follow it.
At(m, i) == IF i < Len(m.options) THEN m.options[i + 1] ELSE 0

\* The value of the option at an offset.
ValueAt(m, i) == [k \in 1 .. At(m, i + 1) |-> At(m, i + 1 + k)]

\* Message::getOption: the value of the first option with the code, or the
\* empty one, which every caller refuses for its length.  The loop from each
\* offset on.
GetOptionFrom(m, code) ==
  LET from[i \in Nat] ==
        IF i + 2 >= Len(m.options) \/ At(m, i) = OPT_END THEN <<>>
        ELSE IF At(m, i) = code THEN ValueAt(m, i)
        ELSE from[i + 2 + At(m, i + 1)]
  IN from

GetOption(m, code) == GetOptionFrom(m, code)[4]

\* Message::type, and Message::serverId and requestedIp.
Type(m) ==
  LET value == GetOption(m, OPT_MESSAGE_TYPE)
  IN IF Len(value) = 1 THEN value[1] ELSE 0

AddressOption(m, code) ==
  LET value == GetOption(m, code)
  IN IF Len(value) = 4 THEN value ELSE Zero

ServerId(m) == AddressOption(m, OPT_SERVER_ID)
RequestedIp(m) == AddressOption(m, OPT_REQUESTED_IP)

-----------------------------------------------------------------------------
(* configureDhcp's reading of the options.                                 *)

\* The offsets its loop visits from each one on.
OffsetsFrom(m) ==
  LET from[i \in Nat] ==
        IF i + 1 >= Len(m.options) \/ At(m, i) = OPT_END THEN {}
        ELSE {i} \cup from[i + 2 + At(m, i + 1)]
  IN from

OptionOffsets(m) == OffsetsFrom(m)[4]

\* A message with an option that does not fit is dropped.  (The bound leaves
\* out the two bytes before the value.)
OptionsFit(m) ==
  /\ Len(m.options) >= 4
  /\ \A i \in OptionOffsets(m) : i + At(m, i + 1) < Len(m.options)

\* Mutant: the first option with the code counts.
LastValueFirst(m, code, lengths) ==
  LET at == {i \in OptionOffsets(m) : At(m, i) = code /\ At(m, i + 1) \in lengths}
  IN IF at = {} THEN <<>> ELSE ValueAt(m, Min(at))

\* The last option with the code and one of the lengths wins.
LastValue(m, code, lengths) ==
  LET at == {i \in OptionOffsets(m) : At(m, i) = code /\ At(m, i + 1) \in lengths}
  IN IF at = {} THEN <<>> ELSE ValueAt(m, Max(at))

\* The n-th address in the value of an option that may list several.
NthAddress(m, code, n) ==
  LET value == LastValue(m, code, 4 * n .. 255)
  IN IF value = <<>> THEN Zero ELSE SubSeq(value, 4 * n - 3, 4 * n)

\* ntohs and ntohl.
Number(bytes) ==
  LET upto[n \in 0 .. Len(bytes)] == IF n = 0 THEN 0 ELSE 256 * upto[n - 1] + bytes[n]
  IN upto[Len(bytes)]

\* mDhcpInfo after the loop, for numDns entries of DNS servers.
DhcpInfo(m, numDns) ==
  LET address(code) == LET value == LastValue(m, code, {4})
                       IN IF value = <<>> THEN Zero ELSE value
  IN [leaseTime |-> Number(LastValue(m, OPT_LEASE_TIME, {4})),
      t1 |-> Number(LastValue(m, OPT_T1, {4})),
      t2 |-> Number(LastValue(m, OPT_T2, {4})),
      subnetMask |-> address(OPT_SUBNET_MASK), serverId |-> address(OPT_SERVER_ID),
      gateway |-> NthAddress(m, OPT_GATEWAY, 1),
      mtu |-> Number(LastValue(m, OPT_MTU, {2})),
      dns |-> [i \in 1 .. numDns |-> NthAddress(m, OPT_DNS, i)],
      offeredAddress |-> m.yiaddr]
=============================================================================
