------------------------------ MODULE NetConfig ------------------------------
(***************************************************************************)
(* What a lease does to the system: a request of the client goes out as a  *)
(* raw frame, a reply with some list of options comes back as one, and     *)
(* configureDhcp reads it and sets up the interface (client/interface.cpp),*)
(* the default route (client/router.cpp) and the properties, one call      *)
(* after the other, any of which may fail.  The process may die between    *)
(* two calls; what it has set up stays.  DhcpClient models when requests   *)
(* are sent and replies awaited; here they come in any order.              *)
(***************************************************************************)
EXTENDS Integers, Sequences, FiniteSetsExt, DhcpMessage, RawUdp

CONSTANTS None,
          Replies,        \* replies there may be: xid, type, list of options,
                          \* and the bytes that are missing at the end
          OfferedAddresses, ServerAddress,
          numDns,         \* entries of mDhcpInfo.dns
          NoGateway       \* ClientOption::NoGateway

Byte == 0 .. 255
Address == {a \in Seq(Byte) : Len(a) = 4}

\* An option that a server may give: its length is one byte.
Option == {o \in [code : 0 .. OPT_END - 1, value : Seq(Byte)] : Len(o.value) \in Byte}

ASSUME NetConfigAssumption ==
  /\ numDns \in Nat \ {0} /\ NoGateway \in BOOLEAN
  /\ OfferedAddresses \subseteq Address /\ ServerAddress \in Address
  /\ \A r \in Replies : /\ r.xid \in Byte /\ r.type \in Byte /\ r.cut \in Nat
                        /\ r.list \in Seq(Option)

VARIABLES
  pc,                  \* the client: "idle", "dead" or a step of configureDhcp
  mDhcpInfo,
  wire,                \* the frame under way, with what was put into it, or None
  ifUp, ifAddr, ifMtu, \* the interface
  routes,              \* gateways of the default routes in the main table
  \* the properties vendor.net.<interface>.gw and .dns1, .dns2, ...
  gw, dns,
  told,                \* history: what mDhcpInfo was read from, or None
  skipped,             \* history: steps that failed without ending the call
  configured           \* did the last configureDhcp return true?

client == <<pc, mDhcpInfo>>
interface == <<ifUp, ifAddr, ifMtu>>
properties == <<gw, dns>>
history == <<told, skipped, configured>>
vars == <<client, wire, interface, routes, properties, history>>

Broadcast == <<255, 255, 255, 255>>
NoInfo == DhcpInfo(Reply(0, 0, Zero, <<>>), numDns)
NoAddress == [local |-> Zero, prefix |-> 0, broadcast |-> Broadcast]

-----------------------------------------------------------------------------
(* Interface::setAddress.                                                  *)

\* The bits of a byte, the one of value 1 first, and the byte of some bits.
Bit(byte, i) == (byte \div <<1, 2, 4, 8, 16, 32, 64, 128>>[i + 1]) % 2

ByteOf(bits) ==
  bits[0] + 2 * bits[1] + 4 * bits[2] + 8 * bits[3]
    + 16 * bits[4] + 32 * bits[5] + 64 * bits[6] + 128 * bits[7]

Ones(byte) ==
  Bit(byte, 0) + Bit(byte, 1) + Bit(byte, 2) + Bit(byte, 3)
    + Bit(byte, 4) + Bit(byte, 5) + Bit(byte, 6) + Bit(byte, 7)

\* __builtin_popcount(subnetMask).
PrefixLength(mask) == Ones(mask[1]) + Ones(mask[2]) + Ones(mask[3]) + Ones(mask[4])

\* Mutant: the bits of the mask are set, not the others.
BroadcastWithMask(address, mask) ==
  [n \in 1 .. 4 |->
     ByteOf([i \in 0 .. 7 |-> IF Bit(address[n], i) = 1 \/ Bit(mask[n], i) = 1 THEN 1 ELSE 0])]

\* address | ~netmask.
BroadcastFromNetmask(address, mask) ==
  [n \in 1 .. 4 |->
     ByteOf([i \in 0 .. 7 |-> IF Bit(address[n], i) = 1 \/ Bit(mask[n], i) = 0 THEN 1 ELSE 0])]

AddressOf(address, mask) ==
  [local |-> address, prefix |-> PrefixLength(mask),
   broadcast |-> BroadcastFromNetmask(address, mask)]

-----------------------------------------------------------------------------
(* DhcpClient::init, and the death of the process.                         *)

\* The client starts with the interface up and without an address.
Init ==
  /\ pc = "idle" /\ mDhcpInfo = NoInfo /\ wire = None
  /\ ifUp = TRUE /\ ifAddr = NoAddress /\ ifMtu = 0 /\ routes = {}
  /\ gw = None /\ dns = [i \in 1 .. numDns |-> None]
  /\ told = None /\ skipped = {} /\ configured = FALSE

Crash ==
  /\ pc # "dead"
  /\ pc' = "dead" /\ mDhcpInfo' = NoInfo
  /\ told' = None /\ skipped' = {} /\ configured' = FALSE
  /\ UNCHANGED <<wire, interface, routes, properties>>

\* Interface::init and the opening of the sockets.  When a step fails the
\* process ends, and is started again.
Restart ==
  /\ pc = "dead"
  /\ \/ pc' = "idle" /\ ifUp' = TRUE /\ ifAddr' = NoAddress
     \/ ifUp' = TRUE /\ ifAddr' \in {ifAddr, NoAddress} /\ UNCHANGED pc
  /\ UNCHANGED <<mDhcpInfo, wire, ifMtu, routes, properties, history>>

-----------------------------------------------------------------------------
(* Messages out and in.                                                    *)

\* sendDhcpDiscover and sendDhcpRequest.  Nothing leaves an interface that
\* is down.
SendMessage(type, address, server) ==
  /\ pc = "idle" /\ wire = None
  /\ wire' = IF ~ifUp THEN None
             ELSE [to |-> "server", type |-> type, address |-> address, server |-> server,
                   frame |-> RawFrame(Zero, 68, Broadcast, 67,
                               Bytes(IF type = DHCPDISCOVER THEN Discover(1)
                                     ELSE Request(1, address, server)))]
  /\ UNCHANGED <<pc, mDhcpInfo, interface, routes, properties, history>>

Send ==
  \/ SendMessage(DHCPDISCOVER, Zero, Zero)
  \/ \E address \in OfferedAddresses : SendMessage(DHCPREQUEST, address, ServerAddress)

\* A reply comes to the client's port.
ReplyFrame(r, address) ==
  LET bytes == Bytes(Reply(r.xid, r.type, address, r.list))
  IN [to |-> "client", type |-> r.type, address |-> address, list |-> r.list,
      cut |-> r.cut,
      frame |-> RawFrame(ServerAddress, 67, address, 68,
                         SubSeq(bytes, 1, Len(bytes) - r.cut))]

ServerReply ==
  /\ wire # None
  /\ wire.to = "server"
  /\ \E r \in Replies, address \in OfferedAddresses : wire' = ReplyFrame(r, address)
  /\ UNCHANGED <<client, interface, routes, properties, history>>

\* Another frame reaches the raw socket: a header with options, another
\* protocol, another port, or less than the headers.
OtherFrame ==
  /\ wire # None
  /\ wire.to = "server"
  /\ \E f \in {[wire.frame EXCEPT !.ip[1] = 70], [wire.frame EXCEPT !.ip[10] = 6],
               wire.frame, [wire.frame EXCEPT !.udp = <<>>]} :
       wire' = [to |-> "client", frame |-> f, type |-> 0, address |-> Zero, list |-> <<>>,
                cut |-> 0]
  /\ UNCHANGED <<client, interface, routes, properties, history>>

Lose ==
  /\ wire # None
  /\ wire' = None
  /\ UNCHANGED <<client, interface, routes, properties, history>>

\* receiveDhcpMessage: does the client take the frame?
Received ==
  /\ IsValidFrame(wire.frame, 68)
  /\ IsValidDhcpMessage(MessageOf(wire.frame.data), OP_BOOTREPLY, 1)

\* The frame is read: an ACK goes to configureDhcp, a NAK halts the network.
\* Others, and an OFFER, whose address is the next request's, change nothing
\* here.  What a refused message leaves in mDhcpInfo is never read.  With an
\* interface that goes down the kernel drops its routes.
Receive ==
  /\ pc = "idle" /\ ifUp
  /\ wire # None
  /\ wire.to = "client"
  /\ wire' = None
  /\ LET m == MessageOf(wire.frame.data)
         type == IF Received THEN Type(m) ELSE 0
     IN \/ /\ type = DHCPACK
           /\ mDhcpInfo' = IF OptionsFit(m) THEN DhcpInfo(m, numDns) ELSE NoInfo
           /\ told' = [address |-> wire.address, list |-> wire.list, cut |-> wire.cut]
           /\ configured' = FALSE /\ skipped' = {}
           /\ pc' = IF OptionsFit(m) /\ mDhcpInfo'.leaseTime # 0 THEN "bringUp" ELSE "idle"
           /\ UNCHANGED <<interface, routes>>
        \/ /\ type = DHCPNAK
           /\ ifAddr' \in {NoAddress, ifAddr}
           /\ ifUp' \in BOOLEAN
           /\ routes' = IF ifUp' THEN routes ELSE {}
           /\ configured' = FALSE
           /\ UNCHANGED <<pc, mDhcpInfo, told, skipped, ifMtu>>
        \/ /\ type \notin {DHCPACK, DHCPNAK}
           /\ UNCHANGED <<pc, mDhcpInfo, interface, routes, history>>
  /\ UNCHANGED properties

-----------------------------------------------------------------------------
(* The steps of configureDhcp after the options.                           *)

\* A step that failed and ends the call, or is only logged.
Fail == pc' = "idle"
Skip(step) == skipped' = skipped \cup {step}

BringUp ==
  /\ pc = "bringUp"
  /\ \/ ifUp' = TRUE /\ pc' = "setMtu"
     \/ Fail /\ UNCHANGED ifUp
  /\ UNCHANGED <<mDhcpInfo, wire, ifAddr, ifMtu, routes, properties, history>>

SetMtu ==
  /\ pc = "setMtu"
  /\ pc' = "setGw"
  /\ \/ /\ mDhcpInfo.mtu = 0
        /\ UNCHANGED <<ifMtu, skipped>>
     \/ /\ mDhcpInfo.mtu # 0
        /\ \/ ifMtu' = mDhcpInfo.mtu /\ UNCHANGED skipped
           \/ Skip("mtu") /\ UNCHANGED ifMtu
  /\ UNCHANGED <<mDhcpInfo, wire, ifUp, ifAddr, routes, properties, told, configured>>

SetGw ==
  /\ pc = "setGw"
  /\ pc' = "setDns"
  /\ \/ gw' = mDhcpInfo.gateway /\ UNCHANGED skipped
     \/ Skip("gw") /\ UNCHANGED gw
  /\ UNCHANGED <<mDhcpInfo, wire, interface, routes, dns, told, configured>>

\* Mutant: entries without a server are left as they are.
SetDnsKeeps ==
  /\ pc = "setDns"
  /\ pc' = "setAddress"
  /\ dns' = [i \in 1 .. numDns |-> IF mDhcpInfo.dns[i] # Zero THEN mDhcpInfo.dns[i]
                                   ELSE dns[i]]
  /\ UNCHANGED <<mDhcpInfo, wire, interface, routes, gw, history>>

\* Each entry is set, or cleared when there is no server for it; each call
\* may fail.
SetDns ==
  /\ pc = "setDns"
  /\ pc' = "setAddress"
  /\ \E failed \in SUBSET (1 .. numDns) :
        /\ dns' = [i \in 1 .. numDns |-> IF i \in failed THEN dns[i]
                                         ELSE IF mDhcpInfo.dns[i] # Zero THEN mDhcpInfo.dns[i]
                                         ELSE None]
        /\ IF failed = {} THEN UNCHANGED skipped ELSE Skip("dns")
  /\ UNCHANGED <<mDhcpInfo, wire, interface, routes, gw, told, configured>>

SetAddress ==
  /\ pc = "setAddress"
  /\ \/ /\ ifAddr' = AddressOf(mDhcpInfo.offeredAddress, mDhcpInfo.subnetMask)
        /\ pc' = IF NoGateway THEN "idle" ELSE "setDefaultGateway"
        /\ configured' = NoGateway
     \/ Fail /\ UNCHANGED <<ifAddr, configured>>
  /\ UNCHANGED <<mDhcpInfo, wire, ifUp, ifMtu, routes, properties, told, skipped>>

\* The kernel answers a request for a new default route that asks for
\* NLM_F_CREATE without NLM_F_REPLACE: the route comes beside those there
\* are, or is refused (such as for a gateway no route of the interface
\* reaches).
KernelAddsRoute(gateway) ==
  \/ routes' = routes \cup {gateway} /\ UNCHANGED skipped
  \/ Skip("route") /\ UNCHANGED routes

\* setDefaultGateway reports whether the request could be sent; the kernel's
\* answer is not read.
SetDefaultGateway ==
  /\ pc = "setDefaultGateway"
  /\ pc' = "idle"
  /\ \/ configured' = TRUE /\ KernelAddsRoute(mDhcpInfo.gateway)
     \/ UNCHANGED <<routes, skipped, configured>>
  /\ UNCHANGED <<mDhcpInfo, wire, interface, properties, told>>

ConfigureDhcp == BringUp \/ SetMtu \/ SetGw \/ SetDns \/ SetAddress \/ SetDefaultGateway

Next == Send \/ ServerReply \/ OtherFrame \/ Lose \/ Receive \/ ConfigureDhcp
        \/ Crash \/ Restart

Spec == Init /\ [][Next]_vars

-----------------------------------------------------------------------------
(* Properties.                                                             *)

\* The sum of some bytes, of which the first, third and so on count odd times
\* their value and the others even times.
WeightedSums(bytes, odd, even) ==
  LET upto[n \in 0 .. Len(bytes)] ==
        IF n = 0 THEN 0 ELSE upto[n - 1] + (IF n % 2 = 1 THEN odd ELSE even) * bytes[n]
  IN upto

WeightedSum(bytes, odd, even) == WeightedSums(bytes, odd, even)[Len(bytes)]

\* The sum of the 16-bit words of some bytes in network order, an odd last
\* byte first in its word, as RFC 1071 has it.
NetworkSum(bytes) == WeightedSum(bytes, 256, 1)

\* The lengths and the checksums a receiver wants: the header, and the
\* datagram with its pseudo header, add up to a multiple of 65535.
Verifies(f) ==
  LET size == Word(8 + Len(f.data))
      pseudo == SubSeq(f.ip, 13, 20) \o <<0, IPPROTO_UDP>> \o size
  IN /\ SubSeq(f.ip, 3, 4) = Word(28 + Len(f.data))
     /\ SubSeq(f.udp, 5, 6) = size
     /\ NetworkSum(f.ip) % 65535 = 0
     /\ NetworkSum(pseudo \o f.udp \o f.data) % 65535 = 0

\* Every frame that is sent verifies, although sendRawUdp adds little-endian
\* words and folds the carries piece by piece.
FrameVerifies == wire # None /\ wire.type # 0 => Verifies(wire.frame)

\* A server reads from a request what the client put there: the options are
\* found again by their lengths.
RequestReadsBack ==
  wire # None /\ wire.to = "server" =>
    LET m == MessageOf(wire.frame.data)
    IN /\ IsValidDhcpMessage(m, OP_BOOTREQUEST, 1)
       /\ Type(m) = wire.type
       /\ RequestedIp(m) = wire.address
       /\ ServerId(m) = wire.server

\* What sendRawUdp puts on the wire arrives: a receiver's checks of lengths
\* and checksums pass, and a server reads the request it was meant to.
SentMessagesArrive == FrameVerifies /\ RequestReadsBack

\* What a list of options says, without its encoding: for each code the last
\* one of a right length counts.
Given(list, code, lengths) ==
  LET at == {i \in DOMAIN list : list[i].code = code /\ Len(list[i].value) \in lengths}
  IN IF at = {} THEN <<>> ELSE list[Max(at)].value

GivenAddress(list, code, n, lengths) ==
  LET value == Given(list, code, lengths)
  IN IF value = <<>> THEN Zero ELSE SubSeq(value, 4 * n - 3, 4 * n)

Lease(t) ==
  [leaseTime |-> Number(Given(t.list, OPT_LEASE_TIME, {4})),
   t1 |-> Number(Given(t.list, OPT_T1, {4})),
   t2 |-> Number(Given(t.list, OPT_T2, {4})),
   subnetMask |-> GivenAddress(t.list, OPT_SUBNET_MASK, 1, {4}),
   serverId |-> GivenAddress(t.list, OPT_SERVER_ID, 1, {4}),
   gateway |-> GivenAddress(t.list, OPT_GATEWAY, 1, 4 .. 255),
   mtu |-> Number(Given(t.list, OPT_MTU, {2})),
   dns |-> [i \in 1 .. numDns |-> GivenAddress(t.list, OPT_DNS, i, 4 * i .. 255)],
   offeredAddress |-> t.address]

\* configureDhcp reads from a complete reply what was put into it, for
\* options in any order, repeated, of a wrong length or unknown.
ParsedAsSent == told # None /\ told.cut = 0 => mDhcpInfo = Lease(told)

\* When configureDhcp has returned true the system is as the lease says,
\* whatever earlier leases, failed attempts and crashes have left behind;
\* only what was logged as failed, a route that the kernel refused without
\* the client asking, and an MTU the lease does not give, may be old.  The
\* gateway is one of the default routes, not the only one: that another one
\* "will be removed and replaced", as router.h says, does not happen.
ConfiguredAsLeased ==
  configured =>
    /\ ifUp
    /\ ifAddr.local = mDhcpInfo.offeredAddress
    /\ NoGateway \/ "route" \in skipped \/ mDhcpInfo.gateway \in routes
    /\ "gw" \notin skipped => gw = mDhcpInfo.gateway
    /\ "dns" \notin skipped =>
         \A i \in 1 .. numDns : dns[i] = IF mDhcpInfo.dns[i] = Zero THEN None
                                         ELSE mDhcpInfo.dns[i]
    /\ "mtu" \notin skipped => ifMtu = mDhcpInfo.mtu \/ mDhcpInfo.mtu = 0

\* The bits of an address from the first one on the wire on.
AddressBit(address, n) == Bit(address[n \div 8 + 1], 7 - (n % 8))

\* The masks of servers are netmasks: ones before zeros.
IsNetmask(mask) ==
  \E p \in 0 .. 32 : \A n \in 0 .. 31 : AddressBit(mask, n) = IF n < p THEN 1 ELSE 0

ASSUME NetmaskAssumption ==
  \A r \in Replies : \A i \in DOMAIN r.list :
    r.list[i].code = OPT_SUBNET_MASK /\ Len(r.list[i].value) = 4 => IsNetmask(r.list[i].value)

\* The broadcast address is the last one of the subnet that the prefix
\* length describes: the two are computed from the mask in different ways.
BroadcastOfSubnet ==
  \A n \in 0 .. 31 :
    AddressBit(ifAddr.broadcast, n) =
      IF n < ifAddr.prefix THEN AddressBit(ifAddr.local, n) ELSE 1
=============================================================================
