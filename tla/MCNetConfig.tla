----------------------------- MODULE MCNetConfig -----------------------------
(* Small instances of NetConfig for TLC.                                    *)
EXTENDS NetConfig

Opt(code, value) == [code |-> code, value |-> value]

Server == Opt(OPT_SERVER_ID, <<10, 0, 2, 2>>)
LeaseTime == Opt(OPT_LEASE_TIME, <<0, 0, 2, 88>>)
Mask == Opt(OPT_SUBNET_MASK, <<255, 255, 240, 0>>)
Gateway == Opt(OPT_GATEWAY, <<10, 0, 2, 1>>)
OtherGateway == Opt(OPT_GATEWAY, <<10, 0, 2, 3>>)
Dns(n) == Opt(OPT_DNS, SubSeq(<<8, 8, 8, 8, 8, 8, 4, 4>>, 1, 4 * n))
Mtu == Opt(OPT_MTU, <<5, 220>>)

\* What a server may send: Message::ack's options, and others, in another
\* order, repeated, unknown or of a wrong length.
AckList == <<Server, LeaseTime, Mask, Gateway, Dns(2)>>
OtherOrder == <<Mtu, Dns(1), OtherGateway, Mask, Opt(OPT_SUBNET_MASK, <<255, 255>>),
                LeaseTime, Server>>
Repeated == <<Opt(15, <<51, 4, 255>>), LeaseTime, Dns(2), Dns(1), Opt(OPT_DNS, <<8, 8>>),
              Gateway, Opt(60, <<>>), Opt(OPT_LEASE_TIME, <<0, 0, 0, 9>>)>>

R(xid, type, list, cut) == [xid |-> xid, type |-> type, list |-> list, cut |-> cut]

\* Besides the ACKs: one without a lease, one that is cut off, one meant for
\* another client, an OFFER and a NAK.
MCReplies ==
  {R(1, DHCPACK, list, 0) : list \in {AckList, OtherOrder, Repeated}}
    \cup {R(1, DHCPACK, <<Server>>, 0), R(1, DHCPACK, AckList, 3), R(2, DHCPACK, AckList, 0),
          R(1, DHCPOFFER, AckList, 0), R(1, DHCPNAK, <<Server>>, 0)}

MCOffered == {<<10, 0, 2, 15>>, <<10, 0, 18, 3>>}
MCServer == <<10, 0, 2, 2>>
=============================================================================
