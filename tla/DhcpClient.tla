----------------------------- MODULE DhcpClient -----------------------------
(***************************************************************************)
(* The DHCP client of dhcp/client: the state machine of DhcpClient::run,   *)
(* its retry timeouts and lease timers, the network interface it           *)
(* configures, and the network and servers it talks to.                    *)
(*                                                                         *)
(* Time is counted in ticks (milliseconds in the code).  A timer is kept   *)
(* as the ticks left until it expires, so that Tick is the only action     *)
(* that moves time and no absolute clock is needed.  Time passes only in   *)
(* ppoll: the code between two polls is taken to run in no time.           *)
(*                                                                         *)
(* The network may lose, delay, reorder and duplicate messages.  The       *)
(* servers are external: they answer as a DHCP server does, and any of     *)
(* them may stay silent.                                                   *)
(***************************************************************************)
EXTENDS Integers, FiniteSets

CONSTANTS
  Servers,          \* server identifiers (addresses of DHCP servers)
  Addresses,        \* addresses the servers lease out
  Broadcast,        \* INADDR_BROADCAST as the server identifier of a request
  None,             \* address 0: "no address", "no server"
  Grants,           \* lease parameters an ACK may carry, 0 = option absent
  kInitialTimeout,  \* first retry timeout, in ticks
  kMaxTimeout,      \* largest retry timeout, in ticks
  kTimeoutSpan,     \* random variation of a retry timeout, in ticks
  TicksPerSecond,   \* 1000 in the code
  UintMod,          \* 2^32 in the code: modulus of uint32_t
  XidMod,           \* number of transaction identifiers, 2^32 in the code
  MaxNet,           \* bound: messages in flight
  SendCap,          \* bound: the history variable sends stops counting here
  MaxRestarts,      \* bound: times the client process dies and is restarted
  CanNak,           \* may servers refuse a request?
  CanFail,          \* may configuring the interface fail?
  NoGateway         \* ClientOption::NoGateway

States == {"Init", "Selecting", "Requesting", "Bound", "Renewing", "Rebinding"}

\* The states in which the client waits for the answer to a DHCPREQUEST.
RequestStates == {"Requesting", "Renewing", "Rebinding"}

Grant == [lease : Nat, t1 : Nat, t2 : Nat]

ASSUME ConstantsAssumption ==
  /\ kInitialTimeout \in Nat \ {0} /\ kMaxTimeout \in Nat
  /\ kInitialTimeout < kMaxTimeout /\ kTimeoutSpan \in Nat
  /\ TicksPerSecond \in Nat \ {0} /\ UintMod \in Nat
  /\ 2 * kMaxTimeout < UintMod
  /\ XidMod \in Nat /\ XidMod >= 2
  /\ MaxNet \in Nat \ {0} /\ SendCap \in Nat \ {0} /\ MaxRestarts \in Nat
  /\ CanNak \in BOOLEAN /\ CanFail \in BOOLEAN /\ NoGateway \in BOOLEAN

ASSUME NamesAssumption ==
  /\ Broadcast \notin Servers /\ None \notin Servers
  /\ None \notin Addresses /\ None # Broadcast

\* A server that states T1 or T2 states both, in order, and a client that
\* halves a lease gets a T1 before its end.
ASSUME GrantsAssumption ==
  /\ Grants \subseteq Grant
  /\ \A g \in Grants :
        /\ g.lease < UintMod
        /\ g.t1 = 0 <=> g.t2 = 0
        /\ g.t1 <= g.t2
        /\ g.lease # 0 => g.t1 < g.lease

VARIABLES
  mState, mNextTimeout, mFuzzNextTimeout,   \* the fields of DhcpClient
  mLastMsg, mServerAddress, mRequestAddress,
  mT1, mT2,             \* ticks until the timer expires, 0 once it has
  sNextTransactionId,   \* message.cpp's counter
  pc,                   \* "step": in run's switch; "poll": in ppoll
  poll,                 \* ticks left of the current ppoll timeout
  ifUp, ifAddr,         \* the interface: IFF_UP and its address
  net,                  \* messages in flight or in the socket's queue
  sends,                \* history: messages sent since the last setNextState
  lease,                \* history: ticks until the accepted lease ends
  grantor,              \* history: server whose ACK was accepted last
  restarts              \* number of restarts so far, the incarnation

clientVars == <<mState, mNextTimeout, mFuzzNextTimeout, mLastMsg,
                mServerAddress, mRequestAddress, mT1, mT2,
                sNextTransactionId>>
vars == <<clientVars, pc, poll, ifUp, ifAddr, net, sends, lease, grantor,
          restarts>>

-----------------------------------------------------------------------------
(* Messages.  inc is the incarnation of the client that started the        *)
(* transaction: no code reads it, it tells two uses of an xid apart.       *)

Xids == 0 .. XidMod - 1
Discovers == [type : {"DISCOVER"}, xid : Xids, inc : Nat]
Requests  == [type : {"REQUEST"}, xid : Xids, inc : Nat,
              addr : Addresses, server : Servers \cup {Broadcast}]
Offers == [type : {"OFFER"}, xid : Xids, inc : Nat,
           addr : Addresses, server : Servers]
Acks   == [type : {"ACK"}, xid : Xids, inc : Nat,
           addr : Addresses, server : Servers, grant : Grants]
Naks   == [type : {"NAK"}, xid : Xids, inc : Nat, server : Servers]
NoMsg  == [type |-> "NONE"]

Messages == Discovers \cup Requests \cup Offers \cup Acks \cup Naks
ReplyTypes == {"OFFER", "ACK", "NAK"}

\* m enters the network; old messages may get lost on the way, and at most
\* MaxNet are in flight.
Put(old, m) ==
  \E keep \in SUBSET old : Cardinality(keep) < MaxNet /\ net' = keep \cup {m}

-----------------------------------------------------------------------------
(* Helpers of DhcpClient.                                                  *)

\* Mutant: setNextState forgets to clear the timeout.
SetNextStateKeepsTimeout(s) ==
  /\ mState' = s
  /\ UNCHANGED mNextTimeout
  /\ mFuzzNextTimeout' = TRUE
  /\ sends' = 0

\* DhcpClient::setNextState, on the fields it assigns.
SetNextState(s) ==
  /\ mState' = s
  /\ mNextTimeout' = 0
  /\ mFuzzNextTimeout' = TRUE
  /\ sends' = 0

\* DhcpClient::increaseTimeout: the new mNextTimeout.
IncreasedTimeout ==
  IF mNextTimeout = 0 THEN kInitialTimeout
  ELSE IF 2 * mNextTimeout < kMaxTimeout THEN 2 * mNextTimeout
  ELSE kMaxTimeout

\* DhcpClient::calculateTimeoutMillis: the timeouts it may return.
Timeouts(next, fuzz) ==
  IF fuzz THEN {IF next + d < 0 THEN 0 ELSE next + d :
                      d \in -kTimeoutSpan .. kTimeoutSpan}
  ELSE {next}

\* Entry of waitAndReceive after the switch of run: kNoTimeout returns at
\* once to the switch, any other timeout is polled for.
EnterWait ==
  IF mNextTimeout' = 0
  THEN pc' = "step" /\ poll' = 0
  ELSE pc' = "poll" /\ poll' \in Timeouts(mNextTimeout', mFuzzNextTimeout')

\* waitAndReceive returned: evaluate the state in run's switch.
LeaveWait == pc' = "step" /\ poll' = 0

\* sendDhcpDiscover, sendDhcpRequest and sendMessage: a fresh transaction
\* identifier, mLastMsg is the message whether or not it could be sent, and
\* nothing leaves an interface that is down.  A datagram does not outlive
\* 2^32 transactions: those of an earlier use of the identifier are gone.
Send(m) ==
  /\ mLastMsg' = m
  /\ sNextTransactionId' = (sNextTransactionId + 1) % XidMod
  /\ sends' = IF sends < SendCap THEN sends + 1 ELSE SendCap
  /\ LET old == {n \in net : n.xid # m.xid \/ n.inc # m.inc}
     IN IF ifUp THEN Put(old, m) ELSE net' = old

DiscoverMsg == [type |-> "DISCOVER", xid |-> sNextTransactionId, 
                inc |-> restarts]
RequestMsg(dest) == [type |-> "REQUEST", xid |-> sNextTransactionId, 
                     inc |-> restarts, addr |-> mRequestAddress,
                     server |-> dest]

\* Mutant: the transaction identifier of a reply is not compared.
AcceptsAnyXid(m) == mLastMsg # NoMsg

\* Message::isValidDhcpMessage: the network carries only well-formed replies,
\* so that the transaction identifier decides.
IsValidDhcpMessage(m, xid) == m.xid = xid

\* receiveDhcpMessage: is reply m one the client looks at?
Accepts(m) == mLastMsg # NoMsg /\ IsValidDhcpMessage(m, mLastMsg.xid)

-----------------------------------------------------------------------------
(* run: one evaluation of the switch, up to ppoll or the next evaluation.  *)

\* What every evaluation leaves alone.
KeepInterface == UNCHANGED <<ifUp, ifAddr, mT1, mT2, lease, grantor, restarts,
                             mServerAddress, mRequestAddress>>

\* setNextState inside the switch.
MoveTo(s) ==
  /\ SetNextState(s)
  /\ UNCHANGED <<mLastMsg, sNextTransactionId, net>>

\* Send and increaseTimeout inside the switch.
Transmit(m) ==
  /\ Send(m)
  /\ mNextTimeout' = IncreasedTimeout
  /\ UNCHANGED <<mState, mFuzzNextTimeout>>

\* Mutant: the client starts with a request instead of a discovery.
EvalInitRequests == mState = "Init" /\ MoveTo("Requesting")

EvalInit == mState = "Init" /\ MoveTo("Selecting")

EvalSelecting == mState = "Selecting" /\ Transmit(DiscoverMsg)

\* Mutant: > instead of >= when the client gives up.
EvalRequestingForever ==
  /\ mState = "Requesting"
  /\ IF mNextTimeout > kMaxTimeout
     THEN MoveTo("Init")
     ELSE Transmit(RequestMsg(mServerAddress))

EvalRequesting ==
  /\ mState = "Requesting"
  /\ IF mNextTimeout >= kMaxTimeout
     THEN MoveTo("Init")
     ELSE Transmit(RequestMsg(mServerAddress))

\* Mutant: the wait for T1 is fuzzed like a retry.
EvalBoundFuzzed ==
  /\ mState = "Bound"
  /\ IF mT1 = 0
     THEN MoveTo("Renewing")
     ELSE /\ mNextTimeout' = mT1 % UintMod
          /\ UNCHANGED <<mState, mFuzzNextTimeout, mLastMsg,
                         sNextTransactionId, net, sends>>

EvalBound ==
  /\ mState = "Bound"
  /\ IF mT1 = 0
     THEN MoveTo("Renewing")
     ELSE /\ mNextTimeout' = mT1 % UintMod
          /\ mFuzzNextTimeout' = FALSE
          /\ UNCHANGED <<mState, mLastMsg, sNextTransactionId, net, sends>>

EvalRenewing ==
  /\ mState = "Renewing"
  /\ IF mT2 = 0
     THEN MoveTo("Rebinding")
     ELSE Transmit(RequestMsg(mServerAddress))

\* Mutant: > instead of >= when the client gives up.
EvalRebindingForever ==
  /\ mState = "Rebinding"
  /\ IF mNextTimeout > kMaxTimeout
     THEN MoveTo("Init")
     ELSE Transmit(RequestMsg(Broadcast))

EvalRebinding ==
  /\ mState = "Rebinding"
  /\ IF mNextTimeout >= kMaxTimeout
     THEN MoveTo("Init")
     ELSE Transmit(RequestMsg(Broadcast))

Evaluate ==
  /\ pc = "step"
  /\ \/ EvalInit      \/ EvalSelecting \/ EvalRequesting
     \/ EvalBound     \/ EvalRenewing  \/ EvalRebinding
  /\ EnterWait
  /\ KeepInterface

-----------------------------------------------------------------------------
(* waitAndReceive: ppoll returns with a timeout or with a message.         *)

Timeout ==
  /\ pc = "poll" /\ poll = 0
  /\ LeaveWait
  /\ UNCHANGED <<clientVars, ifUp, ifAddr, net, sends, lease, grantor,
                 restarts>>

\* m is read from the socket; the network may hold a duplicate of it.
Read(m) ==
  /\ pc = "poll" /\ m \in net /\ m.type \in ReplyTypes
  /\ net' \in {net, net \ {m}}

ReceiveOffer(m) ==
  /\ Read(m) /\ Accepts(m)
  /\ mState = "Selecting" /\ m.type = "OFFER"
  /\ mServerAddress' = m.server
  /\ mRequestAddress' = m.addr
  /\ SetNextState("Requesting")
  /\ LeaveWait
  /\ UNCHANGED <<mLastMsg, sNextTransactionId, mT1, mT2, ifUp, ifAddr, lease,
                 grantor, restarts>>

\* Mutant: seven eighths of the lease, divided first.
T2SecondsDividesFirst(g) ==
  IF g.t2 > 0 THEN g.t2 ELSE (((g.lease \div 8) * 7) % UintMod)

\* Expiry of the timers configureDhcp arms, in seconds of uint32_t.
T1Seconds(g) == IF g.t1 > 0 THEN g.t1 ELSE g.lease \div 2
T2Seconds(g) == IF g.t2 > 0 THEN g.t2 ELSE ((g.lease * 7) % UintMod) \div 8

\* The ways configureDhcp can go once it has a lease time.
ConfigResults ==
  {"ok"} \cup (IF CanFail THEN {"bringUp", "setAddress"} ELSE {})
         \cup (IF CanFail /\ ~NoGateway THEN {"setDefaultGateway"} ELSE {})

\* Mutant: the old address is cleared before the interface is configured.
ConfigureClearsFirst(m, res) ==
  /\ mT1' = T1Seconds(m.grant) * TicksPerSecond
  /\ mT2' = T2Seconds(m.grant) * TicksPerSecond
  /\ lease' = m.grant.lease * TicksPerSecond
  /\ ifUp' = (ifUp \/ res # "bringUp")
  /\ ifAddr' = IF res \in {"ok", "setDefaultGateway"} THEN m.addr ELSE None

\* configureDhcp with a lease time: the timers are armed first, then the
\* interface is configured step by step up to the one that fails.
Configure(m, res) ==
  /\ mT1' = T1Seconds(m.grant) * TicksPerSecond
  /\ mT2' = T2Seconds(m.grant) * TicksPerSecond
  /\ lease' = m.grant.lease * TicksPerSecond
  /\ ifUp' = (ifUp \/ res # "bringUp")
  /\ ifAddr' = IF res \in {"ok", "setDefaultGateway"} THEN m.addr ELSE ifAddr

\* An ACK that configures the interface.
ReceiveAck(m) ==
  /\ Read(m) /\ Accepts(m)
  /\ mState \in RequestStates /\ m.type = "ACK"
  /\ m.grant.lease # 0
  /\ Configure(m, "ok")
  /\ grantor' = m.server
  /\ SetNextState("Bound")
  /\ LeaveWait
  /\ UNCHANGED <<mLastMsg, sNextTransactionId, mServerAddress,
                 mRequestAddress, restarts>>

\* An ACK configureDhcp fails on: back to ppoll with the remaining time.
ReceiveAckFails(m) ==
  /\ Read(m) /\ Accepts(m)
  /\ mState \in RequestStates /\ m.type = "ACK"
  /\ \/ m.grant.lease = 0 /\ UNCHANGED <<mT1, mT2, lease, ifUp, ifAddr>>
     \/ m.grant.lease # 0 /\ \E res \in ConfigResults \ {"ok"} : Configure(m, res)
  /\ UNCHANGED <<mState, mNextTimeout, mFuzzNextTimeout, mLastMsg,
                 sNextTransactionId, mServerAddress, mRequestAddress, pc,
                 poll, sends, grantor, restarts>>

\* haltNetwork clears the address and takes the interface down; its errors
\* are only logged.
HaltNetwork ==
  /\ ifAddr' \in {None} \cup (IF CanFail THEN {ifAddr} ELSE {})
  /\ ifUp' \in {FALSE} \cup (IF CanFail THEN {ifUp} ELSE {})

\* A NAK: halt the network and start over.
ReceiveNak(m) ==
  /\ Read(m) /\ Accepts(m)
  /\ mState \in RequestStates /\ m.type = "NAK"
  /\ HaltNetwork
  /\ SetNextState("Init")
  /\ LeaveWait
  /\ UNCHANGED <<mLastMsg, sNextTransactionId, mServerAddress,
                 mRequestAddress, mT1, mT2, lease, grantor, restarts>>

\* Any other message: back to ppoll with the remaining time.
ReceiveIgnored(m) ==
  /\ Read(m)
  /\ ~ /\ Accepts(m)
       /\ \/ mState = "Selecting" /\ m.type = "OFFER"
          \/ mState \in RequestStates /\ m.type \in {"ACK", "NAK"}
  /\ UNCHANGED <<clientVars, pc, poll, ifUp, ifAddr, sends, lease, grantor,
                 restarts>>

Receive(m) == \/ ReceiveOffer(m) \/ ReceiveAck(m) \/ ReceiveAckFails(m)
              \/ ReceiveNak(m) \/ ReceiveIgnored(m)

-----------------------------------------------------------------------------
(* The environment.                                                        *)

Down(t) == IF t > 0 THEN t - 1 ELSE 0

Tick ==
  /\ pc = "poll" /\ poll > 0
  /\ poll' = poll - 1
  /\ mT1' = Down(mT1) /\ mT2' = Down(mT2) /\ lease' = Down(lease)
  /\ UNCHANGED <<mState, mNextTimeout, mFuzzNextTimeout, mLastMsg,
                 mServerAddress, mRequestAddress, sNextTransactionId, pc,
                 ifUp, ifAddr, net, sends, grantor, restarts>>

Lose ==
  /\ \E m \in net : net' = net \ {m}
  /\ UNCHANGED <<clientVars, pc, poll, ifUp, ifAddr, sends, lease, grantor,
                 restarts>>

\* A server answers a message that is in flight (and stays there, so that
\* it may be answered again).  It offers any address; it confirms or
\* refuses only requests that name it, or broadcast ones.
Reply(m) ==
  \/ /\ m.type = "DISCOVER"
     /\ \E s \in Servers, a \in Addresses :
          Put(net, [type |-> "OFFER", xid |-> m.xid, inc |-> m.inc,
                    addr |-> a, server |-> s])
  \/ /\ m.type = "REQUEST"
     /\ \E s \in Servers, g \in Grants :
          /\ m.server \in {s, Broadcast}
          /\ Put(net, [type |-> "ACK", xid |-> m.xid, inc |-> m.inc,
                       addr |-> m.addr, server |-> s, grant |-> g])
  \/ /\ m.type = "REQUEST" /\ CanNak
     /\ \E s \in Servers :
          /\ m.server \in {s, Broadcast}
          /\ Put(net, [type |-> "NAK", xid |-> m.xid, inc |-> m.inc,
                       server |-> s])

ServerReply(m) ==
  /\ m \in net
  /\ Reply(m)
  /\ UNCHANGED <<clientVars, pc, poll, ifUp, ifAddr, sends, lease, grantor,
                 restarts>>

\* The state of a client process that has just been constructed and
\* initialised: Interface::init brings the interface up and clears its
\* address.  mServerAddress and mRequestAddress are not initialised by the
\* code; None stands for whatever is in them.
Restart ==
  /\ restarts < MaxRestarts
  /\ restarts' = restarts + 1
  /\ mState' = "Init" /\ mNextTimeout' = kInitialTimeout
  /\ mFuzzNextTimeout' = TRUE /\ mLastMsg' = NoMsg /\ sends' = 0
  /\ mServerAddress' = None /\ mRequestAddress' = None
  /\ mT1' = 0 /\ mT2' = 0
  /\ sNextTransactionId' = 1
  /\ LeaveWait
  /\ ifUp' = TRUE /\ ifAddr' = None
  /\ lease' = 0 /\ grantor' = None
  /\ UNCHANGED net

-----------------------------------------------------------------------------
Init ==
  /\ mState = "Init" /\ mNextTimeout = kInitialTimeout
  /\ mFuzzNextTimeout = TRUE /\ mLastMsg = NoMsg
  /\ mServerAddress = None /\ mRequestAddress = None
  /\ mT1 = 0 /\ mT2 = 0 /\ sNextTransactionId = 1
  /\ pc = "step" /\ poll = 0
  /\ ifUp = TRUE /\ ifAddr = None
  /\ net = {} /\ sends = 0 /\ lease = 0 /\ grantor = None /\ restarts = 0

Next ==
  \/ Evaluate \/ Timeout \/ Tick \/ Lose \/ Restart
  \/ \E m \in net : Receive(m) \/ ServerReply(m)

Spec == Init /\ [][Next]_vars

-----------------------------------------------------------------------------
(* Safety properties.                                                      *)

\* Every variable has its type.
TypeOK ==
  /\ mState \in States /\ mNextTimeout \in Nat
  /\ mFuzzNextTimeout \in BOOLEAN
  /\ mLastMsg \in Discovers \cup Requests \cup {NoMsg}
  /\ mServerAddress \in Servers \cup {None}
  /\ mRequestAddress \in Addresses \cup {None}
  /\ mT1 \in Nat /\ mT2 \in Nat /\ lease \in Nat
  /\ sNextTransactionId \in Xids
  /\ pc \in {"step", "poll"} /\ poll \in Nat
  /\ ifUp \in BOOLEAN /\ ifAddr \in Addresses \cup {None}
  /\ net \subseteq Messages
  /\ sends \in 0 .. SendCap
  /\ grantor \in Servers \cup {None}
  /\ restarts \in 0 .. MaxRestarts

\* While the client polls it has sent, since it entered its state, a message
\* of the type that state waits for: no answer to a message of an earlier
\* state is ever taken for an answer to the present one (setNextState's
\* kNoTimeout skips ppoll until the new state has sent its own message).
PollsForOwnSend ==
  pc = "poll" =>
    \/ mState = "Selecting" /\ mLastMsg.type = "DISCOVER" /\ sends >= 1
    \/ mState \in RequestStates /\ mLastMsg.type = "REQUEST" /\ sends >= 1
    \/ mState = "Bound"

\* From the first ACK until a NAK or a give-up the interface stays up with
\* an address, whatever configureDhcp fails on while the lease is renewed.
NetworkUpWhileLeased ==
  mState \in {"Bound", "Renewing", "Rebinding"} => ifUp /\ ifAddr # None

\* A bound client uses the address of its last request, granted by the
\* server that request named: neither a late ACK of an abandoned offer nor a
\* duplicate of an old one can bind it ("Request approved").
LeaseMatchesRequest ==
  mState = "Bound" =>
    /\ mLastMsg.type = "REQUEST"
    /\ ifAddr = mLastMsg.addr /\ ifAddr = mRequestAddress
    /\ mLastMsg.server \in {grantor, Broadcast}

\* The client leaves Bound for Renewing while its lease still runs: the poll
\* in Bound ends when T1 expires ("Do not fuzz the timeout").
RenewBeforeLeaseEnds == mState = "Bound" => lease > 0

\* T1 never expires after T2, so the client unicasts renewals before it
\* broadcasts ("an estimate as suggested for servers in RFC 2131").
T1BeforeT2 == mT1 <= mT2

\* The timeout of a round doubled k times.
Doubled[k \in Nat] == IF k = 0 THEN kInitialTimeout ELSE 2 * Doubled[k - 1]

\* A round of requests is bounded: Requesting and Rebinding send at most one
\* request per timeout from kInitialTimeout doubled up to kMaxTimeout.
MaxSends == Cardinality({k \in 0 .. SendCap : Doubled[k] < kMaxTimeout}) + 1
BoundedRequests ==
  mState \in {"Requesting", "Rebinding"} => sends <= MaxSends

-----------------------------------------------------------------------------
(* Liveness properties.                                                    *)

\* The client is a process that runs whenever it is not blocked in ppoll,
\* and time passes.
ClientFairness == WF_vars(Evaluate) /\ WF_vars(Timeout) /\ WF_vars(Tick)

\* A message of the client that is still in flight is answered in time.
AnsweredIn(S) == mState \in S /\ pc = "poll" /\ mLastMsg \in net /\ ServerReply(mLastMsg)
\* An answer to the client's last message is delivered.
DeliveredIn(S) == mState \in S /\ \E m \in net : Accepts(m) /\ Receive(m)

NetworkFairness ==
  /\ SF_vars(AnsweredIn({"Selecting"})) /\ SF_vars(AnsweredIn(RequestStates))
  /\ SF_vars(DeliveredIn({"Selecting"})) /\ SF_vars(DeliveredIn(RequestStates))

ClientSpec == Spec /\ ClientFairness
FairSpec == Spec /\ ClientFairness /\ NetworkFairness

\* A round of requests comes to an end: the client is bound or starts over.
RoundEnds ==
  mState \in {"Requesting", "Rebinding"} ~> mState \in {"Bound", "Init"}

\* The answer of a server that grants what the client's last message asks for.
GoodAck(m) == m.type = "ACK" /\ m.grant.lease # 0
AckAnswered ==
  /\ pc = "poll" /\ mState \in RequestStates /\ mLastMsg \in net
  /\ ServerReply(mLastMsg)
  /\ \E m \in net' : GoodAck(m) /\ m.xid = mLastMsg.xid /\ m.inc = mLastMsg.inc
AckTaken == \E m \in net : ReceiveAck(m)

\* A client that keeps getting messages to a server keeps getting its offers
\* and ACKs, and can use one of them, between losses, refusals and failures.
Served ==
  /\ SF_vars(AnsweredIn({"Selecting"})) /\ SF_vars(AckAnswered)
  /\ SF_vars(\E m \in net : ReceiveOffer(m)) /\ SF_vars(AckTaken)

\* A client that is served is bound again and again, across lost messages,
\* refused requests, failed configurations, expired leases and a restart,
\* unless a refusal leaves its interface down for good (HaltedStartsOver).
AlwaysBoundAgain == Served => []<>(mState = "Bound") \/ <>[](~ifUp)

\* "Request denied, halt network and start over": after the interface was
\* halted the client gets a DHCPDISCOVER onto the network again.
HaltedStartsOver == ~ifUp ~> \E m \in net : m.type = "DISCOVER"

\* "Unable to configure DHCP, keep sending requests.  [...] eventually it
\* will allow for a full timeout which will lead to a move to the Init
\* state": a client that renews a lease is bound again or starts over.
RenewingEnds == mState = "Renewing" ~> mState \in {"Bound", "Init"}
=============================================================================
