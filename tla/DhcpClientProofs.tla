-------------------------- MODULE DhcpClientProofs --------------------------
(* Proofs about DhcpClient, for every number of servers, addresses, leases, *)
(* timeouts, transaction identifiers and messages in flight.                *)
EXTENDS DhcpClient, Recursion, FiniteSetTheorems, TLAPS

\* What putting a message into the network leaves there.
LEMMA PutNet ==
  ASSUME NEW old, NEW m, Put(old, m)
  PROVE  net' \subseteq old \cup {m}
BY DEF Put

\* What sending a message leaves in the network.
LEMMA SendNet ==
  ASSUME NEW m, Send(m)
  PROVE  net' \subseteq {n \in net : n.xid # m.xid \/ n.inc # m.inc} \cup {m}
<1> DEFINE old == {n \in net : n.xid # m.xid \/ n.inc # m.inc}
<1>1. CASE ifUp
  <2>1. Put(old, m)
    BY <1>1 DEF Send
  <2> QED
    BY <2>1, PutNet
<1>2. CASE ~ifUp
  BY <1>2 DEF Send
<1> QED
  BY <1>1, <1>2

\* A message of the network is known by its type.
LEMMA MessageTypes ==
  ASSUME NEW m \in Messages
  PROVE  /\ m.type = "DISCOVER" => m \in Discovers
         /\ m.type = "REQUEST" => m \in Requests
         /\ m.type = "OFFER" => m \in Offers
         /\ m.type = "ACK" => m \in Acks
         /\ m.type = "NAK" => m \in Naks
         /\ m.xid \in Xids /\ m.inc \in Nat
BY DEF Messages, Discovers, Requests, Offers, Acks, Naks

\* The constants as numbers.
LEMMA Numbers ==
  /\ kInitialTimeout \in Nat /\ kMaxTimeout \in Nat /\ kTimeoutSpan \in Nat
  /\ kInitialTimeout > 0 /\ kInitialTimeout < kMaxTimeout
  /\ TicksPerSecond \in Nat /\ TicksPerSecond > 0
  /\ UintMod \in Nat /\ UintMod > 0 /\ XidMod \in Nat /\ XidMod > 1
  /\ SendCap \in Nat /\ SendCap > 0 /\ MaxRestarts \in Nat
BY ConstantsAssumption

\* The timers configureDhcp arms are natural numbers of ticks.
LEMMA TimerTypes ==
  ASSUME NEW g \in Grants
  PROVE  /\ g \in Grant
         /\ T1Seconds(g) \in Nat /\ T1Seconds(g) * TicksPerSecond \in Nat
         /\ T2Seconds(g) \in Nat /\ T2Seconds(g) * TicksPerSecond \in Nat
         /\ g.lease \in Nat /\ g.lease * TicksPerSecond \in Nat
<1>1. g \in Grant
  BY GrantsAssumption
<1>2. g.lease \in Nat /\ g.t1 \in Nat /\ g.t2 \in Nat
  BY <1>1 DEF Grant
<1>3. T1Seconds(g) \in Nat
  BY <1>2 DEF T1Seconds
<1>4. (g.lease * 7) % UintMod \in Nat
  BY <1>2, Numbers
<1>5. T2Seconds(g) \in Nat
  BY <1>2, <1>4 DEF T2Seconds
<1> QED
  BY <1>1, <1>2, <1>3, <1>5, Numbers

\* The timeouts a poll may have are natural numbers of ticks.
LEMMA PollTypes ==
  ASSUME NEW next \in Nat, NEW fuzz \in BOOLEAN
  PROVE  Timeouts(next, fuzz) \subseteq Nat
BY Numbers DEF Timeouts

\* A client that has been offered an address knows whom to ask for it.
OfferKnown ==
  mState \in RequestStates \cup {"Bound"} =>
    mServerAddress \in Servers /\ mRequestAddress \in Addresses

TypeInv == TypeOK /\ OfferKnown

LEMMA TypeInit == Init => TypeInv
BY Numbers DEF Init, TypeInv, TypeOK, OfferKnown, States, RequestStates, Xids

\* One evaluation of run's switch preserves the types.
LEMMA TypeEvaluate ==
  ASSUME TypeInv, Evaluate
  PROVE  TypeInv'
<1> USE DEF TypeInv, TypeOK, OfferKnown, States, RequestStates
<1>0. /\ pc = "step"
      /\ UNCHANGED <<ifUp, ifAddr, mT1, mT2, lease, grantor, restarts,
                     mServerAddress, mRequestAddress>>
      /\ EnterWait
  BY DEF Evaluate, KeepInterface
<1>1. ASSUME NEW s \in States, MoveTo(s),
             s \in RequestStates => mState \in RequestStates \cup {"Bound"},
             s # "Bound"
      PROVE  TypeInv'
  BY <1>0, <1>1, Numbers DEF MoveTo, SetNextState, EnterWait
<1>2. ASSUME NEW m \in Discovers \cup Requests, Transmit(m)
      PROVE  TypeInv'
  <2>1. Send(m) /\ mNextTimeout' = IncreasedTimeout
        /\ UNCHANGED <<mState, mFuzzNextTimeout>>
    BY <1>2 DEF Transmit
  <2>2. mNextTimeout' \in Nat
    BY <2>1, Numbers DEF IncreasedTimeout
  <2>3. m \in Messages
    BY DEF Messages
  <2>4. net' \subseteq Messages
    BY <2>1, <2>3, SendNet
  <2>5. sNextTransactionId' \in Xids
    BY <2>1, Numbers DEF Send, Xids
  <2>6. sends' \in 0 .. SendCap
    BY <2>1, Numbers DEF Send
  <2>7. pc' \in {"step", "poll"} /\ poll' \in Nat
    BY <1>0, <2>1, <2>2, PollTypes DEF EnterWait
  <2>8. mLastMsg' \in Discovers \cup Requests
    BY <2>1 DEF Send
  <2> QED
    BY <1>0, <2>1, <2>2, <2>4, <2>5, <2>6, <2>7, <2>8
<1>3. CASE EvalInit
  BY <1>1, <1>3 DEF EvalInit
<1>4. CASE EvalSelecting
  <2>1. DiscoverMsg \in Discovers
    BY Numbers DEF DiscoverMsg, Discovers
  <2> QED
    BY <1>2, <1>4, <2>1 DEF EvalSelecting
<1>5. ASSUME NEW dest \in Servers \cup {Broadcast}, mState \in RequestStates
      PROVE  RequestMsg(dest) \in Requests
  BY <1>5, Numbers DEF RequestMsg, Requests
<1>6. CASE EvalRequesting
  BY <1>1, <1>2, <1>5, <1>6 DEF EvalRequesting
<1>7. CASE EvalBound
  <2>1. CASE mT1 = 0
    BY <1>1, <1>7, <2>1 DEF EvalBound
  <2>2. CASE mT1 # 0
    <3>1. /\ mNextTimeout' = mT1 % UintMod /\ mFuzzNextTimeout' = FALSE
          /\ UNCHANGED <<mState, mLastMsg, sNextTransactionId, net, sends>>
      BY <1>7, <2>2 DEF EvalBound
    <3>2. mNextTimeout' \in Nat
      BY <3>1, Numbers
    <3>3. pc' \in {"step", "poll"} /\ poll' \in Nat
      BY <1>0, <3>1, <3>2, PollTypes DEF EnterWait
    <3> QED
      BY <1>0, <3>1, <3>2, <3>3
  <2> QED
    BY <2>1, <2>2
<1>8. CASE EvalRenewing
  BY <1>1, <1>2, <1>5, <1>8 DEF EvalRenewing
<1>9. CASE EvalRebinding
  BY <1>1, <1>2, <1>5, <1>9 DEF EvalRebinding
<1> QED
  BY <1>3, <1>4, <1>6, <1>7, <1>8, <1>9 DEF Evaluate
\* The steps in ppoll preserve the types.
LEMMA TypeReceive ==
  ASSUME TypeInv, NEW m \in net, Receive(m)
  PROVE  TypeInv'
<1> USE DEF TypeInv, TypeOK, OfferKnown, States, RequestStates
<1>0. m \in Messages
  OBVIOUS
<1>1. Read(m) => net' \subseteq Messages
  BY DEF Read
<1>2. CASE ReceiveOffer(m)
  <2>1. m \in Offers
    BY <1>0, <1>2, MessageTypes DEF ReceiveOffer
  <2>2. m.server \in Servers /\ m.addr \in Addresses
    BY <2>1 DEF Offers
  <2> QED
    BY <1>1, <1>2, <2>2, Numbers DEF ReceiveOffer, SetNextState, LeaveWait
<1>3. ASSUME NEW res, m.type = "ACK", Configure(m, res)
      PROVE  /\ mT1' \in Nat /\ mT2' \in Nat /\ lease' \in Nat
             /\ ifUp' \in BOOLEAN /\ ifAddr' \in Addresses \cup {None}
             /\ m.server \in Servers
  <2>1. m \in Acks
    BY <1>0, <1>3, MessageTypes
  <2>2. m.server \in Servers /\ m.addr \in Addresses /\ m.grant \in Grants
    BY <2>1 DEF Acks
  <2> QED
    BY <1>3, <2>2, TimerTypes DEF Configure
<1>4. CASE ReceiveAck(m)
  BY <1>1, <1>3, <1>4, Numbers DEF ReceiveAck, SetNextState, LeaveWait
<1>5. CASE ReceiveAckFails(m)
  <2>1. /\ mT1' \in Nat /\ mT2' \in Nat /\ lease' \in Nat
        /\ ifUp' \in BOOLEAN /\ ifAddr' \in Addresses \cup {None}
    BY <1>3, <1>5 DEF ReceiveAckFails
  <2> QED
    BY <1>1, <1>5, <2>1 DEF ReceiveAckFails
<1>6. CASE ReceiveNak(m)
  <2>1. ifUp' \in BOOLEAN
    BY <1>6, Zenon DEF ReceiveNak, HaltNetwork
  <2>2. ifAddr' \in Addresses \cup {None}
    BY <1>6, Zenon DEF ReceiveNak, HaltNetwork
  <2> QED
    BY <1>1, <1>6, <2>1, <2>2, Numbers DEF ReceiveNak, HaltNetwork, SetNextState, LeaveWait
<1>7. CASE ReceiveIgnored(m)
  BY <1>1, <1>7 DEF ReceiveIgnored, clientVars
<1> QED
  BY <1>2, <1>4, <1>5, <1>6, <1>7 DEF Receive

\* What a server answers to m, and where it goes.
LEMMA ReplyForm ==
  ASSUME NEW m \in Messages, Reply(m)
  PROVE  \E r \in Messages :
           /\ net' \subseteq net \cup {r}
           /\ r.xid = m.xid /\ r.inc = m.inc
           /\ \/ m.type = "DISCOVER" /\ r.type = "OFFER"
              \/ /\ m.type = "REQUEST" /\ r.type \in {"ACK", "NAK"}
                 /\ r.type = "ACK" => r.addr = m.addr
                 /\ m.server \in {r.server, Broadcast}
<1>0. m.xid \in Xids /\ m.inc \in Nat
  BY MessageTypes
<1>1. CASE m.type = "DISCOVER"
  <2>1. PICK s \in Servers, a \in Addresses :
          Put(net, [type |-> "OFFER", xid |-> m.xid, inc |-> m.inc,
                    addr |-> a, server |-> s])
    BY <1>1 DEF Reply
  <2> DEFINE r == [type |-> "OFFER", xid |-> m.xid, inc |-> m.inc,
                   addr |-> a, server |-> s]
  <2>2. r \in Messages
    BY <1>0 DEF Messages, Offers
  <2>3. net' \subseteq net \cup {r}
    BY <2>1, PutNet
  <2> WITNESS r \in Messages
  <2> QED
    BY <1>1, <2>3
<1>2. CASE m.type = "REQUEST"
  <2>1. m.addr \in Addresses
    BY <1>2, MessageTypes DEF Requests
  <2>2. CASE \E s \in Servers, g \in Grants :
                /\ m.server \in {s, Broadcast}
                /\ Put(net, [type |-> "ACK", xid |-> m.xid, inc |-> m.inc,
                             addr |-> m.addr, server |-> s, grant |-> g])
    <3>1. PICK s \in Servers, g \in Grants :
             /\ m.server \in {s, Broadcast}
             /\ Put(net, [type |-> "ACK", xid |-> m.xid, inc |-> m.inc,
                          addr |-> m.addr, server |-> s, grant |-> g])
      BY <2>2
    <3> DEFINE r == [type |-> "ACK", xid |-> m.xid, inc |-> m.inc,
                     addr |-> m.addr, server |-> s, grant |-> g]
    <3>2. r \in Messages
      BY <1>0, <2>1 DEF Messages, Acks
    <3>3. net' \subseteq net \cup {r}
      BY <3>1, PutNet
    <3> WITNESS r \in Messages
    <3> QED
      BY <1>2, <3>1, <3>3
  <2>3. CASE \E s \in Servers :
                /\ m.server \in {s, Broadcast}
                /\ Put(net, [type |-> "NAK", xid |-> m.xid, inc |-> m.inc,
                             server |-> s])
    <3>1. PICK s \in Servers :
             /\ m.server \in {s, Broadcast}
             /\ Put(net, [type |-> "NAK", xid |-> m.xid, inc |-> m.inc,
                          server |-> s])
      BY <2>3
    <3> DEFINE r == [type |-> "NAK", xid |-> m.xid, inc |-> m.inc,
                     server |-> s]
    <3>2. r \in Messages
      BY <1>0 DEF Messages, Naks
    <3>3. net' \subseteq net \cup {r}
      BY <3>1, PutNet
    <3> WITNESS r \in Messages
    <3> QED
      BY <1>2, <3>1, <3>3
  <2> QED
    BY <1>2, <2>2, <2>3 DEF Reply
<1> QED
  BY <1>1, <1>2 DEF Reply
\* Every step preserves the types.
LEMMA TypeStep == TypeInv /\ [Next]_vars => TypeInv'
<1> SUFFICES ASSUME TypeInv, [Next]_vars
             PROVE  TypeInv'
  OBVIOUS
<1>1. CASE Evaluate
  BY <1>1, TypeEvaluate
<1>2. CASE Timeout
  BY <1>2 DEF Timeout, LeaveWait, clientVars, TypeInv, TypeOK, OfferKnown
<1>3. CASE Tick
  BY <1>3 DEF Tick, Down, TypeInv, TypeOK, OfferKnown
<1>4. CASE Lose
  BY <1>4 DEF Lose, clientVars, TypeInv, TypeOK, OfferKnown
<1>5. CASE Restart
  BY <1>5, Numbers DEF Restart, LeaveWait, TypeInv, TypeOK, OfferKnown,
                       States, RequestStates, Xids
<1>6. ASSUME NEW m \in net, Receive(m)
      PROVE  TypeInv'
  BY <1>6, TypeReceive
<1>7. ASSUME NEW m \in net, ServerReply(m)
      PROVE  TypeInv'
  <2>1. m \in Messages
    BY DEF TypeInv, TypeOK
  <2>2. net' \subseteq Messages
    BY <1>7, <2>1, ReplyForm DEF ServerReply, TypeInv, TypeOK
  <2> QED
    BY <1>7, <2>2 DEF ServerReply, clientVars, TypeInv, TypeOK, OfferKnown
<1>8. CASE UNCHANGED vars
  BY <1>8 DEF vars, clientVars, TypeInv, TypeOK, OfferKnown
<1> QED
  BY <1>1, <1>2, <1>3, <1>4, <1>5, <1>6, <1>7, <1>8 DEF Next

\* Every variable has its type in every reachable state.
THEOREM TypeCorrect == Spec => []TypeOK
<1>1. TypeInv => TypeOK
  BY DEF TypeInv
<1> QED
  BY <1>1, TypeInit, TypeStep, PTL DEF Spec
-----------------------------------------------------------------------------
(* The inductive invariant.                                                *)

\* What the client has sent when it polls, and how long it polls.
PollInv ==
  pc = "poll" =>
    \/ mState = "Selecting" /\ mLastMsg.type = "DISCOVER" /\ sends >= 1
    \/ /\ mState \in RequestStates /\ mLastMsg.type = "REQUEST" /\ sends >= 1
       /\ mLastMsg.addr = mRequestAddress
    \/ mState = "Bound" /\ poll <= mT1

\* T1 of a bound client expires before its lease.
LeaseInv == mState = "Bound" => mT1 < lease

\* m is the client's last message or a server's answer to it.
Answers(m) ==
  \/ m = mLastMsg
  \/ m.type = "OFFER" /\ mLastMsg.type = "DISCOVER"
  \/ /\ m.type \in {"ACK", "NAK"} /\ mLastMsg.type = "REQUEST"
     /\ m.type = "ACK" => m.addr = mLastMsg.addr
     /\ mLastMsg.server \in {m.server, Broadcast}

\* The messages in flight that carry the identifier of the client's last
\* message and stem from this incarnation belong to its transaction.
NetInv ==
  /\ mLastMsg # NoMsg => mLastMsg.inc = restarts
  /\ \A m \in net :
       /\ m.inc <= restarts
       /\ m.inc = restarts => mLastMsg # NoMsg
       /\ m.inc = restarts /\ m.xid = mLastMsg.xid => Answers(m)

\* The part of the invariant that restarts do not disturb.
IInv == TypeInv /\ PollInv /\ LeaseInv /\ NetworkUpWhileLeased /\ NetInv
\* A product with the tick rate keeps the order of its factors.
LEMMA ScaleLess ==
  ASSUME NEW a \in Nat, NEW b \in Nat, NEW k \in Nat, a < b, k > 0
  PROVE  a * k < b * k
BY Z3

\* The remainder of a division is no larger than what is divided.
LEMMA ModLeq ==
  ASSUME NEW a \in Nat, NEW n \in Nat, n > 0
  PROVE  a % n <= a /\ a % n \in Nat
BY Z3

\* T1 expires before the lease it is armed for ends.
LEMMA T1InLease ==
  ASSUME NEW g \in Grants, g.lease # 0
  PROVE  T1Seconds(g) * TicksPerSecond < g.lease * TicksPerSecond
<1>1. g.lease \in Nat /\ g.t1 \in Nat /\ g.t1 < g.lease
  BY GrantsAssumption DEF Grant
<1>2. T1Seconds(g) < g.lease
  BY <1>1 DEF T1Seconds
<1> QED
  BY <1>2, ScaleLess, TimerTypes, Numbers

\* The part of the invariant about the client alone.
ControlInv == PollInv /\ LeaseInv /\ NetworkUpWhileLeased

LEMMA ControlEvaluate ==
  ASSUME TypeInv, ControlInv, Evaluate
  PROVE  ControlInv'
<1> USE DEF ControlInv, RequestStates
<1>0. /\ pc = "step"
      /\ UNCHANGED <<ifUp, ifAddr, mT1, mT2, lease, grantor, restarts,
                     mServerAddress, mRequestAddress>>
      /\ EnterWait
  BY DEF Evaluate, KeepInterface
<1>1. ASSUME NEW s, MoveTo(s), s # "Bound",
             s \in {"Renewing", "Rebinding"} => mState \in {"Bound", "Renewing"}
      PROVE  ControlInv'
  <2>1. mState' = s /\ pc' = "step"
    BY <1>0, <1>1 DEF MoveTo, SetNextState, EnterWait
  <2> QED
    BY <1>0, <1>1, <2>1 DEF PollInv, LeaseInv, NetworkUpWhileLeased
<1>2. ASSUME NEW m, Transmit(m),
             \/ mState = "Selecting" /\ m.type = "DISCOVER"
             \/ /\ mState \in RequestStates
                /\ m.type = "REQUEST" /\ m.addr = mRequestAddress
      PROVE  ControlInv'
  <2>1. mLastMsg' = m /\ mState' = mState
    BY <1>2 DEF Transmit, Send
  <2>2. sends' >= 1
    BY <1>2, Numbers DEF Transmit, Send, TypeInv, TypeOK
  <2> QED
    BY <1>0, <1>2, <2>1, <2>2 DEF PollInv, LeaseInv, NetworkUpWhileLeased
<1>3. CASE EvalInit
  BY <1>1, <1>3 DEF EvalInit
<1>4. CASE EvalSelecting
  BY <1>2, <1>4 DEF EvalSelecting, DiscoverMsg
<1>5. CASE EvalRequesting
  BY <1>1, <1>2, <1>5 DEF EvalRequesting, RequestMsg
<1>6. CASE EvalBound
  <2>1. CASE mT1 = 0
    BY <1>1, <1>6, <2>1 DEF EvalBound
  <2>2. CASE mT1 # 0
    <3>1. /\ mNextTimeout' = mT1 % UintMod /\ mFuzzNextTimeout' = FALSE
          /\ mState = "Bound" /\ mState' = "Bound"
      BY <1>6, <2>2 DEF EvalBound
    <3>2. poll' <= mT1
      <4>1. mT1 \in Nat /\ mT1 % UintMod <= mT1
        BY ModLeq, Numbers DEF TypeInv, TypeOK
      <4> QED
        BY <1>0, <3>1, <4>1 DEF EnterWait, Timeouts
    <3> QED
      BY <1>0, <3>1, <3>2 DEF PollInv, LeaseInv, NetworkUpWhileLeased
  <2> QED
    BY <2>1, <2>2
<1>7. CASE EvalRenewing
  BY <1>1, <1>2, <1>7 DEF EvalRenewing, RequestMsg
<1>8. CASE EvalRebinding
  BY <1>1, <1>2, <1>8 DEF EvalRebinding, RequestMsg
<1> QED
  BY <1>3, <1>4, <1>5, <1>6, <1>7, <1>8 DEF Evaluate

LEMMA ControlReceive ==
  ASSUME TypeInv, ControlInv, NEW m \in net, Receive(m)
  PROVE  ControlInv'
<1> USE DEF ControlInv, RequestStates
<1>1. CASE ReceiveOffer(m)
  BY <1>1 DEF ReceiveOffer, SetNextState, LeaveWait, PollInv, LeaseInv,
              NetworkUpWhileLeased
<1>2. m.type = "ACK" => /\ m.addr \in Addresses /\ m.grant \in Grants
                        /\ m.addr # None
  <2>1. m \in Messages
    BY DEF TypeInv, TypeOK
  <2>2. m.type = "ACK" => m \in Acks
    BY <2>1, MessageTypes
  <2> QED
    BY <2>2, NamesAssumption DEF Acks
<1>3. CASE ReceiveAck(m)
  <2>1. m.type = "ACK" /\ m.grant.lease # 0 /\ Configure(m, "ok")
        /\ mState' = "Bound" /\ pc' = "step"
    BY <1>3 DEF ReceiveAck, SetNextState, LeaveWait
  <2>2. mT1' < lease'
    BY <1>2, <2>1, T1InLease DEF Configure
  <2>3. ifUp' /\ ifAddr' # None
    BY <1>2, <2>1 DEF Configure
  <2> QED
    BY <2>1, <2>2, <2>3 DEF PollInv, LeaseInv, NetworkUpWhileLeased
<1>4. CASE ReceiveAckFails(m)
  <2>1. /\ mState \in RequestStates /\ mState # "Bound"
        /\ UNCHANGED <<mState, mLastMsg, mRequestAddress, pc, sends>>
    BY <1>4 DEF ReceiveAckFails
  <2>2. ifUp => ifUp'
    BY <1>4 DEF ReceiveAckFails, Configure
  <2>3. ifAddr # None => ifAddr' # None
    BY <1>2, <1>4 DEF ReceiveAckFails, Configure
  <2> QED
    BY <2>1, <2>2, <2>3 DEF PollInv, LeaseInv, NetworkUpWhileLeased
<1>5. CASE ReceiveNak(m)
  BY <1>5 DEF ReceiveNak, HaltNetwork, SetNextState, LeaveWait, PollInv, LeaseInv,
              NetworkUpWhileLeased
<1>6. CASE ReceiveIgnored(m)
  BY <1>6 DEF ReceiveIgnored, clientVars, PollInv, LeaseInv,
              NetworkUpWhileLeased
<1> QED
  BY <1>1, <1>3, <1>4, <1>5, <1>6 DEF Receive

LEMMA ControlStep == TypeInv /\ ControlInv /\ [Next]_vars => ControlInv'
<1> SUFFICES ASSUME TypeInv, ControlInv, [Next]_vars
             PROVE  ControlInv'
  OBVIOUS
<1> USE DEF ControlInv, PollInv, LeaseInv, NetworkUpWhileLeased, RequestStates
<1>1. CASE Evaluate
  BY <1>1, ControlEvaluate
<1>2. CASE Timeout
  BY <1>2 DEF Timeout, LeaveWait, clientVars
<1>3. CASE Tick
  <2>1. mT1 \in Nat /\ mT2 \in Nat /\ lease \in Nat /\ poll \in Nat
    BY DEF TypeInv, TypeOK
  <2>2. mState = "Bound" => poll' <= mT1' /\ mT1' < lease'
    BY <1>3, <2>1 DEF Tick, Down
  <2> QED
    BY <1>3, <2>2 DEF Tick
<1>4. CASE Lose
  BY <1>4 DEF Lose, clientVars
<1>5. CASE Restart
  BY <1>5 DEF Restart, LeaveWait
<1>6. ASSUME NEW m \in net, Receive(m)
      PROVE  ControlInv'
  BY <1>6, ControlReceive
<1>7. ASSUME NEW m \in net, ServerReply(m)
      PROVE  ControlInv'
  BY <1>7 DEF ServerReply, clientVars
<1>8. CASE UNCHANGED vars
  BY <1>8 DEF vars, clientVars
<1> QED
  BY <1>1, <1>2, <1>3, <1>4, <1>5, <1>6, <1>7, <1>8 DEF Next
\* A step that neither sends nor adds messages preserves NetInv.
LEMMA NetShrinks ==
  ASSUME NetInv, net' \subseteq net, UNCHANGED <<mLastMsg, restarts>>
  PROVE  NetInv'
BY DEF NetInv, Answers

\* A message the client sends starts a transaction of its own.
LEMMA NetSend ==
  ASSUME TypeInv, NetInv, NEW m \in Discovers \cup Requests, m.inc = restarts,
         Send(m), UNCHANGED restarts
  PROVE  NetInv'
<1>1. mLastMsg' = m /\ m # NoMsg
  BY DEF Send, Discovers, Requests, NoMsg
<1>2. net' \subseteq {n \in net : n.xid # m.xid \/ n.inc # m.inc} \cup {m}
  BY SendNet
<1>3. restarts \in Nat
  BY Numbers DEF TypeInv, TypeOK
<1>4. ASSUME NEW n \in net'
      PROVE  /\ n.inc <= restarts
             /\ n.inc = restarts /\ n.xid = m.xid => n = m
  BY <1>2, <1>3, <1>4 DEF NetInv
<1> QED
  BY <1>1, <1>4 DEF NetInv, Answers

LEMMA NetEvaluate ==
  ASSUME TypeInv, NetInv, Evaluate
  PROVE  NetInv'
<1>0. UNCHANGED restarts
  BY DEF Evaluate, KeepInterface
<1>1. ASSUME NEW s, MoveTo(s)
      PROVE  NetInv'
  BY <1>0, <1>1, NetShrinks DEF MoveTo
<1>2. CASE EvalSelecting
  <2>1. DiscoverMsg \in Discovers /\ DiscoverMsg.inc = restarts
    BY Numbers DEF DiscoverMsg, Discovers, TypeInv, TypeOK
  <2> QED
    BY <1>0, <1>2, <2>1, NetSend DEF EvalSelecting, Transmit
<1>3. ASSUME NEW dest \in Servers \cup {Broadcast}, mState \in RequestStates,
             Transmit(RequestMsg(dest))
      PROVE  NetInv'
  <2>1. RequestMsg(dest) \in Requests /\ RequestMsg(dest).inc = restarts
    BY <1>3, Numbers DEF RequestMsg, Requests, TypeInv, TypeOK, OfferKnown
  <2> QED
    BY <1>0, <1>3, <2>1, NetSend DEF Transmit
<1>4. mState \in RequestStates => mServerAddress \in Servers
  BY DEF TypeInv, OfferKnown
<1>5. CASE EvalInit
  BY <1>1, <1>5 DEF EvalInit
<1>6. CASE EvalRequesting
  BY <1>1, <1>3, <1>4, <1>6 DEF EvalRequesting, RequestStates
<1>7. CASE EvalBound
  BY <1>0, <1>1, <1>7, NetShrinks DEF EvalBound
<1>8. CASE EvalRenewing
  BY <1>1, <1>3, <1>4, <1>8 DEF EvalRenewing, RequestStates
<1>9. CASE EvalRebinding
  BY <1>1, <1>3, <1>9 DEF EvalRebinding, RequestStates
<1> QED
  BY <1>2, <1>5, <1>6, <1>7, <1>8, <1>9 DEF Evaluate

\* A server's answer belongs to the transaction of the message it answers.
LEMMA NetReply ==
  ASSUME TypeInv, NetInv, NEW m \in net, ServerReply(m)
  PROVE  NetInv'
<1>1. m \in Messages /\ Reply(m) /\ UNCHANGED <<mLastMsg, restarts>>
  BY DEF ServerReply, clientVars, TypeInv, TypeOK
<1>2. PICK r \in Messages :
        /\ net' \subseteq net \cup {r}
        /\ r.xid = m.xid /\ r.inc = m.inc
        /\ \/ m.type = "DISCOVER" /\ r.type = "OFFER"
           \/ /\ m.type = "REQUEST" /\ r.type \in {"ACK", "NAK"}
              /\ r.type = "ACK" => r.addr = m.addr
              /\ m.server \in {r.server, Broadcast}
  BY <1>1, ReplyForm
<1>3. ASSUME r.inc = restarts, r.xid = mLastMsg.xid
      PROVE  Answers(r)
  <2>1. Answers(m)
    BY <1>2, <1>3 DEF NetInv
  <2>2. m = mLastMsg
    BY <1>2, <2>1 DEF Answers
  <2> QED
    BY <1>2, <2>2 DEF Answers
<1> QED
  BY <1>1, <1>2, <1>3 DEF NetInv, Answers

LEMMA NetStep == TypeInv /\ NetInv /\ [Next]_vars => NetInv'
<1> SUFFICES ASSUME TypeInv, NetInv, [Next]_vars
             PROVE  NetInv'
  OBVIOUS
<1>1. CASE Evaluate
  BY <1>1, NetEvaluate
<1>2. CASE Timeout
  BY <1>2, NetShrinks DEF Timeout, clientVars
<1>3. CASE Tick
  BY <1>3, NetShrinks DEF Tick
<1>4. CASE Lose
  BY <1>4, NetShrinks DEF Lose, clientVars
<1>5. CASE Restart
  <2>1. /\ mLastMsg' = NoMsg /\ net' = net /\ restarts' = restarts + 1
        /\ restarts \in Nat
    BY <1>5, Numbers DEF Restart, TypeInv, TypeOK
  <2>2. \A m \in net : m.inc \in Nat /\ m.inc <= restarts
    BY MessageTypes DEF TypeInv, TypeOK, NetInv
  <2>3. \A m \in net : m.inc <= restarts + 1 /\ m.inc # restarts + 1
    BY <2>1, <2>2
  <2> QED
    BY <2>1, <2>3 DEF NetInv
<1>6. ASSUME NEW m \in net, Receive(m)
      PROVE  NetInv'
  <2>1. net' \subseteq net
    BY <1>6 DEF Receive, ReceiveOffer, ReceiveAck, ReceiveAckFails, ReceiveNak,
                ReceiveIgnored, Read
  <2>2. UNCHANGED <<mLastMsg, restarts>>
    BY <1>6 DEF Receive, ReceiveOffer, ReceiveAck, ReceiveAckFails, ReceiveNak,
                ReceiveIgnored, clientVars
  <2> QED
    BY <2>1, <2>2, NetShrinks
<1>7. ASSUME NEW m \in net, ServerReply(m)
      PROVE  NetInv'
  BY <1>7, NetReply
<1>8. CASE UNCHANGED vars
  BY <1>8, NetShrinks DEF vars, clientVars
<1> QED
  BY <1>1, <1>2, <1>3, <1>4, <1>5, <1>6, <1>7, <1>8 DEF Next

LEMMA InvInit == Init => IInv
<1> SUFFICES ASSUME Init
             PROVE  IInv
  OBVIOUS
<1>1. TypeInv
  BY TypeInit
<1>2. PollInv /\ LeaseInv /\ NetworkUpWhileLeased
  BY DEF Init, PollInv, LeaseInv, NetworkUpWhileLeased
<1>3. NetInv
  BY DEF Init, NetInv
<1> QED
  BY <1>1, <1>2, <1>3 DEF IInv

LEMMA InvStep == IInv /\ [Next]_vars => IInv'
BY TypeStep, ControlStep, NetStep DEF IInv, ControlInv

-----------------------------------------------------------------------------
(* The theorems.                                                           *)

\* Whenever the client polls, it has sent the message its state waits for
\* since it entered that state (run and waitAndReceive).
THEOREM PollsForOwnSendAlways == Spec => []PollsForOwnSend
<1>1. IInv => PollsForOwnSend
  BY DEF IInv, PollInv, PollsForOwnSend
<1> QED
  BY <1>1, InvInit, InvStep, PTL DEF Spec

\* The interface is up and has an address from the first ACK until the
\* client starts over, whichever step of configureDhcp fails.
THEOREM NetworkUpWhileLeasedAlways == Spec => []NetworkUpWhileLeased
<1>1. IInv => NetworkUpWhileLeased
  BY DEF IInv
<1> QED
  BY <1>1, InvInit, InvStep, PTL DEF Spec

\* A bound client's lease has not ended when it starts to renew it.
THEOREM RenewBeforeLeaseEndsAlways == Spec => []RenewBeforeLeaseEnds
<1>1. IInv => RenewBeforeLeaseEnds
  BY DEF IInv, TypeInv, TypeOK, LeaseInv, RenewBeforeLeaseEnds
<1> QED
  BY <1>1, InvInit, InvStep, PTL DEF Spec

\* Without restarts, an accepted ACK answers the client's last message.
LEMMA AckAnswers ==
  ASSUME MaxRestarts = 0, IInv, NEW m \in net, Accepts(m), m.type = "ACK"
  PROVE  /\ mLastMsg.type = "REQUEST" /\ m.addr = mLastMsg.addr
         /\ mLastMsg.server \in {m.server, Broadcast}
<1>1. m \in Messages /\ mLastMsg \in Discovers \cup Requests \cup {NoMsg}
  BY DEF IInv, TypeInv, TypeOK
<1>2. m.inc = restarts
  BY <1>1, MessageTypes DEF IInv, TypeInv, TypeOK, NetInv
<1>3. m # mLastMsg
  BY <1>1 DEF Discovers, Requests, NoMsg
<1>4. Answers(m)
  BY <1>2 DEF IInv, NetInv, Accepts, IsValidDhcpMessage
<1> QED
  BY <1>3, <1>4 DEF Answers

LEMMA LeaseStep ==
  ASSUME MaxRestarts = 0
  PROVE  IInv /\ LeaseMatchesRequest /\ [Next]_vars => LeaseMatchesRequest'
<1> SUFFICES ASSUME IInv, LeaseMatchesRequest, [Next]_vars
             PROVE  LeaseMatchesRequest'
  OBVIOUS
<1> USE DEF LeaseMatchesRequest
<1>1. CASE Evaluate
  <2>1. UNCHANGED <<ifAddr, grantor, mRequestAddress>>
    BY <1>1 DEF Evaluate, KeepInterface
  <2>2. ASSUME mState' = "Bound"
        PROVE  mState = "Bound" /\ UNCHANGED mLastMsg
    BY <1>1, <2>2 DEF Evaluate, EvalInit, EvalSelecting, EvalRequesting,
        EvalBound, EvalRenewing, EvalRebinding, MoveTo, SetNextState, Transmit
  <2> QED
    BY <2>1, <2>2
<1>2. CASE Timeout
  BY <1>2 DEF Timeout, clientVars
<1>3. CASE Tick
  BY <1>3 DEF Tick
<1>4. CASE Lose
  BY <1>4 DEF Lose, clientVars
<1>5. CASE Restart
  BY <1>5 DEF Restart
<1>6. ASSUME NEW m \in net, Receive(m)
      PROVE  LeaseMatchesRequest'
  <2>1. CASE ReceiveAck(m)
    <3>1. /\ mLastMsg.type = "REQUEST" /\ m.addr = mLastMsg.addr
          /\ mLastMsg.server \in {m.server, Broadcast}
      BY <2>1, AckAnswers DEF ReceiveAck
    <3>2. /\ ifAddr' = m.addr /\ grantor' = m.server
          /\ UNCHANGED <<mLastMsg, mRequestAddress>>
      BY <2>1 DEF ReceiveAck, Configure
    <3>3. mLastMsg.addr = mRequestAddress
      BY <2>1 DEF ReceiveAck, Read, IInv, PollInv, RequestStates
    <3> QED
      BY <3>1, <3>2, <3>3
  <2>2. CASE ReceiveOffer(m) \/ ReceiveNak(m)
    BY <2>2 DEF ReceiveOffer, ReceiveNak, SetNextState
  <2>3. CASE ReceiveAckFails(m)
    BY <2>3 DEF ReceiveAckFails, RequestStates
  <2>4. CASE ReceiveIgnored(m)
    BY <2>4 DEF ReceiveIgnored, clientVars
  <2> QED
    BY <1>6, <2>1, <2>2, <2>3, <2>4 DEF Receive
<1>7. ASSUME NEW m \in net, ServerReply(m)
      PROVE  LeaseMatchesRequest'
  BY <1>7 DEF ServerReply, clientVars
<1>8. CASE UNCHANGED vars
  BY <1>8 DEF vars, clientVars
<1> QED
  BY <1>1, <1>2, <1>3, <1>4, <1>5, <1>6, <1>7, <1>8 DEF Next

\* As long as the client process is not restarted, a bound client uses the
\* address it requested last, granted by the server it asked, whatever the
\* network loses, delays, reorders or duplicates.
THEOREM LeaseMatchesRequestAlways ==
  ASSUME MaxRestarts = 0
  PROVE  Spec => []LeaseMatchesRequest
<1>1. Init => LeaseMatchesRequest
  BY DEF Init, LeaseMatchesRequest
<1> QED
  BY <1>1, LeaseStep, InvInit, InvStep, PTL DEF Spec
\* A product with the tick rate keeps the weak order of its factors too.
LEMMA ScaleLeq ==
  ASSUME NEW a \in Nat, NEW b \in Nat, NEW k \in Nat, a <= b
  PROVE  a * k <= b * k
BY Z3

\* The estimates of T1 and T2 are in order when leaseTime * 7 fits its type.
LEMMA EstimatesInOrder ==
  ASSUME NEW g \in Grants, g.lease * 7 < UintMod
  PROVE  T1Seconds(g) <= T2Seconds(g)
<1>1. /\ g.lease \in Nat /\ g.t1 \in Nat /\ g.t2 \in Nat
      /\ g.t1 = 0 <=> g.t2 = 0
      /\ g.t1 <= g.t2
  BY GrantsAssumption DEF Grant
<1>2. (g.lease * 7) % UintMod = g.lease * 7
  BY <1>1, Numbers
<1>3. g.lease \div 2 <= (g.lease * 7) \div 8
  BY <1>1
<1> QED
  BY <1>1, <1>2, <1>3 DEF T1Seconds, T2Seconds

\* T1 never expires after T2, provided no lease is so long that
\* leaseTime * 7 overflows in configureDhcp.
THEOREM T1BeforeT2Always ==
  ASSUME \A g \in Grants : g.lease * 7 < UintMod
  PROVE  Spec => []T1BeforeT2
<1>1. Init => T1BeforeT2
  BY DEF Init, T1BeforeT2
<1>2. TypeInv /\ T1BeforeT2 /\ [Next]_vars => T1BeforeT2'
  <2> SUFFICES ASSUME TypeInv, T1BeforeT2, [Next]_vars
               PROVE  T1BeforeT2'
    OBVIOUS
  <2>0. mT1 \in Nat /\ mT2 \in Nat /\ net \subseteq Messages
    BY DEF TypeInv, TypeOK
  <2>1. ASSUME NEW m \in net, m.type = "ACK", NEW res, Configure(m, res)
        PROVE  T1BeforeT2'
    <3>1. m.grant \in Grants
      BY <2>0, <2>1, MessageTypes DEF Acks
    <3> QED
      BY <2>1, <3>1, EstimatesInOrder, TimerTypes, ScaleLeq, Numbers
         DEF Configure, T1BeforeT2
  <2>2. ASSUME NEW m \in net, Receive(m)
        PROVE  T1BeforeT2'
    <3>1. CASE ReceiveAck(m)
      BY <2>1, <3>1 DEF ReceiveAck
    <3>2. CASE ReceiveAckFails(m)
      BY <2>1, <3>2 DEF ReceiveAckFails, T1BeforeT2
    <3>3. CASE ReceiveOffer(m) \/ ReceiveNak(m) \/ ReceiveIgnored(m)
      BY <3>3 DEF ReceiveOffer, ReceiveNak, ReceiveIgnored, clientVars,
                  T1BeforeT2
    <3> QED
      BY <2>2, <3>1, <3>2, <3>3 DEF Receive
  <2>3. CASE Tick
    BY <2>0, <2>3 DEF Tick, Down, T1BeforeT2
  <2>4. CASE Restart
    BY <2>4 DEF Restart, T1BeforeT2
  <2>5. CASE Evaluate \/ Timeout \/ Lose \/ (\E m \in net : ServerReply(m))
             \/ UNCHANGED vars
    BY <2>5 DEF Evaluate, KeepInterface, Timeout, Lose, ServerReply,
                clientVars, vars, T1BeforeT2
  <2> QED
    BY <2>2, <2>3, <2>4, <2>5 DEF Next
<1> QED
  BY <1>1, <1>2, TypeInit, TypeStep, PTL DEF Spec

-----------------------------------------------------------------------------
(* How many requests a round sends.                                        *)

\* Doubled is what its recursion says: the timeouts of a round grow.
LEMMA DoubledFacts ==
  /\ Doubled \in [Nat -> Nat] /\ Doubled[0] = kInitialTimeout
  /\ \A k \in Nat : Doubled[k + 1] = 2 * Doubled[k]
<1> DEFINE D == {0}
           B == [x \in Nat |-> kInitialTimeout]
           G == [x \in Nat |-> [v \in Nat |-> 2 * v]]
           next == [x \in Nat |-> IF x = 0 THEN 0 ELSE x - 1]
           rank == [x \in Nat |-> x]
           body(h, x) == IF x = 0 THEN kInitialTimeout ELSE 2 * h[x - 1]
<1>1. IsRecursion(Nat, Nat, D, B, G, next, rank)
  <2>1. B \in [Nat -> Nat] /\ G \in [Nat -> [Nat -> Nat]]
    BY Numbers
  <2>2. next \in [Nat -> Nat] /\ rank \in [Nat -> Nat]
    OBVIOUS
  <2>3. \A x \in Nat : x \notin D => rank[next[x]] < rank[x]
    OBVIOUS
  <2> QED
    BY <2>1, <2>2, <2>3, Zenon DEF IsRecursion
<1>2. PICK g : g \in Solutions(Nat, Nat, D, B, G, next)
  <2> HIDE DEF D, B, G, next, rank
  <2> QED
    BY <1>1, RankedRecursion
<1>3. g \in [Nat -> Nat] /\ \A x \in Nat : g[x] = IF x \in D THEN B[x] ELSE G[x][g[next[x]]]
  BY <1>2 DEF Solutions
<1>4. ASSUME NEW x \in Nat PROVE g[x] = body(g, x)
  <2>1. next[x] \in Nat /\ g[next[x]] \in Nat /\ (x # 0 => next[x] = x - 1)
    BY <1>3
  <2>2. G[x][g[next[x]]] = 2 * g[next[x]] /\ B[x] = kInitialTimeout
    BY <2>1
  <2> HIDE DEF G, B, next
  <2> QED
    BY <1>3, <2>1, <2>2
<1>5. g = [x \in Nat |-> body(g, x)]
  <2> HIDE DEF body
  <2> QED
    BY <1>3, <1>4
<1>6. Doubled = [x \in Nat |-> body(Doubled, x)]
  <2>1. \E h : h = [x \in Nat |-> body(h, x)]
    BY <1>5
  <2> QED
    BY <2>1, Zenon DEF Doubled
<1>7. Doubled[0] = kInitialTimeout
  BY <1>6
<1>8. ASSUME NEW k \in Nat PROVE Doubled[k + 1] = 2 * Doubled[k]
  <2>1. k + 1 \in Nat /\ k + 1 # 0 /\ (k + 1) - 1 = k
    OBVIOUS
  <2>2. Doubled[k + 1] = body(Doubled, k + 1)
    <3> HIDE DEF body
    <3> QED
      BY <1>6, <2>1
  <2> QED
    BY <2>1, <2>2
<1> DEFINE T == {k \in Nat : Doubled[k] \in Nat}
<1>9. 0 \in T
  BY <1>7, Numbers
<1>10. ASSUME NEW k \in T PROVE k + 1 \in T
  BY <1>8
<1>11. T = Nat
  <2>1. T \in SUBSET Nat
    OBVIOUS
  <2> HIDE DEF T
  <2> QED
    BY <1>9, <1>10, <2>1, SetInduction
<1>12. Doubled \in [Nat -> Nat]
  <2>1. \A k \in Nat : Doubled[k] \in Nat
    BY <1>11
  <2>2. Doubled = [x \in Nat |-> Doubled[x]]
    BY <1>6
  <2> QED
    BY <2>1, <2>2
<1> QED
  BY <1>7, <1>8, <1>12

\* So no timeout of a round is below an earlier one.
LEMMA DoubledGrows ==
  ASSUME NEW n \in Nat
  PROVE  \A k \in 0 .. n : Doubled[n - k] <= Doubled[n]
<1> DEFINE T == {k \in 0 .. n : Doubled[n - k] <= Doubled[n]}
<1>1. 0 \in T
  BY DoubledFacts
<1>2. ASSUME NEW k \in 1 .. n, k - 1 \in T PROVE k \in T
  <2> DEFINE a == Doubled[n - k]
             b == Doubled[n - (k - 1)]
             c == Doubled[n]
  <2>1. n - k \in Nat /\ n - (k - 1) = (n - k) + 1 /\ n - (k - 1) \in Nat
    OBVIOUS
  <2>2. a \in Nat /\ b \in Nat /\ c \in Nat /\ b = 2 * a
    BY <2>1, DoubledFacts
  <2>3. b <= c
    BY <1>2
  <2> HIDE DEF a, b, c
  <2>4. a <= c
    BY <2>2, <2>3
  <2> QED
    BY <2>4 DEF a, c
<1> HIDE DEF T
<1>3. \A k \in 0 .. n : k \in T
  BY <1>1, <1>2, BoundedInduction
<1> QED
  BY <1>3 DEF T

\* What a round has sent, and the timeout it has come to.
RoundInv ==
  mState \in {"Requesting", "Rebinding"} =>
    IF sends = 0 THEN mNextTimeout = 0
    ELSE /\ mNextTimeout > 0
         /\ mNextTimeout >= kMaxTimeout \/ mNextTimeout >= Doubled[sends - 1]
         /\ sends >= 2 => Doubled[sends - 2] < kMaxTimeout

\* A request of a round is sent while the timeout is below kMaxTimeout.
LEMMA RoundTransmit ==
  ASSUME TypeInv, RoundInv, mState \in {"Requesting", "Rebinding"}, mNextTimeout < kMaxTimeout,
         NEW m, Transmit(m)
  PROVE  RoundInv'
<1> DEFINE t == mNextTimeout
           u == mNextTimeout'
           n == sends
           d == Doubled[sends - 1]
<1>1. t \in Nat /\ n \in 0 .. SendCap
  BY DEF TypeInv, TypeOK
<1>2. u = IF t = 0 THEN kInitialTimeout ELSE IF 2 * t < kMaxTimeout THEN 2 * t ELSE kMaxTimeout
  BY DEF Transmit, IncreasedTimeout
<1>3. sends' = IF n < SendCap THEN n + 1 ELSE SendCap
  BY DEF Transmit, Send
<1>4. CASE n = 0
  <2>1. sends' = 1 /\ t = 0
    BY <1>3, <1>4, Numbers DEF RoundInv
  <2>2. sends' - 1 = 0 /\ ~ (sends' >= 2) /\ sends' # 0 /\ u = kInitialTimeout
    BY <1>2, <2>1
  <2>3. u > 0 /\ u >= Doubled[sends' - 1]
    BY <2>2, DoubledFacts, Numbers
  <2> QED
    BY <2>2, <2>3 DEF RoundInv
<1>5. CASE n # 0
  <2>1. t > 0 /\ t >= d /\ (n >= 2 => Doubled[n - 2] < kMaxTimeout)
    BY <1>1, <1>5, Numbers DEF RoundInv
  <2>2. n - 1 \in Nat /\ d \in Nat
    BY <1>1, <1>5, DoubledFacts
  <2> HIDE DEF d
  <2>3. d < kMaxTimeout /\ u > 0 /\ u >= t /\ (u >= kMaxTimeout \/ u >= 2 * d)
    BY <1>1, <1>2, <2>1, <2>2, Numbers
  <2>4. CASE n < SendCap
    <3>1. sends' = n + 1 /\ sends' - 1 = (n - 1) + 1 /\ sends' - 2 = n - 1 /\ sends' # 0
      BY <1>1, <1>3, <2>4
    <3>2. Doubled[sends' - 1] = 2 * d /\ Doubled[sends' - 2] = d
      BY <2>2, <3>1, DoubledFacts DEF d
    <3> QED
      BY <2>3, <3>1, <3>2 DEF RoundInv
  <2>5. CASE ~ (n < SendCap)
    <3>1. sends' = n
      BY <1>1, <1>3, <2>5
    <3>2. u >= kMaxTimeout \/ u >= d
      BY <1>1, <1>2, <2>1, <2>2, Numbers
    <3> QED
      BY <1>5, <2>1, <2>3, <3>1, <3>2 DEF RoundInv, d
  <2> QED
    BY <2>4, <2>5
<1> QED
  BY <1>4, <1>5

\* Every step keeps it: a round starts with setNextState, which clears the timeout
\* and the count, and goes on only through a request.
LEMMA RoundNext == TypeInv /\ RoundInv /\ [Next]_vars => RoundInv'
<1> SUFFICES ASSUME TypeInv, RoundInv, [Next]_vars PROVE RoundInv'
  OBVIOUS
<1>1. ASSUME UNCHANGED <<mState, mNextTimeout, sends>> PROVE RoundInv'
  BY <1>1 DEF RoundInv
<1>2. ASSUME NEW s, SetNextState(s) PROVE RoundInv'
  BY <1>2 DEF RoundInv, SetNextState
<1>3. ASSUME mState' \notin {"Requesting", "Rebinding"} PROVE RoundInv'
  BY <1>3 DEF RoundInv
<1>4. CASE Evaluate
  <2>1. CASE EvalRequesting \/ EvalRebinding
    <3>1. CASE mNextTimeout >= kMaxTimeout
      <4>1. SetNextState("Init")
        BY <2>1, <3>1 DEF EvalRequesting, EvalRebinding, MoveTo
      <4> QED
        BY <1>2, <4>1
    <3>2. CASE ~ (mNextTimeout >= kMaxTimeout)
      <4>1. PICK m : Transmit(m)
        BY <2>1, <3>2 DEF EvalRequesting, EvalRebinding
      <4>2. mNextTimeout < kMaxTimeout
        BY <3>2, Numbers DEF TypeInv, TypeOK
      <4>3. mState \in {"Requesting", "Rebinding"}
        BY <2>1 DEF EvalRequesting, EvalRebinding
      <4> QED
        BY <4>1, <4>2, <4>3, RoundTransmit
    <3> QED
      BY <3>1, <3>2
  <2>2. CASE EvalInit \/ EvalSelecting \/ EvalBound \/ EvalRenewing
    <3>1. \/ \E s : SetNextState(s)
          \/ mState' = mState /\ mState \in {"Selecting", "Bound", "Renewing"}
      BY <2>2 DEF EvalInit, EvalSelecting, EvalBound, EvalRenewing, MoveTo, Transmit
    <3> QED
      BY <1>2, <1>3, <3>1
  <2> QED
    BY <1>4, <2>1, <2>2 DEF Evaluate
<1>5. ASSUME NEW m \in net, Receive(m) PROVE RoundInv'
  <2>1. (\E s : SetNextState(s)) \/ UNCHANGED <<mState, mNextTimeout, sends>>
    BY <1>5 DEF Receive, ReceiveOffer, ReceiveAck, ReceiveAckFails, ReceiveNak, ReceiveIgnored,
       clientVars
  <2> QED
    BY <1>1, <1>2, <2>1
<1>6. CASE Restart
  BY <1>3, <1>6 DEF Restart
<1>7. CASE Timeout \/ Tick \/ Lose \/ (\E m \in net : ServerReply(m)) \/ UNCHANGED vars
  <2>1. UNCHANGED <<mState, mNextTimeout, sends>>
    BY <1>7 DEF Timeout, Tick, Lose, ServerReply, vars, clientVars
  <2> QED
    BY <1>1, <2>1
<1> QED
  BY <1>4, <1>5, <1>6, <1>7 DEF Next

\* A round that has sent n requests had timeouts below kMaxTimeout before each but
\* the last, and these are all different doublings.
LEMMA RoundBounded == TypeInv /\ RoundInv => BoundedRequests
<1> SUFFICES ASSUME TypeInv, RoundInv, mState \in {"Requesting", "Rebinding"}
             PROVE  sends <= MaxSends
  BY DEF BoundedRequests
<1> DEFINE S == {k \in 0 .. SendCap : Doubled[k] < kMaxTimeout}
<1>1. IsFiniteSet(S) /\ Cardinality(S) \in Nat
  <2>1. IsFiniteSet(0 .. SendCap) /\ S \in SUBSET (0 .. SendCap)
    BY FS_Interval, Numbers
  <2>2. IsFiniteSet(S)
    BY <2>1, FS_Subset
  <2> QED
    BY <2>2, FS_CardinalityType
<1>2. sends \in 0 .. SendCap
  BY DEF TypeInv, TypeOK
<1>3. CASE sends < 2
  BY <1>1, <1>2, <1>3, Numbers DEF MaxSends
<1>4. CASE sends >= 2
  <2> DEFINE n == sends - 2
             I == 0 .. n
  <2>1. n \in Nat /\ n <= SendCap
    BY <1>2, <1>4, Numbers
  <2>2. Doubled[n] < kMaxTimeout
    BY <1>2, <1>4 DEF RoundInv
  <2> HIDE DEF n
  <2>3. ASSUME NEW k \in I PROVE k \in S
    <3> DEFINE a == Doubled[k]
               b == Doubled[n]
    <3>1. n - k \in 0 .. n /\ n - (n - k) = k /\ k \in 0 .. SendCap
      BY <2>1, Numbers
    <3>2. a <= b /\ b < kMaxTimeout
      BY <2>1, <2>2, <3>1, DoubledGrows
    <3>3. a \in Nat /\ b \in Nat
      BY <2>1, <3>1, DoubledFacts
    <3> HIDE DEF a, b
    <3>4. a < kMaxTimeout
      BY <3>2, <3>3, Numbers
    <3> QED
      BY <3>1, <3>4 DEF a
  <2>4. Cardinality(I) <= Cardinality(S)
    BY <1>1, <2>3, FS_Subset
  <2>5. Cardinality(I) = n + 1
    <3>1. 0 \in Int /\ n \in Int /\ ~ (0 > n) /\ n - 0 + 1 = n + 1
      BY <2>1
    <3> QED
      BY <3>1, FS_Interval
  <2>6. sends = n + 2
    BY <1>2, Numbers DEF n
  <2> HIDE DEF I, S
  <2>7. sends <= Cardinality(S) + 1
    BY <1>1, <2>1, <2>4, <2>5, <2>6
  <2> QED
    BY <2>7 DEF MaxSends, S
<1> QED
  BY <1>2, <1>3, <1>4

\* A round of requests (Requesting or Rebinding) ends after as many as there are
\* doublings of kInitialTimeout below kMaxTimeout, and one more: evaluateRequesting
\* and evaluateRebinding give up once increaseTimeout has reached kMaxTimeout.
THEOREM BoundedRequestsAlways == Spec => []BoundedRequests
<1>1. Init => RoundInv
  BY DEF Init, RoundInv
<1> QED
  BY <1>1, TypeInit, TypeStep, RoundNext, RoundBounded, PTL DEF Spec
=============================================================================
