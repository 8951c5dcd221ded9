---------------------------- MODULE Llmnr_proofs ----------------------------
(***************************************************************************)
(* Proofs about Llmnr, for any resolvers, names, addresses and queries.    *)
(***************************************************************************)
EXTENDS Llmnr, SequenceTheorems, TLAPS

LEMMA TypeInit == Init => TypeOK
<1> USE LlmnrAssumption
<1> QED  BY DEF Init, TypeOK

\* The fields of a datagram taken from the buffer.
LEMMA DatagramFields ==
    ASSUME NEW d \in Datagram
    PROVE  d.from \in Asker /\ d.id \in Nat /\ d.query \in Packet
BY DEF Datagram

LEMMA TransmitType ==
    ASSUME NEW a \in Asker, NEW q \in Packet, NEW id \in Nat,
           rx \in Seq(Datagram), Len(rx) <= RxCap, Transmit(a, q, id)
    PROVE  rx' \in Seq(Datagram) /\ Len(rx') <= RxCap
<1> DEFINE d == [from |-> a, id |-> id, query |-> q]
<1>1. d \in Datagram  BY DEF Datagram
<1> HIDE DEF d
<1>2. CASE Len(rx) < RxCap /\ rx' = Append(rx, d)
  <2>1. rx' \in Seq(Datagram) /\ Len(rx') = Len(rx) + 1
    BY <1>1, <1>2
  <2> QED  BY <1>2, <2>1, LlmnrAssumption
<1>3. CASE rx' = rx
  BY <1>3
<1> QED  BY <1>2, <1>3 DEF Transmit, d

LEMMA TypeNext == TypeOK /\ [Next]_vars => TypeOK'
<1> SUFFICES ASSUME TypeOK, [Next]_vars PROVE TypeOK'
  OBVIOUS
<1> USE LlmnrAssumption DEF TypeOK
<1>1. CASE Recv
  <2>1. Head(rx) \in Datagram /\ Tail(rx) \in Seq(Datagram) /\ Len(Tail(rx)) <= RxCap
    BY <1>1 DEF Recv
  <2> QED  BY <1>1, <2>1 DEF Recv, askers, history
<1>2. CASE GetHostName
  BY <1>2 DEF GetHostName, askers, history
<1>3. CASE FindInterface
  <2>1. ci' \in Addr
    BY <1>3 DEF FindInterface
  <2> QED  BY <1>3, <2>1 DEF FindInterface, askers, history
<1>4. CASE Drop
  BY <1>4 DEF Drop, Return, askers, history
<1>5. CASE Respond
  <2>1. in \in Datagram  BY <1>5 DEF Respond
  <2>2. in.from \in Asker /\ in.id \in Nat /\ in.query \in Packet
    BY <2>1, DatagramFields
  <2>3. PICK qtype \in QTypesRead(in.query), qclass \in QClassesRead(in.query) :
           /\ Authoritative(in.query, qtype, qclass, myname)
           /\ inbox' = [inbox EXCEPT ![in.from] = @ \cup
                 {[id |-> in.id, query |-> in.query,
                   answer |-> AnswerTo(in.from, qtype, ci).answer,
                   rtype |-> AnswerTo(in.from, qtype, ci).rtype]}]
    BY <1>5 DEF Respond
  <2>4. qtype \in {"A", "AAAA"}  BY <2>3 DEF Authoritative
  <2>5. /\ AnswerTo(in.from, qtype, ci).answer \in {NoAddr} \cup Addr
        /\ AnswerTo(in.from, qtype, ci).rtype \in {"none", "A", "AAAA"}
    BY <2>4 DEF AnswerTo
  <2>6. inbox' \in [Asker -> SUBSET Reply]
    BY <2>2, <2>3, <2>5 DEF Reply
  <2> QED  BY <1>5, <2>6 DEF Respond, Return, askers, history
<1>6. CASE Reopen
  BY <1>6 DEF Reopen, responder, askers, history
<1>7. ASSUME NEW a \in Asker, Ask(a) PROVE TypeOK'
  <2>1. PICK q \in Query[a] : /\ asking' = [asking EXCEPT ![a] = q]
                              /\ Transmit(a, q, serial[a] + 1)
    BY <1>7 DEF Ask
  <2>2. q \in Packet  OBVIOUS
  <2>3. serial[a] + 1 \in Nat  OBVIOUS
  <2>4. rx' \in Seq(Datagram) /\ Len(rx') <= RxCap
    BY <2>1, <2>2, <2>3, TransmitType
  <2>5. asking' \in [Asker -> Packet \cup {NoQuery}]  BY <2>1, <2>2
  <2>6. Facing(a, ifaddrs) \subseteq Addr  BY DEF Facing, Range
  <2>7. facing' \in [Asker -> SUBSET SUBSET Addr]  BY <1>7, <2>6 DEF Ask
  <2> QED  BY <1>7, <2>4, <2>5, <2>7 DEF Ask, responder
<1>8. ASSUME NEW a \in Asker, Resend(a) PROVE TypeOK'
  <2>1. asking[a] \in Packet  BY <1>8 DEF Resend
  <2>2. serial[a] \in Nat  OBVIOUS
  <2>3. rx' \in Seq(Datagram) /\ Len(rx') <= RxCap
    BY <1>8, <2>1, <2>2, TransmitType DEF Resend
  <2> QED  BY <1>8, <2>3 DEF Resend, responder, askers, history
<1>9. ASSUME NEW a \in Asker, GiveUp(a) PROVE TypeOK'
  BY <1>9 DEF GiveUp, responder
<1>10. ASSUME NEW a \in Asker, Accept(a) PROVE TypeOK'
  BY <1>10 DEF Accept, responder, history
<1>11. ASSUME NEW a \in Asker, Lose(a) PROVE TypeOK'
  BY <1>11 DEF Lose, responder, askers, history
<1>12. CASE Rename
  BY <1>12 DEF Rename, responder, askers
<1>13. CASE Readdress
  <2>a. ASSUME NEW i \in Addr, ifaddrs' = Append(ifaddrs, i)
        PROVE  ifaddrs' \in Seq(Addr)
    BY <2>a
  <2>b. ASSUME NEW k \in DOMAIN ifaddrs, ifaddrs' = RemoveAt(ifaddrs, k)
        PROVE  ifaddrs' \in Seq(Addr)
    <3>1. k \in 1 .. Len(ifaddrs)  OBVIOUS
    <3>2. SubSeq(ifaddrs, 1, k - 1) \in Seq(Addr)
      BY <3>1, SubSeqProperties
    <3>3. SubSeq(ifaddrs, k + 1, Len(ifaddrs)) \in Seq(Addr)
      BY <3>1, SubSeqProperties
    <3> QED  BY <2>b, <3>2, <3>3 DEF RemoveAt
  <2>1. ifaddrs' \in Seq(Addr)
    BY <1>13, <2>a, <2>b DEF Readdress
  <2>2. \A a \in Asker : Facing(a, ifaddrs') \subseteq Addr
    BY <2>1 DEF Facing, Range
  <2>3. facing' \in [Asker -> SUBSET SUBSET Addr]
    BY <1>13, <2>2 DEF Readdress
  <2> QED  BY <1>13, <2>1, <2>3 DEF Readdress, responder, askers
<1>14. CASE UNCHANGED vars
  BY <1>14 DEF vars, responder, askers, history
<1> QED
  BY <1>1, <1>2, <1>3, <1>4, <1>5, <1>6, <1>7, <1>8, <1>9, <1>10, <1>11, <1>12,
     <1>13, <1>14
  DEF Next, Responder, CallFails, NotConnected, Ignore, Resolvers

\* Every variable keeps its type: the buffer never holds more than it can, and the
\* handler has a datagram in hand wherever it reads one.
THEOREM TypeCorrect == Spec => []TypeOK
BY TypeInit, TypeNext, PTL DEF Spec

-----------------------------------------------------------------------------
(* What a resolver is told.                                                *)

\* d belongs to the query its sender waits for.
Current(d) == d.id = serial[d.from] /\ asking[d.from] # NoQuery

\* The strengthening of AnsweredTruly.  IDs are never ahead of their asker's, so
\* that a new query meets no old reply to it; while an asker waits, what holds now
\* is in its history; what the handler has read for a query that is waited for was
\* true meanwhile; and so is every reply under way.
IdsShape ==
    /\ \A k \in 1 .. Len(rx) : rx[k].id <= serial[rx[k].from]
    /\ pc # "select" => in.id <= serial[in.from]
    /\ \A a \in Asker : \A r \in inbox[a] : r.id <= serial[a]

HistoryShape ==
    \A a \in Asker : asking[a] # NoQuery =>
        /\ hostname \in names[a]
        /\ Facing(a, ifaddrs) \in facing[a]
        /\ heard[a] = NoReply

HandlerShape ==
    /\ pc \in {"connected_if", "check"} /\ Current(in) => myname \in names[in.from]
    /\ pc = "check" =>
          /\ ci # NoAddr /\ SameFamily(in.from, ci)
          /\ Current(in) => \E S \in facing[in.from] : ci \in S

ReplyShape ==
    \A a \in Asker : \A r \in inbox[a] :
        asking[a] # NoQuery /\ r.id = serial[a] => TrueReply(a, r)

IInv == TypeOK /\ IdsShape /\ HistoryShape /\ HandlerShape /\ ReplyShape
               /\ AnsweredTruly

\* A reply stays true while the history of its asker grows.
LEMMA TrueReplyStays ==
    ASSUME NEW a \in Asker, NEW r, TrueReply(a, r),
           names[a] \subseteq names'[a], facing[a] \subseteq facing'[a]
    PROVE  TrueReply(a, r)'
BY DEF TrueReply

LEMMA IInvInit == Init => IInv
<1> SUFFICES ASSUME Init PROVE IInv
  OBVIOUS
<1>1. TypeOK  BY TypeInit
<1>2. IdsShape /\ HistoryShape /\ HandlerShape /\ ReplyShape /\ AnsweredTruly
  BY DEF Init, IdsShape, HistoryShape, HandlerShape, ReplyShape, AnsweredTruly
<1> QED  BY <1>1, <1>2 DEF IInv

\* A step of the responder leaves the askers and the history alone.
LEMMA ResponderKeeps ==
    Responder \/ CallFails \/ Reopen \/ UNCHANGED vars =>
        UNCHANGED << hostname, ifaddrs, askers, history >>
BY DEF Responder, CallFails, Reopen, Recv, GetHostName, FindInterface, NotConnected,
       Respond, Ignore, Drop, vars

\* The reply that Respond sends to an asker that waits for it is true.
LEMMA RespondIsTrue ==
    ASSUME IInv, NEW qtype \in QTypesRead(in.query), NEW qclass \in QClassesRead(in.query),
           pc = "check", StandardQuery(in.query), Current(in),
           Authoritative(in.query, qtype, qclass, myname),
           NEW r, r = [id |-> in.id, query |-> in.query,
                       answer |-> AnswerTo(in.from, qtype, ci).answer,
                       rtype |-> AnswerTo(in.from, qtype, ci).rtype]
    PROVE  TrueReply(in.from, r)
<1> SUFFICES ASSUME in.query.complete
             PROVE  /\ \E n \in names[in.from] : Regular(in.query, n)
                    /\ IF r.answer = NoAddr
                       THEN in.query.qtype = IF in.from \in V6 THEN "A" ELSE "AAAA"
                       ELSE /\ r.rtype = in.query.qtype
                            /\ r.rtype = IF r.answer \in V6 THEN "AAAA" ELSE "A"
                            /\ \E S \in facing[in.from] : r.answer \in S
  BY DEF TrueReply
<1>0. in \in Datagram /\ in.query \in Packet
  BY DatagramFields DEF IInv, TypeOK
<1>1. qtype = in.query.qtype /\ qclass = in.query.qclass
  BY DEF QTypesRead, QClassesRead
<1>2. Regular(in.query, myname)
  <2>1. in.query.bits \subseteq {"T"}
    BY <1>0 DEF StandardQuery, Packet, Bit
  <2> QED  BY <1>1, <2>1 DEF StandardQuery, Authoritative, Regular, SameName
<1>3. myname \in names[in.from]
  BY DEF IInv, HandlerShape
<1>4. qtype \in {"A", "AAAA"}
  BY DEF Authoritative
<1>5. ci # NoAddr /\ SameFamily(in.from, ci) /\ \E S \in facing[in.from] : ci \in S
  BY DEF IInv, HandlerShape
<1> QED  BY <1>1, <1>2, <1>3, <1>4, <1>5 DEF AnswerTo, SameFamily

\* What a query put on the network adds to the buffer.
LEMMA TransmitRx ==
    ASSUME TypeOK, NEW a, NEW q, NEW id, Transmit(a, q, id), NEW k \in 1 .. Len(rx')
    PROVE  (k \in 1 .. Len(rx) /\ rx'[k] = rx[k]) \/ (rx'[k].from = a /\ rx'[k].id = id)
BY DEF Transmit, TypeOK

\* A step of a resolver keeps the invariant: a new query has an ID no reply has.
LEMMA ResolverKeeps ==
    ASSUME IInv, NEW a \in Asker,
           Ask(a) \/ Resend(a) \/ GiveUp(a) \/ Accept(a) \/ Lose(a)
    PROVE  IInv'
<1> USE LlmnrAssumption
<1>0. TypeOK /\ TypeOK'
  BY TypeNext DEF IInv, Next, Resolvers
<1>r. pc # "select" => in.from \in Asker /\ in.id \in Int
  BY <1>0, DatagramFields DEF TypeOK
<1>x. \A k \in 1 .. Len(rx) : rx[k].from \in Asker /\ rx[k].id \in Int
  <2> SUFFICES ASSUME NEW k \in 1 .. Len(rx)
               PROVE  rx[k].from \in Asker /\ rx[k].id \in Int
    OBVIOUS
  <2>1. rx[k] \in Datagram  BY <1>0 DEF TypeOK
  <2> QED  BY <2>1, DatagramFields
<1>i. \A b \in Asker : serial[b] \in Int /\ \A r \in inbox[b] : r.id \in Int
  BY <1>0 DEF TypeOK, Reply
<1>1. CASE Ask(a)
  <2>1. PICK q \in Query[a] : /\ asking' = [asking EXCEPT ![a] = q]
                              /\ Transmit(a, q, serial[a] + 1)
    BY <1>1 DEF Ask
  <2>2. /\ serial'[a] = serial[a] + 1
        /\ \A b \in Asker : serial[b] <= serial'[b]
        /\ \A b \in Asker \ {a} : /\ serial'[b] = serial[b] /\ asking'[b] = asking[b]
                                  /\ heard'[b] = heard[b] /\ names'[b] = names[b]
                                  /\ facing'[b] = facing[b]
        /\ heard'[a] = NoReply /\ names'[a] = {hostname}
        /\ facing'[a] = {Facing(a, ifaddrs)}
        /\ UNCHANGED << hostname, ifaddrs, responder, inbox >>
    BY <1>0, <1>1, <1>i, <2>1 DEF Ask, TypeOK
  <2>3. IdsShape'
    <3>1. \A k \in 1 .. Len(rx') : rx'[k].id <= serial'[rx'[k].from]
      <4> SUFFICES ASSUME NEW k \in 1 .. Len(rx')
                   PROVE  rx'[k].id <= serial'[rx'[k].from]
        OBVIOUS
      <4>1. CASE k \in 1 .. Len(rx) /\ rx'[k] = rx[k]
        <5>1. rx[k].from \in Asker /\ rx[k].id \in Int /\ rx[k].id <= serial[rx[k].from]
          BY <1>x, <4>1 DEF IInv, IdsShape
        <5>2. serial[rx[k].from] \in Int /\ serial'[rx[k].from] \in Int
          BY <1>0, <5>1 DEF TypeOK
        <5> QED  BY <2>2, <4>1, <5>1, <5>2
      <4>2. CASE rx'[k].from = a /\ rx'[k].id = serial[a] + 1
        BY <1>i, <2>2, <4>2
      <4> QED  BY <1>0, <2>1, <4>1, <4>2, TransmitRx
    <3>2. pc' # "select" => in'.id <= serial'[in'.from]
      <4> SUFFICES ASSUME pc # "select" PROVE in.id <= serial'[in.from]
        BY <2>2 DEF responder
      <4>1. in.id <= serial[in.from] /\ serial[in.from] <= serial'[in.from]
        BY <1>r, <2>2 DEF IInv, IdsShape
      <4>2. serial[in.from] \in Int /\ serial'[in.from] \in Int
        BY <1>0, <1>r DEF TypeOK
      <4> QED  BY <1>r, <4>1, <4>2
    <3>3. \A b \in Asker : \A r \in inbox'[b] : r.id <= serial'[b]
      <4> SUFFICES ASSUME NEW b \in Asker, NEW r \in inbox[b] PROVE r.id <= serial'[b]
        BY <2>2
      <4>1. r.id <= serial[b] /\ serial[b] <= serial'[b]
        BY <2>2 DEF IInv, IdsShape
      <4>2. serial'[b] \in Int
        BY <1>0 DEF TypeOK
      <4> QED  BY <1>i, <4>1, <4>2
    <3> QED  BY <3>1, <3>2, <3>3 DEF IdsShape
  <2>4. HistoryShape'
    <3>1. ifaddrs' = ifaddrs /\ hostname' = hostname /\ \A b : Facing(b, ifaddrs)' = Facing(b, ifaddrs)
      BY <2>2 DEF Facing
    <3> QED  BY <2>2, <3>1 DEF IInv, HistoryShape
  <2>5. HandlerShape'
    <3>1. pc # "select" /\ in.from = a => in.id # serial'[a]
      BY <1>r, <1>i, <2>2 DEF IInv, IdsShape
    <3>2. pc # "select" /\ Current(in)' => in.from # a /\ Current(in)
      BY <1>r, <2>2, <3>1 DEF Current, responder
    <3> QED  BY <1>r, <2>2, <3>2 DEF IInv, HandlerShape, responder
  <2>6. ReplyShape'
    <3>1. \A r \in inbox[a] : r.id # serial'[a]
      BY <1>i, <2>2 DEF IInv, IdsShape
    <3> QED  BY <2>2, <3>1 DEF IInv, ReplyShape, TrueReply
  <2>7. AnsweredTruly'
    BY <2>2 DEF IInv, AnsweredTruly, TrueReply
  <2> QED  BY <1>0, <2>3, <2>4, <2>5, <2>6, <2>7 DEF IInv
<1>2. CASE Resend(a)
  <2>1. Transmit(a, asking[a], serial[a])
    BY <1>2 DEF Resend
  <2>2. UNCHANGED << hostname, ifaddrs, responder, askers, inbox, history >>
    BY <1>2 DEF Resend
  <2>3. \A k \in 1 .. Len(rx') : rx'[k].id <= serial[rx'[k].from]
    <3> SUFFICES ASSUME NEW k \in 1 .. Len(rx') PROVE rx'[k].id <= serial[rx'[k].from]
      OBVIOUS
    <3>1. CASE k \in 1 .. Len(rx) /\ rx'[k] = rx[k]
      BY <3>1 DEF IInv, IdsShape
    <3>2. CASE rx'[k].from = a /\ rx'[k].id = serial[a]
      BY <1>i, <3>2
    <3> QED  BY <1>0, <2>1, <3>1, <3>2, TransmitRx
  <2>4. IdsShape'
    BY <2>2, <2>3 DEF IInv, IdsShape, responder, askers
  <2>5. HistoryShape' /\ HandlerShape' /\ ReplyShape' /\ AnsweredTruly'
    BY <2>2 DEF IInv, HistoryShape, HandlerShape, ReplyShape, AnsweredTruly, TrueReply,
                Current, Facing, responder, askers, history
  <2> QED  BY <1>0, <2>4, <2>5 DEF IInv
<1>3. CASE GiveUp(a)
  <2>1. /\ asking'[a] = NoQuery
        /\ \A b \in Asker \ {a} : /\ asking'[b] = asking[b] /\ names'[b] = names[b]
                                  /\ facing'[b] = facing[b]
        /\ UNCHANGED << hostname, ifaddrs, rx, responder, serial, heard, inbox >>
    BY <1>0, <1>3 DEF GiveUp, TypeOK
  <2>2. heard[a] = NoReply
    BY <1>3 DEF GiveUp, IInv, HistoryShape
  <2>3. IdsShape'
    BY <2>1 DEF IInv, IdsShape, responder
  <2>4. HistoryShape'
    BY <2>1 DEF IInv, HistoryShape, Facing
  <2>5. HandlerShape'
    BY <1>r, <2>1 DEF IInv, HandlerShape, Current, responder
  <2>6. ReplyShape' /\ AnsweredTruly'
    BY <2>1, <2>2 DEF IInv, ReplyShape, AnsweredTruly, TrueReply
  <2> QED  BY <1>0, <2>3, <2>4, <2>5, <2>6 DEF IInv
<1>4. CASE Accept(a)
  <2>1. PICK r \in inbox[a] :
           /\ asking[a] # NoQuery /\ r.id = serial[a]
           /\ heard' = [heard EXCEPT ![a] = r]
           /\ asking' = [asking EXCEPT ![a] = NoQuery]
           /\ inbox' = [inbox EXCEPT ![a] = @ \ {r}]
           /\ UNCHANGED << hostname, ifaddrs, rx, responder, serial, history >>
    BY <1>4 DEF Accept
  <2>2. TrueReply(a, r)
    BY <2>1 DEF IInv, ReplyShape
  <2>3. /\ asking'[a] = NoQuery /\ heard'[a] = r
        /\ \A b \in Asker \ {a} : asking'[b] = asking[b] /\ heard'[b] = heard[b]
        /\ \A b \in Asker : inbox'[b] \subseteq inbox[b]
    BY <1>0, <2>1 DEF TypeOK
  <2>4. IdsShape'
    BY <2>1, <2>3 DEF IInv, IdsShape, responder
  <2>5. HistoryShape'
    BY <2>1, <2>3 DEF IInv, HistoryShape, Facing, history
  <2>6. HandlerShape'
    BY <1>r, <2>1, <2>3 DEF IInv, HandlerShape, Current, responder, history
  <2>7. ReplyShape' /\ AnsweredTruly'
    BY <2>1, <2>2, <2>3 DEF IInv, ReplyShape, AnsweredTruly, TrueReply, history
  <2> QED  BY <1>0, <2>4, <2>5, <2>6, <2>7 DEF IInv
<1>5. CASE Lose(a)
  <2>1. /\ \A b \in Asker : inbox'[b] \subseteq inbox[b]
        /\ UNCHANGED << hostname, ifaddrs, rx, responder, askers, history >>
    BY <1>0, <1>5 DEF Lose, TypeOK
  <2>2. IdsShape' /\ HistoryShape' /\ HandlerShape'
    BY <2>1 DEF IInv, IdsShape, HistoryShape, HandlerShape, Current, Facing,
                responder, askers, history
  <2>3. ReplyShape' /\ AnsweredTruly'
    BY <2>1 DEF IInv, ReplyShape, AnsweredTruly, TrueReply, askers, history
  <2> QED  BY <1>0, <2>2, <2>3 DEF IInv
<1> QED  BY <1>1, <1>2, <1>3, <1>4, <1>5

LEMMA IInvNext == IInv /\ [Next]_vars => IInv'
<1> SUFFICES ASSUME IInv, [Next]_vars PROVE IInv'
  OBVIOUS
<1> USE LlmnrAssumption
<1>0. TypeOK /\ TypeOK'
  BY TypeNext DEF IInv
\* What the history gives to AnsweredTruly and ReplyShape in a step that sends no
\* reply and begins no query.
<1>a. ASSUME UNCHANGED << hostname, ifaddrs, askers, history >>,
             \A b \in Asker : inbox'[b] \subseteq inbox[b]
      PROVE  /\ HistoryShape' /\ ReplyShape' /\ AnsweredTruly'
             /\ \A b \in Asker : \A r \in inbox'[b] : r.id <= serial'[b]
  BY <1>a DEF IInv, HistoryShape, ReplyShape, AnsweredTruly, TrueReply, IdsShape,
              askers, history
<1>1. CASE Recv
  <2>1. rx[1] \in Datagram /\ Head(rx) = rx[1] /\ in' = rx[1]
    BY <1>0, <1>1 DEF Recv, TypeOK
  <2>2. Len(rx') = Len(rx) - 1 /\ \A k \in 1 .. Len(rx') : rx'[k] = rx[k + 1]
    BY <1>0, <1>1 DEF Recv, TypeOK
  <2>3. IdsShape'
    BY <1>0, <1>1, <2>1, <2>2 DEF Recv, IInv, IdsShape, TypeOK, askers
  <2>4. HandlerShape'
    BY <1>1 DEF Recv, HandlerShape
  <2> QED  BY <1>0, <1>1, <1>a, <2>3, <2>4 DEF Recv, IInv
<1>2. CASE GetHostName
  <2>1. IdsShape'
    BY <1>2 DEF GetHostName, IInv, IdsShape, askers
  <2>2. HandlerShape'
    BY <1>0, <1>2, DatagramFields
    DEF GetHostName, IInv, HandlerShape, HistoryShape, Current, TypeOK, askers, history
  <2> QED  BY <1>0, <1>2, <1>a, <2>1, <2>2 DEF GetHostName, IInv
<1>3. CASE FindInterface
  <2>1. IdsShape'
    BY <1>3 DEF FindInterface, IInv, IdsShape, askers
  <2>2. in.from \in Asker
    BY <1>0, <1>3, DatagramFields DEF FindInterface, TypeOK
  <2>3. PICK k \in DOMAIN ifaddrs : Connects(in.from, ifaddrs[k]) /\ ci' = ifaddrs[k]
    BY <1>3 DEF FindInterface
  <2>4. ci' \in Facing(in.from, ifaddrs)
    BY <2>3 DEF Facing, Range
  <2>5. ci' # NoAddr /\ SameFamily(in.from, ci')
    BY <1>0, <2>3 DEF Connects, TypeOK
  <2>6. HandlerShape'
    BY <1>3, <2>2, <2>4, <2>5
    DEF FindInterface, IInv, HandlerShape, HistoryShape, Current, askers, history
  <2> QED  BY <1>0, <1>3, <1>a, <2>1, <2>6 DEF FindInterface, IInv
<1>4. CASE Drop
  <2>1. IdsShape' /\ HandlerShape'
    BY <1>4 DEF Drop, Return, IInv, IdsShape, HandlerShape, askers
  <2> QED  BY <1>0, <1>4, <1>a, <2>1 DEF Drop, IInv
<1>5. CASE Respond
  <2>1. in \in Datagram /\ in.from \in Asker
    BY <1>0, <1>5, DatagramFields DEF Respond, TypeOK
  <2>2. PICK qtype \in QTypesRead(in.query), qclass \in QClassesRead(in.query) :
           /\ Authoritative(in.query, qtype, qclass, myname)
           /\ inbox' = [inbox EXCEPT ![in.from] = @ \cup
                 {[id |-> in.id, query |-> in.query,
                   answer |-> AnswerTo(in.from, qtype, ci).answer,
                   rtype |-> AnswerTo(in.from, qtype, ci).rtype]}]
    BY <1>5 DEF Respond
  <2> DEFINE s == [id |-> in.id, query |-> in.query,
                   answer |-> AnswerTo(in.from, qtype, ci).answer,
                   rtype |-> AnswerTo(in.from, qtype, ci).rtype]
  <2>3. \A b \in Asker : \A r \in inbox'[b] : r \in inbox[b] \/ (b = in.from /\ r = s)
    BY <1>0, <2>1, <2>2 DEF TypeOK
  <2>4. s.id = in.id
    OBVIOUS
  <2>5. Current(in) => TrueReply(in.from, s)
    BY <1>5, <2>2, RespondIsTrue DEF Respond
  <2> HIDE DEF s
  <2>6. UNCHANGED << hostname, ifaddrs, askers, history, rx >> /\ pc' = "select"
    BY <1>5 DEF Respond, Return
  <2>7. in.id <= serial[in.from]
    BY <1>5 DEF Respond, IInv, IdsShape
  <2>8. IdsShape' /\ HandlerShape'
    BY <2>3, <2>4, <2>6, <2>7 DEF IInv, IdsShape, HandlerShape, askers
  <2>9. ReplyShape'
    BY <2>3, <2>4, <2>5, <2>6
    DEF IInv, ReplyShape, TrueReply, Current, askers, history
  <2>10. HistoryShape' /\ AnsweredTruly'
    BY <2>6 DEF IInv, HistoryShape, AnsweredTruly, TrueReply, askers, history
  <2> QED  BY <1>0, <2>8, <2>9, <2>10 DEF IInv
<1>6. CASE Reopen
  <2>1. IdsShape' /\ HandlerShape'
    BY <1>6 DEF Reopen, IInv, IdsShape, HandlerShape, Current, responder, askers, history
  <2> QED  BY <1>0, <1>6, <1>a, <2>1 DEF Reopen, IInv
<1>12. CASE Rename
  <2>1. IdsShape'
    BY <1>12 DEF Rename, IInv, IdsShape, responder, askers
  <2>2. /\ UNCHANGED << ifaddrs, rx, responder, askers, inbox, facing >>
        /\ \A b \in Asker : names[b] \subseteq names'[b]
        /\ \A b \in Asker : asking[b] # NoQuery => hostname' \in names'[b]
    BY <1>12 DEF Rename
  <2>3. HistoryShape'
    BY <2>2 DEF IInv, HistoryShape, askers
  <2>4. HandlerShape'
    BY <1>0, <2>2, DatagramFields
    DEF IInv, HandlerShape, Current, TypeOK, responder, askers
  <2>5. ReplyShape' /\ AnsweredTruly'
    <3>1. \A b \in Asker : \A r : TrueReply(b, r) => TrueReply(b, r)'
      BY <2>2, TrueReplyStays
    <3> QED  BY <2>2, <3>1 DEF IInv, ReplyShape, AnsweredTruly, askers
  <2> QED  BY <1>0, <2>1, <2>3, <2>4, <2>5 DEF IInv
<1>13. CASE Readdress
  <2>1. IdsShape'
    BY <1>13 DEF Readdress, IInv, IdsShape, responder, askers
  <2>2. /\ UNCHANGED << hostname, rx, responder, askers, inbox, names >>
        /\ \A b \in Asker : facing[b] \subseteq facing'[b]
        /\ \A b \in Asker : asking[b] # NoQuery => Facing(b, ifaddrs') \in facing'[b]
    BY <1>13 DEF Readdress
  <2>3. HistoryShape'
    BY <2>2 DEF IInv, HistoryShape, Facing, askers
  <2>4. HandlerShape'
    BY <1>0, <2>2, DatagramFields
    DEF IInv, HandlerShape, Current, TypeOK, responder, askers
  <2>5. ReplyShape' /\ AnsweredTruly'
    <3>1. \A b \in Asker : \A r : TrueReply(b, r) => TrueReply(b, r)'
      BY <2>2, TrueReplyStays
    <3> QED  BY <2>2, <3>1 DEF IInv, ReplyShape, AnsweredTruly, askers
  <2> QED  BY <1>0, <2>1, <2>3, <2>4, <2>5 DEF IInv
<1>14. CASE UNCHANGED vars
  BY <1>0, <1>14
  DEF vars, IInv, IdsShape, HistoryShape, HandlerShape, ReplyShape, AnsweredTruly,
      TrueReply, Current, Facing, responder, askers, history
<1>15. ASSUME NEW a \in Asker, Ask(a) \/ Resend(a) \/ GiveUp(a) \/ Accept(a) \/ Lose(a)
       PROVE  IInv'
  BY <1>15, ResolverKeeps
<1> QED
  BY <1>1, <1>2, <1>3, <1>4, <1>5, <1>6, <1>12, <1>13, <1>14, <1>15
  DEF Next, Responder, CallFails, NotConnected, Ignore, Resolvers

\* AnsweredTruly: whatever a resolver has accepted was true while it was asking,
\* although name and address are read by two calls and may be old by the time the
\* reply arrives.
THEOREM ResolversHearTheTruth == Spec => []AnsweredTruly
<1>1. IInv => AnsweredTruly  BY DEF IInv
<1> QED  BY IInvInit, IInvNext, <1>1, PTL DEF Spec

\* A name for which the query at hand is regular is one the responder has authority
\* for, however the question is read.
LEMMA RegularIsAuthoritative ==
    ASSUME in.query \in Packet, Regular(in.query, myname)
    PROVE  /\ StandardQuery(in.query)
           /\ \A qtype \in QTypesRead(in.query), qclass \in QClassesRead(in.query) :
                 Authoritative(in.query, qtype, qclass, myname)
<1>1. in.query.bits \cap {"QR", "OPCODE", "C", "TC"} = {}
  BY DEF Regular
<1>2. SameName(myname, in_name(in.query))
  BY DEF Regular, SameName
<1> QED
  BY <1>1, <1>2 DEF Regular, StandardQuery, Authoritative, QTypesRead, QClassesRead

\* RegularIsServed: only a failing call, a rename or an interface that comes or goes
\* keeps a regular query for the host's name from its reply.
THEOREM ResponderServesRegular == Spec => RegularIsServed
<1> DEFINE Excused == \/ in.id # serial[in.from] \/ asking[in.from] = NoQuery
                      \/ \E n \in names[in.from] : ~Regular(in.query, n)
                      \/ {} \in facing[in.from]
<1>1. IInv /\ [Next]_vars => [NotConnected \/ Ignore => Excused]_vars
  <2> SUFFICES ASSUME IInv, NotConnected \/ Ignore, Current(in) PROVE Excused
    BY DEF Current
  <2>0. in \in Datagram /\ in.from \in Asker /\ in.query \in Packet
    BY DatagramFields DEF IInv, TypeOK, NotConnected, Ignore, Drop, StandardQuery
  <2>1. CASE NotConnected
    <3>1. Facing(in.from, ifaddrs) = {}
      BY <2>1 DEF NotConnected, Facing, Range
    <3> QED  BY <2>0, <3>1 DEF IInv, HistoryShape, Current
  <2>2. CASE Ignore
    <3>1. myname \in names[in.from]
      BY <2>2 DEF Ignore, IInv, HandlerShape
    <3>2. ~Regular(in.query, myname)
      BY <2>0, <2>2, RegularIsAuthoritative DEF Ignore
    <3> QED  BY <3>1, <3>2
  <2> QED  BY <2>1, <2>2
<1> QED  BY IInvInit, IInvNext, <1>1, PTL DEF Spec, RegularIsServed

=============================================================================
