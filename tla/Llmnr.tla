------------------------------- MODULE Llmnr -------------------------------
(***************************************************************************)
(* The LLMNR responder of wsdd2 (src/wsdd2/llmnr.c) on one multicast       *)
(* endpoint: it takes a query from its socket, reads the host's name and   *)
(* the interface addresses as they are at that moment, checks the query    *)
(* and sends a reply to whoever asked, or nothing.  Around it are the      *)
(* resolvers, which repeat a query, give up and ask again, a network that  *)
(* loses queries and replies, and a kernel that changes the host's name    *)
(* and addresses between any two steps of the responder.                   *)
(*                                                                         *)
(* A name is a sequence of words, the parts between its dots; a label of a *)
(* query is a sequence of words as well, because nothing keeps a dot out   *)
(* of a label.  Octets that the checks do not look at are left out.        *)
(***************************************************************************)
EXTENDS Integers, Sequences, SequencesExt

CONSTANTS
    Asker,      \* the resolvers, each with the source address it asks from
    Addr,       \* addresses the host's interfaces may have
    V6,         \* the askers and addresses of family AF_INET6
    OnSubnet,   \* OnSubnet[i] : the askers that address i's netmask covers
    HostName,   \* names the host may have
    Lower,      \* Lower[w] : the word w in lower case
    Query,      \* Query[a] : the queries that a may ask
    RxCap,      \* datagrams that the socket's receive buffer holds
    MaxAsks,    \* bound: MaxAsks[a] queries of asker a
    NoAddr, NoQuery, NoReply   \* no such value

Pointer == << "0xC0" >>      \* a label that is a compression pointer
Bit     == {"QR", "OPCODE", "C", "TC", "T"}
QType   == {"A", "AAAA", "other"}
QClass  == {"IN", "other"}
Word    == DOMAIN Lower

\* What a query says.  "complete" is FALSE for a packet that ends before the
\* type and class of its question; "short" for one of less than 13 octets.
Packet == [short : BOOLEAN, bits : SUBSET Bit,
           qdcount : Nat, ancount : Nat, nscount : Nat, arcount : Nat,
           labels : Seq(Seq(Word) \cup {Pointer}),
           complete : BOOLEAN, qtype : QType, qclass : QClass]

Datagram == [from : Asker, id : Nat, query : Packet]
Reply    == [id : Nat, query : Packet,
             answer : {NoAddr} \cup Addr, rtype : {"none", "A", "AAAA"}]

ASSUME LlmnrAssumption ==
    /\ V6 \subseteq Asker \cup Addr
    /\ NoAddr \notin Addr /\ NoReply \notin Reply
    /\ OnSubnet \in [Addr -> SUBSET Asker]
    /\ Lower \in [Word -> Word]
    /\ HostName \subseteq Seq(Word)
    /\ \A a \in Asker : Query[a] \subseteq Packet
    /\ NoQuery \notin Packet \cup Datagram
    /\ RxCap \in Nat \ {0} /\ MaxAsks \in [Asker -> Nat]

SameFamily(x, y) == x \in V6 <=> y \in V6

\* The interface addresses on which connected_if() stops: of the asker's family,
\* with a netmask that covers the asker.
Connects(a, i) == SameFamily(a, i) /\ a \in OnSubnet[i]

\* The addresses of the list ifs that face a.
Facing(a, ifs) == {i \in Range(ifs) : Connects(a, i)}

VARIABLES
    hostname,   \* what gethostname() returns
    ifaddrs,    \* what getifaddrs() returns, in its order
    rx,         \* queries in the socket's receive buffer
    pc,         \* where the responder is
    in,         \* the query it is at
    myname,     \* the copy of the host's name it compares with
    ci,         \* the address connected_if() has found
    asking,     \* asking[a] : the query a waits for, or NoQuery
    serial,     \* serial[a] : the ID of a's latest query
    inbox,      \* inbox[a] : replies under way to a
    heard,      \* heard[a] : the reply a has accepted for its latest query
    names,      \* history: names the host had while a was asking
    facing      \* history: sets of addresses that faced a while it was asking

responder == << pc, in, myname, ci >>
askers    == << asking, serial, heard >>
history   == << names, facing >>
vars      == << hostname, ifaddrs, rx, responder, askers, inbox, history >>

TypeOK ==
    /\ hostname \in HostName
    /\ ifaddrs \in Seq(Addr)
    /\ rx \in Seq(Datagram) /\ Len(rx) <= RxCap
    /\ pc \in {"select", "gethostname", "connected_if", "check"}
    /\ in \in Datagram \cup {NoQuery}
    /\ pc # "select" => in \in Datagram
    /\ myname \in HostName \cup {<< >>}
    /\ ci \in Addr \cup {NoAddr}
    /\ asking \in [Asker -> Packet \cup {NoQuery}]
    /\ serial \in [Asker -> Nat]
    /\ inbox \in [Asker -> SUBSET Reply]
    /\ heard \in [Asker -> Reply \cup {NoReply}]
    /\ names \in [Asker -> SUBSET HostName]
    /\ facing \in [Asker -> SUBSET SUBSET Addr]

Init ==
    /\ hostname \in HostName
    /\ ifaddrs = << >>
    /\ rx = << >>
    /\ pc = "select" /\ in = NoQuery /\ myname = << >> /\ ci = NoAddr
    /\ asking = [a \in Asker |-> NoQuery]
    /\ serial = [a \in Asker |-> 0]
    /\ inbox = [a \in Asker |-> {}]
    /\ heard = [a \in Asker |-> NoReply]
    /\ names = [a \in Asker |-> {}] /\ facing = [a \in Asker |-> {}]

-----------------------------------------------------------------------------
(* The checks of llmnr_send_response().                                    *)

\* The name that the label walk puts together, dots between the labels.  The labels are
\* ones that fit in_label[64] and end within the packet, which the walk does not ask.
in_name(q) == FlattenSeq(q.labels)

\* Mutated form: the comparison minds the case.
SameNameExactly(x, y) == x = y

\* strlen() equal and strncasecmp() zero.
SameName(x, y) ==
    /\ Len(x) = Len(y)
    /\ \A i \in 1 .. Len(x) : Lower[x[i]] = Lower[y[i]]

\* Type and class are read behind the name: of an incomplete question they are
\* whatever the buffer still holds there.
QTypesRead(q)   == IF q.complete THEN {q.qtype} ELSE QType
QClassesRead(q) == IF q.complete THEN {q.qclass} ELSE QClass

\* The header: a standard query without C and TC, one question, nothing in the
\* answer and name server sections.  The T bit and ARCOUNT are not looked at.
StandardQuery(q) ==
    /\ ~q.short
    /\ q.bits \cap {"QR", "OPCODE", "C", "TC"} = {}
    /\ q.qdcount = 1
    /\ q.ancount = 0 /\ q.nscount = 0

\* The question, read with this type and class, is one for this name.
Authoritative(q, qtype, qclass, name) ==
    /\ Pointer \notin Range(q.labels)
    /\ qtype \in {"A", "AAAA"}
    /\ qclass = "IN"
    /\ q.labels # << >>
    /\ SameName(name, in_name(q))

\* Mutated form: the asked type is not compared with the family.
AnswerToAny(a, qtype, addr) ==
    [answer |-> addr, rtype |-> IF a \in V6 THEN "AAAA" ELSE "A"]

\* A record only if the question's type is the one of the asker's family; the
\* reply to the other type says that there is no such record.
AnswerTo(a, qtype, addr) ==
    IF a \in V6 <=> qtype = "AAAA"
    THEN [answer |-> addr, rtype |-> qtype]
    ELSE [answer |-> NoAddr, rtype |-> "none"]

-----------------------------------------------------------------------------
(* llmnr_recv(), one system call at a time.                                *)

\* The function returns, and its local variables are gone.
Return ==
    /\ pc' = "select"
    /\ in' = NoQuery /\ myname' = << >> /\ ci' = NoAddr

\* Mutated form: an empty receive is answered as well.
RecvUnchecked ==
    /\ pc = "select"
    /\ pc' = "gethostname"
    /\ in' = IF rx = << >> THEN NoQuery ELSE Head(rx)
    /\ rx' = IF rx = << >> THEN rx ELSE Tail(rx)
    /\ UNCHANGED << hostname, ifaddrs, myname, ci, askers, inbox, history >>

\* recvfrom() on the socket that select() reported.
Recv ==
    /\ pc = "select" /\ rx # << >>
    /\ pc' = "gethostname"
    /\ in' = Head(rx)
    /\ rx' = Tail(rx)
    /\ UNCHANGED << hostname, ifaddrs, myname, ci, askers, inbox, history >>

\* The name is read for every query.
GetHostName ==
    /\ pc = "gethostname"
    /\ pc' = "connected_if"
    /\ myname' = hostname
    /\ UNCHANGED << hostname, ifaddrs, rx, in, ci, askers, inbox, history >>

\* connected_if(): the first interface address that faces the asker.
FindInterface ==
    /\ pc = "connected_if"
    /\ \E k \in DOMAIN ifaddrs :
          /\ Connects(in.from, ifaddrs[k])
          /\ \A j \in 1 .. k - 1 : ~Connects(in.from, ifaddrs[j])
          /\ ci' = ifaddrs[k]
    /\ pc' = "check"
    /\ UNCHANGED << hostname, ifaddrs, rx, in, myname, askers, inbox, history >>

\* The query is left without a reply; llmnr_recv() returns its length all the
\* same.
Drop ==
    /\ Return
    /\ UNCHANGED << hostname, ifaddrs, rx, askers, inbox, history >>

NotConnected ==
    /\ pc = "connected_if"
    /\ \A k \in DOMAIN ifaddrs : ~Connects(in.from, ifaddrs[k])
    /\ Drop

\* gethostname(), getifaddrs() or calloc() fails.
CallFails == pc # "select" /\ Drop

\* The reply repeats the query's ID and question.  What follows the question in
\* the query stays where it is, and the record is put behind it.
Respond ==
    /\ pc = "check"
    /\ StandardQuery(in.query)
    /\ \E qtype \in QTypesRead(in.query), qclass \in QClassesRead(in.query) :
          /\ Authoritative(in.query, qtype, qclass, myname)
          /\ LET ans == AnswerTo(in.from, qtype, ci) IN
             inbox' = [inbox EXCEPT ![in.from] = @ \cup
                          {[id |-> in.id, query |-> in.query,
                            answer |-> ans.answer, rtype |-> ans.rtype]}]
    /\ Return
    /\ UNCHANGED << hostname, ifaddrs, rx, askers, history >>

Ignore ==
    /\ pc = "check"
    /\ \/ ~StandardQuery(in.query)
       \/ \E qtype \in QTypesRead(in.query), qclass \in QClassesRead(in.query) :
             ~Authoritative(in.query, qtype, qclass, myname)
    /\ Drop

\* A round of the daemon ends and the next one begins (Wsdd2): the socket is
\* closed and opened again, and what was queued on it is gone.
Reopen ==
    /\ pc = "select" /\ rx # << >>
    /\ rx' = << >>
    /\ UNCHANGED << hostname, ifaddrs, responder, askers, inbox, history >>

Responder ==
    \/ Recv \/ GetHostName \/ FindInterface \/ NotConnected
    \/ Respond \/ Ignore

-----------------------------------------------------------------------------
(* The resolvers, the network and the host's configuration.                *)

\* A query goes out: it reaches the socket, unless its buffer is full, or is lost.
Transmit(a, q, id) ==
    \/ /\ Len(rx) < RxCap
       /\ rx' = Append(rx, [from |-> a, id |-> id, query |-> q])
    \/ UNCHANGED rx

Ask(a) ==
    /\ asking[a] = NoQuery /\ serial[a] < MaxAsks[a]
    /\ \E q \in Query[a] :
          /\ asking' = [asking EXCEPT ![a] = q]
          /\ Transmit(a, q, serial[a] + 1)
    /\ serial' = [serial EXCEPT ![a] = @ + 1]
    /\ heard' = [heard EXCEPT ![a] = NoReply]
    /\ names' = [names EXCEPT ![a] = {hostname}]
    /\ facing' = [facing EXCEPT ![a] = {Facing(a, ifaddrs)}]
    /\ UNCHANGED << hostname, ifaddrs, responder, inbox >>

Resend(a) ==
    /\ asking[a] # NoQuery
    /\ Transmit(a, asking[a], serial[a])
    /\ UNCHANGED << hostname, ifaddrs, responder, askers, inbox, history >>

GiveUp(a) ==
    /\ asking[a] # NoQuery
    /\ asking' = [asking EXCEPT ![a] = NoQuery]
    /\ names' = [names EXCEPT ![a] = {}]
    /\ facing' = [facing EXCEPT ![a] = {}]
    /\ UNCHANGED << hostname, ifaddrs, rx, responder, serial, heard, inbox >>

\* The resolver takes a reply with the ID it waits for.
Accept(a) ==
    \E r \in inbox[a] :
        /\ asking[a] # NoQuery /\ r.id = serial[a]
        /\ heard' = [heard EXCEPT ![a] = r]
        /\ asking' = [asking EXCEPT ![a] = NoQuery]
        /\ inbox' = [inbox EXCEPT ![a] = @ \ {r}]
        /\ UNCHANGED << hostname, ifaddrs, rx, responder, serial, history >>

\* A reply is lost, or comes too late and is thrown away.
Lose(a) ==
    \E r \in inbox[a] :
        /\ inbox' = [inbox EXCEPT ![a] = @ \ {r}]
        /\ UNCHANGED << hostname, ifaddrs, rx, responder, askers, history >>

\* What changes while a resolver waits is seen by the history variables.
Rename ==
    \E n \in HostName \ {hostname} :
        /\ hostname' = n
        /\ names' = [a \in Asker |-> IF asking[a] = NoQuery THEN names[a]
                                     ELSE names[a] \cup {n}]
        /\ UNCHANGED << ifaddrs, rx, responder, askers, inbox, facing >>

Readdress ==
    /\ \/ \E i \in Addr \ Range(ifaddrs) : ifaddrs' = Append(ifaddrs, i)
       \/ \E k \in DOMAIN ifaddrs : ifaddrs' = RemoveAt(ifaddrs, k)
    /\ facing' = [a \in Asker |-> IF asking[a] = NoQuery THEN facing[a]
                                  ELSE facing[a] \cup {Facing(a, ifaddrs')}]
    /\ UNCHANGED << hostname, rx, responder, askers, inbox, names >>

Resolvers ==
    \E a \in Asker : Ask(a) \/ Resend(a) \/ GiveUp(a) \/ Accept(a) \/ Lose(a)

Next == Responder \/ CallFails \/ Reopen \/ Resolvers \/ Rename \/ Readdress

Spec == Init /\ [][Next]_vars

-----------------------------------------------------------------------------
(* Properties.                                                             *)

\* The questions a resolver asks about name n, in any spelling and with a dot
\* inside a label or between two, and with the bits and counts it may set.
Regular(q, n) ==
    /\ ~q.short /\ q.complete
    /\ q.bits \subseteq {"T"}
    /\ q.qdcount = 1 /\ q.ancount = 0 /\ q.nscount = 0
    /\ q.qtype \in {"A", "AAAA"} /\ q.qclass = "IN"
    /\ q.labels # << >> /\ Pointer \notin Range(q.labels)
    /\ Len(in_name(q)) = Len(n)
    /\ \A i \in 1 .. Len(n) : Lower[in_name(q)[i]] = Lower[n[i]]

\* llmnr_recv reads name and address in two calls while both may change: what a
\* resolver accepts was nevertheless true between its first query and the reply.
\* The name was the host's, the address, of the asked type and family, one of the
\* host's facing the resolver; "no such record" is said of the other type only.
TrueReply(a, r) ==
    r.query.complete =>
        /\ \E n \in names[a] : Regular(r.query, n)
        /\ IF r.answer = NoAddr
           THEN r.query.qtype = IF a \in V6 THEN "A" ELSE "AAAA"
           ELSE /\ r.rtype = r.query.qtype
                /\ r.rtype = IF r.answer \in V6 THEN "AAAA" ELSE "A"
                /\ \E S \in facing[a] : r.answer \in S

AnsweredTruly ==
    \A a \in Asker : heard[a] # NoReply => TrueReply(a, heard[a])

\* A regular query for a name the host has kept, from a resolver that one of its
\* addresses has faced, since the query was first sent is not ignored.
RegularIsServed ==
    [][NotConnected \/ Ignore =>
          \/ in.id # serial[in.from] \/ asking[in.from] = NoQuery
          \/ \E n \in names[in.from] : ~Regular(in.query, n)
          \/ {} \in facing[in.from]
      ]_vars

=============================================================================
