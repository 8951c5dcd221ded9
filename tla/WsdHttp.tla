------------------------------ MODULE WsdHttp ------------------------------
(***************************************************************************)
(* wsd_recv() of wsdd2 (src/wsdd2/wsd.c): one thread takes the requests of *)
(* one TCP and one UDP endpoint of WS-Discovery, parses the HTTP header of *)
(* a POST, waits at most a second for what is missing, looks for the SOAP  *)
(* action and the message ID, and sends the answer.  The peers send their  *)
(* requests piece by piece, stop where they like or close their side, so   *)
(* that a request reaches recv() cut at any place between two pieces.      *)
(*                                                                         *)
(* A piece is a header line or an element of the SOAP text, and counts as  *)
(* one octet.  A cut inside a piece is left out, but for the first piece:  *)
(* a request line without its end is what the parser does not survive.     *)
(* The local buffer of wsd_recv() is uninitialised memory, and what an     *)
(* earlier call has left there is kept.                                    *)
(***************************************************************************)
EXTENDS Integers, Sequences

CONSTANTS
    Peer,       \* the peers, each with one request
    Tcp,        \* those that connect; the others send a datagram
    OffLink,    \* those that no interface address faces: connected_if() fails
    Request,    \* Request[p] : the requests p may make
    BufSize,    \* octets of the buffer
    NoPeer      \* no such peer

\* What a request is made of.  "post" is a request line with the endpoint's UUID,
\* the next three are POST lines that fail one of the three tests on it.
PostLine   == {"post", "post method", "post path", "post version"}
HeaderLine == {"type", "length", "header"}
BadLine    == {"bad type", "bad length"}
Asked      == {"Probe", "Resolve", "Get"}
SoapPart   == Asked \cup {"other action", "id", "text"}
Piece      == [kind : PostLine \cup HeaderLine \cup BadLine \cup SoapPart
                      \cup {"blank", "NUL"},
               val : Nat]       \* of "length" and "id", 0 for the others
NUL        == [kind |-> "NUL", val |-> 0]

\* A request that begins with "POST ".
IsPost(m) == m[1].kind \in PostLine

\* What is sent back: a status line with its header, a fault, an answer.
Part == [kind : {"status", "fault"} \cup Asked, val : Nat]

ASSUME WsdHttpAssumption ==
    /\ Tcp \subseteq Peer /\ OffLink \subseteq Peer /\ NoPeer \notin Peer
    /\ BufSize \in Nat \ {0, 1}
    /\ \A p \in Peer : \A m \in Request[p] :
          /\ m \in Seq(Piece) /\ m # << >>
          /\ \A i \in 1 .. Len(m) :
                m[i] # NUL /\ (m[i].kind = "length" => m[i].val > 0)

VARIABLES
    backlog,    \* connections that wait for accept()
    dgrams,     \* peers whose datagram waits for recvfrom()
    pc,         \* where wsd_recv() is, "select" outside, "gone" when it died
    cur,        \* the peer it serves
    buf,        \* the local buffer
    len,        \* octets in it
    pos,        \* p - buf, where wsd_parse_http_header() reads
    contentlength,
    conn,       \* conn[p] : the connection, or the datagram, of p
    msg,        \* msg[p] : the request of p
    sent,       \* sent[p] : pieces that p has sent
    taken,      \* taken[p] : pieces that recv() has returned
    shut,       \* peers that have closed their side
    got,        \* got[p] : what p has been sent
    calls,      \* history: calls[p] : recv() calls for p, and what they returned
    unsent      \* history: peers for whom a sending call has failed

handler == << pc, cur, buf, len, pos, contentlength >>
queues  == << backlog, dgrams >>
peers   == << msg, sent, shut >>
vars    == << queues, handler, conn, peers, taken, got, calls, unsent >>

TypeOK ==
    /\ backlog \in Seq(Tcp) /\ dgrams \in Seq(Peer \ Tcp)
    /\ pc \in {"select", "first", "request", "lines", "more", "length", "body",
               "soap", "gone"}
    /\ cur \in Peer \cup {NoPeer}
    /\ pc \notin {"select", "gone"} => cur \in Peer
    /\ buf \in [0 .. BufSize - 1 -> Piece]
    /\ len \in 0 .. BufSize - 1
    /\ pos \in 0 .. BufSize - 1
    /\ contentlength \in Nat
    /\ conn \in [Peer -> {"idle", "queued", "talking", "closed", "reset"}]
    /\ msg \in [Peer -> Seq(Piece)]
    /\ sent \in [Peer -> Nat] /\ taken \in [Peer -> Nat]
    /\ \A p \in Peer : taken[p] <= sent[p] /\ sent[p] <= Len(msg[p])
    /\ shut \subseteq Peer
    /\ got \in [Peer -> Seq(Part)]
    /\ calls \in [Peer -> [first : Nat, more : BOOLEAN, fail : BOOLEAN]]
    /\ unsent \subseteq Peer

Init ==
    /\ backlog = << >> /\ dgrams = << >>
    /\ pc = "select" /\ cur = NoPeer
    /\ buf = [i \in 0 .. BufSize - 1 |-> NUL]
    /\ len = 0 /\ pos = 0 /\ contentlength = 0
    /\ conn = [p \in Peer |-> "idle"]
    /\ msg \in {m \in [Peer -> UNION {Request[p] : p \in Peer}] :
                   \A p \in Peer : m[p] \in Request[p]}
    /\ sent = [p \in Peer |-> 0] /\ taken = [p \in Peer |-> 0]
    /\ shut = {}
    /\ got = [p \in Peer |-> << >>]
    /\ calls = [p \in Peer |-> [first |-> 0, more |-> FALSE, fail |-> FALSE]]
    /\ unsent = {}

-----------------------------------------------------------------------------
(* The socket and the buffer.                                              *)

\* What recv() has to return now: what has come, as far as there is room for it and
\* for the NUL.
Available ==
    LET come == sent[cur] - taken[cur]
        room == BufSize - 1 - len
    IN  IF come < room THEN come ELSE room

\* The history of a call that returns n pieces: the first one, or one more.
Count(n) ==
    calls' = [calls EXCEPT ![cur] =
                 [first |-> IF pc = "first" THEN n ELSE @.first,
                  more  |-> pc # "first",
                  fail  |-> n = 0]]

\* Mutated form: the octet behind what was received is left as it is.
ReceiveUnterminated(at, n) ==
    /\ taken' = [taken EXCEPT ![cur] = @ + n]
    /\ Count(n)
    /\ buf' = [i \in 0 .. BufSize - 1 |->
                  IF i \in at .. at + n - 1 THEN msg[cur][taken[cur] + 1 + i - at]
                  ELSE buf[i]]

\* recv() returns n pieces, into the buffer from at on.
Receive(at, n) ==
    /\ taken' = [taken EXCEPT ![cur] = @ + n]
    /\ Count(n)
    /\ buf' = [i \in 0 .. BufSize - 1 |->
                  IF i \in at .. at + n - 1 THEN msg[cur][taken[cur] + 1 + i - at]
                  ELSE IF i = at + n THEN NUL ELSE buf[i]]

\* recv() returns 0 because the peer has closed its side.
AtEnd == Available = 0 /\ cur \in shut

\* Nothing comes for a second (SO_RCVTIMEO), or a signal interrupts: recv() fails.
Silent == Available = 0 /\ cur \notin shut

\* recv() brings nothing into the buffer.
NoReceive == Count(0) /\ UNCHANGED << buf, taken >>

\* memmove(buf, p, len -= (p - buf)), with p at k, and the NUL behind it.
MoveDown(k) ==
    /\ len' = len - k
    /\ buf' = [i \in 0 .. BufSize - 1 |->
                  IF i < len - k THEN buf[i + k] ELSE IF i = len - k THEN NUL ELSE buf[i]]

\* The first piece of a kind in S of the text that strstr() sees in the buffer.
FirstOf(S, i) ==
    /\ \A j \in 0 .. i : buf[j] # NUL
    /\ buf[i].kind \in S /\ \A j \in 0 .. i - 1 : buf[j].kind \notin S

-----------------------------------------------------------------------------
(* How a call of wsd_recv() ends.                                          *)

\* The connection is closed and 0 returned, after full or, when sending or
\* composing it fails, after one of partial has been sent.
Finish(full, partial) ==
    /\ \E out \in {full} \cup partial :
          /\ got' = [got EXCEPT ![cur] = out]
          /\ unsent' = IF out = full THEN unsent ELSE unsent \cup {cur}
    /\ conn' = [conn EXCEPT ![cur] = "closed"]
    /\ pc' = "select" /\ cur' = NoPeer
    /\ len' = 0 /\ pos' = 0 /\ contentlength' = 0

\* What send_http_resp_header(), wsd_send_soap_fault() and wsd_send_soap_msg() send,
\* on TCP and on UDP.  A match or a response bears the name of the action asked.
StatusLine(code) == [kind |-> "status", val |-> code]
Fault(code) == [kind |-> "fault", val |-> code]
SoapMsg(action, relates) == [kind |-> action, val |-> relates]

\* The header and the fault are both sent, whatever the first call returns.
Error(code) ==
    Finish(<< StatusLine(code), Fault(code) >>,
           {<< StatusLine(code) >>, << Fault(code) >>, << >>})

\* -1 to main(), which closes every endpoint and begins a new round: whoever waits
\* is not served.  The connection at hand is closed first.
Restart ==
    /\ backlog' = << >> /\ dgrams' = << >>
    /\ conn' = [p \in Peer |-> IF p = cur THEN "closed"
                               ELSE IF conn[p] = "queued" THEN "reset" ELSE conn[p]]
    /\ pc' = "select" /\ cur' = NoPeer
    /\ len' = 0 /\ pos' = 0 /\ contentlength' = 0
    /\ UNCHANGED << peers, got, unsent >>

\* The process dies: its connections are reset, and nobody waits any more.
Dies ==
    /\ conn' = [p \in Peer |-> IF conn[p] \in {"queued", "talking"} THEN "reset"
                               ELSE conn[p]]
    /\ pc' = "gone" /\ cur' = NoPeer
    /\ backlog' = << >> /\ dgrams' = << >>
    /\ UNCHANGED << buf, len, pos, contentlength, peers, taken, got, calls, unsent >>

-----------------------------------------------------------------------------
(* wsd_recv() up to the first octets.                                      *)

Accept ==
    /\ pc = "select" /\ backlog # << >>
    /\ cur' = Head(backlog) /\ backlog' = Tail(backlog)
    /\ conn' = [conn EXCEPT ![Head(backlog)] = "talking"]
    /\ pc' = "first"
    /\ UNCHANGED << dgrams, buf, len, pos, contentlength, peers, taken, got, calls,
                    unsent >>

\* accept() or recvfrom() fails, or another endpoint asks for a new round.
NewRound ==
    /\ pc = "select"
    /\ Restart
    /\ UNCHANGED << buf, taken, calls >>

FirstRecv ==
    /\ pc = "first" /\ Available > 0
    /\ Receive(0, Available)
    /\ len' = Available
    /\ pc' = IF buf'[0].kind \in PostLine THEN "request" ELSE "soap"
    /\ UNCHANGED << queues, cur, pos, contentlength, conn, peers, got, unsent >>

\* The peer closes without a word: that is no error.
FirstEnd ==
    /\ pc = "first" /\ AtEnd
    /\ NoReceive
    /\ Finish(<< >>, {})
    /\ UNCHANGED << queues, peers >>

\* Mutated form: no receive timeout.
FirstSilenceBlocks == FALSE

\* A peer that says nothing: recv() fails, and the daemon restarts.
FirstSilence ==
    /\ pc = "first" /\ Silent
    /\ NoReceive
    /\ Restart

\* The first recv() comes in the middle of the request line.  Where "POST " is there
\* wsd_parse_http_header() writes behind the line's end, which strstr() has not found.
CutRequestLine ==
    /\ pc = "first" /\ Available = 0
    /\ IsPost(msg[cur])
    /\ Dies

\* It comes before that, or in the middle of the first element of a SOAP text: no
\* action is found in what has come, and the connection is closed.
CutStart ==
    /\ pc = "first" /\ Available = 0
    /\ buf' = [buf EXCEPT ![0] = NUL]
    /\ Count(0)
    /\ Finish(<< >>, {})
    /\ UNCHANGED << queues, peers, taken >>

\* How much of p's datagram recvfrom() returns.
Fits(p) == IF Len(msg[p]) < BufSize THEN Len(msg[p]) ELSE BufSize - 1

\* A datagram comes as far as there is room.  Its text is never parsed as HTTP.
RecvFrom ==
    /\ pc = "select" /\ dgrams # << >>
    /\ LET p == Head(dgrams)
           n == Fits(p)
       IN
       /\ cur' = p
       /\ conn' = [conn EXCEPT ![p] = "talking"]
       /\ len' = n
       /\ buf' = [i \in 0 .. BufSize - 1 |->
                     IF i < n THEN msg[p][i + 1] ELSE IF i = n THEN NUL ELSE buf[i]]
       /\ taken' = [taken EXCEPT ![p] = n]
       /\ calls' = [calls EXCEPT ![p].first = n]
    /\ dgrams' = Tail(dgrams)
    /\ pc' = "soap"
    /\ UNCHANGED << backlog, pos, contentlength, peers, got, unsent >>

-----------------------------------------------------------------------------
(* wsd_parse_http_header().                                                *)

BadRequestLine ==
    /\ pc = "request" /\ buf[0].kind # "post"
    /\ Error(IF buf[0].kind = "post path" THEN 404 ELSE 405)
    /\ UNCHANGED << queues, buf, peers, taken, calls >>

\* FirstRecv has brought the whole line: its end is there.
GoodRequestLine ==
    /\ pc = "request" /\ buf[0].kind = "post"
    /\ pos' = 1
    /\ pc' = "lines"
    /\ UNCHANGED << queues, cur, buf, len, contentlength, conn, peers, taken, got,
                    calls, unsent >>

\* The header loop comes from pos to k, the first that is not a header line it
\* accepts: an empty line, a line that is refused, or none that ends.
StopsAt(k) ==
    /\ k \in pos .. len
    /\ buf[k].kind \notin HeaderLine
    /\ \A j \in pos .. k - 1 : buf[j].kind \in HeaderLine

\* The last Content-Length before k counts, whichever pass over the loop saw it.
SetLength(k) ==
    LET at == {j \in pos .. k - 1 : buf[j].kind = "length"} IN
    IF at = {} THEN UNCHANGED contentlength
    ELSE \E j \in at : /\ \A i \in at : i <= j
                       /\ contentlength' = buf[j].val

RefusedLine ==
    /\ pc = "lines"
    /\ \E k \in pos .. len : StopsAt(k) /\ buf[k].kind \in BadLine
    /\ Error(400)
    /\ UNCHANGED << queues, buf, peers, taken, calls >>

EndOfHeader ==
    /\ pc = "lines"
    /\ \E k \in pos .. len :
          /\ StopsAt(k) /\ buf[k].kind = "blank"
          /\ SetLength(k)
          /\ MoveDown(k + 1)
          /\ pos' = k + 1
    /\ pc' = "length"
    /\ UNCHANGED << queues, cur, conn, peers, taken, got, calls, unsent >>

\* "Have not reached end of header": what is left moves down, pos stays.
Unfinished ==
    /\ pc = "lines"
    /\ \E k \in pos .. len :
          /\ StopsAt(k) /\ buf[k].kind \notin BadLine \cup {"blank"}
          /\ SetLength(k)
          /\ MoveDown(k)
          /\ pos' = k
    /\ pc' = "more"
    /\ UNCHANGED << queues, cur, conn, peers, taken, got, calls, unsent >>

\* Mutated form: the length wraps, and the handler goes on with it.
WrapsOn ==
    /\ pc = "lines" /\ pos > len
    /\ len' = len - pos
    /\ pc' = "more"
    /\ UNCHANGED << queues, cur, buf, pos, contentlength, conn, peers, taken, got,
                    calls, unsent >>

\* pos is behind what has been received: len - pos wraps, and the process does not
\* get over the memmove().
Wraps ==
    /\ pc = "lines" /\ pos > len
    /\ Dies

More ==
    /\ pc = "more" /\ Available > 0
    /\ Receive(len, Available)
    /\ len' = len + Available
    /\ pc' = "lines"
    /\ UNCHANGED << queues, cur, pos, contentlength, conn, peers, got, unsent >>

MoreFails ==
    /\ pc = "more"
    /\ AtEnd \/ Silent
    /\ NoReceive
    /\ Error(500)
    /\ UNCHANGED << queues, peers >>

\* The body ends behind contentlength octets.
Truncate == buf' = [buf EXCEPT ![contentlength] = NUL]

\* Mutated form: what follows the body is read as well.
EnoughUncut ==
    /\ pc = "length" /\ contentlength \in 1 .. len
    /\ pc' = "soap"
    /\ UNCHANGED << queues, cur, buf, len, pos, contentlength, conn, peers, taken, got,
                    calls, unsent >>

Enough ==
    /\ pc = "length" /\ contentlength \in 1 .. len
    /\ Truncate
    /\ pc' = "soap"
    /\ UNCHANGED << queues, cur, len, pos, contentlength, conn, peers, taken, got,
                    calls, unsent >>

BadLength ==
    /\ pc = "length"
    /\ \/ contentlength = 0 /\ Error(400)
       \/ contentlength > len /\ contentlength >= BufSize /\ Error(500)
    /\ UNCHANGED << queues, buf, peers, taken, calls >>

Short ==
    /\ pc = "length" /\ contentlength \in len + 1 .. BufSize - 1
    /\ pc' = "body"
    /\ UNCHANGED << queues, cur, buf, len, pos, contentlength, conn, peers, taken, got,
                    calls, unsent >>

\* The rest has to come with one recv().
Body ==
    /\ pc = "body" /\ Available >= contentlength - len
    /\ Receive(len, contentlength - len)
    /\ pc' = "soap"
    /\ UNCHANGED << queues, cur, len, pos, contentlength, conn, peers, got, unsent >>

\* Mutated form: the failed receive is handed on to main().
BodyShortRestarts ==
    /\ pc = "body"
    /\ \/ /\ Available \in 1 .. contentlength - len - 1
          /\ Receive(len, Available)
       \/ AtEnd /\ NoReceive
    /\ Restart

BodyShort ==
    /\ pc = "body"
    /\ \/ /\ Available \in 1 .. contentlength - len - 1
          /\ Receive(len, Available)
       \/ AtEnd /\ NoReceive
    /\ Error(500)
    /\ UNCHANGED << queues, peers >>

\* -1 is compared as a size_t, greater than any length: the part of the body that
\* has come is taken for the whole.
BodySilence ==
    /\ pc = "body" /\ Silent
    /\ Count(0)
    /\ Truncate
    /\ pc' = "soap"
    /\ UNCHANGED << queues, cur, len, pos, contentlength, conn, peers, taken, got,
                    unsent >>

-----------------------------------------------------------------------------
(* The SOAP text.                                                          *)

\* i is the action and j the message ID that wsd_req_parse() finds.
Parsed(i, j) == /\ FirstOf(Asked \cup {"other action"}, i)
                /\ FirstOf({"id"}, j)

\* wsd_recv_action(): an interface address has to face the peer.
Faced == cur \notin OffLink

Answerable(i, j) == Parsed(i, j) /\ buf[i].kind \in Asked /\ Faced

\* A probe or resolve match has no HTTP header, on TCP too.
Match(action, relates) == Finish(<< SoapMsg(action, relates) >>, {<< >>})

\* The response to Get has one, on UDP too; it is sent first.
GetResponse(relates) ==
    Finish(<< StatusLine(200), SoapMsg("Get", relates) >>, {<< StatusLine(200) >>, << >>})

Answer ==
    /\ pc = "soap"
    /\ \E i, j \in 0 .. BufSize - 1 :
          /\ Answerable(i, j)
          /\ \/ buf[i].kind = "Get" /\ GetResponse(buf[j].val)
             \/ buf[i].kind # "Get" /\ Match(buf[i].kind, buf[j].val)
    /\ UNCHANGED << queues, buf, peers, taken, calls >>

NoAnswer ==
    /\ pc = "soap"
    /\ \A i, j \in 0 .. BufSize - 1 : ~Answerable(i, j)
    /\ Finish(<< >>, {})
    /\ UNCHANGED << queues, buf, peers, taken, calls >>

-----------------------------------------------------------------------------
(* The peers.                                                              *)

Connect(p) ==
    /\ p \in Tcp /\ conn[p] = "idle" /\ pc # "gone"
    /\ conn' = [conn EXCEPT ![p] = "queued"]
    /\ backlog' = Append(backlog, p)
    /\ UNCHANGED << dgrams, handler, peers, taken, got, calls, unsent >>

Datagram(p) ==
    /\ p \in Peer \ Tcp /\ conn[p] = "idle" /\ pc # "gone"
    /\ conn' = [conn EXCEPT ![p] = "queued"]
    /\ sent' = [sent EXCEPT ![p] = Len(msg[p])]
    /\ dgrams' = Append(dgrams, p)
    /\ UNCHANGED << backlog, handler, msg, shut, taken, got, calls, unsent >>

Send(p) ==
    /\ p \in Tcp /\ conn[p] \in {"queued", "talking"} /\ p \notin shut
    /\ sent[p] < Len(msg[p])
    /\ sent' = [sent EXCEPT ![p] = @ + 1]
    /\ UNCHANGED << queues, handler, conn, msg, shut, taken, got, calls, unsent >>

Shut(p) ==
    /\ p \in Tcp /\ conn[p] \in {"queued", "talking"} /\ p \notin shut
    /\ shut' = shut \cup {p}
    /\ UNCHANGED << queues, handler, conn, msg, sent, taken, got, calls, unsent >>

Handler ==
    \/ Accept \/ RecvFrom
    \/ FirstRecv \/ FirstEnd \/ FirstSilence
    \/ BadRequestLine \/ GoodRequestLine
    \/ RefusedLine \/ EndOfHeader \/ Unfinished \/ Wraps
    \/ More \/ MoreFails
    \/ Enough \/ BadLength \/ Short
    \/ Body \/ BodyShort \/ BodySilence
    \/ Answer \/ NoAnswer

\* What a peer brings about that has sent a part of its first piece, no more.
Cut == CutRequestLine \/ CutStart

Peers == \E p \in Peer : Connect(p) \/ Datagram(p) \/ Send(p) \/ Shut(p)

Next == Handler \/ Cut \/ NewRound \/ Peers

Spec == Init /\ [][Next]_vars

\* The thread goes on: select() reports what waits, and a recv() returns after a
\* second at the latest.  Peers and restarts are under no obligation.
FairSpec == Spec /\ WF_vars(Handler)

-----------------------------------------------------------------------------
(* What a request is owed.                                                 *)

\* The first and the last piece of a kind in S from the place from to the place to of
\* m, 0 if there is none.
FirstIn(m, S, from, to) ==
    IF \E i \in from .. to : m[i].kind \in S
    THEN CHOOSE i \in from .. to : /\ m[i].kind \in S
                                  /\ \A j \in from .. i - 1 : m[j].kind \notin S
    ELSE 0

LastIn(m, S, from, to) ==
    IF \E i \in from .. to : m[i].kind \in S
    THEN CHOOSE i \in from .. to : /\ m[i].kind \in S
                                  /\ \A j \in i + 1 .. to : m[j].kind \notin S
    ELSE 0

\* The answer to the SOAP text in these places.
OwedToText(p, m, from, to) ==
    LET act == FirstIn(m, Asked \cup {"other action"}, from, to)
        id  == FirstIn(m, {"id"}, from, to)
    IN  IF act = 0 \/ id = 0 \/ p \in OffLink \/ m[act].kind \notin Asked THEN << >>
        ELSE IF m[act].kind = "Get"
             THEN << StatusLine(200), SoapMsg("Get", m[id].val) >>
             ELSE << SoapMsg(m[act].kind, m[id].val) >>

Refusal(code) == << StatusLine(code), Fault(code) >>

HeaderEnd(m) == FirstIn(m, {"blank"}, 1, Len(m))
Refused(m)   == FirstIn(m, BadLine, 2, HeaderEnd(m) - 1) > 0
Length(m)    == LET l == LastIn(m, {"length"}, 2, HeaderEnd(m) - 1) IN
                IF l = 0 THEN 0 ELSE m[l].val

\* A request m of p's is parsed as HTTP.
Http(p, m) == p \in Tcp /\ IsPost(m)

\* The answer to a whole request, taken as the peer wrote it.
Owed(p, m) ==
    IF ~Http(p, m) THEN OwedToText(p, m, 1, Len(m))
    ELSE IF m[1].kind = "post path" THEN Refusal(404)
    ELSE IF m[1].kind # "post" THEN Refusal(405)
    ELSE IF Refused(m) \/ Length(m) = 0 THEN Refusal(400)
    ELSE IF Length(m) >= BufSize THEN Refusal(500)
    ELSE OwedToText(p, m, HeaderEnd(m) + 1, HeaderEnd(m) + Length(m))

\* A request m of p's that is parsed as HTTP lacks nothing that its header promises.
Whole(p, m) ==
    Http(p, m) => /\ HeaderEnd(m) > 0
                  /\ Length(m) >= BufSize \/ HeaderEnd(m) + Length(m) <= Len(m)

-----------------------------------------------------------------------------
(* Properties.                                                             *)

\* The first recv() returned the whole header, or all of a request without one.
HeaderAtOnce(p) ==
    IF Http(p, msg[p]) THEN HeaderEnd(msg[p]) \in 1 .. calls[p].first
    ELSE calls[p].first = Len(msg[p])

\* wsd_parse_http_header() and wsd_req_parse() give a request what it is owed if its
\* header comes with the first recv() and the rest of its body with at most one more,
\* wherever the cut is and whatever the buffer held before.
WholeRequestAnswered ==
    \A p \in Peer :
        (/\ conn[p] = "closed" /\ p \notin unsent
         /\ Whole(p, msg[p]) /\ HeaderAtOnce(p) /\ ~calls[p].fail
         /\ calls[p].more => taken[p] >= HeaderEnd(msg[p]) + Length(msg[p]))
        => got[p] = Owed(p, msg[p])

\* However a request is cut and wherever its peer falls silent, an answer names an
\* action and a message ID that this peer has sent, never one that wsd_recv()'s buffer
\* still holds of another.
OwnAnswer ==
    \A p \in Peer : \A i \in DOMAIN got[p] :
        got[p][i].kind \in Asked =>
            /\ \E j \in 1 .. taken[p] : msg[p][j].kind = got[p][i].kind
            /\ \E j \in 1 .. taken[p] : msg[p][j] = [kind |-> "id", val |-> got[p][i].val]

\* wsd_recv() returns -1 for a failed first call only, and dies on a header that comes
\* in parts only: a peer costs those that wait their turn only by saying nothing, or by
\* cutting its header.
NoCollateral ==
    [][(\E q \in Peer : conn[q] = "queued" /\ conn'[q] = "reset") =>
          pc = "select" \/ taken[cur] = 0 \/ ~HeaderAtOnce(cur)]_vars

\* A peer that waits is served or sees its connection closed, although the one before
\* it in the single thread may stop at any place: SO_RCVTIMEO bounds every recv().
EveryPeerIsSeenTo ==
    \A p \in Peer : conn[p] \in {"queued", "talking"} ~> conn[p] \in {"closed", "reset"}

\* "Have not reached end of header": a header may come with more than one recv().
CutHeaderIsParsed ==
    \A p \in Peer :
        (/\ conn[p] = "closed" /\ p \notin unsent
         /\ Whole(p, msg[p]) /\ taken[p] = Len(msg[p]) /\ ~calls[p].fail)
        => got[p] = Owed(p, msg[p])

=============================================================================
