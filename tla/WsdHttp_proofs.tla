--------------------------- MODULE WsdHttp_proofs ---------------------------
(***************************************************************************)
(* Proofs about WsdHttp, for any peers, requests and buffer size.          *)
(***************************************************************************)
EXTENDS WsdHttp, SequenceTheorems, WellFoundedInduction, TLAPS

\* x is something that the peer at hand has sent.
Mine(x) == \E j \in 1 .. taken[cur] : msg[cur][j] = x

\* What recv() was given room for fits, and the text in the buffer is no longer than
\* what has been taken from the peer.
Bounds ==
    /\ \A p \in Peer : msg[p] \in Request[p]
    /\ pc \notin {"select", "gone"} => len <= taken[cur]
    /\ \A k \in 1 .. Len(dgrams) : sent[dgrams[k]] = Len(msg[dgrams[k]])
    /\ pc = "body" => contentlength \in len + 1 .. BufSize - 1
    /\ pc \in {"select", "first"} => len = 0
    /\ pc \notin {"select", "soap", "gone"} => cur \in Tcp
    /\ \A p \in Peer \ Tcp : taken[p] \in {0, Fits(p)}

\* The text in the buffer, up to its NUL, is the peer's.
Contents ==
    /\ pc \in {"request", "lines", "more", "length", "body"} =>
          buf[len] = NUL /\ \A i \in 0 .. len - 1 : Mine(buf[i])
    /\ pc = "soap" =>
          \E e \in 0 .. BufSize - 1 : buf[e] = NUL /\ \A i \in 0 .. e - 1 : Mine(buf[i])

IInv == TypeOK /\ Bounds /\ Contents /\ OwnAnswer

LEMMA RequestFacts ==
    ASSUME NEW p \in Peer, NEW m \in Request[p]
    PROVE  m \in Seq(Piece) /\ Len(m) \in Nat \ {0}
<1>1. m \in Seq(Piece) /\ m # << >>
  BY WsdHttpAssumption
<1> QED  BY <1>1, EmptySeq, LenProperties

LEMMA NulIsPiece == NUL \in Piece
BY DEF NUL, Piece

LEMMA IInvInit == Init => IInv
<1> SUFFICES ASSUME Init PROVE IInv
  OBVIOUS
<1> USE WsdHttpAssumption
<1>1. \A p \in Peer : msg[p] \in Request[p] /\ msg[p] \in Seq(Piece)
  BY RequestFacts DEF Init
<1>2. msg \in [Peer -> Seq(Piece)]
  BY <1>1 DEF Init
<1>3. ASSUME NEW p \in Peer PROVE Len(msg[p]) \in Nat
  <2>1. msg[p] \in Seq(Piece)
    BY <1>1
  <2> QED  BY <2>1, LenProperties
<1>4. TypeOK
  BY <1>2, <1>3, NulIsPiece DEF Init, TypeOK
<1>5. Bounds /\ Contents /\ OwnAnswer
  BY <1>1 DEF Init, Bounds, Contents, OwnAnswer, Fits
<1> QED  BY <1>4, <1>5 DEF IInv

-----------------------------------------------------------------------------
(* The parts that actions share.                                           *)

LEMMA AvailableFacts ==
    ASSUME IInv, cur \in Peer
    PROVE  /\ Available \in Nat /\ taken[cur] \in Nat /\ sent[cur] \in Nat
           /\ taken[cur] + Available <= Len(msg[cur])
           /\ taken[cur] + Available <= sent[cur]
           /\ len \in 0 .. BufSize - 1 /\ len + Available <= BufSize - 1
           /\ Len(msg[cur]) \in Nat \ {0} /\ msg[cur] \in Seq(Piece)
           /\ BufSize \in Nat \ {0, 1}
<1>1. msg[cur] \in Request[cur]
  BY DEF IInv, Bounds
<1>2. msg[cur] \in Seq(Piece) /\ Len(msg[cur]) \in Nat \ {0}
  BY <1>1, RequestFacts
<1>3. taken[cur] \in Nat /\ sent[cur] \in Nat /\ len \in 0 .. BufSize - 1
      /\ taken[cur] <= sent[cur] /\ sent[cur] <= Len(msg[cur])
  BY DEF IInv, TypeOK
<1> QED  BY <1>2, <1>3, WsdHttpAssumption DEF Available

\* The history only records.
LEMMA CountType ==
    ASSUME IInv, cur \in Peer, NEW n \in Nat, Count(n)
    PROVE  calls' \in [Peer -> [first : Nat, more : BOOLEAN, fail : BOOLEAN]]
<1> DEFINE c == [first |-> IF pc = "first" THEN n ELSE calls[cur].first,
                 more |-> pc # "first", fail |-> n = 0]
<1>1. calls' = [calls EXCEPT ![cur] = c]
  BY DEF Count
<1>2. calls[cur].first \in Nat
  BY DEF IInv, TypeOK
<1>3. c \in [first : Nat, more : BOOLEAN, fail : BOOLEAN]
  BY <1>2
<1> HIDE DEF c
<1> QED  BY <1>1, <1>3 DEF IInv, TypeOK

LEMMA PlaceInRequest ==
    ASSUME NEW t \in Nat, NEW l \in Nat, NEW n \in Nat, t + n <= l,
           NEW at \in Nat, NEW i \in at .. at + n - 1
    PROVE  t + 1 + i - at \in 1 .. t + n /\ t + 1 + i - at \in 1 .. l
OBVIOUS

\* recv() puts the peer's next pieces behind those that are in the buffer.
LEMMA ReceiveFacts ==
    ASSUME IInv, cur \in Peer, NEW at \in 0 .. BufSize - 1, NEW n \in Nat,
           n <= Available, at + n <= BufSize - 1, Receive(at, n),
           \A i \in 0 .. at - 1 : Mine(buf[i]), UNCHANGED msg
    PROVE  /\ buf' \in [0 .. BufSize - 1 -> Piece]
           /\ taken' \in [Peer -> Nat] /\ taken'[cur] = taken[cur] + n
           /\ \A p \in Peer : taken[p] <= taken'[p] /\ taken'[p] <= sent[p]
           /\ \A p \in Peer \ {cur} : taken'[p] = taken[p]
           /\ calls' \in [Peer -> [first : Nat, more : BOOLEAN, fail : BOOLEAN]]
           /\ buf'[at + n] = NUL
           /\ \A i \in 0 .. at + n - 1 :
                 \E j \in 1 .. taken'[cur] : msg[cur][j] = buf'[i]
<1> USE WsdHttpAssumption
<1>1. /\ taken' = [taken EXCEPT ![cur] = @ + n] /\ Count(n)
      /\ buf' = [i \in 0 .. BufSize - 1 |->
                  IF i \in at .. at + n - 1 THEN msg[cur][taken[cur] + 1 + i - at]
                  ELSE IF i = at + n THEN NUL ELSE buf[i]]
  BY DEF Receive
<1>2. /\ taken[cur] \in Nat /\ sent[cur] \in Nat /\ BufSize \in Nat
      /\ msg[cur] \in Seq(Piece) /\ taken[cur] + n <= Len(msg[cur])
      /\ taken[cur] + n <= sent[cur] /\ Len(msg[cur]) \in Nat
  BY AvailableFacts, SMTT(60)
<1>3. calls' \in [Peer -> [first : Nat, more : BOOLEAN, fail : BOOLEAN]]
  BY <1>1, CountType
<1>4. taken' \in [Peer -> Nat] /\ taken'[cur] = taken[cur] + n
  BY <1>1, <1>2 DEF IInv, TypeOK
<1>a. \A p \in Peer \ {cur} : taken'[p] = taken[p]
  BY <1>1 DEF IInv, TypeOK
<1>5. \A p \in Peer : taken[p] <= taken'[p] /\ taken'[p] <= sent[p]
  <2> SUFFICES ASSUME NEW p \in Peer PROVE taken[p] <= taken'[p] /\ taken'[p] <= sent[p]
    OBVIOUS
  <2>1. taken[p] \in Nat /\ sent[p] \in Nat /\ taken[p] <= sent[p]
    BY DEF IInv, TypeOK
  <2>2. taken'[p] = IF p = cur THEN taken[cur] + n ELSE taken[p]
    BY <1>1 DEF IInv, TypeOK
  <2> QED  BY <1>2, <2>1, <2>2
<1>6. \A i \in at .. at + n - 1 :
         /\ taken[cur] + 1 + i - at \in 1 .. taken[cur] + n
         /\ taken[cur] + 1 + i - at \in 1 .. Len(msg[cur])
  BY <1>2, PlaceInRequest, SMTT(60)
<1>7. \A i \in at .. at + n - 1 : msg[cur][taken[cur] + 1 + i - at] \in Piece
  BY <1>2, <1>6
<1>8. buf' \in [0 .. BufSize - 1 -> Piece]
  BY <1>1, <1>7, NulIsPiece DEF IInv, TypeOK
<1>9. buf'[at + n] = NUL
  BY <1>1, <1>2
<1>10. \A i \in 0 .. at + n - 1 : \E j \in 1 .. taken'[cur] : msg[cur][j] = buf'[i]
  <2> SUFFICES ASSUME NEW i \in 0 .. at + n - 1
               PROVE  \E j \in 1 .. taken'[cur] : msg[cur][j] = buf'[i]
    OBVIOUS
  <2>1. CASE i \in at .. at + n - 1
    <3>1. buf'[i] = msg[cur][taken[cur] + 1 + i - at]
      BY <1>1, <1>2, <2>1
    <3> QED  BY <1>4, <1>6, <2>1, <3>1
  <2>2. CASE i \in 0 .. at - 1
    <3>1. buf'[i] = buf[i]
      BY <1>1, <1>2, <2>2
    <3>2. PICK j \in 1 .. taken[cur] : msg[cur][j] = buf[i]
      BY <2>2 DEF Mine
    <3>3. j \in 1 .. taken'[cur]
      BY <1>2, <1>4
    <3> QED  BY <3>1, <3>2, <3>3
  <2> QED  BY <1>2, <2>1, <2>2
<1> QED  BY <1>3, <1>4, <1>a, <1>5, <1>8, <1>9, <1>10

\* The end of a call: nothing of the buffer is read any more.
LEMMA FinishFacts ==
    ASSUME IInv, cur \in Peer, NEW full \in Seq(Part), NEW partial \in SUBSET Seq(Part),
           Finish(full, partial)
    PROVE  /\ got' \in [Peer -> Seq(Part)] /\ unsent' \subseteq Peer
           /\ conn' \in [Peer -> {"idle", "queued", "talking", "closed", "reset"}]
           /\ pc' = "select" /\ cur' = NoPeer
           /\ len' = 0 /\ pos' = 0 /\ contentlength' = 0
           /\ got'[cur] \in {full} \cup partial
           /\ \A p \in Peer \ {cur} : got'[p] = got[p]
<1>1. PICK out \in {full} \cup partial :
         /\ got' = [got EXCEPT ![cur] = out]
         /\ unsent' = IF out = full THEN unsent ELSE unsent \cup {cur}
  BY DEF Finish
<1>2. out \in Seq(Part)
  OBVIOUS
<1> QED  BY <1>1, <1>2 DEF Finish, IInv, TypeOK

\* An error names no action.
LEMMA ErrorFacts ==
    ASSUME IInv, cur \in Peer, NEW code \in Nat, Error(code)
    PROVE  /\ got' \in [Peer -> Seq(Part)] /\ unsent' \subseteq Peer
           /\ conn' \in [Peer -> {"idle", "queued", "talking", "closed", "reset"}]
           /\ pc' = "select" /\ cur' = NoPeer
           /\ len' = 0 /\ pos' = 0 /\ contentlength' = 0
           /\ \A i \in DOMAIN got'[cur] : got'[cur][i].kind \notin Asked
           /\ \A p \in Peer \ {cur} : got'[p] = got[p]
<1> DEFINE h == [kind |-> "status", val |-> code]
           f == [kind |-> "fault", val |-> code]
<1>1. h \in Part /\ f \in Part /\ h.kind \notin Asked /\ f.kind \notin Asked
  BY DEF Part, Asked
<1>2. Finish(<< h, f >>, {<< h >>, << f >>, << >>})
  BY DEF Error, StatusLine, Fault
<1> HIDE DEF h, f
<1>3. << h, f >> \in Seq(Part) /\ {<< h >>, << f >>, << >>} \in SUBSET Seq(Part)
  BY <1>1
<1>4. got'[cur] \in {<< h, f >>, << h >>, << f >>, << >>}
  BY <1>2, <1>3, FinishFacts
<1>5. \A i \in DOMAIN got'[cur] : got'[cur][i].kind \notin Asked
  BY <1>1, <1>4
<1> QED  BY <1>2, <1>3, <1>5, FinishFacts

\* What has been sent to other peers, and to this one, stays its own.
LEMMA OwnStays ==
    ASSUME IInv, \A p \in Peer : taken'[p] \in Nat /\ taken[p] <= taken'[p],
           UNCHANGED msg,
           \A p \in Peer : got'[p] = got[p] \/ \A i \in DOMAIN got'[p] :
                                                  got'[p][i].kind \notin Asked
    PROVE  OwnAnswer'
<1>1. msg' = msg
  OBVIOUS
<1>2. ASSUME NEW p \in Peer, NEW i \in DOMAIN got'[p], got'[p][i].kind \in Asked
      PROVE  /\ \E j \in 1 .. taken'[p] : msg'[p][j].kind = got'[p][i].kind
             /\ \E j \in 1 .. taken'[p] :
                   msg'[p][j] = [kind |-> "id", val |-> got'[p][i].val]
  <2>1. got'[p] = got[p]
    BY <1>2
  <2>2. taken[p] \in Nat /\ taken'[p] \in Nat /\ taken[p] <= taken'[p]
    BY DEF IInv, TypeOK
  <2>3. \A j \in 1 .. taken[p] : j \in 1 .. taken'[p]
    BY <2>2
  <2>4. /\ \E j \in 1 .. taken[p] : msg[p][j].kind = got[p][i].kind
        /\ \E j \in 1 .. taken[p] : msg[p][j] = [kind |-> "id", val |-> got[p][i].val]
    BY <1>2, <2>1 DEF IInv, OwnAnswer
  <2> QED  BY <1>1, <2>1, <2>3, <2>4
<1> QED  BY <1>2 DEF OwnAnswer

\* Once the handler has returned, types and history are all there is to keep.
LEMMA EndedKeeps ==
    ASSUME IInv, UNCHANGED << queues, peers >>,
           pc' = "select", cur' = NoPeer, len' = 0, pos' = 0, contentlength' = 0,
           conn' \in [Peer -> {"idle", "queued", "talking", "closed", "reset"}],
           got' \in [Peer -> Seq(Part)], unsent' \subseteq Peer,
           buf' \in [0 .. BufSize - 1 -> Piece], taken' \in [Peer -> Nat],
           \A p \in Peer : taken'[p] <= sent[p],
           \A p \in Peer \ Tcp : taken'[p] = taken[p],
           calls' \in [Peer -> [first : Nat, more : BOOLEAN, fail : BOOLEAN]],
           OwnAnswer'
    PROVE  IInv'
<1> USE WsdHttpAssumption
<1>1. TypeOK'
  BY SMTT(60) DEF IInv, TypeOK, queues, peers
<1>2. Bounds' /\ Contents'
  BY DEF IInv, Bounds, Contents, queues, peers, Fits
<1> QED  BY <1>1, <1>2 DEF IInv

\* No recv(): what it would have touched is as before.
LEMMA TakenSame ==
    ASSUME IInv
    PROVE  /\ buf \in [0 .. BufSize - 1 -> Piece] /\ taken \in [Peer -> Nat]
           /\ \A p \in Peer : taken[p] \in Nat /\ taken[p] <= taken[p] /\ taken[p] <= sent[p]
           /\ calls \in [Peer -> [first : Nat, more : BOOLEAN, fail : BOOLEAN]]
BY DEF IInv, TypeOK

LEMMA ErrorKeeps ==
    ASSUME IInv, cur \in Peer, NEW code \in Nat, Error(code), UNCHANGED << queues, peers >>,
           buf' \in [0 .. BufSize - 1 -> Piece], taken' \in [Peer -> Nat],
           \A p \in Peer : taken[p] <= taken'[p] /\ taken'[p] <= sent[p],
           \A p \in Peer \ Tcp : taken'[p] = taken[p],
           calls' \in [Peer -> [first : Nat, more : BOOLEAN, fail : BOOLEAN]]
    PROVE  IInv'
<1>1. \A p \in Peer : taken'[p] \in Nat /\ taken[p] <= taken'[p]
  OBVIOUS
<1>2. UNCHANGED msg
  BY DEF peers
<1>3. \A p \in Peer : got'[p] = got[p] \/ \A i \in DOMAIN got'[p] :
                                              got'[p][i].kind \notin Asked
  BY ErrorFacts
<1>4. OwnAnswer'
  BY <1>1, <1>2, <1>3, OwnStays
<1> QED  BY <1>4, ErrorFacts, EndedKeeps

LEMMA NoReceiveFacts ==
    ASSUME IInv, cur \in Peer, NoReceive
    PROVE  /\ buf' \in [0 .. BufSize - 1 -> Piece] /\ taken' \in [Peer -> Nat]
           /\ \A p \in Peer : taken[p] <= taken'[p] /\ taken'[p] <= sent[p]
           /\ \A p \in Peer \ Tcp : taken'[p] = taken[p]
           /\ calls' \in [Peer -> [first : Nat, more : BOOLEAN, fail : BOOLEAN]]
<1>1. buf' = buf /\ taken' = taken /\ Count(0)
  BY DEF NoReceive
<1>2. calls' \in [Peer -> [first : Nat, more : BOOLEAN, fail : BOOLEAN]]
  BY <1>1, CountType
<1> QED  BY <1>1, <1>2, TakenSame

\* A recv() that fails on the way is answered with an error.
LEMMA FailedRecvKeeps ==
    ASSUME IInv, cur \in Peer, NoReceive, Error(500), UNCHANGED << queues, peers >>
    PROVE  IInv'
<1>1. PICK code \in Nat : code = 500
  OBVIOUS
<1>2. Error(code)
  BY <1>1
<1>3. /\ buf' \in [0 .. BufSize - 1 -> Piece] /\ taken' \in [Peer -> Nat]
      /\ \A p \in Peer : taken[p] <= taken'[p] /\ taken'[p] <= sent[p]
      /\ \A p \in Peer \ Tcp : taken'[p] = taken[p]
      /\ calls' \in [Peer -> [first : Nat, more : BOOLEAN, fail : BOOLEAN]]
  BY NoReceiveFacts
<1> QED  BY <1>2, <1>3, ErrorKeeps

\* The actions that refuse a request.
LEMMA RefusalsKeep ==
    ASSUME IInv, \/ BadRequestLine \/ RefusedLine \/ MoreFails \/ BadLength
                 \/ BodyShort
    PROVE  IInv'
<1>0. cur \in Peer
  BY ZenonT(60) DEF IInv, TypeOK, BadRequestLine, RefusedLine, MoreFails, BadLength,
                    BodyShort
<1>1. CASE BadRequestLine
  <2>1. Error(404) \/ Error(405)
    BY <1>1 DEF BadRequestLine
  <2>2. UNCHANGED << queues, peers >> /\ UNCHANGED << buf, taken, calls >>
    BY <1>1 DEF BadRequestLine
  <2>3. CASE Error(404)
    BY <1>0, <2>2, <2>3, ErrorKeeps, TakenSame, SMTT(60)
  <2>4. CASE Error(405)
    BY <1>0, <2>2, <2>4, ErrorKeeps, TakenSame, SMTT(60)
  <2> QED  BY <2>1, <2>3, <2>4
<1>2. CASE RefusedLine
  BY <1>0, <1>2, ErrorKeeps, TakenSame DEF RefusedLine
<1>3. CASE MoreFails
  <2>1. Error(500) /\ UNCHANGED << queues, peers >> /\ NoReceive
    BY <1>3 DEF MoreFails
  <2> QED  BY <1>0, <2>1, FailedRecvKeeps
<1>4. CASE BadLength
  <2>1. Error(400) \/ Error(500)
    BY <1>4 DEF BadLength
  <2>2. UNCHANGED << queues, peers >> /\ UNCHANGED << buf, taken, calls >>
    BY <1>4 DEF BadLength
  <2>3. CASE Error(400)
    BY <1>0, <2>2, <2>3, ErrorKeeps, TakenSame, SMTT(60)
  <2>4. CASE Error(500)
    BY <1>0, <2>2, <2>4, ErrorKeeps, TakenSame, SMTT(60)
  <2> QED  BY <2>1, <2>3, <2>4
<1>5. CASE BodyShort
  <2>1. CASE NoReceive
    <3>1. Error(500) /\ UNCHANGED << queues, peers >>
      BY <1>5 DEF BodyShort
    <3> QED  BY <1>0, <2>1, <3>1, FailedRecvKeeps
  <2>2. CASE Available \in 1 .. contentlength - len - 1 /\ Receive(len, Available)
    <3>1. /\ Available \in Nat /\ len \in 0 .. BufSize - 1 /\ len <= taken[cur]
          /\ taken[cur] \in Nat /\ BufSize \in Nat /\ len + Available <= BufSize - 1
      BY <1>0, <1>5, AvailableFacts, SMTT(60) DEF BodyShort, IInv, TypeOK, Bounds
    <3>2. len + Available <= BufSize - 1 /\ Available <= Available
      BY <3>1
    <3>3. \A i \in 0 .. len - 1 : Mine(buf[i])
      BY <1>5 DEF BodyShort, IInv, Contents
    <3>4. UNCHANGED << queues, peers >> /\ UNCHANGED msg /\ Error(500)
      BY <1>5 DEF BodyShort, peers
    <3>5. cur \in Tcp
      BY <1>5 DEF BodyShort, IInv, Bounds
    <3>6. PICK n \in Nat, l \in 0 .. BufSize - 1 : n = Available /\ l = len
      BY <3>1
    <3>7. /\ buf' \in [0 .. BufSize - 1 -> Piece] /\ taken' \in [Peer -> Nat]
          /\ \A p \in Peer : taken[p] <= taken'[p] /\ taken'[p] <= sent[p]
          /\ \A p \in Peer \ {cur} : taken'[p] = taken[p]
          /\ calls' \in [Peer -> [first : Nat, more : BOOLEAN, fail : BOOLEAN]]
      BY <1>0, <2>2, <3>2, <3>3, <3>4, <3>6, ReceiveFacts
    <3>8. \A p \in Peer \ Tcp : taken'[p] = taken[p]
      BY <3>5, <3>7
    <3> QED  BY <1>0, <3>4, <3>7, <3>8, ErrorKeeps
  <2> QED  BY <1>5, <2>1, <2>2 DEF BodyShort
<1> QED  BY <1>1, <1>2, <1>3, <1>4, <1>5

\* A new round forgets who waits.
LEMMA RestartKeeps ==
    ASSUME IInv, Restart, UNCHANGED << buf, taken >>,
           calls' \in [Peer -> [first : Nat, more : BOOLEAN, fail : BOOLEAN]]
    PROVE  IInv'
<1> USE WsdHttpAssumption
<1>1. TypeOK'
  <2>1. /\ conn' \in [Peer -> {"idle", "queued", "talking", "closed", "reset"}]
        /\ backlog' \in Seq(Tcp) /\ dgrams' \in Seq(Peer \ Tcp)
    BY DEF IInv, TypeOK, Restart
  <2>2. /\ pc' = "select" /\ cur' = NoPeer
        /\ len' = 0 /\ pos' = 0 /\ contentlength' = 0
        /\ UNCHANGED << msg, sent, shut, got, unsent, buf, taken >>
    BY DEF Restart, peers
  <2> QED  BY <2>1, <2>2, SMTT(30) DEF IInv, TypeOK
<1>2. Bounds' /\ Contents'
  BY DEF IInv, Bounds, Contents, Restart, peers, Fits
<1>3. OwnAnswer'
  BY OwnStays, TakenSame DEF Restart, peers
<1> QED  BY <1>1, <1>2, <1>3 DEF IInv

LEMMA DiesKeeps == IInv /\ Dies => IInv'
<1> SUFFICES ASSUME IInv, Dies PROVE IInv'
  OBVIOUS
<1> USE WsdHttpAssumption
<1>1. TypeOK'
  <2>1. /\ conn' \in [Peer -> {"idle", "queued", "talking", "closed", "reset"}]
        /\ backlog' \in Seq(Tcp) /\ dgrams' \in Seq(Peer \ Tcp)
    BY DEF IInv, TypeOK, Dies
  <2>2. /\ pc' = "gone" /\ cur' = NoPeer
        /\ UNCHANGED << buf, len, pos, contentlength, msg, sent, shut, taken, got, calls,
                        unsent >>
    BY DEF Dies, peers
  <2> QED  BY <2>1, <2>2, SMTT(30) DEF IInv, TypeOK
<1>2. Bounds' /\ Contents'
  BY DEF IInv, Bounds, Contents, Dies, peers, Fits
<1>3. OwnAnswer'
  BY OwnStays, TakenSame DEF Dies, peers
<1> QED  BY <1>1, <1>2, <1>3 DEF IInv

LEMMA SilenceKeeps == IInv /\ FirstSilence => IInv'
<1> SUFFICES ASSUME IInv, FirstSilence PROVE IInv'
  OBVIOUS
<1>1. cur \in Peer
  BY DEF IInv, TypeOK, FirstSilence
<1>2. calls' \in [Peer -> [first : Nat, more : BOOLEAN, fail : BOOLEAN]]
  BY <1>1, NoReceiveFacts DEF FirstSilence
<1> QED  BY <1>2, RestartKeeps DEF FirstSilence, NoReceive

LEMMA FirstEndKeeps == IInv /\ FirstEnd => IInv'
<1> SUFFICES ASSUME IInv, FirstEnd PROVE IInv'
  OBVIOUS
<1>1. cur \in Peer /\ NoReceive /\ Finish(<< >>, {}) /\ UNCHANGED << queues, peers >>
  BY DEF IInv, TypeOK, FirstEnd
<1>2. << >> \in Seq(Part) /\ {} \in SUBSET Seq(Part)
  OBVIOUS
<1>3. got'[cur] = << >> /\ \A p \in Peer \ {cur} : got'[p] = got[p]
  BY <1>1, <1>2, FinishFacts
<1>4. OwnAnswer'
  BY <1>1, <1>3, OwnStays, TakenSame DEF NoReceive, peers
<1> QED  BY <1>1, <1>2, <1>4, FinishFacts, NoReceiveFacts, EndedKeeps

LEMMA CutStartKeeps == IInv /\ CutStart => IInv'
<1> SUFFICES ASSUME IInv, CutStart PROVE IInv'
  OBVIOUS
<1>1. /\ cur \in Peer /\ Finish(<< >>, {}) /\ buf' = [buf EXCEPT ![0] = NUL]
      /\ Count(0) /\ UNCHANGED << queues, peers, taken >>
  BY DEF IInv, TypeOK, CutStart
<1>2. << >> \in Seq(Part) /\ {} \in SUBSET Seq(Part)
  OBVIOUS
<1>3. got'[cur] = << >> /\ \A p \in Peer \ {cur} : got'[p] = got[p]
  BY <1>1, <1>2, FinishFacts
<1>4. OwnAnswer'
  BY <1>1, <1>3, OwnStays, TakenSame DEF peers
<1>5. buf' \in [0 .. BufSize - 1 -> Piece]
  BY <1>1, NulIsPiece DEF IInv, TypeOK
<1>6. calls' \in [Peer -> [first : Nat, more : BOOLEAN, fail : BOOLEAN]]
  BY <1>1, CountType
<1> QED  BY <1>1, <1>2, <1>4, <1>5, <1>6, TakenSame, FinishFacts, EndedKeeps

\* An answer is made of an action and an ID that lie before the NUL.
LEMMA AnswerKeeps == IInv /\ (Answer \/ NoAnswer) => IInv'
<1> SUFFICES ASSUME IInv, Answer \/ NoAnswer PROVE IInv'
  OBVIOUS
<1> USE WsdHttpAssumption
<1>1. cur \in Peer /\ pc = "soap" /\ UNCHANGED << queues, buf, peers, taken, calls >>
  BY DEF IInv, TypeOK, Answer, NoAnswer
<1>2. \A p \in Peer : taken'[p] \in Nat /\ taken[p] <= taken'[p]
  BY <1>1, TakenSame
<1>3. CASE NoAnswer
  <2>1. << >> \in Seq(Part) /\ {} \in SUBSET Seq(Part) /\ Finish(<< >>, {})
    BY <1>3 DEF NoAnswer
  <2>2. got'[cur] = << >> /\ \A p \in Peer \ {cur} : got'[p] = got[p]
    BY <1>1, <2>1, FinishFacts
  <2>3. OwnAnswer'
    BY <1>1, <1>2, <2>2, OwnStays DEF peers
  <2> QED  BY <1>1, <2>1, <2>3, FinishFacts, TakenSame, EndedKeeps
<1>4. CASE Answer
  <2> DEFINE status == [kind |-> "status", val |-> 200]
             match(i, j) == [kind |-> buf[i].kind, val |-> buf[j].val]
  <2>1. PICK i \in 0 .. BufSize - 1, j \in 0 .. BufSize - 1 :
           /\ Answerable(i, j)
           /\ \/ Finish(<< status, match(i, j) >>, {<< status >>, << >>})
              \/ Finish(<< match(i, j) >>, {<< >>})
    BY <1>4, ZenonT(60) DEF Answer, GetResponse, Match, SoapMsg, StatusLine
  <2>2. PICK e \in 0 .. BufSize - 1 : buf[e] = NUL /\ \A k \in 0 .. e - 1 : Mine(buf[k])
    BY <1>1 DEF IInv, Contents
  <2>3. i \in 0 .. e - 1 /\ j \in 0 .. e - 1
    <3>1. (\A k \in 0 .. i : buf[k] # NUL) /\ (\A k \in 0 .. j : buf[k] # NUL)
      BY <2>1 DEF Answerable, Parsed, FirstOf
    <3>2. e \notin 0 .. i /\ e \notin 0 .. j
      BY <2>2, <3>1
    <3> QED  BY <3>2
  <2>4. /\ \E k \in 1 .. taken[cur] : msg[cur][k].kind = buf[i].kind
        /\ \E k \in 1 .. taken[cur] : msg[cur][k] = buf[j]
    BY <2>2, <2>3 DEF Mine
  <2>5. buf[i] \in Piece /\ buf[j] \in Piece
    BY DEF IInv, TypeOK
  <2>6. buf[i].kind \in Asked /\ buf[j].kind = "id" /\ buf[j].val \in Nat
    BY <2>1, <2>5 DEF Answerable, Parsed, FirstOf, Piece
  <2>7. buf[j] = [kind |-> "id", val |-> buf[j].val]
    BY <2>5, <2>6 DEF Piece
  <2> DEFINE m == match(i, j)
  <2>8. /\ m \in Part /\ status \in Part /\ status.kind \notin Asked
        /\ m.kind = buf[i].kind /\ m.val = buf[j].val
    BY <2>6 DEF Part, Asked
  <2> HIDE DEF status, match, m
  <2>9. /\ << status, m >> \in Seq(Part) /\ << m >> \in Seq(Part)
        /\ {<< status >>, << >>} \in SUBSET Seq(Part) /\ {<< >>} \in SUBSET Seq(Part)
    BY <2>8
  <2>10. Finish(<< status, m >>, {<< status >>, << >>}) \/ Finish(<< m >>, {<< >>})
    BY <2>1 DEF m
  <2>11. /\ got'[cur] \in {<< status, m >>, << status >>, << m >>, << >>}
         /\ \A p \in Peer \ {cur} : got'[p] = got[p]
    BY <1>1, <2>9, <2>10, FinishFacts
  <2>12. \A k \in DOMAIN got'[cur] : got'[cur][k].kind \in Asked => got'[cur][k] = m
    BY <2>8, <2>11
  <2>13. taken'[cur] = taken[cur] /\ msg' = msg /\ \A p \in Peer : taken'[p] = taken[p]
    BY <1>1 DEF peers
  <2>14. ASSUME NEW p \in Peer, NEW k \in DOMAIN got'[p], got'[p][k].kind \in Asked
         PROVE  /\ \E l \in 1 .. taken'[p] : msg'[p][l].kind = got'[p][k].kind
                /\ \E l \in 1 .. taken'[p] :
                      msg'[p][l] = [kind |-> "id", val |-> got'[p][k].val]
    <3>1. CASE p = cur
      BY <2>4, <2>7, <2>8, <2>12, <2>13, <2>14, <3>1
    <3>2. CASE p # cur
      <4>1. got'[p] = got[p]
        BY <2>11, <3>2
      <4>2. /\ \E l \in 1 .. taken[p] : msg[p][l].kind = got[p][k].kind
            /\ \E l \in 1 .. taken[p] :
                  msg[p][l] = [kind |-> "id", val |-> got[p][k].val]
        BY <2>14, <4>1 DEF IInv, OwnAnswer
      <4> QED  BY <2>13, <4>1, <4>2
    <3> QED  BY <3>1, <3>2
  <2>15. OwnAnswer'
    BY <2>14 DEF OwnAnswer
  <2>16. /\ pc' = "select" /\ cur' = NoPeer /\ len' = 0 /\ pos' = 0 /\ contentlength' = 0
         /\ conn' \in [Peer -> {"idle", "queued", "talking", "closed", "reset"}]
         /\ got' \in [Peer -> Seq(Part)] /\ unsent' \subseteq Peer
    BY <1>1, <2>9, <2>10, FinishFacts
  <2> QED  BY <1>1, <2>15, <2>16, TakenSame, EndedKeeps
<1> QED  BY <1>3, <1>4

\* recv() steps that go on: the text grows by what has come.
LEMMA RecvKeeps == IInv /\ (FirstRecv \/ More \/ Body) => IInv'
<1> SUFFICES ASSUME IInv, FirstRecv \/ More \/ Body PROVE IInv'
  OBVIOUS
<1> USE WsdHttpAssumption
<1>0. cur \in Peer /\ UNCHANGED << queues, cur, pos, contentlength, conn, peers, got, unsent >>
  BY DEF IInv, TypeOK, FirstRecv, More, Body
<1>a. /\ Available \in Nat /\ len \in 0 .. BufSize - 1 /\ taken[cur] \in Nat
      /\ taken[cur] + Available <= Len(msg[cur]) /\ Len(msg[cur]) \in Nat
      /\ len + Available <= BufSize - 1
      /\ BufSize \in Nat /\ len <= taken[cur] /\ contentlength \in Nat
  BY <1>0, AvailableFacts DEF IInv, TypeOK, Bounds, FirstRecv, More, Body
<1>b. UNCHANGED msg /\ cur \in Tcp
  BY <1>0 DEF peers, FirstRecv, More, Body, IInv, Bounds
\* Whatever the room asked for, at the end of at pieces that are the peer's.
<1>c. ASSUME NEW at \in 0 .. BufSize - 1, NEW n \in Nat, n <= Available,
             at + n <= BufSize - 1, Receive(at, n),
             \A i \in 0 .. at - 1 : Mine(buf[i]),
             len' \in 0 .. BufSize - 1, len' <= taken[cur] + n,
             \/ pc' \in {"request", "lines"} /\ len' = at + n
             \/ pc' = "soap"
      PROVE  IInv'
  <2>1. /\ buf' \in [0 .. BufSize - 1 -> Piece]
        /\ taken' \in [Peer -> Nat] /\ taken'[cur] = taken[cur] + n
        /\ \A p \in Peer : taken[p] <= taken'[p] /\ taken'[p] <= sent[p]
        /\ \A p \in Peer \ {cur} : taken'[p] = taken[p]
        /\ calls' \in [Peer -> [first : Nat, more : BOOLEAN, fail : BOOLEAN]]
        /\ buf'[at + n] = NUL
        /\ \A i \in 0 .. at + n - 1 : \E j \in 1 .. taken'[cur] : msg[cur][j] = buf'[i]
    BY <1>0, <1>b, <1>c, ReceiveFacts
  <2>2. TypeOK'
    BY <1>0, <1>c, <2>1 DEF IInv, TypeOK, queues, peers
  <2>3. Bounds'
    BY <1>0, <1>b, <1>c, <2>1 DEF IInv, Bounds, queues, peers, Fits
  <2>4. cur' = cur /\ msg' = msg
    BY <1>0 DEF peers
  <2>5. at + n \in 0 .. BufSize - 1
    BY <1>a, <1>c
  <2>6. Contents'
    <3>1. CASE pc' \in {"request", "lines"} /\ len' = at + n
      <4>1. /\ buf'[len'] = NUL
            /\ \A i \in 0 .. len' - 1 : \E j \in 1 .. taken'[cur'] : msg'[cur'][j] = buf'[i]
        BY <2>1, <2>4, <3>1
      <4> QED  BY <3>1, <4>1 DEF Contents, Mine
    <3>2. CASE pc' = "soap"
      <4>1. \E e \in 0 .. BufSize - 1 :
               buf'[e] = NUL /\ \A i \in 0 .. e - 1 :
                                   \E j \in 1 .. taken'[cur'] : msg'[cur'][j] = buf'[i]
        BY <2>1, <2>4, <2>5
      <4> QED  BY <3>2, <4>1 DEF Contents, Mine
    <3> QED  BY <1>c, <3>1, <3>2
  <2>7. OwnAnswer'
    BY <1>0, <2>1, <2>4, OwnStays
  <2> QED  BY <2>2, <2>3, <2>6, <2>7 DEF IInv
<1>1. CASE FirstRecv
  <2>1. Receive(0, Available) /\ len' = Available /\ pc' \in {"request", "soap"}
    BY <1>1 DEF FirstRecv
  <2>2. 0 \in 0 .. BufSize - 1 /\ 0 + Available <= BufSize - 1 /\ Available <= Available
        /\ len' \in 0 .. BufSize - 1 /\ len' <= taken[cur] + Available
        /\ len' = 0 + Available
    BY <1>1, <1>a, <2>1 DEF FirstRecv, IInv, Bounds
  <2> QED  BY <1>a, <1>c, <2>1, <2>2
<1>2. CASE More
  <2>1. /\ Receive(len, Available) /\ len' = len + Available /\ pc' = "lines"
        /\ \A i \in 0 .. len - 1 : Mine(buf[i])
    BY <1>2 DEF More, IInv, Contents
  <2>2. len + Available <= BufSize - 1 /\ Available <= Available
        /\ len' \in 0 .. BufSize - 1 /\ len' <= taken[cur] + Available
    BY <1>a, <2>1, SMTT(60)
  <2> QED  BY <1>a, <1>c, <2>1, <2>2
<1>3. CASE Body
  <2>0. PICK n \in Int : n = contentlength - len
    BY <1>a
  <2>1. /\ Receive(len, n) /\ len' = len /\ pc' = "soap" /\ n <= Available
        /\ \A i \in 0 .. len - 1 : Mine(buf[i])
    BY <1>3, <1>a, <2>0 DEF Body, IInv, Contents
  <2>2. pc = "body" /\ contentlength \in len + 1 .. BufSize - 1
    BY <1>3 DEF Body, IInv, Bounds
  <2>3. n \in Nat /\ len + n <= BufSize - 1 /\ len' \in 0 .. BufSize - 1
        /\ len' <= taken[cur] + n
    BY <1>a, <2>0, <2>1, <2>2, SMTT(60)
  <2> QED  BY <1>a, <1>c, <2>1, <2>3
<1> QED  BY <1>1, <1>2, <1>3

\* memmove() with p at k, somewhere in the text: the rest of it, and its NUL.
LEMMA MoveDownFacts ==
    ASSUME IInv, NEW k \in 0 .. len, MoveDown(k), pc = "lines", UNCHANGED << cur, msg, taken >>
    PROVE  /\ buf' \in [0 .. BufSize - 1 -> Piece]
           /\ len' = len - k /\ len' \in 0 .. len /\ buf'[len'] = NUL
           /\ \A i \in 0 .. len' - 1 : Mine(buf[i])'
<1> USE WsdHttpAssumption
<1>1. len \in 0 .. BufSize - 1 /\ BufSize \in Nat /\ len - k \in 0 .. len
  BY DEF IInv, TypeOK
<1>2. /\ len' = len - k
      /\ buf' = [i \in 0 .. BufSize - 1 |->
                  IF i < len - k THEN buf[i + k] ELSE IF i = len - k THEN NUL ELSE buf[i]]
  BY DEF MoveDown
<1>3. \A i \in 0 .. BufSize - 1 : i < len - k => i + k \in 0 .. len - 1
  BY <1>1
<1>4. \A i \in 0 .. len - 1 : i \in 0 .. BufSize - 1
  BY <1>1
<1>5. buf' \in [0 .. BufSize - 1 -> Piece]
  BY <1>2, <1>3, <1>4, NulIsPiece DEF IInv, TypeOK
<1>6. buf'[len'] = NUL
  BY <1>1, <1>2
<1>7. \A i \in 0 .. len' - 1 : buf'[i] = buf[i + k] /\ i + k \in 0 .. len - 1
  BY <1>1, <1>2
<1>8. \A i \in 0 .. len - 1 : Mine(buf[i])
  BY DEF IInv, Contents
<1>9. \A i \in 0 .. len' - 1 : Mine(buf[i])'
  BY <1>7, <1>8 DEF Mine
<1> QED  BY <1>1, <1>2, <1>5, <1>6, <1>9

LEMMA HeaderKeeps == IInv /\ (EndOfHeader \/ Unfinished) => IInv'
<1> SUFFICES ASSUME IInv, EndOfHeader \/ Unfinished PROVE IInv'
  OBVIOUS
<1> USE WsdHttpAssumption
<1>1. /\ pc = "lines" /\ cur \in Peer /\ pc' \in {"length", "more"}
      /\ UNCHANGED << queues, cur, conn, peers, taken, got, calls, unsent >>
  BY DEF IInv, TypeOK, EndOfHeader, Unfinished
<1>2. PICK k \in pos .. len : /\ SetLength(k) /\ StopsAt(k)
                              /\ \/ MoveDown(k + 1) /\ pos' = k + 1 /\ buf[k].kind = "blank"
                                 \/ MoveDown(k) /\ pos' = k
  BY DEF EndOfHeader, Unfinished
<1>3. len \in 0 .. BufSize - 1 /\ pos \in 0 .. BufSize - 1 /\ BufSize \in Nat
  BY DEF IInv, TypeOK
<1>4. buf[len] = NUL
  BY <1>1 DEF IInv, Contents
<1>5. buf[k].kind = "blank" => k + 1 \in 0 .. len
  <2>1. buf[k].kind = "blank" => k # len
    BY <1>4 DEF NUL
  <2> QED  BY <1>3, <2>1
<1>6. PICK d \in 0 .. len : MoveDown(d) /\ pos' = d
  BY <1>2, <1>3, <1>5
<1>7. UNCHANGED << cur, msg, taken >>
  BY <1>1 DEF peers
<1>8. /\ buf' \in [0 .. BufSize - 1 -> Piece]
      /\ len' = len - d /\ len' \in 0 .. len /\ buf'[len'] = NUL
      /\ \A i \in 0 .. len' - 1 : Mine(buf[i])'
  BY <1>1, <1>6, <1>7, MoveDownFacts
<1>9. contentlength' \in Nat
  <2>1. \A j \in pos .. k - 1 : buf[j].val \in Nat
    <3> SUFFICES ASSUME NEW j \in pos .. k - 1 PROVE buf[j].val \in Nat
      OBVIOUS
    <3>1. j \in 0 .. BufSize - 1
      BY <1>3
    <3>2. buf[j] \in Piece
      BY <3>1 DEF IInv, TypeOK
    <3> QED  BY <3>2 DEF Piece
  <2>2. contentlength \in Nat
    BY DEF IInv, TypeOK
  <2> QED  BY <1>2, <2>1, <2>2 DEF SetLength
<1>10. len' \in 0 .. BufSize - 1 /\ pos' \in 0 .. BufSize - 1
  BY <1>3, <1>6, <1>8
<1>11. TypeOK'
  BY <1>1, <1>8, <1>9, <1>10 DEF IInv, TypeOK, queues, peers
<1>12. len' <= taken[cur]
  <2>1. len <= taken[cur] /\ taken[cur] \in Nat
    BY <1>1 DEF IInv, TypeOK, Bounds
  <2> QED  BY <1>3, <1>8, <2>1
<1>13. Bounds'
  BY <1>1, <1>7, <1>12 DEF IInv, Bounds, queues, peers, Fits
<1>14. Contents'
  BY <1>1, <1>8 DEF Contents
<1>15. OwnAnswer'
  BY <1>1, <1>7, OwnStays, TakenSame
<1> QED  BY <1>11, <1>13, <1>14, <1>15 DEF IInv

\* The body is cut behind contentlength: before it or there, a NUL ends the text.
LEMMA TruncateKeeps == IInv /\ (Enough \/ BodySilence) => IInv'
<1> SUFFICES ASSUME IInv, Enough \/ BodySilence PROVE IInv'
  OBVIOUS
<1> USE WsdHttpAssumption
<1>1. /\ pc \in {"length", "body"} /\ cur \in Peer /\ pc' = "soap" /\ Truncate
      /\ UNCHANGED << queues, cur, len, pos, contentlength, conn, peers, taken, got, unsent >>
  BY DEF IInv, TypeOK, Enough, BodySilence
<1>2. contentlength \in Nat /\ len \in 0 .. BufSize - 1 /\ BufSize \in Nat
      /\ contentlength \in 0 .. BufSize - 1
  BY DEF IInv, TypeOK, Bounds, Enough, BodySilence
<1>3. calls' \in [Peer -> [first : Nat, more : BOOLEAN, fail : BOOLEAN]]
  BY <1>1, CountType, TakenSame DEF Enough, BodySilence
<1>4. buf' = [buf EXCEPT ![contentlength] = NUL]
  BY <1>1 DEF Truncate
<1>5. buf' \in [0 .. BufSize - 1 -> Piece]
  BY <1>4, NulIsPiece DEF IInv, TypeOK
<1>6. UNCHANGED << cur, msg, taken >>
  BY <1>1 DEF peers
<1>7. TypeOK'
  BY <1>1, <1>3, <1>5 DEF IInv, TypeOK, queues, peers
<1>8. Bounds'
  BY <1>1, <1>6 DEF IInv, Bounds, queues, peers, Fits
<1>9. Contents'
  <2>1. PICK e \in 0 .. BufSize - 1 : e <= contentlength /\ e <= len
                                      /\ (e = contentlength \/ e = len)
    BY <1>2
  <2>2. buf[len] = NUL /\ \A i \in 0 .. len - 1 : Mine(buf[i])
    BY <1>1 DEF IInv, Contents
  <2>3. buf'[e] = NUL
    BY <1>2, <1>4, <2>1, <2>2 DEF IInv, TypeOK
  <2>4. \A i \in 0 .. e - 1 : buf'[i] = buf[i] /\ i \in 0 .. len - 1
    BY <1>2, <1>4, <2>1 DEF IInv, TypeOK
  <2>5. \A i \in 0 .. e - 1 : Mine(buf[i])'
    BY <1>6, <2>2, <2>4 DEF Mine
  <2> QED  BY <1>1, <2>3, <2>5 DEF Contents
<1>10. OwnAnswer'
  BY <1>1, <1>6, OwnStays, TakenSame
<1> QED  BY <1>7, <1>8, <1>9, <1>10 DEF IInv

\* A datagram is taken as far as there is room.
LEMMA RecvFromKeeps == IInv /\ RecvFrom => IInv'
<1> SUFFICES ASSUME IInv, RecvFrom PROVE IInv'
  OBVIOUS
<1> USE WsdHttpAssumption
<1> DEFINE p == Head(dgrams)
             n == Fits(p)
<1>1. dgrams \in Seq(Peer \ Tcp) /\ dgrams # << >>
  BY DEF IInv, TypeOK, RecvFrom
<1>2. p \in Peer /\ Len(dgrams) \in Nat \ {0} /\ p = dgrams[1]
      /\ Tail(dgrams) \in Seq(Peer \ Tcp)
      /\ Len(Tail(dgrams)) = Len(dgrams) - 1
      /\ \A k \in 1 .. Len(dgrams) - 1 : Tail(dgrams)[k] = dgrams[k + 1]
  BY <1>1
<1>3. /\ cur' = p /\ len' = n /\ pc' = "soap" /\ dgrams' = Tail(dgrams)
      /\ conn' = [conn EXCEPT ![p] = "talking"]
      /\ buf' = [i \in 0 .. BufSize - 1 |->
                     IF i < n THEN msg[p][i + 1]
                     ELSE IF i = n THEN NUL ELSE buf[i]]
      /\ taken' = [taken EXCEPT ![p] = n]
      /\ calls' = [calls EXCEPT ![p].first = n]
      /\ UNCHANGED << backlog, pos, contentlength, peers, got, unsent >>
  BY DEF RecvFrom
<1>b. n = Fits(p) /\ p \in Peer \ Tcp
  BY <1>1, <1>2
<1> HIDE DEF p, n
<1>4. msg[p] \in Request[p]
  BY <1>2 DEF IInv, Bounds
<1>a. msg[p] \in Seq(Piece) /\ Len(msg[p]) \in Nat \ {0} /\ BufSize \in Nat \ {0, 1}
  BY <1>2, <1>4, RequestFacts
<1>5. n \in 1 .. BufSize - 1 /\ n \in 1 .. Len(msg[p]) /\ BufSize \in Nat
  BY <1>a DEF n, Fits
<1>6. sent[p] = Len(msg[p])
  BY <1>2 DEF IInv, Bounds
<1>7. \A i \in 0 .. BufSize - 1 : i < n => i + 1 \in 1 .. Len(msg[p])
  BY <1>5, <1>a
<1>8. buf' \in [0 .. BufSize - 1 -> Piece]
  BY <1>3, <1>5, <1>a, <1>7, NulIsPiece, SMTT(60) DEF IInv, TypeOK
<1>9. /\ taken' \in [Peer -> Nat] /\ taken'[p] = n
      /\ \A q \in Peer : taken[q] <= taken'[q] /\ taken'[q] <= sent[q]
  <2>1. taken' \in [Peer -> Nat] /\ taken'[p] = n
    BY <1>2, <1>3, <1>5, SMTT(60) DEF IInv, TypeOK
  <2>2. ASSUME NEW q \in Peer PROVE taken[q] <= taken'[q] /\ taken'[q] <= sent[q]
    <3>1. taken[q] \in Nat /\ sent[q] \in Nat /\ taken[q] <= sent[q]
      BY DEF IInv, TypeOK
    <3>2. taken'[q] = IF q = p THEN n ELSE taken[q]
      BY <1>3 DEF IInv, TypeOK
    <3>3. taken[p] \in {0, n}
      BY <1>1, <1>2, <1>b DEF IInv, Bounds
    <3> QED  BY <1>5, <1>6, <3>1, <3>2, <3>3
  <2> QED  BY <2>1, <2>2
<1>10. calls' \in [Peer -> [first : Nat, more : BOOLEAN, fail : BOOLEAN]]
  <2>1. calls[p] \in [first : Nat, more : BOOLEAN, fail : BOOLEAN]
    BY <1>2 DEF IInv, TypeOK
  <2>2. [calls[p] EXCEPT !.first = n] \in [first : Nat, more : BOOLEAN, fail : BOOLEAN]
    BY <1>5, <2>1
  <2> QED  BY <1>3, <2>2 DEF IInv, TypeOK
<1>11. len' \in 0 .. BufSize - 1
  BY <1>3, <1>5
<1>12. msg' = msg /\ sent' = sent
  BY <1>3 DEF peers
<1>13. TypeOK'
  BY <1>2, <1>3, <1>8, <1>9, <1>10, <1>11 DEF IInv, TypeOK, peers
<1>14. Bounds'
  <2>1. \A k \in 1 .. Len(dgrams') : sent'[dgrams'[k]] = Len(msg'[dgrams'[k]])
    BY <1>2, <1>3, <1>12 DEF IInv, Bounds
  <2>2. \A q \in Peer \ Tcp : taken'[q] \in {0, Fits(q)'}
    BY <1>3, <1>b, <1>12 DEF IInv, TypeOK, Bounds, Fits
  <2> QED  BY <1>3, <1>5, <1>9, <1>12, <2>1, <2>2 DEF IInv, Bounds
<1>15. Contents'
  <2>1. buf'[n] = NUL
    BY <1>3, <1>5
  <2>2. \A i \in 0 .. n - 1 : buf'[i] = msg[p][i + 1]
    BY <1>3, <1>5
  <2>3. \A i \in 0 .. n - 1 : i + 1 \in 1 .. taken'[p]
    BY <1>5, <1>9
  <2>4. \A i \in 0 .. n - 1 :
           \E j \in 1 .. taken'[cur'] : msg'[cur'][j] = buf'[i]
    BY <1>3, <1>12, <2>2, <2>3
  <2>5. n \in 0 .. BufSize - 1
    BY <1>5
  <2> QED  BY <1>3, <2>1, <2>4, <2>5 DEF Contents, Mine
<1>16. OwnAnswer'
  BY <1>3, <1>9, <1>12, OwnStays
<1> QED  BY <1>13, <1>14, <1>15, <1>16 DEF IInv

\* Steps of the handler that touch neither the buffer nor a socket.
LEMMA MovesKeep == IInv /\ (Accept \/ GoodRequestLine \/ Short) => IInv'
<1> SUFFICES ASSUME IInv, Accept \/ GoodRequestLine \/ Short PROVE IInv'
  OBVIOUS
<1> USE WsdHttpAssumption
<1>1. UNCHANGED << dgrams, buf, len, contentlength, msg, sent, shut, taken, got, calls, unsent >>
  BY DEF Accept, GoodRequestLine, Short, peers, queues
<1>2. OwnAnswer'
  BY <1>1, OwnStays, TakenSame
<1>3. CASE Accept
  <2>1. Head(backlog) \in Tcp /\ Tail(backlog) \in Seq(Tcp) /\ Head(backlog) \in Peer
    BY <1>3 DEF Accept, IInv, TypeOK
  <2>2. TypeOK'
    BY <1>1, <1>3, <2>1 DEF Accept, IInv, TypeOK
  <2>3. len = 0
    BY <1>3 DEF Accept, IInv, Bounds
  <2>4. taken[cur'] \in Nat
    BY <1>3, <2>1 DEF Accept, IInv, TypeOK
  <2>5. Bounds' /\ Contents'
    BY <1>1, <1>3, <2>1, <2>3, <2>4 DEF Accept, IInv, Bounds, Contents, Fits
  <2> QED  BY <1>2, <2>2, <2>5 DEF IInv
<1>4. CASE GoodRequestLine
  <2>1. cur \in Peer
    BY <1>4 DEF GoodRequestLine, IInv, TypeOK
  <2>2. BufSize - 1 >= 1
    BY <2>1, AvailableFacts
  <2>3. TypeOK'
    BY <1>1, <1>4, <2>2, SMTT(60) DEF GoodRequestLine, IInv, TypeOK, queues
  <2>4. Bounds' /\ Contents'
    BY <1>1, <1>4 DEF GoodRequestLine, IInv, Bounds, Contents, Mine, queues, Fits
  <2> QED  BY <1>2, <2>3, <2>4 DEF IInv
<1>5. CASE Short
  <2>1. TypeOK'
    BY <1>1, <1>5 DEF Short, IInv, TypeOK, queues
  <2>2. Bounds' /\ Contents'
    BY <1>1, <1>5 DEF Short, IInv, Bounds, Contents, Mine, queues, Fits
  <2> QED  BY <1>2, <2>1, <2>2 DEF IInv
<1> QED  BY <1>3, <1>4, <1>5

\* A peer adds to what it has sent; what has been taken stays what it was.
LEMMA PeersKeep == IInv /\ Peers => IInv'
<1> SUFFICES ASSUME IInv, NEW p \in Peer, Connect(p) \/ Datagram(p) \/ Send(p) \/ Shut(p)
             PROVE  IInv'
  BY DEF Peers
<1> USE WsdHttpAssumption
<1>1. UNCHANGED << handler, msg, taken, got, calls, unsent >>
  BY DEF Connect, Datagram, Send, Shut, peers
<1>2. OwnAnswer'
  BY <1>1, OwnStays, TakenSame
<1>3. Contents'
  BY <1>1 DEF IInv, Contents, Mine, handler
<1>4. msg[p] \in Seq(Piece) /\ Len(msg[p]) \in Nat /\ sent[p] \in Nat
      /\ taken[p] \in Nat /\ taken[p] <= sent[p] /\ sent[p] <= Len(msg[p])
  BY DEF IInv, TypeOK
<1>5. CASE Connect(p)
  <2>1. TypeOK'
    BY <1>1, <1>5, SMTT(60) DEF Connect, IInv, TypeOK, handler, peers
  <2>2. Bounds'
    BY <1>1, <1>5 DEF Connect, IInv, Bounds, Fits, handler, peers
  <2> QED  BY <1>2, <1>3, <2>1, <2>2 DEF IInv
<1>6. CASE Datagram(p)
  <2>1. /\ dgrams' = Append(dgrams, p) /\ p \in Peer \ Tcp /\ dgrams \in Seq(Peer \ Tcp)
        /\ sent' = [sent EXCEPT ![p] = Len(msg[p])] /\ sent'[p] = Len(msg[p])
    BY <1>6 DEF Datagram, IInv, TypeOK
  <2>2. \A q \in Peer : sent'[q] = IF q = p THEN Len(msg[p]) ELSE sent[q]
    BY <2>1 DEF IInv, TypeOK
  <2>3. ASSUME NEW q \in Peer PROVE taken[q] <= sent'[q] /\ sent'[q] <= Len(msg[q])
    <3>1. /\ msg[q] \in Seq(Piece) /\ Len(msg[q]) \in Nat /\ sent[q] \in Nat
          /\ taken[q] \in Nat /\ taken[q] <= sent[q] /\ sent[q] <= Len(msg[q])
      BY DEF IInv, TypeOK
    <3> QED  BY <2>2, <3>1
  <2>a. dgrams' \in Seq(Peer \ Tcp)
    BY <2>1
  <2>b. sent' \in [Peer -> Nat]
    BY <1>4, <2>1 DEF IInv, TypeOK
  <2>4. TypeOK'
    BY <1>1, <1>6, <2>3, <2>a, <2>b DEF Datagram, IInv, TypeOK, handler
  <2>5. \A k \in 1 .. Len(dgrams') : \/ k \in 1 .. Len(dgrams) /\ dgrams'[k] = dgrams[k]
                                     \/ dgrams'[k] = p
    BY <2>1
  <2>6. \A k \in 1 .. Len(dgrams) : dgrams[k] \in Peer
    BY <2>1
  <2>7. \A k \in 1 .. Len(dgrams') : sent'[dgrams'[k]] = Len(msg[dgrams'[k]])
    BY <2>2, <2>5, <2>6 DEF IInv, Bounds
  <2>8. Bounds'
    BY <1>1, <2>7 DEF IInv, Bounds, Fits, handler
  <2> QED  BY <1>2, <1>3, <2>4, <2>8 DEF IInv
<1>7. CASE Send(p)
  <2>1. p \in Tcp /\ sent' = [sent EXCEPT ![p] = @ + 1] /\ sent[p] < Len(msg[p])
        /\ UNCHANGED << queues, conn, shut >>
    BY <1>7 DEF Send
  <2>2. \A q \in Peer : sent'[q] = IF q = p THEN sent[p] + 1 ELSE sent[q]
    BY <2>1 DEF IInv, TypeOK
  <2>3. \A q \in Peer : taken[q] <= sent'[q] /\ sent'[q] <= Len(msg[q])
    BY <1>4, <2>1, <2>2 DEF IInv, TypeOK
  <2>4. sent' \in [Peer -> Nat]
    BY <1>4, <2>1 DEF IInv, TypeOK
  <2>5. TypeOK'
    BY <1>1, <2>1, <2>3, <2>4 DEF IInv, TypeOK, handler, queues
  <2>6. \A k \in 1 .. Len(dgrams) : dgrams[k] \in Peer \ Tcp
    BY DEF IInv, TypeOK
  <2>7. Bounds'
    BY <1>1, <2>1, <2>2, <2>6 DEF IInv, Bounds, Fits, handler, queues
  <2> QED  BY <1>2, <1>3, <2>5, <2>7 DEF IInv
<1>8. CASE Shut(p)
  <2>1. TypeOK'
    BY <1>1, <1>8 DEF Shut, IInv, TypeOK, handler, queues
  <2>2. Bounds'
    BY <1>1, <1>8 DEF Shut, IInv, Bounds, Fits, handler, queues
  <2> QED  BY <1>2, <1>3, <2>1, <2>2 DEF IInv
<1> QED  BY <1>5, <1>6, <1>7, <1>8

LEMMA IInvNext == IInv /\ [Next]_vars => IInv'
<1> SUFFICES ASSUME IInv, [Next]_vars PROVE IInv'
  OBVIOUS
<1>1. CASE NewRound
  BY <1>1, RestartKeeps, TakenSame DEF NewRound
<1>2. CASE UNCHANGED vars
  <2>1. TypeOK'
    BY <1>2 DEF vars, queues, handler, peers, IInv, TypeOK
  <2>2. Bounds'
    BY <1>2 DEF vars, queues, handler, peers, IInv, Bounds, Fits
  <2>3. Contents'
    BY <1>2 DEF vars, queues, handler, peers, IInv, Contents, Mine
  <2>4. OwnAnswer'
    BY <1>2, OwnStays, TakenSame DEF vars, queues, handler, peers
  <2> QED  BY <2>1, <2>2, <2>3, <2>4 DEF IInv
<1> QED
  BY <1>1, <1>2, RefusalsKeep, DiesKeeps, SilenceKeeps, FirstEndKeeps, CutStartKeeps,
     AnswerKeeps, RecvKeeps, HeaderKeeps, TruncateKeeps, RecvFromKeeps, MovesKeep, PeersKeep
  DEF Next, Handler, Cut, CutRequestLine, Wraps

-----------------------------------------------------------------------------

\* Every variable keeps its type: the cursor, the length and the offset at which
\* recv() writes stay inside the buffer in every call that goes on.
THEOREM TypeCorrect == Spec => []TypeOK
<1>1. IInv => TypeOK  BY DEF IInv
<1> QED  BY IInvInit, IInvNext, <1>1, PTL DEF Spec

\* OwnAnswer: however requests are cut and interleaved, wsd_recv() answers a peer with
\* an action and a message ID that this peer has sent.
THEOREM AnswersAreOwn == Spec => []OwnAnswer
<1>1. IInv => OwnAnswer  BY DEF IInv
<1> QED  BY IInvInit, IInvNext, <1>1, PTL DEF Spec

-----------------------------------------------------------------------------
(* The first and the last of some places.                                  *)

LEMMA Least ==
    ASSUME NEW T \in SUBSET Nat, T # {}
    PROVE  \E x \in T : \A y \in T : x <= y
<1> DEFINE R == OpToRel(<, Nat)
<1>1. IsWellFoundedOn(R, Nat)
  BY NatLessThanWellFounded
<1>2. \A x, y \in Nat : y < x => << y, x >> \in R
  BY DEF OpToRel
<1> HIDE DEF R
<1>3. PICK x \in T : \A y \in T : ~(<< y, x >> \in R)
  BY <1>1, WFMin
<1>4. \A y \in T : ~(y < x)
  BY <1>2, <1>3
<1> QED  BY <1>3, <1>4

LEMMA FirstInFacts ==
    ASSUME NEW m, NEW S, NEW from \in Int, NEW to \in Int
    PROVE  LET f == FirstIn(m, S, from, to) IN
           /\ (\E i \in from .. to : m[i].kind \in S) =>
                 /\ f \in from .. to /\ m[f].kind \in S
                 /\ \A i \in from .. f - 1 : m[i].kind \notin S
           /\ (\A i \in from .. to : m[i].kind \notin S) => f = 0
<1>1. CASE \A i \in from .. to : m[i].kind \notin S
  BY <1>1 DEF FirstIn
<1>2. CASE \E i \in from .. to : m[i].kind \in S
  <2> DEFINE T == {d \in Nat : d <= to - from /\ m[from + d].kind \in S}
  <2>1. PICK i \in from .. to : m[i].kind \in S
    BY <1>2
  <2>2. i - from \in Nat /\ i - from <= to - from /\ from + (i - from) = i
    OBVIOUS
  <2>3. i - from \in T
    BY <2>1, <2>2
  <2>4. PICK d \in T : \A e \in T : d <= e
    BY <2>3, Least
  <2>5. d \in Nat /\ d <= to - from /\ m[from + d].kind \in S
    BY <2>4
  <2>6. ASSUME NEW j \in from .. from + d - 1 PROVE m[j].kind \notin S
    <3>1. /\ j - from \in Nat /\ j - from <= to - from /\ from + (j - from) = j
          /\ ~(d <= j - from)
      BY <2>5
    <3> QED  BY <2>4, <3>1
  <2> HIDE DEF T
  <2>7. from + d \in from .. to
    BY <2>5
  <2>8. \E k \in from .. to : m[k].kind \in S /\ \A j \in from .. k - 1 : m[j].kind \notin S
    BY <2>5, <2>6, <2>7
  <2> QED  BY <1>2, <2>8, Zenon DEF FirstIn
<1> QED  BY <1>1, <1>2

LEMMA FirstInType ==
    ASSUME NEW m, NEW S, NEW from \in Int, NEW to \in Int
    PROVE  FirstIn(m, S, from, to) \in Int
<1> DEFINE f == FirstIn(m, S, from, to)
<1>1. f \in from .. to \/ f = 0
  BY FirstInFacts
<1> HIDE DEF f
<1>2. f \in Int
  BY <1>1
<1> QED  BY <1>2 DEF f

LEMMA LastInFacts ==
    ASSUME NEW m, NEW S, NEW from \in Int, NEW to \in Int
    PROVE  LET f == LastIn(m, S, from, to) IN
           /\ (\E i \in from .. to : m[i].kind \in S) =>
                 /\ f \in from .. to /\ m[f].kind \in S
                 /\ \A i \in f + 1 .. to : m[i].kind \notin S
           /\ (\A i \in from .. to : m[i].kind \notin S) => f = 0
<1>1. CASE \A i \in from .. to : m[i].kind \notin S
  BY <1>1 DEF LastIn
<1>2. CASE \E i \in from .. to : m[i].kind \in S
  <2> DEFINE T == {d \in Nat : d <= to - from /\ m[to - d].kind \in S}
  <2>1. PICK i \in from .. to : m[i].kind \in S
    BY <1>2
  <2>2. to - i \in Nat /\ to - i <= to - from /\ to - (to - i) = i
    OBVIOUS
  <2>3. to - i \in T
    BY <2>1, <2>2
  <2>4. PICK d \in T : \A e \in T : d <= e
    BY <2>3, Least
  <2>5. d \in Nat /\ d <= to - from /\ m[to - d].kind \in S
    BY <2>4
  <2>6. ASSUME NEW j \in to - d + 1 .. to PROVE m[j].kind \notin S
    <3>1. /\ to - j \in Nat /\ to - j <= to - from /\ to - (to - j) = j
          /\ ~(d <= to - j)
      BY <2>5
    <3> QED  BY <2>4, <3>1
  <2> HIDE DEF T
  <2>7. to - d \in from .. to
    BY <2>5
  <2>8. \E k \in from .. to : m[k].kind \in S /\ \A j \in k + 1 .. to : m[j].kind \notin S
    BY <2>5, <2>6, <2>7
  <2> QED  BY <1>2, <2>8, Zenon DEF LastIn
<1> QED  BY <1>1, <1>2

-----------------------------------------------------------------------------
(* Who costs the others their turn.                                        *)

\* What a peer on TCP sends before the empty line that ends its header are header lines.
Proper ==
    \A p \in Tcp : \A m \in Request[p] :
        \A i \in 2 .. HeaderEnd(m) - 1 : m[i].kind \in HeaderLine \cup BadLine

\* Who waits in the backlog waits once, and nothing has been taken from it.
Waiting ==
    /\ \A k \in 1 .. Len(backlog) : conn[backlog[k]] = "queued"
    /\ \A k, l \in 1 .. Len(backlog) : backlog[k] = backlog[l] => k = l
    /\ \A p \in Tcp : conn[p] \in {"idle", "queued"} => taken[p] = 0
    /\ pc \notin {"select", "gone"} => conn[cur] = "talking"
    /\ pc = "first" => taken[cur] = 0

\* The buffer still holds the request from its beginning on.
FirstCopy ==
    /\ len = calls[cur].first
    /\ \A i \in 0 .. len - 1 : buf[i] = msg[cur][i + 1]

\* The parser comes back for more only if the first recv() lacked the empty line.
FirstPass ==
    /\ pc \in {"first", "request", "lines", "more"} => cur \in Tcp
    /\ pc \in {"request", "lines", "more"} => IsPost(msg[cur])
    /\ pc = "request" => FirstCopy
    /\ pc = "lines" => ~HeaderAtOnce(cur) \/ (pos = 1 /\ FirstCopy)
    /\ pc = "more" => ~HeaderAtOnce(cur)

CInv == Waiting /\ FirstPass

\* The empty line of a request that has one.
LEMMA HeaderEndFacts ==
    ASSUME NEW p \in Peer, NEW m \in Request[p], HeaderEnd(m) > 0
    PROVE  /\ HeaderEnd(m) \in 1 .. Len(m) /\ m[HeaderEnd(m)].kind = "blank"
           /\ \A i \in 1 .. HeaderEnd(m) - 1 : m[i].kind # "blank"
<1> DEFINE h == FirstIn(m, {"blank"}, 1, Len(m))
<1>1. Len(m) \in Int
  BY RequestFacts
<1>2. \/ h = 0
      \/ /\ h \in 1 .. Len(m) /\ m[h].kind \in {"blank"}
         /\ \A i \in 1 .. h - 1 : m[i].kind \notin {"blank"}
  BY <1>1, FirstInFacts
<1>3. HeaderEnd(m) = h
  BY DEF HeaderEnd
<1> HIDE DEF h
<1> QED  BY <1>2, <1>3

\* The header loop does not come to the end of what it has, nor behind it, with the
\* empty line in the buffer.
LEMMA PassesOnce ==
    ASSUME Proper, IInv, FirstPass, pc = "lines", HeaderAtOnce(cur)
    PROVE  /\ pos <= len
           /\ \A k \in pos .. len : StopsAt(k) => buf[k].kind \in BadLine \cup {"blank"}
<1> DEFINE m == msg[cur]
           h == HeaderEnd(m)
<1>1. cur \in Tcp /\ cur \in Peer /\ IsPost(m) /\ pos = 1 /\ FirstCopy
  BY WsdHttpAssumption DEF FirstPass
<1>2. m \in Request[cur] /\ m \in Seq(Piece) /\ Len(m) \in Nat
  BY <1>1, RequestFacts DEF IInv, Bounds
<1>3. len \in Nat /\ h \in 1 .. len
  BY <1>1 DEF HeaderAtOnce, Http, FirstCopy, IInv, TypeOK
<1>4. /\ m[h].kind = "blank"
      /\ \A i \in 2 .. h - 1 : m[i].kind \in HeaderLine \cup BadLine
  BY <1>1, <1>2, <1>3, HeaderEndFacts DEF Proper
<1> HIDE DEF h
<1>5. h # 1
  BY <1>1, <1>4 DEF IsPost, PostLine
<1>6. \A i \in 0 .. len - 1 : buf[i] = m[i + 1]
  BY <1>1 DEF FirstCopy
<1> HIDE DEF m
<1>7. buf[h - 1].kind = "blank"
  <2>1. h - 1 \in 0 .. len - 1 /\ (h - 1) + 1 = h
    BY <1>3
  <2> QED  BY <1>4, <1>6, <2>1
<1>8. ASSUME NEW k \in pos .. len, StopsAt(k)
      PROVE  buf[k].kind \in BadLine \cup {"blank"}
  <2>1. k \in 1 .. len /\ buf[k].kind \notin HeaderLine
        /\ \A j \in 1 .. k - 1 : buf[j].kind \in HeaderLine
    BY <1>1, <1>8 DEF StopsAt
  <2>2. ~(h - 1 \in 1 .. k - 1)
    BY <1>7, <2>1 DEF HeaderLine
  <2>3. k <= h - 1
    BY <1>3, <1>5, <2>1, <2>2
  <2>4. CASE k = h - 1
    BY <1>7, <2>4
  <2>5. CASE k # h - 1
    <3>1. k \in 0 .. len - 1 /\ k + 1 \in 2 .. h - 1
      BY <1>3, <2>1, <2>3, <2>5
    <3>2. buf[k].kind \in HeaderLine \cup BadLine
      BY <1>4, <1>6, <3>1
    <3> QED  BY <2>1, <3>2
  <2> QED  BY <2>4, <2>5
<1> QED  BY <1>1, <1>3, <1>8

\* A step inside the handler, before the request is done with.
LEMMA InsideKeeps ==
    ASSUME IInv, CInv, cur \in Peer, UNCHANGED << queues, cur, conn >>,
           pc \notin {"select", "gone"}, pc' \notin {"select", "gone", "first"},
           \A p \in Peer \ {cur} : taken'[p] = taken[p]
    PROVE  Waiting'
<1>1. UNCHANGED << backlog, conn, cur >> /\ conn[cur] = "talking"
  BY DEF queues, CInv, Waiting
<1>2. \A p \in Tcp : conn'[p] \in {"idle", "queued"} => taken'[p] = 0
  BY <1>1, WsdHttpAssumption DEF CInv, Waiting
<1> QED  BY <1>1, <1>2 DEF CInv, Waiting

\* The handler is done with the peer at hand, and with nobody else.
LEMMA DoneKeeps ==
    ASSUME IInv, CInv, cur \in Peer, UNCHANGED queues,
           conn' = [conn EXCEPT ![cur] = "closed"],
           pc \notin {"select", "gone"}, pc' = "select",
           \A p \in Peer \ {cur} : taken'[p] = taken[p]
    PROVE  CInv' /\ ~\E q \in Peer : conn[q] = "queued" /\ conn'[q] = "reset"
<1>1. backlog' = backlog /\ conn[cur] = "talking"
  BY DEF queues, CInv, Waiting
<1>2. \A q \in Peer : conn'[q] = IF q = cur THEN "closed" ELSE conn[q]
  BY DEF IInv, TypeOK
<1>3. \A k \in 1 .. Len(backlog) : backlog[k] \in Peer /\ conn[backlog[k]] = "queued"
  BY WsdHttpAssumption DEF IInv, TypeOK, CInv, Waiting
<1>4. \A k \in 1 .. Len(backlog) : conn'[backlog[k]] = "queued"
  BY <1>1, <1>2, <1>3
<1>5. \A p \in Tcp : conn'[p] \in {"idle", "queued"} => taken'[p] = 0
  BY <1>2, WsdHttpAssumption DEF CInv, Waiting
<1>6. Waiting'
  BY <1>1, <1>4, <1>5 DEF CInv, Waiting
<1>7. FirstPass'
  BY DEF FirstPass
<1> QED  BY <1>2, <1>6, <1>7 DEF CInv

\* What taken becomes with a receive, or without one.
LEMMA TakenElse ==
    ASSUME IInv, \/ taken' = taken \/ NoReceive
                 \/ \E at, n \in Int : Receive(at, n)
    PROVE  \A p \in Peer \ {cur} : taken'[p] = taken[p]
BY DEF IInv, TypeOK, NoReceive, Receive

LEMMA FinishesKeep ==
    ASSUME IInv, CInv, \/ BadRequestLine \/ RefusedLine \/ MoreFails \/ BadLength
                       \/ BodyShort \/ FirstEnd \/ CutStart \/ Answer \/ NoAnswer
    PROVE  CInv' /\ ~\E q \in Peer : conn[q] = "queued" /\ conn'[q] = "reset"
<1>1. pc \notin {"select", "gone"} /\ cur \in Peer
  <2>1. pc \in {"request", "lines", "more", "length", "body", "first", "soap"}
    BY DEF BadRequestLine, RefusedLine, MoreFails, BadLength, BodyShort, FirstEnd, CutStart,
           Answer, NoAnswer
  <2> QED  BY <2>1 DEF IInv, TypeOK
<1>2. UNCHANGED queues
  BY ZenonT(60) DEF BadRequestLine, RefusedLine, MoreFails, BadLength, BodyShort,
                    FirstEnd, CutStart, Answer, NoAnswer
<1>3. conn' = [conn EXCEPT ![cur] = "closed"] /\ pc' = "select"
  <2>1. CASE BadRequestLine \/ RefusedLine
    BY <2>1, ZenonT(30) DEF BadRequestLine, RefusedLine, Error, Finish
  <2>2. CASE MoreFails
    BY <2>2 DEF MoreFails, Error, Finish
  <2>3. CASE BadLength
    BY <2>3 DEF BadLength, Error, Finish
  <2>4. CASE BodyShort
    BY <2>4 DEF BodyShort, Error, Finish
  <2>5. CASE FirstEnd \/ CutStart
    BY <2>5 DEF FirstEnd, CutStart, Finish
  <2>6. CASE Answer
    BY <2>6 DEF Answer, Match, GetResponse, Finish
  <2>7. CASE NoAnswer
    BY <2>7 DEF NoAnswer, Error, Finish
  <2> QED  BY <2>1, <2>2, <2>3, <2>4, <2>5, <2>6, <2>7
<1>4. \A p \in Peer \ {cur} : taken'[p] = taken[p]
  <2>1. CASE BadRequestLine \/ RefusedLine \/ BadLength \/ CutStart \/ Answer \/ NoAnswer
    <3>1. taken' = taken
      BY <2>1 DEF BadRequestLine, RefusedLine, BadLength, CutStart, Answer, NoAnswer
    <3> QED  BY <3>1, TakenElse
  <2>2. CASE MoreFails \/ FirstEnd
    <3>1. NoReceive
      BY <2>2 DEF MoreFails, FirstEnd
    <3> QED  BY <3>1, TakenElse
  <2>3. CASE BodyShort
    <3>1. NoReceive \/ \E at, n \in Int : Receive(at, n)
      <4>1. len \in Int
        BY WsdHttpAssumption DEF IInv, TypeOK
      <4>2. Available \in Int
        BY <1>1, AvailableFacts
      <4> QED  BY <2>3, <4>1, <4>2, Zenon DEF BodyShort
    <3> QED  BY <3>1, TakenElse
  <2> QED  BY <2>1, <2>2, <2>3
<1> QED  BY <1>1, <1>2, <1>3, <1>4, DoneKeeps

\* The handler starts with a peer from the head of a queue.
LEMMA TakesKeep ==
    ASSUME IInv, CInv, Accept \/ RecvFrom
    PROVE  CInv' /\ ~\E q \in Peer : conn[q] = "queued" /\ conn'[q] = "reset"
<1> USE WsdHttpAssumption
<1>1. CASE Accept
  <2> DEFINE p == Head(backlog)
  <2>1. /\ p \in Tcp /\ p = backlog[1] /\ Len(backlog) >= 1
        /\ conn' = [conn EXCEPT ![p] = "talking"]
        /\ backlog' = Tail(backlog) /\ cur' = p /\ pc' = "first" /\ taken' = taken
    BY <1>1 DEF Accept, IInv, TypeOK
  <2>2. Len(backlog) \in Nat /\ Len(backlog') = Len(backlog) - 1
        /\ \A k \in 1 .. Len(backlog') : backlog'[k] = backlog[k + 1]
    BY <1>1, <2>1, HeadTailProperties DEF Accept, IInv, TypeOK
  <2> HIDE DEF p
  <2>3. \A q \in Peer : conn'[q] = IF q = p THEN "talking" ELSE conn[q]
    BY <2>1 DEF IInv, TypeOK
  <2>4. \A k \in 1 .. Len(backlog') : k + 1 \in 1 .. Len(backlog) /\ k + 1 # 1
    BY <2>2
  <2>5. \A k \in 1 .. Len(backlog) : backlog[k] \in Peer
    BY DEF IInv, TypeOK
  <2>6. \A k \in 1 .. Len(backlog') : conn'[backlog'[k]] = "queued"
    <3> SUFFICES ASSUME NEW k \in 1 .. Len(backlog') PROVE conn'[backlog'[k]] = "queued"
      OBVIOUS
    <3>1. k + 1 \in 1 .. Len(backlog) /\ 1 \in 1 .. Len(backlog) /\ k + 1 # 1
      BY <2>1, <2>2, <2>4
    <3>2. backlog'[k] # p
      BY <2>1, <2>2, <3>1 DEF CInv, Waiting
    <3> QED  BY <2>2, <2>3, <2>5, <3>1, <3>2 DEF CInv, Waiting
  <2>7. \A k, l \in 1 .. Len(backlog') : backlog'[k] = backlog'[l] => k = l
    <3> SUFFICES ASSUME NEW k \in 1 .. Len(backlog'), NEW l \in 1 .. Len(backlog'),
                        backlog'[k] = backlog'[l]
                 PROVE  k = l
      OBVIOUS
    <3>1. k + 1 = l + 1
      BY <2>2, <2>4 DEF CInv, Waiting
    <3> QED  BY <2>2, <3>1
  <2>8. taken[p] = 0 /\ conn'[p] = "talking"
    <3>1. 1 \in 1 .. Len(backlog)
      BY <2>1, <2>2
    <3> QED  BY <2>1, <2>3, <3>1 DEF CInv, Waiting
  <2>9. Waiting'
    BY <2>1, <2>3, <2>6, <2>7, <2>8 DEF CInv, Waiting
  <2>10. FirstPass'
    BY <2>1 DEF FirstPass
  <2> QED  BY <2>3, <2>9, <2>10 DEF CInv
<1>2. CASE RecvFrom
  <2>0. dgrams \in Seq(Peer \ Tcp) /\ dgrams # << >>
    BY <1>2 DEF RecvFrom, IInv, TypeOK
  <2>1. PICK p \in Peer \ Tcp : p = Head(dgrams)
    BY <2>0, HeadTailProperties, Zenon
  <2>2. /\ conn' = [conn EXCEPT ![p] = "talking"] /\ cur' = p /\ pc' = "soap"
        /\ backlog' = backlog /\ taken' = [taken EXCEPT ![p] = Fits(p)]
    BY <1>2, <2>1 DEF RecvFrom
  <2>3. /\ \A q \in Peer : conn'[q] = IF q = p THEN "talking" ELSE conn[q]
        /\ \A q \in Tcp : taken'[q] = taken[q] /\ conn'[q] = conn[q]
    BY <2>2 DEF IInv, TypeOK
  <2>4. \A k \in 1 .. Len(backlog) : backlog[k] \in Tcp
    BY DEF IInv, TypeOK
  <2>5. Waiting'
    BY <2>2, <2>3, <2>4 DEF CInv, Waiting
  <2>6. FirstPass'
    BY <2>2 DEF FirstPass
  <2> QED  BY <2>3, <2>5, <2>6 DEF CInv
<1> QED  BY <1>1, <1>2

\* Between its first octets and the SOAP text the handler keeps to one peer.
LEMMA ParserKeeps ==
    ASSUME Proper, IInv, CInv,
           \/ FirstRecv \/ GoodRequestLine \/ EndOfHeader \/ Unfinished \/ More
           \/ Enough \/ Short \/ Body \/ BodySilence
    PROVE  CInv' /\ UNCHANGED conn
<1> USE WsdHttpAssumption
<1>1. pc \notin {"select", "gone"} /\ cur \in Peer /\ pc' \notin {"select", "gone", "first"}
  BY ZenonT(60) DEF IInv, TypeOK, FirstRecv, GoodRequestLine, EndOfHeader, Unfinished,
                    More, Enough, Short, Body, BodySilence
<1>2. UNCHANGED << queues, cur, conn, peers >>
  BY DEF FirstRecv, GoodRequestLine, EndOfHeader, Unfinished, More, Enough, Short, Body,
         BodySilence
<1>3. Available \in Nat /\ len \in Nat /\ contentlength \in Nat
  <2>1. contentlength \in Nat
    BY DEF IInv, TypeOK
  <2>2. Available \in Nat /\ len \in 0 .. BufSize - 1 /\ BufSize \in Nat
    BY <1>1, AvailableFacts
  <2> QED  BY <2>1, <2>2
<1>4. \A p \in Peer \ {cur} : taken'[p] = taken[p]
  <2>1. \/ taken' = taken \/ \E at, n \in Int : Receive(at, n)
    BY <1>3 DEF FirstRecv, GoodRequestLine, EndOfHeader, Unfinished, More, Enough, Short,
                Body, BodySilence
  <2> QED  BY <2>1, TakenElse
<1>5. Waiting'
  BY <1>1, <1>2, <1>4, InsideKeeps
<1>6. msg' = msg /\ cur' = cur
  BY <1>2 DEF peers
<1>7. CASE FirstRecv
  <2>1. /\ pc = "first" /\ Receive(0, Available) /\ len' = Available /\ Available > 0
        /\ pc' = (IF buf'[0].kind \in PostLine THEN "request" ELSE "soap")
    BY <1>7 DEF FirstRecv
  <2>2. cur \in Tcp /\ taken[cur] = 0
    BY <2>1 DEF CInv, FirstPass, Waiting
  <2>3. calls'[cur].first = Available
    BY <1>1, <2>1 DEF Receive, Count, IInv, TypeOK
  <2>4. Available <= BufSize - 1 /\ BufSize \in Nat
    BY <1>1, <2>2, AvailableFacts
  <2>5. \A i \in 0 .. Available - 1 : buf'[i] = msg[cur][i + 1]
    <3> SUFFICES ASSUME NEW i \in 0 .. Available - 1 PROVE buf'[i] = msg[cur][i + 1]
      OBVIOUS
    <3>1. i \in 0 .. BufSize - 1 /\ i \in 0 .. 0 + Available - 1
      BY <1>3, <2>4
    <3>2. buf'[i] = msg[cur][taken[cur] + 1 + i - 0]
      BY <2>1, <3>1 DEF Receive
    <3>3. taken[cur] + 1 + i - 0 = i + 1
      BY <2>2
    <3> QED  BY <3>2, <3>3
  <2>6. buf'[0] = msg[cur][1]
    <3>1. 0 \in 0 .. Available - 1 /\ 0 + 1 = 1
      BY <1>3, <2>1
    <3> QED  BY <2>5, <3>1
  <2>7. pc' = "request" => IsPost(msg[cur])
    BY <2>1, <2>6 DEF IsPost
  <2>8. FirstCopy'
    BY <1>6, <2>1, <2>3, <2>5 DEF FirstCopy
  <2>9. FirstPass'
    BY <1>6, <2>1, <2>2, <2>7, <2>8, Zenon DEF FirstPass
  <2> QED  BY <1>2, <1>5, <2>9 DEF CInv
<1>8. CASE GoodRequestLine
  <2>1. /\ pc = "request" /\ pc' = "lines" /\ pos' = 1 /\ UNCHANGED << len, buf, calls >>
    BY <1>8 DEF GoodRequestLine
  <2>2. cur \in Tcp /\ IsPost(msg[cur]) /\ FirstCopy
    BY <2>1 DEF CInv, FirstPass
  <2>3. FirstCopy'
    BY <1>6, <2>1, <2>2 DEF FirstCopy
  <2>4. FirstPass'
    BY <1>6, <2>1, <2>2, <2>3 DEF FirstPass
  <2> QED  BY <1>2, <1>5, <2>4 DEF CInv
<1>9. CASE Unfinished
  <2>1. /\ pc = "lines" /\ pc' = "more" /\ calls' = calls
        /\ \E k \in pos .. len : StopsAt(k) /\ buf[k].kind \notin BadLine \cup {"blank"}
    BY <1>9 DEF Unfinished
  <2>2. cur \in Tcp /\ IsPost(msg[cur])
    BY <2>1 DEF CInv, FirstPass
  <2>3. ~HeaderAtOnce(cur)
    BY <2>1, PassesOnce DEF CInv
  <2>4. ~HeaderAtOnce(cur)'
    BY <1>6, <2>1, <2>3 DEF HeaderAtOnce
  <2>5. FirstPass'
    BY <1>6, <2>1, <2>2, <2>4 DEF FirstPass
  <2> QED  BY <1>2, <1>5, <2>5 DEF CInv
<1>10. CASE More
  <2>1. pc = "more" /\ pc' = "lines" /\ Count(Available)
    BY <1>10 DEF More, Receive
  <2>2. cur \in Tcp /\ IsPost(msg[cur]) /\ ~HeaderAtOnce(cur)
    BY <2>1 DEF CInv, FirstPass
  <2>3. calls'[cur].first = calls[cur].first
    BY <1>1, <2>1 DEF Count, IInv, TypeOK
  <2>4. ~HeaderAtOnce(cur)'
    BY <1>6, <2>2, <2>3 DEF HeaderAtOnce
  <2>5. FirstPass'
    BY <1>6, <2>1, <2>2, <2>4 DEF FirstPass
  <2> QED  BY <1>2, <1>5, <2>5 DEF CInv
<1>11. CASE EndOfHeader \/ Enough \/ Short \/ Body \/ BodySilence
  <2>1. pc' \in {"length", "body", "soap"}
    BY <1>11 DEF EndOfHeader, Enough, Short, Body, BodySilence
  <2>2. FirstPass'
    BY <2>1 DEF FirstPass
  <2> QED  BY <1>2, <1>5, <2>2 DEF CInv
<1> QED  BY <1>7, <1>8, <1>9, <1>10, <1>11

\* Nobody waits any more.
LEMMA ForgetsKeep ==
    ASSUME IInv, CInv, NewRound \/ FirstSilence \/ Dies
    PROVE  CInv'
<1> USE WsdHttpAssumption
<1>1. backlog' = << >> /\ pc' \in {"select", "gone"}
  BY DEF NewRound, FirstSilence, Dies, Restart
<1>2. \A q \in Peer : conn'[q] \in {"idle", "queued"} => conn'[q] = conn[q] /\ conn[q] = "idle"
  <2>1. CASE NewRound \/ FirstSilence
    BY <2>1 DEF NewRound, FirstSilence, Restart
  <2>2. CASE Dies
    BY <2>2 DEF Dies
  <2> QED  BY <2>1, <2>2
<1>3. \A q \in Tcp : conn'[q] \in {"idle", "queued"} => taken'[q] = 0
  <2>1. taken' = taken
    BY DEF NewRound, FirstSilence, Dies, NoReceive
  <2> QED  BY <1>2, <2>1 DEF CInv, Waiting
<1>4. Waiting'
  BY <1>1, <1>3 DEF Waiting
<1>5. FirstPass'
  BY <1>1 DEF FirstPass
<1> QED  BY <1>4, <1>5 DEF CInv

\* A peer that connects goes to the end of the backlog.
LEMMA PeersWait ==
    ASSUME IInv, CInv, NEW p \in Peer, Connect(p) \/ Datagram(p) \/ Send(p) \/ Shut(p)
    PROVE  CInv' /\ ~\E q \in Peer : conn[q] = "queued" /\ conn'[q] = "reset"
<1> USE WsdHttpAssumption
<1>1. UNCHANGED << handler, msg, taken, calls >>
  BY DEF Connect, Datagram, Send, Shut, peers
<1>2. FirstPass'
  BY <1>1 DEF CInv, FirstPass, FirstCopy, HeaderAtOnce, handler
<1>3. CASE Connect(p)
  <2>1. p \in Tcp /\ conn[p] = "idle" /\ conn' = [conn EXCEPT ![p] = "queued"]
        /\ backlog' = Append(backlog, p)
    BY <1>3 DEF Connect
  <2>2. \A q \in Peer : conn'[q] = IF q = p THEN "queued" ELSE conn[q]
    BY <2>1 DEF IInv, TypeOK
  <2>3. /\ Len(backlog) \in Nat /\ Len(backlog') = Len(backlog) + 1
        /\ \A k \in 1 .. Len(backlog) : backlog'[k] = backlog[k] /\ backlog[k] \in Peer
        /\ backlog'[Len(backlog) + 1] = p
    BY <2>1 DEF IInv, TypeOK
  <2>4. \A k \in 1 .. Len(backlog) : backlog[k] # p /\ conn[backlog[k]] = "queued"
    BY <2>1 DEF CInv, Waiting
  <2>5. \A k \in 1 .. Len(backlog') : k \in 1 .. Len(backlog) \/ k = Len(backlog) + 1
    BY <2>3
  <2>6. \A k \in 1 .. Len(backlog') : conn'[backlog'[k]] = "queued"
    BY <2>2, <2>3, <2>4, <2>5
  <2>7. \A k, l \in 1 .. Len(backlog') : backlog'[k] = backlog'[l] => k = l
    <3> SUFFICES ASSUME NEW k \in 1 .. Len(backlog'), NEW l \in 1 .. Len(backlog'),
                        backlog'[k] = backlog'[l]
                 PROVE  k = l
      OBVIOUS
    <3>1. CASE k \in 1 .. Len(backlog) /\ l \in 1 .. Len(backlog)
      BY <2>3, <3>1 DEF CInv, Waiting
    <3>2. CASE k = Len(backlog) + 1 /\ l \in 1 .. Len(backlog)
      BY <2>3, <2>4, <3>2
    <3>3. CASE k \in 1 .. Len(backlog) /\ l = Len(backlog) + 1
      BY <2>3, <2>4, <3>3
    <3>4. CASE k = Len(backlog) + 1 /\ l = Len(backlog) + 1
      BY <3>4
    <3> QED  BY <2>5, <3>1, <3>2, <3>3, <3>4
  <2>8. \A q \in Tcp : conn'[q] \in {"idle", "queued"} => taken'[q] = 0
    BY <1>1, <2>1, <2>2 DEF CInv, Waiting
  <2>9. /\ pc' = pc /\ cur' = cur /\ taken' = taken
        /\ pc \notin {"select", "gone"} => conn'[cur] = "talking"
    BY <1>1, <2>1, <2>2 DEF handler, CInv, Waiting, IInv, TypeOK
  <2>10. Waiting'
    BY <2>6, <2>7, <2>8, <2>9 DEF CInv, Waiting
  <2> QED  BY <1>2, <2>2, <2>10 DEF CInv
<1>4. CASE Datagram(p)
  <2>1. p \notin Tcp /\ conn[p] = "idle" /\ conn' = [conn EXCEPT ![p] = "queued"]
        /\ backlog' = backlog
    BY <1>4 DEF Datagram
  <2>2. \A q \in Peer : conn'[q] = IF q = p THEN "queued" ELSE conn[q]
    BY <2>1 DEF IInv, TypeOK
  <2>3. \A k \in 1 .. Len(backlog) : backlog[k] \in Tcp
    BY DEF IInv, TypeOK
  <2>4. /\ pc' = pc /\ cur' = cur /\ taken' = taken
        /\ pc \notin {"select", "gone"} => conn'[cur] = "talking"
    BY <1>1, <2>1, <2>2 DEF handler, CInv, Waiting, IInv, TypeOK
  <2>5. Waiting'
    BY <2>1, <2>2, <2>3, <2>4 DEF CInv, Waiting
  <2> QED  BY <1>2, <2>2, <2>5 DEF CInv
<1>5. CASE Send(p) \/ Shut(p)
  <2>1. UNCHANGED << backlog, conn, pc, cur >>
    BY <1>1, <1>5 DEF Send, Shut, queues, handler
  <2>2. Waiting'
    BY <1>1, <2>1 DEF CInv, Waiting
  <2> QED  BY <1>2, <2>1, <2>2 DEF CInv
<1> QED  BY <1>3, <1>4, <1>5

\* A step that resets a peer that waits is one of four.
LEMMA OnlyFour ==
    ASSUME Proper, IInv, CInv, [Next]_vars
    PROVE  /\ CInv'
           /\ (\E q \in Peer : conn[q] = "queued" /\ conn'[q] = "reset") =>
                 NewRound \/ FirstSilence \/ Wraps \/ CutRequestLine
<1>1. CASE NewRound \/ FirstSilence \/ Wraps \/ CutRequestLine
  <2>1. NewRound \/ FirstSilence \/ Dies
    BY <1>1 DEF Wraps, CutRequestLine
  <2> QED  BY <1>1, <2>1, ForgetsKeep
<1>2. CASE Accept \/ RecvFrom
  BY <1>2, TakesKeep
<1>3. CASE \/ BadRequestLine \/ RefusedLine \/ MoreFails \/ BadLength \/ BodyShort
           \/ FirstEnd \/ CutStart \/ Answer \/ NoAnswer
  BY <1>3, FinishesKeep
<1>4. CASE \/ FirstRecv \/ GoodRequestLine \/ EndOfHeader \/ Unfinished \/ More
           \/ Enough \/ Short \/ Body \/ BodySilence
  <2>1. CInv' /\ conn' = conn
    BY <1>4, ParserKeeps
  <2> QED  BY <2>1
<1>5. CASE Peers
  BY <1>5, PeersWait DEF Peers
<1>6. CASE UNCHANGED vars
  BY <1>6 DEF vars, queues, handler, peers, CInv, Waiting, FirstPass, FirstCopy, HeaderAtOnce
<1> QED  BY <1>1, <1>2, <1>3, <1>4, <1>5, <1>6 DEF Next, Handler, Cut

\* However requests are cut and interleaved, a peer whose header comes whole with the
\* first recv() costs nobody else the connection (wsd.c:948, 1083).
THEOREM OnlyCutHeadersCost ==
    ASSUME Proper
    PROVE  Spec => NoCollateral
<1>1. Init => CInv
  BY WsdHttpAssumption DEF Init, CInv, Waiting, FirstPass
<1>2. IInv /\ CInv /\ [Next]_vars =>
        [(\E q \in Peer : conn[q] = "queued" /\ conn'[q] = "reset") =>
            pc = "select" \/ taken[cur] = 0 \/ ~HeaderAtOnce(cur)]_vars
  <2> SUFFICES ASSUME IInv, CInv, [Next]_vars,
                      \E q \in Peer : conn[q] = "queued" /\ conn'[q] = "reset"
               PROVE  pc = "select" \/ taken[cur] = 0 \/ ~HeaderAtOnce(cur)
    OBVIOUS
  <2>1. NewRound \/ FirstSilence \/ Wraps \/ CutRequestLine
    BY OnlyFour
  <2>2. CASE NewRound
    BY <2>2 DEF NewRound
  <2>3. CASE FirstSilence \/ CutRequestLine
    BY <2>3 DEF FirstSilence, CutRequestLine, CInv, Waiting
  <2>4. CASE Wraps
    <3>1. pc = "lines" /\ pos > len /\ pos \in Int /\ len \in Int
      BY <2>4, WsdHttpAssumption DEF Wraps, IInv, TypeOK
    <3>2. ~(pos <= len)
      BY <3>1
    <3> QED  BY <3>1, <3>2, PassesOnce DEF CInv
  <2> QED  BY <2>1, <2>2, <2>3, <2>4
<1>3. IInv /\ CInv /\ [Next]_vars => CInv'
  BY OnlyFour
<1> QED  BY IInvInit, IInvNext, <1>1, <1>2, <1>3, PTL DEF Spec, NoCollateral
-----------------------------------------------------------------------------
(* A whole request gets what its own text asks for.                        *)

\* The requests WholeRequestAnswered speaks of.
Good(p) ==
    /\ Whole(p, msg[p]) /\ HeaderAtOnce(p) /\ ~calls[p].fail
    /\ calls[p].more => taken[p] >= HeaderEnd(msg[p]) + Length(msg[p])

\* The text in the buffer is n pieces of the request at hand.
Holds(from, n) ==
    /\ buf[n] = NUL
    /\ \A i \in 0 .. n - 1 : buf[i] = msg[cur][from + i]

\* The header has been read as it stands in the request, and moved out of the buffer.
PastHeader ==
    /\ cur \in Tcp /\ msg[cur][1].kind = "post"
    /\ HeaderEnd(msg[cur]) > 0 /\ ~Refused(msg[cur])
    /\ contentlength = Length(msg[cur])
    /\ taken[cur] = HeaderEnd(msg[cur]) + len
    /\ Holds(HeaderEnd(msg[cur]) + 1, len)

\* What is left in the buffer is the text whose answer is owed.
SoapText ==
    \E from \in Nat \ {0}, n \in 0 .. BufSize - 1 :
        /\ from + n - 1 <= Len(msg[cur])
        /\ Holds(from, n)
        /\ Owed(cur, msg[cur]) = OwedToText(cur, msg[cur], from, from + n - 1)

Track ==
    /\ pc = "select" => cur = NoPeer
    /\ pc \in {"select", "first", "request"} => contentlength = 0
    /\ pc = "request" => taken[cur] = len
    /\ pc = "lines" /\ HeaderAtOnce(cur) =>
          contentlength = 0 /\ taken[cur] = len /\ msg[cur][1].kind = "post"
    /\ pc \in {"length", "body"} /\ HeaderAtOnce(cur) => PastHeader
    /\ pc = "soap" /\ Good(cur) => SoapText

AInv == Track /\ WholeRequestAnswered

\* strstr() finds in the buffer what comes first in the text it holds.
LEMMA TextFirst ==
    ASSUME IInv, cur \in Peer, NEW from \in Nat \ {0}, NEW n \in 0 .. BufSize - 1,
           from + n - 1 <= Len(msg[cur]), Holds(from, n), NEW S
    PROVE  LET f == FirstIn(msg[cur], S, from, from + n - 1) IN
           /\ \A i \in 0 .. BufSize - 1 : FirstOf(S, i) => i \in 0 .. n - 1 /\ f = from + i
           /\ f # 0 => f - from \in 0 .. n - 1 /\ FirstOf(S, f - from)
<1> DEFINE m == msg[cur]
           f == FirstIn(m, S, from, from + n - 1)
<1>1. BufSize \in Nat /\ n \in Nat /\ n \in Int
  BY WsdHttpAssumption
<1>2. \A i \in 1 .. Len(m) : m[i] # NUL
  <2>1. m \in Request[cur]
    BY DEF IInv, Bounds
  <2> QED  BY <2>1, WsdHttpAssumption
<1>3. Len(m) \in Int
  BY AvailableFacts
<1>4. \A i \in 0 .. n - 1 : buf[i] = m[from + i] /\ buf[i] # NUL
  <2> SUFFICES ASSUME NEW i \in 0 .. n - 1 PROVE buf[i] = m[from + i] /\ buf[i] # NUL
    OBVIOUS
  <2>1. from + i \in 1 .. Len(m)
    BY <1>1, <1>3
  <2> QED  BY <1>2, <2>1 DEF Holds
<1> HIDE DEF m
<1>5. /\ (\E i \in from .. from + n - 1 : m[i].kind \in S) =>
            /\ f \in from .. from + n - 1 /\ m[f].kind \in S
            /\ \A i \in from .. f - 1 : m[i].kind \notin S
      /\ (\A i \in from .. from + n - 1 : m[i].kind \notin S) => f = 0
  <2>1. from \in Int /\ from + n - 1 \in Int
    BY <1>1
  <2> QED  BY <2>1, FirstInFacts
<1> HIDE DEF f
<1>6. ASSUME NEW i \in 0 .. BufSize - 1, FirstOf(S, i)
      PROVE  i \in 0 .. n - 1 /\ f = from + i
  <2>1. /\ \A j \in 0 .. i : buf[j] # NUL
        /\ buf[i].kind \in S /\ \A j \in 0 .. i - 1 : buf[j].kind \notin S
    BY <1>6 DEF FirstOf
  <2>2. i \in 0 .. n - 1
    <3>1. ~(n \in 0 .. i)
      BY <2>1 DEF Holds
    <3> QED  BY <1>1, <3>1
  <2>3. from + i \in from .. from + n - 1 /\ m[from + i].kind \in S
    BY <1>1, <1>4, <2>1, <2>2
  <2>4. f \in from .. from + n - 1 /\ m[f].kind \in S
        /\ \A j \in from .. f - 1 : m[j].kind \notin S
    BY <1>5, <2>3
  <2>5. ~(from + i \in from .. f - 1)
    BY <2>3, <2>4
  <2>6. f <= from + i
    BY <2>2, <2>4, <2>5
  <2>7. ~(f - from \in 0 .. i - 1)
    <3> SUFFICES ASSUME f - from \in 0 .. i - 1 PROVE FALSE
      OBVIOUS
    <3>1. f - from \in 0 .. n - 1 /\ from + (f - from) = f
      BY <2>4
    <3>2. buf[f - from] = m[f]
      BY <1>4, <3>1
    <3> QED  BY <2>1, <2>4, <3>2
  <2> QED  BY <2>2, <2>4, <2>6, <2>7
<1>7. ASSUME f # 0
      PROVE  f - from \in 0 .. n - 1 /\ FirstOf(S, f - from)
  <2>1. f \in from .. from + n - 1 /\ m[f].kind \in S
        /\ \A j \in from .. f - 1 : m[j].kind \notin S
    BY <1>5, <1>7
  <2>2. f - from \in 0 .. n - 1 /\ from + (f - from) = f
    BY <1>1, <2>1
  <2>3. \A j \in 0 .. f - from : buf[j] = m[from + j] /\ buf[j] # NUL
    BY <1>1, <1>4, <2>2
  <2>4. buf[f - from].kind \in S
    BY <2>1, <2>2, <2>3
  <2>5. \A j \in 0 .. f - from - 1 : buf[j].kind \notin S
    <3> SUFFICES ASSUME NEW j \in 0 .. f - from - 1 PROVE buf[j].kind \notin S
      OBVIOUS
    <3>1. from + j \in from .. f - 1 /\ j \in 0 .. f - from
      BY <2>2
    <3> QED  BY <2>1, <2>3, <3>1
  <2> QED  BY <2>2, <2>3, <2>4, <2>5 DEF FirstOf
<1> QED  BY <1>6, <1>7 DEF f, m

\* Nothing changes for the others.
LEMMA OthersAnswered ==
    ASSUME IInv, WholeRequestAnswered, NEW x, msg' = msg, unsent \subseteq unsent',
           \A q \in Peer \ {x} :
              /\ taken'[q] = taken[q] /\ calls'[q] = calls[q] /\ got'[q] = got[q]
              /\ conn'[q] = "closed" => conn[q] = "closed",
           x \in Peer /\ conn'[x] = "closed" =>
              x \in unsent' \/ ~Good(x)' \/ got'[x] = Owed(x, msg[x])
    PROVE  WholeRequestAnswered'
<1>1. \A q \in Peer : msg'[q] = msg[q]
  OBVIOUS
<1>2. ASSUME NEW q \in Peer, conn'[q] = "closed", q \notin unsent', Good(q)'
      PROVE  got'[q] = Owed(q, msg[q])
  <2>1. CASE q = x
    BY <1>2, <2>1
  <2>2. CASE q # x
    <3>1. /\ taken'[q] = taken[q] /\ calls'[q] = calls[q] /\ got'[q] = got[q]
          /\ conn[q] = "closed" /\ q \notin unsent
      BY <1>2, <2>2
    <3>2. Good(q)
      BY <1>2, <3>1 DEF Good, HeaderAtOnce
    <3> QED  BY <3>1, <3>2 DEF WholeRequestAnswered, Good
  <2> QED  BY <2>1, <2>2
<1> QED  BY <1>1, <1>2 DEF WholeRequestAnswered, Good

\* The end of a call, which sends full unless a call fails.
LEMMA FinishAnswers ==
    ASSUME IInv, AInv, NEW c \in Peer, c = cur, NEW full, NEW partial,
           Finish(full, partial), msg' = msg,
           \A q \in Peer \ {c} : taken'[q] = taken[q] /\ calls'[q] = calls[q],
           Good(c)' => full = Owed(c, msg[c])
    PROVE  AInv'
<1>1. PICK out \in {full} \cup partial :
         /\ got' = [got EXCEPT ![cur] = out]
         /\ unsent' = IF out = full THEN unsent ELSE unsent \cup {cur}
  BY DEF Finish
<1>2. /\ conn' = [conn EXCEPT ![cur] = "closed"]
      /\ pc' = "select" /\ cur' = NoPeer /\ contentlength' = 0
  BY DEF Finish
<1>3. got'[c] = out /\ \A q \in Peer \ {c} : got'[q] = got[q] /\ conn'[q] = conn[q]
  BY <1>1, <1>2 DEF IInv, TypeOK
<1>4. unsent \subseteq unsent' /\ (out # full => c \in unsent')
  BY <1>1
<1>5. c \in unsent' \/ ~Good(c)' \/ got'[c] = Owed(c, msg[c])
  BY <1>3, <1>4
<1>6. WholeRequestAnswered'
  BY <1>3, <1>4, <1>5, OthersAnswered DEF AInv
<1>7. Track'
  BY <1>2 DEF Track
<1> QED  BY <1>6, <1>7 DEF AInv

LEMMA ErrorAnswers ==
    ASSUME IInv, AInv, NEW c \in Peer, c = cur, NEW code, Error(code), msg' = msg,
           \A q \in Peer \ {c} : taken'[q] = taken[q] /\ calls'[q] = calls[q],
           Good(c)' => Refusal(code) = Owed(c, msg[c])
    PROVE  AInv'
<1>1. Finish(Refusal(code), {<< StatusLine(code) >>, << Fault(code) >>, << >>})
  BY DEF Error, Refusal
<1> QED  BY <1>1, FinishAnswers

\* The first pass over the header loop: where it stops, and where the empty line is.
LEMMA FirstStop ==
    ASSUME Proper, IInv, FirstPass, pc = "lines", HeaderAtOnce(cur),
           NEW k \in pos .. len, StopsAt(k)
    PROVE  LET m == msg[cur]
               h == HeaderEnd(m)
           IN  /\ cur \in Tcp /\ cur \in Peer /\ m \in Request[cur] /\ pos = 1
               /\ \A i \in 0 .. len - 1 : buf[i] = m[i + 1]
               /\ h \in 2 .. len /\ m[h].kind = "blank"
               /\ k <= h - 1
               /\ \A i \in 2 .. k : m[i].kind \in HeaderLine
               /\ buf[k].kind \in BadLine => k < h - 1
               /\ buf[k].kind = "blank" => k = h - 1
<1> DEFINE m == msg[cur]
           h == HeaderEnd(m)
<1>1. cur \in Tcp /\ cur \in Peer /\ IsPost(m) /\ pos = 1 /\ FirstCopy
  BY WsdHttpAssumption DEF FirstPass
<1>2. m \in Request[cur] /\ m \in Seq(Piece) /\ Len(m) \in Nat
  BY <1>1, RequestFacts DEF IInv, Bounds
<1>3. len \in Nat /\ h \in 1 .. len
  BY <1>1 DEF HeaderAtOnce, Http, FirstCopy, IInv, TypeOK
<1>4. m[h].kind = "blank" /\ \A i \in 1 .. h - 1 : m[i].kind # "blank"
  BY <1>1, <1>2, <1>3, HeaderEndFacts
<1> HIDE DEF h
<1>5. h # 1
  BY <1>1, <1>4 DEF IsPost, PostLine
<1>6. \A i \in 0 .. len - 1 : buf[i] = m[i + 1]
  BY <1>1 DEF FirstCopy
<1> HIDE DEF m
<1>7. buf[h - 1].kind = "blank"
  <2>1. h - 1 \in 0 .. len - 1 /\ (h - 1) + 1 = h
    BY <1>3
  <2> QED  BY <1>4, <1>6, <2>1
<1>8. k \in 1 .. len /\ buf[k].kind \notin HeaderLine
      /\ \A j \in 1 .. k - 1 : buf[j].kind \in HeaderLine
  BY <1>1 DEF StopsAt
<1>9. ~(h - 1 \in 1 .. k - 1)
  BY <1>7, <1>8 DEF HeaderLine
<1>10. k <= h - 1
  BY <1>3, <1>5, <1>8, <1>9
<1>11. \A i \in 2 .. k : m[i].kind \in HeaderLine
  <2> SUFFICES ASSUME NEW i \in 2 .. k PROVE m[i].kind \in HeaderLine
    OBVIOUS
  <2>1. i - 1 \in 1 .. k - 1 /\ i - 1 \in 0 .. len - 1 /\ (i - 1) + 1 = i
    BY <1>3, <1>8
  <2> QED  BY <1>6, <1>8, <2>1
<1>12. buf[k].kind \in BadLine => k < h - 1
  <2>1. buf[k].kind \in BadLine => k # h - 1
    BY <1>7 DEF BadLine
  <2> QED  BY <1>3, <1>8, <1>10, <2>1
<1>13. buf[k].kind = "blank" => k = h - 1
  <2> SUFFICES ASSUME buf[k].kind = "blank", k < h - 1 PROVE FALSE
    BY <1>3, <1>8, <1>10
  <2>1. k \in 0 .. len - 1 /\ k + 1 \in 1 .. h - 1
    BY <1>3, <1>8
  <2> QED  BY <1>4, <1>6, <2>1
<1>14. h \in 2 .. len
  BY <1>3, <1>5
<1> QED  BY <1>1, <1>2, <1>4, <1>6, <1>10, <1>11, <1>12, <1>13, <1>14 DEF m, h

\* What the history says after a recv().
LEMMA CountTells ==
    ASSUME IInv, NEW c \in Peer, c = cur, NEW n \in Nat, Count(n)
    PROVE  /\ calls'[c].first = IF pc = "first" THEN n ELSE calls[c].first
           /\ calls'[c].more <=> pc # "first"
           /\ calls'[c].fail <=> n = 0
           /\ \A q \in Peer \ {c} : calls'[q] = calls[q]
<1> DEFINE r == [first |-> IF pc = "first" THEN n ELSE calls[c].first,
                 more |-> pc # "first", fail |-> n = 0]
<1>1. calls' = [calls EXCEPT ![c] = r]
  BY DEF Count
<1>2. calls'[c] = r /\ \A q \in Peer \ {c} : calls'[q] = calls[q]
  BY <1>1 DEF IInv, TypeOK
<1>3. /\ r.first = (IF pc = "first" THEN n ELSE calls[c].first)
      /\ r.more = (pc # "first") /\ r.fail = (n = 0)
  BY Zenon
<1> HIDE DEF r
<1> QED  BY <1>2, <1>3, Zenon

\* A request whose header came at once does not get through the header loop unread.
LEMMA RefusedIsOwed ==
    ASSUME Proper, IInv, CInv, Track, NEW c \in Peer, c = cur, pc = "lines", Good(c),
           NEW k \in pos .. len, StopsAt(k), buf[k].kind \in BadLine
    PROVE  Refusal(400) = Owed(c, msg[c])
<1> DEFINE m == msg[c]
           h == HeaderEnd(m)
<1>1. HeaderAtOnce(cur)
  BY DEF Good
<1>2. m[1].kind = "post"
  BY <1>1 DEF Track
<1>3. /\ c \in Tcp /\ pos = 1 /\ h \in 2 .. len /\ k < h - 1
      /\ \A i \in 0 .. len - 1 : buf[i] = m[i + 1]
  BY <1>1, FirstStop DEF CInv
<1>4. len \in Nat /\ h \in Int
  BY <1>3, WsdHttpAssumption DEF IInv, TypeOK
<1> HIDE DEF h
<1>5. k \in 0 .. len - 1 /\ k + 1 \in 2 .. h - 1
  BY <1>3, <1>4
<1>6. m[k + 1].kind \in BadLine
  BY <1>3, <1>5
<1> HIDE DEF m
<1>7. FirstIn(m, BadLine, 2, h - 1) \in 2 .. h - 1
  <2>1. 2 \in Int /\ h - 1 \in Int
    BY <1>4
  <2> QED  BY <1>5, <1>6, <2>1, FirstInFacts
<1>8. Refused(m)
  BY <1>4, <1>7 DEF Refused, h
<1>9. IsPost(m)
  BY <1>2 DEF IsPost, PostLine
<1> QED  BY <1>2, <1>3, <1>8, <1>9 DEF Owed, Http, m

LEMMA RefusersAnswer ==
    ASSUME Proper, IInv, CInv, AInv,
           \/ BadRequestLine \/ RefusedLine \/ MoreFails \/ BadLength \/ BodyShort
           \/ FirstEnd \/ CutStart
    PROVE  AInv'
<1>0. PICK c \in Peer : c = cur
  <2>1. pc \in {"request", "lines", "more", "length", "body", "first"}
    BY DEF BadRequestLine, RefusedLine, MoreFails, BadLength, BodyShort, FirstEnd,
           CutStart
  <2> QED  BY <2>1 DEF IInv, TypeOK
<1>1. msg' = msg
  BY ZenonT(30) DEF BadRequestLine, RefusedLine, MoreFails, BadLength, BodyShort, FirstEnd,
                    CutStart, peers
<1>2. CASE BadRequestLine
  <2>1. /\ pc = "request" /\ buf[0].kind # "post" /\ UNCHANGED << taken, calls >>
        /\ Error(IF buf[0].kind = "post path" THEN 404 ELSE 405)
    BY <1>2 DEF BadRequestLine
  <2>2. c \in Tcp /\ IsPost(msg[c]) /\ FirstCopy
    BY <1>0, <2>1 DEF CInv, FirstPass
  <2>3. Good(c)' => Good(c)
    BY <1>1, <2>1 DEF Good, HeaderAtOnce
  <2>4. ASSUME Good(c)
        PROVE  Refusal(IF buf[0].kind = "post path" THEN 404 ELSE 405) = Owed(c, msg[c])
    <3>1. HeaderEnd(msg[c]) \in 1 .. len /\ len \in Nat
      BY <1>0, <2>2, <2>4, WsdHttpAssumption DEF Good, HeaderAtOnce, Http, FirstCopy, IInv, TypeOK
    <3>2. 0 \in 0 .. len - 1 /\ 0 + 1 = 1
      BY <3>1
    <3>3. buf[0] = msg[c][1]
      BY <1>0, <2>2, <3>2 DEF FirstCopy
    <3>4. CASE buf[0].kind = "post path"
      <4>1. msg[c][1].kind = "post path"
        BY <3>3, <3>4
      <4>2. Owed(c, msg[c]) = Refusal(404)
        BY <2>2, <4>1, Zenon DEF Owed, Http
      <4> QED  BY <3>4, <4>2
    <3>5. CASE buf[0].kind # "post path"
      <4>1. msg[c][1].kind # "post path" /\ msg[c][1].kind # "post"
        BY <2>1, <3>3, <3>5
      <4>2. Owed(c, msg[c]) = Refusal(405)
        BY <2>2, <4>1, Zenon DEF Owed, Http
      <4> QED  BY <3>5, <4>2
    <3> QED  BY <3>4, <3>5
  <2> QED  BY <1>0, <1>1, <2>1, <2>3, <2>4, ErrorAnswers, ZenonT(60)
<1>3. CASE RefusedLine
  <2>1. PICK k \in pos .. len : StopsAt(k) /\ buf[k].kind \in BadLine
    BY <1>3 DEF RefusedLine
  <2>2. pc = "lines" /\ UNCHANGED << taken, calls >> /\ Error(400)
    BY <1>3 DEF RefusedLine
  <2>3. Good(c)' => Good(c)
    BY <1>1, <2>2 DEF Good, HeaderAtOnce
  <2>4. Good(c) => Refusal(400) = Owed(c, msg[c])
    BY <1>0, <2>1, <2>2, RefusedIsOwed DEF AInv
  <2> QED  BY <1>0, <1>1, <2>2, <2>3, <2>4, ErrorAnswers
<1>4. CASE BadLength
  <2>1. pc = "length" /\ UNCHANGED << taken, calls >>
        /\ \/ contentlength = 0 /\ Error(400)
           \/ contentlength > len /\ contentlength >= BufSize /\ Error(500)
    BY <1>4 DEF BadLength
  <2>2. Good(c)' => Good(c)
    BY <1>1, <2>1 DEF Good, HeaderAtOnce
  <2>3. Good(c) => PastHeader
    BY <1>0, <2>1 DEF Good, AInv, Track
  <2>4. PastHeader => /\ c \in Tcp /\ msg[c][1].kind = "post" /\ IsPost(msg[c])
                      /\ ~Refused(msg[c]) /\ Length(msg[c]) = contentlength
    BY <1>0 DEF PastHeader, IsPost, PostLine
  <2>5. len \in Nat /\ contentlength \in Nat
    BY WsdHttpAssumption DEF IInv, TypeOK
  <2>6. CASE contentlength = 0 /\ Error(400)
    <3>1. Good(c) => Refusal(400) = Owed(c, msg[c])
      BY <2>3, <2>4, <2>6, ZenonT(60) DEF Owed, Http
    <3> QED  BY <1>0, <1>1, <2>1, <2>2, <2>6, <3>1, ErrorAnswers
  <2>7. CASE contentlength > len /\ contentlength >= BufSize /\ Error(500)
    <3>1. contentlength # 0
      BY <2>5, <2>7
    <3>2. ASSUME Good(c) PROVE Refusal(500) = Owed(c, msg[c])
      <4>1. Length(msg[c]) >= BufSize /\ Length(msg[c]) # 0
        BY <2>3, <2>4, <2>7, <3>1, <3>2
      <4> QED  BY <2>3, <2>4, <3>2, <4>1, ZenonT(60) DEF Owed, Http
    <3> QED  BY <1>0, <1>1, <2>1, <2>2, <2>7, <3>2, ErrorAnswers
  <2> QED  BY <2>1, <2>6, <2>7
<1>5. CASE MoreFails
  <2>1. Error(500) /\ NoReceive
    BY <1>5 DEF MoreFails
  <2>2. taken' = taken /\ Count(0)
    BY <2>1 DEF NoReceive
  <2>3. ~Good(c)' /\ \A q \in Peer \ {c} : calls'[q] = calls[q]
    BY <1>0, <2>2, CountTells DEF Good
  <2> QED  BY <1>0, <1>1, <2>1, <2>2, <2>3, ErrorAnswers
<1>6. CASE FirstEnd
  <2>1. Finish(<< >>, {}) /\ NoReceive
    BY <1>6 DEF FirstEnd
  <2>2. taken' = taken /\ Count(0)
    BY <2>1 DEF NoReceive
  <2>3. ~Good(c)' /\ \A q \in Peer \ {c} : calls'[q] = calls[q]
    BY <1>0, <2>2, CountTells DEF Good
  <2> QED  BY <1>0, <1>1, <2>1, <2>2, <2>3, FinishAnswers
<1>8. CASE CutStart
  <2>1. Finish(<< >>, {}) /\ taken' = taken /\ Count(0)
    BY <1>8 DEF CutStart
  <2>2. ~Good(c)' /\ \A q \in Peer \ {c} : calls'[q] = calls[q]
    BY <1>0, <2>1, CountTells DEF Good
  <2> QED  BY <1>0, <1>1, <2>1, <2>2, FinishAnswers
<1>7. CASE BodyShort
  <2>0. pc = "body" /\ Error(500)
    BY <1>7 DEF BodyShort
  <2>1. CASE NoReceive
    <3>1. taken' = taken /\ Count(0)
      BY <2>1 DEF NoReceive
    <3>2. ~Good(c)' /\ \A q \in Peer \ {c} : calls'[q] = calls[q]
      BY <1>0, <3>1, CountTells DEF Good
    <3> QED  BY <1>0, <1>1, <2>0, <3>1, <3>2, ErrorAnswers
  <2>2. CASE Available \in 1 .. contentlength - len - 1 /\ Receive(len, Available)
    <3>1. /\ taken[c] \in Nat /\ len \in Nat /\ contentlength \in Nat /\ Available \in Nat
          /\ taken' = [taken EXCEPT ![c] = @ + Available] /\ Count(Available)
      BY <1>0, <2>2, AvailableFacts, WsdHttpAssumption DEF Receive, IInv, TypeOK
    <3>2. taken'[c] = taken[c] + Available /\ \A q \in Peer \ {c} : taken'[q] = taken[q]
      BY <3>1 DEF IInv, TypeOK
    <3>3. /\ calls'[c].first = calls[c].first /\ calls'[c].more
          /\ \A q \in Peer \ {c} : calls'[q] = calls[q]
      BY <1>0, <2>0, <3>1, CountTells
    <3>4. ASSUME Good(c)' PROVE FALSE
      <4>1. HeaderAtOnce(c)
        BY <1>1, <3>3, <3>4 DEF Good, HeaderAtOnce
      <4>2. taken[c] = HeaderEnd(msg[c]) + len /\ contentlength = Length(msg[c])
        BY <1>0, <2>0, <4>1 DEF AInv, Track, PastHeader
      <4>3. HeaderEnd(msg[c]) \in Int
        BY <1>0, <2>0, <4>1, HeaderEndFacts, RequestFacts DEF AInv, Track, PastHeader, IInv, Bounds
      <4>4. taken'[c] < HeaderEnd(msg[c]) + contentlength
        BY <2>2, <3>1, <3>2, <4>2, <4>3
      <4>5. taken'[c] >= HeaderEnd(msg[c]) + contentlength
        BY <1>1, <3>3, <3>4, <4>2 DEF Good
      <4> QED  BY <3>1, <3>2, <4>3, <4>4, <4>5
    <3> QED  BY <1>0, <1>1, <2>0, <3>2, <3>3, <3>4, ErrorAnswers
  <2> QED  BY <1>7, <2>1, <2>2 DEF BodyShort
<1> QED  BY <1>2, <1>3, <1>4, <1>5, <1>6, <1>7, <1>8

LEMMA AnswersAnswer ==
    ASSUME IInv, AInv, Answer \/ NoAnswer
    PROVE  AInv'
<1>1. PICK c \in Peer : c = cur
  BY DEF Answer, NoAnswer, IInv, TypeOK
<1>2. pc = "soap" /\ UNCHANGED << taken, calls, msg >>
  BY DEF Answer, NoAnswer, peers
<1>3. Good(c)' => Good(c)
  BY <1>2 DEF Good, HeaderAtOnce
<1> DEFINE m == msg[c]
           Act(f, n) == FirstIn(m, Asked \cup {"other action"}, f, f + n - 1)
           Id(f, n) == FirstIn(m, {"id"}, f, f + n - 1)
<1>4. ASSUME Good(c)
      PROVE  \E f \in Nat \ {0}, n \in 0 .. BufSize - 1 :
                /\ Owed(c, m) = OwedToText(c, m, f, f + n - 1)
                /\ \A i \in 0 .. n - 1 : buf[i] = m[f + i]
                /\ \A i, j \in 0 .. BufSize - 1 :
                      Parsed(i, j) => /\ i \in 0 .. n - 1 /\ j \in 0 .. n - 1
                                      /\ Act(f, n) = f + i /\ Id(f, n) = f + j
                /\ Act(f, n) # 0 /\ Id(f, n) # 0 =>
                      /\ Act(f, n) - f \in 0 .. n - 1 /\ Id(f, n) - f \in 0 .. n - 1
                      /\ Parsed(Act(f, n) - f, Id(f, n) - f)
  <2>1. SoapText
    BY <1>1, <1>2, <1>4 DEF AInv, Track
  <2>2. PICK f \in Nat \ {0}, n \in 0 .. BufSize - 1 :
           /\ f + n - 1 <= Len(msg[cur]) /\ Holds(f, n)
           /\ Owed(cur, msg[cur]) = OwedToText(cur, msg[cur], f, f + n - 1)
    BY <2>1 DEF SoapText
  <2>3. \A i \in 0 .. n - 1 : buf[i] = m[f + i]
    BY <1>1, <2>2 DEF Holds
  <2>4. /\ \A i \in 0 .. BufSize - 1 : FirstOf(Asked \cup {"other action"}, i) =>
              i \in 0 .. n - 1 /\ Act(f, n) = f + i
        /\ Act(f, n) # 0 => /\ Act(f, n) - f \in 0 .. n - 1
                            /\ FirstOf(Asked \cup {"other action"}, Act(f, n) - f)
    BY <1>1, <2>2, TextFirst
  <2>5. /\ \A i \in 0 .. BufSize - 1 : FirstOf({"id"}, i) =>
              i \in 0 .. n - 1 /\ Id(f, n) = f + i
        /\ Id(f, n) # 0 => Id(f, n) - f \in 0 .. n - 1 /\ FirstOf({"id"}, Id(f, n) - f)
    BY <1>1, <2>2, TextFirst
  <2> HIDE DEF Act, Id
  <2>6. \A i, j \in 0 .. BufSize - 1 :
           Parsed(i, j) => /\ i \in 0 .. n - 1 /\ j \in 0 .. n - 1
                           /\ Act(f, n) = f + i /\ Id(f, n) = f + j
    BY <2>4, <2>5 DEF Parsed
  <2>7. Act(f, n) # 0 /\ Id(f, n) # 0 =>
           /\ Act(f, n) - f \in 0 .. n - 1 /\ Id(f, n) - f \in 0 .. n - 1
           /\ Parsed(Act(f, n) - f, Id(f, n) - f)
    BY <2>4, <2>5 DEF Parsed
  <2> QED  BY <1>1, <2>2, <2>3, <2>6, <2>7
<1>5. ASSUME NEW f \in Nat \ {0}, NEW n \in 0 .. BufSize - 1
      PROVE  OwedToText(c, m, f, f + n - 1) =
                 IF \/ Act(f, n) = 0 \/ Id(f, n) = 0 \/ c \in OffLink
                    \/ m[Act(f, n)].kind \notin Asked THEN << >>
                 ELSE IF m[Act(f, n)].kind = "Get"
                      THEN << StatusLine(200), SoapMsg("Get", m[Id(f, n)].val) >>
                      ELSE << SoapMsg(m[Act(f, n)].kind, m[Id(f, n)].val) >>
  BY DEF OwedToText
<1> HIDE DEF Act, Id
<1>6. CASE Answer
  <2>1. PICK i \in 0 .. BufSize - 1, j \in 0 .. BufSize - 1 :
           /\ Answerable(i, j)
           /\ \/ buf[i].kind = "Get" /\ GetResponse(buf[j].val)
              \/ buf[i].kind # "Get" /\ Match(buf[i].kind, buf[j].val)
    BY <1>6 DEF Answer
  <2>2. ASSUME Good(c)
        PROVE  Owed(c, m) = IF buf[i].kind = "Get"
                            THEN << StatusLine(200), SoapMsg("Get", buf[j].val) >>
                            ELSE << SoapMsg(buf[i].kind, buf[j].val) >>
    <3>1. PICK f \in Nat \ {0}, n \in 0 .. BufSize - 1 :
             /\ Owed(c, m) = OwedToText(c, m, f, f + n - 1)
             /\ \A k \in 0 .. n - 1 : buf[k] = m[f + k]
             /\ i \in 0 .. n - 1 /\ j \in 0 .. n - 1
             /\ Act(f, n) = f + i /\ Id(f, n) = f + j
      BY <1>4, <2>1, <2>2 DEF Answerable
    <3>2. buf[i] = m[Act(f, n)] /\ buf[j] = m[Id(f, n)]
      BY <3>1
    <3>3. Act(f, n) # 0 /\ Id(f, n) # 0
      BY <3>1, WsdHttpAssumption
    <3>4. c \notin OffLink /\ m[Act(f, n)].kind \in Asked
      BY <1>1, <2>1, <3>2 DEF Answerable, Faced
    <3> QED  BY <1>5, <3>1, <3>2, <3>3, <3>4, ZenonT(60)
  <2>3. CASE buf[i].kind = "Get" /\ GetResponse(buf[j].val)
    <3>1. Good(c)' => << StatusLine(200), SoapMsg("Get", buf[j].val) >> = Owed(c, m)
      BY <1>3, <2>2, <2>3
    <3> QED  BY <1>1, <1>2, <2>3, <3>1, FinishAnswers DEF GetResponse
  <2>4. CASE buf[i].kind # "Get" /\ Match(buf[i].kind, buf[j].val)
    <3>1. Good(c)' => << SoapMsg(buf[i].kind, buf[j].val) >> = Owed(c, m)
      BY <1>3, <2>2, <2>4
    <3> QED  BY <1>1, <1>2, <2>4, <3>1, FinishAnswers DEF Match
  <2> QED  BY <2>1, <2>3, <2>4
<1>7. CASE NoAnswer
  <2>1. Finish(<< >>, {}) /\ \A i, j \in 0 .. BufSize - 1 : ~Answerable(i, j)
    BY <1>7 DEF NoAnswer
  <2>2. ASSUME Good(c) PROVE << >> = Owed(c, m)
    <3>1. PICK f \in Nat \ {0}, n \in 0 .. BufSize - 1 :
             /\ Owed(c, m) = OwedToText(c, m, f, f + n - 1)
             /\ \A k \in 0 .. n - 1 : buf[k] = m[f + k]
             /\ Act(f, n) # 0 /\ Id(f, n) # 0 =>
                   /\ Act(f, n) - f \in 0 .. n - 1 /\ Id(f, n) - f \in 0 .. n - 1
                   /\ Parsed(Act(f, n) - f, Id(f, n) - f)
      BY <1>4, <2>2
    <3>2. ASSUME Act(f, n) # 0, Id(f, n) # 0, c \notin OffLink, m[Act(f, n)].kind \in Asked
          PROVE  FALSE
      <4>1. Act(f, n) - f \in 0 .. BufSize - 1 /\ Id(f, n) - f \in 0 .. BufSize - 1
        BY <3>1, <3>2, WsdHttpAssumption
      <4>2. Act(f, n) \in Int
        <5>1. f \in Int /\ f + n - 1 \in Int
          BY WsdHttpAssumption
        <5> QED  BY <5>1, FirstInType DEF Act
      <4>3. buf[Act(f, n) - f] = m[Act(f, n)]
        <5>1. f + (Act(f, n) - f) = Act(f, n)
          BY <4>2
        <5> QED  BY <3>1, <3>2, <5>1
      <4>4. Answerable(Act(f, n) - f, Id(f, n) - f)
        BY <1>1, <3>1, <3>2, <4>3 DEF Answerable, Faced
      <4> QED  BY <2>1, <4>1, <4>4
    <3> QED  BY <1>5, <3>1, <3>2, Zenon
  <2> QED  BY <1>1, <1>2, <1>3, <2>1, <2>2, FinishAnswers
<1> QED  BY <1>6, <1>7

\* A step that takes no peer's leave leaves only the one at hand to be looked at.
LEMMA TalkingAnswered ==
    ASSUME IInv, CInv, AInv, NEW c \in Peer, c = cur, pc \notin {"select", "gone"},
           UNCHANGED << conn, got, unsent, msg >>,
           \A q \in Peer \ {c} : taken'[q] = taken[q] /\ calls'[q] = calls[q]
    PROVE  WholeRequestAnswered'
<1>1. conn'[c] = "talking"
  BY DEF CInv, Waiting
<1> QED  BY <1>1, OthersAnswered DEF AInv

\* What a receive tells of the peer at hand and of the others.
LEMMA ReceiveTells ==
    ASSUME IInv, NEW c \in Peer, c = cur, NEW at \in Int, NEW n \in Nat, Receive(at, n)
    PROVE  /\ taken'[c] = taken[c] + n
           /\ calls'[c].first = IF pc = "first" THEN n ELSE calls[c].first
           /\ \A q \in Peer \ {c} : taken'[q] = taken[q] /\ calls'[q] = calls[q]
<1>1. taken' = [taken EXCEPT ![c] = @ + n] /\ Count(n)
  BY DEF Receive
<1>2. taken'[c] = taken[c] + n /\ \A q \in Peer \ {c} : taken'[q] = taken[q]
  BY <1>1 DEF IInv, TypeOK
<1> QED  BY <1>1, <1>2, CountTells

\* The first octets of a request: a request line, or the SOAP text itself.
LEMMA FirstRecvAnswers ==
    ASSUME IInv, CInv, AInv, FirstRecv
    PROVE  AInv'
<1>1. PICK c \in Peer : c = cur
  BY DEF FirstRecv, IInv, TypeOK
<1>2. /\ pc = "first" /\ Receive(0, Available) /\ len' = Available /\ Available > 0
      /\ pc' = (IF buf'[0].kind \in PostLine THEN "request" ELSE "soap")
      /\ UNCHANGED << cur, contentlength, conn, got, unsent, msg >>
  BY DEF FirstRecv, peers
<1>3. /\ Available \in Nat /\ taken[c] + Available <= Len(msg[c]) /\ Len(msg[c]) \in Nat
      /\ Available <= BufSize - 1 /\ BufSize \in Nat
  BY <1>1, AvailableFacts
<1>4. c \in Tcp /\ taken[c] = 0
  BY <1>1, <1>2 DEF CInv, FirstPass, Waiting
<1>5. /\ taken'[c] = Available /\ calls'[c].first = Available
      /\ \A q \in Peer \ {c} : taken'[q] = taken[q] /\ calls'[q] = calls[q]
  BY <1>1, <1>2, <1>3, <1>4, ReceiveTells
<1>6. /\ buf'[Available] = NUL
      /\ \A i \in 0 .. Available - 1 : buf'[i] = msg[c][1 + i]
  <2>1. \A i \in 0 .. BufSize - 1 :
           buf'[i] = IF i \in 0 .. 0 + Available - 1 THEN msg[c][taken[c] + 1 + i - 0]
                     ELSE IF i = 0 + Available THEN NUL ELSE buf[i]
    BY <1>1, <1>2 DEF Receive
  <2>2. Available \in 0 .. BufSize - 1 /\ Available \notin 0 .. 0 + Available - 1
        /\ Available = 0 + Available
    BY <1>3, <1>4
  <2>3. buf'[Available] = NUL
    BY <2>1, <2>2
  <2>4. ASSUME NEW i \in 0 .. Available - 1 PROVE buf'[i] = msg[c][1 + i]
    <3>1. i \in 0 .. BufSize - 1 /\ i \in 0 .. 0 + Available - 1
          /\ taken[c] + 1 + i - 0 = 1 + i
      BY <1>3, <1>4, <2>2
    <3> QED  BY <2>1, <3>1
  <2> QED  BY <2>3, <2>4
<1>7. CASE pc' = "request"
  BY <1>1, <1>2, <1>5, <1>7, TalkingAnswered DEF AInv, Track
<1>8. CASE pc' = "soap"
  <2>1. buf'[0] = msg[c][1]
    <3>1. 0 \in 0 .. Available - 1 /\ 1 + 0 = 1
      BY <1>2, <1>3
    <3> QED  BY <1>6, <3>1
  <2>2. ~IsPost(msg[c])
    BY <1>2, <1>8, <2>1 DEF IsPost
  <2>3. Good(c)' => Available = Len(msg[c])
    BY <1>2, <1>5, <2>2 DEF Good, HeaderAtOnce, Http
  <2>4. ASSUME Available = Len(msg[c]) PROVE SoapText'
    <3>1. PICK n \in Nat : n = Available
      BY <1>3
    <3>2. /\ 1 \in Nat \ {0} /\ n \in 0 .. BufSize - 1
          /\ 1 + n - 1 <= Len(msg[c]) /\ 1 + n - 1 = Len(msg[c])
      BY <1>3, <1>4, <2>4, <3>1
    <3>3. Owed(c, msg[c]) = OwedToText(c, msg[c], 1, 1 + n - 1)
      BY <2>2, <3>2 DEF Owed, Http
    <3>4. Holds(1, n)'
      BY <1>1, <1>2, <1>6, <3>1 DEF Holds
    <3> QED  BY <1>1, <1>2, <3>2, <3>3, <3>4 DEF SoapText
  <2>5. Track'
    BY <1>1, <1>2, <1>8, <2>3, <2>4 DEF Track
  <2> QED  BY <1>1, <1>2, <1>5, <2>5, TalkingAnswered DEF AInv
<1> QED  BY <1>2, <1>7, <1>8

\* On its way through the parser the request is still in the buffer, from its beginning.
LEMMA ParserAnswers ==
    ASSUME Proper, IInv, CInv, AInv, GoodRequestLine \/ Unfinished \/ More \/ Short
    PROVE  AInv'
<1>1. pc \notin {"select", "gone", "first"} /\ cur \in Peer
  <2>1. pc \in {"request", "lines", "more", "length"}
    BY DEF GoodRequestLine, Unfinished, More, Short
  <2> QED  BY <2>1 DEF IInv, TypeOK
<1>2. PICK c \in Peer : c = cur
  BY <1>1
<1>3. UNCHANGED << cur, conn, got, unsent, msg >>
  BY DEF GoodRequestLine, Unfinished, More, Short, peers
<1>4. CASE GoodRequestLine
  <2>1. /\ pc = "request" /\ buf[0].kind = "post" /\ pc' = "lines"
        /\ UNCHANGED << buf, len, contentlength, taken, calls >>
    BY <1>4 DEF GoodRequestLine
  <2>2. HeaderAtOnce(c)' => HeaderAtOnce(c)
    BY <1>3, <2>1 DEF HeaderAtOnce
  <2>3. ASSUME HeaderAtOnce(c) PROVE msg[c][1].kind = "post"
    <3>1. FirstCopy /\ IsPost(msg[c]) /\ c \in Tcp
      BY <1>2, <2>1 DEF CInv, FirstPass
    <3>2. HeaderEnd(msg[c]) \in 1 .. len /\ len \in Nat
      BY <1>2, <2>3, <3>1, WsdHttpAssumption DEF HeaderAtOnce, Http, FirstCopy, IInv, TypeOK
    <3>3. 0 \in 0 .. len - 1 /\ 0 + 1 = 1
      BY <3>2
    <3> QED  BY <1>2, <2>1, <3>1, <3>3 DEF FirstCopy
  <2>4. Track'
    BY <1>2, <1>3, <2>1, <2>2, <2>3 DEF AInv, Track
  <2> QED  BY <1>1, <1>2, <1>3, <2>1, <2>4, TalkingAnswered DEF AInv
<1>5. CASE Unfinished
  <2>1. pc' = "more" /\ UNCHANGED << taken, calls >>
    BY <1>5 DEF Unfinished
  <2>2. Track'
    BY <2>1 DEF Track
  <2> QED  BY <1>1, <1>2, <1>3, <2>1, <2>2, TalkingAnswered DEF AInv
<1>6. CASE More
  <2>1. pc = "more" /\ pc' = "lines" /\ Receive(len, Available)
    BY <1>6 DEF More
  <2>2. Available \in Nat /\ len \in Int
    BY <1>1, AvailableFacts, WsdHttpAssumption, SMTT(60) DEF IInv, TypeOK
  <2>3. /\ calls'[c].first = calls[c].first
        /\ \A q \in Peer \ {c} : taken'[q] = taken[q] /\ calls'[q] = calls[q]
    BY <1>2, <2>1, <2>2, ReceiveTells
  <2>4. IsPost(msg[c]) /\ ~HeaderAtOnce(c)
    BY <1>2, <2>1 DEF CInv, FirstPass
  <2>5. ~HeaderAtOnce(c)'
    BY <1>3, <2>3, <2>4 DEF HeaderAtOnce
  <2>6. Track'
    BY <1>2, <1>3, <2>1, <2>5 DEF Track
  <2> QED  BY <1>1, <1>2, <1>3, <2>3, <2>6, TalkingAnswered DEF AInv
<1>7. CASE Short
  <2>1. /\ pc = "length" /\ pc' = "body"
        /\ UNCHANGED << buf, len, contentlength, taken, calls >>
    BY <1>7 DEF Short
  <2>2. HeaderAtOnce(c)' => HeaderAtOnce(c)
    BY <1>3, <2>1 DEF HeaderAtOnce
  <2>3. HeaderAtOnce(c) => PastHeader
    BY <1>2, <2>1 DEF AInv, Track
  <2>4. PastHeader => PastHeader'
    BY <1>3, <2>1 DEF PastHeader, Holds
  <2>5. Track'
    BY <1>2, <1>3, <2>1, <2>2, <2>3, <2>4 DEF Track
  <2> QED  BY <1>1, <1>2, <1>3, <2>1, <2>5, TalkingAnswered DEF AInv
<1> QED  BY <1>4, <1>5, <1>6, <1>7

\* The header loop reads the length that the header gives last.
LEMMA LastLength ==
    ASSUME IInv, contentlength = 0, NEW m, NEW h \in Int, h - 1 \in pos .. len, pos = 1,
           \A i \in 0 .. len - 1 : buf[i] = m[i + 1], SetLength(h - 1)
    PROVE  contentlength' = LET l == LastIn(m, {"length"}, 2, h - 1) IN
                            IF l = 0 THEN 0 ELSE m[l].val
<1> DEFINE at == {j \in pos .. h - 1 - 1 : buf[j].kind = "length"}
           l == LastIn(m, {"length"}, 2, h - 1)
<1>1. len \in Nat
  BY WsdHttpAssumption DEF IInv, TypeOK
<1>2. \A j \in 1 .. h - 2 : j \in 0 .. len - 1 /\ buf[j] = m[j + 1] /\ j + 1 \in 2 .. h - 1
  BY <1>1
<1>3. /\ (\E i \in 2 .. h - 1 : m[i].kind \in {"length"}) =>
            /\ l \in 2 .. h - 1 /\ m[l].kind \in {"length"}
            /\ \A i \in l + 1 .. h - 1 : m[i].kind \notin {"length"}
      /\ (\A i \in 2 .. h - 1 : m[i].kind \notin {"length"}) => l = 0
  <2>1. 2 \in Int /\ h - 1 \in Int
    OBVIOUS
  <2> QED  BY <2>1, LastInFacts
<1>4. h - 1 - 1 = h - 2
  OBVIOUS
<1> HIDE DEF l
<1>5. CASE at = {}
  <2>1. \A i \in 2 .. h - 1 : i - 1 \in 1 .. h - 2 /\ (i - 1) + 1 = i
    OBVIOUS
  <2>2. \A i \in 2 .. h - 1 : m[i].kind \notin {"length"}
    BY <1>2, <1>4, <1>5, <2>1
  <2>3. contentlength' = contentlength
    BY <1>5 DEF SetLength
  <2> QED  BY <1>3, <2>2, <2>3 DEF l
<1>6. CASE at # {}
  <2>1. PICK j \in at : (\A i \in at : i <= j) /\ contentlength' = buf[j].val
    BY <1>6, Zenon DEF SetLength
  <2>2. j \in 1 .. h - 2 /\ buf[j].kind = "length"
    BY <1>4, <2>1
  <2>3. buf[j] = m[j + 1] /\ j + 1 \in 2 .. h - 1
    BY <1>2, <2>2
  <2>4. /\ l \in 2 .. h - 1 /\ m[l].kind = "length"
        /\ \A i \in l + 1 .. h - 1 : m[i].kind # "length"
    BY <1>3, <2>2, <2>3
  <2>5. l - 1 \in 1 .. h - 2 /\ (l - 1) + 1 = l
    BY <2>4
  <2>6. buf[l - 1].kind = "length"
    BY <1>2, <2>4, <2>5
  <2>7. l - 1 <= j
    BY <1>4, <2>1, <2>5, <2>6
  <2>8. ~(j + 1 \in l + 1 .. h - 1)
    BY <2>2, <2>3, <2>4
  <2>9. l = j + 1
    BY <2>2, <2>3, <2>4, <2>7, <2>8
  <2>10. l # 0
    BY <2>4
  <2> QED  BY <2>1, <2>3, <2>9, <2>10 DEF l
<1> QED  BY <1>5, <1>6

\* The end of the header: what follows it moves to the beginning of the buffer.
LEMMA EndOfHeaderAnswers ==
    ASSUME Proper, IInv, CInv, AInv, EndOfHeader
    PROVE  AInv'
<1>1. pc = "lines" /\ cur \in Peer
  BY DEF EndOfHeader, IInv, TypeOK
<1>2. PICK c \in Peer : c = cur
  BY <1>1
<1>3. /\ UNCHANGED << cur, conn, got, unsent, msg, taken, calls >>
      /\ pc' = "length"
  BY DEF EndOfHeader, peers
<1>4. PICK k \in pos .. len : /\ StopsAt(k) /\ buf[k].kind = "blank"
                              /\ SetLength(k) /\ MoveDown(k + 1)
  BY DEF EndOfHeader
<1>5. HeaderAtOnce(c)' => HeaderAtOnce(c)
  BY <1>3 DEF HeaderAtOnce
<1>6. ASSUME HeaderAtOnce(c) PROVE PastHeader'
  <2> DEFINE m == msg[c]
             h == HeaderEnd(m)
  <2>1. /\ c \in Tcp /\ pos = 1 /\ h \in 2 .. len /\ k = h - 1
        /\ \A i \in 0 .. len - 1 : buf[i] = m[i + 1]
        /\ \A i \in 2 .. k : m[i].kind \in HeaderLine
    BY <1>1, <1>2, <1>4, <1>6, FirstStop DEF CInv
  <2>2. len \in 0 .. BufSize - 1 /\ BufSize \in Nat /\ h \in Int
    BY <2>1, WsdHttpAssumption DEF IInv, TypeOK
  <2>3. contentlength = 0 /\ taken[c] = len /\ m[1].kind = "post"
    BY <1>1, <1>2, <1>6 DEF AInv, Track
  <2>4. ~Refused(m)
    <3>1. \A i \in 2 .. h - 1 : m[i].kind \notin BadLine
      BY <2>1 DEF HeaderLine, BadLine
    <3>2. 2 \in Int /\ h - 1 \in Int
      BY <2>2
    <3>3. FirstIn(m, BadLine, 2, h - 1) = 0
      BY <3>1, <3>2, FirstInFacts
    <3> QED  BY <3>3 DEF Refused
  <2>5. contentlength' = Length(m)
    <3> HIDE DEF m
    <3>1. contentlength' = LET l == LastIn(m, {"length"}, 2, h - 1) IN
                           IF l = 0 THEN 0 ELSE m[l].val
      <4> HIDE DEF h
      <4> QED  BY <1>4, <2>1, <2>2, <2>3, LastLength
    <3> QED  BY <3>1 DEF Length
  <2> HIDE DEF h
  <2>6. k + 1 = h /\ k + 1 \in 0 .. len
    BY <2>1, <2>2
  <2>7. len' = len - h /\ buf'[len'] = NUL
    BY <1>1, <1>3, <1>4, <2>6, MoveDownFacts
  <2>8. \A i \in 0 .. len' - 1 : buf'[i] = m[h + 1 + i]
    <3> SUFFICES ASSUME NEW i \in 0 .. len' - 1 PROVE buf'[i] = m[h + 1 + i]
      OBVIOUS
    <3>1. /\ i \in 0 .. BufSize - 1 /\ i < len - (k + 1) /\ i + h \in 0 .. len - 1
          /\ (i + h) + 1 = h + 1 + i
      BY <2>1, <2>2, <2>6, <2>7
    <3>2. buf'[i] = buf[i + (k + 1)]
      BY <1>4, <3>1 DEF MoveDown
    <3> QED  BY <2>1, <2>6, <3>1, <3>2
  <2>9. taken'[c] = h + len'
    BY <1>3, <2>1, <2>2, <2>3, <2>7
  <2>10. Holds(HeaderEnd(msg[cur]) + 1, len)'
    BY <1>2, <1>3, <2>7, <2>8 DEF Holds, h
  <2>11. h > 0
    BY <2>1, <2>2
  <2> QED  BY <1>2, <1>3, <2>1, <2>3, <2>4, <2>5, <2>9, <2>10, <2>11 DEF PastHeader, h
<1>7. Track'
  BY <1>2, <1>3, <1>5, <1>6 DEF Track
<1> QED  BY <1>1, <1>2, <1>3, <1>7, TalkingAnswered DEF AInv

\* Behind the header begins the text whose answer is owed, as long as the header says.
LEMMA BodyIsOwed ==
    ASSUME IInv, NEW c \in Peer, c = cur, PastHeader, contentlength \in 1 .. BufSize - 1
    PROVE  LET h == HeaderEnd(msg[c]) IN
           /\ h \in Nat /\ h + 1 \in Nat \ {0}
           /\ h + 1 + contentlength - 1 = h + contentlength
           /\ Owed(c, msg[c]) = OwedToText(c, msg[c], h + 1, h + contentlength)
<1> DEFINE m == msg[c]
           h == HeaderEnd(m)
<1>1. /\ c \in Tcp /\ m[1].kind = "post" /\ h > 0 /\ ~Refused(m)
      /\ contentlength = Length(m)
  BY DEF PastHeader
<1>2. h \in Nat
  BY <1>1, HeaderEndFacts, RequestFacts DEF IInv, Bounds
<1>3. IsPost(m)
  BY <1>1 DEF IsPost, PostLine
<1>4. Length(m) # 0 /\ ~(Length(m) >= BufSize)
  BY <1>1, WsdHttpAssumption
<1>5. Owed(c, m) = OwedToText(c, m, h + 1, h + contentlength)
  <2>1. Owed(c, m) = OwedToText(c, m, HeaderEnd(m) + 1, HeaderEnd(m) + Length(m))
    BY <1>1, <1>3, <1>4, Zenon DEF Owed, Http
  <2> QED  BY <1>1, <2>1
<1> HIDE DEF h
<1>6. h + 1 \in Nat \ {0} /\ h + 1 + contentlength - 1 = h + contentlength
  BY <1>2, WsdHttpAssumption
<1> QED  BY <1>2, <1>5, <1>6 DEF h

\* The body is in the buffer, or the rest of it comes.
LEMMA BodyAnswers ==
    ASSUME Proper, IInv, CInv, AInv, Enough \/ Body \/ BodySilence
    PROVE  AInv'
<1>1. pc \in {"length", "body"} /\ pc' = "soap" /\ cur \in Peer
  BY DEF Enough, Body, BodySilence, IInv, TypeOK
<1>2. PICK c \in Peer : c = cur
  BY <1>1
<1>3. UNCHANGED << cur, contentlength, len, conn, got, unsent, msg >>
  BY DEF Enough, Body, BodySilence, peers
<1>4. HeaderAtOnce(c) => PastHeader
  BY <1>1, <1>2 DEF AInv, Track
<1>5. PICK n \in Nat : n = contentlength
  BY DEF IInv, TypeOK
<1>6. /\ taken[c] \in Nat /\ len \in 0 .. BufSize - 1 /\ BufSize \in Nat
      /\ Available \in Nat /\ taken[c] + Available <= Len(msg[c]) /\ Len(msg[c]) \in Nat
  BY <1>2, AvailableFacts, WsdHttpAssumption DEF IInv, TypeOK
\* What is to be shown of the buffer.
<1>7. ASSUME PastHeader, n \in 1 .. BufSize - 1, HeaderEnd(msg[c]) + n <= Len(msg[c]),
             buf'[n] = NUL,
             \A i \in 0 .. n - 1 : buf'[i] = msg[c][HeaderEnd(msg[c]) + 1 + i]
      PROVE  SoapText'
  <2> DEFINE h == HeaderEnd(msg[c])
  <2>1. /\ h \in Nat /\ h + 1 \in Nat \ {0} /\ h + 1 + n - 1 = h + n
        /\ Owed(c, msg[c]) = OwedToText(c, msg[c], h + 1, h + n)
    BY <1>2, <1>5, <1>7, BodyIsOwed
  <2>2. PICK f \in Nat \ {0} : f = h + 1
    BY <2>1
  <2>3. Holds(f, n)'
    BY <1>2, <1>3, <1>7, <2>2 DEF Holds
  <2>4. n \in 0 .. BufSize - 1 /\ f + n - 1 <= Len(msg[c]) /\ f + n - 1 = h + n
    BY <1>6, <1>7, <2>1, <2>2
  <2>5. Owed(c, msg[c]) = OwedToText(c, msg[c], f, f + n - 1)
    BY <2>1, <2>2, <2>4
  <2> QED  BY <1>2, <1>3, <2>3, <2>4, <2>5 DEF SoapText
<1>8. CASE Enough
  <2>1. /\ contentlength \in 1 .. len /\ UNCHANGED << taken, calls >>
        /\ buf' = [buf EXCEPT ![contentlength] = NUL]
    BY <1>8 DEF Enough, Truncate
  <2>2. HeaderAtOnce(c)' => HeaderAtOnce(c)
    BY <1>3, <2>1 DEF HeaderAtOnce
  <2>3. ASSUME PastHeader PROVE SoapText'
    <3> DEFINE h == HeaderEnd(msg[c])
    <3>1. /\ h > 0 /\ taken[c] = h + len
          /\ \A i \in 0 .. len - 1 : buf[i] = msg[c][h + 1 + i]
      BY <1>2, <2>3 DEF PastHeader, Holds
    <3>2. n \in 1 .. len /\ n \in 1 .. BufSize - 1
      BY <1>5, <1>6, <2>1
    <3>3. h \in Nat
      BY <1>2, <1>5, <2>3, <3>2, BodyIsOwed
    <3> HIDE DEF h
    <3>4. h + n <= Len(msg[c])
      BY <1>6, <3>1, <3>2, <3>3
    <3>5. n \in 0 .. BufSize - 1 /\ \A i \in 0 .. n - 1 :
             i \in 0 .. BufSize - 1 /\ i \in 0 .. len - 1 /\ i # n
      BY <1>6, <3>2
    <3>6. buf'[n] = NUL /\ \A i \in 0 .. n - 1 : buf'[i] = buf[i]
      BY <1>5, <2>1, <3>5 DEF IInv, TypeOK
    <3> QED  BY <1>7, <2>3, <3>1, <3>2, <3>4, <3>5, <3>6 DEF h
  <2>4. Track'
    BY <1>1, <1>2, <1>3, <1>4, <2>2, <2>3 DEF Track, Good
  <2> QED  BY <1>1, <1>2, <1>3, <2>1, <2>4, TalkingAnswered DEF AInv
<1>9. CASE Body
  <2>1. /\ pc = "body" /\ Available >= contentlength - len
        /\ Receive(len, contentlength - len)
    BY <1>9 DEF Body
  <2>2. n \in len + 1 .. BufSize - 1
    BY <1>5, <2>1 DEF IInv, Bounds
  <2>3. n - len \in Nat /\ len \in Int
    BY <1>6, <2>2
  <2>4. /\ calls'[c].first = calls[c].first
        /\ \A q \in Peer \ {c} : taken'[q] = taken[q] /\ calls'[q] = calls[q]
    BY <1>2, <1>5, <2>1, <2>3, ReceiveTells
  <2>5. HeaderAtOnce(c)' => HeaderAtOnce(c)
    BY <1>3, <2>4 DEF HeaderAtOnce
  <2>6. ASSUME PastHeader PROVE SoapText'
    <3> DEFINE h == HeaderEnd(msg[c])
    <3>1. /\ taken[c] = h + len
          /\ \A i \in 0 .. len - 1 : buf[i] = msg[c][h + 1 + i]
      BY <1>2, <2>6 DEF PastHeader, Holds
    <3>2. n \in 1 .. BufSize - 1
      BY <1>6, <2>2
    <3>3. h \in Nat
      BY <1>2, <1>5, <2>6, <3>2, BodyIsOwed
    <3> HIDE DEF h
    <3>4. h + n <= Len(msg[c])
      BY <1>5, <1>6, <2>1, <3>1, <3>3
    <3>5. \A i \in 0 .. BufSize - 1 :
             buf'[i] = IF i \in len .. len + (n - len) - 1
                       THEN msg[c][taken[c] + 1 + i - len]
                       ELSE IF i = len + (n - len) THEN NUL ELSE buf[i]
      BY <1>2, <1>5, <2>1 DEF Receive
    <3>6. buf'[n] = NUL
      <4>1. /\ n \in 0 .. BufSize - 1 /\ n \notin len .. len + (n - len) - 1
            /\ n = len + (n - len)
        BY <1>6, <2>2
      <4> QED  BY <3>5, <4>1
    <3>7. ASSUME NEW i \in 0 .. n - 1 PROVE buf'[i] = msg[c][h + 1 + i]
      <4>1. i \in 0 .. BufSize - 1 /\ i # len + (n - len)
        BY <1>6, <2>2
      <4>2. CASE i \in 0 .. len - 1
        <5>1. i \notin len .. len + (n - len) - 1
          BY <1>6, <4>2
        <5> QED  BY <3>1, <3>5, <4>1, <4>2, <5>1
      <4>3. CASE i \notin 0 .. len - 1
        <5>1. /\ i \in len .. len + (n - len) - 1
              /\ taken[c] + 1 + i - len = h + 1 + i
          BY <1>6, <2>2, <3>1, <3>3, <4>3
        <5> QED  BY <3>5, <4>1, <5>1
      <4> QED  BY <4>2, <4>3
    <3> QED  BY <1>7, <2>6, <3>2, <3>4, <3>6, <3>7 DEF h
  <2>7. Track'
    BY <1>1, <1>2, <1>3, <1>4, <2>5, <2>6 DEF Track, Good
  <2> QED  BY <1>1, <1>2, <1>3, <2>4, <2>7, TalkingAnswered DEF AInv
<1>10. CASE BodySilence
  <2>1. Count(0) /\ taken' = taken
    BY <1>10 DEF BodySilence
  <2>2. ~Good(c)' /\ \A q \in Peer \ {c} : calls'[q] = calls[q]
    BY <1>2, <2>1, CountTells DEF Good
  <2>3. Track'
    BY <1>1, <1>2, <1>3, <2>2 DEF Track
  <2> QED  BY <1>1, <1>2, <1>3, <2>1, <2>2, <2>3, TalkingAnswered DEF AInv
<1> QED  BY <1>8, <1>9, <1>10

\* The handler takes the next peer: a datagram is its SOAP text from the beginning on.
LEMMA TakesAnswer ==
    ASSUME IInv, CInv, AInv, Accept \/ RecvFrom
    PROVE  AInv'
<1> USE WsdHttpAssumption
<1>1. CASE Accept
  <2>1. backlog \in Seq(Tcp) /\ backlog # << >>
    BY <1>1 DEF Accept, IInv, TypeOK
  <2>2. PICK p \in Peer : p = Head(backlog)
    BY <2>1, HeadTailProperties, Zenon
  <2>3. /\ pc = "select" /\ pc' = "first" /\ conn' = [conn EXCEPT ![p] = "talking"]
        /\ UNCHANGED << contentlength, msg, taken, got, calls, unsent >>
    BY <1>1, <2>2 DEF Accept, peers
  <2>4. conn'[p] = "talking" /\ \A q \in Peer \ {p} : conn'[q] = conn[q]
    BY <2>3 DEF IInv, TypeOK
  <2>5. WholeRequestAnswered'
    BY <2>3, <2>4, OthersAnswered DEF AInv
  <2>6. Track'
    BY <2>3 DEF AInv, Track
  <2> QED  BY <2>5, <2>6 DEF AInv
<1>2. CASE RecvFrom
  <2>1. dgrams \in Seq(Peer \ Tcp) /\ dgrams # << >>
    BY <1>2 DEF RecvFrom, IInv, TypeOK
  <2>2. PICK p \in Peer \ Tcp : p = Head(dgrams)
    BY <2>1, HeadTailProperties, Zenon
  <2>3. /\ pc = "select" /\ pc' = "soap" /\ conn' = [conn EXCEPT ![p] = "talking"]
        /\ cur' = p
        /\ buf' = [i \in 0 .. BufSize - 1 |->
                      IF i < Fits(p) THEN msg[p][i + 1]
                      ELSE IF i = Fits(p) THEN NUL ELSE buf[i]]
        /\ taken' = [taken EXCEPT ![p] = Fits(p)]
        /\ calls' = [calls EXCEPT ![p].first = Fits(p)]
        /\ UNCHANGED << msg, got, unsent >>
    BY <1>2, <2>2 DEF RecvFrom, peers
  <2>4. /\ conn'[p] = "talking"
        /\ \A q \in Peer \ {p} :
              conn'[q] = conn[q] /\ taken'[q] = taken[q] /\ calls'[q] = calls[q]
    BY <2>3 DEF IInv, TypeOK
  <2>5. WholeRequestAnswered'
    BY <2>3, <2>4, OthersAnswered DEF AInv
  <2>6. PICK n \in Nat : n = Fits(p) /\ n <= BufSize - 1 /\ n <= Len(msg[p])
    <3>1. msg[p] \in Request[p]
      BY DEF IInv, Bounds
    <3>2. Len(msg[p]) \in Nat
      BY <3>1, RequestFacts
    <3> QED  BY <3>2 DEF Fits
  <2>a. Good(p)' => n = Len(msg[p])
    <3>1. calls'[p].first = n
      BY <2>3, <2>6 DEF IInv, TypeOK
    <3> QED  BY <2>3, <3>1 DEF Good, HeaderAtOnce, Http
  <2>7. n \in 0 .. BufSize - 1 /\ ~(n < n) /\ 1 + n - 1 = n
    BY <2>6
  <2>8. \A i \in 0 .. n - 1 : i \in 0 .. BufSize - 1 /\ i < n /\ i + 1 = 1 + i
    BY <2>6
  <2>9. Holds(1, n)'
    BY <2>3, <2>6, <2>7, <2>8 DEF Holds
  <2>10. ASSUME n = Len(msg[p])
         PROVE  Owed(p, msg[p]) = OwedToText(p, msg[p], 1, 1 + n - 1)
    BY <2>2, <2>7, <2>10, Zenon DEF Owed, Http
  <2>11. ASSUME n = Len(msg[p]) PROVE SoapText'
    <3>1. 1 \in Nat \ {0} /\ 1 + n - 1 <= Len(msg[p])
      BY <2>6, <2>7
    <3> QED  BY <2>3, <2>7, <2>9, <2>10, <2>11, <3>1 DEF SoapText
  <2>12. Track'
    BY <2>3, <2>a, <2>11 DEF Track
  <2> QED  BY <2>5, <2>12 DEF AInv
<1> QED  BY <1>1, <1>2

\* A round that ends gives nobody an answer.
LEMMA ForgetsAnswer ==
    ASSUME IInv, CInv, AInv, NewRound \/ FirstSilence \/ Dies
    PROVE  AInv'
<1> USE WsdHttpAssumption
<1>1. taken' = taken /\ UNCHANGED << got, unsent, msg >>
  BY DEF NewRound, FirstSilence, Dies, Restart, NoReceive, peers
<1>2. CASE NewRound
  <2>1. /\ pc = "select" /\ pc' = "select" /\ cur' = NoPeer /\ contentlength' = 0
        /\ calls' = calls
        /\ conn' = [p \in Peer |-> IF p = cur THEN "closed"
                                   ELSE IF conn[p] = "queued" THEN "reset" ELSE conn[p]]
    BY <1>2 DEF NewRound, Restart
  <2>2. cur \notin Peer
    BY <2>1 DEF AInv, Track
  <2>3. \A q \in Peer : conn'[q] = "closed" => conn[q] = "closed"
    BY <2>1, <2>2
  <2>4. WholeRequestAnswered'
    BY <1>1, <2>1, <2>3, OthersAnswered DEF AInv
  <2>5. Track'
    BY <2>1 DEF Track
  <2> QED  BY <2>4, <2>5 DEF AInv
<1>3. CASE FirstSilence
  <2>1. /\ pc = "first" /\ pc' = "select" /\ cur' = NoPeer /\ contentlength' = 0
        /\ Count(0)
        /\ conn' = [p \in Peer |-> IF p = cur THEN "closed"
                                   ELSE IF conn[p] = "queued" THEN "reset" ELSE conn[p]]
    BY <1>3 DEF FirstSilence, Restart, NoReceive
  <2>2. PICK c \in Peer : c = cur
    BY <2>1 DEF IInv, TypeOK
  <2>3. ~Good(c)' /\ \A q \in Peer \ {c} : calls'[q] = calls[q]
    BY <2>1, <2>2, CountTells DEF Good
  <2>4. \A q \in Peer \ {c} : conn'[q] = "closed" => conn[q] = "closed"
    BY <2>1, <2>2
  <2>5. WholeRequestAnswered'
    BY <1>1, <2>3, <2>4, OthersAnswered DEF AInv
  <2>6. Track'
    BY <2>1 DEF Track
  <2> QED  BY <2>5, <2>6 DEF AInv
<1>4. CASE Dies
  <2>1. /\ pc' = "gone" /\ calls' = calls
        /\ conn' = [p \in Peer |-> IF conn[p] \in {"queued", "talking"} THEN "reset"
                                   ELSE conn[p]]
    BY <1>4 DEF Dies
  <2>2. \A q \in Peer : conn'[q] = "closed" => conn[q] = "closed"
    BY <2>1
  <2>3. WholeRequestAnswered'
    BY <1>1, <2>1, <2>2, OthersAnswered DEF AInv
  <2>4. Track'
    BY <2>1 DEF Track
  <2> QED  BY <2>3, <2>4 DEF AInv
<1> QED  BY <1>2, <1>3, <1>4

\* What the peers do changes neither what has been received nor what has been sent back.
LEMMA PeersAnswered ==
    ASSUME IInv, AInv, Peers \/ UNCHANGED vars
    PROVE  AInv'
<1>1. /\ UNCHANGED << pc, cur, buf, len, pos, contentlength, msg, taken, got, calls, unsent >>
      /\ \A q \in Peer : conn'[q] = "closed" => conn[q] = "closed"
  <2>1. CASE UNCHANGED vars
    BY <2>1 DEF vars, handler, peers
  <2>2. CASE Peers
    <3>1. PICK p \in Peer : Connect(p) \/ Datagram(p) \/ Send(p) \/ Shut(p)
      BY <2>2 DEF Peers
    <3>2. UNCHANGED << handler, msg, taken, got, calls, unsent >>
      BY <3>1, Zenon DEF Connect, Datagram, Send, Shut, peers
    <3>3. conn' = conn \/ conn' = [conn EXCEPT ![p] = "queued"]
      BY <3>1 DEF Connect, Datagram, Send, Shut
    <3> QED  BY <3>2, <3>3 DEF handler, IInv, TypeOK
  <2> QED  BY <2>1, <2>2
<1>2. WholeRequestAnswered'
  <2>1. NoPeer \notin Peer
    BY WsdHttpAssumption
  <2>2. \A q \in Peer \ {NoPeer} :
           /\ taken'[q] = taken[q] /\ calls'[q] = calls[q] /\ got'[q] = got[q]
           /\ conn'[q] = "closed" => conn[q] = "closed"
    BY <1>1
  <2> QED  BY <1>1, <2>1, <2>2, OthersAnswered DEF AInv
<1>3. \A q : HeaderAtOnce(q)' <=> HeaderAtOnce(q)
  BY <1>1, Zenon DEF HeaderAtOnce
<1>4. \A q : Good(q)' <=> Good(q)
  BY <1>1, <1>3, Zenon DEF Good
<1>5. PastHeader => PastHeader'
  BY <1>1 DEF PastHeader, Holds
<1>6. SoapText => SoapText'
  BY <1>1 DEF SoapText, Holds
<1>7. Track'
  BY <1>1, <1>3, <1>4, <1>5, <1>6 DEF AInv, Track
<1> QED  BY <1>2, <1>7 DEF AInv

LEMMA AInvNext == Proper /\ IInv /\ CInv /\ AInv /\ [Next]_vars => AInv'
<1> SUFFICES ASSUME Proper, IInv, CInv, AInv, [Next]_vars PROVE AInv'
  OBVIOUS
<1>1. CASE NewRound \/ FirstSilence \/ Wraps \/ CutRequestLine
  <2>1. NewRound \/ FirstSilence \/ Dies
    BY <1>1 DEF Wraps, CutRequestLine
  <2> QED  BY <2>1, ForgetsAnswer
<1>2. CASE Accept \/ RecvFrom
  BY <1>2, TakesAnswer
<1>3. CASE \/ BadRequestLine \/ RefusedLine \/ MoreFails \/ BadLength \/ BodyShort
           \/ FirstEnd \/ CutStart
  BY <1>3, RefusersAnswer
<1>4. CASE Answer \/ NoAnswer
  BY <1>4, AnswersAnswer
<1>5. CASE FirstRecv
  BY <1>5, FirstRecvAnswers
<1>6. CASE GoodRequestLine \/ Unfinished \/ More \/ Short
  BY <1>6, ParserAnswers
<1>7. CASE EndOfHeader
  BY <1>7, EndOfHeaderAnswers
<1>8. CASE Enough \/ Body \/ BodySilence
  BY <1>8, BodyAnswers
<1>9. CASE Peers \/ UNCHANGED vars
  BY <1>9, PeersAnswered
<1> QED  BY <1>1, <1>2, <1>3, <1>4, <1>5, <1>6, <1>7, <1>8, <1>9
         DEF Next, Handler, Cut

\* wsd_recv(), wsd_parse_http_header() and wsd_req_parse() give every request what its
\* own text asks for, if its header comes with the first recv() and what is missing of
\* its body with at most one more (wsd.c:357, 884-982): for any requests, any number of
\* peers, any size of the buffer and whatever was in it.
THEOREM WholeRequestsAreAnswered ==
    ASSUME Proper
    PROVE  Spec => []WholeRequestAnswered
<1>1. Init => CInv
  BY WsdHttpAssumption DEF Init, CInv, Waiting, FirstPass
<1>2. Init => AInv
  BY DEF Init, AInv, Track, WholeRequestAnswered
<1>3. IInv /\ CInv /\ [Next]_vars => CInv'
  BY OnlyFour
<1>4. IInv /\ CInv /\ AInv /\ [Next]_vars => AInv'
  BY AInvNext
<1>5. AInv => WholeRequestAnswered
  BY DEF AInv
<1> QED  BY IInvInit, IInvNext, <1>1, <1>2, <1>3, <1>4, <1>5, PTL DEF Spec
=============================================================================
