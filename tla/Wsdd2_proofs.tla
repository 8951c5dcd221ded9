---------------------------- MODULE Wsdd2_proofs ----------------------------
(***************************************************************************)
(* Proofs about the wsdd2 life cycle, for every set of addresses, every    *)
(* option and every size of the netlink buffer.                            *)
(***************************************************************************)
EXTENDS Wsdd2, TLAPS

-----------------------------------------------------------------------------
(* The inductive invariant.                                                *)

\* The list grows only while opening and is empty between two rounds.
ListShape ==
    /\ pc \in {"boot", "start", "decide", "rearm", "exited"} => endpoints = << >>
    /\ pc \in {"boot", "start", "open"} => ~HasNetlink
    /\ pc \in Serving => endpoints # << >> /\ endpoints[1] = NlEp
    /\ ~HasNetlink => nlq = << >> /\ ~overrun
    /\ IsInjective(endpoints)

\* While opening, what is listed has been visited and what is left has not.
OpenShape ==
    pc = "open" => /\ left \subseteq Eligible(svn, ifaddrs)
                   /\ \A e \in Range(endpoints) :
                         \/ e.svc < svn
                         \/ e.svc = svn /\ e.addr \notin left

\* Hello was said, and Bye was not, exactly on the listed endpoints that announce.
HelloIsListed == announced = {e \in Range(endpoints) : Announces(e.svc)}

ReadyShape ==
    /\ ready # {} => pc = "dispatch" /\ ready \subseteq Range(endpoints)
    /\ NlEp \in ready => Pending

\* While opening, the list of addresses is the kernel's unless one was missed.
SnapshotShape == pc = "open" /\ ~missed => ifaddrs = addrs

\* The flag, the way to the end of the round and the recorded causes agree.
CauseShape ==
    /\ restart = 1 => causes \cap {"hup", "recv", "addr"} # {}
    /\ restart = 2 => "term" \in causes
    /\ pc \in {"closing", "decide"} => restart # 0 \/ status = "fail" \/ badep
    /\ badep => pc \in {"closing", "exited"}
    /\ status = "ok" => pc = "exited"
    /\ status = "killed" => pc = "exited"

IInv == /\ TypeOK /\ ListShape /\ OpenShape /\ HelloIsListed /\ ReadyShape
        /\ SnapshotShape /\ CauseShape /\ StaleOnlyIfMissed /\ OutcomeHasCause

-----------------------------------------------------------------------------
(* Sequences: adding an element in front, taking one away.                 *)

\* What the library's Range is, in terms of indices.
LEMMA RangeLemma ==
    ASSUME NEW S, NEW s \in Seq(S)
    PROVE  \A x : x \in Range(s) <=> \E k \in 1 .. Len(s) : x = s[k]
BY DEF Range

\* The empty list of endpoints.
LEMMA EmptyLemma == Range(<< >>) = {} /\ IsInjective(<< >>)
BY DEF Range, IsInjective

\* main() puts a new endpoint before the others: ep->next = endpoints.
LEMMA ConsLemma ==
    ASSUME NEW S, NEW s \in Seq(S), NEW e \in S
    PROVE  /\ << e >> \o s \in Seq(S)
           /\ << e >> \o s # << >>
           /\ (<< e >> \o s)[1] = e
           /\ Range(<< e >> \o s) = {e} \cup Range(s)
           /\ IsInjective(s) /\ e \notin Range(s) => IsInjective(<< e >> \o s)
<1> DEFINE t == << e >> \o s
<1>1. /\ t \in Seq(S)
      /\ Len(t) = Len(s) + 1
      /\ t[1] = e
      /\ \A i \in 1 .. Len(s) : t[i + 1] = s[i]
      /\ \A i \in 2 .. Len(t) : t[i] = s[i - 1] /\ i - 1 \in 1 .. Len(s)
  OBVIOUS
<1>2. Range(t) = {e} \cup Range(s)
  <2>1. ASSUME NEW x \in Range(t) PROVE x \in {e} \cup Range(s)
    <3>1. PICK i \in 1 .. Len(t) : x = t[i]
      BY <1>1 DEF Range
    <3>2. QED
      BY <3>1, <1>1 DEF Range
  <2>2. ASSUME NEW x \in {e} \cup Range(s) PROVE x \in Range(t)
    <3>1. CASE x = e
      BY <3>1, <1>1 DEF Range
    <3>2. CASE x \in Range(s)
      <4>1. PICK i \in 1 .. Len(s) : x = s[i]
        BY <3>2 DEF Range
      <4>2. x = t[i + 1] /\ i + 1 \in 1 .. Len(t)
        BY <4>1, <1>1
      <4>3. QED
        BY <4>2, <1>1, RangeLemma
    <3>3. QED
      BY <3>1, <3>2
  <2>3. QED
    BY <2>1, <2>2
<1>3. ASSUME IsInjective(s), e \notin Range(s) PROVE IsInjective(t)
  <2>1. SUFFICES ASSUME NEW i \in 1 .. Len(t), NEW j \in 1 .. Len(t), t[i] = t[j]
                 PROVE  i = j
    BY <1>1 DEF IsInjective
  <2>2. \A k \in 1 .. Len(s) : s[k] # e
    BY <1>3 DEF Range
  <2>3. \A k, l \in 1 .. Len(s) : s[k] = s[l] => k = l
    BY <1>3 DEF IsInjective
  <2>4. CASE i = 1 \/ j = 1
    BY <2>4, <2>1, <2>2, <1>1
  <2>5. CASE i # 1 /\ j # 1
    <3>1. i - 1 \in 1 .. Len(s) /\ j - 1 \in 1 .. Len(s) /\ s[i - 1] = s[j - 1]
      BY <2>5, <2>1, <1>1
    <3>2. QED
      BY <3>1, <2>3
  <2>6. QED
    BY <2>4, <2>5
<1>4. QED
  BY <1>1, <1>2, <1>3

\* The closing loop takes the head off the list.
LEMMA TailLemma ==
    ASSUME NEW S, NEW s \in Seq(S), s # << >>
    PROVE  /\ Tail(s) \in Seq(S)
           /\ Head(s) \in S /\ Head(s) = s[1]
           /\ Range(s) = {Head(s)} \cup Range(Tail(s))
           /\ IsInjective(s) => IsInjective(Tail(s)) /\ Head(s) \notin Range(Tail(s))
<1> DEFINE t == Tail(s)
<1>1. /\ t \in Seq(S)
      /\ Len(s) >= 1 /\ Len(t) = Len(s) - 1
      /\ Head(s) = s[1] /\ s[1] \in S
      /\ \A i \in 1 .. Len(t) : t[i] = s[i + 1]
  OBVIOUS
<1>2. Range(s) = {Head(s)} \cup Range(t)
  <2>1. ASSUME NEW x \in Range(s) PROVE x \in {Head(s)} \cup Range(t)
    <3>1. PICK i \in 1 .. Len(s) : x = s[i]
      BY <2>1 DEF Range
    <3>2. CASE i = 1
      BY <3>1, <3>2, <1>1
    <3>3. CASE i # 1
      <4>1. i - 1 \in 1 .. Len(t) /\ x = t[i - 1]
        BY <3>1, <3>3, <1>1
      <4>2. QED
        BY <4>1, <1>1, RangeLemma
    <3>4. QED
      BY <3>2, <3>3
  <2>2. ASSUME NEW x \in {Head(s)} \cup Range(t) PROVE x \in Range(s)
    BY <1>1 DEF Range
  <2>3. QED
    BY <2>1, <2>2
<1>3. ASSUME IsInjective(s) PROVE IsInjective(t) /\ Head(s) \notin Range(t)
  BY <1>1, <1>3 DEF IsInjective, Range
<1>4. QED
  BY <1>1, <1>2, <1>3

-----------------------------------------------------------------------------
(* The invariant is inductive: one lemma per action that changes the list,  *)
(* the queue or the control, one for those that only move on.               *)

\* The daemon starts with no endpoint and nothing to read.
LEMMA InitLemma == Init => IInv
<1>1. Init => TypeOK
  <2>1. Len(<< >>) <= NlCap /\ << >> \in Seq(Endpoint) /\ << >> \in Seq({"addr", "other"})
    BY Wsdd2Assumption
  <2>2. Init => badep \in BOOLEAN /\ overrun \in BOOLEAN /\ missed \in BOOLEAN
    BY DEF Init
  <2>3. QED
    BY <2>1, <2>2 DEF Init, TypeOK, Svn
<1>2. Init => IInv
  BY <1>1, EmptyLemma
     DEF Init, IInv, ListShape, OpenShape, HelloIsListed, ReadyShape,
         SnapshotShape, CauseShape, StaleOnlyIfMissed, OutcomeHasCause, Serving,
         HasNetlink, Pending
<1>3. QED
  BY <1>2

\* Steps that leave the list, the queue and the addresses alone.
LEMMA QuietLemma ==
    ASSUME IInv,
           Install \/ GetIfaddrsFails \/ EnterSelect \/ SelectPending
             \/ SelectTraffic \/ SelectFails \/ LoopTest \/ AllClosed
             \/ Decide \/ Rearm
    PROVE  IInv'
<1> USE DEF IInv, TypeOK, ListShape, OpenShape, HelloIsListed, ReadyShape,
       SnapshotShape, CauseShape, StaleOnlyIfMissed, OutcomeHasCause, Serving,
       HasNetlink, Pending, opening, kernel
<1>1. CASE Install
  BY <1>1 DEF Install
<1>2. CASE GetIfaddrsFails
  BY <1>2 DEF GetIfaddrsFails
<1>3. CASE EnterSelect
  BY <1>3 DEF EnterSelect
<1>4. CASE SelectPending \/ SelectTraffic
  <2>1. PICK R \in SUBSET Range(endpoints) : SelectReports(R)
    BY <1>4 DEF SelectPending, SelectTraffic
  <2>2. R \subseteq Endpoint
    BY RangeLemma
  <2>3. QED
    BY <2>1, <2>2 DEF SelectReports
<1>5. CASE SelectFails
  BY <1>5 DEF SelectFails
<1>6. CASE LoopTest
  BY <1>6 DEF LoopTest
<1>7. CASE AllClosed
  BY <1>7 DEF AllClosed
<1>8. CASE Decide
  BY <1>8 DEF Decide
<1>9. CASE Rearm
  <2>1. ~HasNetlink /\ endpoints' = endpoints
    BY <1>9, EmptyLemma DEF Rearm
  <2>2. ~HasNetlink'
    BY <2>1
  <2>3. badep' \in BOOLEAN
    BY <1>9 DEF Rearm
  <2>4. TypeOK'
    BY <1>9, <2>3 DEF Rearm
  <2>5. QED
    BY <1>9, <2>2, <2>4 DEF Rearm
<1>10. QED
  BY <1>1, <1>2, <1>3, <1>4, <1>5, <1>6, <1>7, <1>8, <1>9

\* The addresses a service is opened on are some of the list it is given.
LEMMA EligibleLemma ==
    ASSUME NEW s \in Svn, NEW S \in SUBSET Addr
    PROVE  Eligible(s, S) \subseteq Addr /\ Eligible(NL, S) = {}
BY DEF Eligible

\* The steps of the opening loop.
LEMMA OpenLemma ==
    ASSUME IInv, GetIfaddrs \/ Open
    PROVE  IInv'
<1> USE DEF IInv, TypeOK, ListShape, OpenShape, HelloIsListed, ReadyShape,
       SnapshotShape, CauseShape, StaleOnlyIfMissed, OutcomeHasCause, Serving,
       HasNetlink, Pending, opening, kernel
<1>1. CASE GetIfaddrs
  <2>1. 1 \in Svn /\ Eligible(1, addrs) \subseteq Addr
    BY EligibleLemma DEF Svn
  <2>2. missed' \in BOOLEAN
    BY <1>1 DEF GetIfaddrs
  <2>3. TypeOK'
    BY <1>1, <2>1, <2>2 DEF GetIfaddrs
  <2>4. endpoints' = << >> /\ Range(endpoints') = {}
    BY <1>1, EmptyLemma DEF GetIfaddrs
  <2>5. QED
    BY <1>1, <2>3, <2>4 DEF GetIfaddrs
<1>2. ASSUME NEW a \in left, OpenSucceeds(a) PROVE IInv'
  <2> DEFINE e == Ep(svn, a)
  <2>1. a \in Addr /\ svn \in Svn /\ svn # NL /\ pc = "open"
    BY <1>2, EligibleLemma DEF OpenSucceeds
  <2>2. e \in Endpoint /\ e # NlEp /\ e.svc = svn /\ e.addr = a
    BY <2>1 DEF Ep, Endpoint, NlEp
  <2>3. e \notin Range(endpoints)
    BY <1>2, <2>1, <2>2 DEF Svn
  <2>4. /\ endpoints' \in Seq(Endpoint)
        /\ Range(endpoints') = {e} \cup Range(endpoints)
        /\ IsInjective(endpoints')
    BY <1>2, <2>2, <2>3, ConsLemma DEF OpenSucceeds
  <2>5. announced' = {f \in Range(endpoints') : Announces(f.svc)}
    BY <1>2, <2>2, <2>4 DEF OpenSucceeds
  <2>6. announced' \subseteq Endpoint
    BY <1>2, <2>2 DEF OpenSucceeds
  <2>7. TypeOK'
    BY <1>2, <2>4, <2>6 DEF OpenSucceeds
  <2>8. ListShape' /\ ReadyShape'
    BY <1>2, <2>1, <2>2, <2>4 DEF OpenSucceeds
  <2>9. OpenShape'
    BY <1>2, <2>1, <2>2, <2>4 DEF OpenSucceeds
  <2>10. QED
    BY <1>2, <2>1, <2>5, <2>7, <2>8, <2>9 DEF OpenSucceeds
<1>3. ASSUME NEW a \in left, OpenGivesUp(a) PROVE IInv'
  BY <1>3 DEF OpenGivesUp
<1>4. CASE NextService
  <2>1. svn + 1 \in Svn /\ svn < svn + 1
    BY <1>4 DEF NextService, Svn, NL
  <2>2. Eligible(svn + 1, ifaddrs) \subseteq Addr
    BY <2>1, EligibleLemma
  <2>3. TypeOK'
    BY <1>4, <2>1, <2>2 DEF NextService
  <2>4. OpenShape'
    <3>1. SUFFICES ASSUME NEW f \in Range(endpoints) PROVE f.svc < svn + 1
      BY <1>4 DEF NextService
    <3>2. f \in Endpoint
      BY RangeLemma
    <3>3. f.svc < svn \/ f.svc = svn
      BY <1>4 DEF NextService
    <3>4. QED
      BY <3>2, <3>3, <2>1 DEF Endpoint, Svn
  <2>5. QED
    BY <1>4, <2>3, <2>4 DEF NextService
<1>5. CASE OpenNetlink
  <2>1. NlEp \in Endpoint /\ NlEp \notin Range(endpoints)
    BY <1>5 DEF OpenNetlink, NlEp, Endpoint, Svn, NL
  <2>2. /\ endpoints' \in Seq(Endpoint)
        /\ endpoints' # << >> /\ endpoints'[1] = NlEp
        /\ Range(endpoints') = {NlEp} \cup Range(endpoints)
        /\ IsInjective(endpoints')
    BY <1>5, <2>1, ConsLemma DEF OpenNetlink
  <2>3. ~Announces(NlEp.svc)
    BY DEF Announces, NlEp, NL, services
  <2>4. announced' = {f \in Range(endpoints') : Announces(f.svc)}
    BY <1>5, <2>2, <2>3 DEF OpenNetlink
  <2>5. QED
    BY <1>5, <2>2, <2>4 DEF OpenNetlink
<1>6. CASE OpenNetlinkFails
  <2>1. badep' \in BOOLEAN
    BY <1>6 DEF OpenNetlinkFails
  <2>2. QED
    BY <1>6, <2>1 DEF OpenNetlinkFails
<1>7. QED
  BY <1>1, <1>2, <1>3, <1>4, <1>5, <1>6 DEF Open

\* The receive handlers.
LEMMA RecvLemma ==
    ASSUME IInv, NetlinkRecv \/ \E e \in ready : RecvHandles(e) \/ RecvFails(e)
    PROVE  IInv'
<1> USE DEF IInv, TypeOK, ListShape, OpenShape, HelloIsListed, ReadyShape,
       SnapshotShape, CauseShape, StaleOnlyIfMissed, OutcomeHasCause, Serving,
       HasNetlink, Pending, opening, kernel, RestartService
<1>1. CASE NetlinkRecv
  <2>1. /\ pc = "dispatch" /\ NlEp \in ready /\ Pending /\ HasNetlink
        /\ UNCHANGED << opening, endpoints, badep, status, addrs, announced, missed >>
    BY <1>1 DEF NetlinkRecv, Turn
  <2>2. CASE overrun
    <3>1. overrun' \in BOOLEAN /\ nlq' = nlq
      BY <1>1, <2>2 DEF NetlinkRecv
    <3>2. pc' = "closing" /\ restart' = 1 /\ ready' = {} /\ causes' = causes \cup {"recv"}
      BY <1>1, <2>2 DEF NetlinkRecv
    <3>3. QED
      BY <2>1, <3>1, <3>2
  <2>3. CASE ~overrun
    <3>1. nlq # << >>
      BY <2>1, <2>3
    <3>2. nlq' = Tail(nlq) /\ overrun' = overrun
      BY <1>1, <2>3 DEF NetlinkRecv
    <3>3. nlq' \in Seq({"addr", "other"}) /\ Range(nlq) = {Head(nlq)} \cup Range(nlq')
      BY <3>1, <3>2, TailLemma
    <3>4. Len(nlq') <= NlCap
      BY <3>1, <3>2, Wsdd2Assumption
    <3>5. CASE Head(nlq) = "addr"
      <4>1. pc' = "closing" /\ restart' = 1 /\ ready' = {} /\ causes' = causes \cup {"addr"}
        BY <1>1, <2>3, <3>5 DEF NetlinkRecv
      <4>2. QED
        BY <2>1, <3>2, <3>3, <3>4, <4>1
    <3>6. CASE Head(nlq) # "addr"
      <4>1. ready' = ready \ {NlEp} /\ UNCHANGED << pc, restart, causes >>
        BY <1>1, <2>3, <3>6 DEF NetlinkRecv
      <4>2. "addr" \notin Range(nlq') => "addr" \notin Range(nlq)
        BY <3>3, <3>6
      <4>3. QED
        BY <2>1, <2>3, <3>2, <3>3, <3>4, <4>1, <4>2
    <3>7. QED
      BY <3>5, <3>6
  <2>4. QED
    BY <2>2, <2>3
<1>2. ASSUME NEW e \in ready, RecvHandles(e) PROVE IInv'
  BY <1>2 DEF RecvHandles
<1>3. ASSUME NEW e \in ready, RecvFails(e) PROVE IInv'
  BY <1>3 DEF RecvFails
<1>4. QED
  BY <1>1, <1>2, <1>3

\* Closing the head of the list.
LEMMA CloseLemma ==
    ASSUME IInv, CloseEp
    PROVE  IInv'
<1> USE DEF IInv, TypeOK, ListShape, OpenShape, HelloIsListed, ReadyShape,
       SnapshotShape, CauseShape, StaleOnlyIfMissed, OutcomeHasCause, Serving,
       HasNetlink, Pending, opening, kernel
<1>1. /\ pc = "closing" /\ pc' = "closing" /\ ready = {} /\ ready' = {}
      /\ Head(endpoints) \in Endpoint
      /\ endpoints' \in Seq(Endpoint)
      /\ Range(endpoints) = {Head(endpoints)} \cup Range(endpoints')
      /\ IsInjective(endpoints')
      /\ Head(endpoints) \notin Range(endpoints')
  BY TailLemma DEF CloseEp
<1>2. announced' = {f \in Range(endpoints') : Announces(f.svc)}
  BY <1>1 DEF CloseEp
<1>3. announced' \subseteq Endpoint
  BY DEF CloseEp
<1>4. CASE Head(endpoints) = NlEp
  <2>1. /\ nlq' = << >> /\ nlq' \in Seq({"addr", "other"}) /\ Len(nlq') = 0
        /\ NlEp \notin Range(endpoints')
    BY <1>1, <1>4 DEF CloseEp
  <2>2. overrun' \in BOOLEAN /\ ~overrun'
    BY <1>4 DEF CloseEp
  <2>3. 0 <= NlCap
    BY Wsdd2Assumption
  <2>4. TypeOK'
    BY <1>1, <1>3, <2>1, <2>2, <2>3 DEF CloseEp
  <2>5. QED
    BY <1>1, <1>2, <2>1, <2>2, <2>4 DEF CloseEp
<1>5. CASE Head(endpoints) # NlEp
  <2>1. nlq' = nlq /\ overrun' = overrun
    BY <1>5 DEF CloseEp
  <2>2. TypeOK'
    BY <1>1, <1>3, <2>1 DEF CloseEp
  <2>3. HasNetlink' <=> HasNetlink
    BY <1>1, <1>5
  <2>4. QED
    BY <1>1, <1>2, <2>1, <2>2, <2>3 DEF CloseEp
<1>6. QED
  BY <1>4, <1>5

\* Signals and the kernel's notifications.
LEMMA EnvironmentLemma ==
    ASSUME IInv, Environment
    PROVE  IInv'
<1> USE DEF IInv, TypeOK, ListShape, OpenShape, HelloIsListed, ReadyShape,
       SnapshotShape, CauseShape, StaleOnlyIfMissed, OutcomeHasCause, Serving,
       HasNetlink, Pending, opening, kernel, Alive
<1>1. ASSUME NEW s \in Signals, Signal(s) PROVE IInv'
  <2>1. CASE pc = "boot"
    BY <1>1, <2>1, EmptyLemma DEF Signal
  <2>2. CASE pc # "boot"
    <3>1. restart' \in 1 .. 2 /\ causes \subseteq causes'
      BY <1>1, <2>2 DEF Signal
    <3>2. CASE pc = "select"
      BY <1>1, <2>2, <3>1, <3>2 DEF Signal
    <3>3. CASE pc # "select"
      BY <1>1, <2>2, <3>1, <3>3 DEF Signal
    <3>4. QED
      BY <3>2, <3>3
  <2>3. QED
    BY <2>1, <2>2
<1>2. ASSUME NEW m \in {"addr", "other"}, Notify(m)
      PROVE  /\ nlq' \in Seq({"addr", "other"}) /\ Len(nlq') <= NlCap
             /\ overrun' \in BOOLEAN
             /\ ~HasNetlink => nlq' = nlq /\ overrun' = overrun
             /\ Pending => nlq' # << >> \/ overrun'
             /\ Range(nlq) \subseteq Range(nlq')
             /\ overrun => overrun'
             /\ HasNetlink => overrun' \/ m \in Range(nlq')
  <2>1. CASE HasNetlink /\ Len(nlq) < NlCap
    <3>1. /\ nlq' = Append(nlq, m) /\ overrun' = overrun
          /\ nlq' \in Seq({"addr", "other"}) /\ Len(nlq') = Len(nlq) + 1
          /\ nlq'[Len(nlq')] = m
          /\ \A k \in 1 .. Len(nlq) : nlq'[k] = nlq[k]
      BY <1>2, <2>1, SMTT(60) DEF Notify
    <3>2. Len(nlq') <= NlCap /\ nlq' # << >>
      BY <3>1, <2>1, Wsdd2Assumption
    <3>3. Range(nlq) \subseteq Range(nlq') /\ m \in Range(nlq')
      <4>1. \A k \in 1 .. Len(nlq) : k \in 1 .. Len(nlq')
        BY <3>1
      <4>2. Len(nlq') \in 1 .. Len(nlq')
        BY <3>1
      <4>3. \A x : x \in Range(nlq') <=> \E k \in 1 .. Len(nlq') : x = nlq'[k]
        BY <3>1, SMTT(60) DEF Range
      <4>4. m \in Range(nlq')
        BY <3>1, <4>2, <4>3
      <4>5. ASSUME NEW x \in Range(nlq) PROVE x \in Range(nlq')
        <5>1. PICK k \in 1 .. Len(nlq) : x = nlq[k]
          BY RangeLemma
        <5>2. QED
          BY <3>1, <4>1, <4>3, <5>1
      <4>6. QED
        BY <4>4, <4>5
    <3>4. QED
      BY <2>1, <3>1, <3>2, <3>3
  <2>2. CASE HasNetlink /\ ~(Len(nlq) < NlCap)
    <3>1. nlq' = nlq /\ overrun' /\ overrun' \in BOOLEAN
      BY <1>2, <2>2 DEF Notify
    <3>2. QED
      BY <2>2, <3>1
  <2>3. CASE ~HasNetlink
    BY <1>2, <2>3 DEF Notify
  <2>4. QED
    BY <2>1, <2>2, <2>3
<1>3. ASSUME NEW a \in Addr, AddrChange(a) PROVE IInv'
  <2>1. Notify("addr") /\ addrs' \subseteq Addr
    BY <1>3 DEF AddrChange
  <2>2. /\ missed' \in BOOLEAN /\ missed => missed'
        /\ pc = "open" => missed'
    BY <1>3 DEF AddrChange
  <2>3. TypeOK'
    BY <1>3, <1>2, <2>1, <2>2 DEF AddrChange
  <2>4. pc \in Serving => HasNetlink
    BY RangeLemma
  <2>5. StaleOnlyIfMissed' /\ SnapshotShape'
    BY <1>3, <1>2, <2>1, <2>2, <2>4 DEF AddrChange
  <2>6. QED
    BY <1>3, <1>2, <2>1, <2>3, <2>5 DEF AddrChange
<1>4. CASE OtherNetlink
  <2>1. Notify("other")
    BY <1>4 DEF OtherNetlink
  <2>2. QED
    BY <1>4, <1>2, <2>1 DEF OtherNetlink
<1>5. QED
  BY <1>1, <1>3, <1>4 DEF Environment

\* Nothing at all.
LEMMA StutterLemma == IInv /\ UNCHANGED vars => IInv'
BY DEF IInv, TypeOK, ListShape, OpenShape, HelloIsListed, ReadyShape,
       SnapshotShape, CauseShape, StaleOnlyIfMissed, OutcomeHasCause, Serving,
       HasNetlink, Pending, vars

\* Every step of the daemon and of its environment keeps the invariant.
LEMMA StepLemma == IInv /\ [Next]_vars => IInv'
BY QuietLemma, OpenLemma, RecvLemma, CloseLemma, EnvironmentLemma, StutterLemma
   DEF Next, Daemon, Dispatch

\* Every part of the inductive invariant holds throughout.
THEOREM Invariance == Spec => []IInv
BY InitLemma, StepLemma, PTL DEF Spec

-----------------------------------------------------------------------------
(* What follows for the daemon.                                            *)

\* Every variable of main(), open_ep() and the kernel keeps its type; in
\* particular netlink_recv() never reads an empty buffer.
THEOREM TypeCorrect == Spec => []TypeOK
BY Invariance, PTL DEF IInv

\* No address change is overlooked except in the window before the netlink
\* socket is bound: netlink_recv() and the overrun of its buffer see to it.
THEOREM NoChangeOverlooked == Spec => []StaleOnlyIfMissed
BY Invariance, PTL DEF IInv

\* The daemon never ends well without SIGTERM or SIGINT and never starts again
\* without SIGHUP, a failed receive or an address change.
THEOREM NoOutcomeWithoutCause == Spec => []OutcomeHasCause
BY Invariance, PTL DEF IInv

\* A ready netlink endpoint has its turn before every request.
THEOREM NetlinkServedFirst == Spec => []NetlinkFirst
<1>1. IInv => NetlinkFirst
  <2>1. SUFFICES ASSUME IInv, pc = "dispatch", NlEp \in ready PROVE Turn(NlEp)
    BY DEF NetlinkFirst
  <2>2. endpoints \in Seq(Endpoint) /\ endpoints # << >> /\ endpoints[1] = NlEp
    BY <2>1 DEF IInv, TypeOK, ListShape, Serving
  <2>3. 1 \in DOMAIN endpoints /\ 1 .. (1 - 1) = {}
    BY <2>2
  <2>4. QED
    BY <2>1, <2>2, <2>3 DEF Turn
<1>2. QED
  BY <1>1, Invariance, PTL

-----------------------------------------------------------------------------
(* The daemon implements Presence (its safety part): Hello only while it   *)
(* joins and once per endpoint, nothing while it serves, and Bye on every  *)
(* announced endpoint before it joins again or is gone.                    *)

\* Refinement mapping, step by step.
LEMMA PresenceStep == IInv /\ [Next]_vars => [P!Next]_(P!pvars)
<1> SUFFICES ASSUME IInv, [Next]_vars PROVE [P!Next]_(P!pvars)
  OBVIOUS
<1>1. TypeOK /\ HelloIsListed /\ ListShape /\ OpenShape
  BY DEF IInv
<1>2. endpoints = << >> => announced = {}
  BY <1>1, EmptyLemma DEF HelloIsListed
<1>3. CASE \E a \in left : OpenSucceeds(a)
  <2>1. PICK a \in left : OpenSucceeds(a)
    BY <1>3
  <2> DEFINE e == Ep(svn, a)
  <2>2. e \in Endpoint /\ e \notin Range(endpoints)
    BY <1>1, <2>1, EligibleLemma
       DEF TypeOK, OpenShape, OpenSucceeds, Ep, Endpoint, Svn
  <2>3. e \notin announced
    BY <1>1, <2>2 DEF HelloIsListed
  <2>4. pc = "open" /\ pc' = "open" /\ (announced' = announced \cup {e} \/ announced' = announced)
    BY <2>1 DEF OpenSucceeds
  <2>5. QED
    BY <2>2, <2>3, <2>4 DEF P!Next, P!Hello, P!pvars, Serving
<1>4. CASE CloseEp
  <2>1. Head(endpoints) \in Endpoint /\ pc = "closing" /\ pc' = "closing"
    BY <1>1, <1>4, TailLemma DEF TypeOK, CloseEp
  <2>2. announced' = announced \ {Head(endpoints)}
    BY <1>4 DEF CloseEp
  <2>3. CASE Head(endpoints) \in announced
    BY <2>1, <2>2, <2>3 DEF P!Next, P!Bye, P!pvars, Serving
  <2>4. CASE Head(endpoints) \notin announced
    BY <2>1, <2>2, <2>4 DEF P!pvars, Serving
  <2>5. QED
    BY <2>3, <2>4
<1>5. ASSUME announced' = announced,
             \/ pc' = pc
             \/ pc = "boot" /\ pc' \in {"start", "exited"}
             \/ pc = "start" /\ pc' \in {"open", "exited"}
             \/ pc = "open" /\ pc' \in {"loop", "closing"}
             \/ pc \in Serving /\ pc' \in Serving \cup {"closing"}
             \/ pc = "closing" /\ pc' \in {"decide", "exited"} /\ endpoints = << >>
             \/ pc = "decide" /\ pc' \in {"rearm", "exited"}
             \/ pc = "rearm" /\ pc' = "start"
      PROVE  [P!Next]_(P!pvars)
  <2>1. pc \in {"boot", "start", "decide", "rearm"} => announced = {}
    BY <1>1, <1>2 DEF ListShape
  <2>2. QED
    BY <1>1, <1>2, <1>5, <2>1
       DEF TypeOK, Serving, P!Next, P!Settle, P!Leave, P!Rejoin, P!Vanish, P!pvars
<1>6. CASE Install \/ GetIfaddrs \/ GetIfaddrsFails \/ NextService
           \/ OpenNetlink \/ OpenNetlinkFails \/ EnterSelect \/ SelectFails
  BY <1>5, <1>6 DEF Install, GetIfaddrs, GetIfaddrsFails, NextService,
     OpenNetlink, OpenNetlinkFails, EnterSelect, SelectFails, Serving
<1>7. CASE (\E a \in left : OpenGivesUp(a)) \/ SelectPending \/ SelectTraffic
  BY <1>5, <1>7 DEF OpenGivesUp, SelectPending, SelectTraffic, SelectReports,
     Serving
<1>8. CASE Dispatch
  BY <1>5, <1>8 DEF Dispatch, NetlinkRecv, RecvHandles, RecvFails, LoopTest,
     RestartService, Serving
<1>9. CASE AllClosed \/ Decide \/ Rearm
  BY <1>5, <1>9 DEF AllClosed, Decide, Rearm
<1>10. CASE Environment
  BY <1>5, <1>10 DEF Environment, Signal, AddrChange, OtherNetlink, Serving
<1>11. CASE UNCHANGED vars
  BY <1>5, <1>11 DEF vars
<1>12. QED
  BY <1>3, <1>4, <1>6, <1>7, <1>8, <1>9, <1>10, <1>11 DEF Next, Daemon, Open

\* A peer that believes Hello and Bye never sees an endpoint announced twice,
\* nor one left behind by a restart or an exit of main().
THEOREM ImplementsPresence == Spec => P!SafeSpec
<1>1. Init => P!Init
  BY DEF Init, P!Init, Serving
<1>2. QED
  BY <1>1, PresenceStep, Invariance, PTL DEF Spec, P!SafeSpec
=============================================================================
