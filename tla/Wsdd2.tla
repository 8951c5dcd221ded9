------------------------------- MODULE Wsdd2 -------------------------------
(***************************************************************************)
(* The life cycle of the wsdd2 daemon (src/wsdd2/wsdd2.c): one thread that *)
(* reads the interface addresses, opens one endpoint per service and       *)
(* address, announces itself (Hello), serves requests from a select() loop *)
(* and, on a signal, a failed receive or an address change, closes every   *)
(* endpoint (Bye) and either starts again or exits.  The environment is    *)
(* the kernel's address table with its netlink notifications, the peers'   *)
(* packets and the signals, which arrive between any two steps.            *)
(***************************************************************************)
EXTENDS Integers, Sequences, Functions

CONSTANTS
    Addr,        \* interface addresses the kernel may hold
    V6,          \* those of family AF_INET6, the others are AF_INET
    Excluded,    \* on an interface main() passes over: loopback, docker, tun...
    Multicast,   \* on an interface with IFF_MULTICAST
    ipv46, tcpudp, llmnrwsdd,   \* the filter options given, {} for none
    ReusePort,   \* TRUE if the kernel honours SO_REUSEPORT
    Signals,     \* the signals the environment sends, "TERM" also for INT
    NlCap        \* messages the netlink receive buffer holds

ASSUME Wsdd2Assumption ==
    /\ V6 \subseteq Addr /\ Excluded \subseteq Addr /\ Multicast \subseteq Addr
    /\ ipv46 \subseteq {"4", "6"}
    /\ tcpudp \subseteq {"tcp", "udp"}
    /\ llmnrwsdd \subseteq {"llmnr", "wsdd"}
    /\ ReusePort \in BOOLEAN
    /\ Signals \subseteq {"HUP", "TERM"}
    /\ NlCap \in Nat \ {0}

-----------------------------------------------------------------------------
(* The services table, in the order in which main() opens it.              *)

services ==
    << [proto |-> "wsdd",    family |-> "4",  type |-> "udp"],
       [proto |-> "wsdd",    family |-> "6",  type |-> "udp"],
       [proto |-> "wsdd",    family |-> "4",  type |-> "tcp"],
       [proto |-> "wsdd",    family |-> "6",  type |-> "tcp"],
       [proto |-> "llmnr",   family |-> "4",  type |-> "udp"],
       [proto |-> "llmnr",   family |-> "6",  type |-> "udp"],
       [proto |-> "llmnr",   family |-> "4",  type |-> "tcp"],
       [proto |-> "llmnr",   family |-> "6",  type |-> "tcp"],
       [proto |-> "netlink", family |-> "nl", type |-> "raw"] >>

Svn == 1 .. 9
NL  == 9                                \* ifaddr-netlink-v4v6, the last one

\* Exactly the UDP services have a mcast_addr; wsd_init and wsd_exit, which
\* send Hello and Bye, belong to the two UDP services of the "wsdd" pair.
IsMcast(s)   == services[s].type = "udp"
Announces(s) == services[s].proto = "wsdd" /\ services[s].type = "udp"

\* No option of a group means every option of it; netlink is never filtered.
Given(opts, x) == opts = {} \/ x \in opts
Enabled(s) == \/ s = NL
              \/ /\ Given(ipv46, services[s].family)
                 /\ Given(tcpudp, services[s].type)
                 /\ Given(llmnrwsdd, services[s].proto)

Family(a) == IF a \in V6 THEN "6" ELSE "4"

\* The addresses of the list S on which main() opens service s.
Eligible(s, S) ==
    IF s = NL \/ ~Enabled(s) THEN {}
    ELSE {a \in S : /\ Family(a) = services[s].family
                    /\ a \notin Excluded
                    /\ IsMcast(s) => a \in Multicast}

NoAddr   == "none"                      \* the address of the netlink endpoint
Endpoint == [svc : Svn, addr : Addr \cup {NoAddr}]
NlEp     == [svc |-> NL, addr |-> NoAddr]
Ep(s, a) == [svc |-> s, addr |-> a]

VARIABLES
    pc,         \* where main() is
    svn,        \* services[] index of the opening loop
    left,       \* addresses of that service not visited yet
    ifaddrs,    \* the list getifaddrs() returned in this round
    endpoints,  \* the list of open endpoints, the newest first
    ready,      \* endpoints select() reported and not dispatched yet
    restart,    \* 0 none, 1 restart, 2 terminate
    badep,      \* the netlink endpoint could not be opened
    status,     \* "none" until the process is gone, then how it ended
    addrs,      \* the kernel's interface addresses now
    nlq,        \* messages in the netlink socket's buffer
    overrun,    \* the buffer was full: the next recvmsg() returns ENOBUFS
    announced,  \* endpoints for which Hello was sent and Bye was not
    missed,     \* history: an address changed before this round had netlink
    causes      \* history: what asked for a stop since restart was cleared

vars == << pc, svn, left, ifaddrs, endpoints, ready, restart, badep, status,
           addrs, nlq, overrun, announced, missed, causes >>
kernel  == << addrs, nlq, overrun, missed >>
opening == << svn, left, ifaddrs >>

Serving    == {"loop", "select", "dispatch"}
HasNetlink == NlEp \in Range(endpoints)

TypeOK ==
    /\ pc \in {"boot", "start", "open", "closing", "decide", "rearm", "exited"}
              \cup Serving
    /\ svn \in Svn
    /\ left \subseteq Addr /\ ifaddrs \subseteq Addr /\ addrs \subseteq Addr
    /\ endpoints \in Seq(Endpoint)
    /\ ready \subseteq Endpoint
    /\ restart \in 0 .. 2
    /\ badep \in BOOLEAN
    /\ status \in {"none", "ok", "fail", "killed"}
    /\ nlq \in Seq({"addr", "other"}) /\ Len(nlq) <= NlCap
    /\ overrun \in BOOLEAN /\ missed \in BOOLEAN
    /\ announced \subseteq Endpoint
    /\ causes \subseteq {"hup", "term", "recv", "addr"}

Init ==
    /\ pc = "boot" /\ status = "none"
    /\ svn = 1 /\ left = {} /\ ifaddrs = {} /\ endpoints = << >> /\ ready = {}
    /\ restart = 0 /\ badep = FALSE
    /\ addrs \in SUBSET Addr
    /\ nlq = << >> /\ overrun = FALSE
    /\ announced = {} /\ missed = FALSE /\ causes = {}

-----------------------------------------------------------------------------
(* Start of a round and the opening of the endpoints.                      *)

\* The first sigaction() calls: until then a signal kills the process.
Install ==
    /\ pc = "boot"
    /\ pc' = "start"
    /\ UNCHANGED << opening, endpoints, ready, restart, badep, status, kernel,
                    announced, causes >>

\* getifaddrs(): from here on this round works on a copy of the addresses.
GetIfaddrs ==
    /\ pc = "start"
    /\ pc' = "open"
    /\ ifaddrs' = addrs
    /\ svn' = 1
    /\ left' = Eligible(1, addrs)
    /\ missed' = FALSE
    /\ UNCHANGED << endpoints, ready, restart, badep, status, addrs, nlq,
                    overrun, announced, causes >>

\* getifaddrs() fails: err(EXIT_FAILURE, ...).
GetIfaddrsFails ==
    /\ pc = "start"
    /\ pc' = "exited" /\ status' = "fail"
    /\ UNCHANGED << opening, endpoints, ready, restart, badep, kernel,
                    announced, causes >>

\* Without SO_REUSEPORT a listening socket keeps a second one off its port.
PortTaken(s) ==
    /\ services[s].type = "tcp"
    /\ ~ReusePort
    /\ \E e \in Range(endpoints) : e.svc = s

\* open_ep() returns 0 with a socket: the endpoint is listed, and for the two
\* announcing services wsd_init(), the last call of open_ep, has sent Hello.
OpenSucceeds(a) ==
    /\ pc = "open" /\ a \in left /\ ~PortTaken(svn)
    /\ endpoints' = << Ep(svn, a) >> \o endpoints
    /\ left' = left \ {a}
    /\ announced' = announced \cup {e \in {Ep(svn, a)} : Announces(e.svc)}
    /\ UNCHANGED << pc, svn, ifaddrs, ready, restart, badep, status, kernel,
                    causes >>

\* open_ep() returns 0 without a socket (bind() says EADDRINUSE) or -1 (any
\* other failure, the socket closed again): main() goes on without it.
OpenGivesUp(a) ==
    /\ pc = "open" /\ a \in left
    /\ left' = left \ {a}
    /\ UNCHANGED << pc, svn, ifaddrs, endpoints, ready, restart, badep, status,
                    kernel, announced, causes >>

NextService ==
    /\ pc = "open" /\ left = {} /\ svn # NL
    /\ svn' = svn + 1
    /\ left' = Eligible(svn + 1, ifaddrs)
    /\ UNCHANGED << pc, ifaddrs, endpoints, ready, restart, badep, status,
                    kernel, announced, causes >>

\* Mutated form: the endpoint goes to the end of the list.
OpenNetlinkLast ==
    /\ pc = "open" /\ svn = NL
    /\ endpoints' = endpoints \o << NlEp >>
    /\ pc' = "loop"
    /\ UNCHANGED << opening, ready, restart, badep, status, kernel, announced,
                    causes >>

\* The netlink socket is bound last; then main() enters its do-while loop
\* without testing restart.  Autobinding never yields EADDRINUSE.
OpenNetlink ==
    /\ pc = "open" /\ svn = NL
    /\ endpoints' = << NlEp >> \o endpoints
    /\ pc' = "loop"
    /\ UNCHANGED << opening, ready, restart, badep, status, kernel, announced,
                    causes >>

OpenNetlinkFails ==
    /\ pc = "open" /\ svn = NL
    /\ badep' = TRUE
    /\ pc' = "closing"
    /\ UNCHANGED << opening, endpoints, ready, restart, status, kernel,
                    announced, causes >>

-----------------------------------------------------------------------------
(* The select() loop.                                                      *)

Pending == nlq # << >> \/ overrun

EnterSelect ==
    /\ pc = "loop"
    /\ pc' = "select"
    /\ UNCHANGED << opening, endpoints, ready, restart, badep, status, kernel,
                    announced, causes >>

\* select() reports the endpoints R: netlink when something waits there, any
\* other one when a peer has sent it a packet or opened a connection.
SelectReports(R) ==
    /\ pc = "select"
    /\ R # {} /\ R \subseteq Range(endpoints)
    /\ NlEp \in R <=> Pending
    /\ ready' = R
    /\ pc' = "dispatch"
    /\ UNCHANGED << opening, endpoints, restart, badep, status, kernel,
                    announced, causes >>

SelectPending == \E R \in SUBSET Range(endpoints) : Pending /\ SelectReports(R)
SelectTraffic == \E R \in SUBSET Range(endpoints) : ~Pending /\ SelectReports(R)

\* select() fails with something else than EINTR.
SelectFails ==
    /\ pc = "select"
    /\ pc' = "closing" /\ status' = "fail"
    /\ UNCHANGED << opening, endpoints, ready, restart, badep, kernel,
                    announced, causes >>

\* The endpoint whose turn it is: the first ready one in list order.
Turn(e) == \E i \in DOMAIN endpoints :
              /\ e = endpoints[i] /\ e \in ready
              /\ \A j \in 1 .. (i - 1) : endpoints[j] \notin ready

\* Mutated form: restart counts.
RestartServiceAgain(cause) ==
    /\ restart' = restart + 1
    /\ causes' = causes \cup {cause}
    /\ ready' = {}
    /\ pc' = "closing"

\* restart_service(): restart = 1 and longjmp() to the end of main(), leaving
\* what else select() reported.
RestartService(cause) ==
    /\ restart' = 1
    /\ causes' = causes \cup {cause}
    /\ ready' = {}
    /\ pc' = "closing"

\* Mutated form: ENOBUFS is passed over like EAGAIN.
NetlinkRecvIgnoresOverrun ==
    /\ pc = "dispatch" /\ Turn(NlEp)
    /\ overrun' = FALSE
    /\ IF nlq # << >> /\ Head(nlq) = "addr"
       THEN nlq' = Tail(nlq) /\ RestartService("addr")
       ELSE /\ nlq' = IF overrun THEN nlq ELSE Tail(nlq)
            /\ ready' = ready \ {NlEp} /\ UNCHANGED << pc, restart, causes >>
    /\ UNCHANGED << opening, endpoints, badep, status, addrs, announced, missed >>

\* Mutated form: every message is taken for a refreshed address.
NetlinkRecvHandlesAll ==
    /\ pc = "dispatch" /\ Turn(NlEp)
    /\ overrun' = FALSE
    /\ nlq' = IF overrun THEN nlq ELSE Tail(nlq)
    /\ ready' = ready \ {NlEp}
    /\ UNCHANGED << pc, opening, endpoints, restart, badep, status, addrs,
                    announced, missed, causes >>

\* netlink_recv() takes one datagram; a lost one shows as a failed recvmsg().
\* Only an added or deleted address restarts the service: a link change or a
\* refreshed lifetime (cstamp # tstamp) does not.
NetlinkRecv ==
    /\ pc = "dispatch" /\ Turn(NlEp)
    /\ IF overrun
       THEN overrun' = FALSE /\ nlq' = nlq /\ RestartService("recv")
       ELSE /\ nlq' = Tail(nlq) /\ overrun' = overrun
            /\ IF Head(nlq) = "addr"
               THEN RestartService("addr")
               ELSE ready' = ready \ {NlEp} /\ UNCHANGED << pc, restart, causes >>
    /\ UNCHANGED << opening, endpoints, badep, status, addrs, announced, missed >>

\* wsd_recv() and llmnr_recv() deal with the request, answered or not.  The
\* llmnr-tcp services read their listening socket and never get this far.
RecvHandles(e) ==
    /\ pc = "dispatch" /\ Turn(e) /\ e # NlEp
    /\ ~(services[e.svc].proto = "llmnr" /\ services[e.svc].type = "tcp")
    /\ ready' = ready \ {e}
    /\ UNCHANGED << pc, opening, endpoints, restart, badep, status, kernel,
                    announced, causes >>

\* A receive returns -1: a socket error, an accepted peer silent for a second,
\* ENOTCONN on llmnr-tcp, or EINTR when a signal came while it waited.
RecvFails(e) ==
    /\ pc = "dispatch" /\ Turn(e) /\ e # NlEp
    /\ RestartService("recv")
    /\ UNCHANGED << opening, endpoints, badep, status, kernel, announced >>

\* while (n >= 0 && !restart)
LoopTest ==
    /\ pc = "dispatch" /\ ready = {}
    /\ pc' = IF restart = 0 THEN "loop" ELSE "closing"
    /\ UNCHANGED << opening, endpoints, ready, restart, badep, status, kernel,
                    announced, causes >>

-----------------------------------------------------------------------------
(* The end of a round.                                                     *)

\* Mutated form: close_ep() forgets the service's exit function.
CloseEpSilently ==
    /\ pc = "closing" /\ endpoints # << >>
    /\ endpoints' = Tail(endpoints)
    /\ IF Head(endpoints) = NlEp
       THEN nlq' = << >> /\ overrun' = FALSE
       ELSE UNCHANGED << nlq, overrun >>
    /\ UNCHANGED << pc, opening, ready, restart, badep, status, addrs, missed,
                    announced, causes >>

\* close_ep() on the head of the list: wsd_exit() sends Bye, and closing the
\* netlink socket throws its buffer away.
CloseEp ==
    /\ pc = "closing" /\ endpoints # << >>
    /\ endpoints' = Tail(endpoints)
    /\ announced' = announced \ {Head(endpoints)}
    /\ IF Head(endpoints) = NlEp
       THEN nlq' = << >> /\ overrun' = FALSE
       ELSE UNCHANGED << nlq, overrun >>
    /\ UNCHANGED << pc, opening, ready, restart, badep, status, addrs, missed,
                    causes >>

\* No endpoint left: err() when netlink could not be opened.
AllClosed ==
    /\ pc = "closing" /\ endpoints = << >>
    /\ IF badep THEN pc' = "exited" /\ status' = "fail"
                ELSE pc' = "decide" /\ UNCHANGED status
    /\ UNCHANGED << opening, endpoints, ready, restart, badep, kernel,
                    announced, causes >>

\* Mutated form: if (restart) ...
DecideOnAnyRestart ==
    /\ pc = "decide"
    /\ IF restart # 0
       THEN pc' = "rearm" /\ UNCHANGED status
       ELSE /\ pc' = "exited"
            /\ status' = IF status = "fail" THEN "fail" ELSE "ok"
    /\ UNCHANGED << opening, endpoints, ready, restart, badep, kernel,
                    announced, causes >>

\* if (restart == 1) ... else return rv, which SelectFails() has set or not.
Decide ==
    /\ pc = "decide"
    /\ IF restart = 1
       THEN pc' = "rearm" /\ UNCHANGED status
       ELSE /\ pc' = "exited"
            /\ status' = IF status = "fail" THEN "fail" ELSE "ok"
    /\ UNCHANGED << opening, endpoints, ready, restart, badep, kernel,
                    announced, causes >>

\* Mutated form: goto again with restart still set.
RearmKeepsFlag ==
    /\ pc = "rearm"
    /\ pc' = "start"
    /\ causes' = {}
    /\ status' = "none" /\ badep' = FALSE
    /\ UNCHANGED << opening, endpoints, ready, restart, kernel, announced >>

\* restart = 0; goto again, where rv and badep are initialised anew.
Rearm ==
    /\ pc = "rearm"
    /\ pc' = "start"
    /\ restart' = 0 /\ causes' = {}
    /\ status' = "none" /\ badep' = FALSE
    /\ UNCHANGED << opening, endpoints, ready, kernel, announced >>

-----------------------------------------------------------------------------
(* The environment.                                                        *)

Alive == pc # "exited"

\* sighandler(), or the default action before it is installed.  A blocked
\* select() returns EINTR and the loop ends; anywhere else only the flag tells.
Signal(s) ==
    /\ Alive
    /\ IF pc = "boot"
       THEN /\ pc' = "exited" /\ status' = "killed"
            /\ UNCHANGED << restart, causes >>
       ELSE /\ restart' = IF s = "HUP" THEN 1 ELSE 2
            /\ causes' = causes \cup {IF s = "HUP" THEN "hup" ELSE "term"}
            /\ pc' = IF pc = "select" THEN "closing" ELSE pc
            /\ UNCHANGED status
    /\ UNCHANGED << opening, endpoints, ready, badep, kernel, announced >>

\* The kernel queues m on the daemon's netlink socket, if there is one.
Notify(m) ==
    IF ~HasNetlink THEN UNCHANGED << nlq, overrun >>
    ELSE IF Len(nlq) < NlCap THEN nlq' = Append(nlq, m) /\ UNCHANGED overrun
    ELSE overrun' = TRUE /\ UNCHANGED nlq

\* An address appears or goes away.
AddrChange(a) ==
    /\ Alive
    /\ addrs' = IF a \in addrs THEN addrs \ {a} ELSE addrs \cup {a}
    /\ Notify("addr")
    /\ missed' = (missed \/ (pc = "open" /\ ~HasNetlink))
    /\ UNCHANGED << pc, opening, endpoints, ready, restart, badep, status,
                    announced, causes >>

\* A link changes state or an address has its lifetime refreshed.
OtherNetlink ==
    /\ Alive /\ HasNetlink
    /\ Notify("other")
    /\ UNCHANGED << pc, opening, endpoints, ready, restart, badep, status,
                    addrs, announced, missed, causes >>

-----------------------------------------------------------------------------

Open == \/ \E a \in left : OpenSucceeds(a) \/ OpenGivesUp(a)
        \/ NextService \/ OpenNetlink \/ OpenNetlinkFails

Dispatch == \/ NetlinkRecv
            \/ \E e \in ready : RecvHandles(e) \/ RecvFails(e)
            \/ LoopTest

\* What main() does by itself; SelectTraffic and SelectFails need a peer or a
\* failing kernel.
Daemon == \/ Install \/ GetIfaddrs \/ GetIfaddrsFails \/ Open
          \/ EnterSelect \/ SelectPending \/ Dispatch
          \/ CloseEp \/ AllClosed \/ Decide \/ Rearm

Environment == \/ \E s \in Signals : Signal(s)
               \/ \E a \in Addr : AddrChange(a)
               \/ OtherNetlink

Next == Daemon \/ SelectTraffic \/ SelectFails \/ Environment

Spec     == Init /\ [][Next]_vars
FairSpec == Spec /\ WF_vars(Daemon)

-----------------------------------------------------------------------------
(* Properties.                                                             *)

\* A change of addresses is never overlooked while the daemon serves: the list
\* main() opened its endpoints from is the kernel's, or netlink_recv() still
\* has the change to read (or will fail on the overrun that swallowed it), or
\* the change fell between getifaddrs() and the binding of the netlink socket,
\* which main() opens last.
StaleOnlyIfMissed ==
    pc \in Serving /\ ~missed /\ ~overrun /\ "addr" \notin Range(nlq)
        => ifaddrs = addrs

\* The daemon ends with success only if it was told to by SIGTERM or SIGINT,
\* and it starts again only on SIGHUP, a failed receive or an address change
\* of this round: restart is set and cleared so that no round inherits the
\* reason of another one.
OutcomeHasCause ==
    /\ status = "ok" => "term" \in causes
    /\ pc = "rearm"  => causes \cap {"hup", "recv", "addr"} # {}

\* The netlink endpoint, opened last and listed first, has its turn before any
\* request reported by the same select(): no request is answered from an
\* address list known to be old.
NetlinkFirst ==
    pc = "dispatch" /\ NlEp \in ready => Turn(NlEp)

\* Hello and Bye as the network sees them: the daemon implements Presence.
P == INSTANCE Presence WITH
        visible <- announced,
        phase   <- CASE pc \in {"boot", "start", "open"}         -> "joining"
                     [] pc \in Serving                           -> "present"
                     [] pc \in {"closing", "decide", "rearm"}    -> "leaving"
                     [] OTHER                                    -> "gone"

PresenceSpec == P!Spec

\* An address change the netlink socket was told of makes main() read the
\* addresses again, whatever else arrives; the daemon may only be gone first.
ChangeIsReread ==
    (pc \in Serving /\ "addr" \in Range(nlq)) ~> pc \in {"start", "exited"}

\* A SIGTERM that finds main() waiting in select() ends the process, through the
\* closing of every endpoint, unless a SIGHUP comes in between and restart = 1
\* overwrites it.
TermEndsWait ==
    (pc = "closing" /\ restart = 2) ~> (pc = "exited" \/ restart = 1)
=============================================================================
