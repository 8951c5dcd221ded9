# Verification of the MyCloud Gen1 reflash project

TLA+ specifications of the software that turns a WD MyCloud (Gen 1) into a
Debian NAS: the discovery daemon with its two protocols and its init script, the
web panel's privileged script, the system LED and the scripts that build the root
file system.
Paths below are relative to the repository (`src/`).

- [1. The system](#1-the-system)
- [2. The modules](#2-the-modules)
- [3. What the runs check](#3-what-the-runs-check)
- [4. What is proved](#4-what-is-proved)
- [5. What the code does not keep](#5-what-the-code-does-not-keep)
- [6. What is not modelled](#6-what-is-not-modelled)
- [7. Plan](#7-plan)

## 1. The system

| Component | State it keeps | Operations | Talks to |
|---|---|---|---|
| wsdd2 life cycle (`wsdd2/wsdd2.c`) | list of endpoints, `restart` flag, netlink socket | open/close endpoints, select loop, signals, netlink messages | kernel (addresses, netlink), init script (signals), peers (packets) |
| WSD protocol (`wsdd2/wsd.c`) | identity (endpoint UUID, instance, sequence), message number | Hello, Bye, Probe, Resolve, Get over HTTP | Windows clients |
| LLMNR responder (`wsdd2/llmnr.c`) | none | answer A/AAAA queries for the host name | Windows clients |
| wsdd2 init script (`rootfs-overlay/etc/init.d/wsdd2`) | pidfile | start, stop, restart, status | wsdd2 |
| panel-op (`nas-panel/panel-op`) | Unix accounts and their numbers, Samba passwords, groups, `smb.conf`, `/srv/nas` | user-add/pass/admin/del, share-add/del, led, power, DLNA, USB | started by CGIs through sudo, several at a time; smbd reads `smb.conf` |
| system LED (`nas-panel/led-status`, `led_set`) | driver colour and brightness, `LEDSTATE` cache | set a colour from health, from the panel, before a shutdown | cron, boot hook, panel, LED driver |
| panel CGIs (`nas-panel/www`) | none | one panel-op per request | panel-op |
| maintenance (`smart-monthly`, `recycle-purge`) | stamp file | cron jobs | disk |
| build stages (`build/`, `rootfs-overlay/`) | target tree, bind mounts of the host's /dev | four scripts run in order | host |
| flashing (`flash/`) | RAID superblock, root file system | back up, assemble, mkfs, extract, verify | drive |
| boot (`rootfs-overlay/etc/init.d`, `inittab`) | breadcrumb files | sysinit actions in order | kernel |

What is hard about it:

- **Concurrency without locks.** Every panel request runs a panel-op of its own
  as root; cron, the boot hook and the panel set the LED. Files are truncated and
  rewritten in place; caches are tested long before they are used.
- **Signals and notifications against a single thread.** wsdd2's handlers set a
  flag that other parts of the same process also set; an address may change
  while the daemon is between reading the addresses and listening for changes.
- **Input in any portion.** A request reaches `recv()` cut anywhere, stops in the
  middle or never comes, before a parser that works in one uninitialised buffer;
  queries and replies on UDP are lost, repeated and late.
- **Partial failure.** Each verb is a sequence of commands, most of whose results
  are ignored; the LED driver may kill the very process that uses it.
- **Restarts.** wsdd2 closes and reopens everything inside one process; the box
  is powered off by pulling the plug; process numbers and seconds of the clock
  are used again.

What makes each component correct, and how much of it is checked, is stated with
the modules below.

## 2. The modules

### Wsdd2, MCWsdd2, Wsdd2_proofs: the daemon's life cycle

`Wsdd2` follows `main()`: `pc` is where it is, `svn` and `left` the two opening
loops, `ifaddrs` the copy of the kernel's addresses (`addrs`) of this round,
`endpoints` the linked list with the newest endpoint first, `restart` the flag of
the signal handler and of `restart_service()`, `status` the process's end.
`nlq` and `overrun` are the netlink socket's receive buffer, `announced` the
endpoints that have said Hello and not Bye. `missed` and `causes` are history
variables that no guard reads.

| Action | Code |
|---|---|
| `Install`, `GetIfaddrs` | `sigaction` calls, `getifaddrs` (635-655) |
| `OpenSucceeds`, `OpenGivesUp`, `NextService`, `OpenNetlink(Fails)` | `open_ep` and the loops around it (263-433, 657-736) |
| `EnterSelect`, `SelectPending`, `SelectTraffic`, `SelectFails` | `select` (749, 769) |
| `NetlinkRecv`, `RecvHandles`, `RecvFails` | one call of `service->recv`, in list order (751-766) |
| `LoopTest` | `while (n >= 0 && !restart)` |
| `CloseEp`, `AllClosed`, `Decide`, `Rearm` | from `end:` to `goto again` or the exit (775-809) |
| `Signal` | `sighandler`, at any point |
| `AddrChange`, `OtherNetlink` | the kernel (external) |

`longjmp` is the jump of `RestartService` to `closing`, which forgets what else
`select` had reported. A blocked `select` is interrupted by a signal; anywhere
else a signal only sets the flag, and a signal that falls between `LoopTest` and
`select` is not seen before the next packet: `EnterSelect` is a step of its own
for that reason.

`Presence` is what the network is promised: an endpoint that has said Hello says
Bye before it says Hello again and before the process is gone, and no Hello comes
after a Bye of the same round. `Wsdd2` implements it under the refinement mapping
`P` at the end of `Wsdd2`.

### WsdHttp, MCWsdHttp, WsdHttp_proofs: a request to WS-Discovery

`WsdHttp` follows one call of `wsd_recv()` after the other, `recv()` by `recv()`.
A request is a sequence of pieces, each a header line or an element of the SOAP
text and one octet long; a peer sends its pieces one at a time, may stop or close
its side anywhere, and so a `recv()` returns the request cut between any two
pieces, or inside the first one (`Cut`). A request may be longer than the buffer:
`recv()` returns what there is room for, and the rest of a datagram is lost (`Fits`).
`buf`, `len` and `pos` are the parser's buffer, its length and `p - buf`; the buffer
keeps what earlier calls have left in it, as the stack does. `calls` and `unsent`
are history variables.

| Action | Code (`wsd.c`) |
|---|---|
| `Accept`, `FirstRecv`, `FirstEnd`, `FirstSilence`, `RecvFrom` | `wsd_recv` up to the first octets (1063-1096) |
| `CutRequestLine`, `CutStart` | the first octets end inside the first piece: behind `POST ` the parser writes through the end of the line it has not found (897-903); before that, or in a SOAP text, nothing is found in them (1096-1148) |
| `BadRequestLine`, `GoodRequestLine` | the tests on the request line (897-917) |
| `RefusedLine`, `EndOfHeader`, `Unfinished`, `Wraps` | one pass over the header loop (919-941) and its `memmove` (948) |
| `More`, `MoreFails` | the further `recv` before `goto again` (951-961) |
| `Enough`, `BadLength`, `Short`, `Body`, `BodyShort`, `BodySilence` | the body and its length (963-982) |
| `Answer`, `NoAnswer` | `wsd_req_parse` (357), `wsd_recv_action` (1022) and what they send (1121-1147) |
| `NewRound` | another endpoint ends the round in `main()` |

`Finish` is every regular end: the answer is sent as a whole or, when a call
fails, in part, the connection is closed and 0 returned. `Dies` is the end of the
process, on a cut request line or in the `memmove`. `Restart` is the return of
-1, after which `main()` closes every endpoint and whoever waits is reset. `Owed`
is the reference definition: what a request should get, read from its own text
without a buffer.

### Llmnr, MCLlmnr, Llmnr_proofs: the LLMNR responder

| Action | Code (`llmnr.c`) |
|---|---|
| `Recv`, `GetHostName`, `FindInterface`, `NotConnected`, `CallFails` | `llmnr_recv` call by call (379-394), `connected_if` (`wsdd2.c:122-204`) |
| `Respond`, `Ignore` | `llmnr_send_response` (96-372): `StandardQuery` is the header's test, `Authoritative` the question's, `AnswerTo` the choice of a record |
| `Reopen` | the daemon begins a new round; the socket's queue is lost |

Around the responder are resolvers that repeat a query, give up and ask again
(`Ask`, `Resend`, `GiveUp`, `Accept`), a network that loses queries and replies
(`Transmit`, `Lose`) and a host whose name and addresses change between any two
calls (`Rename`, `Readdress`). `names` and `facing` remember what was true while a
resolver asked.

### InitWsdd2, MCInitWsdd2, InitWsdd2_proofs: the init script and its processes

`pc[c]` is the command an invocation is about to run, `proc[p]` what the process
number `p` is: the child that has not got to `exec wsdd2` is `"sh"`, which matters
because `start-stop-daemon --stop` asks for the name. `wsd_instance` and `msg_no`
are the static variables of each process. Two variables are history: `last` is the
InstanceId and MessageNumber of the last message a client got and still goes by (it is
void after a start by hand in the second of that message, and after a boot with the
clock set back to it); `untimely` says that the script has run twice at a time or has
stopped a child that was not wsdd2 yet, which the properties exclude.

| Action | Code (`init.d/wsdd2`, `wsd.c`) |
|---|---|
| `Invoke` | `case "$1"` (55-61) |
| `Test`, `Find`, `Fork` | `start` (23-33): the script's test, then that of `start-stop-daemon`, then the child and the pidfile |
| `Stop`, `Wait`, `Kill` | `--retry=TERM/10/KILL/5` (38-39): SIGTERM, until it is gone, or SIGKILL |
| `Remove`, `Wake` | `rm -f` (41) and the `sleep 1` of a restart (58) |
| `Exec` | `exec $DAEMON` (30) |
| `TakeInstance`, `Say`, `Exit` | `wsd_init` (988-1019), `wsd_send_soap_msg` (522-602), the end of `main()` |
| `Tick`, `Other`, `Reboot` | the clock, other programs, a boot (external) |

A daemon may ignore SIGTERM, because a restart inside the process may overwrite it
(see `Wsdd2`): in `Stop` it stays `"wsdd2"`. `Say` does not ask whether there is an
InstanceId, as the code does not: an HTTP endpoint answers without one for as long as
no UDP endpoint could be opened.

### PanelOp, MCPanelOp, PanelOp_proofs, PanelOpAlone_proofs: users and shares

One process per invocation (`Proc`); `pc[p]` is the command it is about to run,
so that two invocations interleave command by command, which is what two shells
do. `cat "$tmp" > "$SMB"` is two steps, `Truncate` and `Write`: the shell empties
the file before `cat` writes from its start. Names are model values that satisfy
`NAME_RE`; accounts have numbers (`uid`), `adduser` gives a new one the lowest that is
free (`Uid`), and `dir` holds the number that owns a directory, as `chown` records it: the
number stays when the account goes. The first accounts (`InitUid`) may include ones
the distribution made, which `PROTECTED_USERS` does not list. A password is given or
blank, and `pdb` tells a password somebody set from the one user-add has built in. Sections have equal length, so that a write
over a longer file leaves that file's last sections. `smbd` loads whatever the
file is when it gets round to a reload (`SmbdReloads`, external); `PowerCut` kills
every invocation and starts smbd on the file as it is found.

`Faults` names the commands that may fail for a reason of their own, those whose
result nobody looks at included: `mktemp`, `adduser`, `usermod` (which stands for
`gpasswd -d`, too), `smbpasswd -a`, `-n` and `-x`, `mkdir`, `chown`, `testparm`, `reload`,
`deluser`, and `cat`, for which every copy and every write of `smb.conf` may come short
anywhere, or not begin, as on a full disk. A command that must fail (an account that is
gone) fails in the model whatever `Faults` is. Three variables are history: `touched`
holds the invocations that have truncated `smb.conf`, `unnoticed` those with a failed
command whose result was not looked at, and `astray` the shares whose `mkdir` or `chown`
failed or whose owner's account has been deleted since.

### Registry, PanelOpSerial, MCPanelOpSerial: the verbs as transactions

`Registry` is what the web pages may take the verbs for: users, Samba passwords,
groups, shares (a set, in no order) and directories, where a verb is carried out in
the one step that answers it. `OK` means that all of it has been done; `ERR`, that it
was refused or failed part way, and then `AddUserFails`, `DeleteUserFails` and
`AddShareFails` list what may be left: an account, a password, a directory, never a
share. `Silent` are the commands that may fail without a word, and for each of them
the verbs say what an OK does not cover then: a membership that is as it was, an account
that stays, a directory that is not there or not handed over, a file without some of its
sections. No account, password, group or directory changes of a name the verb is not
about, whatever fails, and no section of another name if `smb.conf` is written out.

`PanelOpSerial` adds to `PanelOp` the history variable `shown`, which no guard
reads: what there was (`Current`) when no invocation was running last. The
refinement mapping `R` puts `shown` for the registry's data, the invocations that
run for the requests that are pending, and `reply` for the answers, so that the
commands of a verb are stutters and its last one is the verb. It holds for
invocations that do not overlap and while the power stays on; a cut in the middle of
a verb leaves what no verb does.

### SystemLed, MCSystemLed, SystemLed_proofs: the LED

One process per script (`Writer`). `led-status` and `led_set` are the same
commands apart from what a refused colour does, so the actions are shared and
`by` tells them apart. `Rejects` are the colours the driver refuses. `Oops` is the
driver's kernel oops: the script dies in its own `echo`, and what it wrote has taken
effect or not. A write of the brightness may end so, and after one that did
(`oopsed`) the first write to the driver, which is mostly that of a colour. A boot, after
a shutdown (`Reboot`) or in the middle of anything (`PowerCut`), leaves `/var/run` empty
and the LED dark in the firmware's colour; that `/var/run` is empty is external.
Truncation and write of `LEDSTATE` are two steps, as in `smb.conf`; two overlapping
writes may leave a mix that matches no colour, unless all that is left of the longer
one is its newline, which `$(cat ...)` drops.

### RootfsBuild, MCRootfsBuild, RootfsBuild_proofs: the build stages

One operator runs the four scripts of `build/`; `stage` and `at` are the command
that comes next in `Script`, `done` the last stage in a row that exited 0. A
stage is started only after its predecessor has exited 0, and any earlier one may
be run again. `dev` is the stack of what is mounted on `$TARGET/dev`, the
uppermost bind mount first and the tree's own directory last, each with the mounts on
its `pts`; `nodes` are the device nodes in the tree's own directory, `tree`
what else has been installed.

| Action | Code |
|---|---|
| `FetchKeyring`, `RemoveTarget`, `Debootstrap` | stage 1; `rm -rf` follows mount points |
| `SecondStage`, `CopyKeyring` | stage 2, steps [1] and [2b] |
| `DevNodesGuard`, `Mknod`, `DevNodesDone` | `dev-nodes.sh`, node by node |
| `Mount`, `SetTrap` | stage 2:46-51, stage 3:14-19 |
| `Install` | every later command of stages 2 and 3, one part of the tree each |
| `UmountLeft`, `Tar` | stage 4 |
| `Tolerated` | a command that fails in stage 3, which has no `set -e` |
| `Aborted`, `Killed`, `ExitZero` | the ends of a script: a failed command under `set -e` or an interruption, with the EXIT trap if it is set; a kill, without it; the regular end |
| `Reboot` | the host goes down (external): the mounts are gone, the tree stays |

`strays` counts the scripts that ended with their own mounts still there since the
host came up. Two parts of an `apt-get` matter: what it installs, and that it may
bring the real libsystemd back over the stub when the package is not held.

## 3. What the runs check

| Run | Instance | Properties |
|---|---|---|
| `wsdd2_w` | `-w` (Hello, Bye, requests over UDP and HTTP), two IPv4 addresses, one without multicast, and one IPv6 address on an excluded interface, netlink buffer of 2, HUP and TERM, no SO_REUSEPORT | `TypeOK`, `StaleOnlyIfMissed`, `OutcomeHasCause`, `NetlinkFirst`, `PresenceSpec` (refinement with liveness), `ChangeIsReread`, `TermEndsWait` |
| `wsd_http` | two TCP peers and a UDP peer: eleven requests for the first, one of a single piece for the second, a datagram longer than the buffer; buffer of 6 | `TypeOK`, `WholeRequestAnswered`, `OwnAnswer`, `NoCollateral`, `EveryPeerIsSeenTo` |
| `wsd_http_cut` | one TCP peer, the eleven requests | violation of `CutHeaderIsParsed` |
| `llmnr` | a resolver on IPv4 with fourteen queries and one on IPv6 that asks twice, a name with and without a dot | `TypeOK`, `AnsweredTruly`, `RegularIsServed` |
| `init_wsdd2` | two invocations at a time, two process numbers, two seconds, two messages per process | `TypeOK`, `OnlyDaemonIsNamed`, `MessagesInOrder`, `InvocationEnds` |
| `panelop_one` | one invocation at a time, all verbs and options, two users who may get each other's number; every command may fail but `smbpasswd -x` and the reload | `SambaUserHasAccount`, `OkMeansDone`, `UniqueSections`, `DirMatchesOwner`, `ErrLeavesConf`, `RegistrySpec` (refinement) |
| `panelop_two` | two overlapping invocations of any verb, copies and writes that come short, power cuts | `TypeOK`, `SmbdCatchesUp` |
| `panelop_overlap` | two overlapping writers | violation of `SmbdKeepsProtected` |
| `panelop_protected` | one invocation at a time, verbs that remove, an account of the distribution's | violation of `ProtectedSharesStay` |
| `led_one` | one script at a time, the panel's colours and power verbs, a refused colour, oopses, reboots, power cuts | `TypeOK`, `LitWhenCached`, `CacheIsTrue`, `LedFollowsHealth` |
| `led_overlap` | two `led-status` at a time | violation of `CachedRedIsShown` |
| `build_all` | three device nodes, two strays | `TypeOK`, `NodesStayInTree`, `CleanUnlessStray`, `StageTwoBakes`, `PackedIsWhole` |

What the runs of the protocols and the scripts show:

- `WholeRequestAnswered`: a whole request whose header comes with the first
  `recv()` and the rest of its body with at most one more gets what its own text
  asks for, wherever it is cut and whatever the buffer held. `OwnAnswer` has no
  such premise: no answer is ever made of another peer's text.
- `NoCollateral`, `EveryPeerIsSeenTo`: one thread serves all. A peer costs the
  others their connection only by saying nothing or by cutting its header, and
  whoever waits is served or sees its connection closed.
- `AnsweredTruly`: name and address are read in two calls while both may change,
  and a reply may belong to an earlier query; what a resolver accepts was true at
  some time while it asked. `RegularIsServed` is the other half: the responder ignores
  no regular question for a name the host has kept.
- `OnlyDaemonIsNamed`: while the script runs once at a time and no stop overtakes
  the child of a start, the pidfile names the only daemon. `MessagesInOrder`: clients
  order messages by InstanceId and MessageNumber, and the `sleep 1` of a restart is
  what keeps the order over a change of process. `InvocationEnds`: a daemon that does not
  heed SIGTERM holds up neither stop nor the box.
- `OkMeansDone` separates what an OK assures from what it is taken for. The account and
  the password are what was asked for, whatever else has failed (`Assured`); membership,
  share, directory and removal (`Done`) only if no command failed unnoticed. Section 5
  lists what the second half excludes.
- `DirMatchesOwner` compares numbers: a private share belongs to the account its section
  names over removals and additions of accounts that get the same number. It excludes a
  share whose owner was deleted, which the next account may come to own.
- `RegistrySpec`: a verb of `panel-op` is a dozen commands, any of which may fail and
  most of whose results are ignored; seen from outside, each is one step of
  `Registry`. `OkMeansDone` and `ErrLeavesConf` speak of the verb's own name and of
  `smb.conf`; the refinement also says what a verb does not touch, what an ignored
  failure may leave undone, and exactly what a verb that fails may leave.
- `CacheIsTrue`, `LedFollowsHealth`: a script that dies, in a write of either kind, has
  not touched the cache, so that the next one of cron's tries again.

**Bounds and why they are enough.**

- Addresses: two of one family meet every interleaving of two endpoints of one
  service (also the second bind that finds its port taken); one of each family
  and one excluded address meet every branch of the filters.
- `NlCap` (netlink messages buffered): 2 has a change queued behind another
  message and an overrun with and without a change in it.
- Requests of `wsd_http`: one that is refused at each test, with a body before,
  at and after its Content-Length, with two Content-Length lines, without a
  header; `BufSize` 6 holds the longest by TCP but for one octet, so that `recv()` is
  bounded by the room, and a length of 9 does not fit. A second TCP peer is what waits in
  the backlog and whose octet stays in the buffer; the UDP one begins with a POST line,
  which must not be parsed as HTTP, and is longer than the buffer. Cuts come between
  any two pieces and inside the first; a cut inside a later header line is to the loop a
  line without an end, which stops it as a cut before that line does.
- Queries of `llmnr`: a regular one in three spellings, and one that differs in one
  respect for each test of the code. One resolver asks twice (`MaxAsks`), so that a
  reply to its first query meets its second; `RxCap` 1 has a full receive buffer.
- `MaxTime` 2 seconds and `MaxMsg` 2 messages per process in `init_wsdd2`: a
  predecessor and a successor in the same second and in two, with one message more
  or less. `Tick` and `Invoke` leave a second for the sleep of a restart under way,
  so that the bound on the clock keeps no invocation from ending. Two process
  numbers are enough for a daemon that is left behind beside a new one.
- `MaxSections`: 2 sections of `smb.conf` in `panelop_one` and `panelop_two`, the protected
  one and the one that is added, removed or lost; two invocations that copy the file
  before either writes it race for the one place. The two counterexamples have 3, for a
  section of somebody else's. It is a guard of the verbs that add a section and of
  nothing else.
- `Uid` = {1001} in the runs of `panel-op`: whoever is added next gets the number of who
  was deleted last, and with bob's and eve's verbs each may get the other's. `panelop_one`
  looks at states through `SerialView`, which leaves out what smbd has loaded, and
  `panelop_two` through `ProgramView`, which leaves out the history: no guard and, but
  for its type, no property of the run reads what its view omits.
- `Faults` of `panelop_two` is `cat` alone: what interleaves is the file, and a command
  that fails otherwise only takes the verb out of the race.
- `MaxStrays`: 2, one more than `PackedIsWhole` allows; it bounds how often a script
  ends with its mounts left behind between two boots, and so the depth of the
  stacks. With two such runs of stage 3 a mount does survive stage 4's single
  umount, so the bound of one in the property is exact. Failures, interruptions,
  kills and re-runs that leave no mount are unbounded.
- Three nodes, one of them debootstrap's own: one that is there before
  `dev-nodes.sh`, one that is made, one that a broken run has not reached.
- Two invocations or two scripts: every race of this code is one between a
  reader that became stale and one writer.

**Fairness and why the code justifies it.**

- `WF(Daemon)`: one runnable thread; every receive on a socket that `select`
  reported returns (accepted connections have a timeout of a second). Traffic,
  a failing `select`, signals and address changes are not fair: they may never
  come.
- `WF(Handler)` in `WsdHttp`: `select()` reports what waits, and `SO_RCVTIMEO`
  bounds each `recv()`, which the model has as a failing call when nothing is
  there. Peers owe nothing, and a cut inside the first piece (`Cut`) is theirs.
- `WF(Step(c))` and `WF(Tick)` in `InitWsdd2`: the script's commands return and time
  passes. The daemon owes nothing, not even its end after SIGTERM.
- In `SystemLed`: weak fairness of a running script's steps and of a shutdown that
  has been ordered; strong fairness of cron's start of `led-status` (every five
  minutes, while other scripts come and go); strong fairness of the writes of colour
  and brightness that do not oops (the driver oopses sometimes, not always).
  `LedFollowsHealth` presumes that the health settles and the box stays up.

## 4. What is proved

TLAPS checks the following for every value of the constants that satisfies the
named assumptions (`Wsdd2Assumption`, `WsdHttpAssumption`, `LlmnrAssumption`,
`InitWsdd2Assumption`, `PanelOpAssumption`, `SystemLedAssumption`,
`BuildAssumption`).

- **Wsdd2_proofs.** The inductive invariant `IInv` strengthens the checked
  invariants by what the list of endpoints may contain at each point of `main()`
  (`ListShape`: no duplicates, netlink at most once and, while serving, at the head;
  `OpenShape`: what is still to be opened is not listed yet; `HelloIsListed`: who has said
  Hello is in the list; `ReadyShape`: what `select` reported is in the list;
  `SnapshotShape`: the copy differs from the kernel's addresses only if `missed`
  or a notification tells; `CauseShape`: what `restart` says has a cause). From
  it: `TypeCorrect`, `NoChangeOverlooked`, `NoOutcomeWithoutCause`,
  `NetlinkServedFirst`. `ImplementsPresence` shows that every step maps to a step
  or a stutter of `Presence`.
- **WsdHttp_proofs.** For any peers, any buffer of two octets or more, requests of any
  length and the ways of cutting them that the model has: `TypeCorrect`, which says that the cursor, the length and the
  receive offset stay in the buffer or the process is gone, from how they are
  related at each point of the parser (`Bounds`); and `AnswersAreOwn`, from what the
  buffer holds below `len` while a peer is served, always octets of that peer
  (`Contents`). The answer is read from the text up to the first NUL, and the proof
  shows that one is there, behind octets of the peer only. `OnlyCutHeadersCost` proves
  `NoCollateral` under `Proper` (what a request has between its first line and the
  empty line that ends its header are header lines, good or bad): nothing has been taken from a peer that waits (`Waiting`), and the first pass over the
  header still has the request from its beginning (`FirstPass`), so that a header that
  came at once ends that pass before the length can wrap. Under the same assumption
  `WholeRequestsAreAnswered` proves `WholeRequestAnswered`. Its invariant (`Track`) says where in the request the buffer is: it
  holds the request from its beginning before the end of the header, what follows
  the header after it (`PastHeader`), and, when the text is parsed, a part of the
  request with the same answer as the one owed (`SoapText`). The reference definition
  `Owed` picks lines by their smallest and largest places in the request, so that a
  place found in the buffer is compared with one in the request; that there is a
  smallest one is the library's theorem on well-founded minima.
- **Llmnr_proofs.** For any resolvers, names and addresses: `ResolversHearTheTruth`
  and `ResponderServesRegular`, from what the query in hand, those queued and the
  replies under way have to do with the histories `names` and `facing` as long as
  their ID is the one the resolver waits for; and `TypeCorrect`.
- **InitWsdd2_proofs.** For any number of invocations and process numbers and any
  bounds: `DaemonIsNamed`, from the fact that an invocation that has got past its
  tests knows that there is no daemon (`Timely`); `ClientsSeeOrder`, from how far
  the InstanceId a daemon has taken, or is to take, is ahead of what was sent
  (`Behind`); `TypeCorrect`, which needs `Room`, the second left for a sleep.
- **PanelOp_proofs.** For any number of invocations: `TypeCorrect`; `SmbdEndsUpWithConf`, if the reload
  works and whatever else fails, from the invariant that whenever `smb.conf` differs from what smbd has loaded, a reload is
  under way or some invocation is still to send one (`ReloadOwed`), and
  `ErrIsHarmless`, from the control flow of a verb (`ControlShape`: which commands
  can still come once `smb.conf` is touched).
- **PanelOpAlone_proofs.** Under `Alone` (one invocation at a time; `smb.conf` begins with
  unique sections, of which only the administrator's is private), for any names, numbers,
  verbs, sequences of them and `Faults`: `OkIsTrue`, `SectionsStayUnique`,
  `DirectoriesFollowOwners`, and, if `smbpasswd -x` does its work, `NoOrphanedSambaUser`. The
  invariant says at each command which verbs come by it
  (`Flow`), what the verb has done to the accounts (`Accounts`) and to `smb.conf` and
  the share's directory (`File`), the latter unless a failure went unnoticed: the copy is
  unique, matches the directories and has the verb's effect, and between truncation and
  write the file is empty, so that what is written is the beginning of the copy.
  `VerbsAreTransactions` proves, under `Alone` and without power
  cuts, that `PanelOpSerial` implements `Registry`. Its invariant `HInv` compares what
  there is at each command with what was shown when the verb began: accounts, numbers and
  groups (`SinceGroups`), passwords (`SincePdb`), directories (`SinceDir`), the file and the
  copy (`SinceFile`), and what the tests passed so far have found (`Guards`). One lemma
  per command shows that it keeps this and is a stutter, or ends the verb in a step of
  the registry.
- **SystemLed_proofs.** For any number of scripts, whatever the driver refuses:
  `TypeCorrect` and `OopsIsRetried`. For one script at a time and a driver that takes
  the colours of `led-status`: `LockedCacheIsTrue`, from an invariant that says at each
  command what the script has already done to the LED; oopses, reboots and power cuts
  come wherever they may.
- **RootfsBuild_proofs.** For every set of nodes and any number of broken runs:
  `NodesLandInTree`, from the fact that only the guard leads to the first `mknod` and
  nothing mounts in between (`GuardShape`); `NothingLeftMounted`, from what the
  mount stacks are at each command while no script has left a mount
  (`StackShape`); `StageTwoKeepsItsWord`, from what is in the tree before each
  command of stage 2 and that it stays after it (`BakeShape`): the package is held
  by then, so stage 3's `apt-get` leaves the stub alone; `TarballIsWhole`: what a
  single script leaves mounted is low enough for the single `umount`s of stage 4, and a
  trap brings what is mounted over it back to that (`LeftShape`), so that nothing of the
  host is left over the tree when it is packed (`TarShape`); and `TypeCorrect`.

Every safety invariant that a run checks, every action property and the refinement
`RegistrySpec` are stated by a theorem. Only model-checked is what is temporal
under fairness (`ChangeIsReread`, `TermEndsWait`, `EveryPeerIsSeenTo`, `InvocationEnds`,
`LedFollowsHealth`, the liveness of `Presence`), which is beyond the prover. How
`PanelOp` behaves when invocations overlap is covered by `TypeCorrect`,
`SmbdEndsUpWithConf` and `ErrIsHarmless` alone: the other promises do not hold then.

## 5. What the code does not keep

Each is a run that ends in a counterexample, with the line of the repository that
says otherwise quoted in `PROJECT.json`.

- `ProtectedSharesStay`: `user-del public` removes the protected share.
- `SmbdKeepsProtected`: overlapping invocations make smbd load a truncated file.
- `CachedRedIsShown`: overlapping scripts leave a cache that says red over an LED
  of another colour, and every later `led-status` believes it.
- `CutHeaderIsParsed`: a header that comes in two segments is parsed from the wrong
  place, although the code goes on receiving in order to parse the rest.

Without a document that says otherwise, but worth knowing: stage 1, run again
after a stage that was broken off with the host's `/dev` mounted in the target,
empties that `/dev` (`RemoveTarget`; stage1:26), and two runs of stage 3 that
left their mounts put it into the tarball; and in wsdd2, a SIGTERM handled while
a packet is being served may be overwritten by a restart (`wsdd2.c:458`), one that
falls between the loop test and `select` waits for the next packet
(`wsdd2.c:749,767`), and an address that changes before the netlink socket is bound
is not noticed (`missed`). Further:

- a verb says OK over a command whose failure it ignores (`unnoticed`): `user-admin` with a
  group file that is locked has done nothing (panel-op:189-193), `user-add` may have left the
  user out of `users` (156), `user-del` the account in place (202), `share-add` the
  directory to root (241-245); on a full disk `cat "$tmp" > "$SMB"` leaves `smb.conf` empty
  or without its last sections, and the verb still reloads smbd and says OK (97, 106);
- a directory keeps its owner's number (panel-op:165,243): after `user-del` of the owner of a
  private share the next account that `adduser` makes owns the directory (`astray`), and
  the section goes on naming the one that is gone;
- `user-add` passes by an account that the distribution has made under a name that
  `NAME_RE` admits (panel-op:155), and `user-del` deletes it (202);
- a refused colour or an oops ends the poweroff verb before `shutdown`
  (panel-op:309), while the page says that the box is shutting down;
- stage 3 exits 0 when the installation of samba or the build of wsdd2 has failed;
- a header cut so that the second segment is shorter than the first makes `len`
  wrap, and the process dies in the `memmove` (`Wraps`; wsd.c:948), and a request line that
  comes in two segments kills it at once (`CutRequestLine`; wsd.c:897,903);
- a body whose rest does not come within a second is taken as complete, because -1
  is compared as a `size_t` (`BodySilence`; wsd.c:976), and one that comes in three
  segments is answered with 500 (`BodyShort`);
- an LLMNR query with records after its question has the answer put behind them, and
  the type of a question that ends early is read from what the buffer still holds
  (llmnr.c:222);
- an HTTP endpoint has no `.init`: with `-t` alone, or while no UDP endpoint could be
  opened, `wsd_init()` has not run, and it answers with the InstanceId 0 (`Say`);
- a stop right after a start finds `/bin/sh` instead of wsdd2, leaves it alive and
  removes the pidfile; two starts at a time make two daemons; a stop and a start
  by hand within a second use the InstanceId, the seed of the message IDs and the
  message numbers of the predecessor again (`last` is void then, and `untimely` covers the
  first two).

## 6. What is not modelled

See "components" in `PROJECT.json` for the list with reasons: read-only verbs and
pages, HTML, the libsystemd stub and the alignment scan keep no state; the vendor's
kernel side of the firmware load is not in the repository; the flashing and boot
scripts are straight lines of commands against a drive and a kernel that are not
here either. Of what is modelled, the text of answers and pages is left out, and with it
what `smb.conf` and the host's name put into them (`wsd.c:1009`); so are cuts inside
a piece of a request other than its first, the DLNA and USB verbs, and the wording of
`Status`. An invocation of panel-op ends by itself or with the power: that it is killed
alone, with its CGI, is left out. The labels of an LLMNR question fit `in_label[64]` and
end within the packet, which the walk over them does not ask (llmnr.c:83,188,196). What
`smbpasswd` and `adduser` do is one step each, done or not.

## 7. Plan

What could come next, in this order:

1. `PanelServices`: `dlna-start/stop`, `usb-mount/eject`, `smart-monthly`.
2. `FlashRootfs` and `BootLadder`: the assembly's fallbacks and the breadcrumbs.
