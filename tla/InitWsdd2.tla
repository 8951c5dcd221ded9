----------------------------- MODULE InitWsdd2 -----------------------------
(***************************************************************************)
(* The init script of wsdd2 (src/rootfs-overlay/etc/init.d/wsdd2), command *)
(* by command, as boot, the administrator and the build's hooks run it,    *)
(* and the processes it starts: what wsd_init() of each takes for its      *)
(* identity and how its messages are numbered (src/wsdd2/wsd.c).           *)
(*                                                                         *)
(* A client of WS-Discovery orders the messages of an endpoint by the      *)
(* InstanceId and the MessageNumber of AppSequence.  The first is the time *)
(* in seconds at which the process announced itself, the second counts     *)
(* within the process.  "status" only prints, and is left out.             *)
(***************************************************************************)
EXTENDS Integers

CONSTANTS
    Caller,     \* invocations of the script that may run at a time
    Pid,        \* process numbers
    NoPid,      \* no such process
    MaxTime,    \* bound on the clock
    MaxMsg      \* bound on the messages of one process

ASSUME InitWsdd2Assumption ==
    /\ NoPid \notin Pid
    /\ MaxTime \in Nat \ {0} /\ MaxMsg \in Nat

VARIABLES
    clock,      \* time(), in seconds
    proc,       \* proc[p]: what process p is
    pidfile,    \* the process PIDFILE names, NoPid while there is none
    pc,         \* pc[c]: the command caller c is about to run
    verb,       \* verb[c]: its argument
    wake,       \* wake[c]: when its sleep 1 is over
    wsd_instance, msg_no,   \* static variables of each process, 0 at first
    last,       \* history: InstanceId and MessageNumber of the last message that
                \* a client got and still goes by
    untimely    \* history: the script has run twice at a time, or has stopped a child
                \* before it was wsdd2

statics == << wsd_instance, msg_no >>
script  == << pc, verb, wake >>
vars    == << clock, proc, pidfile, script, statics, last, untimely >>

\* "sh" is the child that has not got to "exec wsdd2", "ending" a daemon that has
\* taken SIGTERM, "other" a process of another program under a number used again.
Kind   == {"free", "sh", "wsdd2", "ending", "other"}
Daemon == {"sh", "wsdd2", "ending"}

TypeOK ==
    /\ clock \in 1 .. MaxTime
    /\ proc \in [Pid -> Kind]
    /\ pidfile \in Pid \cup {NoPid}
    /\ pc \in [Caller -> {"idle", "test", "find", "fork", "stop", "wait", "remove",
                          "sleep"}]
    /\ verb \in [Caller -> {"none", "start", "stop", "restart"}]
    /\ wake \in [Caller -> 0 .. MaxTime]
    /\ \A c \in Caller : pc[c] = "sleep" => wake[c] > 0
    /\ wsd_instance \in [Pid -> 0 .. MaxTime]
    /\ msg_no \in [Pid -> 0 .. MaxMsg]
    /\ \A p \in Pid : proc[p] \in {"free", "other"} =>
          wsd_instance[p] = 0 /\ msg_no[p] = 0
    /\ last \in [inst : 0 .. MaxTime, no : 0 .. MaxMsg]
    /\ untimely \in BOOLEAN

\* Nothing that a client goes by.
Nothing == [inst |-> 0, no |-> 0]

Init ==
    /\ clock = 1
    /\ proc = [p \in Pid |-> "free"] /\ pidfile = NoPid
    /\ pc = [c \in Caller |-> "idle"] /\ verb = [c \in Caller |-> "none"]
    /\ wake = [c \in Caller |-> 0]
    /\ wsd_instance = [p \in Pid |-> 0] /\ msg_no = [p \in Pid |-> 0]
    /\ last = Nothing
    /\ untimely = FALSE

-----------------------------------------------------------------------------
(* The script.                                                             *)

Goto(c, l) == pc' = [pc EXCEPT ![c] = l] /\ UNCHANGED verb

Return(c) == pc' = [pc EXCEPT ![c] = "idle"] /\ verb' = [verb EXCEPT ![c] = "none"]

\* kill -0 "$(cat "$PIDFILE")"
Running == pidfile # NoPid /\ proc[pidfile] # "free"

\* What start-stop-daemon --stop takes for the daemon: --pidfile and --name.
Found == pidfile # NoPid /\ proc[pidfile] \in {"wsdd2", "ending"}

\* The process is gone, and with it what it kept in its static variables.
Gone(p) ==
    /\ proc' = [proc EXCEPT ![p] = "free"]
    /\ wsd_instance' = [wsd_instance EXCEPT ![p] = 0]
    /\ msg_no' = [msg_no EXCEPT ![p] = 0]

\* Somebody runs the script: $1 decides.
Invoke(c, v) ==
    /\ pc[c] = "idle" /\ (v = "restart" => clock < MaxTime)
    /\ verb' = [verb EXCEPT ![c] = v]
    /\ pc' = [pc EXCEPT ![c] = IF v = "start" THEN "test" ELSE "stop"]
    /\ untimely' = IF \E d \in Caller \ {c} : pc[d] # "idle" THEN TRUE ELSE untimely
    /\ UNCHANGED << clock, proc, pidfile, wake, statics, last >>

\* "already running", or start-stop-daemon is run.
Test(c) ==
    /\ pc[c] = "test"
    /\ IF Running THEN Return(c) ELSE Goto(c, "find")
    /\ UNCHANGED << clock, proc, pidfile, wake, statics, last, untimely >>

\* start-stop-daemon --start looks at the pidfile, too: FAILED (1).
Find(c) ==
    /\ pc[c] = "find"
    /\ IF Running THEN Return(c) ELSE Goto(c, "fork")
    /\ UNCHANGED << clock, proc, pidfile, wake, statics, last, untimely >>

\* ... and returns when the child runs and the pidfile is written; or fork() fails.
\* A start by hand in the second of the last message, or before it, may name a second
\* again: what a client goes by is void.
Fork(c) ==
    /\ pc[c] = "fork"
    /\ \/ \E p \in Pid :
             /\ proc[p] = "free"
             /\ proc' = [proc EXCEPT ![p] = "sh"]
             /\ pidfile' = p
       \/ /\ \A p \in Pid : proc[p] # "free"
          /\ UNCHANGED << proc, pidfile >>
    /\ Return(c)
    /\ last' = IF verb[c] = "start" /\ clock <= last.inst THEN Nothing ELSE last
    /\ UNCHANGED << clock, wake, statics, untimely >>

\* SIGTERM, unless there is no daemon of that name.  The daemon takes it and ends,
\* or it is overwritten by a restart within the process, as Wsdd2 shows.
Stop(c) ==
    /\ pc[c] = "stop"
    /\ \/ /\ Found
          /\ \E k \in {"ending", proc[pidfile]} : proc' = [proc EXCEPT ![pidfile] = k]
          /\ Goto(c, "wait")
          /\ UNCHANGED untimely
       \/ /\ ~Found
          /\ Goto(c, "remove")
          /\ untimely' = IF pidfile # NoPid /\ proc[pidfile] = "sh" THEN TRUE ELSE untimely
          /\ UNCHANGED proc
    /\ UNCHANGED << clock, pidfile, wake, statics, last >>

\* Mutated form: no --retry.
WaitNot(c) ==
    /\ pc[c] = "wait"
    /\ Goto(c, "remove")
    /\ UNCHANGED << clock, proc, pidfile, wake, statics, last, untimely >>

\* --retry: start-stop-daemon looks again until the daemon is gone ...
Wait(c) ==
    /\ pc[c] = "wait" /\ ~Found
    /\ Goto(c, "remove")
    /\ UNCHANGED << clock, proc, pidfile, wake, statics, last, untimely >>

\* Mutated form: --retry=TERM/forever.
KillNever(c) == FALSE

\* ... or, after ten seconds, sends SIGKILL to whatever the pidfile names by then.
Kill(c) ==
    /\ pc[c] = "wait" /\ Found
    /\ Gone(pidfile)
    /\ Goto(c, "remove")
    /\ UNCHANGED << clock, pidfile, wake, last, untimely >>

\* Mutated form: restart starts at once.
RemoveNoSleep(c) ==
    /\ pc[c] = "remove"
    /\ pidfile' = NoPid
    /\ IF verb[c] = "restart" THEN Goto(c, "test") ELSE Return(c)
    /\ UNCHANGED << clock, proc, wake, statics, last, untimely >>

\* Mutated form: sleep without its operand.
RemoveForgetsSecond(c) ==
    /\ pc[c] = "remove"
    /\ pidfile' = NoPid
    /\ IF verb[c] = "restart" THEN Goto(c, "sleep") ELSE Return(c)
    /\ UNCHANGED << clock, proc, wake, statics, last, untimely >>

\* rm -f "$PIDFILE", whatever came of it; restart goes on with sleep 1.
Remove(c) ==
    /\ pc[c] = "remove"
    /\ pidfile' = NoPid
    /\ IF verb[c] = "restart"
       THEN Goto(c, "sleep") /\ wake' = [wake EXCEPT ![c] = clock + 1]
       ELSE Return(c) /\ UNCHANGED wake
    /\ UNCHANGED << clock, proc, statics, last, untimely >>

Wake(c) ==
    /\ pc[c] = "sleep" /\ clock >= wake[c]
    /\ wake' = [wake EXCEPT ![c] = 0]
    /\ Goto(c, "test")
    /\ UNCHANGED << clock, proc, pidfile, statics, last, untimely >>

-----------------------------------------------------------------------------
(* The processes.                                                          *)

\* exec $DAEMON
Exec(p) ==
    /\ proc[p] = "sh"
    /\ proc' = [proc EXCEPT ![p] = "wsdd2"]
    /\ UNCHANGED << clock, pidfile, script, statics, last, untimely >>

\* wsd_init(), of whichever endpoint and round: if (!wsd_instance) time(...)
TakeInstance(p) ==
    /\ proc[p] = "wsdd2" /\ wsd_instance[p] = 0
    /\ wsd_instance' = [wsd_instance EXCEPT ![p] = clock]
    /\ UNCHANGED << clock, proc, pidfile, script, msg_no, last, untimely >>

\* wsd_send_soap_msg(): a Hello, a Bye or an answer.  The number is used up although
\* sending fails.  A UDP endpoint is opened by wsd_init(); an HTTP endpoint has no .init
\* and, while no UDP endpoint could be opened, answers without an InstanceId (0): the
\* bound leaves a number for a message with one.
Say(p) ==
    /\ proc[p] \in {"wsdd2", "ending"}
    /\ msg_no[p] < (IF wsd_instance[p] = 0 THEN MaxMsg - 1 ELSE MaxMsg)
    /\ msg_no' = [msg_no EXCEPT ![p] = @ + 1]
    /\ \/ last' = last
       \/ /\ wsd_instance[p] # 0
          /\ last' = [inst |-> wsd_instance[p], no |-> msg_no[p] + 1]
    /\ UNCHANGED << clock, proc, pidfile, script, wsd_instance, untimely >>

\* The end: after SIGTERM, or because something the daemon cannot do without fails.
Exit(p) ==
    /\ proc[p] \in Daemon
    /\ Gone(p)
    /\ UNCHANGED << clock, pidfile, script, last, untimely >>

-----------------------------------------------------------------------------
(* The box.                                                                *)

\* The bound leaves a second for every sleep that is to come.
Tick ==
    /\ clock < MaxTime
    /\ clock + 1 = MaxTime =>
          \A c \in Caller : ~(verb[c] = "restart" /\ pc[c] \in {"stop", "wait", "remove"})
    /\ clock' = clock + 1
    /\ UNCHANGED << proc, pidfile, script, statics, last, untimely >>

\* Process numbers are used again.
Other(p) ==
    /\ \/ proc[p] = "free" /\ proc' = [proc EXCEPT ![p] = "other"]
       \/ proc[p] = "other" /\ proc' = [proc EXCEPT ![p] = "free"]
    /\ UNCHANGED << clock, pidfile, script, statics, last, untimely >>

\* /var/run is empty after a boot, and the clock is what the drive's board knows: set
\* back, it may name a second again.
Reboot ==
    /\ clock' \in 1 .. MaxTime
    /\ proc' = [p \in Pid |-> "free"] /\ pidfile' = NoPid
    /\ wsd_instance' = [p \in Pid |-> 0] /\ msg_no' = [p \in Pid |-> 0]
    /\ pc' = [c \in Caller |-> "idle"] /\ verb' = [c \in Caller |-> "none"]
    /\ wake' = [c \in Caller |-> 0]
    /\ last' = IF clock' <= last.inst THEN Nothing ELSE last
    /\ untimely' = FALSE

Step(c) == \/ Test(c) \/ Find(c) \/ Fork(c)
           \/ Stop(c) \/ Wait(c) \/ Kill(c) \/ Remove(c) \/ Wake(c)

Runs(p) == Exec(p) \/ TakeInstance(p) \/ Say(p) \/ Exit(p)

Next ==
    \/ \E c \in Caller : Step(c) \/ \E v \in {"start", "stop", "restart"} : Invoke(c, v)
    \/ \E p \in Pid : Runs(p) \/ Other(p)
    \/ Tick \/ Reboot

Spec == Init /\ [][Next]_vars

\* The script's commands return, and time passes.  The daemon owes nothing, not even
\* its end: start-stop-daemon has a timeout for that.
FairSpec == Spec /\ WF_vars(Tick) /\ \A c \in Caller : WF_vars(Step(c))

-----------------------------------------------------------------------------
(* Properties.                                                             *)

\* As long as the script does not run twice at a time, nor stop before the child of a
\* start has become wsdd2, PIDFILE names the only daemon there is: start never makes
\* a second one, stop and restart leave none behind, crashes and process numbers that
\* are used again included.
OnlyDaemonIsNamed ==
    ~untimely =>
        \A p \in Pid : proc[p] \in Daemon => pidfile = p

\* Whatever a daemon numbers comes after what a client has got of it and of those
\* before it: it drops no message of a restarted daemon as an old one.  restart's
\* sleep 1 is what makes the next InstanceId greater; a start by hand in the second of
\* the last one, and a clock that is set back over a boot, are not provided for, nor is
\* an answer without an InstanceId.
Later(m, n) == m.inst > n.inst \/ (m.inst = n.inst /\ m.no > n.no)

MessagesInOrder ==
    [][\A p \in Pid :
          ~untimely /\ wsd_instance[p] # 0 /\ msg_no'[p] > msg_no[p] =>
              Later([inst |-> wsd_instance[p], no |-> msg_no'[p]], last)]_vars

\* A daemon that does not heed SIGTERM holds up neither the script nor, at shutdown,
\* the box: TERM/10/KILL/5.
InvocationEnds ==
    \A c \in Caller : pc[c] # "idle" ~> pc[c] = "idle"
=============================================================================
