-------------------------- MODULE InitWsdd2_proofs --------------------------
(***************************************************************************)
(* Proofs about the init script of wsdd2 for any number of invocations and *)
(* of process numbers: the pidfile names the only daemon, and what a       *)
(* client sees of one daemon after the other is in order.                  *)
(***************************************************************************)
EXTENDS InitWsdd2, TLAPS

\* Where an invocation has made sure that no daemon is left.
Cleared(c) == \/ pc[c] \in {"find", "fork", "remove", "sleep"}
              \/ pc[c] = "test" /\ verb[c] = "restart"

\* The commands that belong to an argument.
VerbShape ==
    \A c \in Caller :
        /\ pc[c] \in {"test", "find", "fork"} => verb[c] \in {"start", "restart"}
        /\ pc[c] \in {"stop", "wait", "remove"} => verb[c] \in {"stop", "restart"}
        /\ pc[c] = "sleep" => verb[c] = "restart"

\* A restart finds room for its sleep below the bound on the clock.
Room ==
    \A c \in Caller :
        verb[c] = "restart" /\ pc[c] \in {"stop", "wait", "remove"} => clock < MaxTime

\* Timely invocations come one after the other, and know where they are.
Timely ==
    ~untimely =>
        /\ \A c, d \in Caller : pc[c] # "idle" /\ pc[d] # "idle" => c = d
        /\ \A c \in Caller : Cleared(c) => \A p \in Pid : proc[p] \notin Daemon
        /\ \A c \in Caller : pc[c] = "wait" => \A p \in Pid : proc[p] # "sh"

\* The InstanceId of a daemon, taken or still to be taken, is behind what has been
\* sent; so is the second in which a restart will find itself after its sleep.
Behind ==
    ~untimely =>
        /\ last.inst <= clock
        /\ \A p \in Pid : proc[p] \in Daemon =>
              IF wsd_instance[p] = 0 THEN last.inst < clock
              ELSE /\ wsd_instance[p] <= clock
                   /\ \/ last.inst < wsd_instance[p]
                      \/ last.inst = wsd_instance[p] /\ last.no <= msg_no[p]
        /\ \A c \in Caller : pc[c] = "sleep" => last.inst < wake[c]
        /\ \A c \in Caller : pc[c] \in {"test", "find", "fork"} /\ verb[c] = "restart" =>
              last.inst < clock

IInv == TypeOK /\ VerbShape /\ Room /\ Timely /\ OnlyDaemonIsNamed /\ Behind

-----------------------------------------------------------------------------
(* Types.                                                                  *)

LEMMA InitHolds == Init => IInv
<1> SUFFICES ASSUME Init PROVE IInv
  OBVIOUS
<1>1. untimely \in BOOLEAN
  BY Zenon DEF Init
<1>2. TypeOK
  BY <1>1, InitWsdd2Assumption DEF Init, Nothing, TypeOK, Kind
<1> QED  BY <1>2, InitWsdd2Assumption
         DEF Init, Nothing, IInv, VerbShape, Room, Timely, Cleared, OnlyDaemonIsNamed, Behind, Daemon

LEMMA ScriptTypes ==
    ASSUME IInv, NEW c \in Caller, Step(c) \/ \E v \in {"start", "stop", "restart"} : Invoke(c, v)
    PROVE  TypeOK'
<1> USE InitWsdd2Assumption DEF Kind, statics, script
<1>1. ASSUME NEW v \in {"start", "stop", "restart"}, Invoke(c, v) PROVE TypeOK'
  BY <1>1 DEF IInv, TypeOK, Invoke
<1>2. CASE Test(c)
  BY <1>2 DEF IInv, TypeOK, Test, Goto, Return
<1>3. CASE Find(c)
  BY <1>3 DEF IInv, TypeOK, Find, Goto, Return
<1>4. CASE Fork(c)
  BY <1>4 DEF IInv, TypeOK, Fork, Return, Nothing
<1>5. CASE Stop(c)
  <2>1. UNCHANGED << clock, pidfile, wake, wsd_instance, msg_no, last, verb >>
    BY <1>5 DEF Stop, Goto
  <2>2. pc' = [pc EXCEPT ![c] = "wait"] \/ pc' = [pc EXCEPT ![c] = "remove"]
    BY <1>5 DEF Stop, Goto
  <2>3. untimely' \in BOOLEAN
    BY <1>5, Zenon DEF Stop, IInv, TypeOK
  <2>4. /\ proc' \in [Pid -> {"free", "sh", "wsdd2", "ending", "other"}]
        /\ \A p \in Pid : proc'[p] \in {"free", "other"} => proc[p] \in {"free", "other"}
    <3>1. CASE proc' = proc
      BY <3>1 DEF IInv, TypeOK
    <3>2. ASSUME Found, NEW k \in {"ending", proc[pidfile]},
                 proc' = [proc EXCEPT ![pidfile] = k]
          PROVE  /\ proc' \in [Pid -> {"free", "sh", "wsdd2", "ending", "other"}]
                 /\ \A p \in Pid : proc'[p] \in {"free", "other"}
                                     => proc[p] \in {"free", "other"}
      <4>1. pidfile \in Pid /\ k \in {"wsdd2", "ending"}
        BY <3>2 DEF Found, IInv, TypeOK
      <4> QED  BY <3>2, <4>1 DEF IInv, TypeOK
    <3> QED  BY <1>5, <3>1, <3>2 DEF Stop
  <2>5. /\ pc' \in [Caller -> {"idle", "test", "find", "fork", "stop", "wait", "remove",
                              "sleep"}]
        /\ \A d \in Caller : pc'[d] = "sleep" => wake[d] > 0
    BY <2>2 DEF IInv, TypeOK
  <2>6. untimely' \in BOOLEAN
    BY <2>3 DEF IInv, TypeOK
  <2> QED  BY <2>1, <2>4, <2>5, <2>6 DEF IInv, TypeOK
<1>6. CASE Wait(c)
  BY <1>6 DEF IInv, TypeOK, Wait, Goto
<1>7. CASE Kill(c)
  BY <1>7 DEF IInv, TypeOK, Kill, Gone, Goto, Found
<1>8. CASE Remove(c)
  BY <1>8 DEF IInv, TypeOK, Room, Remove, Goto, Return
<1>9. CASE Wake(c)
  BY <1>9 DEF IInv, TypeOK, Wake, Goto
<1> QED  BY <1>1, <1>2, <1>3, <1>4, <1>5, <1>6, <1>7, <1>8, <1>9 DEF Step

LEMMA BoxTypes ==
    ASSUME IInv, Tick \/ Reboot \/ \E p \in Pid : Runs(p) \/ Other(p)
    PROVE  TypeOK'
<1> USE InitWsdd2Assumption DEF Kind, Daemon, statics, script
<1>1. CASE Tick
  BY <1>1 DEF IInv, TypeOK, Tick
<1>2. CASE Reboot
  <2>1. untimely' \in BOOLEAN
    BY <1>2, Zenon DEF Reboot
  <2> QED  BY <1>2, <2>1 DEF IInv, TypeOK, Reboot, Nothing
<1>3. ASSUME NEW p \in Pid, Exec(p) PROVE TypeOK'
  BY <1>3 DEF IInv, TypeOK, Exec
<1>4. ASSUME NEW p \in Pid, TakeInstance(p) PROVE TypeOK'
  BY <1>4 DEF IInv, TypeOK, TakeInstance
<1>5. ASSUME NEW p \in Pid, Say(p) PROVE TypeOK'
  BY <1>5 DEF IInv, TypeOK, Say
<1>6. ASSUME NEW p \in Pid, Exit(p) PROVE TypeOK'
  BY <1>6 DEF IInv, TypeOK, Exit, Gone
<1>7. ASSUME NEW p \in Pid, Other(p) PROVE TypeOK'
  BY <1>7 DEF IInv, TypeOK, Other
<1> QED  BY <1>1, <1>2, <1>3, <1>4, <1>5, <1>6, <1>7 DEF Runs

-----------------------------------------------------------------------------
(* The script.                                                             *)

\* What a step of the script may change, from the types.
LEMMA ScriptFacts ==
    ASSUME IInv, NEW c \in Caller, NEW l, NEW v,
           pc' = [pc EXCEPT ![c] = l], verb' = [verb EXCEPT ![c] = v]
    PROVE  /\ pc'[c] = l /\ verb'[c] = v
           /\ \A d \in Caller \ {c} : pc'[d] = pc[d] /\ verb'[d] = verb[d]
BY DEF IInv, TypeOK

LEMMA InvokeKeeps ==
    ASSUME IInv, NEW c \in Caller, NEW v \in {"start", "stop", "restart"}, Invoke(c, v)
    PROVE  VerbShape' /\ Room' /\ Timely' /\ OnlyDaemonIsNamed' /\ Behind'
<1>1. /\ pc[c] = "idle" /\ pc'[c] = IF v = "start" THEN "test" ELSE "stop"
      /\ verb'[c] = v /\ (v = "restart" => clock < MaxTime)
      /\ \A d \in Caller \ {c} : pc'[d] = pc[d] /\ verb'[d] = verb[d]
      /\ UNCHANGED << clock, proc, pidfile, wake, wsd_instance, msg_no, last >>
  BY ScriptFacts DEF Invoke, statics
<1>2. (untimely => untimely')
      /\ (~untimely' => \A d \in Caller \ {c} : pc[d] = "idle")
  BY DEF Invoke
<1>3. VerbShape' /\ Room'
  BY <1>1 DEF IInv, VerbShape, Room
<1>4. Timely'
  BY <1>1, <1>2 DEF IInv, Timely, Cleared
<1>5. OnlyDaemonIsNamed'
  BY <1>1, <1>2 DEF IInv, OnlyDaemonIsNamed
<1>6. Behind'
  <2>1. ~untimely' => ~untimely
    BY <1>2
  <2> QED  BY <1>1, <2>1 DEF IInv, Behind
<1> QED  BY <1>3, <1>4, <1>5, <1>6

\* test and find: a start goes on when there is no process of that number.
LEMMA TestFindKeeps ==
    ASSUME IInv, NEW c \in Caller, Test(c) \/ Find(c)
    PROVE  VerbShape' /\ Room' /\ Timely' /\ OnlyDaemonIsNamed' /\ Behind'
<1>1. /\ pc[c] \in {"test", "find"}
      /\ \/ ~Running /\ pc'[c] \in {"find", "fork"} /\ verb'[c] = verb[c]
         \/ pc'[c] = "idle" /\ verb'[c] = "none"
      /\ \A d \in Caller \ {c} : pc'[d] = pc[d] /\ verb'[d] = verb[d]
      /\ UNCHANGED << clock, proc, pidfile, wake, wsd_instance, msg_no, last, untimely >>
  <2>1. pc[c] \in {"test", "find"}
    BY DEF Test, Find
  <2>2. UNCHANGED << clock, proc, pidfile, wake, wsd_instance, msg_no, last, untimely >>
    BY DEF Test, Find, statics
  <2>3. CASE Running
    <3>1. pc' = [pc EXCEPT ![c] = "idle"] /\ verb' = [verb EXCEPT ![c] = "none"]
      BY <2>3 DEF Test, Find, Return
    <3> QED  BY <2>1, <2>2, <3>1, ScriptFacts
  <2>4. CASE ~Running
    <3>1. verb' = verb /\ (\/ pc' = [pc EXCEPT ![c] = "find"]
                           \/ pc' = [pc EXCEPT ![c] = "fork"])
      BY <2>4 DEF Test, Find, Goto
    <3> QED  BY <2>1, <2>2, <2>4, <3>1 DEF IInv, TypeOK
  <2> QED  BY <2>3, <2>4
<1>2. ASSUME ~untimely, ~Running, NEW p \in Pid
      PROVE  proc[p] \notin Daemon
  <2>1. ~(p = pidfile /\ proc[p] \in Daemon)
    BY <1>2, InitWsdd2Assumption DEF Running, Daemon
  <2> QED  BY <1>2, <2>1 DEF IInv, OnlyDaemonIsNamed
<1>3. VerbShape' /\ Room'
  BY <1>1 DEF IInv, VerbShape, Room
<1>4. Timely'
  BY <1>1, <1>2 DEF IInv, Timely, Cleared
<1>5. OnlyDaemonIsNamed'
  BY <1>1 DEF IInv, OnlyDaemonIsNamed
<1>6. Behind'
  BY <1>1 DEF IInv, Behind
<1> QED  BY <1>3, <1>4, <1>5, <1>6

LEMMA ForkKeeps ==
    ASSUME IInv, NEW c \in Caller, Fork(c)
    PROVE  VerbShape' /\ Room' /\ Timely' /\ OnlyDaemonIsNamed' /\ Behind'
<1> USE InitWsdd2Assumption
<1>1. /\ pc[c] = "fork" /\ pc'[c] = "idle" /\ verb'[c] = "none"
      /\ \A d \in Caller \ {c} : pc'[d] = pc[d] /\ verb'[d] = verb[d]
      /\ UNCHANGED << clock, wake, wsd_instance, msg_no, untimely >>
      /\ last' = IF verb[c] = "start" /\ clock <= last.inst THEN Nothing ELSE last
  BY ScriptFacts DEF Fork, Return, statics
<1>2. VerbShape' /\ Room'
  BY <1>1 DEF IInv, VerbShape, Room
<1>3. CASE proc' = proc /\ pidfile' = pidfile
  <2>1. Timely'
    BY <1>1, <1>3 DEF IInv, Timely, Cleared
  <2>2. OnlyDaemonIsNamed'
    BY <1>1, <1>3 DEF IInv, OnlyDaemonIsNamed
  <2>3. Behind'
    <3>1. ~untimely => /\ \A q \in Pid : proc[q] \notin Daemon
                       /\ \A d \in Caller : pc'[d] = "idle"
      BY <1>1 DEF IInv, Timely, Cleared
    <3>2. ~untimely => last'.inst <= clock
      BY <1>1 DEF IInv, TypeOK, Behind, Nothing
    <3> QED  BY <1>1, <1>3, <3>1, <3>2 DEF Behind
  <2> QED  BY <1>2, <2>1, <2>2, <2>3
<1>4. ASSUME NEW p \in Pid, proc[p] = "free", proc' = [proc EXCEPT ![p] = "sh"], pidfile' = p
      PROVE  Timely' /\ OnlyDaemonIsNamed' /\ Behind'
  <2>1. /\ proc'[p] = "sh" /\ wsd_instance[p] = 0
        /\ \A q \in Pid \ {p} : proc'[q] = proc[q]
    BY <1>4 DEF IInv, TypeOK
  <2>2. ~untimely' =>
           /\ \A q \in Pid : proc[q] \notin Daemon
           /\ \A d \in Caller : pc'[d] = "idle"
    BY <1>1 DEF IInv, Timely, Cleared
  <2>3. Timely'
    BY <2>2 DEF Timely, Cleared
  <2>4. OnlyDaemonIsNamed'
    BY <1>4, <2>1, <2>2 DEF OnlyDaemonIsNamed
  <2>5. ~untimely => last'.inst < clock
    <3>1. last.inst \in Nat /\ clock \in Nat /\ clock > 0
      BY DEF IInv, TypeOK
    <3>2. verb[c] \in {"start", "restart"}
      BY <1>1 DEF IInv, VerbShape
    <3>3. CASE verb[c] = "start" /\ clock <= last.inst
      BY <1>1, <3>1, <3>3 DEF Nothing
    <3>4. CASE ~(verb[c] = "start" /\ clock <= last.inst)
      BY <1>1, <3>1, <3>2, <3>4 DEF IInv, Behind
    <3> QED  BY <3>3, <3>4
  <2>6. Behind'
    <3>1. last'.inst \in Int /\ clock \in Int
      BY <1>1 DEF IInv, TypeOK, Nothing
    <3> QED  BY <1>1, <2>1, <2>2, <2>5, <3>1 DEF Behind, Daemon
  <2> QED  BY <2>3, <2>4, <2>6
<1> QED  BY <1>2, <1>3, <1>4 DEF Fork

\* stop: either the daemon gets the signal, or there is none of that name.
LEMMA StopKeeps ==
    ASSUME IInv, NEW c \in Caller, Stop(c)
    PROVE  VerbShape' /\ Room' /\ Timely' /\ OnlyDaemonIsNamed' /\ Behind'
<1> USE InitWsdd2Assumption
<1>1. /\ pc[c] = "stop" /\ pc'[c] \in {"wait", "remove"}
      /\ \A d \in Caller \ {c} : pc'[d] = pc[d]
      /\ UNCHANGED << clock, pidfile, wake, wsd_instance, msg_no, last, verb >>
      /\ untimely => untimely'
  BY DEF Stop, Goto, statics, IInv, TypeOK
<1>2. VerbShape' /\ Room'
  BY <1>1 DEF IInv, VerbShape, Room
<1>3. CASE Found
  <2>1. pc'[c] = "wait"
    BY <1>3 DEF Stop, Goto, IInv, TypeOK
  <2>2. \A p \in Pid : /\ proc'[p] \in Daemon => proc[p] \in Daemon
                       /\ p = pidfile => proc'[p] # "sh"
    <3>1. PICK k \in {"ending", proc[pidfile]} : proc' = [proc EXCEPT ![pidfile] = k]
      BY <1>3 DEF Stop
    <3>2. pidfile \in Pid /\ proc[pidfile] \in {"wsdd2", "ending"}
      BY <1>3 DEF Found, IInv, TypeOK
    <3> QED  BY <3>1, <3>2 DEF Daemon, IInv, TypeOK
  <2>3. OnlyDaemonIsNamed'
    BY <1>1, <2>2 DEF IInv, OnlyDaemonIsNamed, Daemon
  <2>4. Timely'
    <3>1. ASSUME ~untimely, NEW p \in Pid  PROVE proc'[p] # "sh"
      <4>1. proc[p] \in Daemon => pidfile = p
        BY <3>1 DEF IInv, OnlyDaemonIsNamed
      <4>2. "sh" \in Daemon
        BY DEF Daemon
      <4> QED  BY <2>2, <4>1, <4>2
    <3> QED  BY <1>1, <2>1, <2>2, <3>1 DEF IInv, Timely, Cleared
  <2>5. Behind'
    <3>1. ~untimely' => ~untimely
      BY <1>1
    <3> QED  BY <1>1, <2>1, <2>2, <3>1 DEF IInv, Behind, Daemon
  <2> QED  BY <1>2, <2>3, <2>4, <2>5
<1>4. CASE ~Found
  <2>1. pc'[c] = "remove" /\ proc' = proc
    BY <1>4 DEF Stop, Goto, IInv, TypeOK
  <2>2. ASSUME ~untimely', NEW p \in Pid  PROVE proc[p] \notin Daemon
    <3>1. ~(pidfile # NoPid /\ proc[pidfile] = "sh")
      BY <1>4, <2>2 DEF Stop
    <3>2. ~(p = pidfile /\ proc[p] \in Daemon)
      BY <1>4, <3>1 DEF Found, Daemon
    <3> QED  BY <1>1, <2>2, <3>2 DEF IInv, OnlyDaemonIsNamed
  <2>3. OnlyDaemonIsNamed'
    BY <1>1, <2>1 DEF IInv, OnlyDaemonIsNamed
  <2>4. Timely'
    BY <1>1, <2>1, <2>2 DEF IInv, Timely, Cleared
  <2>5. Behind'
    <3>1. ~untimely' => ~untimely
      BY <1>1
    <3> QED  BY <1>1, <2>1, <3>1 DEF IInv, Behind
  <2> QED  BY <1>2, <2>3, <2>4, <2>5
<1> QED  BY <1>3, <1>4

\* wait: a stop goes on when the daemon has ended, or has been killed.
LEMMA WaitKillKeeps ==
    ASSUME IInv, NEW c \in Caller, Wait(c) \/ Kill(c)
    PROVE  VerbShape' /\ Room' /\ Timely' /\ OnlyDaemonIsNamed' /\ Behind'
<1> USE InitWsdd2Assumption
<1>1. /\ pc[c] = "wait" /\ pc'[c] = "remove"
      /\ \A d \in Caller \ {c} : pc'[d] = pc[d]
      /\ UNCHANGED << clock, pidfile, wake, last, untimely, verb >>
  BY DEF Wait, Kill, Goto, statics, IInv, TypeOK
<1>2. \A p \in Pid : \/ proc'[p] = "free" /\ p = pidfile
                     \/ /\ proc'[p] = proc[p] /\ wsd_instance'[p] = wsd_instance[p]
                        /\ msg_no'[p] = msg_no[p]
                        /\ p = pidfile => proc[p] \notin {"wsdd2", "ending"}
  <2>1. CASE Wait(c)
    BY <2>1 DEF Wait, Found, statics
  <2>2. CASE Kill(c)
    BY <2>2 DEF Kill, Found, Gone, IInv, TypeOK
  <2> QED  BY <2>1, <2>2
<1>3. ASSUME ~untimely, NEW p \in Pid  PROVE proc'[p] \notin Daemon
  <2>1. proc[p] # "sh" /\ (proc[p] \in Daemon => pidfile = p)
    BY <1>1, <1>3 DEF IInv, Timely, OnlyDaemonIsNamed
  <2> QED  BY <1>2, <2>1 DEF Daemon
<1>4. VerbShape' /\ Room'
  BY <1>1 DEF IInv, VerbShape, Room
<1>5. OnlyDaemonIsNamed'
  BY <1>1, <1>3 DEF OnlyDaemonIsNamed
<1>6. Timely'
  BY <1>1, <1>3 DEF IInv, Timely, Cleared
<1>7. Behind'
  <2>1. ~untimely' => \A p \in Pid : proc'[p] \notin Daemon
    BY <1>1, <1>3
  <2> QED  BY <1>1, <2>1 DEF IInv, Behind
<1> QED  BY <1>4, <1>5, <1>6, <1>7

\* remove: the pidfile may go, for there is no daemon; a restart sleeps into a later second.
LEMMA RemoveKeeps ==
    ASSUME IInv, NEW c \in Caller, Remove(c)
    PROVE  VerbShape' /\ Room' /\ Timely' /\ OnlyDaemonIsNamed' /\ Behind'
<1> USE InitWsdd2Assumption
<1>1. /\ pc[c] = "remove"
      /\ \A d \in Caller \ {c} : pc'[d] = pc[d] /\ verb'[d] = verb[d] /\ wake'[d] = wake[d]
      /\ \/ pc'[c] = "idle"
         \/ pc'[c] = "sleep" /\ verb'[c] = "restart" /\ wake'[c] = clock + 1
      /\ UNCHANGED << clock, proc, wsd_instance, msg_no, last, untimely >>
  BY DEF Remove, Goto, Return, statics, IInv, TypeOK
<1>2. ~untimely => \A p \in Pid : proc[p] \notin Daemon
  BY <1>1 DEF IInv, Timely, Cleared
<1>3. VerbShape' /\ Room'
  BY <1>1 DEF IInv, VerbShape, Room
<1>4. Timely'
  BY <1>1, <1>2 DEF IInv, Timely, Cleared
<1>5. OnlyDaemonIsNamed'
  BY <1>1, <1>2 DEF OnlyDaemonIsNamed
<1>6. Behind'
  <2>1. last.inst \in Nat /\ clock \in Nat
    BY DEF IInv, TypeOK
  <2>2. ~untimely => last.inst <= clock /\ last.inst < clock + 1
    BY <2>1 DEF IInv, Behind
  <2> QED  BY <1>1, <2>2 DEF IInv, Behind
<1> QED  BY <1>3, <1>4, <1>5, <1>6

\* wake: the sleep of a restart is over, and so is the second of the last message.
LEMMA WakeKeeps ==
    ASSUME IInv, NEW c \in Caller, Wake(c)
    PROVE  VerbShape' /\ Room' /\ Timely' /\ OnlyDaemonIsNamed' /\ Behind'
<1>1. /\ pc[c] = "sleep" /\ pc'[c] = "test" /\ clock >= wake[c]
      /\ \A d \in Caller \ {c} : pc'[d] = pc[d] /\ wake'[d] = wake[d]
      /\ UNCHANGED << clock, proc, pidfile, wsd_instance, msg_no, last, untimely, verb >>
  BY DEF Wake, Goto, statics, IInv, TypeOK
<1>2. verb[c] = "restart"
  BY <1>1 DEF IInv, VerbShape
<1>3. VerbShape' /\ Room'
  BY <1>1, <1>2 DEF IInv, VerbShape, Room
<1>4. Timely'
  BY <1>1, <1>2 DEF IInv, Timely, Cleared
<1>5. OnlyDaemonIsNamed'
  BY <1>1 DEF IInv, OnlyDaemonIsNamed
<1>6. Behind'
  <2>1. last.inst \in Int /\ clock \in Int /\ wake[c] \in Int
    BY InitWsdd2Assumption DEF IInv, TypeOK
  <2>2. ~untimely => last.inst < clock
    BY <1>1, <2>1 DEF IInv, Behind
  <2> QED  BY <1>1, <2>2 DEF IInv, Behind
<1> QED  BY <1>3, <1>4, <1>5, <1>6

-----------------------------------------------------------------------------
(* The processes.                                                          *)

LEMMA ExecKeeps ==
    ASSUME IInv, NEW p \in Pid, Exec(p)
    PROVE  VerbShape' /\ Room' /\ Timely' /\ OnlyDaemonIsNamed' /\ Behind'
<1>1. /\ proc[p] = "sh" /\ proc'[p] = "wsdd2"
      /\ \A q \in Pid \ {p} : proc'[q] = proc[q]
      /\ UNCHANGED << clock, pidfile, wake, pc, verb, wsd_instance, msg_no, last, untimely >>
  BY DEF Exec, statics, script, IInv, TypeOK
<1>2. VerbShape' /\ Room'
  BY <1>1 DEF IInv, VerbShape, Room
<1>3. Timely'
  BY <1>1 DEF IInv, Timely, Cleared, Daemon
<1>4. OnlyDaemonIsNamed'
  BY <1>1 DEF IInv, OnlyDaemonIsNamed, Daemon
<1>5. Behind'
  BY <1>1 DEF IInv, Behind, Daemon
<1> QED  BY <1>2, <1>3, <1>4, <1>5

LEMMA TakeInstanceKeeps ==
    ASSUME IInv, NEW p \in Pid, TakeInstance(p)
    PROVE  VerbShape' /\ Room' /\ Timely' /\ OnlyDaemonIsNamed' /\ Behind'
<1>1. /\ proc[p] = "wsdd2" /\ wsd_instance[p] = 0 /\ wsd_instance'[p] = clock
      /\ \A q \in Pid \ {p} : wsd_instance'[q] = wsd_instance[q]
      /\ UNCHANGED << clock, proc, pidfile, wake, pc, verb, msg_no, last, untimely >>
  BY DEF TakeInstance, script, IInv, TypeOK
<1>2. VerbShape' /\ Room'
  BY <1>1 DEF IInv, VerbShape, Room
<1>3. Timely'
  BY <1>1 DEF IInv, Timely, Cleared
<1>4. OnlyDaemonIsNamed'
  BY <1>1 DEF IInv, OnlyDaemonIsNamed
<1>5. Behind'
  <2>1. clock \in Nat /\ clock # 0
    BY DEF IInv, TypeOK
  <2> QED  BY <1>1, <2>1 DEF IInv, Behind, Daemon
<1> QED  BY <1>2, <1>3, <1>4, <1>5

\* Nothing that is numbered now is behind what a client goes by.
Ordered ==
    \A p \in Pid :
        ~untimely /\ wsd_instance[p] # 0 /\ msg_no'[p] > msg_no[p] =>
            Later([inst |-> wsd_instance[p], no |-> msg_no'[p]], last)

\* What a message leaves behind, and that it comes after the one before.
LEMMA SayKeeps ==
    ASSUME IInv, NEW p \in Pid, Say(p)
    PROVE  VerbShape' /\ Room' /\ Timely' /\ OnlyDaemonIsNamed' /\ Behind' /\ Ordered
<1>1. /\ proc[p] \in Daemon
      /\ UNCHANGED << clock, proc, pidfile, wake, pc, verb, wsd_instance, untimely >>
  BY DEF Say, script, Daemon
<1>2. /\ msg_no'[p] = msg_no[p] + 1
      /\ \A q \in Pid \ {p} : msg_no'[q] = msg_no[q]
  BY DEF Say, IInv, TypeOK
<1>3. \/ last' = last
      \/ /\ wsd_instance[p] # 0
         /\ last'.inst = wsd_instance[p] /\ last'.no = msg_no[p] + 1
  BY DEF Say
<1>4. VerbShape' /\ Room'
  BY <1>1 DEF IInv, VerbShape, Room
<1>5. Timely'
  BY <1>1 DEF IInv, Timely, Cleared
<1>6. OnlyDaemonIsNamed'
  BY <1>1 DEF IInv, OnlyDaemonIsNamed
<1>7. /\ last.inst \in Int /\ last.no \in Int /\ clock \in Int
      /\ \A q \in Pid : wsd_instance[q] \in Int /\ msg_no[q] \in Int
  BY InitWsdd2Assumption DEF IInv, TypeOK
<1>8. ~untimely =>
          /\ last.inst <= clock
          /\ IF wsd_instance[p] = 0 THEN last.inst < clock
             ELSE /\ wsd_instance[p] <= clock
                  /\ \/ last.inst < wsd_instance[p]
                     \/ last.inst = wsd_instance[p] /\ last.no <= msg_no[p]
  BY <1>1 DEF IInv, Behind
<1>9. Behind'
  <2>1. ~untimely => /\ \A q \in Pid \ {p} : proc[q] \notin Daemon
                     /\ \A c \in Caller : ~Cleared(c)
    BY <1>1 DEF IInv, Timely, OnlyDaemonIsNamed
  <2>2. ~untimely => \A c \in Caller :
           /\ pc[c] # "sleep"
           /\ ~(pc[c] \in {"test", "find", "fork"} /\ verb[c] = "restart")
    BY <2>1 DEF Cleared
  <2>3. ~untimely =>
            /\ last'.inst <= clock
            /\ IF wsd_instance[p] = 0 THEN last'.inst < clock
               ELSE /\ wsd_instance[p] <= clock
                    /\ \/ last'.inst < wsd_instance[p]
                       \/ last'.inst = wsd_instance[p] /\ last'.no <= msg_no'[p]
    BY <1>2, <1>3, <1>7, <1>8
  <2> QED  BY <1>1, <2>1, <2>2, <2>3 DEF Behind
<1>10. Ordered
  <2> SUFFICES ASSUME NEW q \in Pid, ~untimely, wsd_instance[q] # 0, msg_no'[q] > msg_no[q]
               PROVE  Later([inst |-> wsd_instance[q], no |-> msg_no'[q]], last)
    BY DEF Ordered
  <2>1. q = p
    BY <1>2, <1>7
  <2> QED  BY <1>2, <1>7, <1>8, <2>1 DEF Later
<1> QED  BY <1>4, <1>5, <1>6, <1>9, <1>10

\* A process that is no daemon, or ceases to be one, is in nobody's way.
LEMMA ExitOtherKeeps ==
    ASSUME IInv, NEW p \in Pid, Exit(p) \/ Other(p)
    PROVE  VerbShape' /\ Room' /\ Timely' /\ OnlyDaemonIsNamed' /\ Behind'
<1>1. /\ proc'[p] \in {"free", "other"}
      /\ \A q \in Pid \ {p} : /\ proc'[q] = proc[q] /\ wsd_instance'[q] = wsd_instance[q]
                              /\ msg_no'[q] = msg_no[q]
      /\ UNCHANGED << clock, pidfile, wake, pc, verb, last, untimely >>
  <2>1. CASE Exit(p)
    BY <2>1 DEF Exit, Gone, script, IInv, TypeOK
  <2>2. CASE Other(p)
    BY <2>2 DEF Other, statics, script, IInv, TypeOK
  <2> QED  BY <2>1, <2>2
<1>2. \A q \in Pid : proc'[q] \in Daemon => proc[q] \in Daemon /\ q # p
  BY <1>1 DEF Daemon
<1>3. VerbShape' /\ Room'
  BY <1>1 DEF IInv, VerbShape, Room
<1>4. Timely'
  <2>1. \A q \in Pid : proc'[q] = "sh" => proc[q] = "sh"
    BY <1>1
  <2> QED  BY <1>1, <1>2, <2>1 DEF IInv, Timely, Cleared
<1>5. OnlyDaemonIsNamed'
  BY <1>1, <1>2 DEF IInv, OnlyDaemonIsNamed
<1>6. Behind'
  BY <1>1, <1>2 DEF IInv, Behind
<1> QED  BY <1>3, <1>4, <1>5, <1>6

-----------------------------------------------------------------------------
(* The box.                                                                *)

LEMMA TickKeeps ==
    ASSUME IInv, Tick
    PROVE  VerbShape' /\ Room' /\ Timely' /\ OnlyDaemonIsNamed' /\ Behind'
<1>1. /\ clock' = clock + 1 /\ clock \in Nat /\ MaxTime \in Nat /\ clock < MaxTime
      /\ UNCHANGED << proc, pidfile, wake, pc, verb, wsd_instance, msg_no, last, untimely >>
  BY InitWsdd2Assumption DEF Tick, script, statics, IInv, TypeOK
<1>2. VerbShape' /\ Room'
  BY <1>1 DEF IInv, VerbShape, Room, Tick
<1>3. Timely'
  BY <1>1 DEF IInv, Timely, Cleared
<1>4. OnlyDaemonIsNamed'
  BY <1>1 DEF IInv, OnlyDaemonIsNamed
<1>5. Behind'
  <2>1. last.inst \in Int /\ \A p \in Pid : wsd_instance[p] \in Int
    BY InitWsdd2Assumption DEF IInv, TypeOK
  <2> QED  BY <1>1, <2>1 DEF IInv, Behind
<1> QED  BY <1>2, <1>3, <1>4, <1>5

LEMMA RebootKeeps ==
    ASSUME IInv, Reboot
    PROVE  VerbShape' /\ Room' /\ Timely' /\ OnlyDaemonIsNamed' /\ Behind'
<1>1. /\ \A c \in Caller : pc'[c] = "idle" /\ verb'[c] = "none"
      /\ \A p \in Pid : proc'[p] = "free"
      /\ last'.inst <= clock'
  BY InitWsdd2Assumption DEF Reboot, IInv, TypeOK, Nothing
<1> QED  BY <1>1
         DEF VerbShape, Room, Timely, Cleared, OnlyDaemonIsNamed, Behind, Daemon

-----------------------------------------------------------------------------
(* The theorems.                                                           *)

\* Only a message is given a number.
LEMMA QuietIsOrdered ==
    ASSUME IInv, \A p \in Pid : msg_no'[p] = msg_no[p] \/ msg_no'[p] = 0
    PROVE  Ordered
<1>1. \A p \in Pid : msg_no[p] \in Nat
  BY InitWsdd2Assumption DEF IInv, TypeOK
<1> QED  BY <1>1 DEF Ordered

LEMMA NextKeeps ==
    ASSUME IInv, Next
    PROVE  IInv' /\ Ordered
<1>1. ASSUME NEW c \in Caller, Step(c) \/ \E v \in {"start", "stop", "restart"} : Invoke(c, v)
      PROVE  IInv' /\ Ordered
  <2>1. \A p \in Pid : msg_no'[p] = msg_no[p] \/ msg_no'[p] = 0
    BY <1>1 DEF Step, Invoke, Test, Find, Fork, Stop, Wait, Kill, Gone, Remove, Wake,
                statics, IInv, TypeOK
  <2>2. VerbShape' /\ Room' /\ Timely' /\ OnlyDaemonIsNamed' /\ Behind'
    BY <1>1, InvokeKeeps, TestFindKeeps, ForkKeeps, StopKeeps, WaitKillKeeps,
       RemoveKeeps, WakeKeeps DEF Step
  <2> QED  BY <1>1, <2>1, <2>2, ScriptTypes, QuietIsOrdered DEF IInv
<1>2. ASSUME NEW p \in Pid, Runs(p) \/ Other(p)
      PROVE  IInv' /\ Ordered
  <2>1. Say(p) \/ \A q \in Pid : msg_no'[q] = msg_no[q] \/ msg_no'[q] = 0
    BY <1>2 DEF Runs, Exec, TakeInstance, Exit, Gone, Other, statics, IInv, TypeOK
  <2>2. Ordered
    BY <2>1, SayKeeps, QuietIsOrdered
  <2>3. VerbShape' /\ Room' /\ Timely' /\ OnlyDaemonIsNamed' /\ Behind'
    BY <1>2, ExecKeeps, TakeInstanceKeeps, SayKeeps, ExitOtherKeeps DEF Runs
  <2> QED  BY <1>2, <2>2, <2>3, BoxTypes DEF IInv
<1>3. CASE Tick
  <2>1. \A p \in Pid : msg_no'[p] = msg_no[p]
    BY <1>3 DEF Tick, statics
  <2> QED  BY <1>3, <2>1, TickKeeps, BoxTypes, QuietIsOrdered DEF IInv
<1>4. CASE Reboot
  <2>1. \A p \in Pid : msg_no'[p] = 0
    BY <1>4 DEF Reboot
  <2> QED  BY <1>4, <2>1, RebootKeeps, BoxTypes, QuietIsOrdered DEF IInv
<1> QED  BY <1>1, <1>2, <1>3, <1>4 DEF Next

LEMMA StutterKeeps ==
    ASSUME IInv, UNCHANGED vars
    PROVE  IInv'
<1>1. UNCHANGED << clock, proc, pidfile, wake, pc, verb, wsd_instance, msg_no, last, untimely >>
  BY DEF vars, script, statics
<1> QED  BY <1>1 DEF IInv, TypeOK, VerbShape, Room, Timely, Cleared, OnlyDaemonIsNamed, Behind

LEMMA Invariance == Spec => []IInv
<1>1. IInv /\ [Next]_vars => IInv'
  BY NextKeeps, StutterKeeps
<1> QED  BY InitHolds, <1>1, PTL DEF Spec

\* The script, the processes and what they keep stay within their types, whatever
\* callers and other programs do.
THEOREM TypeCorrect == Spec => []TypeOK
<1>1. IInv => TypeOK
  BY DEF IInv
<1> QED  BY Invariance, <1>1, PTL

\* While the script is not run twice at a time and no stop overtakes a child, PIDFILE
\* names the only daemon: start(), stop() and the case "restart" of the script.
THEOREM DaemonIsNamed == Spec => []OnlyDaemonIsNamed
<1>1. IInv => OnlyDaemonIsNamed
  BY DEF IInv
<1> QED  BY Invariance, <1>1, PTL

\* The InstanceId and MessageNumber on the wire only grow, over crashes and restarts:
\* wsd_init()'s time() and the script's "sleep 1".
THEOREM ClientsSeeOrder == Spec => MessagesInOrder
<1>1. IInv /\ [Next]_vars => [Ordered]_vars
  BY NextKeeps
<1> QED  BY Invariance, <1>1, PTL DEF Spec, MessagesInOrder, Ordered
=============================================================================
