------------------------ MODULE RootfsBuild_proofs -------------------------
(***************************************************************************)
(* For every set of nodes and every bound on strays: the device nodes go   *)
(* to the tree, a script that was not broken off leaves nothing mounted,   *)
(* and stage 2 bakes all it should, which stage 3 keeps.                   *)
(***************************************************************************)
EXTENDS RootfsBuild, TLAPS

-----------------------------------------------------------------------------
(* Where the scripts are.                                                  *)

\* The script has not come past its first mount.
Early == (stage = 2 /\ at <= 5) \/ (stage = 3 /\ at <= 1)

\* What is written into the mount state while no script has left a mount:
\* nothing until the script has mounted something, and never more than it
\* has passed.
StackShape ==
    /\ mine => stage \in {2, 3}
    /\ trap => stage \in {2, 3}
    /\ Early => ~mine
    /\ strays = 0 =>
        /\ ~mine => proc = 0 /\ sys = 0 /\ dev = << 0 >>
        /\ proc \in {0, 1} /\ sys \in {0, 1}
        /\ dev \in {<< 0 >>, << 1 >>, << 0, 0 >>, << 1, 0 >>}
        /\ Now("sys") \/ Now("dev") => dev = << 0 >>
        /\ Now("pts") => dev \in {<< 0 >>, << 0, 0 >>}

\* The position of the running script.
PosShape == /\ stage \in 0 .. 4
            /\ stage # 0 => at \in DOMAIN Script[stage]
            /\ strays \in Nat

\* While dev-nodes.sh runs, the tree's own /dev is the uppermost.
GuardShape == /\ hostdev # "grown"
              /\ Now("mknod") => ~DevMounted

StackInv == PosShape /\ StackShape
GuardInv == PosShape /\ GuardShape

\* Each command has its own place in its script.
LEMMA Places ==
    ASSUME PosShape, stage # 0
    PROVE  /\ stage = 1 => at \in 1 .. 4
           /\ stage = 2 => at \in 1 .. 18
           /\ stage = 3 => at \in 1 .. 11
           /\ stage = 4 => at \in 1 .. 6
           /\ Script[stage][at] # "end" => at + 1 \in DOMAIN Script[stage]
  <1>1. CASE stage = 1 BY <1>1 DEF PosShape, Script
  <1>2. CASE stage = 2 BY <1>2 DEF PosShape, Script
  <1>3. CASE stage = 3 BY <1>3 DEF PosShape, Script
  <1>4. CASE stage = 4 BY <1>4 DEF PosShape, Script
  <1> QED BY <1>1, <1>2, <1>3, <1>4 DEF PosShape

\* What a step does to the script and the mounts.
LEMMA Kinds ==
    ASSUME [Next]_vars
    PROVE  \/ \E k \in Stage : Start(k)
           \/ \E r \in BOOLEAN, k \in {stage, done} : Exit(r, k)
           \/ stage # 0 /\ Script[stage][at] # "end" /\ Go
           \/ \E c \in {"proc", "sys", "dev", "pts"} : Mount(c)
           \/ SetTrap
           \/ \E c \in {"upts", "udev", "usys", "uproc"} : UmountLeft(c)
           \/ Reboot
           \/ UNCHANGED << stage, at, trap, mine, done, mounts, strays >>
  <1>1. CASE FetchKeyring BY <1>1 DEF FetchKeyring, Now
  <1>2. CASE RemoveTarget BY <1>2 DEF RemoveTarget, Now
  <1>3. CASE Debootstrap BY <1>3 DEF Debootstrap, Now
  <1>4. CASE SecondStage BY <1>4 DEF SecondStage, Now
  <1>5. CASE DevNodesGuard BY <1>5 DEF DevNodesGuard, Now
  <1>6. CASE DevNodesDone BY <1>6 DEF DevNodesDone, Now
  <1>7. CASE CopyKeyring BY <1>7 DEF CopyKeyring, Now
  <1>8. CASE \E n \in Node : Mknod(n) BY <1>8 DEF Mknod
  <1>9. CASE \E c \in Piece : Install(c) BY <1>9 DEF Install, Now, Piece
  <1>10. CASE Tar BY <1>10 DEF Tar, Now
  <1>11. CASE ExitZero BY <1>11 DEF ExitZero
  <1>12. CASE Tolerated BY <1>12 DEF Tolerated
  <1>13. CASE Aborted BY <1>13 DEF Aborted
  <1>14. CASE Killed BY <1>14 DEF Killed
  <1>15. CASE UNCHANGED vars BY <1>15 DEF vars
  <1> QED
    BY <1>1, <1>2, <1>3, <1>4, <1>5, <1>6, <1>7, <1>8, <1>9, <1>10, <1>11,
       <1>12, <1>13, <1>14, <1>15 DEF Next, Command

\* The position stays well formed.
LEMMA PosPreserved ==
    ASSUME PosShape, [Next]_vars
    PROVE  PosShape'
  <1>1. ASSUME stage # 0, Script[stage][at] # "end", Advance
        PROVE  /\ stage' \in 0 .. 4
               /\ stage' # 0 => at' \in DOMAIN Script[stage']
               /\ strays' \in Nat
    BY <1>1, Places DEF Advance, PosShape
  <1>2. CASE \E k \in Stage : Start(k)
    BY <1>2 DEF Start, PosShape, Stage, Script
  <1>3. CASE \E r \in BOOLEAN, k \in {stage, done} : Exit(r, k)
    BY <1>3 DEF Exit, PosShape
  <1>4. CASE stage # 0 /\ Script[stage][at] # "end" /\ Go
    BY <1>1, <1>4 DEF Go, PosShape
  <1>5. CASE \E c \in {"proc", "sys", "dev", "pts"} : Mount(c)
    BY <1>1, <1>5 DEF Mount, Now, PosShape
  <1>6. CASE SetTrap
    BY <1>1, <1>6 DEF SetTrap, Now, PosShape
  <1>7. CASE \E c \in {"upts", "udev", "usys", "uproc"} : UmountLeft(c)
    BY <1>1, <1>7 DEF UmountLeft, Now, PosShape
  <1>8. CASE Reboot
    BY <1>8 DEF Reboot, PosShape
  <1>9. CASE UNCHANGED << stage, at, trap, mine, done, mounts, strays >>
    BY <1>9 DEF PosShape
  <1> QED
    BY Kinds, <1>2, <1>3, <1>4, <1>5, <1>6, <1>7, <1>8, <1>9

-----------------------------------------------------------------------------
(* The mounts.                                                             *)

\* Where each command that mounts or unmounts stands.
LEMMA MountPlaces ==
    ASSUME PosShape, stage # 0
    PROVE  /\ Now("proc") => stage \in {2, 3} /\ Early
           /\ Now("sys") => stage \in {2, 3}
           /\ Now("dev") => stage \in {2, 3}
           /\ Now("pts") => stage \in {2, 3}
           /\ Now("trap") => stage \in {2, 3}
           /\ \A c \in {"upts", "udev", "usys", "uproc"} : Now(c) => stage = 4
  <1>1. CASE stage = 1 BY <1>1, Places DEF Now, Script, Early
  <1>2. CASE stage = 2 BY <1>2, Places DEF Now, Script, Early
  <1>3. CASE stage = 3 BY <1>3, Places DEF Now, Script, Early
  <1>4. CASE stage = 4 BY <1>4, Places DEF Now, Script, Early
  <1> QED BY <1>1, <1>2, <1>3, <1>4 DEF PosShape

\* What comes before each of the mounts.
LEMMA Before ==
    ASSUME PosShape, stage # 0, Script[stage][at] # "end", Advance
    PROVE  /\ Early' => Early /\ ~\E c \in {"proc", "sys", "dev", "pts"} : Now(c)
           /\ Now("sys")' => Now("proc")
           /\ Now("dev")' => Now("sys")
           /\ Now("pts")' => Now("dev")
           /\ Now("mknod")' => Now("guard")
  <1>1. CASE stage = 1 BY <1>1, Places DEF Now, Script, Early, Advance
  <1>2. CASE stage = 2 BY <1>2, Places DEF Now, Script, Early, Advance
  <1>3. CASE stage = 3 BY <1>3, Places DEF Now, Script, Early, Advance
  <1>4. CASE stage = 4 BY <1>4, Places DEF Now, Script, Early, Advance
  <1> QED BY <1>1, <1>2, <1>3, <1>4 DEF PosShape

\* No script starts with a mount point below another in the list.
LEMMA FirstCommand ==
    ASSUME NEW k \in Stage, Start(k)
    PROVE  /\ ~Now("sys")' /\ ~Now("dev")' /\ ~Now("pts")' /\ ~Now("mknod")'
  BY DEF Start, Stage, Script, Now

\* umount on a stack that is at most one deep.
LEMMA Unstack ==
    ASSUME dev \in {<< 0 >>, << 1 >>, << 0, 0 >>, << 1, 0 >>}, TrapUmounts
    PROVE  dev' = << 0 >>
  <1>1. CASE dev = << 0 >>
    <2>1. UmountPts(dev) = << 0 >> BY <1>1 DEF UmountPts, Less
    <2> QED BY <2>1 DEF TrapUmounts, UmountDev
  <1>2. CASE dev = << 1 >>
    <2>1. UmountPts(dev) = << 0 >> BY <1>2 DEF UmountPts, Less
    <2> QED BY <2>1 DEF TrapUmounts, UmountDev
  <1>3. CASE dev = << 0, 0 >>
    <2>1. UmountPts(dev) = << 0, 0 >> BY <1>3 DEF UmountPts, Less
    <2> QED BY <2>1 DEF TrapUmounts, UmountDev
  <1>4. CASE dev = << 1, 0 >>
    <2>1. UmountPts(dev) = << 0, 0 >> BY <1>4 DEF UmountPts, Less
    <2> QED BY <2>1 DEF TrapUmounts, UmountDev
  <1> QED BY <1>1, <1>2, <1>3, <1>4

\* Every step keeps the shape of the mounts.
LEMMA StackPreserved ==
    ASSUME StackInv, [Next]_vars
    PROVE  StackInv'
  <1> USE DEF StackInv
  <1>0. PosShape' BY PosPreserved
  <1>1. ASSUME NEW k \in Stage, Start(k)
        PROVE  StackShape'
    <2>1. /\ ~Now("sys")' /\ ~Now("dev")' /\ ~Now("pts")'
      BY <1>1, FirstCommand
    <2>2. stage = 0 /\ ~mine /\ ~trap /\ ~mine' /\ ~trap'
      BY <1>1 DEF Start, StackShape
    <2> QED BY <1>1, <2>1, <2>2 DEF Start, StackShape, mounts
  <1>2. ASSUME NEW r \in BOOLEAN, NEW k \in {stage, done}, Exit(r, k)
        PROVE  StackShape'
    <2>1. stage' = 0 /\ ~mine' /\ ~trap' BY <1>2 DEF Exit
    <2>2. CASE strays' = 0
      <3>1. CASE r /\ trap
        <4>1. strays = 0 /\ TrapUmounts BY <1>2, <2>2, <3>1 DEF Exit
        <4>2. dev' = << 0 >> BY <4>1, Unstack DEF StackShape
        <4> QED BY <2>1, <4>1, <4>2 DEF StackShape, TrapUmounts, Less, Now
      <3>2. CASE ~(r /\ trap)
        <4>1. UNCHANGED mounts /\ strays = 0 /\ ~mine
          BY <1>2, <2>2, <3>2 DEF Exit, PosShape
        <4> QED BY <2>1, <4>1 DEF StackShape, mounts, Now
      <3> QED BY <3>1, <3>2
    <2> QED BY <2>1, <2>2 DEF StackShape
  <1>3. ASSUME stage # 0, Script[stage][at] # "end", Go
        PROVE  StackShape'
    <2>1. /\ Early' => Early /\ ~\E c \in {"proc", "sys", "dev", "pts"} : Now(c)
          /\ Now("sys")' => Now("proc")
          /\ Now("dev")' => Now("sys")
          /\ Now("pts")' => Now("dev")
      BY <1>3, Before DEF Go
    <2>2. Now("proc") => Early BY <1>3, MountPlaces
    <2> QED BY <1>3, <2>1, <2>2 DEF StackShape, Go, Advance, mounts
  <1>4. ASSUME NEW c \in {"proc", "sys", "dev", "pts"}, Mount(c)
        PROVE  StackShape'
    <2>1. stage \in {2, 3} /\ stage' = stage /\ Advance /\ strays' = strays
          /\ stage # 0 /\ Script[stage][at] # "end" /\ Script[stage][at] = c
      BY <1>4, MountPlaces DEF Mount, Now, Advance
    <2>2. /\ Early' => Early /\ ~\E d \in {"proc", "sys", "dev", "pts"} : Now(d)
          /\ Now("sys")' => Now("proc")
          /\ Now("dev")' => Now("sys")
          /\ Now("pts")' => Now("dev")
      BY <2>1, Before
    <2>3. trap' = trap /\ mine' BY <1>4 DEF Mount
    <2>4. CASE c = "proc"
      <3>1. Early BY <2>1, <2>4, MountPlaces DEF Now
      <3> QED BY <3>1, <1>4, <2>1, <2>2, <2>3, <2>4 DEF StackShape, Mount, Now
    <2>5. CASE c = "sys"
      BY <1>4, <2>1, <2>2, <2>3, <2>5 DEF StackShape, Mount, Now
    <2>6. CASE c = "dev"
      <3>1. dev = << 0 >> => dev' = << 0, 0 >> BY <1>4, <2>6 DEF Mount
      <3> QED BY <1>4, <2>1, <2>2, <2>3, <2>6, <3>1 DEF StackShape, Mount, Now
    <2>7. CASE c = "pts"
      <3>1. /\ dev = << 0 >> => dev' = << 1 >>
            /\ dev = << 0, 0 >> => dev' = << 1, 0 >>
        BY <1>4, <2>7 DEF Mount
      <3> QED BY <1>4, <2>1, <2>2, <2>3, <2>7, <3>1 DEF StackShape, Mount, Now
    <2> QED BY <2>4, <2>5, <2>6, <2>7
  <1>5. ASSUME SetTrap
        PROVE  StackShape'
    <2>1. /\ stage \in {2, 3} /\ stage' = stage /\ strays' = strays
          /\ Script[stage][at] = "trap" /\ Advance
      BY <1>5, MountPlaces DEF SetTrap, Now, Advance
    <2>2. /\ Early' => Early /\ ~\E d \in {"proc", "sys", "dev", "pts"} : Now(d)
          /\ Now("sys")' => Now("proc")
          /\ Now("dev")' => Now("sys")
          /\ Now("pts")' => Now("dev")
      BY <2>1, Before
    <2>3. ~Now("sys")' /\ ~Now("dev")' /\ ~Now("pts")'
      BY <2>1, <2>2 DEF Now
    <2>4. ~Early' \/ ~mine'
      BY <1>5, <2>1, <2>2 DEF StackShape, SetTrap
    <2> QED BY <1>5, <2>1, <2>3, <2>4 DEF StackShape, SetTrap, mounts
  <1>6. ASSUME NEW c \in {"upts", "udev", "usys", "uproc"}, UmountLeft(c)
        PROVE  StackShape'
    <2>1. /\ stage = 4 /\ stage' = stage /\ strays' = strays /\ Advance
          /\ Script[stage][at] = c
      BY <1>6, MountPlaces DEF UmountLeft, Now, Advance
    <2>2. /\ ~Now("proc")' /\ ~Now("sys")' /\ ~Now("dev")' /\ ~Now("pts")'
      BY <2>1, Places DEF Now, Script, Advance
    <2>3. ~mine /\ ~trap /\ mine' = mine /\ trap' = trap
      BY <1>6, <2>1 DEF StackShape, UmountLeft
    <2>4. CASE strays = 0
      <3>1. proc = 0 /\ sys = 0 /\ dev = << 0 >> BY <2>3, <2>4 DEF StackShape
      <3>2. UmountPts(dev) = << 0 >> /\ UmountDev(dev) = << 0 >>
        BY <3>1 DEF UmountPts, UmountDev, Less
      <3>3. proc' = 0 /\ sys' = 0 /\ dev' = << 0 >>
        BY <1>6, <3>1, <3>2 DEF UmountLeft, Less
      <3> QED BY <2>2, <2>3, <3>3 DEF StackShape
    <2> QED BY <2>1, <2>3, <2>4 DEF StackShape
  <1>7. ASSUME Reboot
        PROVE  StackShape'
    BY <1>7 DEF Reboot, StackShape, Now, Early
  <1>8. ASSUME UNCHANGED << stage, at, trap, mine, done, mounts, strays >>
        PROVE  StackShape'
    BY <1>8 DEF StackShape, Now, Early, mounts
  <1> QED
    BY Kinds, <1>0, <1>1, <1>2, <1>3, <1>4, <1>5, <1>6, <1>7, <1>8

\* A script that was not broken off between its first mount and its trap,
\* nor killed, leaves nothing of the host mounted (stage 2:46-51,
\* stage 3:14-19).
THEOREM NothingLeftMounted == Spec => []CleanUnlessStray
  <1>1. Init => StackInv
    <2> SUFFICES ASSUME Init PROVE StackInv OBVIOUS
    <2>1. ~mine /\ ~trap BY DEF Init
    <2> QED BY <2>1 DEF Init, StackInv, PosShape, StackShape, Now, Early
  <1>2. StackInv /\ [Next]_vars => StackInv'
    BY StackPreserved
  <1>3. StackInv => CleanUnlessStray
    <2> SUFFICES ASSUME StackInv, stage = 0, strays = 0 PROVE ~Mounted
      BY DEF CleanUnlessStray
    <2>1. proc = 0 /\ sys = 0 /\ dev = << 0 >> BY DEF StackInv, StackShape
    <2> QED BY <2>1 DEF Mounted, DevMounted
  <1> QED BY <1>1, <1>2, <1>3, PTL DEF Spec

-----------------------------------------------------------------------------
(* The device nodes.                                                       *)

\* Where the commands of the first two stages stand.
LEMMA BuildPlaces ==
    ASSUME PosShape, stage # 0
    PROVE  /\ Now("keyring") => stage = 1
           /\ Now("rm") => stage = 1
           /\ Now("debootstrap") => stage = 1
           /\ Now("second") => stage = 2 /\ at = 1
           /\ Now("guard") => stage = 2 /\ at = 2
           /\ Now("mknod") => stage = 2 /\ at = 3
           /\ Now("sources") => stage = 2 /\ at = 4
           /\ Now("tar") => stage = 4
           /\ stage = 1 /\ at = 3 => Now("debootstrap")
           /\ stage = 2 /\ at = 3 => Now("mknod")
           /\ Now("end") /\ stage = 1 => at = 4
           /\ Now("end") /\ stage = 2 => at = 18
  <1>1. CASE stage = 1 BY <1>1, Places DEF Now, Script
  <1>2. CASE stage = 2 BY <1>2, Places DEF Now, Script
  <1>3. CASE stage = 3 BY <1>3, Places DEF Now, Script
  <1>4. CASE stage = 4 BY <1>4, Places DEF Now, Script
  <1> QED BY <1>1, <1>2, <1>3, <1>4 DEF PosShape

\* Only the guard leads to the first mknod.
LEMMA GuardFirst ==
    ASSUME PosShape, stage # 0, ~Now("guard"), ~Now("end"), Advance
    PROVE  ~Now("mknod")'
  BY Before DEF Now

\* Every step keeps the nodes off the host.
LEMMA GuardPreserved ==
    ASSUME GuardInv, [Next]_vars
    PROVE  GuardInv'
  <1> USE DEF GuardInv
  <1>0. PosShape' BY PosPreserved
  <1> SUFFICES GuardShape' BY <1>0
  <1>1. ASSUME NEW k \in Stage, Start(k) PROVE GuardShape'
    BY <1>1, FirstCommand DEF Start, GuardShape, disk
  <1>2. CASE FetchKeyring
    BY <1>2, GuardFirst DEF FetchKeyring, GuardShape, Go, Exit, Now
  <1>3. CASE RemoveTarget
    BY <1>3, GuardFirst DEF RemoveTarget, GuardShape, Go, Exit, Now
  <1>4. CASE Debootstrap
    BY <1>4, GuardFirst DEF Debootstrap, GuardShape, Go, Now
  <1>5. CASE SecondStage
    BY <1>5, GuardFirst DEF SecondStage, GuardShape, Go, Now
  <1>6. CASE DevNodesGuard
    BY <1>6 DEF DevNodesGuard, GuardShape, Go, DevMounted, mounts, disk
  <1>7. CASE DevNodesDone
    BY <1>7, GuardFirst DEF DevNodesDone, GuardShape, Go, Now, disk
  <1>8. CASE CopyKeyring
    BY <1>8, GuardFirst DEF CopyKeyring, GuardShape, Go, Now, disk
  <1>9. ASSUME NEW n \in Node, Mknod(n) PROVE GuardShape'
    BY <1>9 DEF Mknod, GuardShape, Now, DevMounted, mounts
  <1>10. ASSUME NEW c \in {"proc", "sys", "dev", "pts"}, Mount(c)
         PROVE  GuardShape'
    BY <1>10, GuardFirst DEF Mount, GuardShape, Now, disk
  <1>11. CASE SetTrap
    BY <1>11, GuardFirst DEF SetTrap, GuardShape, Now, disk
  <1>12. ASSUME NEW c \in Piece, Install(c) PROVE GuardShape'
    <2>1. c # "guard" /\ c # "end" BY DEF Piece
    <2> QED BY <1>12, <2>1, GuardFirst DEF Install, GuardShape, Go, Now
  <1>13. ASSUME NEW c \in {"upts", "udev", "usys", "uproc"}, UmountLeft(c)
         PROVE  GuardShape'
    BY <1>13, GuardFirst DEF UmountLeft, GuardShape, Now, disk
  <1>14. CASE Tar
    BY <1>14, GuardFirst DEF Tar, GuardShape, Go, Now
  <1>15. CASE ExitZero \/ Aborted \/ Killed
    BY <1>15 DEF ExitZero, Aborted, Killed, Exit, GuardShape, Now, disk
  <1>16. CASE Tolerated
    <2>1. stage = 3 BY <1>16 DEF Tolerated, Errexit
    <2>2. ~Now("guard") /\ ~Now("end")
      BY <1>16, <2>1, BuildPlaces DEF Tolerated, Now
    <2> QED BY <1>16, <2>2, GuardFirst DEF Tolerated, GuardShape, Go, disk
  <1>17. CASE Reboot
    BY <1>17 DEF Reboot, GuardShape, Now
  <1>18. CASE UNCHANGED vars
    BY <1>18 DEF vars, disk, mounts, GuardShape, Now, DevMounted
  <1> QED
    BY <1>1, <1>2, <1>3, <1>4, <1>5, <1>6, <1>7, <1>8, <1>9, <1>10, <1>11,
       <1>12, <1>13, <1>14, <1>15, <1>16, <1>17, <1>18 DEF Next, Command

\* dev-nodes.sh never makes a node on the host, however often scripts were
\* broken off with the host's /dev mounted (dev-nodes.sh:31-34).
THEOREM NodesLandInTree == Spec => []NodesStayInTree
  <1>1. Init => GuardInv
    BY DEF Init, GuardInv, PosShape, GuardShape, Now
  <1>2. GuardInv /\ [Next]_vars => GuardInv'
    BY GuardPreserved
  <1>3. GuardInv => NodesStayInTree
    BY DEF GuardInv, GuardShape, NodesStayInTree
  <1> QED BY <1>1, <1>2, <1>3, PTL DEF Spec

-----------------------------------------------------------------------------
(* What stage 2 bakes.                                                     *)

\* What a run of stage 2 has put into the tree before its command number i.
BakedBefore(i) ==
    /\ i > 1 => "base" \in tree
    /\ i > 3 => nodes = Node
    /\ i > 10 => "userland" \in tree
    /\ i > 11 => "stub" \in tree
    /\ i > 12 => "hold" \in tree
    /\ i > 13 => "modules" \in tree
    /\ i > 14 => "overlay" \in tree
    /\ i > 15 => "config" \in tree
    /\ i > 16 => "machineid" \in tree
    /\ i > 17 => "passwd" \in tree

\* Stage by stage: what debootstrap has left, what stage 2 has done so far,
\* and that nothing is lost after it.
BakeShape ==
    /\ done \in 0 .. 4
    /\ stage # 0 => done = stage - 1
    /\ stage = 1 /\ at > 3 => "unpacked" \in tree
    /\ done = 1 => "unpacked" \in tree \/ "base" \in tree
    /\ stage = 2 => BakedBefore(at)
    /\ done >= 2 => Baked \subseteq tree /\ nodes = Node

BakeInv == GuardInv /\ BakeShape

\* Where the commands that install something stand.
LEMMA PiecePlaces ==
    ASSUME PosShape, stage # 0, NEW c \in Piece, Now(c)
    PROVE  /\ stage \in {2, 3}
           /\ stage = 2 => /\ at \in 10 .. 17
                           /\ at = 10 => c = "userland"
                           /\ at = 11 => c = "stub"
                           /\ at = 12 => c = "hold"
                           /\ at = 13 => c = "modules"
                           /\ at = 14 => c = "overlay"
                           /\ at = 15 => c = "config"
                           /\ at = 16 => c = "machineid"
                           /\ at = 17 => c = "passwd"
           /\ at > 10 /\ stage = 2 => c \notin {"userland", "samba", "wsdd2"}
  <1>1. CASE stage = 1 BY <1>1, Places DEF Now, Script, Piece
  <1>2. CASE stage = 2 BY <1>2, Places DEF Now, Script, Piece
  <1>3. CASE stage = 3 BY <1>3, Places DEF Now, Script, Piece
  <1>4. CASE stage = 4 BY <1>4, Places DEF Now, Script, Piece
  <1> QED BY <1>1, <1>2, <1>3, <1>4 DEF PosShape

\* A command that changes neither the tree nor its nodes keeps the shape,
\* unless it is debootstrap, the second stage, mknod or an installation.
LEMMA GoOnKeeps ==
    ASSUME BakeInv, stage # 0, Advance, UNCHANGED << tree, nodes >>,
           ~Now("debootstrap"), ~Now("second"), ~Now("mknod"), ~Now("end"),
           \A c \in Piece : ~Now(c) \/ stage = 3
    PROVE  BakeShape'
  <1> USE DEF BakeInv, GuardInv
  <1>1. CASE stage = 1
    <2>1. at # 3 BY <1>1, BuildPlaces
    <2> QED BY <1>1, <2>1, Places DEF BakeShape, Advance
  <1>2. CASE stage = 2
    <2>1. at \in 1 .. 18 /\ at # 1 /\ at # 3
      BY <1>2, Places, BuildPlaces DEF Now, Script
    <2>2. at \notin 10 .. 17
      BY <1>2, <2>1 DEF Now, Script, Piece
    <2> QED BY <1>2, <2>1, <2>2 DEF BakeShape, BakedBefore, Advance
  <1>3. CASE stage \in {3, 4}
    BY <1>3 DEF BakeShape, Advance
  <1> QED BY <1>1, <1>2, <1>3 DEF PosShape

\* The end of a script keeps what it has done and no more.
LEMMA ExitKeeps ==
    ASSUME BakeInv, NEW r, Exit(r, done), UNCHANGED << tree, nodes >>
    PROVE  BakeShape'
  BY DEF BakeInv, BakeShape, Exit

\* Every step keeps the bake in order.
LEMMA BakePreserved ==
    ASSUME BakeInv, [Next]_vars
    PROVE  BakeInv'
  <1> USE DEF BakeInv, GuardInv
  <1>0. GuardInv' BY GuardPreserved
  <1> SUFFICES BakeShape' BY <1>0
  <1>1. ASSUME NEW k \in Stage, Start(k) PROVE BakeShape'
    <2>1. /\ stage' = k /\ at' = 1 /\ done' = k - 1 /\ k \in 1 .. 4
          /\ k <= done + 1 /\ UNCHANGED << tree, nodes >>
      BY <1>1 DEF Start, Stage, disk
    <2>2. BakedBefore(at)' BY <2>1 DEF BakedBefore
    <2>3. done >= 2 \/ done' <= done BY <2>1 DEF BakeShape
    <2>4. CASE k = 1 BY <2>1, <2>4 DEF BakeShape
    <2>5. CASE k = 2
      <3>1. done >= 1 /\ done \in 0 .. 4 BY <2>1, <2>5 DEF BakeShape
      <3>2. "unpacked" \in tree \/ "base" \in tree
        BY <3>1 DEF BakeShape, Baked
      <3> QED BY <2>1, <2>2, <2>5, <3>2 DEF BakeShape
    <2>6. CASE k \in {3, 4} BY <2>1, <2>6 DEF BakeShape
    <2> QED BY <2>1, <2>4, <2>5, <2>6
  <1>2. CASE FetchKeyring
    <2>1. CASE Go
      BY <1>2, <2>1, GoOnKeeps, BuildPlaces DEF FetchKeyring, Go, Now, Piece
    <2>2. CASE Exit(TRUE, done)
      BY <1>2, <2>2, ExitKeeps DEF FetchKeyring
    <2> QED BY <1>2, <2>1, <2>2 DEF FetchKeyring
  <1>3. CASE RemoveTarget
    <2>1. stage = 1 /\ done = 0 /\ at \in 1 .. 4 /\ at # 3 /\ at # 4
      BY <1>3, BuildPlaces, Places DEF RemoveTarget, Now, BakeShape, Script
    <2>2. done' = 0 /\ (stage' = 0 \/ (stage' = 1 /\ at' \in 1 .. 3))
      BY <1>3, <2>1 DEF RemoveTarget, Go, Advance, Exit
    <2> QED BY <2>2 DEF BakeShape
  <1>4. CASE Debootstrap
    <2>1. stage = 1 /\ done = 0 BY <1>4, BuildPlaces DEF Debootstrap, Now, BakeShape
    <2> QED BY <1>4, <2>1 DEF Debootstrap, Go, Advance, BakeShape
  <1>5. CASE SecondStage
    <2>1. stage = 2 /\ at = 1 /\ done = 1
      BY <1>5, BuildPlaces DEF SecondStage, Now, BakeShape
    <2>2. "base" \in tree'
      BY <1>5, <2>1 DEF SecondStage, BakeShape
    <2>3. stage' = 2 /\ at' = 2 /\ done' = 1
      BY <1>5, <2>1 DEF SecondStage, Go, Advance
    <2>4. BakedBefore(at)' BY <2>2, <2>3 DEF BakedBefore
    <2> QED BY <2>2, <2>3, <2>4 DEF BakeShape
  <1>6. CASE DevNodesGuard
    BY <1>6, GoOnKeeps DEF DevNodesGuard, Go, Now, Piece, disk
  <1>7. CASE DevNodesDone
    <2>1. stage = 2 /\ at = 3 /\ done = 1 /\ nodes = Node
      BY <1>7, BuildPlaces DEF DevNodesDone, Now, BakeShape, GuardShape
    <2>2. stage' = 2 /\ at' = 4 /\ done' = 1 /\ UNCHANGED << tree, nodes >>
      BY <1>7, <2>1 DEF DevNodesDone, Go, Advance, disk
    <2>3. BakedBefore(at)' BY <2>1, <2>2 DEF BakedBefore, BakeShape
    <2>4. "base" \in tree BY <2>1 DEF BakeShape, BakedBefore
    <2> QED BY <2>2, <2>3, <2>4 DEF BakeShape
  <1>8. CASE CopyKeyring
    BY <1>8, GoOnKeeps DEF CopyKeyring, Go, Now, Piece, disk
  <1>9. ASSUME NEW n \in Node, Mknod(n) PROVE BakeShape'
    <2>1. stage = 2 /\ at = 3 /\ done = 1
      BY <1>9, BuildPlaces DEF Mknod, Now, BakeShape
    <2>2. UNCHANGED << stage, at, done, tree >> BY <1>9 DEF Mknod
    <2>3. BakedBefore(at)' BY <2>1, <2>2 DEF BakedBefore, BakeShape
    <2> QED BY <2>1, <2>2, <2>3 DEF BakeShape
  <1>10. ASSUME NEW c \in {"proc", "sys", "dev", "pts"}, Mount(c)
         PROVE  BakeShape'
    BY <1>10, GoOnKeeps DEF Mount, Now, Piece, disk
  <1>11. CASE SetTrap
    BY <1>11, GoOnKeeps DEF SetTrap, Now, Piece, disk
  <1>12. ASSUME NEW c \in Piece, Install(c) PROVE BakeShape'
    <2>1. stage # 0 /\ Now(c) BY <1>12 DEF Install, Now
    <2>2. PICK lost \in AptMayRestore(c) : tree' = (tree \ lost) \cup {c}
      BY <1>12 DEF Install
    <2>3. /\ stage' = stage /\ at' = at + 1 /\ done' = done
          /\ done = stage - 1 /\ nodes' = nodes
      BY <1>12, <2>1 DEF Install, Go, Advance, BakeShape
    <2>4. CASE stage = 2
      <3>1. /\ at \in 10 .. 17
            /\ at = 10 => c = "userland"
            /\ at = 11 => c = "stub"
            /\ at = 12 => c = "hold"
            /\ at = 13 => c = "modules"
            /\ at = 14 => c = "overlay"
            /\ at = 15 => c = "config"
            /\ at = 16 => c = "machineid"
            /\ at = 17 => c = "passwd"
            /\ at > 10 => c \notin {"userland", "samba", "wsdd2"}
        BY <2>1, <2>4, PiecePlaces
      <3>2. lost \subseteq {"stub"} /\ (at > 10 => lost = {})
        BY <3>1 DEF AptMayRestore
      <3>3. BakedBefore(at) BY <2>4 DEF BakeShape
      <3>4. \A p \in tree : p # "stub" \/ at > 10 => p \in tree'
        BY <2>2, <3>2
      <3>5. c \in tree' BY <2>2
      <3>6. BakedBefore(at)'
        BY <2>3, <3>1, <3>3, <3>4, <3>5 DEF BakedBefore
      <3>7. "base" \in tree' BY <3>1, <3>3, <3>4 DEF BakedBefore
      <3> QED BY <2>3, <2>4, <3>6, <3>7 DEF BakeShape
    <2>5. CASE stage = 3
      <3>1. Baked \subseteq tree /\ nodes = Node BY <2>3, <2>5 DEF BakeShape
      <3>2. lost = {} BY <3>1 DEF AptMayRestore, Baked
      <3> QED BY <2>2, <2>3, <2>5, <3>1, <3>2 DEF BakeShape
    <2> QED BY <2>1, <2>4, <2>5, PiecePlaces
  <1>13. ASSUME NEW c \in {"upts", "udev", "usys", "uproc"}, UmountLeft(c)
         PROVE  BakeShape'
    BY <1>13, GoOnKeeps DEF UmountLeft, Now, Piece, disk
  <1>14. CASE Tar
    BY <1>14, GoOnKeeps DEF Tar, Go, Now, Piece
  <1>15. CASE ExitZero
    <2>1. /\ stage \in 1 .. 4 /\ done = stage - 1 /\ stage' = 0 /\ done' = stage
          /\ UNCHANGED << tree, nodes >>
      BY <1>15 DEF ExitZero, Exit, Now, BakeShape, PosShape, disk
    <2>2. CASE stage = 1
      <3>1. at = 4 BY <1>15, <2>2, BuildPlaces DEF ExitZero
      <3> QED BY <2>1, <2>2, <3>1 DEF BakeShape
    <2>3. CASE stage = 2
      <3>1. at = 18 BY <1>15, <2>3, BuildPlaces DEF ExitZero
      <3>2. Baked \subseteq tree /\ nodes = Node
        BY <2>3, <3>1 DEF BakeShape, BakedBefore, Baked
      <3> QED BY <2>1, <2>3, <3>2 DEF BakeShape
    <2>4. CASE stage \in {3, 4}
      BY <2>1, <2>4 DEF BakeShape
    <2> QED BY <2>1, <2>2, <2>3, <2>4
  <1>16. CASE Aborted \/ Killed
    BY <1>16, ExitKeeps DEF Aborted, Killed, disk
  <1>17. CASE Tolerated
    <2>1. stage = 3 BY <1>17 DEF Tolerated, Errexit
    <2>2. ~Now("end") /\ ~Now("debootstrap") /\ ~Now("second") /\ ~Now("mknod")
      BY <1>17, <2>1, BuildPlaces DEF Tolerated, Now
    <2> QED BY <1>17, <2>1, <2>2, GoOnKeeps DEF Tolerated, Go, disk
  <1>18. CASE Reboot
    BY <1>18 DEF Reboot, BakeShape
  <1>19. CASE UNCHANGED vars
    BY <1>19 DEF vars, disk, mounts, BakeShape, BakedBefore
  <1> QED
    BY <1>1, <1>2, <1>3, <1>4, <1>5, <1>6, <1>7, <1>8, <1>9, <1>10, <1>11,
       <1>12, <1>13, <1>14, <1>15, <1>16, <1>17, <1>18, <1>19 DEF Next, Command

\* A stage 2 that exits 0 leaves the whole of what the box boots from, and
\* no later run of the package manager loses it (stage 2:73-104).
THEOREM StageTwoKeepsItsWord == Spec => []StageTwoBakes
  <1>1. Init => BakeInv
    BY DEF Init, BakeInv, GuardInv, PosShape, GuardShape, BakeShape, Now
  <1>2. BakeInv /\ [Next]_vars => BakeInv'
    BY BakePreserved
  <1>3. BakeInv => StageTwoBakes
    BY DEF BakeInv, BakeShape, StageTwoBakes
  <1> QED BY <1>1, <1>2, <1>3, PTL DEF Spec

-----------------------------------------------------------------------------
(* Types.                                                                  *)

\* The mounts, and what is on disk.
MountTypes == proc \in Nat /\ sys \in 0 .. 1 /\ dev \in Seq(Nat) /\ dev # << >>
DiskTypes ==
    /\ hostdev \in {"intact", "grown", "emptied"} /\ keyring \in BOOLEAN
    /\ tree \subseteq Part /\ nodes \subseteq Node /\ tarball \in Packed

\* umount leaves stacks of layers.
LEMMA TailTypes ==
    ASSUME NEW e \in Seq(Nat), Len(e) > 1
    PROVE  Tail(e) \in Seq(Nat) /\ Tail(e) # << >>
  <1>1. Tail(e) \in Seq(Nat) OBVIOUS
  <1>2. Tail(e) # << >> OBVIOUS
  <1> QED BY <1>1, <1>2

LEMMA UmountTypes ==
    ASSUME NEW d \in Seq(Nat), d # << >>
    PROVE  /\ UmountPts(d) \in Seq(Nat) /\ UmountPts(d) # << >>
           /\ UmountDev(d) \in Seq(Nat) /\ UmountDev(d) # << >>
  <1>1. \A e \in Seq(Nat) : e # << >> => UmountDev(e) \in Seq(Nat) /\ UmountDev(e) # << >>
    BY TailTypes, Zenon DEF UmountDev
  <1>2. UmountPts(d) \in Seq(Nat) /\ UmountPts(d) # << >>
    <2>1. Less(d[1]) \in Nat BY DEF Less
    <2>2. Len(UmountPts(d)) = Len(d) BY DEF UmountPts
    <2> QED BY <2>1, <2>2 DEF UmountPts
  <1> QED BY <1>1, <1>2

\* The trap of stages 2 and 3 leaves stacks of layers.
LEMMA TrapTypes ==
    ASSUME MountTypes, TrapUmounts
    PROVE  MountTypes'
  <1>1. UmountDev(UmountPts(dev)) \in Seq(Nat) /\ UmountDev(UmountPts(dev)) # << >>
    BY UmountTypes DEF MountTypes
  <1>2. Less(proc) \in Nat BY DEF MountTypes, Less
  <1> QED BY <1>1, <1>2 DEF MountTypes, TrapUmounts

\* Every step keeps the mounts stacks of layers.
LEMMA MountTypesPreserved ==
    ASSUME MountTypes, [Next]_vars
    PROVE  MountTypes'
  <1>1. ASSUME NEW k \in Stage, Start(k) PROVE MountTypes'
    BY <1>1 DEF Start, MountTypes, mounts
  <1>2. ASSUME NEW r \in BOOLEAN, NEW k \in {stage, done}, Exit(r, k) PROVE MountTypes'
    <2>1. CASE r /\ trap BY <1>2, <2>1, TrapTypes DEF Exit
    <2>2. CASE ~(r /\ trap) BY <1>2, <2>2 DEF Exit, MountTypes, mounts
    <2> QED BY <2>1, <2>2
  <1>3. ASSUME Go \/ SetTrap PROVE MountTypes'
    BY <1>3 DEF Go, SetTrap, MountTypes, mounts
  <1>4. ASSUME NEW c \in {"proc", "sys", "dev", "pts"}, Mount(c) PROVE MountTypes'
    <2>1. << 0 >> \o dev \in Seq(Nat) /\ << 0 >> \o dev # << >> BY DEF MountTypes
    <2>2. [dev EXCEPT ![1] = @ + 1] \in Seq(Nat) /\ [dev EXCEPT ![1] = @ + 1] # << >>
      <3>1. Len([dev EXCEPT ![1] = @ + 1]) = Len(dev) BY DEF MountTypes
      <3> QED BY <3>1 DEF MountTypes
    <2>3. CASE c = "proc" BY <1>4, <2>3 DEF Mount, MountTypes
    <2>4. CASE c = "sys" BY <1>4, <2>4 DEF Mount, MountTypes
    <2>5. CASE c = "dev" BY <1>4, <2>1, <2>5 DEF Mount, MountTypes
    <2>6. CASE c = "pts" BY <1>4, <2>2, <2>6 DEF Mount, MountTypes
    <2> QED BY <2>3, <2>4, <2>5, <2>6
  <1>5. ASSUME NEW c \in {"upts", "udev", "usys", "uproc"}, UmountLeft(c) PROVE MountTypes'
    <2>1. Less(proc) \in Nat BY DEF MountTypes, Less
    <2> QED BY <1>5, <2>1, UmountTypes DEF UmountLeft, MountTypes
  <1>6. CASE Reboot BY <1>6 DEF Reboot, MountTypes
  <1>7. CASE UNCHANGED << stage, at, trap, mine, done, mounts, strays >>
    BY <1>7 DEF MountTypes, mounts
  <1> QED BY Kinds, <1>1, <1>2, <1>3, <1>4, <1>5, <1>6, <1>7

\* Every step leaves on disk what can be there.
LEMMA DiskTypesPreserved ==
    ASSUME DiskTypes, [Next]_vars
    PROVE  DiskTypes'
  <1> USE DEF DiskTypes
  <1>1. CASE FetchKeyring BY <1>1 DEF FetchKeyring
  <1>2. CASE RemoveTarget BY <1>2 DEF RemoveTarget
  <1>3. CASE Debootstrap BY <1>3 DEF Debootstrap, Part
  <1>4. CASE SecondStage BY <1>4, BuildAssumption DEF SecondStage, Part
  <1>5. CASE DevNodesGuard \/ DevNodesDone \/ CopyKeyring \/ SetTrap
    BY <1>5 DEF DevNodesGuard, DevNodesDone, CopyKeyring, SetTrap, disk
  <1>6. ASSUME NEW n \in Node, Mknod(n) PROVE DiskTypes'
    BY <1>6 DEF Mknod
  <1>7. ASSUME NEW c \in {"proc", "sys", "dev", "pts"}, Mount(c) PROVE DiskTypes'
    BY <1>7 DEF Mount, disk
  <1>8. ASSUME NEW c \in Piece, Install(c) PROVE DiskTypes'
    BY <1>8 DEF Install, Part
  <1>9. ASSUME NEW c \in {"upts", "udev", "usys", "uproc"}, UmountLeft(c) PROVE DiskTypes'
    BY <1>9 DEF UmountLeft, disk
  <1>10. CASE Tar
    <2>1. (DevMounted \in BOOLEAN) /\ (Mounted \in BOOLEAN) BY DEF DevMounted, Mounted
    <2>2. tarball' \in Packed BY <1>10, <2>1 DEF Tar, Packed
    <2> QED BY <1>10, <2>2 DEF Tar
  <1>11. CASE ExitZero \/ Aborted \/ Killed \/ Tolerated \/ UNCHANGED vars
    BY <1>11 DEF ExitZero, Aborted, Killed, Tolerated, vars, disk
  <1>12. CASE Reboot BY <1>12 DEF Reboot
  <1>13. ASSUME NEW k \in Stage, Start(k) PROVE DiskTypes'
    BY <1>13 DEF Start, disk
  <1> QED
    BY <1>1, <1>2, <1>3, <1>4, <1>5, <1>6, <1>7, <1>8, <1>9, <1>10, <1>11, <1>12, <1>13
    DEF Next, Command

\* ... and the place in the scripts what it can be.
PlaceTypes ==
    at \in 1 .. 18 /\ strays \in 0 .. MaxStrays

\* ... and the flags are flags.
FlagTypes == trap \in BOOLEAN /\ mine \in BOOLEAN

LEMMA FlagTypesPreserved ==
    ASSUME FlagTypes, [Next]_vars
    PROVE  FlagTypes'
  <1> DEFINE Flip == trap' \in {trap, TRUE, FALSE} /\ mine' \in {mine, TRUE, FALSE}
  <1>1. Flip
    <2>1. ASSUME NEW k \in Stage, Start(k) PROVE Flip
      BY <2>1 DEF Start
    <2>2. ASSUME NEW r \in BOOLEAN, NEW k \in {stage, done}, Exit(r, k) PROVE Flip
      BY <2>2 DEF Exit
    <2>3. CASE Go BY <2>3 DEF Go
    <2>4. ASSUME NEW c \in {"proc", "sys", "dev", "pts"}, Mount(c) PROVE Flip
      BY <2>4 DEF Mount
    <2>5. CASE SetTrap BY <2>5 DEF SetTrap
    <2>6. ASSUME NEW c \in {"upts", "udev", "usys", "uproc"}, UmountLeft(c) PROVE Flip
      BY <2>6 DEF UmountLeft
    <2>7. CASE Reboot BY <2>7 DEF Reboot
    <2> QED BY Kinds, <2>1, <2>2, <2>3, <2>4, <2>5, <2>6, <2>7
  <1> QED BY <1>1, Zenon DEF FlagTypes

LEMMA PlaceTypesPreserved ==
    ASSUME PosShape, PlaceTypes, [Next]_vars
    PROVE  PlaceTypes'
  <1>0. PosShape' BY PosPreserved
  <1>1. ASSUME stage' # 0 PROVE at' \in 1 .. 18
    <2>1. CASE stage' = 1 BY <1>0, <2>1 DEF PosShape, Script
    <2>2. CASE stage' = 2 BY <1>0, <2>2 DEF PosShape, Script
    <2>3. CASE stage' = 3 BY <1>0, <2>3 DEF PosShape, Script
    <2>4. CASE stage' = 4 BY <1>0, <2>4 DEF PosShape, Script
    <2> QED BY <1>0, <1>1, <2>1, <2>2, <2>3, <2>4 DEF PosShape
  <1>2. ASSUME UNCHANGED strays PROVE strays' \in 0 .. MaxStrays
    BY <1>2 DEF PlaceTypes
  <1>3. ASSUME NEW k \in Stage, Start(k) PROVE PlaceTypes'
    BY <1>3 DEF Start, PlaceTypes
  <1>4. ASSUME NEW r \in BOOLEAN, NEW k \in {stage, done}, Exit(r, k) PROVE PlaceTypes'
    <2>1. strays' \in 0 .. MaxStrays
      <3>1. strays' = strays \/ (strays' \in Nat /\ strays' <= MaxStrays)
        BY <1>0, <1>4 DEF Exit, PosShape
      <3> QED BY <3>1, BuildAssumption DEF PlaceTypes
    <2> QED BY <1>4, <2>1 DEF Exit, PlaceTypes
  <1>5. ASSUME stage # 0, Advance
        PROVE  PlaceTypes'
    BY <1>1, <1>2, <1>5 DEF Advance, PlaceTypes
  <1>6. ASSUME stage # 0, Go PROVE PlaceTypes'
    BY <1>5, <1>6 DEF Go
  <1>7. ASSUME NEW c \in {"proc", "sys", "dev", "pts"}, Mount(c) PROVE PlaceTypes'
    BY <1>5, <1>7 DEF Mount, Now
  <1>8. CASE SetTrap
    BY <1>5, <1>8 DEF SetTrap, Now
  <1>9. ASSUME NEW c \in {"upts", "udev", "usys", "uproc"}, UmountLeft(c) PROVE PlaceTypes'
    BY <1>5, <1>9 DEF UmountLeft, Now
  <1>10. CASE Reboot BY <1>10, BuildAssumption DEF Reboot, PlaceTypes
  <1>11. CASE UNCHANGED << stage, at, trap, mine, done, mounts, strays >>
    BY <1>11 DEF PlaceTypes
  <1> QED BY Kinds, <1>3, <1>4, <1>6, <1>7, <1>8, <1>9, <1>10, <1>11

\* Type correctness of the build, however it is broken off and run again: a umount
\* never takes the tree's own directory away, and each script stays within itself.
THEOREM TypeCorrect == Spec => []TypeOK
  <1> DEFINE TInv == BakeInv /\ MountTypes /\ DiskTypes /\ PlaceTypes /\ FlagTypes
  <1>1. Init => TInv
    <2> SUFFICES ASSUME Init PROVE TInv OBVIOUS
    <2>1. BakeInv
      BY DEF Init, BakeInv, GuardInv, PosShape, GuardShape, BakeShape, Now
    <2>2. MountTypes BY DEF Init, MountTypes
    <2>3. DiskTypes BY DEF Init, DiskTypes, Packed
    <2>4. PlaceTypes BY BuildAssumption DEF Init, PlaceTypes
    <2>5. FlagTypes BY DEF Init, FlagTypes
    <2> QED BY <2>1, <2>2, <2>3, <2>4, <2>5
  <1>2. TInv /\ [Next]_vars => TInv'
    BY BakePreserved, MountTypesPreserved, DiskTypesPreserved, PlaceTypesPreserved,
       FlagTypesPreserved
    DEF BakeInv, GuardInv
  <1>3. TInv => TypeOK
    BY DEF TypeOK, BakeInv, BakeShape, GuardInv, PosShape, MountTypes, DiskTypes, PlaceTypes,
           FlagTypes
  <1> QED BY <1>1, <1>2, <1>3, PTL DEF Spec

-----------------------------------------------------------------------------
(* What stage 4 packs.                                                     *)

\* Stacks that one umount of each mount point takes down, and those that are
\* this low again after the trap.
Low  == {<< 0 >>, << 1 >>, << 0, 0 >>, << 1, 0 >>}
Deep == Low \cup {<< 2 >>, << 0, 1 >>, << 1, 1 >>, << 2, 0 >>,
                  << 0, 0, 0 >>, << 1, 0, 0 >>, << 0, 1, 0 >>, << 1, 1, 0 >>}

\* One script has left its mounts: until another mounts over them they are as
\* low as that one has made them, and then as deep as two.
LeftShape ==
    /\ strays <= 1 /\ ~mine => proc \in {0, 1} /\ sys \in {0, 1} /\ dev \in Low
    /\ strays = 1 /\ mine =>
          /\ proc \in {0, 1, 2} /\ sys \in {0, 1} /\ dev \in Deep
          /\ Now("sys") \/ Now("dev") => dev \in Low
          /\ Now("pts") => dev \in Low \cup {<< 0, 1 >>, << 0, 0, 0 >>, << 0, 1, 0 >>}

\* What stage 4 has taken down and packed before its command number i.
TakenDownBefore(i) ==
    /\ i > 1 => dev \in {<< 0 >>, << 0, 0 >>}
    /\ i > 2 => dev = << 0 >>
    /\ i > 3 => sys = 0
    /\ i > 4 => proc = 0
    /\ i > 5 => ~tarball.mounted /\ tarball.dev = Node /\ tarball.parts = Baked

TarShape == strays <= 1 /\ stage = 4 => TakenDownBefore(at)

PackInv == StackInv /\ BakeInv /\ LeftShape /\ TarShape

\* umount of pts on a low stack, and then of the uppermost /dev.
LEMMA LowUmount ==
    ASSUME NEW d \in Low
    PROVE  /\ UmountPts(d) \in {<< 0 >>, << 0, 0 >>}
           /\ d \in {<< 0 >>, << 0, 0 >>} => UmountDev(d) = << 0 >>
  <1>1. CASE d = << 0 >>
    <2>1. UmountPts(d) = << 0 >> BY <1>1 DEF UmountPts, Less
    <2>2. d \in {<< 0 >>, << 0, 0 >>} => UmountDev(d) = << 0 >> BY <1>1 DEF UmountDev
    <2> QED BY <2>1, <2>2
  <1>2. CASE d = << 1 >>
    <2>1. UmountPts(d) = << 0 >> BY <1>2 DEF UmountPts, Less
    <2>2. d \in {<< 0 >>, << 0, 0 >>} => UmountDev(d) = << 0 >> BY <1>2 DEF UmountDev
    <2> QED BY <2>1, <2>2
  <1>3. CASE d = << 0, 0 >>
    <2>1. UmountPts(d) = << 0, 0 >> BY <1>3 DEF UmountPts, Less
    <2>2. d \in {<< 0 >>, << 0, 0 >>} => UmountDev(d) = << 0 >> BY <1>3 DEF UmountDev
    <2> QED BY <2>1, <2>2
  <1>4. CASE d = << 1, 0 >>
    <2>1. UmountPts(d) = << 0, 0 >> BY <1>4 DEF UmountPts, Less
    <2>2. d \in {<< 0 >>, << 0, 0 >>} => UmountDev(d) = << 0 >> BY <1>4 DEF UmountDev
    <2> QED BY <2>1, <2>2
  <1> QED BY <1>1, <1>2, <1>3, <1>4 DEF Low

\* The trap takes a deep stack down to a low one.
LEMMA DeepTrap ==
    ASSUME NEW d \in Deep
    PROVE  UmountDev(UmountPts(d)) \in Low
  <1>1. CASE d = << 0 >>
    <2>1. UmountPts(d) = << 0 >> BY <1>1 DEF UmountPts, Less
    <2>2. UmountDev(<< 0 >>) = << 0 >> BY DEF UmountDev
    <2> QED BY <2>1, <2>2 DEF Low
  <1>2. CASE d = << 1 >>
    <2>1. UmountPts(d) = << 0 >> BY <1>2 DEF UmountPts, Less
    <2>2. UmountDev(<< 0 >>) = << 0 >> BY DEF UmountDev
    <2> QED BY <2>1, <2>2 DEF Low
  <1>3. CASE d = << 0, 0 >>
    <2>1. UmountPts(d) = << 0, 0 >> BY <1>3 DEF UmountPts, Less
    <2>2. UmountDev(<< 0, 0 >>) = << 0 >> BY DEF UmountDev
    <2> QED BY <2>1, <2>2 DEF Low
  <1>4. CASE d = << 1, 0 >>
    <2>1. UmountPts(d) = << 0, 0 >> BY <1>4 DEF UmountPts, Less
    <2>2. UmountDev(<< 0, 0 >>) = << 0 >> BY DEF UmountDev
    <2> QED BY <2>1, <2>2 DEF Low
  <1>5. CASE d = << 2 >>
    <2>1. UmountPts(d) = << 1 >> BY <1>5 DEF UmountPts, Less
    <2>2. UmountDev(<< 1 >>) = << 1 >> BY DEF UmountDev
    <2> QED BY <2>1, <2>2 DEF Low
  <1>6. CASE d = << 0, 1 >>
    <2>1. UmountPts(d) = << 0, 1 >> BY <1>6 DEF UmountPts, Less
    <2>2. UmountDev(<< 0, 1 >>) = << 1 >> BY DEF UmountDev
    <2> QED BY <2>1, <2>2 DEF Low
  <1>7. CASE d = << 1, 1 >>
    <2>1. UmountPts(d) = << 0, 1 >> BY <1>7 DEF UmountPts, Less
    <2>2. UmountDev(<< 0, 1 >>) = << 1 >> BY DEF UmountDev
    <2> QED BY <2>1, <2>2 DEF Low
  <1>8. CASE d = << 2, 0 >>
    <2>1. UmountPts(d) = << 1, 0 >> BY <1>8 DEF UmountPts, Less
    <2>2. UmountDev(<< 1, 0 >>) = << 0 >> BY DEF UmountDev
    <2> QED BY <2>1, <2>2 DEF Low
  <1>9. CASE d = << 0, 0, 0 >>
    <2>1. UmountPts(d) = << 0, 0, 0 >> BY <1>9 DEF UmountPts, Less
    <2>2. UmountDev(<< 0, 0, 0 >>) = << 0, 0 >> BY DEF UmountDev
    <2> QED BY <2>1, <2>2 DEF Low
  <1>10. CASE d = << 1, 0, 0 >>
    <2>1. UmountPts(d) = << 0, 0, 0 >> BY <1>10 DEF UmountPts, Less
    <2>2. UmountDev(<< 0, 0, 0 >>) = << 0, 0 >> BY DEF UmountDev
    <2> QED BY <2>1, <2>2 DEF Low
  <1>11. CASE d = << 0, 1, 0 >>
    <2>1. UmountPts(d) = << 0, 1, 0 >> BY <1>11 DEF UmountPts, Less
    <2>2. UmountDev(<< 0, 1, 0 >>) = << 1, 0 >> BY DEF UmountDev
    <2> QED BY <2>1, <2>2 DEF Low
  <1>12. CASE d = << 1, 1, 0 >>
    <2>1. UmountPts(d) = << 0, 1, 0 >> BY <1>12 DEF UmountPts, Less
    <2>2. UmountDev(<< 0, 1, 0 >>) = << 1, 0 >> BY DEF UmountDev
    <2> QED BY <2>1, <2>2 DEF Low
  <1> QED BY <1>1, <1>2, <1>3, <1>4, <1>5, <1>6, <1>7, <1>8, <1>9, <1>10, <1>11, <1>12 DEF Deep, Low

\* A bind mount in front of the layers there are.
LEMMA FrontOne ==
    ASSUME NEW a \in Nat
    PROVE  << 0 >> \o << a >> = << 0, a >>
  <1>1. ASSUME NEW s \in Seq(Nat), Len(s) = 2, s[1] = 0, s[2] = a PROVE s = << 0, a >>
    BY <1>1
  <1>2. /\ << 0 >> \o << a >> \in Seq(Nat) /\ Len(<< 0 >> \o << a >>) = 2
        /\ (<< 0 >> \o << a >>)[1] = 0 /\ (<< 0 >> \o << a >>)[2] = a
    OBVIOUS
  <1> QED BY <1>1, <1>2, Zenon

LEMMA FrontTwo ==
    ASSUME NEW a \in Nat, NEW b \in Nat
    PROVE  << 0 >> \o << a, b >> = << 0, a, b >>
  <1>1. ASSUME NEW s \in Seq(Nat), Len(s) = 3, s[1] = 0, s[2] = a, s[3] = b PROVE s = << 0, a, b >>
    BY <1>1
  <1>2. /\ << 0 >> \o << a, b >> \in Seq(Nat) /\ Len(<< 0 >> \o << a, b >>) = 3
        /\ (<< 0 >> \o << a, b >>)[1] = 0 /\ (<< 0 >> \o << a, b >>)[2] = a
        /\ (<< 0 >> \o << a, b >>)[3] = b
    OBVIOUS
  <1> QED BY <1>1, <1>2, Zenon

\* Another script mounts over a low stack: /dev, and then pts.
LEMMA MountOverLow ==
    ASSUME NEW d
    PROVE  /\ d \in Low =>
                << 0 >> \o d \in Low \cup {<< 0, 1 >>, << 0, 0, 0 >>, << 0, 1, 0 >>}
           /\ d \in Low \cup {<< 0, 1 >>, << 0, 0, 0 >>, << 0, 1, 0 >>} =>
                [d EXCEPT ![1] = @ + 1] \in Deep
  <1>1. CASE d = << 0 >>
    <2>1. << 0 >> \o << 0 >> = << 0, 0 >> BY FrontOne
    <2>2. [d EXCEPT ![1] = @ + 1] = << 1 >> BY <1>1
    <2> QED BY <2>1, <2>2, <1>1 DEF Low, Deep
  <1>2. CASE d = << 1 >>
    <2>1. << 0 >> \o << 1 >> = << 0, 1 >> BY FrontOne
    <2>2. [d EXCEPT ![1] = @ + 1] = << 2 >> BY <1>2
    <2> QED BY <2>1, <2>2, <1>2 DEF Low, Deep
  <1>3. CASE d = << 0, 0 >>
    <2>1. << 0 >> \o << 0, 0 >> = << 0, 0, 0 >> BY FrontTwo
    <2>2. [d EXCEPT ![1] = @ + 1] = << 1, 0 >> BY <1>3
    <2> QED BY <2>1, <2>2, <1>3 DEF Low, Deep
  <1>4. CASE d = << 1, 0 >>
    <2>1. << 0 >> \o << 1, 0 >> = << 0, 1, 0 >> BY FrontTwo
    <2>2. [d EXCEPT ![1] = @ + 1] = << 2, 0 >> BY <1>4
    <2> QED BY <2>1, <2>2, <1>4 DEF Low, Deep
  <1>5. CASE d = << 0, 1 >>
    <2>1. [d EXCEPT ![1] = @ + 1] = << 1, 1 >> BY <1>5
    <2>2. d \notin Low BY <1>5 DEF Low
    <2> QED BY <2>1, <2>2 DEF Deep
  <1>6. CASE d = << 0, 0, 0 >>
    <2>1. [d EXCEPT ![1] = @ + 1] = << 1, 0, 0 >> BY <1>6
    <2>2. d \notin Low BY <1>6 DEF Low
    <2> QED BY <2>1, <2>2 DEF Deep
  <1>7. CASE d = << 0, 1, 0 >>
    <2>1. [d EXCEPT ![1] = @ + 1] = << 1, 1, 0 >> BY <1>7
    <2>2. d \notin Low BY <1>7 DEF Low
    <2> QED BY <2>1, <2>2 DEF Deep
  <1> QED BY <1>1, <1>2, <1>3, <1>4, <1>5, <1>6, <1>7 DEF Low

\* Every step keeps one script's left mounts low, and another's above them deep.
LEMMA LeftPreserved ==
    ASSUME StackInv, LeftShape, [Next]_vars
    PROVE  LeftShape'
  <1> USE DEF StackInv
  <1>1. strays \in Nat BY DEF PosShape
  <1>2. ASSUME NEW k \in Stage, Start(k) PROVE LeftShape'
    <2>1. ~Now("sys")' /\ ~Now("dev")' /\ ~Now("pts")' BY <1>2, FirstCommand
    <2> QED BY <1>2, <2>1 DEF Start, LeftShape, mounts
  <1>3. ASSUME NEW r \in BOOLEAN, NEW k \in {stage, done}, Exit(r, k) PROVE LeftShape'
    <2>1. ~mine' BY <1>3 DEF Exit
    <2> SUFFICES ASSUME strays' <= 1
                 PROVE  proc' \in {0, 1} /\ sys' \in {0, 1} /\ dev' \in Low
      BY <2>1 DEF LeftShape
    <2>2. CASE r /\ trap
      <3>1. TrapUmounts /\ strays' = strays BY <1>3, <2>2 DEF Exit
      <3>2. proc \in {0, 1, 2} /\ dev \in Deep
        BY <1>1, <3>1 DEF LeftShape, StackShape, Deep, Low
      <3>3. UmountDev(UmountPts(dev)) \in Low BY <3>2, DeepTrap
      <3>4. Less(proc) \in {0, 1} BY <3>2 DEF Less
      <3> QED BY <3>1, <3>3, <3>4 DEF TrapUmounts
    <2>3. CASE ~(r /\ trap)
      <3>1. UNCHANGED mounts /\ strays' = strays + (IF mine THEN 1 ELSE 0)
        BY <1>3, <2>3 DEF Exit
      <3>2. CASE mine
        <4>1. strays = 0 BY <1>1, <3>1, <3>2
        <4> QED BY <3>1, <4>1 DEF StackShape, mounts, Low
      <3>3. CASE ~mine
        <4>1. strays <= 1 BY <1>1, <3>1, <3>3
        <4> QED BY <3>1, <3>3, <4>1 DEF LeftShape, mounts
      <3> QED BY <3>2, <3>3
    <2> QED BY <2>2, <2>3
  <1>4. ASSUME stage # 0, Script[stage][at] # "end", Go PROVE LeftShape'
    <2>1. /\ Now("sys")' => Now("proc")
          /\ Now("dev")' => Now("sys")
          /\ Now("pts")' => Now("dev")
      BY <1>4, Before DEF Go
    <2>2. Now("proc") => ~mine BY <1>4, MountPlaces DEF StackShape
    <2> QED BY <1>4, <2>1, <2>2 DEF LeftShape, Go, Advance, mounts
  <1>5. ASSUME NEW c \in {"proc", "sys", "dev", "pts"}, Mount(c) PROVE LeftShape'
    <2>1. stage' = stage /\ Advance /\ strays' = strays
          /\ stage # 0 /\ Script[stage][at] # "end" /\ Script[stage][at] = c
      BY <1>5 DEF Mount, Now, Advance
    <2>2. /\ Now("sys")' => c = "proc"
          /\ Now("dev")' => c = "sys"
          /\ Now("pts")' => c = "dev"
      BY <2>1, Before DEF Now
    <2>3. mine' BY <1>5 DEF Mount
    <2> SUFFICES ASSUME strays = 1
                 PROVE  /\ proc' \in {0, 1, 2} /\ sys' \in {0, 1} /\ dev' \in Deep
                        /\ Now("sys")' \/ Now("dev")' => dev' \in Low
                        /\ Now("pts")' =>
                              dev' \in Low \cup {<< 0, 1 >>, << 0, 0, 0 >>, << 0, 1, 0 >>}
      BY <2>1, <2>3 DEF LeftShape
    <2>4. CASE c = "proc"
      <3>1. ~mine BY <2>1, <2>4, MountPlaces DEF Now, StackShape
      <3>2. proc \in {0, 1} /\ sys \in {0, 1} /\ dev \in Low BY <3>1 DEF LeftShape
      <3>3. proc' = proc + 1 /\ sys' = sys /\ dev' = dev BY <1>5, <2>4 DEF Mount
      <3> QED BY <2>2, <2>4, <3>2, <3>3 DEF Deep
    <2>5. CASE c = "sys"
      <3>1. proc \in {0, 1, 2} /\ dev \in Low
        BY <2>1, <2>5 DEF LeftShape, Now
      <3>2. proc' = proc /\ sys' = 1 /\ dev' = dev BY <1>5, <2>5 DEF Mount
      <3> QED BY <2>2, <2>5, <3>1, <3>2 DEF Deep
    <2>6. CASE c = "dev"
      <3>1. proc \in {0, 1, 2} /\ sys \in {0, 1} /\ dev \in Low
        BY <2>1, <2>6 DEF LeftShape, Now
      <3>2. proc' = proc /\ sys' = sys /\ dev' = << 0 >> \o dev
        BY <1>5, <2>6 DEF Mount
      <3>3. dev' \in Low \cup {<< 0, 1 >>, << 0, 0, 0 >>, << 0, 1, 0 >>}
        BY <3>1, <3>2, MountOverLow
      <3> QED BY <2>2, <2>6, <3>1, <3>2, <3>3 DEF Deep
    <2>7. CASE c = "pts"
      <3>1. /\ proc \in {0, 1, 2} /\ sys \in {0, 1}
            /\ dev \in Low \cup {<< 0, 1 >>, << 0, 0, 0 >>, << 0, 1, 0 >>}
        BY <2>1, <2>7 DEF LeftShape, Now
      <3>2. proc' = proc /\ sys' = sys /\ dev' = [dev EXCEPT ![1] = @ + 1]
        BY <1>5, <2>7 DEF Mount
      <3>3. dev' \in Deep BY <3>1, <3>2, MountOverLow
      <3> QED BY <2>2, <2>7, <3>1, <3>2, <3>3
    <2> QED BY <2>4, <2>5, <2>6, <2>7
  <1>6. CASE SetTrap
    <2>1. stage # 0 /\ Script[stage][at] = "trap" /\ Advance /\ strays' = strays
      BY <1>6 DEF SetTrap, Now, Advance
    <2>2. ~Now("sys")' /\ ~Now("dev")' /\ ~Now("pts")'
      BY <2>1, Before DEF Now
    <2> QED BY <1>6, <2>1, <2>2 DEF SetTrap, LeftShape, mounts
  <1>7. ASSUME NEW c \in {"upts", "udev", "usys", "uproc"}, UmountLeft(c) PROVE LeftShape'
    <2>1. ~mine /\ ~mine' /\ strays' = strays
      BY <1>7, MountPlaces DEF UmountLeft, Now, StackShape, Advance
    <2> SUFFICES ASSUME strays <= 1
                 PROVE  proc' \in {0, 1} /\ sys' \in {0, 1} /\ dev' \in Low
      BY <2>1 DEF LeftShape
    <2>2. proc \in {0, 1} /\ sys \in {0, 1} /\ dev \in Low BY <2>1 DEF LeftShape
    <2>3. UmountPts(dev) \in Low BY <2>2, LowUmount DEF Low
    <2>4. UmountDev(dev) \in Low
      <3>1. dev \in {<< 1 >>, << 1, 0 >>} => UmountDev(dev) \in Low
        <4>1. UmountDev(<< 1 >>) = << 1 >> /\ UmountDev(<< 1, 0 >>) = << 0 >>
          BY DEF UmountDev
        <4> QED BY <4>1 DEF Low
      <3> QED BY <2>2, <3>1, LowUmount DEF Low
    <2>5. Less(proc) \in {0, 1} BY <2>2 DEF Less
    <2> QED BY <1>7, <2>2, <2>3, <2>4, <2>5 DEF UmountLeft
  <1>8. CASE Reboot BY <1>8 DEF Reboot, LeftShape, Low
  <1>9. CASE UNCHANGED << stage, at, trap, mine, done, mounts, strays >>
    BY <1>9 DEF LeftShape, Now, mounts
  <1> QED BY Kinds, <1>2, <1>3, <1>4, <1>5, <1>6, <1>7, <1>8, <1>9

\* What a step of stage 4 is.
LEMMA StageFour ==
    ASSUME PosShape, stage = 4, [Next]_vars
    PROVE  \/ stage' = 0
           \/ \E c \in {"upts", "udev", "usys", "uproc"} : UmountLeft(c)
           \/ Tar
           \/ UNCHANGED vars
  <1>1. CASE \E k \in Stage : Start(k) BY <1>1 DEF Start
  <1>2. CASE FetchKeyring BY <1>2, BuildPlaces DEF FetchKeyring
  <1>3. CASE RemoveTarget BY <1>3, BuildPlaces DEF RemoveTarget
  <1>4. CASE Debootstrap BY <1>4, BuildPlaces DEF Debootstrap
  <1>5. CASE SecondStage BY <1>5, BuildPlaces DEF SecondStage
  <1>6. CASE DevNodesGuard \/ DevNodesDone \/ \E n \in Node : Mknod(n)
    BY <1>6, BuildPlaces DEF DevNodesGuard, DevNodesDone, Mknod
  <1>7. CASE CopyKeyring BY <1>7, BuildPlaces DEF CopyKeyring
  <1>8. CASE \E c \in {"proc", "sys", "dev", "pts"} : Mount(c)
    BY <1>8, MountPlaces DEF Mount
  <1>9. CASE SetTrap BY <1>9, MountPlaces DEF SetTrap
  <1>10. CASE \E c \in Piece : Install(c) BY <1>10, PiecePlaces DEF Install
  <1>11. CASE ExitZero \/ Aborted \/ Killed
    BY <1>11 DEF ExitZero, Aborted, Killed, Exit
  <1>12. CASE Tolerated BY <1>12 DEF Tolerated, Errexit
  <1>13. CASE Reboot BY <1>13 DEF Reboot
  <1> QED
    BY <1>1, <1>2, <1>3, <1>4, <1>5, <1>6, <1>7, <1>8, <1>9, <1>10, <1>11, <1>12, <1>13
    DEF Next, Command

\* Stage 4 takes down what is low, and packs the tree after that.
LEMMA TarPreserved ==
    ASSUME PackInv, [Next]_vars
    PROVE  TarShape'
  <1>1. PosShape BY DEF PackInv, StackInv
  <1>2. CASE stage # 4
    <2>1. stage' = 4 => at' = 1
      <3>1. CASE \E k \in Stage : Start(k) BY <3>1 DEF Start
      <3>2. CASE \E r \in BOOLEAN, k \in {stage, done} : Exit(r, k)
        BY <3>2 DEF Exit
      <3>3. CASE stage # 0 /\ Script[stage][at] # "end" /\ Go
        BY <1>2, <3>3 DEF Go, Advance
      <3>4. CASE \E c \in {"proc", "sys", "dev", "pts"} : Mount(c)
        BY <1>2, <3>4 DEF Mount, Advance
      <3>5. CASE SetTrap BY <1>2, <3>5 DEF SetTrap, Advance
      <3>6. CASE \E c \in {"upts", "udev", "usys", "uproc"} : UmountLeft(c)
        BY <1>2, <3>6 DEF UmountLeft, Advance
      <3>7. CASE Reboot BY <3>7 DEF Reboot
      <3> QED BY Kinds, <1>2, <3>1, <3>2, <3>3, <3>4, <3>5, <3>6, <3>7
    <2> QED BY <2>1 DEF TarShape, TakenDownBefore
  <1>3. CASE stage = 4
    <2>1. ~mine BY <1>3 DEF PackInv, StackInv, StackShape
    <2>2. at \in 1 .. 6 BY <1>1, <1>3, Places
    <2>3. Baked \subseteq tree /\ nodes = Node
      BY <1>3 DEF PackInv, BakeInv, BakeShape
    <2>4. CASE stage' = 0 BY <2>4 DEF TarShape
    <2>5. ASSUME NEW c \in {"upts", "udev", "usys", "uproc"}, UmountLeft(c)
          PROVE  TarShape'
      <3>1. strays' = strays /\ at' = at + 1 /\ Script[4][at] = c
        BY <1>3, <2>5 DEF UmountLeft, Advance, Now
      <3> SUFFICES ASSUME strays <= 1 PROVE TakenDownBefore(at)'
        BY <3>1 DEF TarShape
      <3>2. dev \in Low BY <2>1 DEF PackInv, LeftShape
      <3>3. TakenDownBefore(at) BY <1>3 DEF PackInv, TarShape
      <3>4. /\ c = "upts" => at = 1
            /\ c = "udev" => at = 2
            /\ c = "usys" => at = 3
            /\ c = "uproc" => at = 4
        BY <2>2, <3>1 DEF Script
      <3>5. CASE c = "upts"
        BY <2>5, <3>1, <3>2, <3>4, <3>5, LowUmount DEF TakenDownBefore, UmountLeft
      <3>6. CASE c = "udev"
        <4>1. dev \in {<< 0 >>, << 0, 0 >>} BY <3>3, <3>4, <3>6 DEF TakenDownBefore
        <4>2. UmountDev(dev) = << 0 >> BY <3>2, <4>1, LowUmount
        <4> QED BY <2>5, <3>1, <3>4, <3>6, <4>2 DEF TakenDownBefore, UmountLeft
      <3>7. CASE c = "usys"
        BY <2>5, <3>1, <3>3, <3>4, <3>7 DEF TakenDownBefore, UmountLeft
      <3>8. CASE c = "uproc"
        <4>1. proc \in {0, 1} BY <2>1 DEF PackInv, LeftShape
        <4>2. Less(proc) = 0 BY <4>1 DEF Less
        <4> QED BY <2>5, <3>1, <3>3, <3>4, <3>8, <4>2 DEF TakenDownBefore, UmountLeft
      <3> QED BY <3>5, <3>6, <3>7, <3>8
    <2>6. CASE Tar
      <3>1. strays' = strays /\ at' = at + 1 /\ Script[4][at] = "tar" /\ UNCHANGED mounts
        BY <1>3, <2>6 DEF Tar, Go, Advance, Now
      <3>2. at = 5 BY <2>2, <3>1 DEF Script
      <3> SUFFICES ASSUME strays <= 1 PROVE TakenDownBefore(at)'
        BY <3>1 DEF TarShape
      <3>3. dev = << 0 >> /\ sys = 0 /\ proc = 0
        BY <1>3, <3>2 DEF PackInv, TarShape, TakenDownBefore
      <3>4. ~DevMounted /\ ~Mounted BY <3>3 DEF DevMounted, Mounted
      <3>5. tree \cap Baked = Baked BY <2>3
      <3>6. ~tarball'.mounted /\ tarball'.dev = Node /\ tarball'.parts = Baked
        BY <2>3, <2>6, <3>4, <3>5 DEF Tar
      <3> QED BY <3>1, <3>3, <3>6 DEF TakenDownBefore, mounts
    <2>7. CASE UNCHANGED vars
      BY <2>7 DEF PackInv, TarShape, TakenDownBefore, vars, mounts, disk
    <2> QED BY <1>1, <1>3, <2>4, <2>5, <2>6, <2>7, StageFour
  <1> QED BY <1>2, <1>3

\* Stage 4 packs the whole tree and nothing of the host, however often the stages were
\* broken off, as long as at most one script since the host came up has left its mounts
\* behind: one umount for each mount point is enough for that one (stage 4:9-10).
THEOREM TarballIsWhole == Spec => []PackedIsWhole
  <1>1. Init => PackInv
    <2> SUFFICES ASSUME Init PROVE PackInv OBVIOUS
    <2>1. StackInv
      <3>1. ~mine /\ ~trap BY DEF Init
      <3> QED BY <3>1 DEF Init, StackInv, PosShape, StackShape, Now, Early
    <2>2. BakeInv
      BY DEF Init, BakeInv, GuardInv, PosShape, GuardShape, BakeShape, Now
    <2>3. LeftShape BY DEF Init, LeftShape, Low
    <2>4. TarShape BY DEF Init, TarShape
    <2> QED BY <2>1, <2>2, <2>3, <2>4 DEF PackInv
  <1>2. PackInv /\ [Next]_vars => PackInv'
    BY StackPreserved, BakePreserved, LeftPreserved, TarPreserved DEF PackInv
  <1>3. PackInv => PackedIsWhole
    <2> SUFFICES ASSUME PackInv, stage = 4, Now("end"), strays <= 1
                 PROVE  TakenDownBefore(6)
      BY DEF PackedIsWhole, TakenDownBefore
    <2>1. at \in 1 .. 6 BY Places DEF PackInv, StackInv
    <2>2. at = 6 BY <2>1 DEF Now, Script
    <2> QED BY <2>2 DEF PackInv, TarShape
  <1> QED BY <1>1, <1>2, <1>3, PTL DEF Spec
=============================================================================
