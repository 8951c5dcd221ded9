---------------------------- MODULE RootfsBuild ----------------------------
(***************************************************************************)
(* The build of the root file system (src/build, rootfs-overlay/           *)
(* dev-nodes.sh): four scripts that one operator runs in order on a host,  *)
(* each step a command that may fail, each script interrupted, killed or   *)
(* run again.  Stages 2 and 3 mount the host's /proc, /sys, /dev and       *)
(* /dev/pts inside the target tree; what is still mounted there decides    *)
(* whether the next command works on the tree or on the host.              *)
(***************************************************************************)
EXTENDS Integers, Sequences

CONSTANTS
    Node,        \* the static device nodes dev-nodes.sh lists
    BaseNode,    \* those debootstrap's second stage makes itself
    MaxStrays    \* bound: how often a script may leave its mounts behind

ASSUME BuildAssumption == BaseNode \subseteq Node /\ MaxStrays \in Nat

-----------------------------------------------------------------------------
\* The commands of each stage, in the order of the script; "end" is the
\* final `du` or `ls`, after which the script exits 0.
Script ==
    << << "keyring", "rm", "debootstrap", "end" >>,
       << "second", "guard", "mknod", "sources", "proc", "sys", "dev", "pts",
          "trap", "userland", "stub", "hold", "modules", "overlay", "config",
          "machineid", "passwd", "end" >>,
       << "proc", "sys", "dev", "pts", "trap", "samba", "user", "smbconf",
          "wsdd2", "wsdd2init", "end" >>,
       << "upts", "udev", "usys", "uproc", "tar", "end" >> >>

Stage == 1 .. 4

\* Commands that only put something into the tree.
Piece == {"userland", "stub", "hold", "modules", "overlay", "config",
          "machineid", "passwd", "samba", "user", "smbconf", "wsdd2",
          "wsdd2init"}

\* Stage 2 bakes these, stage 3 adds the others.
Baked == {"base", "userland", "stub", "hold", "modules", "overlay", "config",
          "machineid", "passwd"}
Part  == {"unpacked", "base"} \cup Piece

\* Stage 3 runs without `set -e`.
Errexit(k) == k # 3

VARIABLES
    stage,      \* the script that is running, 0 if none
    at,         \* its next command, an index of Script[stage]
    trap,       \* its EXIT trap is set
    mine,       \* it has mounted something
    done,       \* the last stage in a row that exited 0
    proc, sys,  \* mounts on $TARGET/proc and $TARGET/sys
    dev,        \* mounts on $TARGET/dev/pts, for each layer of $TARGET/dev
                \* from the uppermost bind mount down to the tree's own one
    hostdev,    \* the host's /dev: "intact", "grown" by nodes or "emptied"
    keyring,    \* stage 1 has left the archive keyring in the scratch area
    tree,       \* what is in $TARGET
    nodes,      \* static nodes in the tree's own /dev
    tarball,    \* what stage 4 has packed last, of the baked parts and of /dev
    strays      \* scripts that ended with their mounts still there

mounts == << proc, sys, dev >>
disk   == << hostdev, keyring, tree, nodes, tarball >>
vars   == << stage, at, trap, mine, done, mounts, disk, strays >>

Packed == [parts : SUBSET Baked, dev : SUBSET Node, mounted : BOOLEAN]

TypeOK ==
    /\ stage \in 0 .. 4
    /\ at \in 1 .. 18 /\ (stage # 0 => at \in DOMAIN Script[stage])
    /\ trap \in BOOLEAN /\ mine \in BOOLEAN
    /\ done \in 0 .. 4
    /\ proc \in Nat /\ sys \in 0 .. 1
    /\ dev \in Seq(Nat) /\ dev # << >>
    /\ hostdev \in {"intact", "grown", "emptied"}
    /\ keyring \in BOOLEAN
    /\ tree \subseteq Part /\ nodes \subseteq Node
    /\ tarball \in Packed
    /\ strays \in 0 .. MaxStrays

Init ==
    /\ stage = 0 /\ at = 1 /\ trap = FALSE /\ mine = FALSE /\ done = 0
    /\ proc = 0 /\ sys = 0 /\ dev = << 0 >>
    /\ hostdev = "intact" /\ keyring = FALSE
    /\ tree = {} /\ nodes = {} /\ strays = 0
    /\ tarball = [parts |-> {}, dev |-> {}, mounted |-> FALSE]

-----------------------------------------------------------------------------
(* Mounts.  /proc stacks or refuses a second mount, depending on the       *)
(* kernel, /sys refuses it, a bind mount always stacks; umount -l detaches *)
(* the uppermost layer with all that is mounted on it.                     *)

DevMounted == Len(dev) > 1
Mounted    == proc > 0 \/ sys > 0 \/ DevMounted \/ Head(dev) > 0

Less(n) == IF n > 0 THEN n - 1 ELSE 0

UmountPts(d) == [d EXCEPT ![1] = Less(@)]

\* Mutated form: the tree's own directory goes with the last mount.
UmountDevBlindly(d) == Tail(d)

UmountDev(d) == IF Len(d) > 1 THEN Tail(d) ELSE d

\* Mutated form: the trap forgets /sys.
TrapForgetsSys ==
    /\ dev' = UmountDev(UmountPts(dev))
    /\ proc' = Less(proc)
    /\ UNCHANGED sys

\* The command of the EXIT trap of stages 2 and 3.
TrapUmounts ==
    /\ dev' = UmountDev(UmountPts(dev))
    /\ sys' = 0
    /\ proc' = Less(proc)

-----------------------------------------------------------------------------
(* The operator: a stage is started when the one before it has exited 0;   *)
(* any earlier one may be run again.  The host stays usable while its /dev *)
(* is.                                                                     *)

Start(k) ==
    /\ stage = 0
    /\ k <= done + 1
    /\ hostdev # "emptied"
    /\ stage' = k /\ at' = 1 /\ done' = k - 1
    /\ UNCHANGED << trap, mine, mounts, disk, strays >>

\* The script ends, with its EXIT trap if it is set and runs.
Exit(runs, last) ==
    /\ stage' = 0 /\ at' = 1 /\ trap' = FALSE /\ mine' = FALSE
    /\ done' = last
    /\ IF runs /\ trap
       THEN TrapUmounts /\ UNCHANGED strays
       ELSE /\ UNCHANGED mounts
            /\ strays' = strays + (IF mine THEN 1 ELSE 0)
            /\ strays' <= MaxStrays

Now(c)  == stage # 0 /\ Script[stage][at] = c
Advance == at' = at + 1 /\ UNCHANGED << stage, done, strays >>
Go      == Advance /\ UNCHANGED << trap, mine, mounts >>

ExitZero ==
    /\ Now("end")
    /\ Exit(TRUE, stage)
    /\ UNCHANGED disk

\* A command of a stage that runs under `set -e` fails, or the script is
\* interrupted: bash runs the EXIT trap.
Aborted ==
    /\ stage # 0
    /\ Exit(TRUE, done)
    /\ UNCHANGED disk

Killed ==
    /\ stage # 0
    /\ Exit(FALSE, done)
    /\ UNCHANGED disk

\* The host goes down: no mount survives, /dev is made anew.
Reboot ==
    /\ stage' = 0 /\ at' = 1 /\ trap' = FALSE /\ mine' = FALSE
    /\ proc' = 0 /\ sys' = 0 /\ dev' = << 0 >>
    /\ hostdev' = "intact" /\ strays' = 0
    /\ UNCHANGED << done, keyring, tree, nodes, tarball >>

\* Without `set -e` the script goes on to the next command.
Tolerated ==
    /\ stage # 0 /\ ~Errexit(stage)
    /\ Script[stage][at] \notin {"trap", "end"}
    /\ Go
    /\ UNCHANGED disk

-----------------------------------------------------------------------------
(* Stage 1.                                                                *)

\* A package list or an archive without the keyring is tolerated; what an
\* earlier run fetched may be there, or gone with the directory it was in.
FetchKeyring ==
    /\ Now("keyring")
    /\ \/ Go /\ keyring' \in BOOLEAN
       \/ Exit(TRUE, done) /\ keyring' = FALSE
    /\ UNCHANGED << hostdev, tree, nodes, tarball >>

\* rm -rf crosses mount points: it empties a bind-mounted /dev, leaves the
\* directory below it alone and fails on the mount point.
RemoveTarget ==
    /\ Now("rm")
    /\ tree' = {}
    /\ nodes' = IF DevMounted THEN nodes ELSE {}
    /\ hostdev' = IF DevMounted THEN "emptied" ELSE hostdev
    /\ IF Mounted THEN Exit(TRUE, done) ELSE Go
    /\ UNCHANGED << keyring, tarball >>

Debootstrap ==
    /\ Now("debootstrap")
    /\ tree' = tree \cup {"unpacked"}
    /\ Go
    /\ UNCHANGED << hostdev, keyring, nodes, tarball >>

-----------------------------------------------------------------------------
(* Stage 2, up to its mounts.                                              *)

\* Only if /debootstrap is there, which a successful run removes.
SecondStage ==
    /\ Now("second")
    /\ IF "unpacked" \in tree
       THEN /\ tree' = (tree \ {"unpacked"}) \cup {"base"}
            /\ nodes' = nodes \cup BaseNode
       ELSE UNCHANGED << tree, nodes >>
    /\ Go
    /\ UNCHANGED << hostdev, keyring, tarball >>

\* Mutated form: dev-nodes.sh without its backstop.
DevNodesNoGuard ==
    /\ Now("guard")
    /\ Go
    /\ UNCHANGED disk

\* dev-nodes.sh refuses to run on a mount point.
DevNodesGuard ==
    /\ Now("guard")
    /\ ~DevMounted
    /\ Go
    /\ UNCHANGED disk

\* mk: a node that is missing lands in whatever $TARGET/dev is; the others
\* are passed over, and the script ends when there is none left to make.
Mknod(n) ==
    /\ Now("mknod")
    /\ IF DevMounted THEN hostdev' = "grown" /\ UNCHANGED nodes
       ELSE n \notin nodes /\ nodes' = nodes \cup {n} /\ UNCHANGED hostdev
    /\ UNCHANGED << stage, at, trap, mine, done, mounts, keyring, tree, tarball,
                    strays >>

\* Mutated form: the script ends at the first node that is there already.
DevNodesStopEarly ==
    /\ Now("mknod")
    /\ nodes # {}
    /\ Go
    /\ UNCHANGED disk

DevNodesDone ==
    /\ Now("mknod")
    /\ DevMounted \/ nodes = Node
    /\ Go
    /\ UNCHANGED disk

CopyKeyring ==
    /\ Now("sources")
    /\ keyring
    /\ Go
    /\ UNCHANGED disk

-----------------------------------------------------------------------------
(* Stages 2 and 3: the mounts and what runs inside them.                   *)

Mount(c) ==
    /\ Now(c)
    /\ \/ c = "proc" /\ proc' = proc + 1 /\ UNCHANGED << sys, dev >>
       \/ c = "sys" /\ sys = 0 /\ sys' = 1 /\ UNCHANGED << proc, dev >>
       \/ c = "dev" /\ dev' = << 0 >> \o dev /\ UNCHANGED << proc, sys >>
       \/ c = "pts" /\ dev' = [dev EXCEPT ![1] = @ + 1] /\ UNCHANGED << proc, sys >>
    /\ mine' = TRUE
    /\ Advance
    /\ UNCHANGED << trap, disk >>

SetTrap ==
    /\ Now("trap")
    /\ trap' = TRUE
    /\ Advance
    /\ UNCHANGED << mine, mounts, disk >>

\* What the package manager may undo when it runs: the stub, unless held.
AptMayRestore(c) ==
    IF c \in {"userland", "samba", "wsdd2"} /\ "hold" \notin tree
    THEN {{}, {"stub"}} ELSE {{}}

\* smbpasswd comes with samba.
Needs(c) == IF c = "user" THEN {"samba"} ELSE {}

Install(c) ==
    /\ Now(c)
    /\ Needs(c) \subseteq tree
    /\ \E lost \in AptMayRestore(c) : tree' = (tree \ lost) \cup {c}
    /\ Go
    /\ UNCHANGED << hostdev, keyring, nodes, tarball >>

-----------------------------------------------------------------------------
(* Stage 4.                                                                *)

\* Mutated form: stage 4 forgets /dev.
UmountLeftNoDev(c) ==
    /\ Now(c)
    /\ c \in {"upts", "udev", "usys", "uproc"}
    /\ dev' = IF c = "upts" THEN UmountPts(dev) ELSE dev
    /\ sys' = IF c = "usys" THEN 0 ELSE sys
    /\ proc' = IF c = "uproc" THEN Less(proc) ELSE proc
    /\ Advance
    /\ UNCHANGED << trap, mine, disk >>

\* One umount for each mount point that is one.
UmountLeft(c) ==
    /\ Now(c)
    /\ \/ c = "upts" /\ dev' = UmountPts(dev) /\ UNCHANGED << proc, sys >>
       \/ c = "udev" /\ dev' = UmountDev(dev) /\ UNCHANGED << proc, sys >>
       \/ c = "usys" /\ sys' = 0 /\ UNCHANGED << proc, dev >>
       \/ c = "uproc" /\ proc' = Less(proc) /\ UNCHANGED << sys, dev >>
    /\ Advance
    /\ UNCHANGED << trap, mine, disk >>

\* tar follows mount points too.
Tar ==
    /\ Now("tar")
    /\ tarball' = [parts |-> tree \cap Baked, dev |-> IF DevMounted THEN {} ELSE nodes,
                   mounted |-> Mounted]
    /\ Go
    /\ UNCHANGED << hostdev, keyring, tree, nodes >>

-----------------------------------------------------------------------------
Command == \/ FetchKeyring \/ RemoveTarget \/ Debootstrap
           \/ SecondStage \/ DevNodesGuard \/ DevNodesDone \/ CopyKeyring
           \/ \E n \in Node : Mknod(n)
           \/ \E c \in {"proc", "sys", "dev", "pts"} : Mount(c)
           \/ SetTrap
           \/ \E c \in Piece : Install(c)
           \/ \E c \in {"upts", "udev", "usys", "uproc"} : UmountLeft(c)
           \/ Tar \/ ExitZero

Next == \/ \E k \in Stage : Start(k)
        \/ Command
        \/ Tolerated \/ Aborted \/ Killed \/ Reboot

Spec == Init /\ [][Next]_vars

-----------------------------------------------------------------------------
(* Properties.                                                             *)

\* dev-nodes.sh never makes a node on the host: not in a first run and not
\* in one after a run that left /dev mounted (dev-nodes.sh:31-34).
NodesStayInTree == hostdev # "grown"

\* Between scripts nothing of the host is mounted in the target, unless a
\* script ended between its first mount and its trap, or was killed
\* (stage 2:46-51, stage 3:14-19).
CleanUnlessStray == stage = 0 /\ strays = 0 => ~Mounted

\* Once stage 2 has exited 0 the tree holds everything the box needs to
\* boot, however often stages were broken off before, and none of the later
\* runs of the package manager takes it away (stage 2:73-84).
StageTwoBakes == done >= 2 => Baked \subseteq tree /\ nodes = Node

\* What stage 4 packs is the whole tree with its own /dev and nothing of the
\* host, even if one script before it left its mounts (stage 4:9-10).
PackedIsWhole ==
    stage = 4 /\ Now("end") /\ strays <= 1 =>
        /\ ~tarball.mounted
        /\ tarball.dev = Node
        /\ tarball.parts = Baked
=============================================================================
