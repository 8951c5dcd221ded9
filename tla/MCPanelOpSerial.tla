-------------------------- MODULE MCPanelOpSerial --------------------------
(***************************************************************************)
(* Instance of PanelOpSerial for TLC: the administrator alpha, the         *)
(* protected share public, and bob and eve, who come and go.               *)
(***************************************************************************)
EXTENDS PanelOpSerial, TLC

CONSTANTS alpha, public, bob, eve

\* What setup leaves in smb.conf: one section stands for [global], [public] and
\* [alpha], all of them protected.
MCConf == << [name |-> public, typ |-> "system", owner |-> None] >>

MCUid == alpha :> 1000

\* Every verb and option on bob, who may own a share of eve's name, too; eve's
\* account comes and goes, with the number bob's had; a protected name for each list.
AllOps ==
    [verb : {"user-add"}, n : {bob}, share : {TRUE}, blank : BOOLEAN]
    \cup [verb : {"user-add"}, n : {eve}, share : {FALSE}, blank : {FALSE}]
    \cup [verb : {"user-pass"}, n : {bob}, blank : BOOLEAN]
    \cup [verb : {"user-admin"}, n : {bob}, on : BOOLEAN]
    \cup [verb : {"user-del"}, n : {bob, eve, alpha}]
    \cup [verb : {"share-del"}, n : {bob, eve, public}]
    \cup [verb : {"share-add"}, n : {eve}, typ : {"private", "family"}, owner : {bob}]

\* What smbd runs says nothing of the accounts, the file and the directories, and
\* what an invocation that was refused had been asked for matters no more: states
\* that differ in nothing else are one.
SerialView ==
    << [p \in Proc |-> IF reply[p] = "ERR" THEN NoOp ELSE op[p]],
       pc, tmp, reply, smb, accounts, dir, history, shown >>
=============================================================================
