----------------------------- MODULE MCPanelOp -----------------------------
(***************************************************************************)
(* Instances of PanelOp for TLC: the administrator alpha, the protected    *)
(* share public, and bob and eve, who come and go.                         *)
(***************************************************************************)
EXTENDS PanelOp, TLC

CONSTANTS alpha, public, bob, eve

\* What setup leaves in smb.conf: one section stands for [global], [public] and
\* [alpha], all of them protected.
MCConf == << [name |-> public, typ |-> "system", owner |-> None] >>

\* Setup made alpha's account.  The distribution may have made bob's, as it makes
\* games'.
MCUid     == alpha :> 1000
SystemUid == MCUid @@ bob :> 5

\* The verbs that write smb.conf, on two names, by several invocations.
WriterOps ==
    [verb : {"user-add"}, n : {bob}, share : {TRUE}, blank : {FALSE}]
    \cup [verb : {"user-del"}, n : {bob}]
    \cup [verb : {"share-add"}, n : {eve}, typ : {"family"}, owner : {bob}]
    \cup [verb : {"share-del"}, n : {eve}]

\* Every verb, so that each overlaps with each: bob comes, goes and changes, eve's
\* share is what another invocation has in its copy of smb.conf, or not.
OverlapOps ==
    [verb : {"user-add"}, n : {bob}, share : {TRUE}, blank : {TRUE}]
    \cup [verb : {"user-pass"}, n : {bob}, blank : {FALSE}]
    \cup [verb : {"user-admin"}, n : {bob}, on : {TRUE}]
    \cup [verb : {"user-del", "share-del"}, n : {bob}]
    \cup [verb : {"share-add"}, n : {eve}, typ : {"family"}, owner : {bob}]

\* The panel's verbs that remove something, on a protected share's name.
RemoverOps == [verb : {"user-del", "share-del"}, n : {public, bob}]

\* Two invocations are interchangeable.
Symm == Permutations(Proc)

\* No guard reads the history, nor what an invocation that has ended was and said.
ProgramView ==
    << [p \in Proc |-> IF pc[p] = "idle" THEN NoOp ELSE op[p]],
       pc, tmp, smb, samba, accounts, dir >>
=============================================================================
