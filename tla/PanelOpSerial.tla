--------------------------- MODULE PanelOpSerial ---------------------------
(***************************************************************************)
(* panel-op whose invocations do not overlap, seen as a Registry: what it  *)
(* shows changes once per verb, when the last command has run, whatever    *)
(* the file and the accounts went through in between.                      *)
(***************************************************************************)
EXTENDS PanelOp

VARIABLE shown      \* history: the registry when no invocation was running last

svars == << vars, shown >>

\* The sections of a file, in whatever order.
Sections(f) == {f[i] : i \in DOMAIN f}

\* What there is now.
Current ==
    [unix |-> unix, uid |-> uid, pdb |-> pdb, users |-> users, smbadmins |-> smbadmins,
     shares |-> Sections(smb), dir |-> dir]

SInit == Init /\ shown = Current

SNext == Next /\ shown' = IF Quiescent' THEN Current' ELSE shown

SSpec == SInit /\ [][SNext]_svars

-----------------------------------------------------------------------------

R == INSTANCE Registry WITH
        Client      <- Proc,
        FirstShares <- Sections(InitConf),
        FirstUid    <- InitUid,
        Silent      <- Faults,
        unix        <- shown.unix,
        uid         <- shown.uid,
        pdb         <- shown.pdb,
        users       <- shown.users,
        smbadmins   <- shown.smbadmins,
        shares      <- shown.shares,
        dir         <- shown.dir,
        pending     <- {p \in Proc : pc[p] # "idle"},
        request     <- op,
        answer      <- reply

\* A verb of panel-op is a transaction, as long as it does not overlap with another.
\* It is a dozen commands, any of which may fail: it answers OK and has done all it is
\* for, up to what Registry says of commands whose result nobody looks at; or it answers
\* ERR and leaves no more than Registry lists, never a changed smb.conf.  Accounts,
\* numbers, passwords, groups and directories of every other name it leaves alone, and
\* other sections too if smb.conf is written out.
RegistrySpec == R!Spec
=============================================================================
