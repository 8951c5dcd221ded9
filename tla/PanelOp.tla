------------------------------ MODULE PanelOp ------------------------------
(***************************************************************************)
(* panel-op (src/nas-panel/panel-op), the one program the web panel runs   *)
(* as root: the verbs that change users and shares, command by command, as *)
(* the CGIs start them, several at a time and without any lock; and smbd,  *)
(* which reads smb.conf when it is told to reload.                         *)
(*                                                                         *)
(* smb.conf is a sequence of sections of equal length; names satisfy       *)
(* NAME_RE and passwords the length test, which only reject input.         *)
(***************************************************************************)
EXTENDS Integers, Sequences, FiniteSets

CONSTANTS
    Proc,              \* the invocations that may be running at a time
    Name,              \* names of users and of shares
    Alpha,             \* the administrator's account
    PROTECTED_USERS, PROTECTED_SHARES,
    InitConf,          \* the sections setup wrote to smb.conf
    InitUid,           \* the accounts there are at first, with their numbers
    Uid,               \* the numbers adduser gives out
    Ops,               \* the invocations the panel makes
    Faults,            \* the commands that may fail for a reason of their own
    MaxSections,       \* bound on the sections of smb.conf
    PowerCuts          \* TRUE if the power may fail

None    == "none"  \* no owner
Root    == 0       \* root's number
Missing == -1      \* no account and no directory has this number
Type == {"system", "private", "family", "guest"}
Section == [name : Name, typ : Type, owner : Name \cup {None}]

Op == [verb : {"user-add"}, n : Name, share : BOOLEAN, blank : BOOLEAN]
      \cup [verb : {"user-pass"}, n : Name, blank : BOOLEAN]
      \cup [verb : {"user-admin"}, n : Name, on : BOOLEAN]
      \cup [verb : {"user-del", "share-del"}, n : Name]
      \cup [verb : {"share-add"}, n : Name, typ : {"private", "family", "guest"},
            owner : Name]

ASSUME PanelOpAssumption ==
    /\ Alpha \in PROTECTED_USERS
    /\ PROTECTED_USERS \subseteq Name /\ PROTECTED_SHARES \subseteq Name
    /\ InitConf \in Seq(Section)
    /\ PROTECTED_USERS \subseteq DOMAIN InitUid /\ DOMAIN InitUid \subseteq Name
    /\ InitUid \in [DOMAIN InitUid -> Nat] /\ Uid \subseteq Nat
    /\ Ops \subseteq Op
    /\ None \notin Name
    /\ MaxSections \in Nat /\ PowerCuts \in BOOLEAN

VARIABLES
    pc,        \* the command each invocation is about to run
    op,        \* its arguments, or the last ones
    tmp,       \* its mktemp file
    reply,     \* what it printed: "none" while it runs, then "OK" or "ERR"
    smb,       \* /etc/samba/smb.conf
    conf,      \* the configuration smbd has loaded
    hup,       \* smbd has been sent a reload it has not carried out
    unix,      \* Unix accounts
    uid,       \* the number of each, Missing for a name without an account
    pdb,       \* Samba password of each name, "absent" for no Samba account
    users,     \* members of group users
    smbadmins, \* members of group smbadmins
    dir,       \* the number that owns /srv/nas/<name>, Missing while it does not exist
    touched,   \* history: the invocations that have truncated smb.conf,
    unnoticed, \*   those with a failed command whose result is not looked at, and
    astray     \*   the shares whose mkdir or chown failed or whose owner was deleted

history  == << touched, unnoticed, astray >>
proc     == << pc, op, tmp, reply >>
accounts == << unix, uid, pdb, users, smbadmins >>
samba    == << conf, hup >>
vars     == << proc, smb, samba, accounts, dir, history >>

NoOp == [verb |-> "share-del", n |-> Alpha]

Has(f, n)      == \E i \in DOMAIN f : f[i].name = n
Fails(command) == command \in Faults

\* The one sequence of the sections of f that are not named n, in their order.
Without(f, n) ==
    LET Kept == {i \in DOMAIN f : f[i].name # n}
        Ascending == {e \in [1 .. Cardinality(Kept) -> Kept] :
                         \A i, j \in DOMAIN e : i < j => e[i] < e[j]}
    IN  {[i \in DOMAIN e |-> f[e[i]]] : e \in Ascending}

TypeOK ==
    /\ pc \in [Proc -> {"idle", "id", "adduser", "usermod", "smbpasswd-a",
                        "smbpasswd-n", "smbpasswd-x", "grep", "mkdir", "add",
                        "del", "awk", "trunc", "write", "reload", "deluser"}]
    /\ op \in [Proc -> Op]
    /\ tmp \in [Proc -> Seq(Section)]
    /\ touched \subseteq Proc /\ unnoticed \subseteq Proc /\ astray \subseteq Name
    /\ reply \in [Proc -> {"none", "OK", "ERR"}]
    /\ smb \in Seq(Section) /\ conf \in Seq(Section)
    /\ hup \in BOOLEAN
    /\ unix \subseteq Name /\ users \subseteq Name /\ smbadmins \subseteq Name
    /\ pdb \in [Name -> {"absent", "temp", "blank", "set"}]
    /\ uid \in [Name -> Nat \cup {Missing}] /\ dir \in [Name -> Nat \cup {Missing}]

Init ==
    /\ pc = [p \in Proc |-> "idle"] /\ op = [p \in Proc |-> NoOp]
    /\ tmp = [p \in Proc |-> << >>] /\ reply = [p \in Proc |-> "none"]
    /\ touched = {} /\ unnoticed = {} /\ astray = {}
    /\ smb = InitConf /\ conf = InitConf /\ hup = FALSE
    /\ unix = DOMAIN InitUid /\ users = {} /\ smbadmins = {Alpha}
    /\ uid = [n \in Name |-> IF n \in unix THEN InitUid[n] ELSE Missing]
    /\ pdb = [n \in Name |-> IF n = Alpha THEN "set" ELSE "absent"]
    /\ dir = [n \in Name |-> IF ~Has(InitConf, n) THEN Missing
                              ELSE IF n = Alpha THEN InitUid[Alpha] ELSE Root]

-----------------------------------------------------------------------------
(* Helpers: where an invocation goes, and how it ends.                     *)

Goto(p, l) == pc' = [pc EXCEPT ![p] = l] /\ UNCHANGED reply

\* echo "OK: ..." at the end of a verb.
Ok(p) == /\ pc' = [pc EXCEPT ![p] = "idle"]
         /\ reply' = [reply EXCEPT ![p] = "OK"]

\* die()
Die(p) == /\ pc' = [pc EXCEPT ![p] = "idle"]
          /\ reply' = [reply EXCEPT ![p] = "ERR"]

\* Nobody looks at the result of the command that has just failed.
Unnoticed(p) == unnoticed' = unnoticed \cup {p}

At(p, l, verbs) == pc[p] = l /\ op[p].verb \in verbs

\* An invocation starts with the checks that look at its arguments alone and,
\* for some verbs, the one command that is its first and decides how it goes on.
Begin(p, o) ==
    /\ pc[p] = "idle" /\ o \in Ops
    /\ op' = [op EXCEPT ![p] = o]
    /\ touched' = touched \ {p} /\ unnoticed' = unnoticed \ {p}
    /\ UNCHANGED << tmp, smb, samba, accounts, dir, astray >>

Running(p, l) == pc' = [pc EXCEPT ![p] = l] /\ reply' = [reply EXCEPT ![p] = "none"]

-----------------------------------------------------------------------------
(* The verbs.                                                              *)

UserAddStarts(p, o) ==
    /\ o.verb = "user-add" /\ (o.share => Len(smb) < MaxSections)
    /\ Begin(p, o)
    /\ IF o.n \in PROTECTED_USERS THEN Die(p) ELSE Running(p, "id")

\* Mutated form: the Samba account is left to be forgotten.
UserDelStartsWithShare(p, o) ==
    /\ o.verb = "user-del"
    /\ Begin(p, o)
    /\ IF o.n \in PROTECTED_USERS THEN Die(p) ELSE Running(p, "grep")

UserDelStarts(p, o) ==
    /\ o.verb = "user-del"
    /\ Begin(p, o)
    /\ IF o.n \in PROTECTED_USERS THEN Die(p) ELSE Running(p, "smbpasswd-x")

ShareDelStarts(p, o) ==
    /\ o.verb = "share-del"
    /\ Begin(p, o)
    /\ IF o.n \in PROTECTED_SHARES \/ ~Has(smb, o.n) THEN Die(p) ELSE Running(p, "del")

\* Mutated form: no look whether the share exists.
ShareAddStartsUnchecked(p, o) ==
    /\ o.verb = "share-add" /\ Len(smb) < MaxSections
    /\ Begin(p, o)
    /\ IF o.typ = "private" /\ o.owner \notin unix THEN Die(p) ELSE Running(p, "mkdir")

\* The owner is looked up right after the grep.
ShareAddStarts(p, o) ==
    /\ o.verb = "share-add" /\ Len(smb) < MaxSections
    /\ Begin(p, o)
    /\ IF Has(smb, o.n) \/ (o.typ = "private" /\ o.owner \notin unix)
       THEN Die(p) ELSE Running(p, "mkdir")

UserPassStarts(p, o) ==
    /\ o.verb = "user-pass"
    /\ Begin(p, o)
    /\ IF pdb[o.n] = "absent" THEN Die(p)
       ELSE Running(p, IF o.blank THEN "smbpasswd-n" ELSE "smbpasswd-a")

UserAdminStarts(p, o) ==
    /\ o.verb = "user-admin"
    /\ Begin(p, o)
    /\ IF o.n = Alpha \/ o.n \notin unix THEN Die(p) ELSE Running(p, "usermod")

\* id -u "$u" || adduser ...
Id(p) ==
    /\ At(p, "id", {"user-add"})
    /\ Goto(p, IF op[p].n \in unix THEN "usermod" ELSE "adduser")
    /\ UNCHANGED << op, tmp, history, smb, samba, accounts, dir >>

\* adduser takes the lowest number in its range that no account has now.
Adduser(p) ==
    LET Free == {u \in Uid : \A n \in unix : uid[n] # u}
    IN  /\ At(p, "adduser", {"user-add"})
        /\ \/ /\ op[p].n \notin unix
              /\ \E u \in Free : /\ \A v \in Free : u <= v
                                 /\ uid' = [uid EXCEPT ![op[p].n] = u]
              /\ unix' = unix \cup {op[p].n}
              /\ Goto(p, "usermod")
           \/ /\ op[p].n \in unix \/ Free = {} \/ Fails("adduser")
              /\ UNCHANGED << unix, uid >>
              /\ Die(p)
        /\ UNCHANGED << op, tmp, history, pdb, users, smbadmins, smb, samba, dir >>

\* usermod -aG users, whose result nobody looks at.
UsermodUsers(p) ==
    /\ At(p, "usermod", {"user-add"})
    /\ \/ /\ op[p].n \in unix
          /\ users' = users \cup {op[p].n} /\ UNCHANGED unnoticed
       \/ /\ op[p].n \notin unix \/ Fails("usermod")
          /\ UNCHANGED users /\ Unnoticed(p)
    /\ Goto(p, "smbpasswd-a")
    /\ UNCHANGED << op, tmp, touched, astray, unix, uid, pdb, smbadmins, smb, samba, dir >>

\* usermod -aG smbadmins or gpasswd -d: nor at theirs.
UsermodAdmins(p) ==
    LET u == op[p].n
    IN  /\ At(p, "usermod", {"user-admin"})
        /\ \/ /\ op[p].on => u \in unix
              /\ smbadmins' = IF op[p].on THEN smbadmins \cup {u} ELSE smbadmins \ {u}
              /\ UNCHANGED unnoticed
           \/ /\ (op[p].on /\ u \notin unix) \/ Fails("usermod")
              /\ UNCHANGED smbadmins /\ Unnoticed(p)
        /\ Ok(p)
        /\ UNCHANGED << op, tmp, touched, astray, unix, uid, pdb, users, smb, samba, dir >>

\* user-add: smbpasswd -a, with the built-in password when none was given; it
\* wants a Unix account.  user-pass: smbpasswd -s, which wants a Samba one.
SmbpasswdSet(p) ==
    LET u    == op[p].n
        add  == op[p].verb = "user-add"
        able == IF add THEN u \in unix ELSE pdb[u] # "absent"
    IN  /\ At(p, "smbpasswd-a", {"user-add", "user-pass"})
        /\ \/ /\ able
              /\ pdb' = [pdb EXCEPT ![u] = IF op[p].blank THEN "temp" ELSE "set"]
              /\ IF ~add THEN Ok(p)
                 ELSE Goto(p, IF op[p].blank THEN "smbpasswd-n" ELSE "grep")
           \/ /\ ~able \/ Fails("smbpasswd-a")
              /\ UNCHANGED pdb
              /\ Die(p)
        /\ UNCHANGED << op, tmp, history, unix, uid, users, smbadmins, smb, samba, dir >>

\* smbpasswd -n: no password from now on.
SmbpasswdBlank(p) ==
    LET u == op[p].n
    IN  /\ At(p, "smbpasswd-n", {"user-add", "user-pass"})
        /\ \/ /\ pdb[u] # "absent"
              /\ pdb' = [pdb EXCEPT ![u] = "blank"]
              /\ IF op[p].verb = "user-pass" THEN Ok(p) ELSE Goto(p, "grep")
           \/ /\ pdb[u] = "absent" \/ Fails("smbpasswd-n")
              /\ UNCHANGED pdb
              /\ Die(p)
        /\ UNCHANGED << op, tmp, history, unix, uid, users, smbadmins, smb, samba, dir >>

\* [ "$withshare" = share ] && ! grep -q ...
Grep(p) ==
    /\ At(p, "grep", {"user-add"})
    /\ IF op[p].share /\ ~Has(smb, op[p].n) THEN Goto(p, "mkdir") ELSE Ok(p)
    /\ UNCHANGED << op, tmp, history, smb, samba, accounts, dir >>

\* Mutated form: a share that is not private is root's.
NewSectionOfRoot(o) ==
    IF o.verb = "user-add"
    THEN [name |-> o.n, typ |-> "private", owner |-> o.n]
    ELSE [name |-> o.n, typ |-> o.typ,
          owner |-> IF o.typ = "private" THEN o.owner ELSE "root"]

\* user-add makes a private share of the user's, share-add what it was told.
NewSection(o) ==
    IF o.verb = "user-add"
    THEN [name |-> o.n, typ |-> "private", owner |-> o.n]
    ELSE [name |-> o.n, typ |-> o.typ,
          owner |-> IF o.typ = "private" THEN o.owner ELSE None]

DirOwner(o) == IF NewSection(o).typ = "private" THEN NewSection(o).owner ELSE Alpha

\* Mutated form: only a new directory is given to the owner.
MkdirKeepsOwner(p) ==
    LET n == op[p].n
    IN  /\ At(p, "mkdir", {"user-add", "share-add"})
        /\ DirOwner(op[p]) \in unix
        /\ dir' = [dir EXCEPT ![n] = IF @ # Missing THEN @ ELSE uid[DirOwner(op[p])]]
        /\ astray' = astray \ {n}
        /\ Goto(p, "add")
        /\ UNCHANGED << op, tmp, touched, unnoticed, smb, samba, accounts >>

\* Mutated form: the directory is the one of the owner's name.
MkdirOfOwner(p) ==
    /\ At(p, "mkdir", {"user-add", "share-add"})
    /\ DirOwner(op[p]) \in unix
    /\ dir' = [dir EXCEPT ![DirOwner(op[p])] = uid[DirOwner(op[p])]]
    /\ Goto(p, "add")
    /\ UNCHANGED << op, tmp, history, smb, samba, accounts >>

\* mkdir -p and chown, which records the number the owner's account has now.
\* Nobody looks at their results; what mkdir has made is root's until the chown.
Mkdir(p) ==
    LET n == op[p].n
    IN  /\ At(p, "mkdir", {"user-add", "share-add"})
        /\ \/ /\ DirOwner(op[p]) \in unix
              /\ dir' = [dir EXCEPT ![n] = uid[DirOwner(op[p])]]
              /\ astray' = astray \ {n} /\ UNCHANGED unnoticed
           \/ /\ \/ /\ DirOwner(op[p]) \notin unix \/ Fails("chown")
                    /\ dir' = [dir EXCEPT ![n] = IF @ = Missing THEN Root ELSE @]
                 \/ Fails("mkdir") /\ dir[n] = Missing /\ UNCHANGED dir
              /\ astray' = astray \cup {n} /\ Unnoticed(p)
        /\ Goto(p, "add")
        /\ UNCHANGED << op, tmp, touched, smb, samba, accounts >>

\* mktemp fails or testparm refuses the copy, which it may when it came out short.
Rejected(p) ==
    /\ Fails("mktemp") \/ Fails("testparm") \/ Fails("cat")
    /\ UNCHANGED << tmp, unnoticed >> /\ Die(p)

\* The copy is past testparm; one that came out short has not been noticed.
Accepted(p, copy, whole) ==
    /\ tmp' = [tmp EXCEPT ![p] = copy] /\ Goto(p, "trunc")
    /\ \/ copy = whole /\ UNCHANGED unnoticed
       \/ Fails("cat") /\ Unnoticed(p)

\* Mutated form: the section is added in place and testparm looks at the result.
AddSectionInPlace(p) ==
    /\ At(p, "add", {"user-add", "share-add"})
    /\ Len(smb) < MaxSections
    /\ smb' = Append(smb, NewSection(op[p]))
    /\ touched' = touched \cup {p}
    /\ Accepted(p, smb', smb') \/ Rejected(p)
    /\ UNCHANGED << op, astray, samba, accounts, dir >>

\* share_add_block(): a copy of smb.conf and the new section; neither cat's
\* result is looked at.
AddSection(p) ==
    /\ At(p, "add", {"user-add", "share-add"})
    /\ Len(smb) < MaxSections
    /\ \/ \E k \in 0 .. Len(smb), added \in {<< >>, << NewSection(op[p]) >>} :
             Accepted(p, SubSeq(smb, 1, k) \o added, Append(smb, NewSection(op[p])))
       \/ Rejected(p)
    /\ UNCHANGED << op, touched, astray, smb, samba, accounts, dir >>

\* share_del_block(): grep || return 1, which share-del and user-del ignore.
GrepSection(p) ==
    /\ At(p, "grep", {"user-del"}) \/ At(p, "del", {"share-del"})
    /\ IF Has(smb, op[p].n) THEN Goto(p, "awk")
       ELSE IF op[p].verb = "share-del" THEN Ok(p) ELSE Goto(p, "deluser")
    /\ UNCHANGED << op, tmp, history, smb, samba, accounts, dir >>

\* Mutated form: testparm's refusal is a return 1, like the grep's.
DropSectionGoesOn(p) ==
    /\ At(p, "awk", {"user-del", "share-del"})
    /\ \/ \E f \in Without(smb, op[p].n) : Accepted(p, f, f)
       \/ /\ Fails("testparm") /\ UNCHANGED << tmp, unnoticed >>
          /\ IF op[p].verb = "share-del" THEN Ok(p) ELSE Goto(p, "deluser")
    /\ UNCHANGED << op, touched, astray, smb, samba, accounts, dir >>

\* ... and a copy of smb.conf without the section, past testparm; its die()
\* ends user-del, too.
DropSection(p) ==
    /\ At(p, "awk", {"user-del", "share-del"})
    /\ \/ \E f \in Without(smb, op[p].n) : \E k \in 0 .. Len(f) :
             Accepted(p, SubSeq(f, 1, k), f)
       \/ Rejected(p)
    /\ UNCHANGED << op, touched, astray, smb, samba, accounts, dir >>

\* cat "$tmp" > "$SMB": the shell truncates the file, or cannot open it and goes
\* on to the rm.
Truncate(p) ==
    /\ pc[p] = "trunc"
    /\ \/ /\ smb' = << >> /\ touched' = touched \cup {p}
          /\ Goto(p, "write")
          /\ UNCHANGED << tmp, unnoticed >>
       \/ /\ Fails("cat") /\ Unnoticed(p)
          /\ tmp' = [tmp EXCEPT ![p] = << >>]
          /\ Goto(p, "reload")
          /\ UNCHANGED << smb, touched >>
    /\ UNCHANGED << op, astray, samba, accounts, dir >>

\* Mutated form: share-del leaves the reload to the next verb.
WriteWithoutReload(p) ==
    /\ pc[p] = "write"
    /\ smb' = tmp[p] \o SubSeq(smb, Len(tmp[p]) + 1, Len(smb))
    /\ tmp' = [tmp EXCEPT ![p] = << >>]
    /\ IF op[p].verb = "share-del" THEN Ok(p) ELSE Goto(p, "reload")
    /\ UNCHANGED << op, history, samba, accounts, dir >>

\* Then cat writes from the file's start, over whatever another invocation has
\* put there meanwhile, all of the copy or what the disk has room for; the copy
\* goes.
Write(p) ==
    /\ pc[p] = "write"
    /\ \E k \in 0 .. Len(tmp[p]) :
          /\ smb' = SubSeq(tmp[p], 1, k) \o SubSeq(smb, k + 1, Len(smb))
          /\ \/ k = Len(tmp[p]) /\ UNCHANGED unnoticed
             \/ Fails("cat") /\ Unnoticed(p)
    /\ tmp' = [tmp EXCEPT ![p] = << >>]
    /\ Goto(p, "reload")
    /\ UNCHANGED << op, touched, astray, samba, accounts, dir >>

\* reload_smb(), another result nobody looks at.
Reload(p) ==
    /\ pc[p] = "reload"
    /\ \/ hup' = TRUE /\ UNCHANGED unnoticed
       \/ Fails("reload") /\ UNCHANGED hup /\ Unnoticed(p)
    /\ IF op[p].verb = "user-del" THEN Goto(p, "deluser") ELSE Ok(p)
    /\ UNCHANGED << op, tmp, touched, astray, smb, conf, accounts, dir >>

\* pdbedit -L | grep -q ... && smbpasswd -x; the verb goes on if that fails.
SmbpasswdDelete(p) ==
    /\ At(p, "smbpasswd-x", {"user-del"})
    /\ \/ pdb' = [pdb EXCEPT ![op[p].n] = "absent"] /\ UNCHANGED unnoticed
       \/ Fails("smbpasswd-x") /\ UNCHANGED pdb /\ Unnoticed(p)
    /\ Goto(p, "grep")
    /\ UNCHANGED << op, tmp, touched, astray, unix, uid, users, smbadmins, smb, samba, dir >>

\* id -u "$u" && deluser, which takes the account out of its groups and frees its
\* number; the verb says OK whatever comes of it.
Deluser(p) ==
    LET u == op[p].n
    IN  /\ At(p, "deluser", {"user-del"})
        /\ \/ /\ unix' = unix \ {u} /\ uid' = [uid EXCEPT ![u] = Missing]
              /\ users' = users \ {u} /\ smbadmins' = smbadmins \ {u}
              /\ astray' = astray \cup
                     {smb[i].name : i \in {j \in DOMAIN smb : smb[j].owner = u}}
              /\ UNCHANGED unnoticed
           \/ /\ Fails("deluser") /\ Unnoticed(p)
              /\ UNCHANGED << unix, uid, users, smbadmins, astray >>
        /\ Ok(p)
        /\ UNCHANGED << op, tmp, touched, pdb, smb, samba, dir >>

-----------------------------------------------------------------------------
(* smbd and the machine.                                                   *)

SmbdReloads ==
    /\ hup
    /\ hup' = FALSE /\ conf' = smb
    /\ UNCHANGED << proc, smb, accounts, dir, history >>

\* The power fails and comes back: no invocation is left, smbd reads smb.conf
\* as it was found.
PowerCut ==
    /\ PowerCuts
    /\ pc' = [p \in Proc |-> "idle"] /\ reply' = [p \in Proc |-> "none"]
    /\ hup' = FALSE /\ conf' = smb
    /\ tmp' = [p \in Proc |-> << >>]
    /\ UNCHANGED << op, history, smb, accounts, dir >>

-----------------------------------------------------------------------------

Start(p) == \E o \in Ops : \/ UserAddStarts(p, o)  \/ UserDelStarts(p, o)
                           \/ UserPassStarts(p, o) \/ UserAdminStarts(p, o)
                           \/ ShareAddStarts(p, o) \/ ShareDelStarts(p, o)

Continue(p) == \/ Id(p) \/ Adduser(p) \/ UsermodUsers(p) \/ UsermodAdmins(p)
               \/ SmbpasswdSet(p) \/ SmbpasswdBlank(p) \/ SmbpasswdDelete(p)
               \/ Grep(p) \/ Mkdir(p) \/ AddSection(p)
               \/ GrepSection(p) \/ DropSection(p)
               \/ Truncate(p) \/ Write(p) \/ Reload(p) \/ Deluser(p)

Next == \/ \E p \in Proc : Start(p) \/ Continue(p)
        \/ SmbdReloads \/ PowerCut

Spec == Init /\ [][Next]_vars

-----------------------------------------------------------------------------
(* Properties.                                                             *)

Quiescent == \A p \in Proc : pc[p] = "idle"

\* Every invocation reloads smbd after its own write, so that once all have
\* ended and smbd has caught up it runs what smb.conf says, whoever wrote last,
\* however the writes were interleaved or came short, as long as the reloads work.
SmbdCatchesUp == Quiescent /\ ~hup => conf = smb

\* The rest holds of invocations that do not overlap.

\* The greps before share_add_block() keep a section from being added twice.
UniqueSections ==
    \A i, j \in DOMAIN smb : smb[i].name = smb[j].name => i = j

\* A private share's directory belongs, by number, to the account its section
\* names, whoever had the name or the number before; unless the mkdir or chown
\* failed or the owner's account was deleted since, which frees the number.
DirMatchesOwner ==
    \A i \in DOMAIN smb :
        smb[i].typ = "private" /\ smb[i].name \notin astray =>
            /\ smb[i].owner \in unix
            /\ dir[smb[i].name] = uid[smb[i].owner]

\* user-del takes the Samba account away before the Unix account, as long as
\* smbpasswd -x does its work.
SambaUserHasAccount ==
    \A u \in Name : pdb[u] # "absent" => u \in unix

\* What a verb whose last command has run says OK to whatever its other commands
\* have done: these are the results it looks at.
Assured(o) ==
    /\ o.verb = "user-add" => o.n \in unix
    /\ o.verb \in {"user-add", "user-pass"} => pdb[o.n] = IF o.blank THEN "blank" ELSE "set"

\* What the verb is for.
Done(o) ==
    CASE o.verb = "user-add" ->
             o.n \in users /\ (o.share => Has(smb, o.n))
      [] o.verb = "user-pass"  -> TRUE
      [] o.verb = "user-admin" -> o.n \in smbadmins <=> o.on
      [] o.verb = "user-del"   -> /\ pdb[o.n] = "absent" /\ o.n \notin unix
                                  /\ o.n \notin smbadmins /\ ~Has(smb, o.n)
      [] o.verb = "share-add"  -> /\ \E i \in DOMAIN smb : smb[i] = NewSection(o)
                                  /\ dir[o.n] = uid[DirOwner(o)]
      [] OTHER                 -> ~Has(smb, o.n)

\* An OK says that the account and the password are what was asked for (the
\* built-in password, for one, is never what user-add leaves behind), and that all
\* else the verb is for is done unless a command failed that nobody looks at.
OkMeansDone ==
    \A p \in Proc : pc[p] = "idle" /\ reply[p] = "OK" =>
        Assured(op[p]) /\ (p \notin unnoticed => Done(op[p]))

\* An ERR from any verb, testparm's refusal included, means that the invocation
\* has not written smb.conf, not even to truncate it.
ErrLeavesConf ==
    \A p \in Proc : pc[p] = "idle" /\ reply[p] = "ERR" => p \notin touched

-----------------------------------------------------------------------------
(* What the documentation says and the code does not do.                   *)

Protected(f) == \A n \in PROTECTED_SHARES : Has(InitConf, n) => Has(f, n)

\* docs/09-web-panel.md:16: "protected user/share lists block foot-guns from
\* the UI".  share-del asks PROTECTED_SHARES, but user-del, which removes the
\* section of the same name, only asks PROTECTED_USERS.
ProtectedSharesStay == Quiescent => Protected(smb)

\* docs/09-web-panel.md:14-15: "every smb.conf change is testparm-gated - a bad
\* edit never reaches the running Samba".  What smbd loads is the file, not what
\* testparm saw: a reload sent for one invocation may find it truncated by
\* another, and a copy made then loses every other section.
SmbdKeepsProtected == Protected(conf)
=============================================================================
