------------------------ MODULE PanelOpAlone_proofs ------------------------
(***************************************************************************)
(* Proofs about panel-op whose invocations do not overlap, for any names,  *)
(* numbers, verbs, protected names, first accounts and smb.conf: any       *)
(* sequence of verbs, each of whose commands may fail.                     *)
(***************************************************************************)
EXTENDS PanelOpSerial, PanelOp_proofs

\* One invocation at a time; smb.conf begins with one section of each name, and its only
\* private one is the administrator's.
Alone == /\ \A p, q \in Proc : p = q
         /\ \A i, j \in DOMAIN InitConf : InitConf[i].name = InitConf[j].name => i = j
         /\ \A i \in DOMAIN InitConf : InitConf[i].typ = "private" =>
               InitConf[i].name = Alpha /\ InitConf[i].owner = Alpha

\* UniqueSections and DirMatchesOwner of a copy that is to become smb.conf.
Unique(f) == \A i, j \in DOMAIN f : f[i].name = f[j].name => i = j
Owned(s) == s.typ = "private" /\ s.name \notin astray =>
               s.owner \in unix /\ dir[s.name] = uid[s.owner]
Matches(f) == \A i \in DOMAIN f : Owned(f[i])

\* What a verb is to make of smb.conf.
Adds == {"user-add", "share-add"}
Effect(o, f) == IF o.verb \in Adds THEN \E i \in DOMAIN f : f[i] = NewSection(o)
                ELSE ~Has(f, o.n)

\* The commands of each verb.
Flow(p) ==
    /\ pc[p] \in {"id", "adduser"} => op[p].verb = "user-add"
    /\ pc[p] = "usermod" => op[p].verb \in {"user-add", "user-admin"}
    /\ pc[p] \in {"smbpasswd-a", "smbpasswd-n"} => op[p].verb \in {"user-add", "user-pass"}
    /\ pc[p] \in {"smbpasswd-x", "deluser"} => op[p].verb = "user-del"
    /\ pc[p] = "grep" => op[p].verb \in {"user-add", "user-del"}
    /\ pc[p] \in {"mkdir", "add"} => op[p].verb \in Adds
    /\ pc[p] = "del" => op[p].verb = "share-del"
    /\ pc[p] = "awk" => op[p].verb \in {"user-del", "share-del"}
    /\ pc[p] \in {"trunc", "write", "reload"} =>
          op[p].verb \in {"user-add", "share-add", "user-del", "share-del"}
    /\ pc[p] = "smbpasswd-n" => op[p].blank
    /\ pc[p] = "smbpasswd-a" /\ op[p].verb = "user-pass" => ~op[p].blank

\* What a verb has done to the accounts by the time it is at a command.
Accounts(p) ==
    /\ op[p].verb = "user-add" =>
          /\ pc[p] \notin {"idle", "id", "adduser"} => op[p].n \in unix
          /\ pc[p] \notin {"idle", "id", "adduser", "usermod"} =>
                op[p].n \in users \/ p \in unnoticed
          /\ pc[p] \in {"grep", "mkdir", "add", "trunc", "write", "reload"} =>
                pdb[op[p].n] = IF op[p].blank THEN "blank" ELSE "set"
    /\ op[p].verb = "user-admin" /\ pc[p] = "usermod" => op[p].n \in unix
    /\ op[p].verb = "user-del" /\ pc[p] # "idle" => op[p].n \notin PROTECTED_USERS
    /\ op[p].verb = "user-del" /\ pc[p] \notin {"idle", "smbpasswd-x"} =>
          \/ pdb[op[p].n] = "absent"
          \/ Fails("smbpasswd-x") /\ p \in unnoticed
    /\ op[p].verb = "share-add" /\ op[p].typ = "private" /\ pc[p] # "idle" =>
          op[p].owner \in unix

\* ... and to smb.conf and the directory of the share.
File(p) ==
    /\ pc[p] \in {"mkdir", "add"} => ~Has(smb, op[p].n)
    /\ pc[p] = "add" => Owned(NewSection(op[p]))
    /\ /\ pc[p] \in {"add", "trunc", "write", "reload"}
       /\ op[p].verb \in Adds /\ p \notin unnoticed
       => dir[op[p].n] = uid[DirOwner(op[p])]
    /\ pc[p] \in {"trunc", "write"} =>
          /\ Unique(tmp[p]) /\ Matches(tmp[p])
          /\ p \in unnoticed \/ Effect(op[p], tmp[p])
    /\ pc[p] = "write" => smb = << >>
    /\ pc[p] = "reload" => p \in unnoticed \/ Effect(op[p], smb)
    /\ pc[p] = "deluser" => p \in unnoticed \/ ~Has(smb, op[p].n)

Local(p) == Flow(p) /\ Accounts(p) /\ File(p)

\* OkMeansDone of one invocation.
OkHolds(p) == pc[p] = "idle" /\ reply[p] = "OK" =>
                 Assured(op[p]) /\ (p \notin unnoticed => Done(op[p]))

\* What the run of one invocation checks of accounts and files.
Orderly == /\ Fails("smbpasswd-x") \/ SambaUserHasAccount
           /\ PROTECTED_USERS \subseteq unix
           /\ UniqueSections /\ DirMatchesOwner

AInv == TypeOK /\ Orderly /\ \A p \in Proc : OkHolds(p) /\ Local(p)

-----------------------------------------------------------------------------

LEMMA NewSectionFacts ==
    ASSUME NEW o, o.verb \in Adds
    PROVE  /\ NewSection(o).name = o.n
           /\ NewSection(o).typ = "private" =>
                 /\ DirOwner(o) = NewSection(o).owner
                 /\ IF o.verb = "user-add" THEN NewSection(o).owner = o.n
                    ELSE o.typ = "private" /\ NewSection(o).owner = o.owner
           /\ NewSection(o).typ # "private" => DirOwner(o) = Alpha
BY DEF NewSection, DirOwner, Adds

LEMMA InitHolds == Alone /\ Init => AInv
<1> SUFFICES ASSUME Alone, Init PROVE AInv
  OBVIOUS
<1>1. TypeOK
  BY TypeInit
<1>2. SambaUserHasAccount /\ PROTECTED_USERS \subseteq unix
  BY PanelOpAssumption DEF Init, SambaUserHasAccount
<1>3. UniqueSections
  BY DEF Init, UniqueSections, Alone
<1>4. DirMatchesOwner
  <2> SUFFICES ASSUME NEW i \in DOMAIN smb, smb[i].typ = "private"
               PROVE  smb[i].owner \in unix /\ dir[smb[i].name] = uid[smb[i].owner]
    BY DEF DirMatchesOwner
  <2>1. smb[i].name = Alpha /\ smb[i].owner = Alpha /\ Has(InitConf, Alpha)
    BY DEF Init, Alone, Has
  <2>2. Alpha \in unix /\ Alpha \in Name
    BY <1>2, PanelOpAssumption
  <2>3. dir[Alpha] = InitUid[Alpha] /\ uid[Alpha] = InitUid[Alpha]
    BY <2>1, <2>2 DEF Init
  <2> QED  BY <2>1, <2>2, <2>3
<1>5. ASSUME NEW p \in Proc PROVE OkHolds(p) /\ Local(p)
  <2>1. pc[p] = "idle" /\ reply[p] = "none"
    BY DEF Init
  <2> QED  BY <2>1 DEF OkHolds, Local, Flow, Accounts, File
<1> QED  BY <1>1, <1>2, <1>3, <1>4, <1>5 DEF AInv, Orderly

\* A command of the only invocation, seen from its own state.
LEMMA Lift ==
    ASSUME Alone, NEW p \in Proc, TypeOK', Orderly', OkHolds(p)', Local(p)'
    PROVE  AInv'
<1>1. \A q \in Proc : q = p
  BY DEF Alone
<1> QED  BY <1>1 DEF AInv

\* A command that leaves accounts and files alone.
LEMMA OrderlyStays ==
    ASSUME AInv, UNCHANGED << smb, unix, uid, pdb, dir, astray >>
    PROVE  Orderly'
BY DEF AInv, Orderly, SambaUserHasAccount, UniqueSections, DirMatchesOwner

\* Neither the files nor the accounts change in the first step of a verb.
LEMMA StartKeeps ==
    ASSUME AInv, Alone, NEW p \in Proc, Start(p)
    PROVE  AInv'
<1>1. PICK o \in Ops : \/ UserAddStarts(p, o)  \/ UserDelStarts(p, o)
                       \/ UserPassStarts(p, o) \/ UserAdminStarts(p, o)
                       \/ ShareAddStarts(p, o) \/ ShareDelStarts(p, o)
  BY DEF Start
<1>2. o \in Op
  BY PanelOpAssumption
<1>3. /\ op'[p] = o
      /\ UNCHANGED << tmp, smb, unix, uid, pdb, users, smbadmins, dir, astray >>
  BY <1>1 DEF AInv, TypeOK, Begin, accounts, UserAddStarts, UserDelStarts,
              UserPassStarts, UserAdminStarts, ShareAddStarts, ShareDelStarts
<1>4. \/ pc'[p] = "idle" /\ reply'[p] = "ERR"
      \/ /\ reply'[p] = "none"
         /\ \/ o.verb = "user-add" /\ pc'[p] = "id"
            \/ o.verb = "user-del" /\ pc'[p] = "smbpasswd-x" /\ o.n \notin PROTECTED_USERS
            \/ o.verb = "user-pass" /\ pc'[p] = IF o.blank THEN "smbpasswd-n" ELSE "smbpasswd-a"
            \/ o.verb = "user-admin" /\ pc'[p] = "usermod" /\ o.n \in unix
            \/ /\ o.verb = "share-add" /\ pc'[p] = "mkdir" /\ ~Has(smb, o.n)
               /\ o.typ = "private" => o.owner \in unix
            \/ o.verb = "share-del" /\ pc'[p] = "del"
  <2>1. CASE UserAddStarts(p, o)
    BY <2>1 DEF AInv, TypeOK, UserAddStarts, Die, Running
  <2>2. CASE UserDelStarts(p, o)
    BY <2>2 DEF AInv, TypeOK, UserDelStarts, Die, Running
  <2>3. CASE UserPassStarts(p, o)
    BY <2>3 DEF AInv, TypeOK, UserPassStarts, Die, Running
  <2>4. CASE UserAdminStarts(p, o)
    BY <2>4 DEF AInv, TypeOK, UserAdminStarts, Die, Running
  <2>5. CASE ShareAddStarts(p, o)
    BY <2>5 DEF AInv, TypeOK, ShareAddStarts, Die, Running
  <2>6. CASE ShareDelStarts(p, o)
    BY <2>6 DEF AInv, TypeOK, ShareDelStarts, Die, Running
  <2> QED  BY <1>1, <2>1, <2>2, <2>3, <2>4, <2>5, <2>6
<1>5. TypeOK'
  BY StartTypes DEF AInv
<1>6. Flow(p)' /\ Accounts(p)'
  BY <1>3, <1>4 DEF Flow, Accounts, Adds
<1>7. File(p)'
  BY <1>3, <1>4 DEF File, Has
<1>8. Orderly'
  BY <1>3, OrderlyStays
<1>9. OkHolds(p)'
  BY <1>4 DEF OkHolds
<1> QED  BY <1>5, <1>6, <1>7, <1>8, <1>9, Lift DEF Local

-----------------------------------------------------------------------------
(* The commands that deal with accounts.                                   *)

\* They leave smb.conf, its copy and the directories alone.
LEMMA AccountsKeep ==
    ASSUME AInv, Alone, NEW p \in Proc, TypeOK',
           UNCHANGED << op, tmp, smb, dir >>,
           pc'[p] \notin {"trunc", "write", "reload", "add"},
           pc'[p] = "mkdir" => ~Has(smb, op[p].n),
           pc'[p] = "deluser" => p \in unnoticed' \/ ~Has(smb, op[p].n),
           Flow(p)', Accounts(p)', Orderly', OkHolds(p)'
    PROVE  AInv'
<1>1. File(p)'
  BY DEF File, Has
<1> QED  BY <1>1, Lift DEF Local

\* A verb that dies at one of them.
LEMMA AccountsFail ==
    ASSUME AInv, Alone, NEW p \in Proc, TypeOK', Die(p),
           UNCHANGED << op, tmp, smb, dir, unix, uid, pdb, astray >>
    PROVE  AInv'
<1>1. pc'[p] = "idle" /\ reply'[p] = "ERR"
  BY DEF AInv, TypeOK, Die
<1>2. Flow(p)' /\ Accounts(p)' /\ OkHolds(p)'
  BY <1>1 DEF Flow, Accounts, OkHolds
<1>3. Orderly'
  BY OrderlyStays
<1> QED  BY <1>1, <1>2, <1>3, AccountsKeep

LEMMA IdAdduserKeep ==
    ASSUME AInv, Alone, NEW p \in Proc, Id(p) \/ Adduser(p)
    PROVE  AInv'
<1>1. TypeOK'
  BY AccountTypes DEF AInv
<1>2. CASE Die(p) /\ unix' = unix /\ uid' = uid
  BY <1>1, <1>2, AccountsFail DEF Id, Adduser, accounts, history
<1>3. CASE ~(Die(p) /\ unix' = unix /\ uid' = uid)
  <2>1. /\ op[p].verb = "user-add" /\ pc'[p] \in {"adduser", "usermod"}
        /\ pc'[p] = "usermod" => op[p].n \in unix'
        /\ \/ UNCHANGED << unix, uid >>
           \/ /\ op[p].n \notin unix /\ unix' = unix \cup {op[p].n}
              /\ \E u : uid' = [uid EXCEPT ![op[p].n] = u]
        /\ UNCHANGED << op, tmp, smb, dir, pdb, astray >>
    BY <1>3 DEF AInv, TypeOK, Id, Adduser, At, Goto, accounts, history
  <2>2. Flow(p)' /\ Accounts(p)' /\ OkHolds(p)'
    BY <2>1 DEF Flow, Accounts, OkHolds
  <2>3. CASE UNCHANGED << unix, uid >>
    BY <1>1, <2>1, <2>2, <2>3, OrderlyStays, AccountsKeep
  <2>4. CASE /\ op[p].n \notin unix /\ unix' = unix \cup {op[p].n}
             /\ \E u : uid' = [uid EXCEPT ![op[p].n] = u]
    <3>1. \A m \in unix : uid'[m] = uid[m]
      BY <2>4 DEF AInv, TypeOK
    <3>2. (Fails("smbpasswd-x") \/ SambaUserHasAccount') /\ PROTECTED_USERS \subseteq unix'
          /\ UniqueSections'
      BY <2>1, <2>4 DEF AInv, Orderly, SambaUserHasAccount, UniqueSections
    <3>3. DirMatchesOwner'
      BY <2>1, <2>4, <3>1 DEF AInv, Orderly, DirMatchesOwner
    <3>4. Orderly'
      BY <3>2, <3>3 DEF Orderly
    <3> QED  BY <1>1, <2>1, <2>2, <3>4, AccountsKeep
  <2> QED  BY <2>1, <2>3, <2>4
<1> QED  BY <1>2, <1>3

LEMMA UsermodKeeps ==
    ASSUME AInv, Alone, NEW p \in Proc, UsermodUsers(p) \/ UsermodAdmins(p)
    PROVE  AInv'
<1>1. TypeOK'
  BY AccountTypes DEF AInv
<1>2. op[p].n \in unix
  BY DEF AInv, Local, Accounts, UsermodUsers, UsermodAdmins, At
<1>3. UNCHANGED << op, tmp, smb, dir, pdb, unix, uid, astray >>
  BY DEF UsermodUsers, UsermodAdmins
<1>4. Orderly'
  BY <1>3, OrderlyStays
<1>5. CASE UsermodUsers(p)
  <2>1. /\ op[p].verb = "user-add" /\ pc'[p] = "smbpasswd-a"
        /\ op[p].n \in users' \/ p \in unnoticed'
    BY <1>2, <1>5 DEF AInv, TypeOK, UsermodUsers, At, Goto, Unnoticed
  <2>2. Flow(p)' /\ Accounts(p)' /\ OkHolds(p)'
    BY <1>2, <1>3, <2>1 DEF Flow, Accounts, OkHolds
  <2> QED  BY <1>1, <1>3, <1>4, <2>1, <2>2, AccountsKeep
<1>6. CASE UsermodAdmins(p)
  <2>1. /\ op[p].verb = "user-admin" /\ pc'[p] = "idle"
        /\ (op[p].n \in smbadmins' <=> op[p].on) \/ p \in unnoticed'
    BY <1>2, <1>6 DEF AInv, TypeOK, Op, UsermodAdmins, At, Ok, Unnoticed
  <2>2. Flow(p)' /\ Accounts(p)'
    BY <1>3, <2>1 DEF Flow, Accounts
  <2>3. OkHolds(p)'
    BY <1>3, <2>1 DEF OkHolds, Assured, Done
  <2> QED  BY <1>1, <1>3, <1>4, <2>1, <2>2, <2>3, AccountsKeep
<1> QED  BY <1>5, <1>6

\* smbpasswd has set a password, and the verb goes on or ends.
LEMMA PasswordKeeps ==
    ASSUME AInv, Alone, NEW p \in Proc, TypeOK', NEW w, w # "absent",
           pc[p] \in {"smbpasswd-a", "smbpasswd-n"},
           op[p].verb \in {"user-add", "user-pass"},
           op[p].n \in unix \/ pdb[op[p].n] # "absent",
           pdb' = [pdb EXCEPT ![op[p].n] = w],
           UNCHANGED << op, tmp, smb, dir, unix, uid, users, astray, unnoticed >>,
           IF op[p].verb = "user-pass"
           THEN pc'[p] = "idle" /\ w = IF op[p].blank THEN "blank" ELSE "set"
           ELSE \/ pc'[p] = "smbpasswd-n" /\ op[p].blank
                \/ pc'[p] = "grep" /\ w = IF op[p].blank THEN "blank" ELSE "set"
    PROVE  AInv'
<1>1. op[p].n \in Name
  BY OpFacts DEF AInv, TypeOK
<1>2. pdb'[op[p].n] = w
  BY <1>1 DEF AInv, TypeOK
<1>3. op[p].verb = "user-add" => op[p].n \in unix /\ (op[p].n \in users \/ p \in unnoticed)
  BY DEF AInv, Local, Accounts
<1>4. Flow(p)' /\ Accounts(p)'
  <2>1. CASE op[p].verb = "user-pass"
    BY <2>1 DEF Flow, Accounts
  <2>2. CASE op[p].verb = "user-add" /\ pc'[p] = "smbpasswd-n"
    BY <1>3, <2>2 DEF Flow, Accounts
  <2>3. CASE op[p].verb = "user-add" /\ pc'[p] = "grep"
    BY <1>2, <1>3, <2>3 DEF Flow, Accounts
  <2> QED  BY <2>1, <2>2, <2>3
<1>5. Orderly'
  <2>1. Fails("smbpasswd-x") \/ SambaUserHasAccount'
    BY <1>1 DEF AInv, TypeOK, Orderly, SambaUserHasAccount
  <2> QED  BY <2>1 DEF AInv, Orderly, UniqueSections, DirMatchesOwner
<1>6. OkHolds(p)'
  BY <1>2 DEF OkHolds, Assured, Done
<1>7. pc'[p] \in {"idle", "grep", "smbpasswd-n"}
  OBVIOUS
<1> QED  BY <1>4, <1>5, <1>6, <1>7, AccountsKeep

LEMMA SmbpasswdKeeps ==
    ASSUME AInv, Alone, NEW p \in Proc, SmbpasswdSet(p) \/ SmbpasswdBlank(p)
    PROVE  AInv'
<1>1. TypeOK'
  BY AccountTypes DEF AInv
<1>2. UNCHANGED << op, tmp, smb, dir, unix, uid, users, astray, unnoticed >>
  BY DEF SmbpasswdSet, SmbpasswdBlank, history
<1>3. /\ pc[p] \in {"smbpasswd-a", "smbpasswd-n"}
      /\ op[p].verb \in {"user-add", "user-pass"}
      /\ pc[p] = "smbpasswd-n" => op[p].blank
      /\ pc[p] = "smbpasswd-a" /\ op[p].verb = "user-pass" => ~op[p].blank
  BY DEF SmbpasswdSet, SmbpasswdBlank, At, AInv, Local, Flow
<1>4. CASE pdb' = pdb /\ Die(p)
  BY <1>1, <1>2, <1>4, AccountsFail
<1>5. CASE SmbpasswdSet(p) /\ ~(pdb' = pdb /\ Die(p))
  <2>1. /\ pc[p] = "smbpasswd-a"
        /\ op[p].n \in unix \/ pdb[op[p].n] # "absent"
        /\ pdb' = [pdb EXCEPT ![op[p].n] = IF op[p].blank THEN "temp" ELSE "set"]
        /\ IF op[p].verb # "user-add" THEN Ok(p)
           ELSE Goto(p, IF op[p].blank THEN "smbpasswd-n" ELSE "grep")
    BY <1>5 DEF SmbpasswdSet, At
  <2>2. CASE op[p].blank
    <3>1. op[p].verb = "user-add" /\ pc'[p] = "smbpasswd-n"
          /\ pdb' = [pdb EXCEPT ![op[p].n] = "temp"]
      BY <1>3, <2>1, <2>2 DEF AInv, TypeOK, Goto
    <3> QED  BY <1>1, <1>2, <1>3, <2>1, <2>2, <3>1, PasswordKeeps
  <2>3. CASE ~op[p].blank
    <3>1. pdb' = [pdb EXCEPT ![op[p].n] = "set"]
      BY <2>1, <2>3
    <3>2. pc'[p] = IF op[p].verb = "user-pass" THEN "idle" ELSE "grep"
      BY <1>3, <2>1, <2>3 DEF AInv, TypeOK, Ok, Goto
    <3> QED  BY <1>1, <1>2, <1>3, <2>1, <2>3, <3>1, <3>2, PasswordKeeps
  <2> QED  BY <2>2, <2>3
<1>6. CASE SmbpasswdBlank(p) /\ ~(pdb' = pdb /\ Die(p))
  <2>1. /\ pc[p] = "smbpasswd-n" /\ pdb[op[p].n] # "absent"
        /\ pdb' = [pdb EXCEPT ![op[p].n] = "blank"]
        /\ IF op[p].verb = "user-pass" THEN Ok(p) ELSE Goto(p, "grep")
    BY <1>6 DEF SmbpasswdBlank, At
  <2>2. pc'[p] = IF op[p].verb = "user-pass" THEN "idle" ELSE "grep"
    BY <2>1 DEF AInv, TypeOK, Ok, Goto
  <2>3. op[p].blank
    BY <1>3, <2>1
  <2> QED  BY <1>1, <1>2, <1>3, <2>1, <2>2, <2>3, PasswordKeeps
<1> QED  BY <1>4, <1>5, <1>6

LEMMA SmbpasswdDeleteKeeps ==
    ASSUME AInv, Alone, NEW p \in Proc, SmbpasswdDelete(p)
    PROVE  AInv'
<1>1. TypeOK'
  BY AccountTypes DEF AInv
<1>2. /\ UNCHANGED << op, tmp, smb, dir, unix, uid, users, astray >>
      /\ op[p].verb = "user-del" /\ pc[p] = "smbpasswd-x" /\ pc'[p] = "grep"
      /\ \/ pdb' = [pdb EXCEPT ![op[p].n] = "absent"]
         \/ pdb' = pdb /\ Fails("smbpasswd-x") /\ p \in unnoticed'
  BY DEF AInv, TypeOK, SmbpasswdDelete, At, Goto, Unnoticed
<1>3. \/ pdb'[op[p].n] = "absent"
      \/ Fails("smbpasswd-x") /\ p \in unnoticed'
  BY <1>2, OpFacts DEF AInv, TypeOK
<1>4. Flow(p)' /\ Accounts(p)' /\ OkHolds(p)'
  <2>1. op[p].n \notin PROTECTED_USERS
    BY <1>2 DEF AInv, Local, Accounts
  <2> QED  BY <1>2, <1>3, <2>1 DEF Flow, Accounts, OkHolds
<1>5. Orderly'
  BY <1>2 DEF AInv, TypeOK, Orderly, SambaUserHasAccount, UniqueSections, DirMatchesOwner
<1> QED  BY <1>1, <1>2, <1>4, <1>5, AccountsKeep

\* deluser frees the number; the shares of the account are astray from now on.
LEMMA DeluserKeeps ==
    ASSUME AInv, Alone, NEW p \in Proc, Deluser(p)
    PROVE  AInv'
<1>1. TypeOK'
  BY AccountTypes DEF AInv
<1>2. /\ UNCHANGED << op, tmp, smb, dir, pdb >>
      /\ op[p].verb = "user-del" /\ pc[p] = "deluser" /\ pc'[p] = "idle"
      /\ op[p].n \in Name
  BY OpFacts DEF AInv, TypeOK, Deluser, At, Ok
<1>3. /\ op[p].n \notin PROTECTED_USERS
      /\ \/ pdb[op[p].n] = "absent"
         \/ Fails("smbpasswd-x") /\ p \in unnoticed
      /\ p \in unnoticed \/ ~Has(smb, op[p].n)
  BY <1>2 DEF AInv, Local, Accounts, File
<1>4. Flow(p)' /\ Accounts(p)'
  BY <1>2 DEF Flow, Accounts
<1>5. CASE p \in unnoticed' /\ UNCHANGED << unix, uid, users, smbadmins, astray >>
  <2>1. Orderly'
    BY <1>2, <1>5, OrderlyStays
  <2>2. OkHolds(p)'
    BY <1>2, <1>5 DEF OkHolds, Assured
  <2> QED  BY <1>1, <1>2, <1>4, <2>1, <2>2, AccountsKeep
<1>6. CASE /\ unix' = unix \ {op[p].n} /\ uid' = [uid EXCEPT ![op[p].n] = Missing]
           /\ smbadmins' = smbadmins \ {op[p].n}
           /\ astray' = astray \cup
                  {smb[i].name : i \in {j \in DOMAIN smb : smb[j].owner = op[p].n}}
           /\ unnoticed' = unnoticed
  <2>1. /\ Fails("smbpasswd-x") \/ SambaUserHasAccount'
        /\ PROTECTED_USERS \subseteq unix' /\ UniqueSections'
    BY <1>2, <1>3, <1>6 DEF AInv, Orderly, SambaUserHasAccount, UniqueSections
  <2>2. DirMatchesOwner'
    <3> SUFFICES ASSUME NEW i \in DOMAIN smb, smb[i].typ = "private", smb[i].name \notin astray'
                 PROVE  smb[i].owner \in unix' /\ dir[smb[i].name] = uid'[smb[i].owner]
      BY <1>2 DEF DirMatchesOwner
    <3>1. smb[i].name \notin astray /\ smb[i].owner # op[p].n
      BY <1>6
    <3>2. smb[i].owner \in unix /\ dir[smb[i].name] = uid[smb[i].owner]
      BY <3>1 DEF AInv, Orderly, DirMatchesOwner
    <3>3. smb[i].owner \in Name
      BY <3>2 DEF AInv, TypeOK
    <3> QED  BY <1>6, <3>1, <3>2, <3>3 DEF AInv, TypeOK
  <2>3. Orderly'
    BY <2>1, <2>2 DEF Orderly
  <2>4. OkHolds(p)'
    BY <1>2, <1>3, <1>6 DEF OkHolds, Assured, Done, Has
  <2> QED  BY <1>1, <1>2, <1>4, <2>3, <2>4, AccountsKeep
<1> QED  BY <1>5, <1>6 DEF Deluser, Unnoticed

-----------------------------------------------------------------------------
(* The commands that deal with smb.conf and the directories.               *)

\* grep decides how a verb goes on, or that it has nothing to do.
LEMMA GrepKeeps ==
    ASSUME AInv, Alone, NEW p \in Proc, Grep(p) \/ GrepSection(p)
    PROVE  AInv'
<1>1. TypeOK'
  BY ShareTypes DEF AInv
<1>2. UNCHANGED << op, tmp, smb, dir, unix, uid, pdb, users, astray, unnoticed >>
  BY DEF Grep, GrepSection, accounts, history
<1>3. Orderly'
  BY <1>2, OrderlyStays
<1>4. CASE Grep(p)
  <2>1. /\ pc[p] = "grep" /\ op[p].verb = "user-add"
        /\ \/ pc'[p] = "mkdir" /\ ~Has(smb, op[p].n)
           \/ pc'[p] = "idle" /\ (op[p].share => Has(smb, op[p].n))
    BY <1>4 DEF AInv, TypeOK, Grep, At, Goto, Ok
  <2>2. /\ op[p].n \in unix /\ (op[p].n \in users \/ p \in unnoticed)
        /\ pdb[op[p].n] = IF op[p].blank THEN "blank" ELSE "set"
    BY <2>1 DEF AInv, Local, Accounts
  <2>3. Flow(p)' /\ Accounts(p)'
    BY <1>2, <2>1, <2>2 DEF Flow, Accounts, Adds
  <2>4. OkHolds(p)'
    BY <1>2, <2>1, <2>2 DEF OkHolds, Assured, Done, Has
  <2> QED  BY <1>1, <1>2, <1>3, <2>1, <2>3, <2>4, AccountsKeep
<1>5. CASE GrepSection(p)
  <2>1. \/ /\ pc[p] = "grep" /\ op[p].verb = "user-del"
           /\ \/ pc'[p] = "awk"
              \/ pc'[p] = "deluser" /\ ~Has(smb, op[p].n)
        \/ /\ op[p].verb = "share-del"
           /\ \/ pc'[p] = "awk"
              \/ pc'[p] = "idle" /\ ~Has(smb, op[p].n)
    BY <1>5 DEF AInv, TypeOK, GrepSection, At, Goto, Ok
  <2>2. op[p].verb = "user-del" =>
           /\ op[p].n \notin PROTECTED_USERS
           /\ \/ pdb[op[p].n] = "absent"
              \/ Fails("smbpasswd-x") /\ p \in unnoticed
    BY <2>1 DEF AInv, Local, Accounts
  <2>3. Flow(p)' /\ Accounts(p)'
    BY <1>2, <2>1, <2>2 DEF Flow, Accounts
  <2>4. OkHolds(p)'
    BY <1>2, <2>1 DEF OkHolds, Assured, Done, Has
  <2> QED  BY <1>1, <1>2, <1>3, <2>1, <2>3, <2>4, AccountsKeep
<1> QED  BY <1>4, <1>5

\* The directory of a share that is not there yet gets the number of the owner that the
\* section will name, or the share is astray.
LEMMA MkdirKeeps ==
    ASSUME AInv, Alone, NEW p \in Proc, Mkdir(p)
    PROVE  AInv'
<1>1. TypeOK'
  BY ShareTypes DEF AInv
<1>2. /\ UNCHANGED << op, tmp, smb, unix, uid, pdb, users >>
      /\ pc[p] = "mkdir" /\ pc'[p] = "add" /\ op[p].verb \in Adds
  BY DEF AInv, TypeOK, Mkdir, At, Goto, accounts, Adds
<1>3. op[p].n \in Name /\ ~Has(smb, op[p].n) /\ NewSection(op[p]).name = op[p].n
  BY <1>2, OpFacts, NewSectionFacts DEF AInv, TypeOK, Local, File
<1>4. /\ \A m \in Name \ {op[p].n} : dir'[m] = dir[m] /\ (m \in astray' <=> m \in astray)
      /\ \/ /\ DirOwner(op[p]) \in unix /\ dir'[op[p].n] = uid[DirOwner(op[p])]
            /\ unnoticed' = unnoticed
         \/ op[p].n \in astray' /\ p \in unnoticed'
  BY <1>3 DEF AInv, TypeOK, Mkdir, Unnoticed
<1>5. op'[p] = op[p] /\ NewSection(op[p])' = NewSection(op[p])
      /\ DirOwner(op[p])' = DirOwner(op[p])
  BY <1>2 DEF NewSection, DirOwner
<1>6. Flow(p)' /\ Accounts(p)' /\ OkHolds(p)'
  <2>1. p \in unnoticed => p \in unnoticed'
    BY DEF Mkdir, Unnoticed
  <2> QED  BY <1>2, <2>1 DEF AInv, Local, Flow, Accounts, Adds, OkHolds
<1>7. File(p)'
  <2>1. Owned(NewSection(op[p]))'
    BY <1>2, <1>3, <1>4, <1>5, NewSectionFacts DEF Owned
  <2> QED  BY <1>2, <1>3, <1>4, <1>5, <2>1 DEF File, Has
<1>8. DirMatchesOwner'
  <2>1. \A i \in DOMAIN smb : smb[i] \in Section
    BY DEF AInv, TypeOK
  <2>2. \A i \in DOMAIN smb : smb[i].name \in Name
    BY <2>1 DEF Section
  <2>3. \A i \in DOMAIN smb : smb[i].name \in Name \ {op[p].n}
    BY <1>3, <2>2 DEF Has
  <2> QED  BY <1>2, <1>4, <2>3 DEF AInv, Orderly, DirMatchesOwner
<1>9. Orderly'
  BY <1>2, <1>8 DEF AInv, Orderly, SambaUserHasAccount, UniqueSections
<1> QED  BY <1>1, <1>6, <1>7, <1>9, Lift DEF Local

\* mktemp or testparm refuses: nothing has happened.
LEMMA RefusalKeeps ==
    ASSUME AInv, Alone, NEW p \in Proc, TypeOK', Rejected(p),
           UNCHANGED << op, touched, astray, smb, samba, accounts, dir >>
    PROVE  AInv'
BY AccountsFail DEF Rejected, accounts

\* A copy that is to become smb.conf is as good as the file it was made from.
LEMMA CopyKeeps ==
    ASSUME AInv, Alone, NEW p \in Proc, TypeOK', NEW f, NEW g, Accepted(p, f, g),
           op[p].verb \in {"user-add", "share-add", "user-del", "share-del"},
           pc[p] \in {"add", "awk"},
           UNCHANGED << op, touched, astray, smb, samba, accounts, dir >>,
           Unique(f), Matches(f), Effect(op[p], g)
    PROVE  AInv'
<1>1. UNCHANGED << unix, uid, pdb, users, smbadmins >>
  BY DEF accounts
<1>2. /\ pc'[p] = "trunc" /\ tmp'[p] = f
      /\ p \in unnoticed => p \in unnoticed'
      /\ f = g \/ p \in unnoticed'
  BY DEF Accepted, Unnoticed, Goto, AInv, TypeOK
<1>3. Flow(p)' /\ OkHolds(p)'
  BY <1>2 DEF Flow, OkHolds
<1>4. Accounts(p)'
  <2>1. op'[p] = op[p] /\ unix' = unix /\ pdb' = pdb /\ users' = users
    BY <1>1
  <2>2. Flow(p) /\ Accounts(p)
    BY DEF AInv, Local
  <2>3. CASE pc[p] = "add"
    BY <1>2, <2>1, <2>2, <2>3 DEF Flow, Accounts, Adds
  <2>4. CASE pc[p] = "awk"
    BY <1>2, <2>1, <2>2, <2>4 DEF Flow, Accounts, Adds
  <2> QED  BY <2>3, <2>4
<1>5. File(p)'
  <2>1. Unique(tmp[p])' /\ Matches(tmp[p])'
    BY <1>1, <1>2 DEF Unique, Matches, Owned
  <2>2. p \in unnoticed' \/ Effect(op[p], tmp[p])'
    BY <1>2 DEF Effect, Has, NewSection
  <2>3. op[p].verb \in Adds /\ p \notin unnoticed' => dir[op[p].n] = uid[DirOwner(op[p])]
    BY <1>2 DEF AInv, Local, File, Flow, Adds
  <2>4. op[p].verb \in Adds /\ p \notin unnoticed' => (dir[op[p].n] = uid[DirOwner(op[p])])'
    BY <1>1, <2>3 DEF DirOwner, NewSection
  <2> QED  BY <1>2, <2>1, <2>2, <2>4 DEF File
<1>6. Orderly'
  BY <1>1, OrderlyStays
<1> QED  BY <1>3, <1>4, <1>5, <1>6, Lift DEF Local

\* A part of a file is as good as the file.
LEMMA PrefixFacts ==
    ASSUME NEW f \in Seq(Section), NEW k \in 0 .. Len(f)
    PROVE  /\ SubSeq(f, 1, k) \in Seq(Section)
           /\ Unique(f) => Unique(SubSeq(f, 1, k))
           /\ Matches(f) => Matches(SubSeq(f, 1, k))
           /\ Sections(SubSeq(f, 1, k)) \subseteq Sections(f)
           /\ k = Len(f) => SubSeq(f, 1, k) = f
<1> DEFINE g == SubSeq(f, 1, k)
<1>1. /\ k \in Nat /\ Len(f) \in Nat /\ k <= Len(f)
      /\ g \in Seq(Section) /\ Len(g) = k
      /\ DOMAIN f = 1 .. Len(f) /\ DOMAIN g = 1 .. k
      /\ \A i \in 1 .. k : g[i] = f[i]
  OBVIOUS
<1> HIDE DEF g
<1>2. DOMAIN g \subseteq DOMAIN f /\ \A i \in DOMAIN g : g[i] = f[i]
  BY <1>1
<1>3. (Unique(f) => Unique(g)) /\ (Matches(f) => Matches(g)) /\ Sections(g) \subseteq Sections(f)
  BY <1>2 DEF Unique, Matches, Sections
<1>4. k = Len(f) => g = f
  BY <1>1, SeqEqual
<1> QED  BY <1>1, <1>3, <1>4 DEF g

\* And so is a file with one section more that it did not have.
LEMMA AppendFacts ==
    ASSUME NEW f \in Seq(Section), NEW s, Unique(f), Matches(f), ~Has(f, s.name), Owned(s)
    PROVE  Unique(Append(f, s)) /\ Matches(Append(f, s))
<1> DEFINE g == Append(f, s)
<1>1. /\ Len(f) \in Nat /\ DOMAIN f = 1 .. Len(f) /\ DOMAIN g = 1 .. Len(f) + 1
      /\ \A i \in DOMAIN f : g[i] = f[i]
      /\ g[Len(f) + 1] = s
  OBVIOUS
<1> HIDE DEF g
<1>2. \A i \in DOMAIN g : i \in DOMAIN f \/ i = Len(f) + 1
  BY <1>1
<1>3. Unique(g)
  <2> SUFFICES ASSUME NEW i \in DOMAIN g, NEW j \in DOMAIN g, g[i].name = g[j].name
               PROVE  i = j
    BY DEF Unique
  <2>1. CASE i \in DOMAIN f /\ j \in DOMAIN f
    BY <1>1, <2>1 DEF Unique
  <2>2. CASE i = Len(f) + 1 \/ j = Len(f) + 1
    BY <1>1, <1>2, <2>2 DEF Has
  <2> QED  BY <1>2, <2>1, <2>2
<1>4. Matches(g)
  BY <1>1, <1>2 DEF Matches
<1> QED  BY <1>3, <1>4 DEF g

LEMMA AddSectionKeeps ==
    ASSUME AInv, Alone, NEW p \in Proc, AddSection(p)
    PROVE  AInv'
<1>1. TypeOK'
  BY ShareTypes DEF AInv
<1>2. /\ pc[p] = "add" /\ op[p].verb \in Adds
      /\ UNCHANGED << op, touched, astray, smb, samba, accounts, dir >>
  BY DEF AddSection, At, Adds
<1>3. CASE Rejected(p)
  BY <1>1, <1>2, <1>3, RefusalKeeps
<1>4. ASSUME NEW k \in 0 .. Len(smb), NEW added \in {<< >>, << NewSection(op[p]) >>},
             Accepted(p, SubSeq(smb, 1, k) \o added, Append(smb, NewSection(op[p])))
      PROVE  AInv'
  <2> DEFINE new == NewSection(op[p])
             f == SubSeq(smb, 1, k)
             g == Append(smb, new)
  <2>1. new.name = op[p].n /\ ~Has(smb, new.name) /\ Owned(new)
    BY <1>2, NewSectionFacts DEF AInv, Local, File
  <2>2. smb \in Seq(Section) /\ Unique(smb) /\ Matches(smb)
    BY DEF AInv, TypeOK, Orderly, UniqueSections, DirMatchesOwner, Unique, Matches, Owned
  <2>3. f \in Seq(Section) /\ Unique(f) /\ Matches(f) /\ Sections(f) \subseteq Sections(smb)
    BY <2>2, PrefixFacts
  <2>4. Effect(op[p], g)
    <3>1. Len(smb) + 1 \in DOMAIN g /\ g[Len(smb) + 1] = new
      BY <2>2
    <3> QED  BY <1>2, <3>1 DEF Effect
  <2>5. ~Has(f, new.name)
    BY <2>1, <2>3 DEF Has, Sections
  <2> HIDE DEF new, f
  <2>6. Unique(f \o added) /\ Matches(f \o added)
    <3>1. CASE added = << >>
      <4>1. f \o added = f
        BY <2>3, <3>1, ConcatEmptySeq
      <4> QED  BY <2>3, <4>1
    <3>2. CASE added = << new >>
      <4>1. f \o added = Append(f, new)
        BY <2>3, <3>2
      <4> QED  BY <2>1, <2>3, <2>5, <4>1, AppendFacts
    <3> QED  BY <3>1, <3>2 DEF new
  <2>7. Accepted(p, f \o added, g)
    BY <1>4 DEF f, new
  <2> HIDE DEF g
  <2>8. op[p].verb \in {"user-add", "share-add", "user-del", "share-del"}
    BY <1>2 DEF Adds
  <2> QED  BY <1>1, <1>2, <2>4, <2>6, <2>7, <2>8, CopyKeeps
<1> QED  BY <1>3, <1>4 DEF AddSection

LEMMA DropSectionKeeps ==
    ASSUME AInv, Alone, NEW p \in Proc, DropSection(p)
    PROVE  AInv'
<1>1. TypeOK'
  BY ShareTypes DEF AInv
<1>2. /\ pc[p] = "awk" /\ op[p].verb \in {"user-del", "share-del"}
      /\ UNCHANGED << op, touched, astray, smb, samba, accounts, dir >>
  BY DEF DropSection, At
<1>3. CASE Rejected(p)
  BY <1>1, <1>2, <1>3, RefusalKeeps
<1>4. ASSUME NEW f \in Without(smb, op[p].n), NEW k \in 0 .. Len(f),
             Accepted(p, SubSeq(f, 1, k), f)
      PROVE  AInv'
  <2>1. smb \in Seq(Section)
    BY DEF AInv, TypeOK
  <2>2. f \in Seq(Section)
    BY <2>1, WithoutFacts
  <2>3. PICK e \in [DOMAIN f -> DOMAIN smb] :
           /\ \A i \in DOMAIN f : f[i] = smb[e[i]] /\ f[i].name # op[p].n
           /\ \A i, j \in DOMAIN f : e[i] = e[j] => i = j
    BY <2>1, WithoutFacts
  <2>4. Unique(f)
    BY <2>3 DEF AInv, Orderly, UniqueSections, Unique
  <2>5. Matches(f)
    BY <2>3 DEF AInv, Orderly, DirMatchesOwner, Matches, Owned
  <2>6. Effect(op[p], f)
    BY <1>2, <2>3 DEF Effect, Adds, Has
  <2>7. Unique(SubSeq(f, 1, k)) /\ Matches(SubSeq(f, 1, k))
    BY <2>2, <2>4, <2>5, PrefixFacts
  <2>8. op[p].verb \in {"user-add", "share-add", "user-del", "share-del"}
    BY <1>2
  <2> QED  BY <1>1, <1>2, <1>4, <2>6, <2>7, <2>8, CopyKeeps
<1> QED  BY <1>3, <1>4 DEF DropSection

\* What cat leaves of a truncated file that nobody else writes is a part of the copy.
LEMMA WrittenFile ==
    ASSUME AInv, NEW p \in Proc, Write(p)
    PROVE  \E k \in 0 .. Len(tmp[p]) :
              /\ smb' = SubSeq(tmp[p], 1, k)
              /\ \/ k = Len(tmp[p]) /\ unnoticed' = unnoticed
                 \/ Fails("cat") /\ p \in unnoticed'
<1>1. PICK k \in 0 .. Len(tmp[p]) :
         /\ smb' = SubSeq(tmp[p], 1, k) \o SubSeq(smb, k + 1, Len(smb))
         /\ \/ k = Len(tmp[p]) /\ unnoticed' = unnoticed
            \/ Fails("cat") /\ p \in unnoticed'
  BY DEF Write, Unnoticed
<1>2. smb = << >> /\ tmp[p] \in Seq(Section)
  BY DEF AInv, TypeOK, Local, File, Write
<1>3. SubSeq(smb, k + 1, Len(smb)) = << >>
  BY <1>2
<1>4. SubSeq(tmp[p], 1, k) \in Seq(Section)
  BY <1>2
<1>5. smb' = SubSeq(tmp[p], 1, k)
  BY <1>1, <1>3, <1>4, ConcatEmptySeq
<1> QED  BY <1>1, <1>5

\* The copy becomes the file, and nobody has written there meanwhile.
LEMMA WriteKeeps ==
    ASSUME AInv, Alone, NEW p \in Proc, Truncate(p) \/ Write(p)
    PROVE  AInv'
<1>1. TypeOK'
  BY ShareTypes DEF AInv
<1>2. /\ UNCHANGED << op, unix, uid, pdb, users, dir, astray >>
      /\ p \in unnoticed => p \in unnoticed'
  BY DEF Truncate, Write, accounts, Unnoticed
<1>3. pc[p] \in {"trunc", "write"}
  BY DEF Truncate, Write
<1>4. /\ Unique(tmp[p]) /\ Matches(tmp[p])
      /\ p \in unnoticed \/ Effect(op[p], tmp[p])
      /\ op[p].verb \in Adds /\ p \notin unnoticed' => dir[op[p].n] = uid[DirOwner(op[p])]
  BY <1>2, <1>3 DEF AInv, Local, File
<1>5. /\ op'[p] = op[p] /\ DirOwner(op[p])' = DirOwner(op[p])
      /\ pc'[p] \in {"write", "reload"}
  BY <1>2 DEF Truncate, Write, Goto, AInv, TypeOK, DirOwner, NewSection
<1>6. Flow(p)' /\ Accounts(p)' /\ OkHolds(p)'
  BY <1>2, <1>3, <1>5 DEF AInv, Local, Flow, Accounts, OkHolds
<1>7. ASSUME Unique(smb)', Matches(smb)' PROVE Orderly'
  BY <1>2, <1>7 DEF AInv, Orderly, SambaUserHasAccount, UniqueSections, DirMatchesOwner,
                    Unique, Matches, Owned
<1>8. CASE Truncate(p) /\ Goto(p, "write")
  <2>1. pc'[p] = "write" /\ smb' = << >> /\ tmp' = tmp /\ unnoticed' = unnoticed
    BY <1>8 DEF AInv, TypeOK, Truncate, Goto
  <2>2. Unique(tmp[p])' /\ Matches(tmp[p])'
        /\ (p \in unnoticed' \/ Effect(op[p], tmp[p])')
    BY <1>2, <1>4, <2>1 DEF Unique, Matches, Owned, Effect, Has, NewSection
  <2>3. File(p)'
    BY <1>2, <1>4, <1>5, <2>1, <2>2 DEF File
  <2>4. Unique(smb)' /\ Matches(smb)'
    BY <2>1 DEF Unique, Matches
  <2> QED  BY <1>1, <1>6, <1>7, <2>3, <2>4, Lift DEF Local
<1>9. CASE Truncate(p) /\ ~Goto(p, "write")
  <2>1. pc'[p] = "reload" /\ smb' = smb /\ p \in unnoticed'
    BY <1>9 DEF AInv, TypeOK, Truncate, Goto, Unnoticed
  <2>2. File(p)'
    BY <2>1 DEF File
  <2>3. Orderly'
    BY <1>2, <2>1, OrderlyStays
  <2> QED  BY <1>1, <1>6, <2>2, <2>3, Lift DEF Local
<1>10. CASE Write(p)
  <2>1. PICK k \in 0 .. Len(tmp[p]) :
           /\ smb' = SubSeq(tmp[p], 1, k)
           /\ k = Len(tmp[p]) \/ p \in unnoticed'
    BY <1>10, WrittenFile
  <2>2. pc'[p] = "reload"
    BY <1>10 DEF AInv, TypeOK, Write, Goto
  <2>3. /\ Unique(smb') /\ Matches(smb')
        /\ p \in unnoticed' \/ smb' = tmp[p]
    <3>1. tmp[p] \in Seq(Section)
      BY DEF AInv, TypeOK
    <3> QED  BY <1>4, <2>1, <3>1, PrefixFacts
  <2>4. Unique(smb)' /\ Matches(smb)'
    BY <1>2, <2>3 DEF Unique, Matches, Owned
  <2>5. p \in unnoticed' \/ Effect(op[p], smb)'
    BY <1>2, <1>4, <2>3 DEF Effect, Has, NewSection
  <2>6. File(p)'
    BY <1>2, <1>4, <1>5, <2>2, <2>5 DEF File
  <2> QED  BY <1>1, <1>6, <1>7, <2>4, <2>6, Lift DEF Local
<1> QED  BY <1>8, <1>9, <1>10

\* The verb has written smb.conf, and only user-del goes on.
LEMMA ReloadKeeps ==
    ASSUME AInv, Alone, NEW p \in Proc, Reload(p)
    PROVE  AInv'
<1>1. TypeOK'
  BY ShareTypes DEF AInv
<1>2. /\ UNCHANGED << op, tmp, smb, unix, uid, pdb, users, smbadmins, dir, astray >>
      /\ p \in unnoticed => p \in unnoticed'
  BY DEF Reload, accounts, Unnoticed
<1>3. Orderly'
  BY <1>2, OrderlyStays
<1>4. /\ pc[p] = "reload" /\ (p \in unnoticed \/ Effect(op[p], smb))
      /\ op[p].verb \in {"user-add", "share-add", "user-del", "share-del"}
      /\ op[p].verb \in Adds /\ p \notin unnoticed => dir[op[p].n] = uid[DirOwner(op[p])]
  BY DEF Reload, AInv, Local, File, Flow
<1>5. IF op[p].verb = "user-del" THEN pc'[p] = "deluser" ELSE pc'[p] = "idle"
  BY DEF AInv, TypeOK, Reload, Goto, Ok
<1>6. Flow(p)' /\ Accounts(p)'
  BY <1>2, <1>4, <1>5 DEF AInv, Local, Flow, Accounts
<1>7. op[p].verb = "user-del" => p \in unnoticed' \/ ~Has(smb, op[p].n)
  BY <1>2, <1>4 DEF Effect, Adds
<1>8. OkHolds(p)'
  <2>1. CASE op[p].verb = "user-add"
    <3>1. p \in unnoticed \/ Has(smb, op[p].n)
      BY <1>4, <2>1, NewSectionFacts DEF Effect, Adds, Has
    <3>2. /\ op[p].n \in unix /\ (op[p].n \in users \/ p \in unnoticed)
          /\ pdb[op[p].n] = IF op[p].blank THEN "blank" ELSE "set"
      BY <1>4, <2>1 DEF AInv, Local, Accounts
    <3> QED  BY <1>2, <2>1, <3>1, <3>2 DEF OkHolds, Assured, Done, Has
  <2>2. CASE op[p].verb = "share-add"
    <3>1. DirOwner(op[p])' = DirOwner(op[p]) /\ NewSection(op[p])' = NewSection(op[p])
      BY <1>2 DEF DirOwner, NewSection
    <3>2. p \in unnoticed \/ \E i \in DOMAIN smb : smb[i] = NewSection(op[p])
      BY <1>4, <2>2 DEF Effect, Adds
    <3> QED  BY <1>2, <1>4, <2>2, <3>1, <3>2 DEF OkHolds, Assured, Done, Adds
  <2>3. CASE op[p].verb = "share-del"
    BY <1>2, <1>4, <2>3 DEF OkHolds, Assured, Done, Effect, Adds, Has
  <2>4. CASE op[p].verb = "user-del"
    BY <1>5, <2>4 DEF OkHolds
  <2> QED  BY <1>4, <2>1, <2>2, <2>3, <2>4
<1> QED  BY <1>1, <1>2, <1>3, <1>5, <1>6, <1>7, <1>8, AccountsKeep

LEMMA MachineKeeps ==
    ASSUME AInv, Alone, SmbdReloads \/ PowerCut \/ UNCHANGED vars
    PROVE  AInv'
<1>1. TypeOK'
  BY MachineTypes DEF AInv
<1>2. UNCHANGED << op, smb, unix, uid, pdb, users, smbadmins, dir, unnoticed, astray >>
  BY DEF SmbdReloads, PowerCut, vars, proc, accounts, history
<1>3. Orderly'
  BY <1>2, OrderlyStays
<1>4. CASE PowerCut
  <2>1. \A p \in Proc : pc'[p] = "idle" /\ reply'[p] = "none"
    BY <1>4 DEF PowerCut
  <2>2. \A p \in Proc : OkHolds(p)' /\ Local(p)'
    BY <2>1 DEF OkHolds, Local, Flow, Accounts, File
  <2> QED  BY <1>1, <1>3, <2>2 DEF AInv
<1>5. CASE UNCHANGED << pc, tmp, reply >>
  <2>1. ASSUME NEW p \in Proc PROVE OkHolds(p)' /\ Local(p)'
    <3>1. OkHolds(p)'
      BY <1>2, <1>5 DEF AInv, OkHolds, Assured, Done, Has, NewSection, DirOwner
    <3>2. Flow(p)' /\ Accounts(p)'
      BY <1>2, <1>5 DEF AInv, Local, Flow, Accounts
    <3>3. File(p)'
      BY <1>2, <1>5 DEF AInv, Local, File, Unique, Matches, Owned, Effect, Has, NewSection,
                        DirOwner
    <3> QED  BY <3>1, <3>2, <3>3 DEF Local
  <2> QED  BY <1>1, <1>3, <2>1 DEF AInv
<1> QED  BY <1>4, <1>5 DEF SmbdReloads, vars, proc

-----------------------------------------------------------------------------
(* The theorems.                                                           *)

LEMMA AloneInvariance ==
    ASSUME Alone
    PROVE  Spec => []AInv
<1>1. AInv /\ [Next]_vars => AInv'
  <2> SUFFICES ASSUME AInv, [Next]_vars PROVE AInv'
    OBVIOUS
  <2>1. ASSUME NEW p \in Proc, Continue(p) PROVE AInv'
    BY <2>1, IdAdduserKeep, UsermodKeeps, SmbpasswdKeeps, SmbpasswdDeleteKeeps,
       DeluserKeeps, GrepKeeps, MkdirKeeps, AddSectionKeeps, DropSectionKeeps,
       WriteKeeps, ReloadKeeps DEF Continue
  <2> QED  BY <2>1, StartKeeps, MachineKeeps DEF Next
<1>2. Init => AInv
  BY InitHolds
<1> QED  BY <1>1, <1>2, PTL DEF Spec

\* user-del takes the Samba account before the Unix account, user-add makes them in the
\* other order: through any sequence of verbs, and whatever fails but smbpasswd -x, no
\* Samba account is left alone.
THEOREM NoOrphanedSambaUser ==
    ASSUME Alone, ~Fails("smbpasswd-x")
    PROVE  Spec => []SambaUserHasAccount
<1>1. AInv => SambaUserHasAccount
  BY DEF AInv, Orderly
<1> QED  BY AloneInvariance, <1>1, PTL

\* The OK that ends a verb is true of the account and the password whatever else has
\* failed, and of groups, section and directory unless a command failed whose result
\* the script does not look at.
THEOREM OkIsTrue ==
    ASSUME Alone
    PROVE  Spec => []OkMeansDone
<1>1. AInv => OkMeansDone
  BY DEF AInv, OkHolds, OkMeansDone
<1> QED  BY AloneInvariance, <1>1, PTL

\* The greps in front of share_add_block() keep the sections of smb.conf apart, also when
\* copies come out short.
THEOREM SectionsStayUnique ==
    ASSUME Alone
    PROVE  Spec => []UniqueSections
<1>1. AInv => UniqueSections
  BY DEF AInv, Orderly
<1> QED  BY AloneInvariance, <1>1, PTL

\* A private share's directory has the number of the account that its section names,
\* whoever had the share's name or the number before, from the chown until that account
\* is deleted.
THEOREM DirectoriesFollowOwners ==
    ASSUME Alone
    PROVE  Spec => []DirMatchesOwner
<1>1. AInv => DirMatchesOwner
  BY DEF AInv, Orderly
<1> QED  BY AloneInvariance, <1>1, PTL

-----------------------------------------------------------------------------
(* Verbs are transactions: PanelOpSerial implements Registry.  What a verb *)
(* has done to each part of the state by the time it is at a command is    *)
(* told by what was shown when it began, and so are the guards it passed.  *)

Named(n) == \E s \in shown.shares : s.name = n

\* The shares that a verb which succeeds leaves, and those that it may leave.
After(o) == IF o.verb \in Adds THEN shown.shares \cup {NewSection(o)}
            ELSE {s \in shown.shares : s.name # o.n}
Written(o, S) == S = After(o) \/ (Fails("cat") /\ S \subseteq shown.shares \cup After(o))

\* The numbers that may own the directory after the mkdir and the chown.
Given(o) == {uid[DirOwner(o)]}
            \cup (IF Fails("chown")
                  THEN {IF shown.dir[o.n] = Missing THEN Root ELSE shown.dir[o.n]} ELSE {})
            \cup (IF Fails("mkdir") THEN {shown.dir[o.n]} ELSE {})

Guards(p) ==
    /\ op[p] \in Ops
    /\ op[p].verb \in {"user-add", "user-del"} => op[p].n \notin PROTECTED_USERS
    /\ op[p].verb = "user-admin" => op[p].n \in shown.unix /\ op[p].n # Alpha
    /\ op[p].verb = "user-pass" => shown.pdb[op[p].n] # "absent"
    /\ op[p].verb = "share-add" =>
          ~Named(op[p].n) /\ (op[p].typ = "private" => op[p].owner \in shown.unix)
    /\ op[p].verb = "share-del" => Named(op[p].n) /\ op[p].n \notin PROTECTED_SHARES
    /\ op[p].verb = "user-add" /\ pc[p] \in {"mkdir", "add", "trunc", "write", "reload"} =>
          op[p].share /\ ~Named(op[p].n)
    /\ op[p].verb = "user-del" /\ pc[p] \in {"awk", "trunc", "write", "reload"} =>
          Named(op[p].n)

\* A new account of that name has got a number that no account had.
Numbered(n) ==
    \/ n \in shown.unix /\ uid = shown.uid
    \/ /\ n \notin shown.unix
       /\ \E u \in Uid : /\ \A m \in shown.unix : shown.uid[m] # u
                         /\ uid = [shown.uid EXCEPT ![n] = u]

SinceGroups(p) ==
    /\ IF op[p].verb = "user-add" /\ pc[p] \notin {"id", "adduser"}
       THEN unix = shown.unix \cup {op[p].n} /\ Numbered(op[p].n)
       ELSE unix = shown.unix /\ uid = shown.uid
    /\ IF op[p].verb = "user-add" /\ pc[p] \notin {"id", "adduser", "usermod"}
       THEN \/ users = shown.users \cup {op[p].n}
            \/ Fails("usermod") /\ users = shown.users
       ELSE users = shown.users
    /\ smbadmins = shown.smbadmins

SincePdb(p) ==
    IF op[p].verb = "user-del" /\ pc[p] # "smbpasswd-x"
    THEN \/ pdb = [shown.pdb EXCEPT ![op[p].n] = "absent"]
         \/ Fails("smbpasswd-x") /\ pdb = shown.pdb
    ELSE pdb = IF op[p].verb = "user-add" /\ pc[p] = "smbpasswd-n"
               THEN [shown.pdb EXCEPT ![op[p].n] = "temp"]
               ELSE IF /\ op[p].verb = "user-add"
                       /\ pc[p] \in {"grep", "mkdir", "add", "trunc", "write", "reload"}
               THEN [shown.pdb EXCEPT ![op[p].n] = IF op[p].blank THEN "blank" ELSE "set"]
               ELSE shown.pdb

SinceDir(p) ==
    IF op[p].verb \in Adds /\ pc[p] \in {"add", "trunc", "write", "reload"}
    THEN \E d \in Given(op[p]) : dir = [shown.dir EXCEPT ![op[p].n] = d]
    ELSE dir = shown.dir

SinceFile(p) ==
    /\ pc[p] \in {"trunc", "write"} => Written(op[p], Sections(tmp[p]))
    /\ pc[p] \in {"reload", "deluser"} => Written(op[p], Sections(smb))
    /\ pc[p] = "deluser" /\ ~Named(op[p].n) => Sections(smb) = shown.shares
    /\ pc[p] \notin {"write", "reload", "deluser"} => Sections(smb) = shown.shares

Since(p) ==
    Guards(p) /\ SinceGroups(p) /\ SincePdb(p) /\ SinceDir(p) /\ SinceFile(p)

HInv ==
    /\ shown.pdb \in [Name -> {"absent", "temp", "blank", "set"}]
    /\ shown.dir \in [Name -> Nat \cup {Missing}]
    /\ shown.uid \in [Name -> Nat \cup {Missing}]
    /\ Quiescent => shown = Current
    /\ \A p \in Proc : pc[p] # "idle" => Since(p)

\* What SNext makes of the history variable when there is one invocation.
Shows(p) == shown' = IF pc'[p] = "idle" THEN Current' ELSE shown

\* The history variable shows what there is.
Shown == /\ shown.unix = unix /\ shown.uid = uid /\ shown.pdb = pdb
         /\ shown.users = users /\ shown.smbadmins = smbadmins
         /\ shown.dir = dir /\ shown.shares = Sections(smb)

\* The last step of a verb, or a stutter.
Simulated == HInv' /\ [R!Next]_(R!rvars)

LEMMA NamedHas ==
    ASSUME NEW n, NEW f, shown.shares = Sections(f)
    PROVE  Named(n) <=> Has(f, n)
BY DEF Named, Has, Sections

\* A command after which the verb is still running is a stutter of the registry.
LEMMA GoesOn ==
    ASSUME HInv, Alone, NEW p \in Proc, pc[p] # "idle", pc'[p] # "idle",
           UNCHANGED << op, reply, shown >>, Since(p)'
    PROVE  Simulated
<1>1. \A q \in Proc : q = p
  BY DEF Alone
<1>2. HInv'
  <2>1. \A q \in Proc : pc'[q] # "idle" /\ Since(q)'
    BY <1>1
  <2>2. ~Quiescent'
    BY DEF Quiescent
  <2> QED  BY <2>1, <2>2 DEF HInv
<1>3. UNCHANGED R!rvars
  <2>1. {q \in Proc : pc'[q] # "idle"} = {q \in Proc : pc[q] # "idle"}
    BY <1>1
  <2> QED  BY <2>1 DEF R!rvars, R!accounts, R!dialogue
<1> QED  BY <1>2, <1>3 DEF Simulated

\* A command that ends a verb shows what there is now.
LEMMA Ends ==
    ASSUME AInv', Alone, NEW p \in Proc, NEW o, o = op[p], NEW r, pc[p] # "idle", pc'[p] = "idle",
           UNCHANGED op, reply' = [reply EXCEPT ![p] = r], Shows(p)
    PROVE  HInv' /\ R!Answer(p, o, r) /\ Shown'
<1>1. \A q \in Proc : q = p
  BY DEF Alone
<1>2. shown' = Current'
  BY DEF Shows
<1>3. Shown'
  BY <1>2 DEF Current, Shown
<1>4. HInv'
  <2>1. \A q \in Proc : pc'[q] = "idle" /\ shown' = Current'
    BY <1>1, <1>2
  <2>2. /\ pdb' \in [Name -> {"absent", "temp", "blank", "set"}]
        /\ dir' \in [Name -> Nat \cup {Missing}] /\ uid' \in [Name -> Nat \cup {Missing}]
    BY DEF AInv, TypeOK
  <2> QED  BY <1>3, <2>1, <2>2 DEF HInv, Shown
<1>5. R!Answer(p, o, r)
  <2>1. {q \in Proc : pc'[q] # "idle"} = {} /\ {q \in Proc : pc[q] # "idle"} = {p}
    BY <1>1
  <2> QED  BY <2>1 DEF R!Answer
<1> QED  BY <1>3, <1>4, <1>5

LEMMA Answered ==
    ASSUME HInv', NEW p \in Proc, NEW o \in Ops, R!Verb(p, o)
    PROVE  Simulated
<1>1. R!Next
  BY DEF R!Next
<1> QED  BY <1>1 DEF Simulated

\* A verb that is not turned down at once has passed its guards and done nothing yet.
LEMMA StartShown ==
    ASSUME AInv, HInv, Alone, NEW p \in Proc, Start(p), Shows(p)
    PROVE  Simulated
<1>1. PICK o \in Ops : \/ UserAddStarts(p, o)  \/ UserDelStarts(p, o)
                       \/ UserPassStarts(p, o) \/ UserAdminStarts(p, o)
                       \/ ShareAddStarts(p, o) \/ ShareDelStarts(p, o)
  BY DEF Start
<1>2. o \in Op
  BY PanelOpAssumption
<1>3. /\ pc[p] = "idle" /\ op' = [op EXCEPT ![p] = o] /\ op'[p] = o
      /\ UNCHANGED << tmp, smb, unix, uid, pdb, users, smbadmins, dir >>
  BY <1>1 DEF AInv, TypeOK, Begin, accounts, UserAddStarts, UserDelStarts,
              UserPassStarts, UserAdminStarts, ShareAddStarts, ShareDelStarts
<1>4. \A q \in Proc : q = p
  BY DEF Alone
<1>5. \A q \in Proc : pc[q] = "idle"
  BY <1>3, <1>4
<1>6. shown = Current /\ Shown
  <2>1. shown = Current
    BY <1>5 DEF HInv, Quiescent
  <2> QED  BY <2>1 DEF Current, Shown
<1>7. Current' = Current
  BY <1>3 DEF Current, Sections
<1>8. shown' = shown
  BY <1>6, <1>7 DEF Shows
<1>9. Named(o.n) <=> Has(smb, o.n)
  BY <1>6, NamedHas DEF Shown
<1>10. \/ pc'[p] = "idle" /\ reply' = [reply EXCEPT ![p] = "ERR"]
       \/ /\ reply' = [reply EXCEPT ![p] = "none"]
          /\ \/ /\ o.verb = "user-add" /\ pc'[p] = "id" /\ o.n \notin PROTECTED_USERS
             \/ /\ o.verb = "user-del" /\ pc'[p] = "smbpasswd-x"
                /\ o.n \notin PROTECTED_USERS
             \/ /\ o.verb = "user-pass" /\ pc'[p] \in {"smbpasswd-n", "smbpasswd-a"}
                /\ pdb[o.n] # "absent"
             \/ o.verb = "user-admin" /\ pc'[p] = "usermod" /\ o.n \in unix /\ o.n # Alpha
             \/ /\ o.verb = "share-add" /\ pc'[p] = "mkdir" /\ ~Has(smb, o.n)
                /\ o.typ = "private" => o.owner \in unix
             \/ /\ o.verb = "share-del" /\ pc'[p] = "del" /\ Has(smb, o.n)
                /\ o.n \notin PROTECTED_SHARES
  <2>1. CASE UserAddStarts(p, o)
    BY <2>1 DEF AInv, TypeOK, UserAddStarts, Die, Running
  <2>2. CASE UserDelStarts(p, o)
    BY <2>2 DEF AInv, TypeOK, UserDelStarts, Die, Running
  <2>3. CASE UserPassStarts(p, o)
    BY <2>3 DEF AInv, TypeOK, UserPassStarts, Die, Running
  <2>4. CASE UserAdminStarts(p, o)
    BY <2>4 DEF AInv, TypeOK, UserAdminStarts, Die, Running
  <2>5. CASE ShareAddStarts(p, o)
    BY <2>5 DEF AInv, TypeOK, ShareAddStarts, Die, Running
  <2>6. CASE ShareDelStarts(p, o)
    BY <2>6 DEF AInv, TypeOK, ShareDelStarts, Die, Running
  <2> QED  BY <1>1, <2>1, <2>2, <2>3, <2>4, <2>5, <2>6
<1>11. UNCHANGED << R!accounts, shown.shares, shown.dir >>
  BY <1>8 DEF R!accounts
<1>12. CASE pc'[p] = "idle" /\ reply' = [reply EXCEPT ![p] = "ERR"]
  <2>1. \A q \in Proc : pc'[q] = "idle"
    BY <1>4, <1>12
  <2>2. HInv'
    BY <1>6, <1>7, <1>8, <2>1 DEF HInv
  <2>3. {q \in Proc : pc[q] # "idle"} = {} /\ {q \in Proc : pc'[q] # "idle"} = {}
    BY <1>5, <2>1
  <2>4. R!TurnDown(p, o)
    BY <1>3, <1>11, <1>12, <2>3 DEF R!TurnDown, R!Asks
  <2>5. R!Next
    BY <2>4 DEF R!Next
  <2> QED  BY <2>2, <2>5 DEF Simulated
<1>13. CASE pc'[p] # "idle"
  <2>1. Guards(p)'
    BY <1>3, <1>6, <1>8, <1>9, <1>10, <1>13 DEF Guards, Named, Shown
  <2>2. SinceGroups(p)' /\ SincePdb(p)' /\ SinceDir(p)'
    BY <1>3, <1>6, <1>8, <1>10, <1>13 DEF SinceGroups, SincePdb, SinceDir, Adds, Shown
  <2>3. SinceFile(p)'
    BY <1>3, <1>6, <1>8, <1>10, <1>13 DEF SinceFile, Sections, Shown
  <2>4. HInv'
    <3>1. Since(p)'
      BY <2>1, <2>2, <2>3 DEF Since
    <3>2. \A q \in Proc : pc'[q] # "idle" /\ Since(q)'
      BY <1>4, <1>13, <3>1
    <3>3. ~Quiescent'
      BY <1>13 DEF Quiescent
    <3> QED  BY <1>8, <3>2, <3>3 DEF HInv
  <2>5. {q \in Proc : pc[q] # "idle"} = {} /\ {q \in Proc : pc'[q] # "idle"} = {p}
    BY <1>4, <1>5, <1>13
  <2>6. R!Ask(p, o)
    BY <1>3, <1>10, <1>11, <1>13, <2>5 DEF R!Ask, R!Asks
  <2>7. R!Next
    BY <2>6 DEF R!Next
  <2> QED  BY <2>4, <2>7 DEF Simulated
<1> QED  BY <1>10, <1>12, <1>13

\* A command that touches neither a directory nor a file.
LEMMA SameFiles ==
    ASSUME HInv, NEW p \in Proc, pc[p] # "idle", UNCHANGED << op, tmp, smb, dir, shown >>,
           pc[p] \notin {"mkdir", "add", "awk", "trunc", "write"},
           pc'[p] \notin {"add", "trunc", "write", "reload"},
           pc[p] # "reload", pc[p] # "deluser",
           pc'[p] = "deluser" => ~Has(smb, op[p].n) /\ op[p].verb = "user-del"
    PROVE  SinceDir(p)' /\ SinceFile(p)'
<1>1. SinceDir(p) /\ SinceFile(p)
  BY DEF HInv, Since
<1>2. SinceDir(p)'
  BY <1>1 DEF SinceDir
<1>3. CASE pc'[p] # "deluser"
  <2>1. SinceFile(p)'
    BY <1>1, <1>3 DEF SinceFile, Sections
  <2> QED  BY <1>2, <2>1
<1>4. CASE pc'[p] = "deluser"
  <2>1. Sections(smb) = shown.shares
    BY <1>1 DEF SinceFile
  <2>2. ~Named(op[p].n)
    BY <1>4, <2>1, NamedHas
  <2>3. After(op[p]) = shown.shares
    BY <1>4, <2>2 DEF After, Adds, Named
  <2>4. After(op[p])' = After(op[p])
    BY DEF After, NewSection
  <2>5. SinceFile(p)'
    BY <1>4, <2>1, <2>3, <2>4 DEF SinceFile, Sections, Written
  <2> QED  BY <1>2, <2>5
<1> QED  BY <1>3, <1>4

\* adduser has given the account the lowest free number, which is a free number.
LEMMA AdduserFacts ==
    ASSUME NEW p \in Proc, Adduser(p), ~(Die(p) /\ UNCHANGED << unix, uid >>)
    PROVE  /\ op[p].n \notin unix /\ unix' = unix \cup {op[p].n}
           /\ \E u \in Uid : /\ \A m \in unix : uid[m] # u
                             /\ uid' = [uid EXCEPT ![op[p].n] = u]
           /\ Goto(p, "usermod")
BY DEF Adduser

LEMMA IdAdduserShown ==
    ASSUME AInv, AInv', HInv, Alone, NEW p \in Proc, Id(p) \/ Adduser(p), Shows(p)
    PROVE  Simulated
<1>1. PICK o : o = op[p]
  OBVIOUS
<1>2. /\ o.verb = "user-add" /\ pc[p] \in {"id", "adduser"}
      /\ UNCHANGED << op, tmp, smb, dir, pdb, users, smbadmins >>
  BY <1>1 DEF Id, Adduser, At, accounts
<1>3. Since(p) /\ o \in Ops /\ o.n \notin PROTECTED_USERS
  BY <1>1, <1>2 DEF HInv, Since, Guards
<1>4. Shown
  BY <1>1, <1>2, <1>3 DEF Since, SinceGroups, SincePdb, SinceDir, SinceFile, Shown
<1>5. CASE Die(p) /\ unix' = unix /\ uid' = uid
  <2>1. pc'[p] = "idle" /\ reply' = [reply EXCEPT ![p] = "ERR"]
    BY <1>5 DEF AInv, TypeOK, Die
  <2>2. HInv' /\ R!Answer(p, o, "ERR") /\ Shown'
    BY <1>1, <1>2, <2>1, Ends
  <2>3. Sections(smb)' = Sections(smb)
    BY <1>2 DEF Sections
  <2>4. R!Refuse(p, o)
    BY <1>2, <1>4, <1>5, <2>2, <2>3 DEF R!Refuse, R!accounts, Shown
  <2>5. R!Verb(p, o)
    BY <2>4 DEF R!Verb
  <2> QED  BY <1>3, <2>2, <2>5, Answered
<1>6. CASE ~(Die(p) /\ unix' = unix /\ uid' = uid)
  <2>1. /\ pc'[p] \in {"adduser", "usermod"} /\ reply' = reply
        /\ pc'[p] = "adduser" => unix' = unix /\ uid' = uid
        /\ pc'[p] = "usermod" =>
              /\ unix' = unix \cup {o.n}
              /\ \/ o.n \in unix /\ uid' = uid
                 \/ /\ o.n \notin unix
                    /\ \E u \in Uid : /\ \A m \in unix : uid[m] # u
                                      /\ uid' = [uid EXCEPT ![o.n] = u]
    <3>1. CASE Id(p)
      BY <1>1, <3>1 DEF AInv, TypeOK, Id, Goto, accounts
    <3>2. CASE Adduser(p)
      <4>1. /\ o.n \notin unix /\ unix' = unix \cup {o.n}
            /\ \E u \in Uid : /\ \A m \in unix : uid[m] # u
                              /\ uid' = [uid EXCEPT ![o.n] = u]
            /\ Goto(p, "usermod")
        BY <1>1, <1>6, <3>2, AdduserFacts
      <4>2. pc'[p] = "usermod" /\ reply' = reply
        BY <4>1 DEF AInv, TypeOK, Goto
      <4> QED  BY <4>1, <4>2
    <3> QED  BY <3>1, <3>2
  <2>2. shown' = shown
    BY <2>1 DEF Shows
  <2>3. Guards(p)'
    BY <1>1, <1>2, <1>3, <2>1, <2>2 DEF Since, Guards, Named
  <2>4. SinceGroups(p)'
    BY <1>1, <1>2, <1>4, <2>1, <2>2 DEF SinceGroups, Numbered, Shown
  <2>5. SincePdb(p)'
    BY <1>1, <1>2, <1>4, <2>1, <2>2 DEF SincePdb, Shown
  <2>6. SinceDir(p)' /\ SinceFile(p)'
    BY <1>2, <2>1, <2>2, SameFiles
  <2>7. Since(p)'
    BY <2>3, <2>4, <2>5, <2>6 DEF Since
  <2> QED  BY <1>2, <2>1, <2>2, <2>7, GoesOn
<1> QED  BY <1>5, <1>6

LEMMA UsermodShown ==
    ASSUME AInv, AInv', HInv, Alone, NEW p \in Proc, UsermodUsers(p) \/ UsermodAdmins(p),
           Shows(p)
    PROVE  Simulated
<1>1. PICK o : o = op[p]
  OBVIOUS
<1>2. /\ pc[p] = "usermod" /\ o.verb \in {"user-add", "user-admin"}
      /\ UNCHANGED << op, tmp, smb, dir, pdb, unix, uid >>
  BY <1>1 DEF UsermodUsers, UsermodAdmins, At
<1>3. Since(p) /\ o \in Ops /\ o \in Op
  BY <1>1, <1>2, PanelOpAssumption DEF HInv, Since, Guards
<1>4. o.n \in unix
  BY <1>1, <1>2 DEF AInv, Local, Accounts
<1>5. CASE UsermodUsers(p)
  <2>1. /\ o.verb = "user-add" /\ pc'[p] = "smbpasswd-a"
        /\ users' = users \cup {o.n} \/ (Fails("usermod") /\ users' = users)
        /\ UNCHANGED << reply, smbadmins >>
    BY <1>1, <1>4, <1>5 DEF AInv, TypeOK, UsermodUsers, At, Goto
  <2>2. shown' = shown
    BY <2>1 DEF Shows
  <2>3. Guards(p)'
    BY <1>1, <1>2, <1>3, <2>1, <2>2 DEF Since, Guards, Named
  <2>4. SinceGroups(p)' /\ SincePdb(p)'
    <3>1. SinceGroups(p) /\ SincePdb(p)
      BY <1>3 DEF Since
    <3> QED  BY <1>1, <1>2, <2>1, <2>2, <3>1 DEF SinceGroups, SincePdb, Numbered
  <2>5. SinceDir(p)' /\ SinceFile(p)'
    BY <1>2, <2>1, <2>2, SameFiles
  <2>6. Since(p)'
    BY <2>3, <2>4, <2>5 DEF Since
  <2> QED  BY <1>2, <2>1, <2>2, <2>6, GoesOn
<1>6. CASE UsermodAdmins(p)
  <2>1. /\ o.verb = "user-admin" /\ pc'[p] = "idle" /\ users' = users
        /\ \/ smbadmins' = IF o.on THEN smbadmins \cup {o.n} ELSE smbadmins \ {o.n}
           \/ Fails("usermod") /\ smbadmins' = smbadmins
        /\ reply' = [reply EXCEPT ![p] = "OK"]
    BY <1>1, <1>4, <1>6 DEF AInv, TypeOK, UsermodAdmins, At, Ok
  <2>2. Shown /\ o.n \in shown.unix /\ o.n # Alpha
    BY <1>1, <1>2, <1>3, <2>1
       DEF Since, Guards, SinceGroups, SincePdb, SinceDir, SinceFile, Shown, Adds
  <2>3. HInv' /\ R!Answer(p, o, "OK") /\ Shown'
    BY <1>1, <1>2, <2>1, Ends
  <2>4. Sections(smb)' = Sections(smb)
    BY <1>2 DEF Sections
  <2>5. R!ChangeAdmin(p, o)
    <3>1. \/ shown'.smbadmins = IF o.on THEN shown.smbadmins \cup {o.n}
                                ELSE shown.smbadmins \ {o.n}
          \/ "usermod" \in Faults /\ UNCHANGED shown.smbadmins
      BY <2>1, <2>2, <2>3 DEF Shown, Fails
    <3>2. UNCHANGED << shown.unix, shown.uid, shown.pdb, shown.users, shown.shares, shown.dir >>
      BY <1>2, <2>1, <2>2, <2>3, <2>4 DEF Shown
    <3> QED  BY <2>1, <2>2, <2>3, <3>1, <3>2, Zenon DEF R!ChangeAdmin
  <2>6. R!Verb(p, o)
    BY <2>5 DEF R!Verb
  <2> QED  BY <1>3, <2>3, <2>6, Answered
<1> QED  BY <1>5, <1>6

\* user-add has made the account, if there was none, and put it into users.
Made(n) == /\ unix = shown.unix \cup {n} /\ Numbered(n)
           /\ \/ users = shown.users \cup {n}
              \/ Fails("usermod") /\ users = shown.users

LEMMA MadeAccount ==
    ASSUME NEW n, Made(n), UNCHANGED << unix, uid, users >>, Shown'
    PROVE  R!MakeAccount(n)
<1>1. /\ shown'.unix = shown.unix \cup {n}
      /\ shown'.users = shown.users \cup {n} \/ ("usermod" \in Faults /\ UNCHANGED shown.users)
  BY DEF Made, Shown, Fails
<1>2. \/ n \in shown.unix /\ UNCHANGED shown.uid
      \/ n \notin shown.unix /\ \E u \in Uid : /\ \A m \in shown.unix : shown.uid[m] # u
                                             /\ shown'.uid = [shown.uid EXCEPT ![n] = u]
  BY DEF Made, Shown, Numbered
<1> QED  BY <1>1, <1>2 DEF R!MakeAccount

\* What a verb that deals with a user's account and password has come to before it
\* looks at the shares.
LEMMA PasswordFacts ==
    ASSUME AInv, HInv, NEW p \in Proc, NEW o, o = op[p],
           pc[p] \in {"smbpasswd-a", "smbpasswd-n"}
    PROVE  /\ o \in Ops /\ o \in Op /\ o.verb \in {"user-add", "user-pass"}
           /\ smbadmins = shown.smbadmins
           /\ dir = shown.dir /\ Sections(smb) = shown.shares
           /\ o.verb = "user-add" => o.n \notin PROTECTED_USERS /\ Made(o.n)
           /\ o.verb = "user-pass" => /\ shown.pdb[o.n] # "absent"
                                      /\ unix = shown.unix /\ uid = shown.uid
                                      /\ users = shown.users
           /\ pdb = IF o.verb = "user-add" /\ pc[p] = "smbpasswd-n"
                    THEN [shown.pdb EXCEPT ![o.n] = "temp"] ELSE shown.pdb
           /\ pc[p] = "smbpasswd-n" => o.blank
           /\ pc[p] = "smbpasswd-a" /\ o.verb = "user-pass" => ~o.blank
<1>1. Since(p) /\ Flow(p)
  BY DEF HInv, AInv, Local
<1>2. o \in Ops /\ o \in Op /\ o.verb \in {"user-add", "user-pass"}
  BY <1>1, PanelOpAssumption DEF Since, Guards, Flow
<1>3. /\ smbadmins = shown.smbadmins
      /\ dir = shown.dir /\ Sections(smb) = shown.shares
  BY <1>1 DEF Since, SinceGroups, SinceDir, SinceFile
<1>4. /\ o.verb = "user-add" => Made(o.n)
      /\ o.verb = "user-pass" => unix = shown.unix /\ uid = shown.uid /\ users = shown.users
  BY <1>1 DEF Since, SinceGroups, Made
<1>5. /\ o.verb = "user-add" => o.n \notin PROTECTED_USERS
      /\ o.verb = "user-pass" => shown.pdb[o.n] # "absent"
  BY <1>1 DEF Since, Guards
<1>6. pdb = IF o.verb = "user-add" /\ pc[p] = "smbpasswd-n"
            THEN [shown.pdb EXCEPT ![o.n] = "temp"] ELSE shown.pdb
  BY <1>1, <1>2 DEF Since, SincePdb
<1>7. /\ pc[p] = "smbpasswd-n" => o.blank
      /\ pc[p] = "smbpasswd-a" /\ o.verb = "user-pass" => ~o.blank
  BY <1>1 DEF Flow
<1> QED  BY <1>2, <1>3, <1>4, <1>5, <1>6, <1>7

\* smbpasswd has failed, and user-add or user-pass with it.
LEMMA PasswordFails ==
    ASSUME AInv, AInv', HInv, Alone, NEW p \in Proc,
           pc[p] \in {"smbpasswd-a", "smbpasswd-n"}, Die(p), Shows(p),
           UNCHANGED << op, smb, dir, unix, uid, users, smbadmins, pdb >>
    PROVE  Simulated
<1>1. PICK o : o = op[p]
  OBVIOUS
<1> DEFINE Facts ==
           /\ o \in Ops /\ o \in Op /\ o.verb \in {"user-add", "user-pass"}
           /\ smbadmins = shown.smbadmins
           /\ dir = shown.dir /\ Sections(smb) = shown.shares
           /\ o.verb = "user-add" => o.n \notin PROTECTED_USERS /\ Made(o.n)
           /\ o.verb = "user-pass" =>
                 unix = shown.unix /\ uid = shown.uid /\ users = shown.users
           /\ pdb = IF o.verb = "user-add" /\ pc[p] = "smbpasswd-n"
                    THEN [shown.pdb EXCEPT ![o.n] = "temp"] ELSE shown.pdb
<1>2. Facts
  BY <1>1, PasswordFacts
<1>3. pc[p] = "smbpasswd-n" => o.blank
  BY <1>1, PasswordFacts
<1>4. HInv' /\ R!Answer(p, o, "ERR") /\ Shown'
  <2>1. pc'[p] = "idle" /\ reply' = [reply EXCEPT ![p] = "ERR"]
    BY DEF AInv, TypeOK, Die
  <2> QED  BY <1>1, <2>1, Ends
<1>5. Sections(smb)' = Sections(smb)
  BY DEF Sections
<1>6. CASE o.verb = "user-pass"
  <2>1. R!Refuse(p, o)
    BY <1>2, <1>4, <1>5, <1>6 DEF R!Refuse, R!accounts, Shown
  <2>2. R!Verb(p, o)
    BY <2>1 DEF R!Verb
  <2> QED  BY <1>2, <1>4, <2>2, Answered
<1>7. CASE o.verb = "user-add"
  <2>1. R!MakeAccount(o.n)
    BY <1>2, <1>4, <1>7, MadeAccount
  <2>2. UNCHANGED << shown.smbadmins, shown.shares >> /\ UNCHANGED shown.dir
    BY <1>2, <1>4, <1>5 DEF Shown
  <2>3. CASE pc[p] = "smbpasswd-a"
    <3>1. UNCHANGED << shown.pdb, shown.dir >>
      BY <1>2, <1>4, <2>2, <2>3 DEF Shown
    <3>2. R!AddUserFails(p, o)
      BY <1>2, <1>4, <1>7, <2>1, <2>2, <3>1, Zenon DEF R!AddUserFails
    <3>3. R!Verb(p, o)
      BY <3>2 DEF R!Verb
    <3> QED  BY <1>2, <1>4, <3>3, Answered
  <2>4. CASE pc[p] = "smbpasswd-n"
    <3>1. o.blank /\ R!SetPassword(o.n, "temp")
      BY <1>2, <1>3, <1>4, <1>7, <2>4 DEF R!SetPassword, Shown
    <3>2. R!AddUserFails(p, o)
      BY <1>2, <1>4, <1>7, <2>1, <2>2, <3>1, Zenon DEF R!AddUserFails
    <3>3. R!Verb(p, o)
      BY <3>2 DEF R!Verb
    <3> QED  BY <1>2, <1>4, <3>3, Answered
  <2> QED  BY <2>3, <2>4
<1> QED  BY <1>2, <1>6, <1>7

\* The password that a verb is to set.
Asked(o, w) == w = IF o.blank THEN "blank" ELSE "set"

\* user-pass has set the password.
LEMMA PasswordDone ==
    ASSUME AInv, AInv', HInv, Alone, NEW p \in Proc, NEW w, NEW o, o = op[p],
           pc[p] \in {"smbpasswd-a", "smbpasswd-n"}, o.verb = "user-pass",
           Asked(o, w), Ok(p), Shows(p), pdb' = [pdb EXCEPT ![o.n] = w],
           UNCHANGED << op, smb, dir, unix, uid, users, smbadmins >>
    PROVE  Simulated
<1>1. /\ o \in Ops /\ o.verb = "user-pass"
      /\ smbadmins = shown.smbadmins /\ pdb = shown.pdb
      /\ dir = shown.dir /\ Sections(smb) = shown.shares
      /\ shown.pdb[o.n] # "absent"
      /\ unix = shown.unix /\ uid = shown.uid /\ users = shown.users
  BY PasswordFacts
<1>2. HInv' /\ R!Answer(p, o, "OK") /\ Shown'
  <2>1. pc'[p] = "idle" /\ reply' = [reply EXCEPT ![p] = "OK"]
    BY DEF AInv, TypeOK, Ok
  <2> QED  BY <2>1, Ends
<1>3. Sections(smb)' = Sections(smb)
  BY DEF Sections
<1>4. R!SetPassword(o.n, w)
  BY <1>1, <1>2 DEF R!SetPassword, Shown
<1>5. w = R!Password(o)
  BY Zenon DEF R!Password, Asked
<1>6. UNCHANGED << shown.unix, shown.uid, shown.users, shown.smbadmins,
                   shown.shares, shown.dir >>
  BY <1>1, <1>2, <1>3 DEF Shown
<1>7. R!ChangePassword(p, o)
  BY <1>1, <1>2, <1>4, <1>5, <1>6 DEF R!ChangePassword
<1>8. R!Verb(p, o)
  BY <1>7 DEF R!Verb
<1> QED  BY <1>1, <1>2, <1>8, Answered

\* user-add has set a password and goes on.
LEMMA PasswordGoesOn ==
    ASSUME AInv, HInv, Alone, NEW p \in Proc, NEW w, NEW o, o = op[p],
           pc[p] \in {"smbpasswd-a", "smbpasswd-n"}, o.verb = "user-add",
           \/ pc'[p] = "smbpasswd-n" /\ w = "temp"
           \/ pc'[p] = "grep" /\ Asked(o, w),
           UNCHANGED reply, Shows(p), pdb' = [pdb EXCEPT ![o.n] = w],
           UNCHANGED << op, tmp, smb, dir, unix, uid, users, smbadmins >>
    PROVE  Simulated
<1>1. /\ Made(o.n) /\ smbadmins = shown.smbadmins /\ o.n \notin PROTECTED_USERS
      /\ pdb = IF pc[p] = "smbpasswd-n" THEN [shown.pdb EXCEPT ![o.n] = "temp"] ELSE shown.pdb
  BY PasswordFacts
<1>2. shown' = shown /\ pc'[p] # "idle"
  BY DEF Shows
<1>3. Guards(p)'
  <2>1. Guards(p)
    BY DEF HInv, Since
  <2> QED  BY <1>2, <2>1 DEF Guards, Named
<1>4. SinceGroups(p)'
  BY <1>1, <1>2 DEF SinceGroups, Made, Numbered
<1>5. SincePdb(p)'
  <2>1. pdb' = [shown.pdb EXCEPT ![o.n] = w]
    BY <1>1 DEF HInv
  <2>2. CASE pc'[p] = "smbpasswd-n"
    BY <1>2, <2>1, <2>2 DEF SincePdb
  <2>3. CASE pc'[p] = "grep"
    BY <1>2, <2>1, <2>3, Zenon DEF SincePdb, Asked
  <2> QED  BY <2>2, <2>3
<1>6. SinceDir(p)' /\ SinceFile(p)'
  BY <1>2, SameFiles
<1>7. Since(p)'
  BY <1>3, <1>4, <1>5, <1>6 DEF Since
<1> QED  BY <1>2, <1>7, GoesOn

LEMMA SmbpasswdShown ==
    ASSUME AInv, AInv', HInv, Alone, NEW p \in Proc, SmbpasswdSet(p) \/ SmbpasswdBlank(p),
           Shows(p)
    PROVE  Simulated
<1>1. PICK o : o = op[p]
  OBVIOUS
<1>2. /\ pc[p] \in {"smbpasswd-a", "smbpasswd-n"}
      /\ o.verb \in {"user-add", "user-pass"}
      /\ UNCHANGED << op, tmp, smb, dir, unix, uid, users, smbadmins >>
  BY <1>1 DEF SmbpasswdSet, SmbpasswdBlank, At
<1>3. CASE Die(p) /\ pdb' = pdb
  BY <1>2, <1>3, PasswordFails
<1>4. CASE SmbpasswdSet(p) /\ ~(Die(p) /\ pdb' = pdb)
  <2>1. PICK w : w = IF o.blank THEN "temp" ELSE "set"
    OBVIOUS
  <2>2. /\ pc[p] = "smbpasswd-a"
        /\ pdb' = [pdb EXCEPT ![o.n] = w]
        /\ IF o.verb # "user-add" THEN Ok(p)
           ELSE Goto(p, IF o.blank THEN "smbpasswd-n" ELSE "grep")
    BY <1>1, <1>4, <2>1 DEF SmbpasswdSet, At
  <2>3. CASE o.verb = "user-pass"
    <3>1. ~o.blank
      BY <1>1, <2>2, <2>3 DEF AInv, Local, Flow
    <3>2. Asked(o, w)
      BY <2>1, <3>1, Zenon DEF Asked
    <3>3. Ok(p)
      BY <2>2, <2>3
    <3> QED  BY <1>1, <1>2, <2>2, <2>3, <3>2, <3>3, PasswordDone
  <2>4. CASE o.verb = "user-add"
    <3>1. reply' = reply
      BY <2>2, <2>4 DEF Goto
    <3>2. CASE o.blank
      <4>1. w = "temp"
        BY <2>1, <3>2, Zenon
      <4>2. pc'[p] = "smbpasswd-n"
        BY <2>2, <2>4, <3>2 DEF AInv, TypeOK, Goto
      <4>3. pc[p] = "smbpasswd-a" /\ pdb' = [pdb EXCEPT ![o.n] = w]
        BY <2>2
      <4> QED  BY <1>1, <1>2, <2>4, <3>1, <4>1, <4>2, <4>3, PasswordGoesOn
    <3>3. CASE ~o.blank
      <4>1. Asked(o, w)
        BY <2>1, <3>3, Zenon DEF Asked
      <4>2. pc'[p] = "grep"
        BY <2>2, <2>4, <3>3 DEF AInv, TypeOK, Goto
      <4> QED  BY <1>1, <1>2, <2>2, <2>4, <3>1, <4>1, <4>2, PasswordGoesOn
    <3> QED  BY <3>2, <3>3
  <2> QED  BY <1>2, <2>3, <2>4
<1>5. CASE SmbpasswdBlank(p) /\ ~(Die(p) /\ pdb' = pdb)
  <2>1. /\ pc[p] = "smbpasswd-n"
        /\ pdb' = [pdb EXCEPT ![o.n] = "blank"]
        /\ IF o.verb = "user-pass" THEN Ok(p) ELSE Goto(p, "grep")
    BY <1>1, <1>5 DEF SmbpasswdBlank, At
  <2>2. o.blank
    BY <1>1, <2>1 DEF AInv, Local, Flow
  <2>3. Asked(o, "blank")
    BY <2>2, Zenon DEF Asked
  <2>4. CASE o.verb = "user-pass"
    BY <1>1, <1>2, <2>1, <2>3, <2>4, PasswordDone
  <2>5. CASE o.verb = "user-add"
    <3>1. reply' = reply /\ pc'[p] = "grep"
      BY <2>1, <2>5 DEF AInv, TypeOK, Goto
    <3> QED  BY <1>1, <1>2, <2>1, <2>3, <2>5, <3>1, PasswordGoesOn
  <2> QED  BY <1>2, <2>4, <2>5
<1> QED  BY <1>3, <1>4, <1>5

LEMMA SmbpasswdDeleteShown ==
    ASSUME AInv, HInv, Alone, NEW p \in Proc, SmbpasswdDelete(p), Shows(p)
    PROVE  Simulated
<1>1. PICK o : o = op[p]
  OBVIOUS
<1>2. /\ pc[p] = "smbpasswd-x" /\ pc'[p] = "grep" /\ o.verb = "user-del"
      /\ \/ pdb' = [pdb EXCEPT ![o.n] = "absent"]
         \/ Fails("smbpasswd-x") /\ pdb' = pdb
      /\ UNCHANGED << op, tmp, smb, dir, unix, uid, users, smbadmins, reply >>
  BY <1>1 DEF AInv, TypeOK, SmbpasswdDelete, At, Goto
<1>3. shown' = shown
  BY <1>2 DEF Shows
<1>4. Since(p)
  BY <1>2 DEF HInv
<1>5. Guards(p)' /\ SinceGroups(p)'
  BY <1>1, <1>2, <1>3, <1>4 DEF Since, Guards, SinceGroups, Numbered, Named
<1>6. SincePdb(p)'
  BY <1>1, <1>2, <1>3, <1>4 DEF Since, SincePdb
<1>7. SinceDir(p)' /\ SinceFile(p)'
  BY <1>2, <1>3, SameFiles
<1>8. Since(p)'
  BY <1>5, <1>6, <1>7 DEF Since
<1> QED  BY <1>2, <1>3, <1>8, GoesOn

LEMMA DeluserShown ==
    ASSUME AInv, AInv', HInv, Alone, NEW p \in Proc, Deluser(p), Shows(p)
    PROVE  Simulated
<1>1. PICK o : o = op[p]
  OBVIOUS
<1>2. /\ pc[p] = "deluser" /\ pc'[p] = "idle" /\ o.verb = "user-del"
      /\ reply' = [reply EXCEPT ![p] = "OK"]
      /\ \/ /\ unix' = unix \ {o.n} /\ uid' = [uid EXCEPT ![o.n] = Missing]
            /\ users' = users \ {o.n} /\ smbadmins' = smbadmins \ {o.n}
         \/ Fails("deluser") /\ UNCHANGED << unix, uid, users, smbadmins >>
      /\ UNCHANGED << op, smb, dir, pdb >>
  BY <1>1 DEF AInv, TypeOK, Deluser, At, Ok
<1>3. Since(p) /\ o \in Ops /\ o.n \notin PROTECTED_USERS
  BY <1>1, <1>2 DEF HInv, Since, Guards
<1>4. /\ unix = shown.unix /\ uid = shown.uid /\ users = shown.users
      /\ smbadmins = shown.smbadmins /\ dir = shown.dir
      /\ \/ pdb = [shown.pdb EXCEPT ![o.n] = "absent"]
         \/ Fails("smbpasswd-x") /\ pdb = shown.pdb
  BY <1>1, <1>2, <1>3 DEF Since, SinceGroups, SincePdb, SinceDir, Adds
<1>5. /\ Written(o, Sections(smb))
      /\ ~Named(o.n) => Sections(smb) = shown.shares
  BY <1>1, <1>2, <1>3 DEF Since, SinceFile
<1>6. HInv' /\ R!Answer(p, o, "OK") /\ Shown'
  BY <1>1, <1>2, Ends
<1>7. Sections(smb)' = Sections(smb)
  BY <1>2 DEF Sections
<1>8. R!DropShare(o.n)
  <2>1. R!IsShare(o.n) <=> Named(o.n)
    BY DEF R!IsShare, Named
  <2>2. After(o) = {s \in shown.shares : s.name # o.n}
    BY <1>2 DEF After, Adds
  <2>3. shown'.shares = Sections(smb)
    BY <1>6, <1>7 DEF Shown
  <2>4. R!WriteShares(After(o))
    BY <1>5, <2>3 DEF R!WriteShares, Written, Fails
  <2> QED  BY <1>5, <2>1, <2>2, <2>3, <2>4 DEF R!DropShare
<1>9. R!DropPassword(o.n)
  BY <1>2, <1>4, <1>6 DEF R!DropPassword, R!SetPassword, Shown, Fails
<1>10. /\ \/ /\ shown'.unix = shown.unix \ {o.n}
             /\ shown'.uid = [shown.uid EXCEPT ![o.n] = Missing]
             /\ shown'.users = shown.users \ {o.n} /\ shown'.smbadmins = shown.smbadmins \ {o.n}
          \/ /\ "deluser" \in Faults
             /\ UNCHANGED << shown.unix, shown.uid, shown.users, shown.smbadmins >>
       /\ UNCHANGED shown.dir
  BY <1>2, <1>4, <1>6 DEF Shown, Fails
<1>11. R!DeleteUser(p, o)
  BY <1>2, <1>3, <1>6, <1>8, <1>9, <1>10 DEF R!DeleteUser
<1>12. R!Verb(p, o)
  BY <1>11 DEF R!Verb
<1> QED  BY <1>3, <1>6, <1>12, Answered

-----------------------------------------------------------------------------
(* The commands that deal with smb.conf, as steps of the registry.         *)

\* The copy without a name's sections has all the others.
LEMMA WithoutSections ==
    ASSUME NEW f \in Seq(Section), NEW n, NEW g \in Without(f, n)
    PROVE  Sections(g) = {s \in Sections(f) : s.name # n}
<1> DEFINE Kept == {i \in DOMAIN f : f[i].name # n}
           k == Cardinality(Kept)
<1>1. IsFiniteSet(Kept) /\ k \in Nat
  <2>1. Len(f) \in Nat /\ DOMAIN f = 1 .. Len(f)
    OBVIOUS
  <2>2. IsFiniteSet(1 .. Len(f))
    BY <2>1, FS_Interval
  <2>3. IsFiniteSet(Kept)
    BY <2>1, <2>2, FS_Subset
  <2> QED  BY <2>3, FS_CardinalityType
<1>2. PICK e \in [1 .. k -> Kept] :
         /\ \A i, j \in DOMAIN e : i < j => e[i] < e[j]
         /\ g = [i \in DOMAIN e |-> f[e[i]]]
  BY DEF Without
<1>3. Cardinality(1 .. k) = Cardinality(Kept)
  BY <1>1, FS_Interval
<1> HIDE DEF k
<1>4. \A i, j \in 1 .. k : e[i] = e[j] => i = j
  <2>1. \A i \in 1 .. k : e[i] \in Kept
    BY <1>2
  <2>2. DOMAIN f \subseteq Nat
    OBVIOUS
  <2> SUFFICES ASSUME NEW i \in 1 .. k, NEW j \in 1 .. k, e[i] = e[j], i < j PROVE FALSE
    BY <1>1
  <2>3. e[i] < e[j] /\ e[i] \in Nat
    BY <1>2, <2>1, <2>2
  <2> QED  BY <2>3
<1>5. e \in Injection(1 .. k, Kept)
  BY <1>2, <1>4 DEF Injection, IsInjective
<1>6. e \in Surjection(1 .. k, Kept)
  BY <1>1, <1>3, <1>5, FS_Injection
<1>7. \A j \in Kept : \E i \in 1 .. k : e[i] = j
  BY <1>6 DEF Surjection
<1>8. DOMAIN g = 1 .. k /\ \A i \in 1 .. k : g[i] = f[e[i]] /\ e[i] \in Kept
  BY <1>2
<1>9. ASSUME NEW s \in Sections(g) PROVE s \in Sections(f) /\ s.name # n
  <2>1. PICK i \in 1 .. k : s = g[i]
    BY <1>8 DEF Sections
  <2> QED  BY <1>8, <2>1 DEF Sections
<1>10. ASSUME NEW s \in Sections(f), s.name # n PROVE s \in Sections(g)
  <2>1. PICK j \in DOMAIN f : s = f[j]
    BY DEF Sections
  <2>2. PICK i \in 1 .. k : e[i] = j
    BY <1>7, <1>10, <2>1
  <2> QED  BY <1>8, <2>1, <2>2 DEF Sections
<1> QED  BY <1>9, <1>10

LEMMA AppendSections ==
    ASSUME NEW f \in Seq(Section), NEW s
    PROVE  Sections(Append(f, s)) = Sections(f) \cup {s}
<1> DEFINE g == Append(f, s)
<1>1. /\ Len(f) \in Nat /\ DOMAIN f = 1 .. Len(f) /\ DOMAIN g = 1 .. Len(f) + 1
      /\ \A i \in DOMAIN f : g[i] = f[i]
      /\ g[Len(f) + 1] = s
  OBVIOUS
<1> HIDE DEF g
<1>2. \A i \in DOMAIN g : i \in DOMAIN f \/ i = Len(f) + 1
  BY <1>1
<1>3. Len(f) + 1 \in DOMAIN g /\ DOMAIN f \subseteq DOMAIN g
  BY <1>1
<1>4. \A x : x \in Sections(g) <=> x \in Sections(f) \/ x = s
  BY <1>1, <1>2, <1>3 DEF Sections
<1>5. Sections(g) = Sections(f) \cup {s}
  BY <1>4
<1> QED  BY <1>5 DEF g

\* The commands from the grep on leave the accounts as they are.
Late == {"grep", "mkdir", "add", "del", "awk", "trunc", "write", "reload"}

LEMMA SameAccounts ==
    ASSUME AInv, AInv', HInv, NEW p \in Proc, pc[p] \in Late,
           pc'[p] \in Late \cup {"deluser"},
           UNCHANGED << op, unix, uid, users, smbadmins, pdb, shown >>
    PROVE  SinceGroups(p)' /\ SincePdb(p)'
<1>1. PICK o : o = op[p]
  OBVIOUS
<1>2. op'[p] = o /\ shown' = shown
  BY <1>1
<1>3. Flow(p) /\ Flow(p)' /\ SinceGroups(p) /\ SincePdb(p)
  BY DEF AInv, Local, HInv, Since, Late
<1>4. CASE o.verb = "user-add"
  <2>1. pc[p] \in {"grep", "mkdir", "add", "trunc", "write", "reload"}
    BY <1>1, <1>3, <1>4 DEF Flow, Late
  <2>2. pc'[p] \in {"grep", "mkdir", "add", "trunc", "write", "reload"}
    BY <1>2, <1>3, <1>4 DEF Flow, Late
  <2>3. SinceGroups(p)'
    BY <1>1, <1>2, <1>3, <1>4, <2>1, <2>2 DEF SinceGroups, Numbered
  <2>4. pdb = [shown.pdb EXCEPT ![o.n] = IF o.blank THEN "blank" ELSE "set"]
    BY <1>1, <1>3, <1>4, <2>1 DEF SincePdb
  <2>5. SincePdb(p)'
    BY <1>2, <1>4, <2>2, <2>4 DEF SincePdb
  <2> QED  BY <2>3, <2>5
<1>5. CASE o.verb # "user-add"
  <2>1. SinceGroups(p)'
    BY <1>1, <1>2, <1>3, <1>5 DEF SinceGroups
  <2>2. pc[p] # "smbpasswd-x" /\ pc'[p] # "smbpasswd-x"
    BY DEF Late
  <2>3. SincePdb(p)'
    BY <1>1, <1>2, <1>3, <1>5, <2>2 DEF SincePdb
  <2> QED  BY <2>1, <2>3
<1> QED  BY <1>4, <1>5

\* What there is from the grep on.
LEMMA LateFacts ==
    ASSUME AInv, HInv, NEW p \in Proc, pc[p] \in Late, NEW o, o = op[p]
    PROVE  /\ o \in Ops /\ o \in Op /\ Guards(p) /\ SinceDir(p) /\ SinceFile(p)
           /\ smbadmins = shown.smbadmins
           /\ o.verb = "user-add" =>
                 /\ Made(o.n) /\ o.n \notin PROTECTED_USERS
                 /\ \E w : Asked(o, w) /\ pdb = [shown.pdb EXCEPT ![o.n] = w]
           /\ o.verb # "user-add" => unix = shown.unix /\ uid = shown.uid /\ users = shown.users
           /\ o.verb = "user-del" => \/ pdb = [shown.pdb EXCEPT ![o.n] = "absent"]
                                     \/ Fails("smbpasswd-x") /\ pdb = shown.pdb
           /\ o.verb \in {"share-add", "share-del"} => pdb = shown.pdb
<1>1. Since(p) /\ Flow(p)
  BY DEF HInv, AInv, Local, Late
<1>2. o \in Ops /\ o \in Op
  BY <1>1, PanelOpAssumption DEF Since, Guards
<1>3. CASE o.verb = "user-add"
  <2>1. pc[p] \in {"grep", "mkdir", "add", "trunc", "write", "reload"}
    BY <1>1, <1>3 DEF Flow, Late
  <2>2. Made(o.n) /\ smbadmins = shown.smbadmins
    BY <1>1, <1>3, <2>1 DEF Since, SinceGroups, Made
  <2>3. PICK w : w = IF o.blank THEN "blank" ELSE "set"
    OBVIOUS
  <2>4. Asked(o, w)
    BY <2>3, Zenon DEF Asked
  <2>5. pdb = [shown.pdb EXCEPT ![o.n] = w]
    BY <1>1, <1>3, <2>1, <2>3 DEF Since, SincePdb
  <2>6. o.n \notin PROTECTED_USERS
    BY <1>1, <1>3 DEF Since, Guards
  <2> QED  BY <1>1, <1>2, <1>3, <2>2, <2>4, <2>5, <2>6 DEF Since
<1>4. CASE o.verb # "user-add"
  <2>1. /\ unix = shown.unix /\ uid = shown.uid /\ users = shown.users
        /\ smbadmins = shown.smbadmins
    BY <1>1, <1>4 DEF Since, SinceGroups
  <2>2. /\ o.verb = "user-del" => \/ pdb = [shown.pdb EXCEPT ![o.n] = "absent"]
                                  \/ Fails("smbpasswd-x") /\ pdb = shown.pdb
        /\ o.verb \in {"share-add", "share-del"} => pdb = shown.pdb
    BY <1>1, <1>4 DEF Since, SincePdb, Late
  <2> QED  BY <1>1, <1>2, <1>4, <2>1, <2>2 DEF Since
<1> QED  BY <1>3, <1>4

\* The directory that mkdir and chown leave is one that the registry may give.
LEMMA GivenDirectory ==
    ASSUME NEW o, o.verb \in Adds, NEW typ, NEW owner,
           DirOwner(o) = IF typ = "private" THEN owner ELSE Alpha,
           \E d \in Given(o) : dir = [shown.dir EXCEPT ![o.n] = d],
           UNCHANGED << uid, dir >>, Shown'
    PROVE  R!GiveDirectory(o.n, typ, owner)
<1>1. PICK d \in Given(o) : dir = [shown.dir EXCEPT ![o.n] = d]
  OBVIOUS
<1>2. shown'.uid = uid /\ shown'.dir = dir
  BY DEF Shown
<1>3. shown'.uid[IF typ = "private" THEN owner ELSE Alpha] = uid[DirOwner(o)]
  BY <1>2
<1>4. d \in {shown'.uid[IF typ = "private" THEN owner ELSE Alpha]}
            \cup (IF "chown" \notin Faults THEN {}
                  ELSE {IF shown.dir[o.n] = Missing THEN Root ELSE shown.dir[o.n]})
            \cup (IF "mkdir" \notin Faults THEN {} ELSE {shown.dir[o.n]})
  BY <1>1, <1>3 DEF Given, Fails
<1> QED  BY <1>1, <1>2, <1>4 DEF R!GiveDirectory

\* What user-add and share-add make is what the registry lists.
LEMMA NewShareFacts ==
    ASSUME NEW o
    PROVE  /\ o.verb = "share-add" =>
                 /\ NewSection(o) = R!Share(o.n, o.typ, o.owner)
                 /\ DirOwner(o) = IF o.typ = "private" THEN o.owner ELSE Alpha
           /\ o.verb = "user-add" =>
                 /\ NewSection(o) = R!Share(o.n, "private", o.n)
                 /\ DirOwner(o) = o.n
BY DEF NewSection, DirOwner, R!Share

\* user-add has come to its end, with a share or without.
LEMMA UserAddEnds ==
    ASSUME AInv, AInv', HInv, Alone, NEW p \in Proc, pc[p] \in Late, NEW o, o = op[p],
           o.verb = "user-add", pc'[p] = "idle", reply' = [reply EXCEPT ![p] = "OK"],
           Shows(p), UNCHANGED << op, unix, uid, pdb, users, smbadmins, dir >>,
           \/ /\ ~(o.share /\ ~Named(o.n))
              /\ Sections(smb)' = shown.shares /\ dir' = shown.dir
           \/ /\ o.share /\ ~Named(o.n)
              /\ Written(o, Sections(smb)')
              /\ \E d \in Given(o) : dir = [shown.dir EXCEPT ![o.n] = d]
    PROVE  Simulated
<1>1. /\ o \in Ops /\ smbadmins = shown.smbadmins
      /\ Made(o.n) /\ o.n \notin PROTECTED_USERS
  BY LateFacts
<1>2. PICK w : Asked(o, w) /\ pdb = [shown.pdb EXCEPT ![o.n] = w]
  BY LateFacts
<1>3. HInv' /\ R!Answer(p, o, "OK") /\ Shown'
  <2>1. pc[p] # "idle"
    BY DEF Late
  <2> QED  BY <2>1, Ends
<1>4. R!MakeAccount(o.n) /\ UNCHANGED shown.smbadmins
  <2>1. R!MakeAccount(o.n)
    BY <1>1, <1>3, MadeAccount
  <2> QED  BY <1>1, <1>3, <2>1 DEF Shown
<1>5. R!SetPassword(o.n, R!Password(o))
  <2>1. w = R!Password(o)
    BY <1>2, Zenon DEF R!Password, Asked
  <2>2. R!SetPassword(o.n, w)
    BY <1>2, <1>3 DEF R!SetPassword, Shown
  <2> QED  BY <2>1, <2>2
<1>6. R!IsShare(o.n) <=> Named(o.n)
  BY DEF R!IsShare, Named
<1>7. CASE /\ ~(o.share /\ ~Named(o.n))
           /\ Sections(smb)' = shown.shares /\ dir' = shown.dir
  <2>1. UNCHANGED << shown.shares, shown.dir >>
    BY <1>3, <1>7 DEF Shown
  <2>2. R!AddUser(p, o)
    BY <1>1, <1>3, <1>4, <1>5, <1>6, <1>7, <2>1, Zenon DEF R!AddUser
  <2>3. R!Verb(p, o)
    BY <2>2 DEF R!Verb
  <2> QED  BY <1>1, <1>3, <2>3, Answered
<1>8. CASE /\ o.share /\ ~Named(o.n)
           /\ Written(o, Sections(smb)')
           /\ \E d \in Given(o) : dir = [shown.dir EXCEPT ![o.n] = d]
  <2>1. After(o) = shown.shares \cup {R!Share(o.n, "private", o.n)}
    BY NewShareFacts DEF After, Adds
  <2>2. R!WriteShare(o.n, "private", o.n)
    BY <1>3, <1>8, <2>1 DEF R!WriteShare, R!WriteShares, Written, Fails, Shown
  <2>3. R!GiveDirectory(o.n, "private", o.n)
    <3>1. DirOwner(o) = IF "private" = "private" THEN o.n ELSE Alpha
      BY NewShareFacts
    <3> QED  BY <1>3, <1>8, <3>1, GivenDirectory DEF Adds
  <2>4. R!AddUser(p, o)
    BY <1>1, <1>3, <1>4, <1>5, <1>6, <1>8, <2>2, <2>3, Zenon DEF R!AddUser
  <2>5. R!Verb(p, o)
    BY <2>4 DEF R!Verb
  <2> QED  BY <1>1, <1>3, <2>5, Answered
<1> QED  BY <1>7, <1>8

LEMMA GrepShown ==
    ASSUME AInv, AInv', HInv, Alone, NEW p \in Proc, Grep(p), Shows(p)
    PROVE  Simulated
<1>1. PICK o : o = op[p]
  OBVIOUS
<1>2. /\ pc[p] = "grep" /\ pc[p] \in Late /\ o.verb = "user-add"
      /\ UNCHANGED << op, tmp, smb, dir, unix, uid, users, smbadmins, pdb >>
  BY <1>1 DEF Grep, At, Late, accounts
<1>3. Guards(p) /\ SinceDir(p) /\ SinceFile(p)
  BY <1>1, <1>2, LateFacts
<1>4. dir = shown.dir /\ Sections(smb) = shown.shares /\ (Named(o.n) <=> Has(smb, o.n))
  BY <1>2, <1>3, NamedHas DEF SinceDir, SinceFile
<1>5. CASE o.share /\ ~Has(smb, o.n)
  <2>1. pc'[p] = "mkdir" /\ reply' = reply
    BY <1>1, <1>2, <1>5 DEF AInv, TypeOK, Grep, Goto
  <2>2. shown' = shown
    BY <2>1 DEF Shows
  <2>3. o.share /\ ~Named(o.n) /\ o.n \notin PROTECTED_USERS /\ o \in Ops
    BY <1>1, <1>2, <1>3, <1>4, <1>5 DEF Guards
  <2>4. Guards(p)'
    BY <1>1, <1>2, <2>1, <2>2, <2>3 DEF Guards, Named
  <2>5. SinceGroups(p)' /\ SincePdb(p)'
    <3>1. pc'[p] \in Late
      BY <2>1 DEF Late
    <3> QED  BY <1>2, <2>2, <3>1, SameAccounts
  <2>6. SinceDir(p)' /\ SinceFile(p)'
    BY <1>2, <2>1, <2>2, SameFiles
  <2>7. Since(p)'
    BY <2>4, <2>5, <2>6 DEF Since
  <2> QED  BY <1>2, <2>1, <2>2, <2>7, GoesOn
<1>6. CASE ~(o.share /\ ~Has(smb, o.n))
  <2>1. pc'[p] = "idle" /\ reply' = [reply EXCEPT ![p] = "OK"]
    BY <1>1, <1>2, <1>6 DEF AInv, TypeOK, Grep, Ok
  <2>2. /\ ~(o.share /\ ~Named(o.n))
        /\ Sections(smb)' = shown.shares /\ dir' = shown.dir
    BY <1>2, <1>4, <1>6 DEF Sections
  <2> QED  BY <1>1, <1>2, <2>1, <2>2, UserAddEnds
<1> QED  BY <1>5, <1>6

LEMMA GrepSectionShown ==
    ASSUME AInv, AInv', HInv, Alone, NEW p \in Proc, GrepSection(p), Shows(p)
    PROVE  Simulated
<1>1. PICK o : o = op[p]
  OBVIOUS
<1>2. /\ pc[p] \in {"grep", "del"} /\ pc[p] \in Late /\ o.verb \in {"user-del", "share-del"}
      /\ UNCHANGED << op, tmp, smb, dir, unix, uid, users, smbadmins, pdb >>
  BY <1>1 DEF GrepSection, At, Late, accounts
<1>3. Guards(p) /\ SinceDir(p) /\ SinceFile(p)
  BY <1>1, <1>2, LateFacts
<1>4. Sections(smb) = shown.shares /\ (Named(o.n) <=> Has(smb, o.n))
  BY <1>2, <1>3, NamedHas DEF SinceFile
<1>5. /\ reply' = reply
      /\ \/ pc'[p] = "awk" /\ Named(o.n)
         \/ pc'[p] = "deluser" /\ o.verb = "user-del" /\ ~Has(smb, o.n)
  <2>1. o.verb = "share-del" => Named(o.n)
    BY <1>1, <1>3 DEF Guards
  <2> QED  BY <1>1, <1>2, <1>4, <2>1 DEF AInv, TypeOK, GrepSection, Goto
<1>6. shown' = shown /\ pc'[p] # "idle"
  BY <1>5 DEF Shows
<1>7. Guards(p)'
  BY <1>1, <1>2, <1>3, <1>5, <1>6 DEF Guards, Named
<1>8. SinceGroups(p)' /\ SincePdb(p)'
  <2>1. pc'[p] \in Late \cup {"deluser"}
    BY <1>5 DEF Late
  <2> QED  BY <1>2, <1>6, <2>1, SameAccounts
<1>9. SinceDir(p)' /\ SinceFile(p)'
  BY <1>1, <1>2, <1>5, <1>6, SameFiles
<1>10. Since(p)'
  BY <1>7, <1>8, <1>9 DEF Since
<1> QED  BY <1>2, <1>5, <1>6, <1>10, GoesOn

LEMMA MkdirShown ==
    ASSUME AInv, AInv', HInv, Alone, NEW p \in Proc, Mkdir(p), Shows(p)
    PROVE  Simulated
<1>1. PICK o : o = op[p]
  OBVIOUS
<1>2. /\ pc[p] = "mkdir" /\ pc'[p] = "add" /\ pc[p] \in Late /\ o.verb \in Adds
      /\ UNCHANGED << op, tmp, smb, unix, uid, users, smbadmins, pdb, reply >>
  BY <1>1 DEF AInv, TypeOK, Mkdir, Goto, At, Late, Adds, accounts
<1>3. Guards(p) /\ SinceDir(p) /\ SinceFile(p)
  BY <1>1, <1>2, LateFacts
<1>4. shown' = shown /\ op'[p] = o /\ DirOwner(o)' = DirOwner(o)
  BY <1>1, <1>2 DEF Shows, DirOwner, NewSection
<1>5. DirOwner(o) \in unix
  <2>1. CASE o.verb = "user-add"
    BY <1>1, <1>2, <2>1, NewShareFacts DEF AInv, Local, Accounts
  <2>2. CASE o.verb = "share-add"
    <3>1. o.typ = "private" => o.owner \in unix
      BY <1>1, <1>2, <2>2 DEF AInv, Local, Accounts
    <3>2. Alpha \in unix
      BY PanelOpAssumption DEF AInv, Orderly
    <3> QED  BY <2>2, <3>1, <3>2, NewShareFacts
  <2> QED  BY <1>2, <2>1, <2>2 DEF Adds
<1>6. dir = shown.dir /\ dir \in [Name -> Nat \cup {Missing}] /\ o.n \in Name
  BY <1>1, <1>2, <1>3, OpFacts DEF SinceDir, HInv, AInv, TypeOK
<1>7. \E d \in Given(o) : dir' = [shown.dir EXCEPT ![o.n] = d]
  <2>1. \/ dir' = [dir EXCEPT ![o.n] = uid[DirOwner(o)]]
        \/ /\ Fails("chown")
           /\ dir' = [dir EXCEPT ![o.n] = IF dir[o.n] = Missing THEN Root ELSE dir[o.n]]
        \/ Fails("mkdir") /\ dir' = dir
    BY <1>1, <1>5 DEF Mkdir
  <2>2. CASE dir' = [dir EXCEPT ![o.n] = uid[DirOwner(o)]]
    BY <1>6, <2>2 DEF Given
  <2>3. CASE /\ Fails("chown")
             /\ dir' = [dir EXCEPT ![o.n] = IF dir[o.n] = Missing THEN Root ELSE dir[o.n]]
    BY <1>6, <2>3 DEF Given
  <2>4. CASE Fails("mkdir") /\ dir' = dir
    <3>1. dir' = [shown.dir EXCEPT ![o.n] = shown.dir[o.n]]
      BY <1>6, <2>4
    <3>2. shown.dir[o.n] \in Given(o)
      BY <2>4 DEF Given
    <3> QED  BY <3>1, <3>2
  <2> QED  BY <2>1, <2>2, <2>3, <2>4
<1>8. Guards(p)'
  BY <1>1, <1>2, <1>3, <1>4 DEF Guards, Named
<1>9. SinceGroups(p)' /\ SincePdb(p)'
  <2>1. pc'[p] \in Late
    BY <1>2 DEF Late
  <2> QED  BY <1>2, <1>4, <2>1, SameAccounts
<1>10. SinceDir(p)'
  <2>1. Given(o)' = Given(o)
    BY <1>2, <1>4 DEF Given
  <2> QED  BY <1>2, <1>4, <1>7, <2>1 DEF SinceDir
<1>11. SinceFile(p)'
  BY <1>2, <1>3, <1>4 DEF SinceFile, Sections
<1>12. Since(p)'
  BY <1>8, <1>9, <1>10, <1>11 DEF Since
<1> QED  BY <1>2, <1>4, <1>12, GoesOn

\* testparm has accepted a copy, or the copy becomes the file: the verb goes on, and
\* where the copy or the file is, there are shares that the verb may leave.
LEMMA CopyShown ==
    ASSUME AInv, AInv', HInv, Alone, NEW p \in Proc, NEW o, o = op[p],
           pc[p] \in {"add", "awk", "trunc", "write"},
           pc'[p] \in {"trunc", "write", "reload"},
           pc'[p] \in {"trunc", "write"} => Written(o, Sections(tmp[p])'),
           pc'[p] = "reload" => Written(o, Sections(smb)'),
           pc'[p] = "trunc" => smb' = smb,
           pc'[p] = "trunc" => pc[p] \in {"add", "awk"},
           UNCHANGED << op, dir, unix, uid, users, smbadmins, pdb, reply >>, Shows(p)
    PROVE  Simulated
<1>1. /\ pc[p] \in Late /\ pc'[p] \in Late /\ pc'[p] # "idle" /\ op'[p] = o
  BY DEF Late
<1>2. Guards(p) /\ SinceDir(p) /\ SinceFile(p) /\ Flow(p)
  BY <1>1, LateFacts DEF AInv, Local
<1>3. shown' = shown
  BY <1>1 DEF Shows
<1>4. Guards(p)'
  <2>1. o.verb = "user-add" => pc[p] \in {"add", "trunc", "write"}
    BY <1>2 DEF Flow
  <2>2. o.verb = "user-del" => pc[p] \in {"awk", "trunc", "write"}
    BY <1>2 DEF Flow, Adds
  <2> QED  BY <1>1, <1>2, <1>3, <2>1, <2>2 DEF Guards, Named
<1>5. SinceGroups(p)' /\ SincePdb(p)'
  BY <1>1, <1>3, SameAccounts
<1>6. SinceDir(p)'
  <2>1. CASE o.verb \in Adds
    <3>1. pc[p] \in {"add", "trunc", "write", "reload"}
      BY <1>2, <2>1 DEF Flow, Adds
    <3>2. \E d \in Given(o) : dir = [shown.dir EXCEPT ![o.n] = d]
      BY <1>2, <2>1, <3>1 DEF SinceDir
    <3>3. DirOwner(o)' = DirOwner(o)
      BY DEF DirOwner, NewSection
    <3>4. Given(o)' = Given(o)
      BY <1>3, <3>3 DEF Given
    <3> QED  BY <1>1, <1>3, <2>1, <3>2, <3>4 DEF SinceDir
  <2>2. CASE o.verb \notin Adds
    BY <1>1, <1>2, <1>3, <2>2 DEF SinceDir
  <2> QED  BY <2>1, <2>2
<1>7. SinceFile(p)'
  <2>1. After(o)' = After(o)
    BY <1>3 DEF After, NewSection
  <2>2. \A S : Written(o, S)' <=> Written(o, S)
    BY <1>3, <2>1 DEF Written
  <2>3. pc'[p] = "trunc" => Sections(smb)' = shown.shares
    BY <1>2 DEF SinceFile, Sections
  <2>4. /\ pc'[p] \in {"trunc", "write"} => Written(op[p], Sections(tmp[p]))'
        /\ pc'[p] = "reload" => Written(op[p], Sections(smb))'
    BY <1>1, <1>3, <2>1 DEF Written
  <2> QED  BY <1>3, <2>3, <2>4 DEF SinceFile
<1>8. Since(p)'
  BY <1>4, <1>5, <1>6, <1>7 DEF Since
<1>9. pc[p] # "idle"
  OBVIOUS
<1> QED  BY <1>1, <1>3, <1>8, <1>9, GoesOn

LEMMA WriteShown ==
    ASSUME AInv, AInv', HInv, Alone, NEW p \in Proc, Truncate(p) \/ Write(p), Shows(p)
    PROVE  Simulated
<1>1. PICK o : o = op[p]
  OBVIOUS
<1>2. /\ pc[p] \in {"trunc", "write"} /\ pc[p] \in Late
      /\ UNCHANGED << op, dir, unix, uid, users, smbadmins, pdb, reply >>
  BY DEF Truncate, Write, Goto, accounts, Late
<1>3. /\ Written(o, Sections(tmp[p]))
      /\ pc[p] = "trunc" => Sections(smb) = shown.shares
  BY <1>1, <1>2, LateFacts DEF SinceFile
<1>4. CASE Truncate(p) /\ Goto(p, "write")
  <2>1. pc'[p] = "write" /\ tmp' = tmp
    BY <1>4 DEF AInv, TypeOK, Truncate, Goto
  <2>2. Written(o, Sections(tmp[p])')
    BY <1>3, <2>1 DEF Sections
  <2> QED  BY <1>1, <1>2, <2>1, <2>2, CopyShown
<1>5. CASE Truncate(p) /\ ~Goto(p, "write")
  <2>1. pc[p] = "trunc" /\ pc'[p] = "reload" /\ smb' = smb /\ Fails("cat")
    BY <1>5 DEF AInv, TypeOK, Truncate, Goto
  <2>2. Written(o, Sections(smb)')
    BY <1>3, <2>1 DEF Sections, Written
  <2> QED  BY <1>1, <1>2, <2>1, <2>2, CopyShown
<1>6. CASE Write(p)
  <2>1. pc[p] = "write" /\ pc'[p] = "reload"
    BY <1>6 DEF AInv, TypeOK, Write, Goto
  <2>2. PICK k \in 0 .. Len(tmp[p]) :
           /\ smb' = SubSeq(tmp[p], 1, k)
           /\ k = Len(tmp[p]) \/ Fails("cat")
    BY <1>6, WrittenFile
  <2>3. /\ Sections(smb') \subseteq Sections(tmp[p])
        /\ smb' = tmp[p] \/ Fails("cat")
    <3>1. tmp[p] \in Seq(Section)
      BY DEF AInv, TypeOK
    <3> QED  BY <2>2, <3>1, PrefixFacts
  <2>4. Sections(smb)' = Sections(smb')
    BY DEF Sections
  <2>5. Written(o, Sections(smb)')
    BY <1>3, <2>3, <2>4 DEF Written
  <2> QED  BY <1>1, <1>2, <2>1, <2>5, CopyShown
<1> QED  BY <1>4, <1>5, <1>6

\* mktemp has failed, or testparm has refused the copy with the new section.
LEMMA AddFails ==
    ASSUME AInv, AInv', HInv, Alone, NEW p \in Proc, NEW o, o = op[p], pc[p] = "add",
           o.verb \in Adds, Die(p), Shows(p),
           UNCHANGED << op, smb, dir, unix, uid, users, smbadmins, pdb >>
    PROVE  Simulated
<1>1. pc[p] \in Late
  BY DEF Late
<1>2. /\ o \in Ops /\ Guards(p) /\ SinceDir(p) /\ SinceFile(p)
      /\ smbadmins = shown.smbadmins
  BY <1>1, LateFacts
<1>3. /\ \E d \in Given(o) : dir = [shown.dir EXCEPT ![o.n] = d]
      /\ Sections(smb) = shown.shares
  BY <1>2 DEF SinceDir, SinceFile
<1>4. HInv' /\ R!Answer(p, o, "ERR") /\ Shown'
  <2>1. pc[p] # "idle" /\ pc'[p] = "idle" /\ reply' = [reply EXCEPT ![p] = "ERR"]
    BY DEF AInv, TypeOK, Die
  <2> QED  BY <2>1, Ends
<1>5. Sections(smb)' = Sections(smb)
  BY DEF Sections
<1>6. R!IsShare(o.n) <=> Named(o.n)
  BY DEF R!IsShare, Named
<1>7. UNCHANGED << shown.smbadmins, shown.shares >>
  BY <1>2, <1>3, <1>4, <1>5 DEF Shown
<1>8. CASE o.verb = "user-add"
  <2>1. Made(o.n) /\ o.n \notin PROTECTED_USERS
    BY <1>1, <1>8, LateFacts
  <2>2. PICK w : Asked(o, w) /\ pdb = [shown.pdb EXCEPT ![o.n] = w]
    BY <1>1, <1>8, LateFacts
  <2>3. R!MakeAccount(o.n)
    BY <1>4, <2>1, MadeAccount
  <2>4. R!SetPassword(o.n, R!Password(o))
    <3>1. w = R!Password(o)
      BY <2>2, Zenon DEF R!Password, Asked
    <3>2. R!SetPassword(o.n, w)
      BY <1>4, <2>2 DEF R!SetPassword, Shown
    <3> QED  BY <3>1, <3>2
  <2>5. R!GiveDirectory(o.n, "private", o.n)
    <3>1. DirOwner(o) = IF "private" = "private" THEN o.n ELSE Alpha
      BY <1>8, NewShareFacts
    <3> QED  BY <1>3, <1>4, <3>1, GivenDirectory
  <2>6. o.share /\ ~Named(o.n)
    BY <1>2, <1>8 DEF Guards
  <2>7. R!AddUserFails(p, o)
    BY <1>4, <1>6, <1>7, <1>8, <2>1, <2>3, <2>4, <2>5, <2>6, Zenon DEF R!AddUserFails
  <2>8. R!Verb(p, o)
    BY <2>7 DEF R!Verb
  <2> QED  BY <1>2, <1>4, <2>8, Answered
<1>9. CASE o.verb = "share-add"
  <2>1. unix = shown.unix /\ uid = shown.uid /\ users = shown.users /\ pdb = shown.pdb
    BY <1>1, <1>9, LateFacts
  <2>2. R!Grantable(o)
    BY <1>2, <1>6, <1>9 DEF Guards, R!Grantable
  <2>3. R!GiveDirectory(o.n, o.typ, o.owner)
    <3>1. DirOwner(o) = IF o.typ = "private" THEN o.owner ELSE Alpha
      BY <1>9, NewShareFacts
    <3> QED  BY <1>3, <1>4, <3>1, GivenDirectory
  <2>4. UNCHANGED << R!accounts, shown.shares >>
    BY <1>4, <1>7, <2>1 DEF R!accounts, Shown
  <2>5. R!AddShareFails(p, o)
    BY <1>4, <2>2, <2>3, <2>4 DEF R!AddShareFails
  <2>6. R!Verb(p, o)
    BY <2>5 DEF R!Verb
  <2> QED  BY <1>2, <1>4, <2>6, Answered
<1> QED  BY <1>8, <1>9 DEF Adds

LEMMA AddSectionShown ==
    ASSUME AInv, AInv', HInv, Alone, NEW p \in Proc, AddSection(p), Shows(p)
    PROVE  Simulated
<1>1. PICK o : o = op[p]
  OBVIOUS
<1>2. /\ pc[p] = "add" /\ pc[p] \in Late /\ o.verb \in Adds
      /\ UNCHANGED << op, smb, dir, unix, uid, users, smbadmins, pdb >>
  BY <1>1 DEF AddSection, At, Late, Adds, accounts
<1>3. CASE Rejected(p)
  <2>1. Die(p)
    BY <1>3 DEF Rejected
  <2> QED  BY <1>1, <1>2, <2>1, AddFails
<1>4. ASSUME NEW k \in 0 .. Len(smb), NEW added \in {<< >>, << NewSection(op[p]) >>},
             Accepted(p, SubSeq(smb, 1, k) \o added, Append(smb, NewSection(op[p])))
      PROVE  Simulated
  <2> DEFINE new == NewSection(op[p])
             f == SubSeq(smb, 1, k)
             g == Append(smb, new)
  <2>1. smb \in Seq(Section) /\ Sections(smb) = shown.shares
    BY <1>1, <1>2, LateFacts DEF AInv, TypeOK, SinceFile
  <2>2. f \in Seq(Section) /\ Sections(f) \subseteq Sections(smb)
    BY <2>1, PrefixFacts
  <2>3. After(o) = shown.shares \cup {new} /\ Sections(g) = After(o)
    BY <1>1, <1>2, <2>1, AppendSections DEF After
  <2> HIDE DEF new, f
  <2>4. Sections(f \o added) \subseteq Sections(smb) \cup {new}
    <3>1. CASE added = << >>
      <4>1. f \o added = f
        BY <2>2, <3>1, ConcatEmptySeq
      <4> QED  BY <2>2, <4>1
    <3>2. CASE added = << new >>
      <4>1. f \o added = Append(f, new)
        BY <2>2, <3>2
      <4>2. Sections(f \o added) = Sections(f) \cup {new}
        BY <2>2, <4>1, AppendSections
      <4> QED  BY <2>2, <4>2
    <3> QED  BY <3>1, <3>2 DEF new
  <2>5. Accepted(p, f \o added, g)
    BY <1>4 DEF f, new
  <2> HIDE DEF g
  <2>6. /\ pc'[p] = "trunc" /\ reply' = reply /\ tmp'[p] = f \o added
        /\ f \o added = g \/ Fails("cat")
    BY <2>5 DEF AInv, TypeOK, Accepted, Goto
  <2>7. Sections(tmp[p])' = Sections(f \o added)
    BY <2>6 DEF Sections
  <2>8. Written(o, Sections(tmp[p])')
    BY <2>1, <2>3, <2>4, <2>6, <2>7 DEF Written
  <2> QED  BY <1>1, <1>2, <2>6, <2>8, CopyShown
<1> QED  BY <1>3, <1>4 DEF AddSection

LEMMA DropSectionShown ==
    ASSUME AInv, AInv', HInv, Alone, NEW p \in Proc, DropSection(p), Shows(p)
    PROVE  Simulated
<1>1. PICK o : o = op[p]
  OBVIOUS
<1>2. /\ pc[p] = "awk" /\ pc[p] \in Late /\ o.verb \in {"user-del", "share-del"}
      /\ UNCHANGED << op, smb, dir, unix, uid, users, smbadmins, pdb >>
  BY <1>1 DEF DropSection, At, Late, accounts
<1>3. /\ o \in Ops /\ Guards(p) /\ SinceDir(p) /\ SinceFile(p)
      /\ smbadmins = shown.smbadmins
      /\ unix = shown.unix /\ uid = shown.uid /\ users = shown.users
      /\ o.verb = "user-del" => \/ pdb = [shown.pdb EXCEPT ![o.n] = "absent"]
                                \/ Fails("smbpasswd-x") /\ pdb = shown.pdb
      /\ o.verb = "share-del" => pdb = shown.pdb
  BY <1>1, <1>2, LateFacts
<1>4. dir = shown.dir /\ Sections(smb) = shown.shares /\ Named(o.n)
  BY <1>1, <1>2, <1>3 DEF SinceDir, SinceFile, Guards, Adds
<1>5. CASE Rejected(p)
  <2>1. HInv' /\ R!Answer(p, o, "ERR") /\ Shown'
    <3>1. pc[p] # "idle" /\ pc'[p] = "idle" /\ reply' = [reply EXCEPT ![p] = "ERR"]
      BY <1>2, <1>5 DEF AInv, TypeOK, Rejected, Die
    <3> QED  BY <1>1, <1>2, <3>1, Ends
  <2>2. Sections(smb)' = Sections(smb)
    BY <1>2 DEF Sections
  <2>3. UNCHANGED << shown.unix, shown.uid, shown.users, shown.smbadmins, shown.shares,
                     shown.dir >>
    BY <1>2, <1>3, <1>4, <2>1, <2>2 DEF Shown
  <2>4. CASE o.verb = "user-del"
    <3>1. R!DropPassword(o.n)
      BY <1>2, <1>3, <2>1, <2>4 DEF R!DropPassword, R!SetPassword, Shown, Fails
    <3>2. R!IsShare(o.n) /\ o.n \notin PROTECTED_USERS
      BY <1>1, <1>3, <1>4, <2>4 DEF R!IsShare, Named, Guards
    <3>3. R!DeleteUserFails(p, o)
      BY <2>1, <2>3, <2>4, <3>1, <3>2 DEF R!DeleteUserFails
    <3>4. R!Verb(p, o)
      BY <3>3 DEF R!Verb
    <3> QED  BY <1>3, <2>1, <3>4, Answered
  <2>5. CASE o.verb = "share-del"
    <3>1. R!Refuse(p, o)
      BY <1>2, <1>3, <2>1, <2>3, <2>5 DEF R!Refuse, R!accounts, Shown
    <3>2. R!Verb(p, o)
      BY <3>1 DEF R!Verb
    <3> QED  BY <1>3, <2>1, <3>2, Answered
  <2> QED  BY <1>2, <2>4, <2>5
<1>6. ASSUME NEW f \in Without(smb, o.n), NEW k \in 0 .. Len(f),
             Accepted(p, SubSeq(f, 1, k), f)
      PROVE  Simulated
  <2> DEFINE g == SubSeq(f, 1, k)
  <2>1. smb \in Seq(Section)
    BY DEF AInv, TypeOK
  <2>2. f \in Seq(Section)
    BY <2>1, WithoutFacts
  <2>3. Sections(f) = After(o)
    <3>1. Sections(f) = {s \in Sections(smb) : s.name # o.n}
      BY <2>1, WithoutSections
    <3> QED  BY <1>2, <1>4, <3>1 DEF After, Adds
  <2>4. Sections(g) \subseteq Sections(f)
    BY <2>2, PrefixFacts
  <2> HIDE DEF g
  <2>5. /\ pc'[p] = "trunc" /\ reply' = reply /\ tmp'[p] = g
        /\ g = f \/ Fails("cat")
    BY <1>6 DEF AInv, TypeOK, Accepted, Goto, g
  <2>6. Sections(tmp[p])' = Sections(g)
    BY <2>5 DEF Sections
  <2>7. Written(o, Sections(tmp[p])')
    BY <2>3, <2>4, <2>5, <2>6 DEF Written
  <2> QED  BY <1>1, <1>2, <2>5, <2>7, CopyShown
<1> QED  BY <1>1, <1>5, <1>6 DEF DropSection

LEMMA ReloadShown ==
    ASSUME AInv, AInv', HInv, Alone, NEW p \in Proc, Reload(p), Shows(p)
    PROVE  Simulated
<1>1. PICK o : o = op[p]
  OBVIOUS
<1>2. /\ pc[p] = "reload" /\ pc[p] \in Late
      /\ o.verb \in {"user-add", "share-add", "user-del", "share-del"}
      /\ UNCHANGED << op, tmp, smb, dir, unix, uid, users, smbadmins, pdb >>
  BY <1>1 DEF Reload, AInv, Local, Flow, Late, accounts
<1>3. /\ o \in Ops /\ Guards(p) /\ SinceDir(p) /\ SinceFile(p)
      /\ smbadmins = shown.smbadmins
      /\ o.verb # "user-add" => unix = shown.unix /\ uid = shown.uid /\ users = shown.users
      /\ o.verb \in {"share-add", "share-del"} => pdb = shown.pdb
  BY <1>1, <1>2, LateFacts
<1>4. /\ Written(o, Sections(smb)) /\ Sections(smb)' = Sections(smb)
      /\ IF o.verb \in Adds THEN \E d \in Given(o) : dir = [shown.dir EXCEPT ![o.n] = d]
         ELSE dir = shown.dir
  BY <1>1, <1>2, <1>3 DEF SinceFile, SinceDir, Sections
<1>5. CASE o.verb = "user-del"
  <2>1. pc'[p] = "deluser" /\ reply' = reply
    BY <1>1, <1>5 DEF AInv, TypeOK, Reload, Goto
  <2>2. shown' = shown /\ op'[p] = o
    BY <1>1, <1>2, <2>1 DEF Shows
  <2>3. Named(o.n)
    BY <1>1, <1>2, <1>3, <1>5 DEF Guards
  <2>4. Guards(p)'
    BY <1>1, <1>2, <1>3, <1>5, <2>1, <2>2 DEF Guards, Named
  <2>5. SinceGroups(p)' /\ SincePdb(p)'
    BY <1>2, <2>1, <2>2, SameAccounts
  <2>6. SinceDir(p)'
    BY <1>1, <1>2, <1>4, <1>5, <2>2 DEF SinceDir, Adds
  <2>7. SinceFile(p)'
    <3>1. After(o)' = After(o)
      BY <2>2 DEF After, NewSection
    <3>2. Written(op[p], Sections(smb))'
      BY <1>4, <2>2, <3>1 DEF Written
    <3>3. Named(op[p].n)'
      BY <2>2, <2>3 DEF Named
    <3> QED  BY <2>1, <3>2, <3>3 DEF SinceFile
  <2>8. Since(p)'
    BY <2>4, <2>5, <2>6, <2>7 DEF Since
  <2> QED  BY <1>2, <2>1, <2>2, <2>8, GoesOn
<1>6. CASE o.verb # "user-del"
  <2>1. pc'[p] = "idle" /\ reply' = [reply EXCEPT ![p] = "OK"]
    BY <1>1, <1>6 DEF AInv, TypeOK, Reload, Ok
  <2>2. HInv' /\ R!Answer(p, o, "OK") /\ Shown'
    <3>1. pc[p] # "idle"
      BY <1>2
    <3> QED  BY <1>1, <1>2, <2>1, <3>1, Ends
  <2>3. R!IsShare(o.n) <=> Named(o.n)
    BY DEF R!IsShare, Named
  <2>4. R!WriteShares(After(o))
    BY <1>4, <2>2 DEF R!WriteShares, Written, Fails, Shown
  <2>5. CASE o.verb = "user-add"
    <3>1. o.share /\ ~Named(o.n)
      BY <1>1, <1>2, <1>3, <2>5 DEF Guards
    <3>2. Written(o, Sections(smb)') /\ \E d \in Given(o) : dir = [shown.dir EXCEPT ![o.n] = d]
      BY <1>4, <2>5 DEF Adds
    <3> QED  BY <1>1, <1>2, <2>1, <2>5, <3>1, <3>2, UserAddEnds
  <2>6. CASE o.verb \in {"share-add", "share-del"}
    <3>1. UNCHANGED R!accounts
      BY <1>2, <1>3, <2>2, <2>6 DEF R!accounts, Shown
    <3>2. CASE o.verb = "share-add"
      <4>1. R!Grantable(o)
        BY <1>1, <1>3, <2>3, <3>2 DEF Guards, R!Grantable
      <4>2. R!WriteShare(o.n, o.typ, o.owner)
        <5>1. After(o) = shown.shares \cup {R!Share(o.n, o.typ, o.owner)}
          BY <3>2, NewShareFacts DEF After, Adds
        <5> QED  BY <2>4, <5>1 DEF R!WriteShare
      <4>3. R!GiveDirectory(o.n, o.typ, o.owner)
        <5>1. DirOwner(o) = IF o.typ = "private" THEN o.owner ELSE Alpha
          BY <3>2, NewShareFacts
        <5>2. o.verb \in Adds /\ \E d \in Given(o) : dir = [shown.dir EXCEPT ![o.n] = d]
          BY <1>4, <3>2 DEF Adds
        <5> QED  BY <1>2, <2>2, <5>1, <5>2, GivenDirectory
      <4>4. R!AddShare(p, o)
        BY <2>2, <3>1, <4>1, <4>2, <4>3 DEF R!AddShare
      <4>5. R!Verb(p, o)
        BY <4>4 DEF R!Verb
      <4> QED  BY <1>3, <2>2, <4>5, Answered
    <3>3. CASE o.verb = "share-del"
      <4>1. Named(o.n) /\ o.n \notin PROTECTED_SHARES
        BY <1>1, <1>3, <3>3 DEF Guards
      <4>2. R!DropShare(o.n) /\ UNCHANGED shown.dir
        <5>1. After(o) = {s \in shown.shares : s.name # o.n}
          BY <3>3 DEF After, Adds
        <5>2. UNCHANGED shown.dir
          BY <1>2, <1>4, <2>2, <3>3 DEF Shown, Adds
        <5> QED  BY <2>3, <2>4, <4>1, <5>1, <5>2 DEF R!DropShare
      <4>3. R!DeleteShare(p, o)
        BY <2>2, <2>3, <3>1, <3>3, <4>1, <4>2 DEF R!DeleteShare
      <4>4. R!Verb(p, o)
        BY <4>3 DEF R!Verb
      <4> QED  BY <1>3, <2>2, <4>4, Answered
    <3> QED  BY <2>6, <3>2, <3>3
  <2> QED  BY <1>2, <1>6, <2>5, <2>6
<1> QED  BY <1>5, <1>6

\* smbd's reload, and a step that changes nothing.
LEMMA MachineShown ==
    ASSUME HInv, UNCHANGED << proc, smb, accounts, dir >>,
           shown' = (IF Quiescent' THEN Current' ELSE shown) \/ shown' = shown
    PROVE  Simulated
<1>1. UNCHANGED << pc, op, tmp, reply, smb, unix, uid, pdb, users, smbadmins, dir >>
  BY DEF proc, accounts
<1>2. Current' = Current /\ (Quiescent' <=> Quiescent)
  BY <1>1 DEF Current, Sections, Quiescent
<1>3. shown' = shown
  BY <1>2 DEF HInv
<1>4. ASSUME NEW p \in Proc, pc'[p] # "idle" PROVE Since(p)'
  <2>1. Since(p)
    BY <1>1, <1>4 DEF HInv
  <2>2. After(op[p])' = After(op[p]) /\ Given(op[p])' = Given(op[p])
    BY <1>1, <1>3 DEF After, Given, DirOwner, NewSection
  <2>3. Guards(p)' /\ SinceGroups(p)' /\ SincePdb(p)'
    BY <1>1, <1>3, <2>1 DEF Since, Guards, Named, SinceGroups, SincePdb, Numbered
  <2>4. SinceDir(p)'
    BY <1>1, <1>3, <2>1, <2>2 DEF Since, SinceDir
  <2>5. SinceFile(p)'
    BY <1>1, <1>3, <2>1, <2>2 DEF Since, SinceFile, Sections, Written, Named
  <2> QED  BY <2>3, <2>4, <2>5 DEF Since
<1>5. HInv'
  BY <1>2, <1>3, <1>4 DEF HInv
<1>6. UNCHANGED R!rvars
  BY <1>1, <1>3 DEF R!rvars, R!accounts, R!dialogue
<1> QED  BY <1>5, <1>6 DEF Simulated

LEMMA StepShown ==
    ASSUME AInv, AInv', HInv, Alone, ~PowerCuts, [SNext]_svars
    PROVE  Simulated
<1>1. CASE UNCHANGED svars
  BY <1>1, MachineShown DEF svars, vars
<1>2. CASE SNext /\ SmbdReloads
  BY <1>2, MachineShown DEF SNext, SmbdReloads
<1>3. ASSUME SNext, NEW p \in Proc, Start(p) \/ Continue(p)
      PROVE  Simulated
  <2>1. Quiescent' <=> pc'[p] = "idle"
    BY DEF Quiescent, Alone
  <2>2. Shows(p)
    BY <1>3, <2>1 DEF SNext, Shows
  <2>3. CASE Start(p)
    BY <2>2, <2>3, StartShown
  <2>4. CASE Continue(p)
    BY <2>2, <2>4, IdAdduserShown, UsermodShown, SmbpasswdShown, SmbpasswdDeleteShown,
       DeluserShown, GrepShown, GrepSectionShown, MkdirShown, AddSectionShown,
       DropSectionShown, WriteShown, ReloadShown DEF Continue
  <2> QED  BY <1>3, <2>3, <2>4
<1>4. ~PowerCut
  BY DEF PowerCut
<1> QED  BY <1>1, <1>2, <1>3, <1>4 DEF SNext, Next

LEMMA InitShown == Alone /\ SInit => HInv /\ R!Init
<1> SUFFICES ASSUME Alone, SInit PROVE HInv /\ R!Init
  OBVIOUS
<1>1. TypeOK /\ Init
  BY TypeInit DEF SInit
<1>2. shown = Current /\ Shown /\ shown.shares = Sections(InitConf)
  <2>1. shown = Current /\ smb = InitConf
    BY DEF SInit, Init
  <2> QED  BY <2>1 DEF Current, Shown
<1>3. HInv
  BY <1>1, <1>2 DEF HInv, TypeOK, Init, Shown
<1>4. \A n : R!IsShare(n) <=> Has(InitConf, n)
  BY <1>2 DEF R!IsShare, Has, Sections
<1>5. R!Init
  <2>1. {p \in Proc : pc[p] # "idle"} = {} /\ reply = [p \in Proc |-> "none"]
    BY <1>1 DEF Init
  <2>2. shown.dir = [n \in Name |-> IF ~R!IsShare(n) THEN Missing
                                    ELSE IF n = Alpha THEN InitUid[Alpha] ELSE Root]
    BY <1>1, <1>2, <1>4 DEF Init, Shown
  <2> QED  BY <1>1, <1>2, <2>1, <2>2 DEF Init, R!Init, Shown
<1> QED  BY <1>3, <1>5

\* A verb of panel-op is a transaction: any sequence of verbs, any command of which may
\* fail, shows what the registry shows that carries out each verb in the step that
\* answers it.  smbd's reloads change nothing that is shown.
THEOREM VerbsAreTransactions ==
    ASSUME Alone, ~PowerCuts
    PROVE  SSpec => RegistrySpec
<1>1. SInit => Init /\ HInv /\ R!Init
  BY InitShown DEF SInit
<1>2. [SNext]_svars => [Next]_vars
  BY DEF SNext, svars
<1>3. AInv /\ AInv' /\ HInv /\ [SNext]_svars => HInv' /\ [R!Next]_(R!rvars)
  BY StepShown DEF Simulated
<1>4. Spec => []AInv
  BY AloneInvariance
<1> QED  BY <1>1, <1>2, <1>3, <1>4, PTL DEF Spec, SSpec, RegistrySpec, R!Spec
=============================================================================
