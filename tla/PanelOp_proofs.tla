-------------------------- MODULE PanelOp_proofs --------------------------
(***************************************************************************)
(* Proofs about panel-op that need no bound on the invocations running at  *)
(* a time, their arguments, the names or the commands that fail (but the   *)
(* reload, where it is said).                                              *)
(***************************************************************************)
EXTENDS PanelOp, FiniteSetTheorems, SequenceTheorems, TLAPS

\* Where an invocation is before it has truncated smb.conf, and where a reload
\* is still to come after it has.
Before == {"id", "adduser", "usermod", "smbpasswd-a", "smbpasswd-n",
           "smbpasswd-x", "grep", "mkdir", "add", "del", "awk", "trunc"}
Owing  == {"write", "reload"}

\* The control state of every invocation, and what it has done to smb.conf.
ControlShape ==
    /\ pc \in [Proc -> Before \cup Owing \cup {"idle", "deluser"}]
    /\ reply \in [Proc -> {"none", "OK", "ERR"}]
    /\ \A p \in Proc : pc[p] \in Before => p \notin touched

\* smbd runs the configuration of the file, or has been told to reload it, or
\* somebody who wrote the file is on the way to telling it.
ReloadOwed == conf = smb \/ hup \/ \E p \in Proc : pc[p] \in Owing

PInv == ControlShape /\ ErrLeavesConf /\ (Fails("reload") \/ ReloadOwed)

-----------------------------------------------------------------------------
(* One lemma for each group of steps.                                      *)

\* A verb's first step: nothing but the invocation's own control changes.
LEMMA StartLemma ==
    ASSUME PInv, NEW p \in Proc, Start(p)
    PROVE  PInv'
<1>1. PICK o \in Ops : \/ UserAddStarts(p, o)  \/ UserDelStarts(p, o)
                       \/ UserPassStarts(p, o) \/ UserAdminStarts(p, o)
                       \/ ShareAddStarts(p, o) \/ ShareDelStarts(p, o)
  BY DEF Start
<1>2. Begin(p, o)
  BY <1>1 DEF UserAddStarts, UserDelStarts, UserPassStarts, UserAdminStarts,
              ShareAddStarts, ShareDelStarts
<1>3. Die(p) \/ \E l \in Before : Running(p, l)
  BY <1>1 DEF UserAddStarts, UserDelStarts, UserPassStarts, UserAdminStarts,
              ShareAddStarts, ShareDelStarts, Before
<1>4. pc[p] = "idle" /\ touched' = touched \ {p} /\ smb' = smb /\ UNCHANGED samba
  BY <1>2 DEF Begin
<1>5. CASE Die(p)
  BY <1>4, <1>5 DEF Die, PInv, ControlShape, ErrLeavesConf, ReloadOwed, Before,
                    Owing, samba
<1>6. ASSUME NEW l \in Before, Running(p, l) PROVE PInv'
  BY <1>4, <1>6 DEF Running, PInv, ControlShape, ErrLeavesConf, ReloadOwed,
                    Before, Owing, samba
<1>7. QED
  BY <1>3, <1>5, <1>6

\* A command that leaves smb.conf and smbd alone.
LEMMA CommandLemma ==
    ASSUME PInv, NEW p \in Proc,
           pc[p] \in Before, UNCHANGED << smb, samba, touched >>,
           Ok(p) \/ Die(p) \/ \E l \in Before \cup {"deluser"} : Goto(p, l)
    PROVE  PInv'
<1> USE DEF PInv, ControlShape, ErrLeavesConf, ReloadOwed, Before, Owing, samba
<1>1. CASE Ok(p)
  BY <1>1 DEF Ok
<1>2. CASE Die(p)
  BY <1>2 DEF Die
<1>3. CASE \E l \in Before \cup {"deluser"} : Goto(p, l)
  BY <1>3 DEF Goto
<1>4. QED
  BY <1>1, <1>2, <1>3

\* The commands of that kind, one by one.
LEMMA QuietLemma ==
    ASSUME PInv, NEW p \in Proc,
           \/ Id(p) \/ Adduser(p) \/ UsermodUsers(p) \/ UsermodAdmins(p)
           \/ SmbpasswdSet(p) \/ SmbpasswdBlank(p) \/ SmbpasswdDelete(p)
           \/ Grep(p) \/ Mkdir(p) \/ AddSection(p)
           \/ GrepSection(p) \/ DropSection(p)
    PROVE  PInv'
<1> DEFINE Leaves == UNCHANGED << smb, samba, touched >>
           Goes   == Ok(p) \/ Die(p) \/ \E l \in Before \cup {"deluser"} : Goto(p, l)
<1>1. pc[p] \in Before /\ Leaves
  BY DEF Before, At, Id, Adduser, UsermodUsers, UsermodAdmins, SmbpasswdSet,
         SmbpasswdBlank, SmbpasswdDelete, Grep, Mkdir, AddSection, GrepSection,
         DropSection, samba, history
<1>2. CASE Id(p) \/ Adduser(p) \/ UsermodUsers(p) \/ UsermodAdmins(p)
  <2>1. Goes
    BY <1>2 DEF Before, Id, Adduser, UsermodUsers, UsermodAdmins
  <2>2. QED
    BY <1>1, <2>1, CommandLemma
<1>3. CASE SmbpasswdSet(p) \/ SmbpasswdBlank(p) \/ SmbpasswdDelete(p)
  <2>1. Goes
    BY <1>3 DEF Before, SmbpasswdSet, SmbpasswdBlank, SmbpasswdDelete
  <2>2. QED
    BY <1>1, <2>1, CommandLemma
<1>4. CASE Grep(p) \/ Mkdir(p) \/ AddSection(p) \/ GrepSection(p) \/ DropSection(p)
  <2>1. Goes
    BY <1>4 DEF Before, Grep, Mkdir, AddSection, GrepSection, DropSection, Accepted,
                Rejected
  <2>2. QED
    BY <1>1, <2>1, CommandLemma
<1>5. QED
  BY <1>2, <1>3, <1>4

\* Truncate, write, reload, and the deluser that may follow.
LEMMA WriterLemma ==
    ASSUME PInv, NEW p \in Proc,
           Truncate(p) \/ Write(p) \/ Reload(p) \/ Deluser(p)
    PROVE  PInv'
<1> USE DEF PInv, ControlShape, ErrLeavesConf, ReloadOwed, Before, Owing, samba
<1>1. CASE Truncate(p)
  BY <1>1 DEF Truncate, Goto
<1>2. CASE Write(p)
  BY <1>2 DEF Write, Goto
<1>3. CASE Reload(p)
  BY <1>3 DEF Reload, Goto, Ok
<1>4. CASE Deluser(p)
  BY <1>4 DEF Deluser, Ok, At
<1>5. QED
  BY <1>1, <1>2, <1>3, <1>4

\* smbd's reload, a power cut and a stuttering step.
LEMMA MachineLemma ==
    ASSUME PInv, SmbdReloads \/ PowerCut \/ UNCHANGED vars
    PROVE  PInv'
<1> USE DEF PInv, ControlShape, ErrLeavesConf, ReloadOwed, Before, Owing, samba
<1>1. CASE SmbdReloads
  BY <1>1 DEF SmbdReloads, proc, history
<1>2. CASE PowerCut
  BY <1>2 DEF PowerCut, history
<1>3. CASE UNCHANGED vars
  BY <1>3 DEF vars, proc, history
<1>4. QED
  BY <1>1, <1>2, <1>3

\* The invariant holds throughout, for any number of invocations.
THEOREM Invariance == Spec => []PInv
<1>1. Init => PInv
  BY DEF Init, PInv, ControlShape, ErrLeavesConf, ReloadOwed, Before
<1>2. PInv /\ [Next]_vars => PInv'
  BY StartLemma, QuietLemma, WriterLemma, MachineLemma DEF Next, Continue
<1>3. QED
  BY <1>1, <1>2, PTL DEF Spec

-----------------------------------------------------------------------------

\* However share_add_block() and share_del_block() interleave, fail, come short or are
\* cut off by the power, reload_smb() in each of them is enough for smbd to end up with
\* what smb.conf says, as long as the reload itself works: nobody looks at its result.
THEOREM SmbdEndsUpWithConf ==
    ASSUME ~Fails("reload")
    PROVE  Spec => []SmbdCatchesUp
<1>1. PInv => SmbdCatchesUp
  BY DEF PInv, ReloadOwed, SmbdCatchesUp, Quiescent, Owing
<1>2. QED
  BY <1>1, Invariance, PTL

\* die() is only reached before the invocation's own truncation of smb.conf,
\* whichever of its commands fails.
THEOREM ErrIsHarmless == Spec => []ErrLeavesConf
BY Invariance, PTL DEF PInv

-----------------------------------------------------------------------------
(* Types.                                                                  *)

\* What the copy without a name's sections is made of: different sections of the
\* file, of other names.
LEMMA WithoutFacts ==
    ASSUME NEW f \in Seq(Section), NEW n, NEW g \in Without(f, n)
    PROVE  /\ g \in Seq(Section)
           /\ \E e \in [DOMAIN g -> DOMAIN f] :
                 /\ \A i \in DOMAIN g : g[i] = f[e[i]] /\ g[i].name # n
                 /\ \A i, j \in DOMAIN g : e[i] = e[j] => i = j
<1> DEFINE Kept == {i \in DOMAIN f : f[i].name # n}
           k == Cardinality(Kept)
<1>1. k \in Nat
  <2>1. Len(f) \in Nat /\ DOMAIN f = 1 .. Len(f)
    OBVIOUS
  <2>2. IsFiniteSet(1 .. Len(f))
    BY <2>1, FS_Interval
  <2>3. IsFiniteSet(Kept)
    BY <2>1, <2>2, FS_Subset
  <2> QED  BY <2>3, FS_CardinalityType
<1>2. PICK e \in [1 .. k -> Kept] :
         /\ \A i, j \in DOMAIN e : i < j => e[i] < e[j]
         /\ g = [i \in DOMAIN e |-> f[e[i]]]
  BY DEF Without
<1> HIDE DEF k
<1>3. DOMAIN g = 1 .. k /\ \A i \in 1 .. k : g[i] = f[e[i]] /\ e[i] \in DOMAIN f /\ g[i].name # n
  BY <1>2
<1>4. g \in Seq(Section)
  <2>1. \A i \in 1 .. k : g[i] \in Section
    BY <1>3
  <2>2. g \in [1 .. k -> Section]
    BY <1>2, <2>1
  <2> QED  BY <1>1, <2>2
<1>5. \A i, j \in 1 .. k : e[i] = e[j] => i = j
  <2> SUFFICES ASSUME NEW i \in 1 .. k, NEW j \in 1 .. k, e[i] = e[j], i < j PROVE FALSE
    BY <1>1
  <2>1. e[i] < e[j] /\ e[i] \in Nat
    BY <1>2, <1>3
  <2> QED  BY <2>1
<1>6. e \in [DOMAIN g -> DOMAIN f]
  BY <1>2, <1>3
<1>7. \A i \in DOMAIN g : g[i] = f[e[i]] /\ g[i].name # n
  BY <1>3
<1>8. \A i, j \in DOMAIN g : e[i] = e[j] => i = j
  BY <1>3, <1>5
<1> QED  BY <1>4, <1>6, <1>7, <1>8

LEMMA OpFacts ==
    ASSUME NEW o \in Op
    PROVE  /\ o.n \in Name
           /\ o.verb \in {"user-add", "share-add"} => NewSection(o) \in Section
<1>1. o.n \in Name
  BY DEF Op
<1>2. CASE o.verb = "user-add"
  BY <1>1, <1>2 DEF NewSection, Section, Type
<1>3. CASE o.verb = "share-add"
  <2>1. o.typ \in {"private", "family", "guest"} /\ o.owner \in Name
    BY <1>3 DEF Op
  <2> QED  BY <1>1, <1>3, <2>1 DEF NewSection, Section, Type
<1> QED  BY <1>1, <1>2, <1>3

LEMMA TypeInit == Init => TypeOK
<1> SUFFICES ASSUME Init PROVE TypeOK
  OBVIOUS
<1> USE PanelOpAssumption
<1>1. NoOp \in Op
  BY DEF NoOp, Op
<1>2. Alpha \in Name /\ Alpha \in DOMAIN InitUid /\ InitUid[Alpha] \in Nat
  OBVIOUS
<1>3. /\ pdb \in [Name -> {"absent", "temp", "blank", "set"}]
      /\ uid \in [Name -> Nat \cup {Missing}]
      /\ dir \in [Name -> Nat \cup {Missing}]
  BY <1>2 DEF Init, Root, Missing
<1>4. /\ op \in [Proc -> Op] /\ tmp \in [Proc -> Seq(Section)]
      /\ smb \in Seq(Section) /\ conf \in Seq(Section)
  BY <1>1 DEF Init
<1>5. unix \subseteq Name /\ users \subseteq Name /\ smbadmins \subseteq Name
  BY <1>2 DEF Init
<1> QED  BY <1>3, <1>4, <1>5 DEF Init, TypeOK

\* The first step of a verb only changes the invocation's own state.
LEMMA StartTypes ==
    ASSUME TypeOK, NEW p \in Proc, Start(p)
    PROVE  TypeOK'
<1>1. PICK o \in Ops : \/ UserAddStarts(p, o)  \/ UserDelStarts(p, o)
                       \/ UserPassStarts(p, o) \/ UserAdminStarts(p, o)
                       \/ ShareAddStarts(p, o) \/ ShareDelStarts(p, o)
  BY DEF Start
<1>2. /\ op' = [op EXCEPT ![p] = o] /\ touched' = touched \ {p}
      /\ unnoticed' = unnoticed \ {p}
      /\ UNCHANGED << tmp, smb, samba, accounts, dir, astray >>
  BY <1>1 DEF Begin, UserAddStarts, UserDelStarts, UserPassStarts, UserAdminStarts,
              ShareAddStarts, ShareDelStarts
<1>3. \E l \in {"idle", "id", "usermod", "smbpasswd-a", "smbpasswd-n", "smbpasswd-x",
                "mkdir", "del"}, r \in {"none", "ERR"} :
         pc' = [pc EXCEPT ![p] = l] /\ reply' = [reply EXCEPT ![p] = r]
  BY <1>1 DEF UserAddStarts, UserDelStarts, UserPassStarts, UserAdminStarts,
              ShareAddStarts, ShareDelStarts, Die, Running
<1>4. o \in Op
  BY PanelOpAssumption
<1> QED  BY <1>2, <1>3, <1>4 DEF TypeOK, samba, accounts

\* Where a command leads.
LEMMA ControlTypes ==
    ASSUME TypeOK, NEW p \in Proc,
           \/ Ok(p) \/ Die(p)
           \/ \E l \in {"id", "adduser", "usermod", "smbpasswd-a", "smbpasswd-n", "grep",
                         "mkdir", "add", "awk", "trunc", "write", "reload", "deluser"} :
                 Goto(p, l)
    PROVE  /\ pc' \in [Proc -> {"idle", "id", "adduser", "usermod", "smbpasswd-a",
                                "smbpasswd-n", "smbpasswd-x", "grep", "mkdir", "add",
                                "del", "awk", "trunc", "write", "reload", "deluser"}]
           /\ reply' \in [Proc -> {"none", "OK", "ERR"}]
<1>1. CASE Ok(p) \/ Die(p)
  BY <1>1 DEF TypeOK, Ok, Die
<1>2. ASSUME NEW l \in {"id", "adduser", "usermod", "smbpasswd-a", "smbpasswd-n", "grep",
                        "mkdir", "add", "awk", "trunc", "write", "reload", "deluser"},
             Goto(p, l)
      PROVE  /\ pc' \in [Proc -> {"idle", "id", "adduser", "usermod", "smbpasswd-a",
                                   "smbpasswd-n", "smbpasswd-x", "grep", "mkdir", "add",
                                   "del", "awk", "trunc", "write", "reload", "deluser"}]
             /\ reply' \in [Proc -> {"none", "OK", "ERR"}]
  BY <1>2 DEF TypeOK, Goto
<1> QED  BY <1>1, <1>2

LEMMA AccountTypes ==
    ASSUME TypeOK, NEW p \in Proc,
           \/ Id(p) \/ Adduser(p) \/ UsermodUsers(p) \/ UsermodAdmins(p)
           \/ SmbpasswdSet(p) \/ SmbpasswdBlank(p) \/ SmbpasswdDelete(p) \/ Deluser(p)
    PROVE  TypeOK'
<1>1. op[p].n \in Name
  BY OpFacts DEF TypeOK
<1>2. /\ pc' \in [Proc -> {"idle", "id", "adduser", "usermod", "smbpasswd-a",
                           "smbpasswd-n", "smbpasswd-x", "grep", "mkdir", "add",
                           "del", "awk", "trunc", "write", "reload", "deluser"}]
      /\ reply' \in [Proc -> {"none", "OK", "ERR"}]
  BY ControlTypes DEF Id, Adduser, UsermodUsers, UsermodAdmins, SmbpasswdSet,
                      SmbpasswdBlank, SmbpasswdDelete, Deluser
<1>3. UNCHANGED << op, tmp, touched, smb, conf, hup, dir >>
  BY DEF Id, Adduser, UsermodUsers, UsermodAdmins, SmbpasswdSet, SmbpasswdBlank,
         SmbpasswdDelete, Deluser, samba, history
<1>6. unnoticed' \subseteq Proc
  BY DEF TypeOK, Id, Adduser, UsermodUsers, UsermodAdmins, SmbpasswdSet, SmbpasswdBlank,
         SmbpasswdDelete, Deluser, Unnoticed, history
<1>7. astray' \subseteq Name
  <2>0. \A j \in DOMAIN smb : smb[j] \in Section
    BY DEF TypeOK
  <2>1. \A j \in DOMAIN smb : smb[j].name \in Name
    BY <2>0 DEF Section
  <2>2. {smb[i].name : i \in {j \in DOMAIN smb : smb[j].owner = op[p].n}} \subseteq Name
    BY <2>1
  <2> QED  BY <2>2 DEF TypeOK, Id, Adduser, UsermodUsers, UsermodAdmins, SmbpasswdSet,
                       SmbpasswdBlank, SmbpasswdDelete, Deluser, history
<1>8. uid' \in [Name -> Nat \cup {Missing}]
  BY <1>1, PanelOpAssumption
     DEF TypeOK, Id, Adduser, UsermodUsers, UsermodAdmins, SmbpasswdSet,
         SmbpasswdBlank, SmbpasswdDelete, Deluser, accounts
<1>4. unix' \subseteq Name /\ users' \subseteq Name /\ smbadmins' \subseteq Name
  BY <1>1 DEF TypeOK, Id, Adduser, UsermodUsers, UsermodAdmins, SmbpasswdSet,
              SmbpasswdBlank, SmbpasswdDelete, Deluser, accounts
<1>5. pdb' \in [Name -> {"absent", "temp", "blank", "set"}]
  BY <1>1 DEF TypeOK, Id, Adduser, UsermodUsers, UsermodAdmins, SmbpasswdSet,
              SmbpasswdBlank, SmbpasswdDelete, Deluser, accounts
<1> QED  BY <1>2, <1>3, <1>4, <1>5, <1>6, <1>7, <1>8 DEF TypeOK

LEMMA ShareTypes ==
    ASSUME TypeOK, NEW p \in Proc,
           \/ Grep(p) \/ Mkdir(p) \/ AddSection(p) \/ GrepSection(p) \/ DropSection(p)
           \/ Truncate(p) \/ Write(p) \/ Reload(p)
    PROVE  TypeOK'
<1>1. op[p] \in Op /\ op[p].n \in Name
  BY OpFacts DEF TypeOK
<1>2. /\ pc' \in [Proc -> {"idle", "id", "adduser", "usermod", "smbpasswd-a",
                           "smbpasswd-n", "smbpasswd-x", "grep", "mkdir", "add",
                           "del", "awk", "trunc", "write", "reload", "deluser"}]
      /\ reply' \in [Proc -> {"none", "OK", "ERR"}]
  BY ControlTypes DEF Grep, Mkdir, AddSection, GrepSection, DropSection, Truncate,
                      Write, Reload, Accepted, Rejected
<1>3. UNCHANGED << op, conf, accounts >>
  BY DEF Grep, Mkdir, AddSection, GrepSection, DropSection, Truncate, Write, Reload, samba
<1>4. hup' \in BOOLEAN
  BY DEF TypeOK, Grep, Mkdir, AddSection, GrepSection, DropSection, Truncate, Write,
         Reload, samba
<1>5. touched' \subseteq Proc /\ unnoticed' \subseteq Proc /\ astray' \subseteq Name
  <2>1. touched' \subseteq Proc
    BY DEF TypeOK, Grep, Mkdir, AddSection, GrepSection, DropSection, Truncate, Write,
           Reload, history
  <2>2. unnoticed' \subseteq Proc
    BY DEF TypeOK, Grep, Mkdir, AddSection, GrepSection, DropSection, Truncate, Write,
           Reload, history, Accepted, Rejected, Unnoticed
  <2>3. astray' \subseteq Name
    <3>1. CASE Mkdir(p)
      BY <1>1, <3>1 DEF Mkdir, TypeOK
    <3>2. CASE Grep(p) \/ AddSection(p) \/ GrepSection(p) \/ DropSection(p)
      BY <3>2 DEF TypeOK, Grep, AddSection, GrepSection, DropSection, history
    <3>3. CASE Truncate(p) \/ Write(p) \/ Reload(p)
      BY <3>3 DEF TypeOK, Truncate, Write, Reload
    <3> QED  BY <3>1, <3>2, <3>3
  <2> QED  BY <2>1, <2>2, <2>3
<1>6. tmp' \in [Proc -> Seq(Section)]
  <2>1. ASSUME NEW f, NEW g, Accepted(p, f, g), f \in Seq(Section)
        PROVE  tmp' \in [Proc -> Seq(Section)]
    BY <2>1 DEF Accepted, TypeOK
  <2>2. CASE AddSection(p) /\ tmp' # tmp
    <3>1. NewSection(op[p]) \in Section
      BY <1>1, <2>2, OpFacts DEF AddSection, At
    <3>2. PICK k \in 0 .. Len(smb), added \in {<< >>, << NewSection(op[p]) >>} :
             Accepted(p, SubSeq(smb, 1, k) \o added, Append(smb, NewSection(op[p])))
      BY <2>2 DEF AddSection, Rejected
    <3>3. smb \in Seq(Section) /\ added \in Seq(Section)
      <4>1. CASE added = << >>
        BY <4>1 DEF TypeOK
      <4>2. CASE added = << NewSection(op[p]) >>
        BY <3>1, <4>2 DEF TypeOK
      <4> QED  BY <4>1, <4>2
    <3>4. SubSeq(smb, 1, k) \in Seq(Section)
      BY <3>3
    <3>5. SubSeq(smb, 1, k) \o added \in Seq(Section)
      BY <3>3, <3>4, ConcatProperties
    <3> QED  BY <2>1, <3>2, <3>5
  <2>3. CASE DropSection(p) /\ tmp' # tmp
    <3>1. PICK f \in Without(smb, op[p].n) :
             \E k \in 0 .. Len(f) : Accepted(p, SubSeq(f, 1, k), f)
      BY <2>3 DEF DropSection, Rejected
    <3>4. PICK k \in 0 .. Len(f) : Accepted(p, SubSeq(f, 1, k), f)
      BY <3>1
    <3>2. f \in Seq(Section)
      BY WithoutFacts DEF TypeOK
    <3>3. SubSeq(f, 1, k) \in Seq(Section)
      BY <3>2
    <3> QED  BY <2>1, <3>3, <3>4
  <2>5. CASE tmp' = tmp
    BY <2>5 DEF TypeOK
  <2>7. tmp' = [tmp EXCEPT ![p] = << >>] => tmp' \in [Proc -> Seq(Section)]
    <3>1. << >> \in Seq(Section)
      OBVIOUS
    <3> QED  BY <3>1 DEF TypeOK
  <2>4. CASE Write(p) \/ Truncate(p)
    BY <2>4, <2>5, <2>7 DEF Write, Truncate
  <2>6. Grep(p) \/ Mkdir(p) \/ GrepSection(p) \/ Reload(p) => tmp' = tmp
    BY DEF Grep, Mkdir, GrepSection, Reload
  <2> QED  BY <2>2, <2>3, <2>4, <2>5, <2>6
<1>7. smb' \in Seq(Section)
  <2>1. CASE Write(p)
    <3>1. PICK k \in 0 .. Len(tmp[p]) :
             smb' = SubSeq(tmp[p], 1, k) \o SubSeq(smb, k + 1, Len(smb))
      BY <2>1 DEF Write
    <3>2. tmp[p] \in Seq(Section) /\ smb \in Seq(Section) /\ k \in Nat
      BY DEF TypeOK
    <3>3. SubSeq(tmp[p], 1, k) \in Seq(Section) /\ SubSeq(smb, k + 1, Len(smb)) \in Seq(Section)
      BY <3>2
    <3> QED  BY <3>1, <3>3, ConcatProperties
  <2>2. CASE smb' = << >> \/ smb' = smb
    <3>1. << >> \in Seq(Section)
      OBVIOUS
    <3> QED  BY <2>2, <3>1 DEF TypeOK
  <2>3. Grep(p) \/ Mkdir(p) \/ GrepSection(p) \/ Reload(p) => smb' = smb
    BY DEF Grep, Mkdir, GrepSection, Reload
  <2>4. AddSection(p) \/ DropSection(p) => smb' = smb
    BY DEF AddSection, DropSection
  <2>5. Truncate(p) => smb' = << >> \/ smb' = smb
    BY DEF Truncate
  <2> QED  BY <2>1, <2>2, <2>3, <2>4, <2>5
<1>8. dir' \in [Name -> Nat \cup {Missing}]
  <2>1. CASE Mkdir(p)
    <3>1. DirOwner(op[p]) \in unix => uid[DirOwner(op[p])] \in Nat \cup {Missing}
      BY DEF TypeOK
    <3>2. \E u \in Nat \cup {Missing} : dir' = [dir EXCEPT ![op[p].n] = u]
      BY <1>1, <2>1, <3>1 DEF Mkdir, TypeOK, Root
    <3> QED  BY <1>1, <3>2 DEF TypeOK
  <2>2. CASE dir' = dir
    BY <2>2 DEF TypeOK
  <2> QED  BY <2>1, <2>2 DEF Grep, AddSection, GrepSection, DropSection, Truncate, Write,
                             Reload
<1> QED  BY <1>2, <1>3, <1>4, <1>5, <1>6, <1>7, <1>8 DEF TypeOK, accounts

LEMMA MachineTypes ==
    ASSUME TypeOK, SmbdReloads \/ PowerCut \/ UNCHANGED vars
    PROVE  TypeOK'
<1>1. CASE SmbdReloads
  BY <1>1 DEF SmbdReloads, proc, accounts, history, TypeOK
<1>2. CASE PowerCut
  <2>1. /\ pc' = [p \in Proc |-> "idle"] /\ reply' = [p \in Proc |-> "none"]
        /\ tmp' = [p \in Proc |-> << >>] /\ conf' = smb /\ hup' = FALSE
        /\ UNCHANGED << op, history, smb, accounts, dir >>
    BY <1>2 DEF PowerCut
  <2>2. tmp' \in [Proc -> Seq(Section)]
    BY <2>1
  <2> QED  BY <2>1, <2>2 DEF TypeOK, accounts, history
<1>3. CASE UNCHANGED vars
  BY <1>3 DEF vars, proc, samba, accounts, history, TypeOK
<1> QED  BY <1>1, <1>2, <1>3

\* Whatever invocations do to each other's files, smb.conf stays a sequence of whole
\* sections and every account and directory what panel-op makes of them.
THEOREM TypeCorrect == Spec => []TypeOK
<1>1. TypeOK /\ [Next]_vars => TypeOK'
  BY StartTypes, AccountTypes, ShareTypes, MachineTypes DEF Next, Continue
<1> QED  BY TypeInit, <1>1, PTL DEF Spec
=============================================================================
