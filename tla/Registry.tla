------------------------------ MODULE Registry ------------------------------
(***************************************************************************)
(* What the web panel may take panel-op's verbs for: a registry of users,  *)
(* Samba passwords, groups, shares and their directories, where a verb     *)
(* that was asked for is carried out in the one step that answers it.  OK  *)
(* means that all of the verb has been done, but for the commands in       *)
(* Silent, which may fail without a word.  ERR means that it was refused,  *)
(* or that it failed part way: what it may have left is listed, a change   *)
(* of the shares never is.  Of a name that a verb is not about, nothing    *)
(* changes, unless smb.conf was not written out to its end.                *)
(***************************************************************************)
EXTENDS Integers

CONSTANTS
    Client,            \* who asks
    Name,              \* names of users and of shares
    Alpha, PROTECTED_USERS, PROTECTED_SHARES,
    FirstShares,       \* the sections setup wrote
    FirstUid, Uid,     \* the first accounts' numbers, and those for new accounts
    Silent,            \* the commands that may fail without a word
    Ops,               \* the verbs with their arguments
    None, Root, Missing

VARIABLES
    unix, uid, \* Unix accounts and their numbers
    pdb,       \* Samba password of each name, "absent" for none
    users, smbadmins,
    shares,    \* the shares, each with its name, type and owner
    dir,       \* number that owns each share's directory, Missing while there is none
    pending,   \* the clients that wait for an answer
    request,   \* the last verb of each client
    answer     \* what it was answered, "none" while it is pending

accounts == << unix, uid, pdb, users, smbadmins >>
dialogue == << pending, request, answer >>
rvars    == << accounts, shares, dir, dialogue >>

IsShare(n) == \E s \in shares : s.name = n

Init ==
    /\ unix = DOMAIN FirstUid /\ users = {} /\ smbadmins = {Alpha}
    /\ uid = [n \in Name |-> IF n \in unix THEN FirstUid[n] ELSE Missing]
    /\ pdb = [n \in Name |-> IF n = Alpha THEN "set" ELSE "absent"]
    /\ shares = FirstShares
    /\ dir = [n \in Name |-> IF ~IsShare(n) THEN Missing
                              ELSE IF n = Alpha THEN FirstUid[Alpha] ELSE Root]
    /\ pending = {} /\ answer = [c \in Client |-> "none"]

Asks(c, o) == c \notin pending /\ request' = [request EXCEPT ![c] = o]

Ask(c, o) ==
    /\ Asks(c, o)
    /\ pending' = pending \cup {c} /\ answer' = [answer EXCEPT ![c] = "none"]
    /\ UNCHANGED << accounts, shares, dir >>

\* A look at its arguments, or at what there is, is enough.
TurnDown(c, o) ==
    /\ Asks(c, o)
    /\ answer' = [answer EXCEPT ![c] = "ERR"]
    /\ UNCHANGED << accounts, shares, dir, pending >>

Answer(c, o, r) ==
    /\ c \in pending /\ pending' = pending \ {c}
    /\ o = request[c]
    /\ answer' = [answer EXCEPT ![c] = r]
    /\ UNCHANGED request

Refuse(c, o) == Answer(c, o, "ERR") /\ UNCHANGED << accounts, shares, dir >>

-----------------------------------------------------------------------------
(* What the verbs do.                                                      *)

Password(o) == IF o.blank THEN "blank" ELSE "set"

SetPassword(n, password) == pdb' = [pdb EXCEPT ![n] = password]

\* A new account gets a number that no account has.
MakeAccount(n) ==
    /\ unix' = unix \cup {n}
    /\ \/ n \in unix /\ UNCHANGED uid
       \/ n \notin unix /\ \E u \in Uid : /\ \A m \in unix : uid[m] # u
                                      /\ uid' = [uid EXCEPT ![n] = u]
    /\ users' = users \cup {n} \/ ("usermod" \in Silent /\ UNCHANGED users)

\* A share that is not private belongs to nobody, its directory to the administrator.
Share(n, typ, owner) ==
    [name |-> n, typ |-> typ, owner |-> IF typ = "private" THEN owner ELSE None]

WriteShares(S) == shares' = S \/ ("cat" \in Silent /\ shares' \subseteq shares \cup S)

WriteShare(n, typ, owner) == WriteShares(shares \cup {Share(n, typ, owner)})

\* Without the chown an old directory stays as it was and a new one is root's,
\* without the mkdir there is none.
GiveDirectory(n, typ, owner) ==
    \E u \in {uid'[IF typ = "private" THEN owner ELSE Alpha]}
             \cup (IF "chown" \notin Silent THEN {}
                   ELSE {IF dir[n] = Missing THEN Root ELSE dir[n]})
             \cup (IF "mkdir" \notin Silent THEN {} ELSE {dir[n]}) :
        dir' = [dir EXCEPT ![n] = u]

AddUser(c, o) ==
    /\ o.verb = "user-add" /\ o.n \notin PROTECTED_USERS
    /\ MakeAccount(o.n)
    /\ SetPassword(o.n, Password(o))
    /\ IF o.share /\ ~IsShare(o.n)
       THEN WriteShare(o.n, "private", o.n) /\ GiveDirectory(o.n, "private", o.n)
       ELSE UNCHANGED << shares, dir >>
    /\ Answer(c, o, "OK")
    /\ UNCHANGED smbadmins

\* A user-add that fails leaves an account at most, with the password it had, the
\* built-in one or the one asked for, and the directory of a share that is not there.
AddUserFails(c, o) ==
    /\ o.verb = "user-add" /\ o.n \notin PROTECTED_USERS
    /\ MakeAccount(o.n)
    /\ \/ UNCHANGED << pdb, dir >>
       \/ o.blank /\ SetPassword(o.n, "temp") /\ UNCHANGED dir
       \/ /\ o.share /\ ~IsShare(o.n)
          /\ SetPassword(o.n, Password(o)) /\ GiveDirectory(o.n, "private", o.n)
    /\ Answer(c, o, "ERR")
    /\ UNCHANGED << smbadmins, shares >>

ChangePassword(c, o) ==
    /\ o.verb = "user-pass" /\ pdb[o.n] # "absent"
    /\ SetPassword(o.n, Password(o))
    /\ Answer(c, o, "OK")
    /\ UNCHANGED << unix, uid, users, smbadmins, shares, dir >>

ChangeAdmin(c, o) ==
    /\ o.verb = "user-admin" /\ o.n \in unix /\ o.n # Alpha
    /\ \/ smbadmins' = IF o.on THEN smbadmins \cup {o.n} ELSE smbadmins \ {o.n}
       \/ "usermod" \in Silent /\ UNCHANGED smbadmins
    /\ Answer(c, o, "OK")
    /\ UNCHANGED << unix, uid, pdb, users, shares, dir >>

\* The directory stays, and keeps the number it has.
DropShare(n) == IF IsShare(n) THEN WriteShares({s \in shares : s.name # n})
                              ELSE UNCHANGED shares

DropPassword(n) == \/ SetPassword(n, "absent")
                   \/ "smbpasswd-x" \in Silent /\ UNCHANGED pdb

DeleteUser(c, o) ==
    /\ o.verb = "user-del" /\ o.n \notin PROTECTED_USERS
    /\ DropPassword(o.n) /\ DropShare(o.n) /\ UNCHANGED dir
    /\ \/ /\ unix' = unix \ {o.n} /\ uid' = [uid EXCEPT ![o.n] = Missing]
          /\ users' = users \ {o.n} /\ smbadmins' = smbadmins \ {o.n}
       \/ "deluser" \in Silent /\ UNCHANGED << unix, uid, users, smbadmins >>
    /\ Answer(c, o, "OK")

\* A user-del that fails has taken the Samba account, and a share is why.
DeleteUserFails(c, o) ==
    /\ o.verb = "user-del" /\ o.n \notin PROTECTED_USERS /\ IsShare(o.n)
    /\ DropPassword(o.n)
    /\ Answer(c, o, "ERR")
    /\ UNCHANGED << unix, uid, users, smbadmins, shares, dir >>

Grantable(o) == o.verb = "share-add" /\ ~IsShare(o.n) /\ (o.typ = "private" => o.owner \in unix)

AddShare(c, o) ==
    /\ Grantable(o)
    /\ WriteShare(o.n, o.typ, o.owner)
    /\ GiveDirectory(o.n, o.typ, o.owner)
    /\ Answer(c, o, "OK")
    /\ UNCHANGED accounts

AddShareFails(c, o) ==
    /\ Grantable(o)
    /\ GiveDirectory(o.n, o.typ, o.owner)
    /\ Answer(c, o, "ERR")
    /\ UNCHANGED << accounts, shares >>

DeleteShare(c, o) ==
    /\ o.verb = "share-del" /\ IsShare(o.n) /\ o.n \notin PROTECTED_SHARES
    /\ DropShare(o.n) /\ UNCHANGED dir
    /\ Answer(c, o, "OK")
    /\ UNCHANGED accounts

Verb(c, o) == \/ Refuse(c, o)
              \/ AddUser(c, o) \/ AddUserFails(c, o)
              \/ ChangePassword(c, o) \/ ChangeAdmin(c, o)
              \/ DeleteUser(c, o) \/ DeleteUserFails(c, o)
              \/ AddShare(c, o) \/ AddShareFails(c, o) \/ DeleteShare(c, o)

Next == \E c \in Client, o \in Ops : Ask(c, o) \/ TurnDown(c, o) \/ Verb(c, o)

Spec == Init /\ [][Next]_rvars
=============================================================================
