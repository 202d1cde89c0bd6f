------------------------- MODULE OrganizationsProofs -------------------------
(***************************************************************************)
(* For any number of users, invitations and open requests: one owner, one  *)
(* pending invitation per address, a token that is used once, mail only    *)
(* for committed invitations; and members join only by an invitation.      *)
(*                                                                         *)
(* Most of what a request has read may be stale when it writes.  The       *)
(* invariant says, for each kind of request, which part of it cannot be,   *)
(* and which lock, unique index or check that part owes it to.             *)
(***************************************************************************)
EXTENDS Organizations, TLAPS

(* The founder's membership is the owner's, and nobody else's.             *)
OwnerInv ==
    /\ \A u \in Users : member[u] # Null => (member[u].role = "owner" <=> member[u].via = Null)
    /\ \A u, v \in Users :
          member[u] # Null /\ member[v] # Null /\ member[u].via = Null /\ member[v].via = Null
             => u = v
    /\ Founded => \E u \in Users : member[u] # Null /\ member[u].via = Null

(* Before the organization exists there are only requests to create it.    *)
FoundInv ==
    ~Founded => /\ \A i \in Invitations : inv[i] = Null
                /\ \A w \in Connections : tx[w] # Null => tx[w].kind = "create"

(* A job is published with a fresh invitation, which nobody can use before *)
(* it is committed; the job looks at it before it mails.                   *)
JobInv ==
    \A i \in Invitations :
        /\ job[i] = "none" => inv[i] = Null
        /\ job[i] = "sending" => inv[i] # Null
        /\ inv[i] = Null => joined[i] = 0

(* The unique slug: nobody else has founded the organization.              *)
TxCreate(x) == x.kind = "create" /\ x.at = "written" => ~Founded

(* The unique index: no other invitation of the address becomes pending.   *)
TxInvite(x) ==
    x.kind = "invite" =>
        /\ x.role \in InviteRoles
        /\ x.old # Null => inv[x.old] # Null
        /\ x.at = "written" =>
              /\ x.inv \in Invitations /\ inv[x.inv] = Null /\ job[x.inv] # "none"
              /\ \A i \in Invitations \ {x.old} : Pending(i) => inv[i].email # x.user

(* The row lock: the invitation is pending until the acceptance ends.  The *)
(* unique membership: an inserted one is still missing.                    *)
TxAccept(x) ==
    x.kind = "accept" =>
        /\ x.inv \in mailed /\ Pending(x.inv)
        /\ inv[x.inv].email = x.user
        /\ x.role \in {Null, inv[x.inv].role}
        /\ x.at = "written" /\ x.role # Null => member[x.user] = Null

(* The check of the role, and the row lock of the UPDATE.                  *)
TxRole(x) ==
    x.kind = "role" =>
        /\ x.role \in ChangeRoles /\ x.inv # Null
        /\ x.at = "written" => member[x.user] # Null /\ member[x.user].via = x.inv

TxRemove(x) == x.kind = "remove" => x.inv # Null

TxInv ==
    \A w \in Connections : tx[w] # Null =>
        /\ TxCreate(tx[w]) /\ TxInvite(tx[w]) /\ TxAccept(tx[w])
        /\ TxRole(tx[w]) /\ TxRemove(tx[w])

(* x has an uncommitted write of a membership, of a pending invitation.    *)
WritesMember(x) == x.kind \in {"accept", "role"} /\ x.at = "written" /\ x.role # Null
Invites(x) == x.kind = "invite" /\ x.at = "written"

(* Locks and unique indexes keep two open requests apart.                  *)
Apart(x, y) ==
    /\ ~(x.kind = "create" /\ x.at = "written" /\ y.kind = "create" /\ y.at = "written")
    /\ x.kind = "accept" /\ y.kind = "accept" => x.inv # y.inv
    /\ x.kind = "accept" /\ Invites(y) => x.inv # y.old
    /\ Invites(x) /\ Invites(y) => x.user # y.user /\ x.inv # y.inv
    /\ WritesMember(x) /\ WritesMember(y) => x.user # y.user

TxApart ==
    \A v, w \in Connections : tx[v] # Null /\ tx[w] # Null /\ v # w => Apart(tx[v], tx[w])

IndInv ==
    /\ TypeOK
    /\ OwnerInv
    /\ FoundInv
    /\ JobInv
    /\ TxInv
    /\ TxApart
    /\ OnePending
    /\ TokenUsedOnce
    /\ MailedIsCommitted

-----------------------------------------------------------------------------
(* The initial states                                                      *)

(* Nobody is a member, nothing is invited and no request is open.          *)
LEMMA InitInv == Init => IndInv
  <1> SUFFICES ASSUME Init PROVE IndInv
    OBVIOUS
  <1> USE OrganizationAssumption DEF Init
  <1>1. TypeOK
    BY DEF TypeOK
  <1>2. OwnerInv /\ FoundInv /\ JobInv
    BY DEF OwnerInv, FoundInv, JobInv, Founded
  <1>3. TxInv /\ TxApart
    BY DEF TxInv, TxApart
  <1>4. OnePending /\ TokenUsedOnce /\ MailedIsCommitted
    BY DEF OnePending, TokenUsedOnce, MailedIsCommitted, Pending
  <1> QED
    BY <1>1, <1>2, <1>3, <1>4 DEF IndInv

-----------------------------------------------------------------------------
(* Steps of a request before it ends                                       *)

(* What one request's record needs for its step to keep the invariant: the *)
(* committed state is left alone, at most a job is published.              *)
LEMMA TxStepKeeps ==
    ASSUME IndInv, NEW w \in Connections, NEW x \in Tx,
           tx' = [tx EXCEPT ![w] = x],
           UNCHANGED <<member, inv, expired, retries, mailed, joined>>,
           job' \in [Invitations -> {"none", "queued", "sending", "done", "failed"}],
           \A i \in Invitations : \/ job'[i] = job[i]
                                  \/ job[i] = "none" /\ job'[i] = "queued",
           x.kind = "create" \/ Founded,
           TxCreate(x), TxInvite(x)', TxAccept(x), TxRole(x), TxRemove(x),
           \A v \in Connections \ {w} : tx[v] # Null => Apart(tx[v], x) /\ Apart(x, tx[v])
    PROVE  IndInv'
  <1> USE OrganizationAssumption DEF IndInv
  <1>1. TypeOK'
    BY DEF TypeOK
  <1>2. x # Null /\ tx'[w] = x /\ \A v \in Connections \ {w} : tx'[v] = tx[v]
    BY DEF TypeOK
  <1>3. OwnerInv' /\ OnePending' /\ TokenUsedOnce' /\ MailedIsCommitted'
    BY DEF OwnerInv, OnePending, TokenUsedOnce, MailedIsCommitted, Pending, Founded
  <1>4. FoundInv'
    BY <1>2 DEF FoundInv, Founded
  <1>5. JobInv'
    BY DEF JobInv
  <1>6. TxInv'
    <2> SUFFICES ASSUME NEW v \in Connections, tx'[v] # Null
                 PROVE  /\ TxCreate(tx[v])' /\ TxInvite(tx[v])' /\ TxAccept(tx[v])'
                        /\ TxRole(tx[v])' /\ TxRemove(tx[v])'
      BY DEF TxInv
    <2>1. CASE v = w
      BY <1>2, <2>1 DEF TxCreate, TxInvite, TxAccept, TxRole, TxRemove, Pending, Founded
    <2>2. CASE v # w
      BY <1>2, <2>2
      DEF TxInv, TxCreate, TxInvite, TxAccept, TxRole, TxRemove, Pending, Founded
    <2> QED
      BY <2>1, <2>2
  <1>7. TxApart'
    BY <1>2 DEF TxApart, Apart, Invites, WritesMember
  <1> QED
    BY <1>1, <1>3, <1>4, <1>5, <1>6, <1>7

(* A request to create reads that the slug is free.                        *)
LEMMA CreateBeginKeeps ==
    ASSUME IndInv, NEW w \in Connections, NEW u \in Founders, CreateBegin(w, u)
    PROVE  IndInv'
  <1>1. PICK x \in Tx : x = [kind |-> "create", at |-> "read", user |-> u, inv |-> Null,
                             old |-> Null, role |-> "owner"]
    BY OrganizationAssumption DEF Tx, Role
  <1>2. TxCreate(x) /\ TxInvite(x)' /\ TxAccept(x) /\ TxRole(x) /\ TxRemove(x)
    BY <1>1 DEF TxCreate, TxInvite, TxAccept, TxRole, TxRemove
  <1>3. \A v \in Connections \ {w} : tx[v] # Null => Apart(tx[v], x) /\ Apart(x, tx[v])
    BY <1>1 DEF Apart, Invites, WritesMember
  <1>4. tx' = [tx EXCEPT ![w] = x] /\ UNCHANGED <<member, inv, expired, jobVars, joined>>
    BY <1>1 DEF CreateBegin, Begin
  <1> QED
    BY <1>1, <1>2, <1>3, <1>4, TxStepKeeps DEF IndInv, TypeOK, jobVars

(* Its inserts wait for another creation, and fail after its commit.       *)
LEMMA CreateWriteKeeps ==
    ASSUME IndInv, NEW w \in Connections, CreateWrite(w)
    PROVE  IndInv'
  <1>1. tx[w] \in Tx /\ tx[w] # Null /\ tx[w].kind = "create"
    BY DEF CreateWrite, Open, IndInv, TypeOK
  <1>2. PICK x \in Tx : /\ x = [tx[w] EXCEPT !.at = "written"]
                        /\ x.kind = "create" /\ x.at = "written"
    <2> DEFINE y == [tx[w] EXCEPT !.at = "written"]
    <2> y \in Tx /\ y.kind = "create" /\ y.at = "written"
      BY <1>1 DEF Tx
    <2> WITNESS y \in Tx
    <2> QED
      OBVIOUS
  <1>3. TxCreate(x) /\ TxInvite(x)' /\ TxAccept(x) /\ TxRole(x) /\ TxRemove(x)
    BY <1>2 DEF CreateWrite, TxCreate, TxInvite, TxAccept, TxRole, TxRemove
  <1>4. \A v \in Connections \ {w} : tx[v] # Null => Apart(tx[v], x) /\ Apart(x, tx[v])
    BY <1>2 DEF CreateWrite, Open, Apart, Invites, WritesMember
  <1>5. tx' = [tx EXCEPT ![w] = x] /\ UNCHANGED <<member, inv, expired, jobVars, joined>>
    BY <1>2 DEF CreateWrite, Written
  <1> QED
    BY <1>2, <1>3, <1>4, <1>5, TxStepKeeps DEF IndInv, TypeOK, jobVars

(* An invitation is begun by a member of a founded organization.           *)
LEMMA InviteBeginKeeps ==
    ASSUME IndInv, NEW w \in Connections, NEW a \in Users, NEW u \in Users,
           NEW r \in InviteRoles, InviteBegin(w, a, u, r)
    PROVE  IndInv'
  <1>1. PICK x \in Tx : x = [kind |-> "invite", at |-> "begun", user |-> u, inv |-> Null,
                             old |-> Null, role |-> r]
    BY OrganizationAssumption DEF Tx
  <1>2. TxCreate(x) /\ TxInvite(x)' /\ TxAccept(x) /\ TxRole(x) /\ TxRemove(x)
    BY <1>1 DEF TxCreate, TxInvite, TxAccept, TxRole, TxRemove
  <1>3. \A v \in Connections \ {w} : tx[v] # Null => Apart(tx[v], x) /\ Apart(x, tx[v])
    BY <1>1 DEF Apart, Invites, WritesMember
  <1>4. tx' = [tx EXCEPT ![w] = x] /\ UNCHANGED <<member, inv, expired, jobVars, joined>>
    BY <1>1 DEF InviteBegin, Begin
  <1>5. Founded
    BY DEF InviteBegin, Permitted, Founded
  <1> QED
    BY <1>1, <1>2, <1>3, <1>4, <1>5, TxStepKeeps DEF IndInv, TypeOK, jobVars

(* The old invitation it reads is a committed one.                         *)
LEMMA InviteReadKeeps ==
    ASSUME IndInv, NEW w \in Connections, InviteRead(w)
    PROVE  IndInv'
  <1> USE OrganizationAssumption
  <1>1. /\ tx[w] \in Tx /\ tx[w] # Null /\ tx[w].kind = "invite"
        /\ tx[w].role \in InviteRoles
    BY DEF InviteRead, Open, IndInv, TypeOK, TxInv, TxInvite
  <1>2. PICK o : /\ o # Null => o \in Invitations /\ inv[o] # Null
                 /\ tx' = [tx EXCEPT ![w].at = "read", ![w].old = o]
    <2> DEFINE mine == {i \in Invitations : Pending(i) /\ inv[i].email = tx[w].user}
    <2>1. PICK m \in IF mine = {} THEN {Null} ELSE mine :
             tx' = [tx EXCEPT ![w].at = "read", ![w].old = m]
      BY DEF InviteRead
    <2>2. m = Null \/ m \in mine
      BY <2>1
    <2>3. m \in mine => m \in Invitations /\ inv[m] # Null
      BY DEF Pending
    <2>4. tx' = [tx EXCEPT ![w].at = "read", ![w].old = m]
      BY <2>1
    <2>5. m # Null => m \in Invitations /\ inv[m] # Null
      BY <2>2, <2>3
    <2> HIDE DEF mine
    <2> WITNESS m
    <2> QED
      BY <2>4, <2>5
  <1>3. [[tx[w] EXCEPT !.at = "read"] EXCEPT !.old = o] \in Tx
    BY <1>1, <1>2 DEF Tx
  <1>4. PICK x \in Tx : /\ x = [[tx[w] EXCEPT !.at = "read"] EXCEPT !.old = o]
                        /\ x.kind = "invite" /\ x.at = "read" /\ x.old = o
                        /\ x.role = tx[w].role
    BY <1>1, <1>3 DEF Tx
  <1>5. Founded /\ UNCHANGED <<member, inv, expired, jobVars, joined>>
    BY <1>1 DEF IndInv, FoundInv, InviteRead
  <1>6. TxCreate(x) /\ TxInvite(x)' /\ TxAccept(x) /\ TxRole(x) /\ TxRemove(x)
    BY <1>1, <1>2, <1>4, <1>5 DEF TxCreate, TxInvite, TxAccept, TxRole, TxRemove
  <1>7. \A v \in Connections \ {w} : tx[v] # Null => Apart(tx[v], x) /\ Apart(x, tx[v])
    BY <1>4 DEF Apart, Invites, WritesMember
  <1>8. tx' = [tx EXCEPT ![w] = x]
    BY <1>2, <1>4
  <1> QED
    BY <1>4, <1>5, <1>6, <1>7, <1>8, TxStepKeeps DEF IndInv, TypeOK, jobVars

(* It locks the old one, and its insert waits for those of the address.    *)
LEMMA InviteWriteKeeps ==
    ASSUME IndInv, NEW w \in Connections, NEW n \in Invitations, InviteWrite(w, n)
    PROVE  IndInv'
  <1> USE OrganizationAssumption
  <1>1. /\ tx[w] \in Tx /\ tx[w] # Null /\ tx[w].kind = "invite"
        /\ TxInvite(tx[w])
    BY DEF InviteWrite, Open, IndInv, TypeOK, TxInv
  <1>2. PICK x \in Tx :
           /\ x = [[tx[w] EXCEPT !.at = "written"] EXCEPT !.inv = n]
           /\ x.kind = "invite" /\ x.at = "written" /\ x.inv = n
           /\ x.old = tx[w].old /\ x.role = tx[w].role /\ x.user = tx[w].user
    <2> DEFINE y == [[tx[w] EXCEPT !.at = "written"] EXCEPT !.inv = n]
    <2> y \in Tx /\ y.kind = "invite" /\ y.at = "written" /\ y.inv = n
          /\ y.old = tx[w].old /\ y.role = tx[w].role /\ y.user = tx[w].user
      BY <1>1 DEF Tx
    <2> WITNESS y \in Tx
    <2> QED
      OBVIOUS
  <1>3. Founded
    BY <1>1 DEF IndInv, FoundInv
  <1>4. /\ tx' = [tx EXCEPT ![w] = x] /\ job' = [job EXCEPT ![n] = "queued"]
        /\ UNCHANGED <<member, inv, expired, retries, mailed, joined>>
        /\ job[n] = "none"
    BY <1>2 DEF InviteWrite
  <1>5. EmailFree(x.user, w, x.old) /\ (x.old # Null => InvitationFree(x.old, w))
    BY <1>2 DEF InviteWrite
  <1>6. inv[n] = Null /\ job'[n] = "queued"
    BY <1>4 DEF IndInv, JobInv, TypeOK
  <1>7. TxInvite(x)'
    BY <1>1, <1>2, <1>4, <1>5, <1>6 DEF TxInvite, EmailFree, Pending
  <1>8. TxCreate(x) /\ TxAccept(x) /\ TxRole(x) /\ TxRemove(x)
    BY <1>2 DEF TxCreate, TxAccept, TxRole, TxRemove
  <1>9. ASSUME NEW v \in Connections \ {w}, tx[v] # Null
        PROVE  Apart(tx[v], x) /\ Apart(x, tx[v])
    <2>1. Invites(tx[v]) => tx[v].user # x.user
      BY <1>5, <1>9 DEF EmailFree, Invites
    <2>2. Invites(tx[v]) => tx[v].inv # n
      BY <1>4, <1>9 DEF IndInv, TxInv, TxInvite, Invites
    <2>3. tx[v].kind = "accept" => tx[v].inv \in Invitations /\ tx[v].inv # x.old
      BY <1>5, <1>9 DEF InvitationFree, IndInv, TxInv, TxAccept, TypeOK
    <2> QED
      BY <1>2, <2>1, <2>2, <2>3 DEF Apart, Invites, WritesMember
  <1> QED
    BY <1>2, <1>3, <1>4, <1>7, <1>8, <1>9, TxStepKeeps DEF IndInv, TypeOK

(* An acceptance locks a pending invitation of its own.                    *)
LEMMA AcceptBeginKeeps ==
    ASSUME IndInv, NEW w \in Connections, NEW i \in Invitations, AcceptBegin(w, i)
    PROVE  IndInv'
  <1> USE OrganizationAssumption
  <1> DEFINE u == inv[i].email
             r == IF member[u] = Null THEN inv[i].role ELSE Null
  <1>1. i \in mailed /\ Pending(i) /\ InvitationFree(i, w) /\ inv[i] \in Invitation
    BY DEF AcceptBegin, Pending, IndInv, TypeOK
  <1>2. PICK x \in Tx : x = [kind |-> "accept", at |-> "read", user |-> u, inv |-> i,
                             old |-> Null, role |-> r]
    <2> DEFINE y == [kind |-> "accept", at |-> "read", user |-> u, inv |-> i,
                     old |-> Null, role |-> r]
    <2> y \in Tx
      BY <1>1 DEF Tx, Invitation
    <2> WITNESS y \in Tx
    <2> QED
      OBVIOUS
  <1>3. tx' = [tx EXCEPT ![w] = x] /\ UNCHANGED <<member, inv, expired, jobVars, joined>>
    BY <1>2 DEF AcceptBegin, Begin
  <1>4. TxCreate(x) /\ TxInvite(x)' /\ TxAccept(x) /\ TxRole(x) /\ TxRemove(x)
    BY <1>1, <1>2 DEF TxCreate, TxInvite, TxAccept, TxRole, TxRemove
  <1>5. \A v \in Connections \ {w} : tx[v] # Null => Apart(tx[v], x) /\ Apart(x, tx[v])
    BY <1>1, <1>2 DEF Apart, Invites, WritesMember, InvitationFree
  <1>6. Founded
    BY <1>1 DEF IndInv, FoundInv, Pending
  <1> QED
    BY <1>2, <1>3, <1>4, <1>5, <1>6, TxStepKeeps DEF IndInv, TypeOK, jobVars

(* Its insert waits for other writes of the membership.                    *)
LEMMA AcceptWriteKeeps ==
    ASSUME IndInv, NEW w \in Connections, AcceptWrite(w)
    PROVE  IndInv'
  <1> USE OrganizationAssumption
  <1>1. /\ tx[w] \in Tx /\ tx[w] # Null /\ tx[w].kind = "accept"
        /\ TxAccept(tx[w])
    BY DEF AcceptWrite, Open, IndInv, TypeOK, TxInv
  <1>2. PICK x \in Tx :
           /\ x = [tx[w] EXCEPT !.at = "written"]
           /\ x.kind = "accept" /\ x.at = "written" /\ x.inv = tx[w].inv
           /\ x.role = tx[w].role /\ x.user = tx[w].user
    <2> DEFINE y == [tx[w] EXCEPT !.at = "written"]
    <2> y \in Tx /\ y.kind = "accept" /\ y.at = "written" /\ y.inv = tx[w].inv
          /\ y.role = tx[w].role /\ y.user = tx[w].user
      BY <1>1 DEF Tx
    <2> WITNESS y \in Tx
    <2> QED
      OBVIOUS
  <1>3. Founded
    BY <1>1 DEF IndInv, FoundInv
  <1>4. tx' = [tx EXCEPT ![w] = x] /\ UNCHANGED <<member, inv, expired, jobVars, joined>>
    BY <1>2 DEF AcceptWrite, Written
  <1>5. x.role # Null => member[x.user] = Null /\ MembershipFree(x.user, w)
    BY <1>2 DEF AcceptWrite
  <1>6. TxCreate(x) /\ TxInvite(x)' /\ TxAccept(x) /\ TxRole(x) /\ TxRemove(x)
    BY <1>1, <1>2, <1>5 DEF TxCreate, TxInvite, TxAccept, TxRole, TxRemove
  <1>7. ASSUME NEW v \in Connections \ {w}, tx[v] # Null
        PROVE  Apart(tx[v], x) /\ Apart(x, tx[v])
    <2>1. Apart(tx[v], tx[w]) /\ Apart(tx[w], tx[v])
      BY <1>1, <1>7 DEF IndInv, TxApart
    <2> QED
      BY <1>1, <1>2, <1>5, <1>7, <2>1 DEF Apart, Invites, WritesMember, MembershipFree
  <1> QED
    BY <1>2, <1>3, <1>4, <1>6, <1>7, TxStepKeeps DEF IndInv, TypeOK, jobVars

(* A role change or a removal is begun for a membership by invitation.     *)
LEMMA RoleBeginKeeps ==
    ASSUME IndInv, NEW w \in Connections, NEW a \in Users, NEW u \in Users,
           \/ \E r \in ChangeRoles : RoleBegin(w, a, u, r)
           \/ RemoveBegin(w, a, u)
    PROVE  IndInv'
  <1> USE OrganizationAssumption
  <1>1. PICK k \in {"role", "remove"}, r \in ChangeRoles \cup {Null} :
           /\ k = "role" => r \in ChangeRoles
           /\ k = "remove" => r = Null
           /\ Begin(w, k, "read", u, member[u].via, r)
    BY DEF RoleBegin, RemoveBegin
  <1>2. member[u] \in Membership /\ member[u] # Null /\ member[u].role # "owner"
    BY DEF RoleBegin, RemoveBegin, Manageable, IndInv, TypeOK
  <1>3. member[u].via \in Invitations /\ Founded
    BY <1>2 DEF Membership, IndInv, OwnerInv, Founded
  <1>4. PICK x \in Tx : x = [kind |-> k, at |-> "read", user |-> u, inv |-> member[u].via,
                             old |-> Null, role |-> r]
    BY <1>1, <1>3 DEF Tx
  <1>5. tx' = [tx EXCEPT ![w] = x] /\ UNCHANGED <<member, inv, expired, jobVars, joined>>
    BY <1>1, <1>4 DEF Begin
  <1>6. TxCreate(x) /\ TxInvite(x)' /\ TxAccept(x) /\ TxRole(x) /\ TxRemove(x)
    BY <1>1, <1>3, <1>4 DEF TxCreate, TxInvite, TxAccept, TxRole, TxRemove
  <1>7. \A v \in Connections \ {w} : tx[v] # Null => Apart(tx[v], x) /\ Apart(x, tx[v])
    BY <1>1, <1>4 DEF Apart, Invites, WritesMember
  <1> QED
    BY <1>3, <1>4, <1>5, <1>6, <1>7, TxStepKeeps DEF IndInv, TypeOK, jobVars

(* The UPDATE of a role finds the row it has read and locks it.            *)
LEMMA RoleWriteKeeps ==
    ASSUME IndInv, NEW w \in Connections, RoleWrite(w)
    PROVE  IndInv'
  <1> USE OrganizationAssumption
  <1>1. tx[w] \in Tx /\ tx[w] # Null /\ tx[w].kind = "role" /\ TxRole(tx[w])
    BY DEF RoleWrite, Open, IndInv, TypeOK, TxInv
  <1>2. PICK x \in Tx :
           /\ x = [tx[w] EXCEPT !.at = "written"]
           /\ x.kind = "role" /\ x.at = "written" /\ x.inv = tx[w].inv
           /\ x.role = tx[w].role /\ x.user = tx[w].user
    <2> DEFINE y == [tx[w] EXCEPT !.at = "written"]
    <2> y \in Tx /\ y.kind = "role" /\ y.at = "written" /\ y.inv = tx[w].inv
          /\ y.role = tx[w].role /\ y.user = tx[w].user
      BY <1>1 DEF Tx
    <2> WITNESS y \in Tx
    <2> QED
      OBVIOUS
  <1>3. Founded
    BY <1>1 DEF IndInv, FoundInv
  <1>4. tx' = [tx EXCEPT ![w] = x] /\ UNCHANGED <<member, inv, expired, jobVars, joined>>
    BY <1>2 DEF RoleWrite, Written
  <1>5. member[x.user] # Null /\ member[x.user].via = x.inv /\ MembershipFree(x.user, w)
    BY <1>2 DEF RoleWrite
  <1>6. TxCreate(x) /\ TxInvite(x)' /\ TxAccept(x) /\ TxRole(x) /\ TxRemove(x)
    BY <1>1, <1>2, <1>5 DEF TxCreate, TxInvite, TxAccept, TxRole, TxRemove
  <1>7. \A v \in Connections \ {w} : tx[v] # Null => Apart(tx[v], x) /\ Apart(x, tx[v])
    BY <1>2, <1>5 DEF Apart, Invites, WritesMember, MembershipFree
  <1> QED
    BY <1>2, <1>3, <1>4, <1>6, <1>7, TxStepKeeps DEF IndInv, TypeOK, jobVars

-----------------------------------------------------------------------------
(* The end of a request                                                    *)

(* Requests that stay open stay apart.                                     *)
LEMMA ApartKeeps ==
    ASSUME IndInv, NEW w \in Connections, tx' = [tx EXCEPT ![w] = Null]
    PROVE  /\ TxApart'
           /\ tx' \in [Connections -> Tx \cup {Null}]
           /\ \A v \in Connections : tx'[v] # Null => v # w /\ tx'[v] = tx[v]
  <1>1. tx' \in [Connections -> Tx \cup {Null}]
    BY DEF IndInv, TypeOK
  <1>2. \A v \in Connections : tx'[v] # Null => v # w /\ tx'[v] = tx[v]
    BY DEF IndInv, TypeOK
  <1>3. TxApart'
    BY <1>2 DEF IndInv, TxApart, Apart, Invites, WritesMember
  <1> QED
    BY <1>1, <1>2, <1>3

(* A rollback leaves everything but the request's job.                     *)
LEMMA AbortKeeps ==
    ASSUME IndInv, NEW w \in Connections, Abort(w)
    PROVE  IndInv'
  <1> USE DEF IndInv, jobVars, Abort
  <1>1. /\ TxApart' /\ tx' \in [Connections -> Tx \cup {Null}]
        /\ \A v \in Connections : tx'[v] # Null => v # w /\ tx'[v] = tx[v]
    BY ApartKeeps
  <1>2. TypeOK'
    BY <1>1 DEF TypeOK
  <1>3. OwnerInv' /\ FoundInv' /\ JobInv'
    BY <1>1 DEF OwnerInv, FoundInv, JobInv, Founded
  <1>4. TxInv'
    BY <1>1
    DEF TxInv, TxCreate, TxInvite, TxAccept, TxRole, TxRemove, Pending, Founded
  <1>5. OnePending' /\ TokenUsedOnce' /\ MailedIsCommitted'
    BY DEF OnePending, TokenUsedOnce, MailedIsCommitted, Pending
  <1> QED
    BY <1>1, <1>2, <1>3, <1>4, <1>5

(* The founder becomes the only member.                                    *)
LEMMA CreateCommitKeeps ==
    ASSUME IndInv, NEW w \in Connections, Commit(w), tx[w].kind = "create"
    PROVE  IndInv'
  <1> USE OrganizationAssumption DEF IndInv
  <1>1. PICK x \in Tx : x = tx[w]
    BY DEF Commit, TypeOK
  <1>2. /\ x.kind = "create" /\ x.at = "written" /\ x.user \in Users /\ ~Founded
    BY <1>1 DEF Commit, TxInv, TxCreate, Tx
  <1>3. \A u \in Users : member[u] = Null
    BY <1>2 DEF Founded
  <1>4. \A u \in Users : member'[u] = IF u = x.user THEN [via |-> Null, role |-> "owner"]
                                      ELSE Null
    <2> SUFFICES ASSUME NEW u \in Users
                 PROVE  member'[u] = IF u = x.user THEN [via |-> Null, role |-> "owner"]
                                     ELSE Null
      OBVIOUS
    <2>1. member'[u] = MemberAfter(x, u)
      BY <1>1 DEF Commit
    <2>2. u # x.user => MemberAfter(x, u) = member[u]
      BY <1>2 DEF MemberAfter
    <2>3. u = x.user => MemberAfter(x, u) = [via |-> Null, role |-> "owner"]
      BY <1>2 DEF MemberAfter
    <2> QED
      BY <1>3, <2>1, <2>2, <2>3
  <1>5. inv' = [i \in Invitations |-> Null] /\ inv = [i \in Invitations |-> Null]
    BY <1>1, <1>2 DEF Commit, InvitationAfter, FoundInv, TypeOK
  <1>6. joined' = [i \in Invitations |-> joined[i]]
    BY <1>1, <1>2 DEF Commit
  <1>7. UNCHANGED <<expired, job, retries, mailed>>
    BY DEF Commit, jobVars
  <1>8. /\ TxApart' /\ tx' \in [Connections -> Tx \cup {Null}]
        /\ \A v \in Connections : tx'[v] # Null => v # w /\ tx'[v] = tx[v]
    BY ApartKeeps DEF Commit
  <1>9. Founded'
    <2>1. [via |-> Null, role |-> "owner"] \in Membership
      BY DEF Membership, Role
    <2> QED
      BY <1>2, <1>4, <2>1 DEF Founded
  <1>10. TypeOK'
    <2>1. member' \in [Users -> Membership \cup {Null}]
      BY <1>4 DEF Commit, Membership, Role
    <2> QED
      BY <1>5, <1>6, <1>7, <1>8, <2>1 DEF TypeOK
  <1>11. OwnerInv'
    BY <1>2, <1>4 DEF OwnerInv, Membership, Role
  <1>12. FoundInv' /\ JobInv'
    BY <1>5, <1>6, <1>7, <1>9 DEF FoundInv, JobInv
  <1>13. TxInv'
    <2> SUFFICES ASSUME NEW v \in Connections, v # w, tx[v] # Null, tx'[v] = tx[v]
                 PROVE  /\ TxCreate(tx[v])' /\ TxInvite(tx[v])' /\ TxAccept(tx[v])'
                        /\ TxRole(tx[v])' /\ TxRemove(tx[v])'
      BY <1>8 DEF TxInv
    <2>1. tx[v].kind = "create"
      BY <1>2 DEF FoundInv
    <2>2. tx[v].at # "written"
      BY <1>1, <1>2, <2>1 DEF Commit, TxApart, Apart
    <2> QED
      BY <2>1, <2>2 DEF TxCreate, TxInvite, TxAccept, TxRole, TxRemove
  <1>14. OnePending' /\ TokenUsedOnce' /\ MailedIsCommitted'
    BY <1>5, <1>6, <1>7
    DEF OnePending, TokenUsedOnce, MailedIsCommitted, Pending
  <1> QED
    BY <1>8, <1>10, <1>11, <1>12, <1>13, <1>14

(* The new invitation is the only pending one of its address.              *)
LEMMA InviteCommitKeeps ==
    ASSUME IndInv, NEW w \in Connections, Commit(w), tx[w].kind = "invite"
    PROVE  IndInv'
  <1> USE OrganizationAssumption DEF IndInv
  <1>1. PICK x \in Tx : x = tx[w]
    BY DEF Commit, TypeOK
  <1>2. /\ x.kind = "invite" /\ x.at = "written" /\ x.user \in Users
        /\ x.role \in InviteRoles /\ x.inv \in Invitations /\ inv[x.inv] = Null
        /\ job[x.inv] # "none" /\ x.old # x.inv
        /\ x.old # Null => x.old \in Invitations /\ inv[x.old] \in Invitation
        /\ \A i \in Invitations \ {x.old} : Pending(i) => inv[i].email # x.user
    BY <1>1 DEF Commit, TxInv, TxInvite, Tx, TypeOK
  <1>3. Founded
    BY <1>1, <1>2 DEF Commit, FoundInv
  <1>4. member' = member
    BY <1>1, <1>2 DEF Commit, MemberAfter, TypeOK
  <1>5. joined' = joined
    BY <1>1, <1>2 DEF Commit, TypeOK
  <1>6. \A i \in Invitations :
           inv'[i] = IF i = x.inv THEN [email |-> x.user, role |-> x.role, status |-> "pending"]
                     ELSE IF i = x.old THEN [inv[i] EXCEPT !.status = "expired"]
                     ELSE inv[i]
    BY <1>1, <1>2 DEF Commit, InvitationAfter
  <1>7. UNCHANGED <<expired, job, retries, mailed>>
    BY DEF Commit, jobVars
  <1>8. /\ TxApart' /\ tx' \in [Connections -> Tx \cup {Null}]
        /\ \A v \in Connections : tx'[v] # Null => v # w /\ tx'[v] = tx[v]
    BY ApartKeeps DEF Commit
  <1>9. /\ inv' \in [Invitations -> Invitation \cup {Null}]
        /\ inv'[x.inv] # Null /\ inv'[x.inv].email = x.user
    <2>1. [email |-> x.user, role |-> x.role, status |-> "pending"] \in Invitation
      BY <1>2 DEF Invitation
    <2>2. x.old # Null => [inv[x.old] EXCEPT !.status = "expired"] \in Invitation
      BY <1>2 DEF Invitation
    <2>3. \A i \in Invitations : inv'[i] \in Invitation \cup {Null}
      <3> SUFFICES ASSUME NEW i \in Invitations PROVE inv'[i] \in Invitation \cup {Null}
        OBVIOUS
      <3>1. CASE i = x.inv
        BY <1>6, <2>1, <3>1
      <3>2. CASE i # x.inv /\ i = x.old
        BY <1>2, <1>6, <2>2, <3>2
      <3>3. CASE i # x.inv /\ i # x.old
        BY <1>6, <3>3 DEF TypeOK
      <3> QED
        BY <3>1, <3>2, <3>3
    <2>4. inv'[x.inv] = [email |-> x.user, role |-> x.role, status |-> "pending"]
      BY <1>2, <1>6
    <2> QED
      BY <2>1, <2>3, <2>4 DEF Commit
  <1>10. \A i \in Invitations : inv[i] # Null =>
            /\ inv'[i] # Null /\ inv'[i].email = inv[i].email /\ inv'[i].role = inv[i].role
            /\ Pending(i)' => Pending(i) /\ i # x.old
            /\ i # x.old => inv'[i] = inv[i]
    BY <1>2, <1>6, <1>9 DEF TypeOK, Invitation, Pending
  <1>11. TypeOK'
    BY <1>4, <1>5, <1>7, <1>8, <1>9 DEF TypeOK
  <1>12. OwnerInv' /\ FoundInv'
    BY <1>3, <1>4 DEF OwnerInv, FoundInv, Founded
  <1>13. JobInv'
    BY <1>2, <1>5, <1>6, <1>7, <1>9, <1>10 DEF JobInv
  <1>14. TxInv'
    <2> SUFFICES ASSUME NEW v \in Connections, v # w, tx[v] # Null, tx'[v] = tx[v]
                 PROVE  /\ TxCreate(tx[v])' /\ TxInvite(tx[v])' /\ TxAccept(tx[v])'
                        /\ TxRole(tx[v])' /\ TxRemove(tx[v])'
      BY <1>8 DEF TxInv
    <2>1. /\ TxCreate(tx[v]) /\ TxInvite(tx[v]) /\ TxAccept(tx[v])
          /\ TxRole(tx[v]) /\ TxRemove(tx[v]) /\ tx[v] \in Tx
      BY DEF TxInv, TypeOK
    <2>2. Apart(tx[v], x) /\ Apart(x, tx[v])
      BY <1>1 DEF TxApart, Commit
    <2>3. TxCreate(tx[v])' /\ TxRole(tx[v])' /\ TxRemove(tx[v])'
      BY <1>4, <2>1 DEF TxCreate, TxRole, TxRemove, Founded
    <2>4. TxInvite(tx[v])'
      <3> SUFFICES ASSUME tx[v].kind = "invite" PROVE TxInvite(tx[v])'
        BY DEF TxInvite
      <3>1. tx[v].old # Null => inv'[tx[v].old] # Null
        BY <1>10, <2>1 DEF TxInvite, Tx
      <3>2. ASSUME tx[v].at = "written"
            PROVE  /\ inv'[tx[v].inv] = Null
                   /\ \A i \in Invitations \ {tx[v].old} :
                         Pending(i)' => inv'[i].email # tx[v].user
        <4>1. tx[v].user # x.user /\ tx[v].inv # x.inv
          BY <1>2, <2>2, <3>2 DEF Apart, Invites
        <4>2. inv'[tx[v].inv] = Null
          BY <1>2, <1>6, <2>1, <3>2, <4>1 DEF TxInvite
        <4>3. ASSUME NEW i \in Invitations \ {tx[v].old}, Pending(i)'
              PROVE  inv'[i].email # tx[v].user
          <5>1. CASE i = x.inv
            BY <1>9, <4>1, <5>1
          <5>2. CASE i # x.inv
            <6>1. inv[i] # Null
              BY <1>2, <1>6, <4>3, <5>2 DEF Pending
            <6> QED
              BY <1>10, <2>1, <3>2, <4>3, <6>1 DEF TxInvite
          <5> QED
            BY <5>1, <5>2
        <4> QED
          BY <4>2, <4>3
      <3> QED
        BY <1>7, <2>1, <3>1, <3>2 DEF TxInvite
    <2>5. TxAccept(tx[v])'
      <3> SUFFICES ASSUME tx[v].kind = "accept" PROVE TxAccept(tx[v])'
        BY DEF TxAccept
      <3>1. tx[v].inv \in Invitations /\ inv[tx[v].inv] # Null /\ tx[v].inv # x.old
        BY <1>2, <2>1, <2>2 DEF TxAccept, Pending, Apart, Invites, TypeOK
      <3>2. inv'[tx[v].inv] = inv[tx[v].inv]
        BY <1>10, <3>1
      <3> QED
        BY <1>4, <1>7, <2>1, <3>2 DEF TxAccept, Pending
    <2> QED
      BY <2>3, <2>4, <2>5
  <1>15. OnePending'
    <2> SUFFICES ASSUME NEW i \in Invitations, NEW j \in Invitations, Pending(i)',
                        Pending(j)', inv'[i].email = inv'[j].email
                 PROVE  i = j
      BY DEF OnePending
    <2>1. \A k \in Invitations : Pending(k)' =>
             \/ k = x.inv
             \/ Pending(k) /\ inv'[k] = inv[k] /\ inv[k].email # x.user
      <3> SUFFICES ASSUME NEW k \in Invitations, Pending(k)', k # x.inv
                   PROVE  Pending(k) /\ inv'[k] = inv[k] /\ inv[k].email # x.user
        OBVIOUS
      <3>1. inv[k] # Null
        BY <1>2, <1>6 DEF Pending
      <3>2. Pending(k) /\ k # x.old /\ inv'[k] = inv[k]
        BY <1>10, <3>1
      <3> QED
        BY <1>2, <3>2
    <2> QED
      BY <1>9, <2>1 DEF OnePending
  <1>16. TokenUsedOnce'
    <2>1. joined[x.inv] = 0
      BY <1>2 DEF JobInv
    <2>2. ASSUME NEW i \in Invitations, i # x.inv, Pending(i)'
          PROVE  Pending(i)
      <3>1. inv[i] # Null
        BY <1>2, <1>6, <2>2 DEF Pending
      <3> QED
        BY <1>10, <2>2, <3>1
    <2> QED
      BY <1>5, <2>1, <2>2 DEF TokenUsedOnce
  <1>17. MailedIsCommitted'
    BY <1>7, <1>10 DEF MailedIsCommitted, TypeOK
  <1> QED
    BY <1>8, <1>11, <1>12, <1>13, <1>14, <1>15, <1>16, <1>17

(* A step that adds neither requests nor invitations.                      *)
LEMMA OtherStepKeeps ==
    ASSUME IndInv, TypeOK', OwnerInv', JobInv', TokenUsedOnce', MailedIsCommitted',
           Founded' <=> Founded,
           \A v \in Connections : tx'[v] # Null => tx'[v] = tx[v],
           \A i \in Invitations : inv'[i] = Null <=> inv[i] = Null,
           \A i \in Invitations : Pending(i)' => Pending(i) /\ inv'[i] = inv[i],
           \A i \in Invitations : job[i] # "none" => job'[i] # "none",
           \A v \in Connections : tx'[v] # Null => TxAccept(tx[v])' /\ TxRole(tx[v])'
    PROVE  IndInv'
  <1> USE DEF IndInv
  <1>1. FoundInv'
    BY DEF FoundInv
  <1>2. TxInv'
    <2> SUFFICES ASSUME NEW v \in Connections, tx'[v] # Null
                 PROVE  TxCreate(tx[v])' /\ TxInvite(tx[v])' /\ TxRemove(tx[v])'
      BY DEF TxInv
    <2>1. /\ TxCreate(tx[v]) /\ TxInvite(tx[v]) /\ TxRemove(tx[v])
          /\ tx'[v] = tx[v] /\ tx[v] \in Tx
      BY DEF TxInv, TypeOK
    <2>2. TxCreate(tx[v])' /\ TxRemove(tx[v])'
      BY <2>1 DEF TxCreate, TxRemove
    <2>3. TxInvite(tx[v])'
      BY <2>1 DEF TxInvite, Tx
    <2> QED
      BY <2>2, <2>3
  <1>3. TxApart'
    BY DEF TxApart, Apart, Invites, WritesMember
  <1>4. OnePending'
    BY DEF OnePending
  <1> QED
    BY <1>1, <1>2, <1>3, <1>4

(* The invitation is used up; a missing membership is inserted.            *)
LEMMA AcceptCommitKeeps ==
    ASSUME IndInv, NEW w \in Connections, Commit(w), tx[w].kind = "accept"
    PROVE  IndInv'
  <1> USE OrganizationAssumption DEF IndInv
  <1>1. PICK x \in Tx : x = tx[w]
    BY DEF Commit, TypeOK
  <1>2. /\ x.kind = "accept" /\ x.at = "written" /\ x.user \in Users
        /\ x.inv \in Invitations /\ Pending(x.inv) /\ inv[x.inv] \in Invitation
        /\ x.role # Null => x.role = inv[x.inv].role /\ member[x.user] = Null
    BY <1>1 DEF Commit, TxInv, TxAccept, Tx, TypeOK, Pending
  <1>3. Founded
    BY <1>1, <1>2 DEF Commit, FoundInv
  <1>4. x.role # Null => x.role \in Role \ {"owner"}
    BY <1>2 DEF Invitation
  <1>5. \A u \in Users :
           member'[u] = IF u = x.user /\ x.role # Null THEN [via |-> x.inv, role |-> x.role]
                        ELSE member[u]
    BY <1>1, <1>2 DEF Commit, MemberAfter
  <1>6. \A i \in Invitations :
           inv'[i] = IF i = x.inv THEN [inv[i] EXCEPT !.status = "accepted"] ELSE inv[i]
    BY <1>1, <1>2 DEF Commit, InvitationAfter
  <1>7. \A i \in Invitations :
           joined'[i] = IF i = x.inv /\ x.role # Null THEN joined[i] + 1 ELSE joined[i]
    BY <1>1, <1>2 DEF Commit
  <1>8. UNCHANGED <<expired, job, retries, mailed>>
    BY DEF Commit, jobVars
  <1>9. /\ tx' \in [Connections -> Tx \cup {Null}]
        /\ \A v \in Connections : tx'[v] # Null => v # w /\ tx'[v] = tx[v]
    BY ApartKeeps DEF Commit
  <1>10. /\ inv'[x.inv] \in Invitation /\ inv'[x.inv] # Null /\ ~Pending(x.inv)'
         /\ \A i \in Invitations : i # x.inv => inv'[i] = inv[i]
    <2>1. inv'[x.inv] = [inv[x.inv] EXCEPT !.status = "accepted"]
      BY <1>2, <1>6
    <2>2. inv'[x.inv] \in Invitation /\ inv'[x.inv].status = "accepted"
      BY <1>2, <2>1 DEF Invitation
    <2> QED
      BY <1>6, <2>2 DEF Pending
  <1>11. \A u \in Users : u # x.user \/ x.role = Null => member'[u] = member[u]
    BY <1>5
  <1>12. x.role # Null => /\ member'[x.user] \in Membership /\ member'[x.user] # Null
                          /\ member'[x.user].via = x.inv /\ member'[x.user].role = x.role
    <2> SUFFICES ASSUME x.role # Null
                 PROVE  /\ member'[x.user] \in Membership /\ member'[x.user] # Null
                        /\ member'[x.user].via = x.inv /\ member'[x.user].role = x.role
      OBVIOUS
    <2>1. member'[x.user] = [via |-> x.inv, role |-> x.role]
      BY <1>2, <1>5
    <2> QED
      BY <1>2, <1>4, <2>1 DEF Membership
  <1>13. TypeOK'
    <2>1. member' \in [Users -> Membership \cup {Null}]
      BY <1>11, <1>12 DEF Commit, TypeOK
    <2>2. inv' \in [Invitations -> Invitation \cup {Null}]
      BY <1>10 DEF Commit, TypeOK
    <2>3. joined' \in [Invitations -> Nat]
      BY <1>7 DEF Commit, TypeOK
    <2> QED
      BY <1>8, <1>9, <2>1, <2>2, <2>3 DEF TypeOK
  <1>14. Founded'
    BY <1>3, <1>11, <1>12 DEF Founded
  <1>15. OwnerInv'
    BY <1>2, <1>3, <1>4, <1>11, <1>12 DEF OwnerInv
  <1>16. JobInv'
    BY <1>2, <1>7, <1>8, <1>10 DEF JobInv, Pending
  <1>17. \A i \in Invitations : Pending(i)' => Pending(i) /\ inv'[i] = inv[i] /\ i # x.inv
    BY <1>10 DEF Pending
  <1>18. TokenUsedOnce'
    <2>1. joined[x.inv] = 0
      BY <1>2 DEF TokenUsedOnce, TypeOK
    <2> QED
      BY <1>2, <1>7, <1>17, <2>1 DEF TokenUsedOnce
  <1>19. MailedIsCommitted'
    BY <1>8, <1>10 DEF MailedIsCommitted, TypeOK
  <1>20. ASSUME NEW v \in Connections, tx'[v] # Null
         PROVE  TxAccept(tx[v])' /\ TxRole(tx[v])'
    <2>1. /\ v # w /\ tx[v] # Null /\ tx'[v] = tx[v] /\ tx[v] \in Tx
          /\ TxAccept(tx[v]) /\ TxRole(tx[v])
      BY <1>9, <1>20 DEF TxInv, TypeOK
    <2>2. Apart(tx[v], x) /\ tx[w] # Null
      BY <1>1, <2>1 DEF TxApart, Commit
    <2>3. WritesMember(tx[v]) => member'[tx[v].user] = member[tx[v].user]
      BY <1>2, <1>11, <2>1, <2>2 DEF Apart, WritesMember, Tx
    <2>4. TxAccept(tx[v])'
      <3> SUFFICES ASSUME tx[v].kind = "accept" PROVE TxAccept(tx[v])'
        BY <2>1 DEF TxAccept
      <3>1. tx[v].inv \in Invitations /\ inv'[tx[v].inv] = inv[tx[v].inv]
        BY <1>2, <1>10, <2>1, <2>2 DEF Apart, TxAccept, TypeOK
      <3> QED
        BY <1>8, <2>1, <2>3, <3>1 DEF TxAccept, Pending, WritesMember
    <2>5. TxRole(tx[v])'
      BY <2>1, <2>3 DEF TxRole, WritesMember
    <2> QED
      BY <2>4, <2>5
  <1>21. /\ \A i \in Invitations : inv'[i] = Null <=> inv[i] = Null
         /\ \A i \in Invitations : job[i] # "none" => job'[i] # "none"
    BY <1>2, <1>8, <1>10 DEF Pending
  <1> QED
    BY <1>3, <1>9, <1>13, <1>14, <1>15, <1>16, <1>17, <1>18, <1>19, <1>20, <1>21,
       OtherStepKeeps

(* The row that was read is changed; it is not the owner's.                *)
LEMMA RoleCommitKeeps ==
    ASSUME IndInv, NEW w \in Connections, Commit(w), tx[w].kind = "role"
    PROVE  IndInv'
  <1> USE OrganizationAssumption DEF IndInv
  <1>1. PICK x \in Tx : x = tx[w]
    BY DEF Commit, TypeOK
  <1>2. /\ x.kind = "role" /\ x.at = "written" /\ x.user \in Users
        /\ x.role \in ChangeRoles /\ x.role # Null /\ x.inv # Null
        /\ member[x.user] \in Membership /\ member[x.user] # Null
        /\ member[x.user].via = x.inv
    BY <1>1 DEF Commit, TxInv, TxRole, Tx, TypeOK
  <1>3. \A u \in Users :
           member'[u] = IF u = x.user THEN [member[u] EXCEPT !.role = x.role] ELSE member[u]
    BY <1>1, <1>2 DEF Commit, MemberAfter
  <1>4. inv' = inv /\ joined' = joined
    BY <1>1, <1>2 DEF Commit, InvitationAfter, TypeOK
  <1>5. UNCHANGED <<expired, job, retries, mailed>>
    BY DEF Commit, jobVars
  <1>6. /\ tx' \in [Connections -> Tx \cup {Null}]
        /\ \A v \in Connections : tx'[v] # Null => v # w /\ tx'[v] = tx[v]
    BY ApartKeeps DEF Commit
  <1>7. /\ member'[x.user] \in Membership /\ member'[x.user] # Null
        /\ member'[x.user].via = x.inv /\ member'[x.user].role = x.role
        /\ \A u \in Users : u # x.user => member'[u] = member[u]
    <2>1. member'[x.user] = [member[x.user] EXCEPT !.role = x.role]
      BY <1>2, <1>3
    <2>2. /\ member'[x.user] \in Membership /\ member'[x.user].via = x.inv
          /\ member'[x.user].role = x.role
      BY <1>2, <2>1 DEF Membership
    <2> QED
      BY <1>3, <2>2
  <1>8. TypeOK'
    <2>1. member' \in [Users -> Membership \cup {Null}]
      BY <1>7 DEF Commit, TypeOK
    <2> QED
      BY <1>4, <1>5, <1>6, <2>1 DEF TypeOK
  <1>9. Founded /\ Founded'
    BY <1>2, <1>7 DEF Founded
  <1>10. OwnerInv'
    BY <1>2, <1>7, <1>9 DEF OwnerInv
  <1>11. JobInv' /\ TokenUsedOnce' /\ MailedIsCommitted'
    BY <1>4, <1>5 DEF JobInv, TokenUsedOnce, MailedIsCommitted, Pending
  <1>12. ASSUME NEW v \in Connections, tx'[v] # Null
         PROVE  TxAccept(tx[v])' /\ TxRole(tx[v])'
    <2>1. /\ v # w /\ tx[v] # Null /\ tx'[v] = tx[v] /\ tx[v] \in Tx
          /\ TxAccept(tx[v]) /\ TxRole(tx[v])
      BY <1>6, <1>12 DEF TxInv, TypeOK
    <2>2. Apart(tx[v], x) /\ tx[w] # Null
      BY <1>1, <2>1 DEF TxApart, Commit
    <2>3. WritesMember(tx[v]) => member'[tx[v].user] = member[tx[v].user]
      BY <1>2, <1>7, <2>1, <2>2 DEF Apart, WritesMember, Tx
    <2> QED
      BY <1>4, <1>5, <2>1, <2>3 DEF TxAccept, TxRole, Pending, WritesMember
  <1>13. \A i \in Invitations : /\ inv'[i] = Null <=> inv[i] = Null
                                /\ Pending(i)' => Pending(i) /\ inv'[i] = inv[i]
                                /\ job[i] # "none" => job'[i] # "none"
    BY <1>4, <1>5 DEF Pending
  <1> QED
    BY <1>6, <1>8, <1>9, <1>10, <1>11, <1>12, <1>13, OtherStepKeeps

(* The row that was read, if it is still there, is deleted; the owner's is *)
(* another one, and no uncommitted change waits for it.                    *)
LEMMA RemoveCommitKeeps ==
    ASSUME IndInv, NEW w \in Connections, Commit(w), tx[w].kind = "remove"
    PROVE  IndInv'
  <1> USE OrganizationAssumption DEF IndInv
  <1>1. PICK x \in Tx : x = tx[w]
    BY DEF Commit, TypeOK
  <1>2. /\ x.kind = "remove" /\ x.user \in Users /\ x.inv # Null
        /\ MembershipFree(x.user, w)
    BY <1>1 DEF Commit, TxInv, TxRemove, Tx
  <1>3. \A u \in Users :
           \/ member'[u] = member[u]
           \/ u = x.user /\ member'[u] = Null /\ member[u].via = x.inv /\ member[u] # Null
    BY <1>1, <1>2 DEF Commit, MemberAfter
  <1>4. inv' = inv /\ joined' = joined
    BY <1>1, <1>2 DEF Commit, InvitationAfter, TypeOK
  <1>5. UNCHANGED <<expired, job, retries, mailed>>
    BY DEF Commit, jobVars
  <1>6. /\ tx' \in [Connections -> Tx \cup {Null}]
        /\ \A v \in Connections : tx'[v] # Null => v # w /\ tx'[v] = tx[v]
    BY ApartKeeps DEF Commit
  <1>7. TypeOK'
    <2>1. member' \in [Users -> Membership \cup {Null}]
      BY <1>3 DEF Commit, TypeOK
    <2> QED
      BY <1>4, <1>5, <1>6, <2>1 DEF TypeOK
  <1>8. Founded /\ Founded'
    <2>1. Founded
      BY <1>1, <1>2 DEF Commit, FoundInv
    <2>2. PICK u \in Users : member[u] # Null /\ member[u].via = Null
      BY <2>1 DEF OwnerInv
    <2>3. member'[u] = member[u]
      BY <1>2, <1>3, <2>2
    <2> QED
      BY <2>1, <2>2, <2>3 DEF Founded
  <1>9. OwnerInv'
    BY <1>2, <1>3, <1>8 DEF OwnerInv
  <1>10. JobInv' /\ TokenUsedOnce' /\ MailedIsCommitted'
    BY <1>4, <1>5 DEF JobInv, TokenUsedOnce, MailedIsCommitted, Pending
  <1>11. ASSUME NEW v \in Connections, tx'[v] # Null
         PROVE  TxAccept(tx[v])' /\ TxRole(tx[v])'
    <2>1. /\ v # w /\ tx[v] # Null /\ tx'[v] = tx[v] /\ tx[v] \in Tx
          /\ TxAccept(tx[v]) /\ TxRole(tx[v])
      BY <1>6, <1>11 DEF TxInv, TypeOK
    <2>2. WritesMember(tx[v]) => member'[tx[v].user] = member[tx[v].user]
      BY <1>2, <1>3, <2>1 DEF MembershipFree, WritesMember, Tx
    <2> QED
      BY <1>4, <1>5, <2>1, <2>2 DEF TxAccept, TxRole, Pending, WritesMember
  <1>12. \A i \in Invitations : /\ inv'[i] = Null <=> inv[i] = Null
                                /\ Pending(i)' => Pending(i) /\ inv'[i] = inv[i]
                                /\ job[i] # "none" => job'[i] # "none"
    BY <1>4, <1>5 DEF Pending
  <1> QED
    BY <1>6, <1>7, <1>8, <1>9, <1>10, <1>11, <1>12, OtherStepKeeps

-----------------------------------------------------------------------------
(* Time, the clean-up and the mail jobs                                    *)

(* Time passes: no row changes.                                            *)
LEMMA ExpireKeeps ==
    ASSUME IndInv, NEW i \in Invitations, Expire(i)
    PROVE  IndInv'
  <1> USE DEF IndInv, Expire, jobVars
  <1>1. TypeOK'
    BY DEF TypeOK
  <1>2. OwnerInv' /\ JobInv' /\ TokenUsedOnce' /\ MailedIsCommitted' /\ (Founded' <=> Founded)
    BY DEF OwnerInv, JobInv, TokenUsedOnce, MailedIsCommitted, Pending, Founded
  <1>3. \A v \in Connections : tx'[v] # Null => TxAccept(tx[v])' /\ TxRole(tx[v])'
    BY DEF TxInv, TxAccept, TxRole, Pending
  <1>4. \A j \in Invitations : Pending(j)' => Pending(j)
    BY DEF Pending
  <1> QED
    BY <1>1, <1>2, <1>3, <1>4, OtherStepKeeps

(* The clean-up leaves alone what an acceptance has locked.                *)
LEMMA CleanupKeeps ==
    ASSUME IndInv, NEW S \in SUBSET expired, Cleanup(S)
    PROVE  IndInv'
  <1> USE OrganizationAssumption DEF IndInv
  <1>1. UNCHANGED <<member, expired, tx, job, retries, mailed, joined>>
    BY DEF Cleanup, jobVars
  <1>2. \A i \in S : /\ i \in Invitations /\ Pending(i) /\ inv[i] \in Invitation
                     /\ inv'[i] = [inv[i] EXCEPT !.status = "expired"]
    BY DEF Cleanup, Cleanable, Pending, TypeOK
  <1>3. \A i \in S : inv'[i] \in Invitation /\ inv'[i] # Null /\ ~Pending(i)'
    <2> SUFFICES ASSUME NEW i \in S
                 PROVE  inv'[i] \in Invitation /\ inv'[i] # Null /\ ~Pending(i)'
      OBVIOUS
    <2>1. inv'[i] \in Invitation /\ inv'[i].status = "expired"
      BY <1>2 DEF Invitation
    <2> QED
      BY <2>1 DEF Pending
  <1>4. \A i \in Invitations \ S : inv'[i] = inv[i]
    BY DEF Cleanup
  <1>5. inv' \in [Invitations -> Invitation \cup {Null}]
    BY <1>3, <1>4 DEF Cleanup, TypeOK
  <1>6. \A i \in Invitations : inv'[i] = Null <=> inv[i] = Null
    BY <1>2, <1>3, <1>4 DEF Pending
  <1>7. \A i \in Invitations : Pending(i)' => Pending(i) /\ inv'[i] = inv[i]
    BY <1>3, <1>4 DEF Pending
  <1>8. TypeOK' /\ OwnerInv' /\ (Founded' <=> Founded)
    BY <1>1, <1>5 DEF TypeOK, OwnerInv, Founded
  <1>9. JobInv' /\ TokenUsedOnce' /\ MailedIsCommitted'
    BY <1>1, <1>6, <1>7 DEF JobInv, TokenUsedOnce, MailedIsCommitted, TypeOK
  <1>10. ASSUME NEW v \in Connections, tx'[v] # Null
         PROVE  TxAccept(tx[v])' /\ TxRole(tx[v])'
    <2>1. TxAccept(tx[v]) /\ TxRole(tx[v]) /\ tx'[v] = tx[v] /\ tx[v] \in Tx
      BY <1>1, <1>10 DEF TxInv, TypeOK
    <2>2. tx[v].kind = "accept" => tx[v].inv \in Invitations /\ tx[v].inv \notin S
      BY <1>1, <1>10, <2>1 DEF Cleanup, InvitationFree, TxAccept, TypeOK
    <2> QED
      BY <1>1, <1>4, <2>1, <2>2 DEF TxAccept, TxRole, Pending
  <1> QED
    BY <1>1, <1>6, <1>7, <1>8, <1>9, <1>10, OtherStepKeeps

(* The steps of a job, and how it is lost.                                 *)
JobAction(i) ==
    JobInvisible(i) \/ JobLoad(i) \/ JobSend(i) \/ JobError(i) \/ JobLost(i) \/ JobCrash(i)

(* A job changes only its own state and what is mailed; it has found its   *)
(* invitation before it mails.                                             *)
LEMMA JobKeeps ==
    ASSUME IndInv, NEW i \in Invitations, JobAction(i)
    PROVE  IndInv'
  <1> USE OrganizationAssumption DEF IndInv
  <1> DEFINE State == {"none", "queued", "sending", "done", "failed"}
  <1>1. UNCHANGED <<member, inv, expired, tx, joined>>
    BY DEF JobAction, JobInvisible, JobLoad, JobSend, JobError, JobLost, JobCrash
  <1>2. PICK q \in State \ {"none"} :
           /\ job' = [job EXCEPT ![i] = q]
           /\ q = "sending" => inv[i] # Null
    BY DEF JobAction, JobInvisible, JobLoad, JobSend, JobError, JobLost, JobCrash, Retry
  <1>3. job[i] # "none"
    BY DEF JobAction, JobInvisible, JobLoad, JobSend, JobError, JobLost, JobCrash
  <1>4. /\ mailed' \in {mailed, mailed \cup {i}}
        /\ mailed' # mailed => inv[i] # Null
    BY DEF JobAction, JobInvisible, JobLoad, JobSend, JobError, JobLost, JobCrash, JobInv
  <1>5. retries' \in [Invitations -> 0 .. MaxRetries]
    <2>1. \/ retries' = retries
          \/ retries[i] < MaxRetries /\ retries' = [retries EXCEPT ![i] = retries[i] + 1]
      BY DEF JobAction, JobInvisible, JobLoad, JobSend, JobError, JobLost, JobCrash, Retry
    <2> QED
      BY <2>1 DEF TypeOK
  <1>6. job' \in [Invitations -> State] /\ job'[i] = q
        /\ \A j \in Invitations : j # i => job'[j] = job[j]
    BY <1>2 DEF TypeOK
  <1>7. TypeOK'
    BY <1>1, <1>4, <1>5, <1>6 DEF TypeOK
  <1>8. JobInv'
    BY <1>1, <1>2, <1>3, <1>6 DEF JobInv
  <1>9. OwnerInv' /\ TokenUsedOnce' /\ (Founded' <=> Founded)
    BY <1>1 DEF OwnerInv, TokenUsedOnce, Pending, Founded
  <1>10. MailedIsCommitted'
    BY <1>1, <1>4 DEF MailedIsCommitted
  <1>11. \A v \in Connections : tx'[v] # Null => TxAccept(tx[v])' /\ TxRole(tx[v])'
    BY <1>1, <1>4 DEF TxInv, TxAccept, TxRole, Pending
  <1>12. \A j \in Invitations : /\ inv'[j] = Null <=> inv[j] = Null
                                /\ Pending(j)' => Pending(j) /\ inv'[j] = inv[j]
                                /\ job[j] # "none" => job'[j] # "none"
    BY <1>1, <1>2, <1>6 DEF Pending
  <1> QED
    BY <1>1, <1>7, <1>8, <1>9, <1>10, <1>11, <1>12, OtherStepKeeps

-----------------------------------------------------------------------------
(* The invariant                                                           *)

(* A commit is one of five.                                                *)
LEMMA CommitKeeps ==
    ASSUME IndInv, NEW w \in Connections, Commit(w)
    PROVE  IndInv'
  <1>1. tx[w].kind \in {"create", "invite", "accept", "role", "remove"}
    BY DEF Commit, IndInv, TypeOK, Tx
  <1> QED
    BY <1>1, CreateCommitKeeps, InviteCommitKeeps, AcceptCommitKeeps, RoleCommitKeeps,
       RemoveCommitKeeps

(* A state that does not change keeps it.                                  *)
LEMMA StutterKeeps ==
    ASSUME IndInv, UNCHANGED vars
    PROVE  IndInv'
  <1> USE DEF IndInv, vars
  <1>1. TypeOK' /\ OwnerInv' /\ FoundInv' /\ JobInv'
    BY DEF TypeOK, OwnerInv, FoundInv, JobInv, Founded
  <1>2. TxInv'
    BY DEF TxInv, TxCreate, TxInvite, TxAccept, TxRole, TxRemove, Pending, Founded
  <1>3. TxApart'
    BY DEF TxApart, Apart, Invites, WritesMember
  <1>4. OnePending' /\ TokenUsedOnce' /\ MailedIsCommitted'
    BY DEF OnePending, TokenUsedOnce, MailedIsCommitted, Pending
  <1> QED
    BY <1>1, <1>2, <1>3, <1>4

(* Every step keeps the invariant.                                         *)
LEMMA NextKeeps == IndInv /\ [Next]_vars => IndInv'
  <1> SUFFICES ASSUME IndInv, [Next]_vars PROVE IndInv'
    OBVIOUS
  <1>1. ASSUME NEW w \in Connections, Request(w) PROVE IndInv'
    BY <1>1, CreateBeginKeeps, CreateWriteKeeps, InviteBeginKeeps, InviteReadKeeps,
       InviteWriteKeeps, AcceptBeginKeeps, AcceptWriteKeeps, RoleBeginKeeps, RoleWriteKeeps
    DEF Request
  <1>2. ASSUME NEW w \in Connections, Ends(w) PROVE IndInv'
    BY <1>2, CommitKeeps, AbortKeeps DEF Ends
  <1>3. ASSUME NEW i \in Invitations, Expire(i) PROVE IndInv'
    BY <1>3, ExpireKeeps
  <1>4. ASSUME NEW i \in Invitations, JobAction(i) PROVE IndInv'
    BY <1>4, JobKeeps
  <1>5. CASE CleanupStep
    BY <1>5, CleanupKeeps DEF CleanupStep
  <1>6. CASE UNCHANGED vars
    BY <1>6, StutterKeeps
  <1> QED
    BY <1>1, <1>2, <1>3, <1>4, <1>5, <1>6 DEF Next, JobStep, JobAction

(* The invariant holds in every reachable state.                           *)
LEMMA InvHolds == Spec => []IndInv
  BY InitInv, NextKeeps, PTL DEF Spec

-----------------------------------------------------------------------------
(* What the organization promises                                          *)

(* Every variable keeps its type.                                          *)
THEOREM TypeCorrect == Spec => []TypeOK
  <1>1. IndInv => TypeOK
    BY DEF IndInv
  <1> QED
    BY <1>1, InvHolds, PTL

(* However creations, role changes and removals interleave, a founded      *)
(* organization has exactly one owner, its founder.                        *)
THEOREM OwnerAlwaysOne == Spec => []OneOwner
  <1>1. IndInv => OneOwner
    BY DEF IndInv, OwnerInv, OneOwner
  <1> QED
    BY <1>1, InvHolds, PTL

(* Whatever invitations run at the same time, an address has at most one   *)
(* that is pending.                                                        *)
THEOREM PendingAlwaysOne == Spec => []OnePending
  <1>1. IndInv => OnePending
    BY DEF IndInv
  <1> QED
    BY <1>1, InvHolds, PTL

(* A token creates at most one membership, whatever acceptances, removals  *)
(* and repeated invitations do in between.                                 *)
THEOREM TokenAlwaysUsedOnce == Spec => []TokenUsedOnce
  <1>1. IndInv => TokenUsedOnce
    BY DEF IndInv
  <1> QED
    BY <1>1, InvHolds, PTL

(* No token is mailed for an invitation that was rolled back.              *)
THEOREM MailAlwaysCommitted == Spec => []MailedIsCommitted
  <1>1. IndInv => MailedIsCommitted
    BY DEF IndInv
  <1> QED
    BY <1>1, InvHolds, PTL

(* A member joins a founded organization only by a mailed invitation of    *)
(* his own, pending until that commit, with the role it names.             *)
THEOREM JoinsOnlyByInvitation == Spec => JoinsByInvitation
  <1> DEFINE Joins == \A u \in Users : Founded /\ member[u] = Null /\ member'[u] # Null =>
                \E i \in mailed : /\ Pending(i) /\ inv'[i].status = "accepted"
                                  /\ inv[i].email = u
                                  /\ member'[u] = [via |-> i, role |-> inv[i].role]
  <1>1. IndInv /\ [Next]_vars => [Joins]_vars
    <2> SUFFICES ASSUME IndInv, Next, NEW u \in Users, Founded, member[u] = Null,
                        member'[u] # Null
                 PROVE  \E i \in mailed : /\ Pending(i) /\ inv'[i].status = "accepted"
                                          /\ inv[i].email = u
                                          /\ member'[u] = [via |-> i, role |-> inv[i].role]
      OBVIOUS
    <2>1. PICK w \in Connections : Commit(w)
      BY DEF Next, Request, Ends, JobStep, CleanupStep, CreateBegin, CreateWrite, InviteBegin,
             InviteRead, InviteWrite, AcceptBegin, AcceptWrite, RoleBegin, RoleWrite,
             RemoveBegin, Begin, Written, Abort, Expire, Cleanup, JobInvisible, JobLoad,
             JobSend, JobError, JobLost, JobCrash
    <2>2. PICK x \in Tx : x = tx[w] /\ TxCreate(x) /\ TxAccept(x) /\ TxRole(x)
      <3>1. tx[w] \in Tx /\ TxCreate(tx[w]) /\ TxAccept(tx[w]) /\ TxRole(tx[w])
        BY <2>1 DEF Commit, IndInv, TypeOK, TxInv
      <3> DEFINE y == tx[w]
      <3> y \in Tx /\ y = tx[w] /\ TxCreate(y) /\ TxAccept(y) /\ TxRole(y)
        BY <3>1
      <3> WITNESS y \in Tx
      <3> QED
        OBVIOUS
    <2>3. member'[u] = MemberAfter(x, u) /\ (x.at = "written" \/ x.kind = "remove")
      BY <2>1, <2>2 DEF Commit
    <2>4. x.user = u /\ x.kind = "accept" /\ x.at = "written" /\ x.role # Null
      BY <2>2, <2>3 DEF MemberAfter, TxCreate, TxRole
    <2>5. /\ x.inv \in mailed /\ x.inv \in Invitations /\ Pending(x.inv)
          /\ inv[x.inv] \in Invitation /\ inv[x.inv].email = u /\ x.role = inv[x.inv].role
      BY <2>2, <2>4 DEF TxAccept, IndInv, TypeOK, Pending
    <2>6. member'[u] = [via |-> x.inv, role |-> inv[x.inv].role]
      BY <2>3, <2>4, <2>5 DEF MemberAfter
    <2>7. inv'[x.inv] = [inv[x.inv] EXCEPT !.status = "accepted"]
      BY <2>1, <2>2, <2>4, <2>5 DEF Commit, InvitationAfter
    <2>8. inv'[x.inv].status = "accepted"
      BY <2>5, <2>7 DEF Invitation
    <2> QED
      BY <2>5, <2>6, <2>8
  <1>2. [][Joins]_vars => JoinsByInvitation
    BY DEF JoinsByInvitation
  <1> QED
    BY <1>1, <1>2, InvHolds, PTL DEF Spec

(* A settled invitation is never pending again; only the stale read of a   *)
(* repeated invitation can still change it, to "expired".                  *)
THEOREM SettledStays == Spec => SettledInvitation
  <1> DEFINE Settled == \A i \in Invitations :
                inv[i] # Null /\ inv[i].status # "pending" /\ inv'[i] # inv[i] =>
                   /\ inv'[i].status = "expired"
                   /\ \E w \in Connections : Open(w, "invite", "written") /\ tx[w].old = i
  <1>1. IndInv /\ [Next]_vars => [Settled]_vars
    <2> SUFFICES ASSUME IndInv, Next, NEW i \in Invitations, inv[i] # Null,
                        inv[i].status # "pending", inv'[i] # inv[i]
                 PROVE  /\ inv'[i].status = "expired"
                        /\ \E w \in Connections : Open(w, "invite", "written")
                                                    /\ tx[w].old = i
      OBVIOUS
    <2>1. (\E w \in Connections : Commit(w)) \/ CleanupStep
      BY DEF Next, Request, Ends, JobStep, CreateBegin, CreateWrite, InviteBegin,
             InviteRead, InviteWrite, AcceptBegin, AcceptWrite, RoleBegin, RoleWrite,
             RemoveBegin, Begin, Written, Abort, Expire, JobInvisible, JobLoad,
             JobSend, JobError, JobLost, JobCrash
    <2>2. ~CleanupStep
      BY DEF CleanupStep, Cleanup, Cleanable, Pending
    <2>3. PICK w \in Connections : Commit(w)
      BY <2>1, <2>2
    <2>4. PICK x \in Tx : x = tx[w]
      BY <2>3 DEF Commit, IndInv, TypeOK
    <2>5. TxInvite(tx[w]) /\ TxAccept(tx[w]) /\ tx[w] # Null
      BY <2>3 DEF Commit, IndInv, TxInv
    <2>6. inv'[i] = InvitationAfter(x, i) /\ (x.at = "written" \/ x.kind = "remove")
      BY <2>3, <2>4 DEF Commit
    <2>7. x.kind = "invite" /\ x.at = "written" /\ i # x.inv /\ i = x.old
      BY <2>4, <2>5, <2>6 DEF InvitationAfter, TxInvite, TxAccept, Pending
    <2>8. inv'[i] = [inv[i] EXCEPT !.status = "expired"] /\ inv[i] \in Invitation
      BY <2>6, <2>7 DEF InvitationAfter, IndInv, TypeOK
    <2>9. inv'[i].status = "expired"
      BY <2>8 DEF Invitation
    <2> QED
      BY <2>4, <2>5, <2>7, <2>9 DEF Open
  <1>2. [][Settled]_vars => SettledInvitation
    BY DEF SettledInvitation
  <1> QED
    BY <1>1, <1>2, InvHolds, PTL DEF Spec

=============================================================================
