---------------------------- MODULE Organizations ----------------------------
(***************************************************************************)
(* One organization: its creation, its members and their roles, its        *)
(* invitations, and the jobs that mail them.                               *)
(*                                                                         *)
(*   app/modules/organizations/service.py   the five operations            *)
(*   app/core/dependencies.py, permissions.py   who may call them          *)
(*   app/workers/tasks.py   send_invitation_task, the clean-up             *)
(*                                                                         *)
(* An operation is one READ COMMITTED transaction: what it read is kept in *)
(* tx[w] and may be stale when it writes.  A write takes a row lock and    *)
(* waits for the uncommitted writes of others; SELECT ... FOR UPDATE locks *)
(* at the read.  Writes become visible at COMMIT.  A refused request (4xx) *)
(* rolls back and is an Abort.  The Idempotency-Key of creations and       *)
(* invitations is the subject of module Idempotency.                       *)
(*                                                                         *)
(* A user stands for an account and its e-mail address (an address without *)
(* account has no membership).  A membership row is identified by the      *)
(* invitation that created it; Null is the founder's.  The token of an     *)
(* invitation is known only from its mail.                                 *)
(***************************************************************************)
EXTENDS Naturals

CONSTANTS Users, Invitations, Connections, Null,
          Founders,     \* users who may create the organization
          InviteRoles,  \* roles offered by an invitation
          ChangeRoles,  \* roles given by a role change
          MaxRetries    \* max_retries of send_invitation_task

VARIABLES member,   \* member[u]: committed membership row, or Null
          inv,      \* inv[i]: committed invitation, or Null
          expired,  \* invitations with expires_at <= now
          tx,       \* tx[w]: the open transaction, or Null
          job,      \* job[i]: the mail job of invitation i
          retries,  \* self.request.retries
          mailed,   \* invitations whose token was mailed
          joined    \* joined[i]: memberships created from i (history)

vars == <<member, inv, expired, tx, job, retries, mailed, joined>>
jobVars == <<job, retries, mailed>>

Role == {"owner", "admin", "member", "viewer"}
Membership == [via : Invitations \cup {Null}, role : Role]
Invitation == [email : Users, role : InviteRoles,
               status : {"pending", "accepted", "expired"}]
Tx == [kind : {"create", "invite", "accept", "role", "remove"},
       at : {"begun", "read", "written"}, user : Users,
       inv : Invitations \cup {Null}, old : Invitations \cup {Null},
       role : Role \cup {Null}]

ASSUME OrganizationAssumption ==
    /\ Founders \subseteq Users
    /\ InviteRoles \cup ChangeRoles \subseteq Role \ {"owner"}
    /\ MaxRetries \in Nat
    /\ Null \notin Users \cup Invitations \cup Connections
    /\ Null \notin Role \cup Membership \cup Invitation \cup Tx

TypeOK ==
    /\ member \in [Users -> Membership \cup {Null}]
    /\ inv \in [Invitations -> Invitation \cup {Null}]
    /\ expired \in SUBSET Invitations
    /\ tx \in [Connections -> Tx \cup {Null}]
    /\ job \in [Invitations -> {"none", "queued", "sending", "done", "failed"}]
    /\ retries \in [Invitations -> 0 .. MaxRetries]
    /\ mailed \in SUBSET Invitations
    /\ joined \in [Invitations -> Nat]

Init ==
    /\ member = [u \in Users |-> Null]
    /\ inv = [i \in Invitations |-> Null]
    /\ expired = {}
    /\ tx = [w \in Connections |-> Null]
    /\ job = [i \in Invitations |-> "none"]
    /\ retries = [i \in Invitations |-> 0]
    /\ mailed = {}
    /\ joined = [i \in Invitations |-> 0]

-----------------------------------------------------------------------------
(* Permissions                                                             *)

Manage == "members:manage"

ROLE_PERMISSIONS ==
    LET write == {"project:read", "project:write"}
        admin == write \cup {Manage, "project:delete", "webhook:manage", "audit:read"}
    IN [owner  |-> admin \cup {"org:manage", "billing:manage"},
        admin  |-> admin,
        member |-> write,
        viewer |-> {"project:read"}]

(* require_permission: the caller is a member whose role has permission p. *)
Permitted(a, p) == member[a] # Null /\ p \in ROLE_PERMISSIONS[member[a].role]

-----------------------------------------------------------------------------
(* Transactions                                                            *)

Pending(i) == inv[i] # Null /\ inv[i].status = "pending"

Founded == \E u \in Users : member[u] # Null

\* Faulty variant: accept_invitation reads without .with_for_update().
InvitationFreeForReaders(i, w) ==
    \A v \in Connections \ {w} : tx[v] # Null /\ tx[v].at = "written" =>
        /\ ~(tx[v].kind = "accept" /\ tx[v].inv = i)
        /\ ~(tx[v].kind = "invite" /\ tx[v].old = i)

(* No other transaction holds the row lock of invitation i: an acceptance  *)
(* from its first read on, an invitation that has expired i.               *)
InvitationFree(i, w) ==
    \A v \in Connections \ {w} : tx[v] # Null =>
        /\ ~(tx[v].kind = "accept" /\ tx[v].inv = i)
        /\ ~(tx[v].kind = "invite" /\ tx[v].at = "written" /\ tx[v].old = i)

(* No other transaction has an uncommitted write of u's membership.        *)
MembershipFree(u, w) ==
    \A v \in Connections \ {w} : tx[v] # Null =>
        ~(/\ tx[v].kind \in {"accept", "role"} /\ tx[v].at = "written"
          /\ tx[v].user = u /\ tx[v].role # Null)

\* Faulty variant: no partial unique index.
EmailFreeAlways(u, w, old) == TRUE

(* uq_invitation_pending_org_email lets w insert a pending invitation for  *)
(* u: no other one is committed, none is about to be.                      *)
EmailFree(u, w, old) ==
    /\ \A i \in Invitations \ {old} : Pending(i) => inv[i].email # u
    /\ \A v \in Connections \ {w} : tx[v] # Null =>
          ~(tx[v].kind = "invite" /\ tx[v].at = "written" /\ tx[v].user = u)

Begin(w, kind, at, u, i, r) ==
    /\ tx[w] = Null
    /\ tx' = [tx EXCEPT ![w] = [kind |-> kind, at |-> at, user |-> u,
                                inv |-> i, old |-> Null, role |-> r]]
    /\ UNCHANGED <<member, inv, expired, jobVars, joined>>

Open(w, kind, at) == tx[w] # Null /\ tx[w].kind = kind /\ tx[w].at = at

Written(w) ==
    /\ tx' = [tx EXCEPT ![w].at = "written"]
    /\ UNCHANGED <<member, inv, expired, jobVars, joined>>

-----------------------------------------------------------------------------
(* create_organization: the slug is not taken; both rows are inserted.     *)
(* The unique slug makes a second insert wait, and fail on a commit.       *)
CreateBegin(w, u) == ~Founded /\ Begin(w, "create", "read", u, Null, "owner")

CreateWrite(w) ==
    /\ Open(w, "create", "read")
    /\ ~Founded
    /\ \A v \in Connections : ~Open(v, "create", "written")
    /\ Written(w)

(* invite_member: the address is not a member's (permission and membership *)
(* are read together; who invites is not recorded here).                   *)
InviteBegin(w, a, u, r) ==
    /\ Permitted(a, Manage)
    /\ member[u] = Null
    /\ Begin(w, "invite", "begun", u, Null, r)

(* The pending invitation for the address, read without a lock; one that   *)
(* has not expired refuses the request.                                    *)
InviteRead(w) ==
    LET mine == {i \in Invitations : Pending(i) /\ inv[i].email = tx[w].user}
    IN /\ Open(w, "invite", "begun")
       /\ mine \subseteq expired
       /\ \E o \in IF mine = {} THEN {Null} ELSE mine :
             tx' = [tx EXCEPT ![w].at = "read", ![w].old = o]
       /\ UNCHANGED <<member, inv, expired, jobVars, joined>>

(* The old invitation is set to "expired", whatever it is by now, the new  *)
(* one is inserted and its job is published.                               *)
InviteWrite(w, n) ==
    /\ Open(w, "invite", "read")
    /\ job[n] = "none"
    /\ tx[w].old # Null => InvitationFree(tx[w].old, w)
    /\ EmailFree(tx[w].user, w, tx[w].old)
    /\ tx' = [tx EXCEPT ![w].at = "written", ![w].inv = n]
    /\ job' = [job EXCEPT ![n] = "queued"]
    /\ UNCHANGED <<member, inv, expired, retries, mailed, joined>>

(* accept_invitation: the invitation is locked and checked, the membership *)
(* is read.  An expired one is set to "expired" and then rolled back by    *)
(* the exception.                                                          *)
AcceptBegin(w, i) ==
    /\ i \in mailed
    /\ Pending(i) /\ i \notin expired
    /\ InvitationFree(i, w)
    /\ LET u == inv[i].email
       IN Begin(w, "accept", "read", u, i,
                IF member[u] = Null THEN inv[i].role ELSE Null)

(* The membership is inserted unless there was one; uq_membership_org_user *)
(* makes a second insert wait, and fail on a commit.                       *)
AcceptWrite(w) ==
    /\ Open(w, "accept", "read")
    /\ tx[w].role # Null =>
          member[tx[w].user] = Null /\ MembershipFree(tx[w].user, w)
    /\ Written(w)

\* Faulty variant: the owner's role is not protected.
ManageableByAnyone(a, u) == Permitted(a, Manage) /\ member[u] # Null

(* The membership exists and is not the owner's.                           *)
Manageable(a, u) ==
    Permitted(a, Manage) /\ member[u] # Null /\ member[u].role # "owner"

(* update_membership_role; an unchanged role writes nothing.               *)
RoleBegin(w, a, u, r) ==
    /\ Manageable(a, u)
    /\ member[u].role # r
    /\ Begin(w, "role", "read", u, member[u].via, r)

(* UPDATE ... WHERE id: StaleDataError when the row is gone.               *)
RoleWrite(w) ==
    /\ Open(w, "role", "read")
    /\ member[tx[w].user] # Null /\ member[tx[w].user].via = tx[w].inv
    /\ MembershipFree(tx[w].user, w)
    /\ Written(w)

(* remove_membership: the row is read, its DELETE is sent at COMMIT.       *)
RemoveBegin(w, a, u) ==
    /\ Manageable(a, u)
    /\ Begin(w, "remove", "read", u, member[u].via, Null)

-----------------------------------------------------------------------------
(* The membership of u after the writes of x.  A DELETE that finds no row  *)
(* is only a warning.                                                      *)
MemberAfter(x, u) ==
    IF u # x.user THEN member[u]
    ELSE CASE x.kind = "create" -> [via |-> Null, role |-> "owner"]
           [] x.kind = "accept" /\ x.role # Null -> [via |-> x.inv, role |-> x.role]
           [] x.kind = "role" -> [member[u] EXCEPT !.role = x.role]
           [] x.kind = "remove" /\ member[u] # Null /\ member[u].via = x.inv -> Null
           [] OTHER -> member[u]

\* Faulty variant: invitation.status = "accepted" is missing.
InvitationAfterUnaccepted(x, i) ==
    CASE x.kind = "invite" /\ i = x.inv ->
            [email |-> x.user, role |-> x.role, status |-> "pending"]
      [] x.kind = "invite" /\ i = x.old -> [inv[i] EXCEPT !.status = "expired"]
      [] OTHER -> inv[i]

InvitationAfter(x, i) ==
    CASE x.kind = "invite" /\ i = x.inv ->
            [email |-> x.user, role |-> x.role, status |-> "pending"]
      [] x.kind = "invite" /\ i = x.old -> [inv[i] EXCEPT !.status = "expired"]
      [] x.kind = "accept" /\ i = x.inv -> [inv[i] EXCEPT !.status = "accepted"]
      [] OTHER -> inv[i]

Commit(w) ==
    /\ tx[w] # Null
    /\ tx[w].at = "written" \/ tx[w].kind = "remove"
    /\ tx[w].kind = "remove" => MembershipFree(tx[w].user, w)
    /\ member' = [u \in Users |-> MemberAfter(tx[w], u)]
    /\ inv' = [i \in Invitations |-> InvitationAfter(tx[w], i)]
    /\ joined' = [i \in Invitations |->
                    IF tx[w].kind = "accept" /\ tx[w].inv = i /\ tx[w].role # Null
                    THEN joined[i] + 1 ELSE joined[i]]
    /\ tx' = [tx EXCEPT ![w] = Null]
    /\ UNCHANGED <<expired, jobVars>>

(* The request is refused or fails, or COMMIT fails.                       *)
Abort(w) ==
    /\ tx[w] # Null
    /\ tx' = [tx EXCEPT ![w] = Null]
    /\ UNCHANGED <<member, inv, expired, jobVars, joined>>

Expire(i) ==
    /\ Pending(i)
    /\ expired' = expired \cup {i}
    /\ UNCHANGED <<member, inv, tx, jobVars, joined>>

\* Faulty variant: the clean-up expires by date alone.
CleanableByDate(i) == inv[i] # Null /\ i \in expired /\ inv[i].status # "expired"

(* The clean-up's WHERE clause, evaluated again once the lock is free.     *)
Cleanable(i) == Pending(i) /\ i \in expired

(* cleanup_expired_state_task; S had expired when the UPDATE started.  It  *)
(* waits for every request: its own transaction is none of Connections.    *)
Cleanup(S) ==
    /\ S # {}
    /\ \A i \in S : Cleanable(i) /\ InvitationFree(i, Null)
    /\ inv' = [i \in Invitations |->
                 IF i \in S THEN [inv[i] EXCEPT !.status = "expired"] ELSE inv[i]]
    /\ UNCHANGED <<member, expired, tx, jobVars, joined>>

-----------------------------------------------------------------------------
(* send_invitation_task                                                    *)

\* Faulty variant: the retry limit is off by one.
RetryOnceMore(i) ==
    IF retries[i] <= MaxRetries
    THEN /\ retries' = [retries EXCEPT ![i] = @ + 1]
         /\ job' = [job EXCEPT ![i] = "queued"]
    ELSE job' = [job EXCEPT ![i] = "failed"] /\ UNCHANGED retries

(* self.retry(...): publish the message again, or give up by raising.      *)
Retry(i) ==
    IF retries[i] < MaxRetries
    THEN /\ retries' = [retries EXCEPT ![i] = @ + 1]
         /\ job' = [job EXCEPT ![i] = "queued"]
    ELSE job' = [job EXCEPT ![i] = "failed"] /\ UNCHANGED retries

\* Faulty variant: an invitation that is not committed yet is skipped.
JobInvisibleSkips(i) ==
    /\ job[i] = "queued" /\ inv[i] = Null
    /\ job' = [job EXCEPT ![i] = "done"]
    /\ UNCHANGED <<member, inv, expired, tx, retries, mailed, joined>>

\* Faulty variant: the mail needs no invitation.
JobInvisibleSends(i) ==
    /\ job[i] = "queued" /\ inv[i] = Null
    /\ job' = [job EXCEPT ![i] = "sending"]
    /\ UNCHANGED <<member, inv, expired, tx, retries, mailed, joined>>

(* "Invitation is not committed yet", or it never will be.                 *)
JobInvisible(i) ==
    /\ job[i] = "queued" /\ inv[i] = Null
    /\ Retry(i)
    /\ UNCHANGED <<member, inv, expired, tx, mailed, joined>>

(* Skipped when no longer pending; else on to the mail server.             *)
JobLoad(i) ==
    /\ job[i] = "queued" /\ inv[i] # Null
    /\ job' = [job EXCEPT ![i] = IF Pending(i) THEN "sending" ELSE "done"]
    /\ UNCHANGED <<member, inv, expired, tx, retries, mailed, joined>>

JobSend(i) ==
    /\ job[i] = "sending"
    /\ job' = [job EXCEPT ![i] = "done"]
    /\ mailed' = mailed \cup {i}
    /\ UNCHANGED <<member, inv, expired, tx, retries, joined>>

(* OSError or SMTPException, before or after the server took the message.  *)
JobError(i) ==
    /\ job[i] = "sending"
    /\ mailed' \in {mailed, mailed \cup {i}}
    /\ Retry(i)
    /\ UNCHANGED <<member, inv, expired, tx, joined>>

(* SQLAlchemyError is not caught: the job is lost.                         *)
JobLost(i) ==
    /\ job[i] = "queued"
    /\ job' = [job EXCEPT ![i] = "failed"]
    /\ UNCHANGED <<member, inv, expired, tx, retries, mailed, joined>>

(* The worker is lost after the server took the message, before it         *)
(* acknowledges the job, which is delivered again.  A run lost earlier, or *)
(* once the mail is out, leaves no trace.                                  *)
JobCrash(i) ==
    /\ job[i] = "sending"
    /\ i \notin mailed
    /\ job' = [job EXCEPT ![i] = "queued"]
    /\ mailed' = mailed \cup {i}
    /\ UNCHANGED <<member, inv, expired, tx, retries, joined>>

-----------------------------------------------------------------------------
Request(w) ==
    \/ \E u \in Founders : CreateBegin(w, u)
    \/ \E a, u \in Users, r \in InviteRoles : InviteBegin(w, a, u, r)
    \/ \E a, u \in Users, r \in ChangeRoles : RoleBegin(w, a, u, r)
    \/ \E a, u \in Users : RemoveBegin(w, a, u)
    \/ \E i \in Invitations : AcceptBegin(w, i) \/ InviteWrite(w, i)
    \/ CreateWrite(w) \/ InviteRead(w) \/ AcceptWrite(w) \/ RoleWrite(w)

Ends(w) == Commit(w) \/ Abort(w)

JobStep(i) == JobInvisible(i) \/ JobLoad(i) \/ JobSend(i)

CleanupStep == \E S \in SUBSET expired : Cleanup(S)

Next ==
    \/ \E w \in Connections : Request(w) \/ Ends(w)
    \/ \E i \in Invitations : Expire(i) \/ JobStep(i) \/ JobError(i) \/ JobLost(i) \/ JobCrash(i)
    \/ CleanupStep

Spec == Init /\ [][Next]_vars

(* Transactions end, workers consume, the clean-up is scheduled.           *)
Fairness == /\ \A w \in Connections : WF_vars(Ends(w))
            /\ \A i \in Invitations : WF_vars(JobStep(i))
            /\ WF_vars(CleanupStep)

FairSpec == Spec /\ Fairness

-----------------------------------------------------------------------------
(* Properties                                                              *)

(* However role changes, removals and creations interleave, an             *)
(* organization has exactly one owner, its founder (the checks of          *)
(* update_membership_role and remove_membership, the unique slug): it can  *)
(* always be managed.                                                      *)
OneOwner ==
    Founded => \E u \in Users : \A v \in Users :
        member[v] # Null /\ (member[v].role = "owner" \/ member[v].via = Null) <=> v = u

(* Two administrators who invite one address at the same moment leave one  *)
(* pending invitation (invite_member reads before it inserts).             *)
OnePending ==
    \A i, j \in Invitations :
        Pending(i) /\ Pending(j) /\ inv[i].email = inv[j].email => i = j

(* A token admits its addressee once: neither two simultaneous             *)
(* acceptances nor a removal, nor a repeated invitation in between, let    *)
(* it be used again (the row lock of accept_invitation).                   *)
TokenUsedOnce ==
    \A i \in Invitations :
        /\ joined[i] <= 1
        /\ joined[i] = 1 => ~Pending(i)

(* A user becomes a member only by a mailed invitation of his own that was *)
(* pending until that commit, with the role it names (accept_invitation);  *)
(* nobody who was removed returns otherwise.                               *)
JoinsByInvitation ==
    [][\A u \in Users : Founded /\ member[u] = Null /\ member'[u] # Null =>
          \E i \in mailed : /\ Pending(i) /\ inv'[i].status = "accepted"
                            /\ inv[i].email = u
                            /\ member'[u] = [via |-> i, role |-> inv[i].role]]_vars

(* A settled invitation is never pending again, and "accepted" can only be *)
(* overwritten by the stale read of a repeated invitation, never by the    *)
(* clean-up.                                                               *)
SettledInvitation ==
    [][\A i \in Invitations : inv[i] # Null /\ inv[i].status # "pending" /\ inv'[i] # inv[i] =>
          /\ inv'[i].status = "expired"
          /\ \E w \in Connections : Open(w, "invite", "written") /\ tx[w].old = i]_vars

(* No token is mailed for an invitation that was rolled back, although its *)
(* job was published before COMMIT (send_invitation_task).                 *)
MailedIsCommitted == \A i \in mailed : inv[i] # Null

(* A committed invitation is mailed, unless its job was lost or used up    *)
(* its retries, and does not stay pending past its expiry although         *)
(* accept_invitation's own mark is rolled back: the clean-up sets it.      *)
InvitationSettles ==
    \A i \in Invitations :
        Pending(i) ~> \/ ~Pending(i)
                      \/ i \notin expired /\ (i \in mailed \/ job[i] = "failed")
=============================================================================
