--------------------------- MODULE TenantResources ---------------------------
(***************************************************************************)
(* The projects, tasks and attachments of the organizations, with the      *)
(* events that announce them.                                              *)
(*                                                                         *)
(*   app/modules/projects, app/modules/tasks, app/modules/files            *)
(*   app/modules/audit/service.py, the emit_event calls of the services    *)
(*                                                                         *)
(* A request is one READ COMMITTED transaction: it reads without a lock    *)
(* (the action named for the endpoint), sends its INSERT or UPDATE (Write) *)
(* and commits.  The DELETE of session.delete is only sent by the COMMIT.  *)
(* A request that is refused by what it reads (404, 409, 422) changes      *)
(* nothing and has no action.  Permissions are in module Organizations.    *)
(*                                                                         *)
(* All rows have the columns org, parent, value and assignee: value is the *)
(* unique name of a project, the status of a task and nothing of an        *)
(* attachment.  Other columns are written like a task's status.            *)
(***************************************************************************)
CONSTANTS Orgs, Users, Projects, Tasks, Attachments, Connections, Null,
          Names,       \* names a project may be given
          NewStatuses  \* bound: the statuses that requests set

VARIABLES row,      \* row[i]: committed row with id i, or Null
          log,      \* log[i]: types of the committed events about i, but "updated"
          tx,       \* tx[w]: the open transaction of connection w, or Null
          members,  \* members[o]: users with a membership (Organizations)
          was       \* was[o]: users that have been members (history)

vars == <<row, log, tx, members, was>>

Ids == Projects \cup Tasks \cup Attachments
Statuses == {"todo", "in_progress", "done", "cancelled"}
Row == [org : Orgs, parent : Projects \cup Tasks \cup {Null},
        value : Names \cup Statuses \cup {Null}, assignee : Users \cup {Null}]
Tx == [op : {"create", "update", "delete"}, id : Ids, at : {"read", "written"},
       seen : Row \cup {Null}, new : Row \cup {Null}]

ASSUME ResourcesAssumption ==
    /\ Projects \cap Tasks = {} /\ (Projects \cup Tasks) \cap Attachments = {}
    /\ NewStatuses \subseteq Statuses /\ Names \cap Statuses = {}
    /\ Null \notin Ids \cup Names \cup Statuses \cup Users \cup Row \cup Tx

(* A row of each kind has the parent its table requires.                   *)
TypeOK ==
    /\ row \in [Ids -> Row \cup {Null}]
    /\ log \in [Ids -> SUBSET {"created", "completed", "deleted"}]
    /\ tx \in [Connections -> Tx \cup {Null}]
    /\ members \in [Orgs -> SUBSET Users] /\ was \in [Orgs -> SUBSET Users]
    /\ \A i \in Ids : row[i] # Null =>
          \/ i \in Projects /\ row[i].parent = Null /\ row[i].value \in Names
          \/ i \in Tasks /\ row[i].parent \in Projects /\ row[i].value \in Statuses
          \/ i \in Attachments /\ row[i].parent \in Projects \cup Tasks

Init ==
    /\ row = [i \in Ids |-> Null]
    /\ log = [i \in Ids |-> {}]
    /\ tx = [w \in Connections |-> Null]
    /\ members = [o \in Orgs |-> {}] /\ was = members

-----------------------------------------------------------------------------
(* The endpoints                                                           *)

(* get_project, get_task and the SELECTs that validate a parent.           *)
Get(o, i) == row[i] # Null /\ row[i].org = o

ValidAssignee(o, u) == u = Null \/ u \in members[o]

(* uuid4: a new id.  (That of a deleted attachment, which nothing refers   *)
(* to any more, stands for another new one.)                               *)
Fresh(i) == row[i] = Null /\ log[i] = {} /\ \A v \in Connections : tx[v] # Null => tx[v].id # i

Begin(w, op, i, seen, new) ==
    /\ tx[w] = Null
    /\ tx' = [tx EXCEPT ![w] = [op |-> op, id |-> i, seen |-> seen, new |-> new,
                                at |-> IF op = "delete" THEN "written" ELSE "read"]]
    /\ UNCHANGED <<row, log, members, was>>

Create(w, i, new) == Fresh(i) /\ Begin(w, "create", i, Null, new)

CreateProject(w, o, p, n) ==
    Create(w, p, [org |-> o, parent |-> Null, value |-> n, assignee |-> Null])

CreateTask(w, o, t, p, u) ==
    /\ Get(o, p) /\ ValidAssignee(o, u)
    /\ Create(w, t, [org |-> o, parent |-> p, value |-> "todo", assignee |-> u])

\* Faulty variant: an upload may name no parent.
ParentsOrNone(o) == {i \in Projects \cup Tasks : Get(o, i)} \cup {Null}

(* require_exactly_one_parent and the two SELECTs of create_upload.        *)
Parents(o) == {i \in Projects \cup Tasks : Get(o, i)}

CreateUpload(w, o, a) ==
    \E i \in Parents(o) :
        Create(w, a, [org |-> o, parent |-> i, value |-> Null, assignee |-> Null])

(* The payload may set a column to null, also one that must not be.        *)
UpdateProject(w, o, p, n) ==
    /\ Get(o, p)
    /\ Begin(w, "update", p, row[p], [row[p] EXCEPT !.value = n])

(* The payload names the status, the assignee or both.                     *)
UpdateTask(w, o, t) ==
    /\ Get(o, t)
    /\ \E s \in NewStatuses \cup {row[t].value, Null}, u \in Users \cup {Null} :
          /\ u = row[t].assignee \/ ValidAssignee(o, u)
          /\ Begin(w, "update", t, row[t], [row[t] EXCEPT !.value = s, !.assignee = u])

DeleteProject(w, o, p) == Get(o, p) /\ Begin(w, "delete", p, row[p], Null)

DeleteTask(w, o, t) == Get(o, t) /\ Begin(w, "delete", t, row[t], Null)

-----------------------------------------------------------------------------
(* PostgreSQL: constraints, row locks, cascades                            *)

(* An INSERT, or an UPDATE of at least one column, is sent.                *)
Changed(x) == x.new # x.seen

(* ON DELETE CASCADE: the rows that a DELETE of i takes along.             *)
Cascade(i) ==
    {j \in Ids : /\ row[j] # Null
                 /\ \/ j = i \/ row[j].parent = i
                    \/ row[j].parent # Null /\ row[row[j].parent] # Null
                         /\ row[row[j].parent].parent = i}

\* Faulty variant: no foreign keys.
ParentPresentAlways(x) == TRUE

(* fk_task_project_same_org, fk_attachment_project_same_org and            *)
(* fk_attachment_task_same_org                                             *)
ParentPresent(x) == x.new.parent # Null => Get(x.new.org, x.new.parent)

(* uq_project_org_name                                                     *)
NameFree(x) == \A p \in Projects \ {x.id} : Get(x.new.org, p) => row[p].value # x.new.value

Admissible(x) ==
    /\ x.op = "create" => ParentPresent(x)
    /\ x.op = "update" => row[x.id] # Null    \* else StaleDataError
    /\ x.id \notin Attachments => x.new.value # Null    \* NOT NULL
    /\ x.id \in Projects => NameFree(x)

(* The statement of x waits for what y has written: for the row itself,    *)
(* for a child whose foreign key holds the row, for a renamed parent, for  *)
(* a name y takes or gives up.                                             *)
WaitsFor(x, y) ==
    LET rows == IF x.op = "delete" THEN Cascade(x.id) ELSE {x.id}
    IN /\ y.at = "written" /\ y.op # "delete" /\ Changed(y)
       /\ \/ y.op = "update" /\ y.id \in rows
          \/ y.op = "create" /\ y.new.parent \in rows /\ (x.op = "delete" \/ x.id \in Projects)
          \/ x.op = "create" /\ y.op = "update" /\ y.id = x.new.parent /\ y.id \in Projects
          \/ /\ x.op # "delete" /\ x.id \in Projects /\ y.id \in Projects
             /\ x.new.org = y.new.org
             /\ x.new.value = y.new.value \/ (row[y.id] # Null /\ x.new.value = row[y.id].value)

Waits(w) == \E v \in Connections \ {w} : tx[v] # Null /\ WaitsFor(tx[w], tx[v])

(* The flush of an INSERT or UPDATE, then record_audit and emit_event.     *)
Write(w) ==
    /\ tx[w] # Null /\ tx[w].at = "read"
    /\ Changed(tx[w]) => Admissible(tx[w]) /\ ~Waits(w)
    /\ tx' = [tx EXCEPT ![w].at = "written"]
    /\ UNCHANGED <<row, log, members, was>>

(* IntegrityError or StaleDataError: rollback.                             *)
Refused(w) ==
    /\ tx[w] # Null /\ tx[w].at = "read"
    /\ Changed(tx[w]) /\ ~Admissible(tx[w]) /\ ~Waits(w)
    /\ tx' = [tx EXCEPT ![w] = Null]
    /\ UNCHANGED <<row, log, members, was>>

\* Faulty variant: every column is written back.
FlushedWhole(x) == IF Changed(x) THEN x.new ELSE row[x.id]

(* The UPDATE sets the columns that differ from those read.                *)
Flushed(x) ==
    IF Changed(x)
    THEN [c \in DOMAIN x.new |-> IF x.new[c] = x.seen[c] THEN row[x.id][c] ELSE x.new[c]]
    ELSE row[x.id]

\* Faulty variant: the event type is taken from the status that was read.
EventTypeBefore(x) ==
    CASE x.op = "create" -> "created"
      [] x.op = "delete" -> "deleted"
      [] OTHER -> IF x.seen.value = "done" THEN "completed" ELSE "updated"

(* The event of the request.                                               *)
EventType(x) ==
    CASE x.op = "create" -> "created"
      [] x.op = "delete" -> "deleted"
      [] OTHER -> IF x.new.value = "done" THEN "completed" ELSE "updated"

(* The COMMIT, with the DELETE if there is one; a DELETE of no row is only *)
(* a warning.  Attachments have no events.                                 *)
Commit(w) ==
    /\ tx[w] # Null /\ tx[w].at = "written"
    /\ tx[w].op = "delete" => ~Waits(w)
    /\ LET x == tx[w]
       IN /\ row' = CASE x.op = "create" -> [row EXCEPT ![x.id] = x.new]
                      [] x.op = "update" -> [row EXCEPT ![x.id] = Flushed(x)]
                      [] OTHER -> [i \in Ids |-> IF i \in Cascade(x.id) THEN Null ELSE row[i]]
          /\ log' = IF x.id \in Attachments THEN log
                    ELSE [log EXCEPT ![x.id] = @ \cup ({EventType(x)} \ {"updated"})]
    /\ tx' = [tx EXCEPT ![w] = Null]
    /\ UNCHANGED <<members, was>>

(* A crash, a cancelled request or a failed COMMIT.                        *)
Abort(w) ==
    /\ tx[w] # Null
    /\ tx' = [tx EXCEPT ![w] = Null]
    /\ UNCHANGED <<row, log, members, was>>

(* Memberships come and go (module Organizations).                         *)
Join(o, u) ==
    /\ u \notin members[o]
    /\ members' = [members EXCEPT ![o] = @ \cup {u}]
    /\ was' = [was EXCEPT ![o] = @ \cup {u}]
    /\ UNCHANGED <<row, log, tx>>

Leave(o, u) ==
    /\ u \in members[o]
    /\ members' = [members EXCEPT ![o] = @ \ {u}]
    /\ UNCHANGED <<row, log, tx, was>>

-----------------------------------------------------------------------------
Request(w) ==
    \E o \in Orgs :
        \/ \E p \in Projects, n \in Names : CreateProject(w, o, p, n)
        \/ \E p \in Projects, n \in Names \cup {Null} : UpdateProject(w, o, p, n)
        \/ \E t \in Tasks, p \in Projects, u \in Users \cup {Null} : CreateTask(w, o, t, p, u)
        \/ \E t \in Tasks : UpdateTask(w, o, t) \/ DeleteTask(w, o, t)
        \/ \E a \in Attachments : CreateUpload(w, o, a)
        \/ \E p \in Projects : DeleteProject(w, o, p)

Next ==
    \/ \E w \in Connections : Request(w) \/ Write(w) \/ Refused(w) \/ Commit(w) \/ Abort(w)
    \/ \E o \in Orgs, u \in Users : Join(o, u) \/ Leave(o, u)

Spec == Init /\ [][Next]_vars

-----------------------------------------------------------------------------
(* Properties                                                              *)

(* Organizations stay apart and nothing is orphaned: the parent of a task  *)
(* or attachment exists in the same organization, also when the parent was *)
(* deleted after create_task or create_upload had found it; an assignee    *)
(* has been a member of that organization; two projects of an organization *)
(* never share a name.                                                     *)
TenantIntegrity ==
    \A i \in Ids : row[i] # Null =>
        /\ row[i].parent # Null => Get(row[i].org, row[i].parent)
        /\ row[i].assignee # Null => row[i].assignee \in was[row[i].org]
        /\ \A j \in Projects : i \in Projects /\ i # j /\ Get(row[i].org, j)
                                 => row[j].value # row[i].value

(* The events agree with the rows, whatever rolls back, is cascaded or     *)
(* raced: a project or task that exists was announced as created and not   *)
(* as deleted, a task that is done was announced as completed.             *)
Announced ==
    \A i \in Projects \cup Tasks : row[i] # Null =>
        /\ "created" \in log[i] /\ "deleted" \notin log[i]
        /\ i \in Tasks /\ row[i].value = "done" => "completed" \in log[i]

(* Concurrent updates of different columns all survive: a commit changes a *)
(* column only if its own request changed it, although the row was read    *)
(* without a lock.                                                         *)
UntouchedColumnsKept ==
    [][\A i \in Ids : row[i] # Null /\ row'[i] # Null =>
          \A c \in DOMAIN row[i] : row'[i][c] # row[i][c] =>
              \E w \in Connections : /\ tx[w] # Null /\ tx'[w] = Null /\ tx[w].id = i
                                     /\ tx[w].new[c] # tx[w].seen[c]]_vars
=============================================================================
