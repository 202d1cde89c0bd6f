------------------------ MODULE TenantResourcesProofs ------------------------
(***************************************************************************)
(* For any number of organizations, rows and open requests: organizations  *)
(* stay apart and nothing is orphaned, the events agree with the rows, and *)
(* an update changes only the columns its request changed.                 *)
(*                                                                         *)
(* What a request has read may be stale.  The invariant says what its      *)
(* uncommitted INSERT or UPDATE can rely on until COMMIT: the constraints  *)
(* hold, because those who could break them wait for it.                   *)
(***************************************************************************)
EXTENDS TenantResources, TLAPS

(* r can be the row with id i: its parent is of the kind its table needs.  *)
Shaped(i, r) ==
    \/ i \in Projects /\ r.parent = Null /\ r.value \in Names
    \/ i \in Tasks /\ r.parent \in Projects /\ r.value \in Statuses
    \/ i \in Attachments /\ r.parent \in Projects \cup Tasks

(* The statement of x was sent, and changes a row.                         *)
Holds(x) == x.at = "written" /\ x.op # "delete" /\ Changed(x)

(* The id of a creation is new; once the INSERT is sent, its parent stays  *)
(* and its name stays free.                                                *)
TxCreate(x) ==
    x.op = "create" =>
        /\ x.seen = Null /\ x.new \in Row /\ Shaped(x.id, x.new)
        /\ row[x.id] = Null /\ log[x.id] = {}
        /\ x.new.value # "done"
        /\ x.new.assignee # Null => x.new.assignee \in was[x.new.org]
        /\ Holds(x) => ParentPresent(x) /\ (x.id \in Projects => NameFree(x))

(* An update keeps the row in its place; once the UPDATE is sent, the row  *)
(* stays and its name stays free.                                          *)
TxUpdate(x) ==
    x.op = "update" =>
        /\ x.id \in Projects \cup Tasks
        /\ x.seen \in Row /\ x.new \in Row
        /\ x.new.org = x.seen.org /\ x.new.parent = x.seen.parent
        /\ x.new.value # Null => Shaped(x.id, x.new)
        /\ x.id \in Projects /\ Changed(x) => x.new.value # x.seen.value
        /\ x.new.assignee # Null => x.new.assignee \in was[x.new.org]
        /\ row[x.id] # Null => row[x.id].org = x.new.org /\ row[x.id].parent = x.new.parent
        /\ Holds(x) => /\ row[x.id] # Null /\ x.new.value # Null
                       /\ x.id \in Projects => NameFree(x)

TxInv == \A w \in Connections : tx[w] # Null => TxCreate(tx[w]) /\ TxUpdate(tx[w])

(* Row locks and unique indexes keep two open requests apart.              *)
Apart(x, y) ==
    /\ x.op = "create" => x.id # y.id
    /\ Holds(x) /\ Holds(y) =>
          /\ x.id # y.id
          /\ x.id \in Projects /\ y.id \in Projects /\ x.new.org = y.new.org
                => x.new.value # y.new.value

TxApart ==
    \A v, w \in Connections : tx[v] # Null /\ tx[w] # Null /\ v # w => Apart(tx[v], tx[w])

(* Members are remembered.                                                 *)
MemberInv == \A o \in Orgs : members[o] \subseteq was[o]

IndInv ==
    /\ TypeOK
    /\ TxInv
    /\ TxApart
    /\ MemberInv
    /\ TenantIntegrity
    /\ Announced

-----------------------------------------------------------------------------
(* The initial states                                                      *)

(* There are no rows and no requests.                                      *)
LEMMA InitInv == Init => IndInv
  BY ResourcesAssumption
  DEF Init, IndInv, TypeOK, TxInv, TxApart, MemberInv, TenantIntegrity, Announced, Ids

-----------------------------------------------------------------------------
(* Steps of a request before it ends                                       *)

(* What the record of one request needs for its step to keep the           *)
(* invariant; the tables are left alone.                                   *)
LEMMA TxStepKeeps ==
    ASSUME IndInv, NEW w \in Connections, NEW x \in Tx,
           tx' = [tx EXCEPT ![w] = x], UNCHANGED <<row, log, members, was>>,
           TxCreate(x), TxUpdate(x),
           \A v \in Connections \ {w} : tx[v] # Null => Apart(tx[v], x) /\ Apart(x, tx[v])
    PROVE  IndInv'
  <1> USE ResourcesAssumption DEF IndInv
  <1>1. TypeOK'
    BY DEF TypeOK
  <1>2. x # Null /\ tx'[w] = x /\ \A v \in Connections \ {w} : tx'[v] = tx[v]
    BY DEF TypeOK
  <1>3. MemberInv' /\ TenantIntegrity' /\ Announced'
    BY DEF MemberInv, TenantIntegrity, Announced, Get
  <1>4. TxInv'
    <2> SUFFICES ASSUME NEW v \in Connections, tx'[v] # Null
                 PROVE  TxCreate(tx[v])' /\ TxUpdate(tx[v])'
      BY DEF TxInv
    <2>1. PICK y \in Tx : y = tx'[v] /\ TxCreate(y) /\ TxUpdate(y)
      <3>1. CASE v = w
        BY <1>2, <3>1
      <3>2. CASE v # w
        BY <1>2, <3>2 DEF TxInv, TypeOK
      <3> QED
        BY <3>1, <3>2
    <2> QED
      BY <2>1
      DEF TxCreate, TxUpdate, Holds, Changed, ParentPresent, NameFree, Get, Shaped
  <1>5. TxApart'
    <2> SUFFICES ASSUME NEW u \in Connections, NEW v \in Connections, tx'[u] # Null,
                        tx'[v] # Null, u # v
                 PROVE  Apart(tx'[u], tx'[v])
      BY DEF TxApart, Apart, Holds, Changed
    <2> QED
      BY <1>2 DEF TxApart
  <1> QED
    BY <1>1, <1>3, <1>4, <1>5

(* A creation begins with a new id.                                        *)
LEMMA CreateKeeps ==
    ASSUME IndInv, NEW w \in Connections, NEW i \in Ids, NEW new \in Row, Create(w, i, new),
           Shaped(i, new), new.value # "done",
           new.assignee # Null => new.assignee \in was[new.org]
    PROVE  IndInv'
  <1>1. PICK x \in Tx : x = [op |-> "create", id |-> i, seen |-> Null, new |-> new,
                             at |-> "read"]
    BY DEF Tx
  <1>2. tx' = [tx EXCEPT ![w] = x] /\ UNCHANGED <<row, log, members, was>>
    BY <1>1 DEF Create, Begin
  <1>3. TxCreate(x) /\ TxUpdate(x)
    BY <1>1 DEF TxCreate, TxUpdate, Create, Fresh, Holds
  <1>4. \A v \in Connections \ {w} : tx[v] # Null => Apart(tx[v], x) /\ Apart(x, tx[v])
    BY <1>1 DEF Create, Fresh, Apart, Holds
  <1> QED
    BY <1>1, <1>2, <1>3, <1>4, TxStepKeeps

(* An update of a row that was read begins.                                *)
LEMMA UpdateKeeps ==
    ASSUME IndInv, NEW w \in Connections, NEW i \in Projects \cup Tasks, NEW new \in Row,
           row[i] # Null, Begin(w, "update", i, row[i], new),
           new.org = row[i].org, new.parent = row[i].parent,
           new.value # Null => Shaped(i, new),
           i \in Projects /\ new # row[i] => new.value # row[i].value,
           new.assignee # Null => new.assignee \in was[new.org]
    PROVE  IndInv'
  <1>1. row[i] \in Row /\ i \in Ids
    BY DEF IndInv, TypeOK, Ids
  <1>2. PICK x \in Tx : x = [op |-> "update", id |-> i, seen |-> row[i], new |-> new,
                             at |-> "read"]
    BY <1>1 DEF Tx
  <1>3. tx' = [tx EXCEPT ![w] = x] /\ UNCHANGED <<row, log, members, was>>
    BY <1>2 DEF Begin
  <1>4. TxCreate(x) /\ TxUpdate(x)
    BY <1>1, <1>2 DEF TxCreate, TxUpdate, Holds, Changed
  <1>5. ASSUME NEW v \in Connections \ {w}, tx[v] # Null
        PROVE  Apart(tx[v], x) /\ Apart(x, tx[v])
    BY <1>2, <1>5 DEF IndInv, TxInv, TxCreate, Apart, Holds
  <1> QED
    BY <1>2, <1>3, <1>4, <1>5, TxStepKeeps

(* A removal of a row that was read begins.                                *)
LEMMA DeleteKeeps ==
    ASSUME IndInv, NEW w \in Connections, NEW i \in Projects \cup Tasks,
           row[i] # Null, Begin(w, "delete", i, row[i], Null)
    PROVE  IndInv'
  <1>1. row[i] \in Row /\ i \in Ids
    BY DEF IndInv, TypeOK, Ids
  <1>2. PICK x \in Tx : x = [op |-> "delete", id |-> i, seen |-> row[i], new |-> Null,
                             at |-> "written"]
    BY <1>1 DEF Tx
  <1>3. tx' = [tx EXCEPT ![w] = x] /\ UNCHANGED <<row, log, members, was>>
    BY <1>2 DEF Begin
  <1>4. TxCreate(x) /\ TxUpdate(x)
    BY <1>2 DEF TxCreate, TxUpdate
  <1>5. ASSUME NEW v \in Connections \ {w}, tx[v] # Null
        PROVE  Apart(tx[v], x) /\ Apart(x, tx[v])
    BY <1>2, <1>5 DEF IndInv, TxInv, TxCreate, Apart, Holds
  <1> QED
    BY <1>2, <1>3, <1>4, <1>5, TxStepKeeps

(* Each endpoint is one of the three.                                      *)
LEMMA RequestKeeps ==
    ASSUME IndInv, NEW w \in Connections, Request(w)
    PROVE  IndInv'
  <1> USE ResourcesAssumption
  <1>1. PICK o \in Orgs :
          \/ \E p \in Projects, n \in Names : CreateProject(w, o, p, n)
          \/ \E p \in Projects, n \in Names \cup {Null} : UpdateProject(w, o, p, n)
          \/ \E t \in Tasks, p \in Projects, u \in Users \cup {Null} : CreateTask(w, o, t, p, u)
          \/ \E t \in Tasks : UpdateTask(w, o, t) \/ DeleteTask(w, o, t)
          \/ \E a \in Attachments : CreateUpload(w, o, a)
          \/ \E p \in Projects : DeleteProject(w, o, p)
    BY DEF Request
  <1>2. ASSUME NEW p \in Projects, NEW n \in Names, CreateProject(w, o, p, n)
        PROVE  IndInv'
    <2> DEFINE new == [org |-> o, parent |-> Null, value |-> n, assignee |-> Null]
    <2>1. new \in Row /\ p \in Ids
      BY DEF Row, Ids
    <2>2. Shaped(p, new) /\ new.value # "done" /\ new.assignee = Null
      BY DEF Shaped, Statuses
    <2>3. Create(w, p, new)
      BY <1>2 DEF CreateProject
    <2> HIDE DEF new
    <2> QED
      BY <2>1, <2>2, <2>3, CreateKeeps
  <1>3. ASSUME NEW p \in Projects, NEW n \in Names \cup {Null}, UpdateProject(w, o, p, n)
        PROVE  IndInv'
    <2>1. row[p] # Null /\ row[p] \in Row /\ Shaped(p, row[p])
      BY <1>3 DEF UpdateProject, Get, IndInv, TypeOK, Ids, Shaped
    <2>2. PICK new \in Row :
             /\ new = [row[p] EXCEPT !.value = n]
             /\ new.org = row[p].org /\ new.parent = row[p].parent /\ new.value = n
             /\ new.assignee = row[p].assignee
             /\ new # row[p] => n # row[p].value
      <3> DEFINE m == [row[p] EXCEPT !.value = n]
      <3> /\ m \in Row /\ m.org = row[p].org /\ m.parent = row[p].parent /\ m.value = n
          /\ m.assignee = row[p].assignee /\ (m # row[p] => n # row[p].value)
        BY <2>1 DEF Row
      <3> WITNESS m \in Row
      <3> QED
        OBVIOUS
    <2>3. Begin(w, "update", p, row[p], new)
      BY <1>3, <2>2 DEF UpdateProject
    <2>4. new.value # Null => Shaped(p, new)
      BY <2>1, <2>2 DEF Shaped
    <2>5. new.assignee # Null => new.assignee \in was[new.org]
      BY <2>1, <2>2 DEF IndInv, TenantIntegrity, Ids
    <2> QED
      BY <2>1, <2>2, <2>3, <2>4, <2>5, UpdateKeeps
  <1>4. ASSUME NEW t \in Tasks, NEW p \in Projects, NEW u \in Users \cup {Null},
               CreateTask(w, o, t, p, u)
        PROVE  IndInv'
    <2> DEFINE new == [org |-> o, parent |-> p, value |-> "todo", assignee |-> u]
    <2>1. new \in Row /\ t \in Ids
      BY DEF Row, Ids, Statuses
    <2>2. Shaped(t, new) /\ new.value # "done"
      BY DEF Shaped, Statuses
    <2>3. new.assignee # Null => new.assignee \in was[new.org]
      BY <1>4 DEF CreateTask, ValidAssignee, IndInv, MemberInv
    <2>4. Create(w, t, new)
      BY <1>4 DEF CreateTask
    <2> HIDE DEF new
    <2> QED
      BY <2>1, <2>2, <2>3, <2>4, CreateKeeps
  <1>5. ASSUME NEW t \in Tasks, UpdateTask(w, o, t)
        PROVE  IndInv'
    <2>1. /\ row[t] # Null /\ row[t] \in Row /\ Shaped(t, row[t]) /\ row[t].org = o
          /\ row[t].assignee # Null => row[t].assignee \in was[o]
      BY <1>5 DEF UpdateTask, Get, IndInv, TypeOK, Ids, Shaped, TenantIntegrity
    <2>2. PICK s \in NewStatuses \cup {row[t].value, Null}, u \in Users \cup {Null} :
             /\ u = row[t].assignee \/ ValidAssignee(o, u)
             /\ Begin(w, "update", t, row[t], [row[t] EXCEPT !.value = s, !.assignee = u])
      BY <1>5 DEF UpdateTask
    <2>3. s \in Statuses \cup {Null}
      BY <2>1 DEF Shaped
    <2>4. PICK new \in Row :
             /\ new = [row[t] EXCEPT !.value = s, !.assignee = u]
             /\ new.org = o /\ new.parent = row[t].parent /\ new.value = s
             /\ new.assignee = u
      <3> DEFINE m == [row[t] EXCEPT !.value = s, !.assignee = u]
      <3> /\ m \in Row /\ m.org = o /\ m.parent = row[t].parent /\ m.value = s
          /\ m.assignee = u
        BY <2>1, <2>3 DEF Row
      <3> WITNESS m \in Row
      <3> QED
        OBVIOUS
    <2>5. new.value # Null => Shaped(t, new)
      BY <2>1, <2>3, <2>4 DEF Shaped
    <2>6. new.assignee # Null => new.assignee \in was[new.org]
      BY <2>1, <2>2, <2>4 DEF ValidAssignee, IndInv, MemberInv
    <2>7. t \notin Projects
      OBVIOUS
    <2> QED
      BY <2>1, <2>2, <2>4, <2>5, <2>6, <2>7, UpdateKeeps
  <1>6. ASSUME NEW a \in Attachments, CreateUpload(w, o, a)
        PROVE  IndInv'
    <2>1. PICK i \in Projects \cup Tasks :
             Create(w, a, [org |-> o, parent |-> i, value |-> Null, assignee |-> Null])
      BY <1>6 DEF CreateUpload, Parents
    <2> DEFINE new == [org |-> o, parent |-> i, value |-> Null, assignee |-> Null]
    <2>2. new \in Row /\ a \in Ids /\ Create(w, a, new)
      BY <2>1 DEF Row, Ids
    <2>3. Shaped(a, new) /\ new.value # "done" /\ new.assignee = Null
      BY DEF Shaped, Statuses
    <2> HIDE DEF new
    <2> QED
      BY <2>2, <2>3, CreateKeeps
  <1>7. ASSUME NEW i \in Projects \cup Tasks, DeleteProject(w, o, i) \/ DeleteTask(w, o, i)
        PROVE  IndInv'
    BY <1>7, DeleteKeeps DEF DeleteProject, DeleteTask, Get
  <1> QED
    BY <1>1, <1>2, <1>3, <1>4, <1>5, <1>6, <1>7

(* The INSERT or UPDATE finds its constraints satisfied, and waits for the *)
(* statements it conflicts with.                                           *)
LEMMA WriteKeeps ==
    ASSUME IndInv, NEW w \in Connections, Write(w)
    PROVE  IndInv'
  <1> USE ResourcesAssumption
  <1>1. /\ tx[w] \in Tx /\ tx[w] # Null /\ tx[w].at = "read"
        /\ TxCreate(tx[w]) /\ TxUpdate(tx[w])
    BY DEF Write, IndInv, TypeOK, TxInv
  <1>2. PICK x \in Tx :
           /\ x = [tx[w] EXCEPT !.at = "written"]
           /\ x.op = tx[w].op /\ x.id = tx[w].id /\ x.seen = tx[w].seen /\ x.new = tx[w].new
           /\ x.at = "written"
    <2> DEFINE y == [tx[w] EXCEPT !.at = "written"]
    <2> /\ y \in Tx /\ y.op = tx[w].op /\ y.id = tx[w].id /\ y.seen = tx[w].seen
        /\ y.new = tx[w].new /\ y.at = "written"
      BY <1>1 DEF Tx
    <2> WITNESS y \in Tx
    <2> QED
      OBVIOUS
  <1>3. tx' = [tx EXCEPT ![w] = x] /\ UNCHANGED <<row, log, members, was>>
    BY <1>2 DEF Write
  <1>4. Changed(x) => Admissible(x) /\ ~Waits(w)
    BY <1>2 DEF Write, Changed, Admissible, ParentPresent, NameFree
  <1>5. TxCreate(x)
    BY <1>1, <1>2, <1>4 DEF TxCreate, Holds, Admissible
  <1>6. TxUpdate(x)
    BY <1>1, <1>2, <1>4 DEF TxUpdate, Holds, Admissible, Changed
  <1>7. ASSUME NEW v \in Connections \ {w}, tx[v] # Null
        PROVE  Apart(tx[v], x) /\ Apart(x, tx[v])
    <2>1. Apart(tx[v], tx[w]) /\ Apart(tx[w], tx[v]) /\ tx[v] \in Tx
      BY <1>1, <1>7 DEF IndInv, TxApart, TypeOK
    <2>2. /\ x.op = "create" => x.id # tx[v].id
          /\ tx[v].op = "create" => x.id # tx[v].id
      BY <1>2, <2>1 DEF Apart
    <2>3. ASSUME Holds(x), Holds(tx[v])
          PROVE  /\ x.id # tx[v].id
                 /\ x.id \in Projects /\ tx[v].id \in Projects /\ x.new.org = tx[v].new.org
                       => x.new.value # tx[v].new.value
      <3>1. ~WaitsFor(tx[w], tx[v])
        BY <1>4, <1>7, <2>3 DEF Holds, Waits
      <3>2. tx[v].op \in {"create", "update"}
        BY <2>1, <2>3 DEF Tx, Holds
      <3> QED
        BY <1>2, <2>2, <2>3, <3>1, <3>2 DEF WaitsFor, Holds
    <2> QED
      BY <2>2, <2>3 DEF Apart
  <1> QED
    BY <1>2, <1>3, <1>5, <1>6, <1>7, TxStepKeeps

-----------------------------------------------------------------------------
(* The end of a request                                                    *)

(* Requests that stay open stay apart.                                     *)
LEMMA ApartKeeps ==
    ASSUME IndInv, NEW w \in Connections, tx' = [tx EXCEPT ![w] = Null]
    PROVE  /\ TxApart'
           /\ tx' \in [Connections -> Tx \cup {Null}]
           /\ \A v \in Connections : tx'[v] # Null => v # w /\ tx'[v] = tx[v]
  <1>1. tx' \in [Connections -> Tx \cup {Null}]
    BY DEF IndInv, TypeOK
  <1>2. \A v \in Connections : tx'[v] # Null => v # w /\ tx'[v] = tx[v]
    BY DEF IndInv, TypeOK
  <1>3. TxApart'
    BY <1>2 DEF IndInv, TxApart, Apart, Holds, Changed
  <1> QED
    BY <1>1, <1>2, <1>3

(* A rollback leaves no trace.                                             *)
LEMMA RollbackKeeps ==
    ASSUME IndInv, NEW w \in Connections, Refused(w) \/ Abort(w)
    PROVE  IndInv'
  <1> USE DEF IndInv
  <1>1. tx' = [tx EXCEPT ![w] = Null] /\ UNCHANGED <<row, log, members, was>>
    BY DEF Refused, Abort
  <1>2. /\ TxApart' /\ tx' \in [Connections -> Tx \cup {Null}]
        /\ \A v \in Connections : tx'[v] # Null => v # w /\ tx'[v] = tx[v]
    BY <1>1, ApartKeeps
  <1>3. TypeOK'
    BY <1>1, <1>2 DEF TypeOK
  <1>4. MemberInv' /\ TenantIntegrity' /\ Announced'
    BY <1>1 DEF MemberInv, TenantIntegrity, Announced, Get
  <1>5. TxInv'
    BY <1>1, <1>2
    DEF TxInv, TxCreate, TxUpdate, Holds, Changed, ParentPresent, NameFree, Get, Shaped
  <1> QED
    BY <1>2, <1>3, <1>4, <1>5

(* The row appears where its foreign keys allow it, under a free name.     *)
LEMMA CreateCommitKeeps ==
    ASSUME IndInv, NEW w \in Connections, Commit(w), tx[w].op = "create"
    PROVE  IndInv'
  <1> USE ResourcesAssumption DEF IndInv
  <1>1. PICK x \in Tx : x = tx[w]
    BY DEF Commit, TypeOK
  <1>2. x.op = "create" /\ x.at = "written" /\ x.id \in Ids /\ tx[w] # Null
    BY <1>1 DEF Commit, Tx
  <1>3. /\ x.new \in Row /\ x.new # Null /\ Shaped(x.id, x.new) /\ row[x.id] = Null
        /\ log[x.id] = {} /\ x.new.value # "done" /\ Holds(x)
        /\ x.new.assignee # Null => x.new.assignee \in was[x.new.org]
        /\ ParentPresent(x) /\ (x.id \in Projects => NameFree(x))
    BY <1>1, <1>2 DEF TxInv, TxCreate, Holds, Changed
  <1>4. /\ row' = [row EXCEPT ![x.id] = x.new]
        /\ log' = IF x.id \in Attachments THEN log
                  ELSE [log EXCEPT ![x.id] = @ \cup ({"created"} \ {"updated"})]
        /\ tx' = [tx EXCEPT ![w] = Null] /\ members' = members /\ was' = was
    BY <1>1, <1>2 DEF Commit, EventType
  <1>5. row'[x.id] = x.new /\ \A i \in Ids : i # x.id => row'[i] = row[i]
    BY <1>2, <1>4 DEF TypeOK
  <1>6. /\ log' \in [Ids -> SUBSET {"created", "completed", "deleted"}]
        /\ x.id \notin Attachments => log'[x.id] = {"created"}
        /\ \A i \in Ids : i # x.id => log'[i] = log[i]
    BY <1>2, <1>3, <1>4 DEF TypeOK
  <1>7. /\ TxApart' /\ tx' \in [Connections -> Tx \cup {Null}]
        /\ \A v \in Connections : tx'[v] # Null => v # w /\ tx'[v] = tx[v]
    BY <1>4, ApartKeeps
  <1>8. TypeOK' /\ MemberInv'
    <2>1. row' \in [Ids -> Row \cup {Null}]
      BY <1>2, <1>3, <1>4 DEF TypeOK
    <2>2. \A i \in Ids : row'[i] # Null => Shaped(i, row'[i])
      BY <1>3, <1>5 DEF TypeOK, Shaped
    <2> QED
      BY <1>4, <1>6, <1>7, <2>1, <2>2 DEF TypeOK, Shaped, MemberInv
  <1>9. \A o \in Orgs, i \in Ids : Get(o, i) => i # x.id /\ Get(o, i)'
    BY <1>3, <1>5 DEF Get
  <1>10. TenantIntegrity'
    <2> SUFFICES ASSUME NEW i \in Ids, row'[i] # Null
                 PROVE  /\ row'[i].parent # Null => Get(row[i].org, row[i].parent)'
                        /\ row'[i].assignee # Null => row'[i].assignee \in was'[row'[i].org]
                        /\ \A j \in Projects : i \in Projects /\ i # j /\ Get(row[i].org, j)'
                              => row'[j].value # row'[i].value
      BY DEF TenantIntegrity
    <2>1. /\ row'[i] \in Row /\ row'[i].org \in Orgs
          /\ row'[i].parent # Null => row'[i].parent \in Ids
      BY <1>8 DEF TypeOK, Row, Ids
    <2>2. row'[i].parent # Null => Get(row'[i].org, row'[i].parent)
      BY <1>3, <1>5 DEF ParentPresent, TenantIntegrity
    <2>3. row'[i].parent # Null => Get(row[i].org, row[i].parent)'
      BY <1>5, <2>1, <2>2, <1>9 DEF Get
    <2>4. row'[i].assignee # Null => row'[i].assignee \in was'[row'[i].org]
      BY <1>3, <1>4, <1>5 DEF TenantIntegrity
    <2>5. ASSUME NEW j \in Projects, i \in Projects, i # j, Get(row[i].org, j)'
          PROVE  row'[j].value # row'[i].value
      <3>1. j \in Ids /\ row'[j] # Null /\ row'[j].org = row'[i].org
        BY <2>5 DEF Get, Ids
      <3>2. CASE i = x.id
        BY <1>3, <1>5, <2>5, <3>1, <3>2 DEF NameFree, Get
      <3>3. CASE j = x.id
        BY <1>3, <1>5, <2>5, <3>1, <3>3 DEF NameFree, Get
      <3>4. CASE i # x.id /\ j # x.id
        BY <1>5, <2>5, <3>1, <3>4 DEF TenantIntegrity, Get
      <3> QED
        BY <3>2, <3>3, <3>4
    <2> QED
      BY <2>3, <2>4, <2>5
  <1>11. Announced'
    <2> SUFFICES ASSUME NEW i \in Projects \cup Tasks, row'[i] # Null
                 PROVE  /\ "created" \in log'[i] /\ "deleted" \notin log'[i]
                        /\ i \in Tasks /\ row'[i].value = "done" => "completed" \in log'[i]
      BY DEF Announced
    <2>1. i \in Ids
      BY DEF Ids
    <2>2. CASE i = x.id
      BY <1>3, <1>5, <1>6, <2>2
    <2>3. CASE i # x.id
      BY <1>5, <1>6, <2>1, <2>3 DEF Announced
    <2> QED
      BY <2>2, <2>3
  <1>12. TxInv'
    <2> SUFFICES ASSUME NEW v \in Connections, tx'[v] # Null
                 PROVE  TxCreate(tx[v])' /\ TxUpdate(tx[v])'
      BY DEF TxInv
    <2>1. PICK y \in Tx : y = tx[v] /\ y = tx'[v]
      BY <1>7 DEF TypeOK
    <2>2. v # w /\ TxCreate(y) /\ TxUpdate(y)
      BY <1>7, <2>1 DEF TxInv
    <2>3. Apart(x, y) /\ Apart(y, x)
      BY <1>1, <1>2, <1>7, <2>1, <2>2 DEF TxApart
    <2>4. y.id \in Ids /\ y.id # x.id /\ row'[y.id] = row[y.id] /\ log'[y.id] = log[y.id]
      BY <1>2, <1>5, <1>6, <2>3 DEF Apart, Tx
    <2>5. ASSUME Holds(y), y.id \in Projects, NameFree(y) PROVE NameFree(y)'
      <3> SUFFICES ASSUME NEW p \in Projects \ {y.id}, Get(y.new.org, p)'
                   PROVE  row'[p].value # y.new.value
        BY DEF NameFree
      <3>1. p \in Ids
        BY DEF Ids
      <3>2. CASE p = x.id
        BY <1>3, <1>5, <2>3, <2>5, <3>2 DEF Apart, Get
      <3>3. CASE p # x.id
        BY <1>5, <2>5, <3>1, <3>3 DEF NameFree, Get
      <3> QED
        BY <3>2, <3>3
    <2>6. ASSUME y.op = "create", ParentPresent(y) PROVE ParentPresent(y)'
      <3>1. y.new \in Row
        BY <2>2, <2>6 DEF TxCreate
      <3>2. y.new.org \in Orgs /\ (y.new.parent # Null => y.new.parent \in Ids)
        BY <3>1 DEF Row, Ids
      <3> QED
        BY <1>9, <2>6, <3>2 DEF ParentPresent
    <2>7. TxCreate(y)'
      BY <1>4, <2>2, <2>4, <2>5, <2>6 DEF TxCreate, Holds, Changed, Shaped
    <2>8. TxUpdate(y)'
      BY <1>4, <2>2, <2>4, <2>5 DEF TxUpdate, Holds, Changed, Shaped
    <2> QED
      BY <2>1, <2>7, <2>8 DEF TxCreate, TxUpdate, Holds, Changed, ParentPresent, NameFree, Shaped
  <1> QED
    BY <1>7, <1>8, <1>10, <1>11, <1>12

(* The columns the request changed are written over the row as it is now.  *)
LEMMA UpdateCommitKeeps ==
    ASSUME IndInv, NEW w \in Connections, Commit(w), tx[w].op = "update"
    PROVE  IndInv'
  <1> USE ResourcesAssumption DEF IndInv
  <1>1. PICK x \in Tx : x = tx[w]
    BY DEF Commit, TypeOK
  <1>2. /\ x.op = "update" /\ x.at = "written" /\ tx[w] # Null /\ TxUpdate(x)
        /\ x.id \in Projects \cup Tasks /\ x.id \in Ids /\ x.id \notin Attachments
        /\ Holds(x) <=> Changed(x)
    BY <1>1 DEF Commit, TxInv, TxUpdate, Ids, Holds
  <1>3. /\ row' = [row EXCEPT ![x.id] = Flushed(x)]
        /\ log' = [log EXCEPT ![x.id] = @ \cup ({EventType(x)} \ {"updated"})]
        /\ tx' = [tx EXCEPT ![w] = Null] /\ members' = members /\ was' = was
    BY <1>1, <1>2 DEF Commit
  <1>4. row'[x.id] = Flushed(x) /\ \A i \in Ids : i # x.id => row'[i] = row[i]
    BY <1>2, <1>3 DEF TypeOK
  <1>5. row[x.id] = Null => row'[x.id] = Null
    BY <1>2, <1>4 DEF Flushed, TxUpdate
  <1>6. row[x.id] # Null =>
           /\ row'[x.id] \in Row /\ row'[x.id] # Null
           /\ row'[x.id].org = row[x.id].org /\ row'[x.id].org = x.new.org
           /\ row'[x.id].parent = row[x.id].parent
           /\ row'[x.id].value = row[x.id].value
                \/ (Holds(x) /\ x.new.value # Null /\ row'[x.id].value = x.new.value)
           /\ Holds(x) /\ x.id \in Projects => row'[x.id].value = x.new.value
           /\ row'[x.id].assignee \in {row[x.id].assignee, x.new.assignee}
    <2> SUFFICES ASSUME row[x.id] # Null
                 PROVE  /\ row'[x.id] \in Row /\ row'[x.id] # Null
                        /\ row'[x.id].org = row[x.id].org /\ row'[x.id].org = x.new.org
                        /\ row'[x.id].parent = row[x.id].parent
                        /\ row'[x.id].value = row[x.id].value
                             \/ (Holds(x) /\ x.new.value # Null /\ row'[x.id].value = x.new.value)
                        /\ Holds(x) /\ x.id \in Projects => row'[x.id].value = x.new.value
                        /\ row'[x.id].assignee \in {row[x.id].assignee, x.new.assignee}
      OBVIOUS
    <2>1. /\ row[x.id] \in Row /\ x.new \in Row /\ x.seen \in Row
          /\ row[x.id].org = x.new.org /\ row[x.id].parent = x.new.parent
          /\ x.new.org = x.seen.org /\ x.new.parent = x.seen.parent
          /\ x.id \in Projects /\ Changed(x) => x.new.value # x.seen.value
      BY <1>2 DEF TypeOK, TxUpdate
    <2>2. CASE ~Changed(x)
      BY <1>2, <1>4, <2>1, <2>2 DEF Flushed
    <2>3. CASE Changed(x)
      <3>1. x.new.value # Null
        BY <1>2, <2>3 DEF TxUpdate
      <3>2. row'[x.id] = [c \in DOMAIN x.new |->
                             IF x.new[c] = x.seen[c] THEN row[x.id][c] ELSE x.new[c]]
        BY <1>4, <2>3 DEF Flushed
      <3>3. DOMAIN x.new = {"org", "parent", "value", "assignee"}
        BY <2>1 DEF Row
      <3>4. row'[x.id] \in Row
        BY <2>1, <3>2 DEF Row
      <3>5. /\ row'[x.id].org = row[x.id].org /\ row'[x.id].parent = row[x.id].parent
            /\ row'[x.id].value = IF x.new.value = x.seen.value THEN row[x.id].value
                                  ELSE x.new.value
            /\ row'[x.id].assignee = IF x.new.assignee = x.seen.assignee
                                     THEN row[x.id].assignee ELSE x.new.assignee
        BY <2>1, <3>2, <3>3
      <3> QED
        BY <1>2, <2>1, <2>3, <3>1, <3>4, <3>5
    <2> QED
      BY <2>2, <2>3
  <1>7. \A i \in Ids : /\ row'[i] = Null <=> row[i] = Null
                       /\ row[i] # Null => row'[i].org = row[i].org /\ row'[i].parent = row[i].parent
    BY <1>4, <1>5, <1>6
  <1>8. /\ TxApart' /\ tx' \in [Connections -> Tx \cup {Null}]
        /\ \A v \in Connections : tx'[v] # Null => v # w /\ tx'[v] = tx[v]
    BY <1>3, ApartKeeps
  <1>9. /\ log' \in [Ids -> SUBSET {"created", "completed", "deleted"}]
        /\ \A i \in Ids : i # x.id => log'[i] = log[i]
        /\ log'[x.id] \in {log[x.id], log[x.id] \cup {"completed"}}
        /\ x.new.value = "done" => "completed" \in log'[x.id]
    <2>1. /\ EventType(x) \in {"completed", "updated"}
          /\ x.new.value = "done" => EventType(x) = "completed"
      BY <1>2 DEF EventType
    <2> QED
      BY <1>2, <1>3, <2>1 DEF TypeOK
  <1>10. TypeOK' /\ MemberInv'
    <2>1. row' \in [Ids -> Row \cup {Null}]
      BY <1>2, <1>3, <1>4, <1>5, <1>6 DEF TypeOK
    <2>2. row'[x.id] # Null => Shaped(x.id, row'[x.id])
      BY <1>2, <1>5, <1>6 DEF TypeOK, Shaped, TxUpdate
    <2>3. \A i \in Ids : row'[i] # Null => Shaped(i, row'[i])
      BY <1>4, <2>2 DEF TypeOK, Shaped
    <2> QED
      BY <1>3, <1>8, <1>9, <2>1, <2>3 DEF TypeOK, Shaped, MemberInv
  <1>11. \A o \in Orgs, i \in Ids : Get(o, i)' <=> Get(o, i)
    BY <1>7 DEF Get
  <1>12. TenantIntegrity'
    <2> SUFFICES ASSUME NEW i \in Ids, row'[i] # Null
                 PROVE  /\ row'[i].parent # Null => Get(row[i].org, row[i].parent)'
                        /\ row'[i].assignee # Null => row'[i].assignee \in was'[row'[i].org]
                        /\ \A j \in Projects : i \in Projects /\ i # j /\ Get(row[i].org, j)'
                              => row'[j].value # row'[i].value
      BY DEF TenantIntegrity
    <2>1. /\ row[i] # Null /\ row'[i].org \in Orgs /\ row'[i].org = row[i].org
          /\ row'[i].parent = row[i].parent /\ (row'[i].parent # Null => row'[i].parent \in Ids)
      BY <1>7, <1>10 DEF TypeOK, Row, Ids
    <2>2. row'[i].parent # Null => Get(row'[i].org, row'[i].parent)
      BY <2>1 DEF TenantIntegrity
    <2>3. row'[i].parent # Null => Get(row[i].org, row[i].parent)'
      BY <1>7, <2>1, <2>2 DEF Get
    <2>4. row'[i].assignee # Null => row'[i].assignee \in was'[row'[i].org]
      <3>1. CASE i = x.id
        BY <1>2, <1>3, <1>6, <2>1, <3>1 DEF TenantIntegrity, TxUpdate
      <3>2. CASE i # x.id
        BY <1>3, <1>4, <3>2 DEF TenantIntegrity
      <3> QED
        BY <3>1, <3>2
    <2>5. ASSUME NEW j \in Projects, i \in Projects, i # j, Get(row[i].org, j)'
          PROVE  row'[j].value # row'[i].value
      <3>1. j \in Ids /\ row[j] # Null /\ row[j].org = row[i].org
        BY <1>7, <2>1, <2>5 DEF Get, Ids
      <3>2. row[j].value # row[i].value
        BY <2>1, <2>5, <3>1 DEF TenantIntegrity, Get
      <3>3. Holds(x) /\ x.id \in Projects => NameFree(x)
        BY <1>2 DEF TxUpdate
      <3>4. CASE i = x.id
        <4>1. row'[j] = row[j]
          BY <1>4, <2>5, <3>1, <3>4
        <4> QED
          BY <1>6, <2>1, <2>5, <3>1, <3>2, <3>3, <3>4, <4>1 DEF NameFree, Get
      <3>5. CASE j = x.id
        <4>1. row'[i] = row[i]
          BY <1>4, <2>5, <3>5
        <4> QED
          BY <1>6, <2>1, <2>5, <3>1, <3>2, <3>3, <3>5, <4>1 DEF NameFree, Get
      <3>6. CASE i # x.id /\ j # x.id
        BY <1>4, <3>1, <3>2, <3>6
      <3> QED
        BY <3>4, <3>5, <3>6
    <2> QED
      BY <2>3, <2>4, <2>5
  <1>13. Announced'
    <2> SUFFICES ASSUME NEW i \in Projects \cup Tasks, row'[i] # Null
                 PROVE  /\ "created" \in log'[i] /\ "deleted" \notin log'[i]
                        /\ i \in Tasks /\ row'[i].value = "done" => "completed" \in log'[i]
      BY DEF Announced
    <2>1. i \in Ids
      BY DEF Ids
    <2>2. CASE i = x.id
      BY <1>5, <1>6, <1>9, <2>2 DEF Announced
    <2>3. CASE i # x.id
      BY <1>4, <1>9, <2>1, <2>3 DEF Announced
    <2> QED
      BY <2>2, <2>3
  <1>14. TxInv'
    <2> SUFFICES ASSUME NEW v \in Connections, tx'[v] # Null
                 PROVE  TxCreate(tx[v])' /\ TxUpdate(tx[v])'
      BY DEF TxInv
    <2>1. PICK y \in Tx : y = tx[v] /\ y = tx'[v]
      BY <1>8 DEF TypeOK
    <2>2. v # w /\ TxCreate(y) /\ TxUpdate(y) /\ y.id \in Ids
      BY <1>8, <2>1 DEF TxInv, Tx
    <2>3. Apart(x, y) /\ Apart(y, x)
      BY <1>1, <1>2, <1>8, <2>1, <2>2 DEF TxApart
    <2>4. ASSUME Holds(y), y.id \in Projects, NameFree(y) PROVE NameFree(y)'
      <3> SUFFICES ASSUME NEW p \in Projects \ {y.id}, Get(y.new.org, p)'
                   PROVE  row'[p].value # y.new.value
        BY DEF NameFree
      <3>1. p \in Ids /\ row[p] # Null /\ row[p].org = y.new.org
        BY <1>7 DEF Ids, Get
      <3>2. row[p].value # y.new.value
        BY <2>4, <3>1 DEF NameFree, Get
      <3>3. CASE p = x.id
        BY <1>6, <2>3, <2>4, <3>1, <3>2, <3>3 DEF Apart
      <3>4. CASE p # x.id
        BY <1>4, <3>1, <3>2, <3>4
      <3> QED
        BY <3>3, <3>4
    <2>5. ASSUME y.op = "create", ParentPresent(y) PROVE ParentPresent(y)'
      <3>1. y.new \in Row
        BY <2>2, <2>5 DEF TxCreate
      <3>2. y.new.org \in Orgs /\ (y.new.parent # Null => y.new.parent \in Ids)
        BY <3>1 DEF Row, Ids
      <3> QED
        BY <1>11, <2>5, <3>2 DEF ParentPresent
    <2>6. TxCreate(y)'
      <3>1. y.op = "create" => row'[y.id] = row[y.id] /\ log'[y.id] = log[y.id]
        BY <1>4, <1>9, <2>2, <2>3 DEF Apart
      <3> QED
        BY <1>3, <2>2, <2>4, <2>5, <3>1 DEF TxCreate, Holds, Changed, Shaped
    <2>7. TxUpdate(y)'
      BY <1>3, <1>7, <2>2, <2>4 DEF TxUpdate, Holds, Changed, Shaped
    <2> QED
      BY <2>1, <2>6, <2>7 DEF TxCreate, TxUpdate, Holds, Changed, ParentPresent, NameFree, Shaped
  <1> QED
    BY <1>8, <1>10, <1>12, <1>13, <1>14

(* A removal takes along what hangs below the row; nothing remains that    *)
(* refers to it, and nobody has a statement under way that would.          *)
LEMMA DeleteCommitKeeps ==
    ASSUME IndInv, NEW w \in Connections, Commit(w), tx[w].op = "delete"
    PROVE  IndInv'
  <1> USE ResourcesAssumption DEF IndInv
  <1>1. PICK x \in Tx : x = tx[w]
    BY DEF Commit, TypeOK
  <1>2. x.op = "delete" /\ x.id \in Ids /\ tx[w] # Null /\ ~Waits(w)
    BY <1>1 DEF Commit, Tx
  <1>3. /\ row' = [i \in Ids |-> IF i \in Cascade(x.id) THEN Null ELSE row[i]]
        /\ log' = IF x.id \in Attachments THEN log
                  ELSE [log EXCEPT ![x.id] = @ \cup ({"deleted"} \ {"updated"})]
        /\ tx' = [tx EXCEPT ![w] = Null] /\ members' = members /\ was' = was
    BY <1>1, <1>2 DEF Commit, EventType
  <1>4. \A i \in Ids : IF i \in Cascade(x.id) THEN row'[i] = Null ELSE row'[i] = row[i]
    BY <1>3
  <1>5. row'[x.id] = Null
    BY <1>2, <1>4 DEF Cascade
  <1>6. /\ log' \in [Ids -> SUBSET {"created", "completed", "deleted"}]
        /\ \A i \in Ids : i # x.id => log'[i] = log[i]
    BY <1>2, <1>3 DEF TypeOK
  <1>7. /\ TxApart' /\ tx' \in [Connections -> Tx \cup {Null}]
        /\ \A v \in Connections : tx'[v] # Null => v # w /\ tx'[v] = tx[v]
    BY <1>3, ApartKeeps
  <1>8. TypeOK' /\ MemberInv'
    <2>1. row' \in [Ids -> Row \cup {Null}]
      BY <1>3 DEF TypeOK
    <2>2. \A i \in Ids : row'[i] # Null => Shaped(i, row'[i])
      BY <1>4 DEF TypeOK, Shaped
    <2> QED
      BY <1>3, <1>6, <1>7, <2>1, <2>2 DEF TypeOK, Shaped, MemberInv
  <1>9. TenantIntegrity'
    <2> SUFFICES ASSUME NEW i \in Ids, row'[i] # Null
                 PROVE  /\ row'[i].parent # Null => Get(row[i].org, row[i].parent)'
                        /\ row'[i].assignee # Null => row'[i].assignee \in was'[row'[i].org]
                        /\ \A j \in Projects : i \in Projects /\ i # j /\ Get(row[i].org, j)'
                              => row'[j].value # row'[i].value
      BY DEF TenantIntegrity
    <2>1. row'[i] = row[i] /\ i \notin Cascade(x.id) /\ row[i] # Null
      BY <1>4
    <2>2. ASSUME row[i].parent # Null
          PROVE  Get(row[i].org, row[i].parent)'
      <3>1. PICK p \in Projects \cup Tasks : p = row[i].parent
        BY <2>1, <2>2 DEF TypeOK, Row
      <3>2. p \in Ids /\ row[p] # Null /\ row[p].org = row[i].org
        BY <2>1, <2>2, <3>1 DEF TenantIntegrity, Get, Ids
      <3>3. p \notin Cascade(x.id)
        <4> SUFFICES ASSUME p \in Cascade(x.id) PROVE FALSE
          OBVIOUS
        <4>1. p # x.id /\ row[p].parent # x.id
          BY <2>1, <2>2, <3>1, <3>2 DEF Cascade
        <4>2. PICK q \in Projects \cup Tasks : q = row[p].parent /\ row[q] # Null
                                                /\ row[q].parent = x.id
          BY <3>2, <4>1 DEF Cascade, TypeOK, Row
        <4>3. q \in Projects /\ q \in Ids
          BY <3>1, <3>2, <4>2 DEF TypeOK, Ids
        <4>4. row[q].parent = Null
          BY <4>2, <4>3 DEF TypeOK
        <4> QED
          BY <1>2, <4>2, <4>4
      <3> QED
        BY <1>4, <2>1, <3>1, <3>2, <3>3 DEF Get
    <2>3. row'[i].assignee # Null => row'[i].assignee \in was'[row'[i].org]
      BY <1>3, <2>1 DEF TenantIntegrity
    <2>4. ASSUME NEW j \in Projects, i \in Projects, i # j, Get(row[i].org, j)'
          PROVE  row'[j].value # row'[i].value
      <3>1. j \in Ids /\ row'[j] = row[j] /\ Get(row[i].org, j)
        BY <1>4, <2>1, <2>4 DEF Get, Ids
      <3> QED
        BY <2>1, <2>4, <3>1 DEF TenantIntegrity
    <2> QED
      BY <2>1, <2>2, <2>3, <2>4
  <1>10. Announced'
    <2> SUFFICES ASSUME NEW i \in Projects \cup Tasks, row'[i] # Null
                 PROVE  /\ "created" \in log'[i] /\ "deleted" \notin log'[i]
                        /\ i \in Tasks /\ row'[i].value = "done" => "completed" \in log'[i]
      BY DEF Announced
    <2>1. i \in Ids /\ i # x.id /\ row'[i] = row[i] /\ log'[i] = log[i]
      BY <1>4, <1>5, <1>6 DEF Ids
    <2> QED
      BY <2>1 DEF Announced
  <1>11. TxInv'
    <2> SUFFICES ASSUME NEW v \in Connections, tx'[v] # Null
                 PROVE  TxCreate(tx[v])' /\ TxUpdate(tx[v])'
      BY DEF TxInv
    <2>1. PICK y \in Tx : y = tx[v] /\ y = tx'[v]
      BY <1>7 DEF TypeOK
    <2>2. v # w /\ TxCreate(y) /\ TxUpdate(y) /\ y.id \in Ids
      BY <1>7, <2>1 DEF TxInv, Tx
    <2>3. Apart(y, x)
      BY <1>1, <1>2, <1>7, <2>1, <2>2 DEF TxApart
    <2>4. Holds(y) => /\ y.op = "update" => y.id \notin Cascade(x.id)
                      /\ y.op = "create" => y.new.parent \notin Cascade(x.id)
      BY <1>1, <1>2, <1>7, <2>1, <2>2 DEF Waits, WaitsFor, Holds
    <2>5. ASSUME NameFree(y) PROVE NameFree(y)'
      BY <1>4, <2>5 DEF NameFree, Get, Ids
    <2>6. ASSUME y.op = "create", Holds(y), ParentPresent(y) PROVE ParentPresent(y)'
      <3>1. y.new \in Row
        BY <2>2, <2>6 DEF TxCreate
      <3>2. y.new.parent # Null => y.new.parent \in Ids
        BY <3>1 DEF Row, Ids
      <3> QED
        BY <1>4, <2>4, <2>6, <3>2 DEF ParentPresent, Get
    <2>7. TxCreate(y)'
      <3>1. y.op = "create" => log'[y.id] = log[y.id] /\ (row[y.id] = Null => row'[y.id] = Null)
        BY <1>4, <1>6, <2>2, <2>3 DEF Apart
      <3> QED
        BY <1>3, <2>2, <2>5, <2>6, <3>1 DEF TxCreate, Holds, Changed, Shaped
    <2>8. TxUpdate(y)'
      BY <1>3, <1>4, <2>2, <2>4, <2>5 DEF TxUpdate, Holds, Changed, Shaped
    <2> QED
      BY <2>1, <2>7, <2>8 DEF TxCreate, TxUpdate, Holds, Changed, ParentPresent, NameFree, Shaped
  <1> QED
    BY <1>7, <1>8, <1>9, <1>10, <1>11

-----------------------------------------------------------------------------
(* Memberships, and the invariant                                          *)

(* A user who leaves is remembered: an assignee may have left.             *)
LEMMA MembershipKeeps ==
    ASSUME IndInv, NEW o \in Orgs, NEW u \in Users, Join(o, u) \/ Leave(o, u)
    PROVE  IndInv'
  <1> USE DEF IndInv
  <1>1. UNCHANGED <<row, log, tx>>
    BY DEF Join, Leave
  <1>2. TypeOK' /\ MemberInv'
    BY DEF Join, Leave, TypeOK, MemberInv
  <1>3. \A q \in Orgs : was[q] \subseteq was'[q]
    BY DEF Join, Leave, TypeOK
  <1>4. TenantIntegrity' /\ Announced'
    <2>1. \A i \in Ids : row[i] # Null => row[i].org \in Orgs
      BY DEF TypeOK, Row
    <2> QED
      BY <1>1, <1>3, <2>1 DEF TenantIntegrity, Announced, Get
  <1>5. TxInv'
    <2> SUFFICES ASSUME NEW v \in Connections, tx'[v] # Null
                 PROVE  TxCreate(tx[v])' /\ TxUpdate(tx[v])'
      BY DEF TxInv
    <2>1. TxCreate(tx[v]) /\ TxUpdate(tx[v]) /\ tx'[v] = tx[v]
      BY <1>1 DEF TxInv
    <2>2. tx[v].op \in {"create", "update"} => tx[v].new.org \in Orgs
      BY <2>1 DEF TxCreate, TxUpdate, Row
    <2> QED
      BY <1>1, <1>3, <2>1, <2>2
      DEF TxCreate, TxUpdate, Holds, Changed, ParentPresent, NameFree, Get, Shaped
  <1>6. TxApart'
    BY <1>1 DEF TxApart, Apart, Holds, Changed
  <1> QED
    BY <1>2, <1>4, <1>5, <1>6

(* A state that does not change keeps it.                                  *)
LEMMA StutterKeeps ==
    ASSUME IndInv, UNCHANGED vars
    PROVE  IndInv'
  <1> USE DEF IndInv, vars
  <1>1. TypeOK' /\ MemberInv' /\ TenantIntegrity' /\ Announced'
    BY DEF TypeOK, MemberInv, TenantIntegrity, Announced, Get
  <1>2. TxInv'
    BY DEF TxInv, TxCreate, TxUpdate, Holds, Changed, ParentPresent, NameFree, Get, Shaped
  <1>3. TxApart'
    BY DEF TxApart, Apart, Holds, Changed
  <1> QED
    BY <1>1, <1>2, <1>3

(* Every step keeps the invariant.                                         *)
LEMMA NextKeeps == IndInv /\ [Next]_vars => IndInv'
  <1> SUFFICES ASSUME IndInv, [Next]_vars PROVE IndInv'
    OBVIOUS
  <1>1. ASSUME NEW w \in Connections, Commit(w) PROVE IndInv'
    <2>1. tx[w].op \in {"create", "update", "delete"}
      BY <1>1 DEF Commit, IndInv, TypeOK, Tx
    <2> QED
      BY <1>1, <2>1, CreateCommitKeeps, UpdateCommitKeeps, DeleteCommitKeeps
  <1>2. CASE UNCHANGED vars
    BY <1>2, StutterKeeps
  <1> QED
    BY <1>1, <1>2, RequestKeeps, WriteKeeps, RollbackKeeps, MembershipKeeps DEF Next

(* The invariant holds in every reachable state.                           *)
LEMMA InvHolds == Spec => []IndInv
  BY InitInv, NextKeeps, PTL DEF Spec

-----------------------------------------------------------------------------
(* What the tables promise                                                 *)

(* Every variable keeps its type, and every row the kind of parent its     *)
(* table requires.                                                         *)
THEOREM TypeCorrect == Spec => []TypeOK
  <1>1. IndInv => TypeOK
    BY DEF IndInv
  <1> QED
    BY <1>1, InvHolds, PTL

(* Whatever is created, renamed and deleted at the same time, a parent     *)
(* exists in the organization of its child, an assignee has been a member  *)
(* and no two projects of an organization share a name.                    *)
THEOREM TenantsStayApart == Spec => []TenantIntegrity
  <1>1. IndInv => TenantIntegrity
    BY DEF IndInv
  <1> QED
    BY <1>1, InvHolds, PTL

(* The committed events agree with the committed rows.                     *)
THEOREM AlwaysAnnounced == Spec => []Announced
  <1>1. IndInv => Announced
    BY DEF IndInv
  <1> QED
    BY <1>1, InvHolds, PTL

(* A commit changes a column only if its own request changed it, although  *)
(* the row was read without a lock.                                        *)
THEOREM OtherColumnsKept == Spec => UntouchedColumnsKept
  <1> DEFINE Kept == \A i \in Ids : row[i] # Null /\ row'[i] # Null =>
                \A c \in DOMAIN row[i] : row'[i][c] # row[i][c] =>
                    \E w \in Connections : /\ tx[w] # Null /\ tx'[w] = Null /\ tx[w].id = i
                                           /\ tx[w].new[c] # tx[w].seen[c]
  <1>1. IndInv /\ [Next]_vars => [Kept]_vars
    <2> SUFFICES ASSUME IndInv, Next, NEW i \in Ids, row[i] # Null, row'[i] # Null,
                        NEW c \in DOMAIN row[i], row'[i][c] # row[i][c]
                 PROVE  \E w \in Connections : /\ tx[w] # Null /\ tx'[w] = Null
                                               /\ tx[w].id = i
                                               /\ tx[w].new[c] # tx[w].seen[c]
      OBVIOUS
    <2>1. PICK w \in Connections : Commit(w)
      <3>1. row' # row
        OBVIOUS
      <3>2. ASSUME NEW w \in Connections, Request(w) PROVE row' = row
        BY <3>2 DEF Request, CreateProject, UpdateProject, CreateTask, UpdateTask, DeleteTask,
                    CreateUpload, DeleteProject, Create, Begin
      <3>3. ASSUME NEW w \in Connections, Write(w) \/ Refused(w) \/ Abort(w)
            PROVE  row' = row
        BY <3>3 DEF Write, Refused, Abort
      <3>4. ASSUME NEW o \in Orgs, NEW u \in Users, Join(o, u) \/ Leave(o, u)
            PROVE  row' = row
        BY <3>4 DEF Join, Leave
      <3> QED
        BY <3>1, <3>2, <3>3, <3>4 DEF Next
    <2>2. PICK x \in Tx : x = tx[w]
      BY <2>1 DEF Commit, IndInv, TypeOK
    <2>3. tx[w] # Null /\ tx'[w] = Null /\ x.id \in Ids /\ TxCreate(x) /\ TxUpdate(x)
      BY <2>1, <2>2 DEF Commit, IndInv, TypeOK, TxInv, Tx
    <2>4. x.op # "create"
      <3> SUFFICES ASSUME x.op = "create" PROVE FALSE
        OBVIOUS
      <3>1. row' = [row EXCEPT ![x.id] = x.new] /\ row[x.id] = Null
        BY <2>1, <2>2, <2>3 DEF Commit, TxCreate
      <3> QED
        BY <3>1 DEF IndInv, TypeOK
    <2>5. x.op # "delete"
      <3> SUFFICES ASSUME x.op = "delete" PROVE FALSE
        OBVIOUS
      <3>1. row' = [j \in Ids |-> IF j \in Cascade(x.id) THEN Null ELSE row[j]]
        BY <2>1, <2>2 DEF Commit
      <3> QED
        BY <3>1
    <2>6. x.op = "update" /\ row' = [row EXCEPT ![x.id] = Flushed(x)]
      BY <2>1, <2>2, <2>4, <2>5 DEF Commit, Tx
    <2>7. i = x.id /\ row'[i] = Flushed(x)
      BY <2>3, <2>6 DEF IndInv, TypeOK
    <2>8. Changed(x)
      BY <2>7 DEF Flushed
    <2>9. row[i] \in Row /\ x.new \in Row
      BY <2>3, <2>6 DEF IndInv, TypeOK, TxUpdate
    <2>10. DOMAIN x.new = DOMAIN row[i]
      BY <2>9 DEF Row
    <2>11. row'[i][c] = IF x.new[c] = x.seen[c] THEN row[i][c] ELSE x.new[c]
      BY <2>7, <2>8, <2>10 DEF Flushed
    <2> QED
      BY <2>2, <2>3, <2>7, <2>11
  <1>2. [][Kept]_vars => UntouchedColumnsKept
    BY DEF UntouchedColumnsKept
  <1> QED
    BY <1>1, <1>2, InvHolds, PTL DEF Spec

=============================================================================
