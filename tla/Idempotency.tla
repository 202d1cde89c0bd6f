----------------------------- MODULE Idempotency -----------------------------
(***************************************************************************)
(* Requests that carry an Idempotency-Key, one database transaction per    *)
(* request, with the hourly clean-up transaction running beside them.      *)
(*                                                                         *)
(*   app/infra/idempotency_db.py      acquire_idempotency, complete_...    *)
(*   app/db/session.py                get_session: commit or roll back     *)
(*   app/modules/{organizations,billing}/router.py   the three users       *)
(*   app/workers/tasks.py             cleanup_expired_state_task           *)
(*                                                                         *)
(* A slot is a (scope, key) pair.  PostgreSQL runs at READ COMMITTED:      *)
(* INSERT ... ON CONFLICT DO NOTHING waits for an uncommitted insert or    *)
(* delete of the same slot, SELECT ... FOR UPDATE and DELETE wait for the  *)
(* row's lock.  "record" is the committed table, "draft" the row a running *)
(* request has inserted but not committed.                                 *)
(***************************************************************************)
EXTENDS Naturals, FiniteSets

CONSTANTS Calls,   \* requests, each handled once
          Slots,   \* (scope, key) pairs
          Hashes,  \* canonical_request_hash of a payload
          Null

VARIABLES record,    \* record[s]: the committed row of slot s, or Null
          expired,   \* slots whose committed row has expires_at < now
          draft,     \* draft[c]: the uncommitted row inserted by call c
          pc,        \* where call c is in its handler
          req,       \* req[c]: slot and hash of call c
          outcome,   \* outcome[c]: the response of call c
          resources, \* calls whose business effect is committed
          sweeping,  \* the clean-up transaction is open
          todo,      \* rows its DELETE has still to visit
          doomed,    \* rows it has deleted and not committed
          life,      \* life[s]: how often slot s has been cleaned (history)
          born       \* born[c]: life of its slot when c inserted (history)

tableVars == <<record, expired, resources, life>>
callVars == <<draft, pc, outcome, born>>
cleanVars == <<sweeping, todo, doomed>>
vars == <<record, expired, draft, pc, req, outcome, resources,
          sweeping, todo, doomed, life, born>>

-----------------------------------------------------------------------------
Requests == [slot : Slots, hash : Hashes]
Status == {"processing", "completed"}
Row == [hash : Hashes, status : Status, body : Calls \cup {Null}]
Phase == {"insert", "select", "body", "complete", "returned", "ended"}
Kind == {"none", "created", "replay", "key_reused", "in_progress", "error"}
Response == [kind : Kind, body : Calls \cup {Null}]

ASSUME NullAssumption == Null \notin Calls /\ Null \notin Row

Answer(k) == [kind |-> k, body |-> Null]

TypeOK ==
    /\ record \in [Slots -> Row \cup {Null}]
    /\ expired \in SUBSET Slots
    /\ draft \in [Calls -> Row \cup {Null}]
    /\ pc \in [Calls -> Phase]
    /\ req \in [Calls -> Requests]
    /\ outcome \in [Calls -> Response]
    /\ resources \in SUBSET Calls
    /\ sweeping \in BOOLEAN
    /\ todo \in SUBSET Slots
    /\ doomed \in SUBSET Slots
    /\ life \in [Slots -> Nat]
    /\ born \in [Calls -> Nat]

Init ==
    /\ record = [s \in Slots |-> Null]
    /\ expired = {}
    /\ draft = [c \in Calls |-> Null]
    /\ pc = [c \in Calls |-> "insert"]
    /\ req \in [Calls -> Requests]
    /\ outcome = [c \in Calls |-> Answer("none")]
    /\ resources = {}
    /\ sweeping = FALSE
    /\ todo = {}
    /\ doomed = {}
    /\ life = [s \in Slots |-> 0]
    /\ born = [c \in Calls |-> 0]

-----------------------------------------------------------------------------
(* Locks, derived from the open transactions.                              *)

(* An open transaction has inserted the row of slot s.                     *)
InsertPending(s) == \E c \in Calls : draft[c] # Null /\ req[c].slot = s

\* Faulty variant: .with_for_update() is missing.
NoRowLock(s) == FALSE

(* An open transaction holds the row lock of SELECT ... FOR UPDATE.        *)
RowLocked(s) ==
    \E c \in Calls : pc[c] = "returned" /\ draft[c] = Null /\ req[c].slot = s

\* Faulty variant: the failed request keeps its transaction open.
RollBackLeaks(c, r) ==
    /\ pc' = [pc EXCEPT ![c] = "ended"]
    /\ outcome' = [outcome EXCEPT ![c] = r]
    /\ UNCHANGED <<born, draft>>

(* The transaction of c ends without its writes; r is the response.        *)
RollBack(c, r) ==
    /\ pc' = [pc EXCEPT ![c] = "ended"]
    /\ draft' = [draft EXCEPT ![c] = Null]
    /\ outcome' = [outcome EXCEPT ![c] = r]
    /\ UNCHANGED born

-----------------------------------------------------------------------------
(* acquire_idempotency                                                     *)

NewRow(c) == [hash |-> req[c].hash, status |-> "processing", body |-> Null]

\* Faulty variant: no unique index on (scope, key).
InsertWithoutUniqueKey(c) ==
    /\ pc[c] = "insert"
    /\ ~InsertPending(req[c].slot)
    /\ draft' = [draft EXCEPT ![c] = NewRow(c)]
    /\ pc' = [pc EXCEPT ![c] = "body"]
    /\ born' = [born EXCEPT ![c] = life[req[c].slot]]
    /\ UNCHANGED <<outcome, req, tableVars, cleanVars>>

(* INSERT ... ON CONFLICT DO NOTHING RETURNING id returned an id.          *)
InsertWins(c) ==
    /\ pc[c] = "insert"
    /\ record[req[c].slot] = Null
    /\ ~InsertPending(req[c].slot)
    /\ draft' = [draft EXCEPT ![c] = NewRow(c)]
    /\ pc' = [pc EXCEPT ![c] = "body"]
    /\ born' = [born EXCEPT ![c] = life[req[c].slot]]
    /\ UNCHANGED <<outcome, req, tableVars, cleanVars>>

(* ... or found a committed row that nobody is deleting.                   *)
InsertConflicts(c) ==
    /\ pc[c] = "insert"
    /\ record[req[c].slot] # Null
    /\ req[c].slot \notin doomed
    /\ pc' = [pc EXCEPT ![c] = "select"]
    /\ UNCHANGED <<draft, outcome, born, req, tableVars, cleanVars>>

(* SELECT ... FOR UPDATE waits for the row's lock or its deletion.         *)
SelectReady(c) ==
    /\ pc[c] = "select"
    /\ \/ record[req[c].slot] = Null
       \/ req[c].slot \notin doomed /\ ~RowLocked(req[c].slot)

\* Faulty variant: request_hash is not compared.
ReplaysAnyHash(c) ==
    LET row == record[req[c].slot] IN
    /\ row # Null
    /\ row.status = "completed"
    /\ row.body # Null

(* The stored row is a completed answer to an equal request.               *)
Replays(c) ==
    LET row == record[req[c].slot] IN
    /\ row # Null
    /\ row.hash = req[c].hash
    /\ row.status = "completed"
    /\ row.body # Null

(* The row disappeared, carries another hash, or is still "processing":    *)
(* the handler raises and the transaction rolls back.                      *)
SelectRaises(c) ==
    LET row == record[req[c].slot] IN
    /\ SelectReady(c)
    /\ ~Replays(c)
    /\ RollBack(c, IF row = Null THEN Answer("error")
                   ELSE IF row.hash # req[c].hash THEN Answer("key_reused")
                   ELSE Answer("in_progress"))
    /\ UNCHANGED <<req, tableVars, cleanVars>>

(* A completed row: the handler returns the stored response.               *)
SelectReplays(c) ==
    /\ SelectReady(c)
    /\ Replays(c)
    /\ outcome' = [outcome EXCEPT
                     ![c] = [kind |-> "replay", body |-> record[req[c].slot].body]]
    /\ pc' = [pc EXCEPT ![c] = "returned"]
    /\ UNCHANGED <<draft, born, req, tableVars, cleanVars>>

-----------------------------------------------------------------------------
(* The handler's own work: create_organization, invite_member or           *)
(* create_billing_checkout, then complete_idempotency.                     *)

BodySucceeds(c) ==
    /\ pc[c] = "body"
    /\ pc' = [pc EXCEPT ![c] = "complete"]
    /\ UNCHANGED <<draft, outcome, born, req, tableVars, cleanVars>>

(* The slug exists, the broker or Stripe is unavailable, ...               *)
BodyFails(c) ==
    /\ pc[c] = "body"
    /\ RollBack(c, Answer("error"))
    /\ UNCHANGED <<req, tableVars, cleanVars>>

\* Faulty variant: the wrong status is stored.
CompleteAsFailed(c) ==
    /\ pc[c] = "complete"
    /\ draft' = [draft EXCEPT
                   ![c] = [hash |-> draft[c].hash, status |-> "failed", body |-> c]]
    /\ outcome' = [outcome EXCEPT ![c] = [kind |-> "created", body |-> c]]
    /\ pc' = [pc EXCEPT ![c] = "returned"]
    /\ UNCHANGED <<born, req, tableVars, cleanVars>>

(* complete_idempotency stores the response in the uncommitted row.        *)
Complete(c) ==
    /\ pc[c] = "complete"
    /\ draft' = [draft EXCEPT
                   ![c] = [hash |-> draft[c].hash, status |-> "completed", body |-> c]]
    /\ outcome' = [outcome EXCEPT ![c] = [kind |-> "created", body |-> c]]
    /\ pc' = [pc EXCEPT ![c] = "returned"]
    /\ UNCHANGED <<born, req, tableVars, cleanVars>>

-----------------------------------------------------------------------------
(* get_session: leaving the request's only transaction                     *)

\* Faulty variant: marker and effect in separate transactions.
CommitRecordOnly(c) ==
    /\ pc[c] = "returned"
    /\ record' = IF draft[c] = Null THEN record
                 ELSE [record EXCEPT ![req[c].slot] = draft[c]]
    /\ draft' = [draft EXCEPT ![c] = Null]
    /\ pc' = [pc EXCEPT ![c] = "ended"]
    /\ UNCHANGED <<outcome, born, req, expired, resources, life, cleanVars>>

(* The row and the business effect become visible together.                *)
Commit(c) ==
    /\ pc[c] = "returned"
    /\ record' = IF draft[c] = Null THEN record
                 ELSE [record EXCEPT ![req[c].slot] = draft[c]]
    /\ resources' = IF draft[c] = Null THEN resources ELSE resources \cup {c}
    /\ draft' = [draft EXCEPT ![c] = Null]
    /\ pc' = [pc EXCEPT ![c] = "ended"]
    /\ UNCHANGED <<outcome, born, req, expired, life, cleanVars>>

(* The process or the connection dies, or COMMIT fails.  The response of a *)
(* handler that had returned may already be with the client.               *)
Abort(c) ==
    /\ pc[c] # "ended"
    /\ \E r \in {Answer("error")} \cup
               (IF pc[c] = "returned" THEN {outcome[c]} ELSE {}) : RollBack(c, r)
    /\ UNCHANGED <<req, tableVars, cleanVars>>

-----------------------------------------------------------------------------
(* Time, and cleanup_expired_state_task                                    *)

(* 24 hours have passed since the committed row of s was inserted.         *)
Expire(s) ==
    /\ record[s] # Null
    /\ expired' = expired \cup {s}
    /\ UNCHANGED <<record, resources, life, req, callVars, cleanVars>>

(* DELETE ... WHERE expires_at < now takes its snapshot.                   *)
CleanupStart ==
    /\ ~sweeping
    /\ sweeping' = TRUE
    /\ todo' = expired
    /\ UNCHANGED <<doomed, req, tableVars, callVars>>

CleanupDelete(s) ==
    /\ sweeping
    /\ s \in todo
    /\ ~RowLocked(s)
    /\ todo' = todo \ {s}
    /\ doomed' = doomed \cup {s}
    /\ UNCHANGED <<sweeping, req, tableVars, callVars>>

CleanupEnds ==
    /\ sweeping' = FALSE
    /\ todo' = {}
    /\ doomed' = {}

CleanupCommit ==
    /\ sweeping
    /\ todo = {}
    /\ record' = [s \in Slots |-> IF s \in doomed THEN Null ELSE record[s]]
    /\ expired' = expired \ doomed
    /\ life' = [s \in Slots |-> IF s \in doomed THEN life[s] + 1 ELSE life[s]]
    /\ CleanupEnds
    /\ UNCHANGED <<resources, req, callVars>>

(* The worker dies or a later statement of the task fails.                 *)
CleanupAbort ==
    /\ sweeping
    /\ CleanupEnds
    /\ UNCHANGED <<req, tableVars, callVars>>

-----------------------------------------------------------------------------
Step(c) == \/ InsertWins(c) \/ InsertConflicts(c)
           \/ SelectRaises(c) \/ SelectReplays(c)
           \/ BodySucceeds(c) \/ BodyFails(c) \/ Complete(c) \/ Commit(c)

CleanupStep == \/ \E s \in Slots : CleanupDelete(s)
               \/ CleanupCommit
               \/ CleanupAbort

Next == \/ \E c \in Calls : Step(c) \/ Abort(c)
        \/ \E s \in Slots : Expire(s)
        \/ CleanupStart
        \/ CleanupStep

Spec == Init /\ [][Next]_vars

(* A statement waiting for a lock is granted it in turn (strong fairness); *)
(* everything else that can run eventually does.                           *)
Fairness == /\ \A c \in Calls : SF_vars(Step(c))
            /\ WF_vars(CleanupStep)

FairSpec == Spec /\ Fairness

-----------------------------------------------------------------------------
(* Properties                                                              *)

(* A committed row is complete, belongs to a call with an equal request,   *)
(* and that call's effect is committed too: marker and effect share one    *)
(* transaction, so no crash leaves a key wedged in "processing" and        *)
(* IDEMPOTENCY_IN_PROGRESS is never answered.                              *)
RecordHasResource ==
    \A s \in Slots : record[s] # Null =>
        /\ record[s].status = "completed"
        /\ record[s].body \in resources
        /\ req[record[s].body] = [slot |-> s, hash |-> record[s].hash]

(* Two committed effects under one slot are separated by a clean-up of the *)
(* expired row: concurrent or later retries never repeat the work.         *)
OneResourcePerLife ==
    \A c, d \in resources :
        c # d /\ req[c].slot = req[d].slot => born[c] # born[d]

(* A replayed response is the stored response of an equal request whose    *)
(* effect is committed, even if the row has been cleaned since.            *)
ReplayFaithful ==
    \A c \in Calls : outcome[c].kind = "replay" =>
        /\ outcome[c].body \in resources
        /\ req[outcome[c].body] = req[c]

(* Every request gets its answer: no wait for an insert, a row lock or the *)
(* clean-up lasts for ever.                                                *)
EveryCallEnds == \A c \in Calls : <>(pc[c] = "ended")

(* The transactions implement the abstract store.  A slot remembers the    *)
(* call whose response its committed row stores; a call is answered when   *)
(* its transaction ends.                                                   *)
Abstract == INSTANCE IdempotentStore WITH
    asked <- req,
    holder <- [s \in Slots |-> IF record[s] = Null THEN Null ELSE record[s].body],
    effects <- resources,
    answer <- [c \in Calls |-> IF pc[c] = "ended" THEN outcome[c] ELSE Answer("none")]

Implements == Abstract!Spec
=============================================================================
