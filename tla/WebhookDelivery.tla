--------------------------- MODULE WebhookDelivery ---------------------------
(***************************************************************************)
(* Outbound webhooks: one request emits an event as delivery rows and      *)
(* Celery jobs, workers run the jobs, an administrator may retry a         *)
(* delivery or deactivate its endpoint.                                    *)
(*                                                                         *)
(*   app/modules/webhooks/events.py   emit_event                           *)
(*   app/workers/tasks.py             deliver_webhook_task                 *)
(*   app/modules/webhooks/router.py   retry_delivery, deactivate_webhook   *)
(*   app/workers/celery_app.py        acks_late, reject_on_worker_lost     *)
(*                                                                         *)
(* A job runs in three steps: a transaction that locks the row and counts  *)
(* the attempt, the POST with no lock held, a transaction that records the *)
(* result.  The second one works on the ORM object of the first: the       *)
(* session does not expire it on commit and session.get(...,               *)
(* with_for_update=True) locks the row without refreshing an object that   *)
(* is already loaded.  So the result is decided on the attempt_count read  *)
(* by the first transaction, and "state" is written only when it differs   *)
(* from the state read there ("count" and "seen" below).                   *)
(*                                                                         *)
(* A delivery has an endpoint of its own; an event goes to each subscribed *)
(* endpoint once.                                                          *)
(***************************************************************************)
EXTENDS Naturals, FiniteSets

CONSTANTS Deliveries,   \* the rows of one event, one per endpoint
          Jobs,         \* Celery messages that may be published
          Null,
          MaxRetries,   \* max_retries of deliver_webhook_task
          AttemptLimit, \* "attempt_count >= 5"
          MaxInvisible, \* bound: runs of a job before its row is committed
          MaxCrashes,   \* bound: worker losses
          MaxFaults     \* bound: runs ended by an unexpected exception

State == {"pending", "retrying", "delivered", "dead"}
Row == [state : State, attempts : Nat]
Phases == {"unused", "queued", "posting", "accepted", "refused",
           "done", "failed"}

ASSUME ConstantsAssumption ==
    /\ Null \notin Deliveries \cup Row
    /\ MaxRetries \in Nat /\ AttemptLimit \in Nat \ {0}
    /\ MaxInvisible \in Nat /\ MaxCrashes \in Nat /\ MaxFaults \in Nat

VARIABLES row,       \* row[d]: committed delivery, or Null
          emit,      \* the request that emits the event
          active,    \* endpoints that are active, by delivery
          resending, \* deliveries locked by a retry_delivery transaction
          phase,     \* phase[j]: where job j is
          of,        \* of[j]: the delivery of job j
          retries,   \* self.request.retries
          seen,      \* state read by the job's first transaction
          count,     \* attempt_count written by it
          early,     \* early[j]: runs that found no row while it was uncommitted
          posts,     \* posts[d]: POST requests sent (history)
          rejected,  \* deliveries whose target failed validation (history)
          crashes, faults

jobVars == <<phase, of, retries, seen, count, early>>
histVars == <<posts, rejected>>
vars == <<row, emit, active, resending, phase, of, retries, seen, count,
          early, posts, rejected, crashes, faults>>

TypeOK ==
    /\ row \in [Deliveries -> Row \cup {Null}]
    /\ emit \in {"open", "committed", "aborted"}
    /\ active \in SUBSET Deliveries
    /\ resending \in SUBSET Deliveries
    /\ phase \in [Jobs -> Phases]
    /\ of \in [Jobs -> Deliveries \cup {Null}]
    /\ retries \in [Jobs -> 0 .. MaxRetries]
    /\ seen \in [Jobs -> {"pending", "retrying"}]
    /\ count \in [Jobs -> Nat]
    /\ early \in [Jobs -> 0 .. MaxInvisible]
    /\ posts \in [Deliveries -> Nat]
    /\ rejected \in SUBSET Deliveries
    /\ crashes \in 0 .. MaxCrashes
    /\ faults \in 0 .. MaxFaults

Init ==
    /\ row = [d \in Deliveries |-> Null]
    /\ emit = "open"
    /\ active = Deliveries
    /\ resending = {}
    /\ phase = [j \in Jobs |-> "unused"]
    /\ of = [j \in Jobs |-> Null]
    /\ retries = [j \in Jobs |-> 0]
    /\ seen = [j \in Jobs |-> "pending"]
    /\ count = [j \in Jobs |-> 0]
    /\ early = [j \in Jobs |-> 0]
    /\ posts = [d \in Deliveries |-> 0]
    /\ rejected = {}
    /\ crashes = 0
    /\ faults = 0

-----------------------------------------------------------------------------
(* The broker                                                              *)

Publish(j, d) ==
    /\ phase[j] = "unused"
    /\ phase' = [phase EXCEPT ![j] = "queued"]
    /\ of' = [of EXCEPT ![j] = d]
    /\ UNCHANGED <<retries, seen, count, early>>

Ends(j, p) ==
    /\ phase' = [phase EXCEPT ![j] = p]
    /\ UNCHANGED <<of, retries, seen, count>>

\* Faulty variant: the retry limit is off by one.
RetryOnceMore(j) ==
    /\ IF retries[j] <= MaxRetries
       THEN /\ retries' = [retries EXCEPT ![j] = @ + 1]
            /\ phase' = [phase EXCEPT ![j] = "queued"]
       ELSE /\ phase' = [phase EXCEPT ![j] = "failed"]
            /\ UNCHANGED retries
    /\ UNCHANGED <<of, seen, count>>

\* Faulty variant: max_retries=None.
RetryForever(j) ==
    /\ phase' = [phase EXCEPT ![j] = "queued"]
    /\ UNCHANGED <<of, retries, seen, count>>

(* self.retry(...): publish the message again, or give up by raising.      *)
Retry(j) ==
    /\ IF retries[j] < MaxRetries
       THEN /\ retries' = [retries EXCEPT ![j] = @ + 1]
            /\ phase' = [phase EXCEPT ![j] = "queued"]
       ELSE /\ phase' = [phase EXCEPT ![j] = "failed"]
            /\ UNCHANGED retries
    /\ UNCHANGED <<of, seen, count>>

-----------------------------------------------------------------------------
(* emit_event and the request around it                                    *)

(* The rows are inserted but not committed; one job per row is published.  *)
EmitPublish(d, j) ==
    /\ emit = "open"
    /\ \A k \in Jobs : of[k] # d
    /\ Publish(j, d)
    /\ UNCHANGED <<row, emit, active, resending, histVars, crashes, faults>>

EmitCommit ==
    /\ emit = "open"
    /\ \A d \in Deliveries : \E k \in Jobs : of[k] = d
    /\ emit' = "committed"
    /\ row' = [d \in Deliveries |-> [state |-> "pending", attempts |-> 0]]
    /\ UNCHANGED <<active, resending, jobVars, histVars, crashes, faults>>

(* The broker refuses a job, the request fails later, or the API dies.     *)
EmitAbort ==
    /\ emit = "open"
    /\ emit' = "aborted"
    /\ UNCHANGED <<row, active, resending, jobVars, histVars, crashes, faults>>

-----------------------------------------------------------------------------
(* deliver_webhook_task, first transaction                                 *)

Unlocked(d) == d \notin resending

(* No row: RuntimeError, a retry.  Before the emitting request ends this   *)
(* happens at most MaxInvisible times per job.                             *)
LoadInvisible(j) ==
    /\ phase[j] = "queued"
    /\ row[of[j]] = Null
    /\ emit = "open" => early[j] < MaxInvisible
    /\ early' = IF emit = "open" THEN [early EXCEPT ![j] = @ + 1] ELSE early
    /\ Retry(j)
    /\ UNCHANGED <<row, emit, active, resending, histVars, crashes, faults>>

(* Already delivered or dead: "skipped".                                   *)
LoadSettled(j) ==
    /\ phase[j] = "queued"
    /\ row[of[j]] # Null
    /\ Unlocked(of[j])
    /\ row[of[j]].state \in {"delivered", "dead"}
    /\ Ends(j, "done")
    /\ UNCHANGED <<row, emit, active, resending, early, histVars, crashes, faults>>

(* The row is committed, unlocked and neither delivered nor dead.          *)
Loadable(j) ==
    /\ phase[j] = "queued"
    /\ row[of[j]] # Null
    /\ Unlocked(of[j])
    /\ row[of[j]].state \notin {"delivered", "dead"}

(* The endpoint is inactive.                                               *)
LoadInactive(j) ==
    /\ Loadable(j)
    /\ of[j] \notin active
    /\ row' = [row EXCEPT ![of[j]].state = "dead"]
    /\ Ends(j, "done")
    /\ UNCHANGED <<emit, active, resending, early, histVars, crashes, faults>>

(* validate_webhook_target raised ValueError (DNS failures included).      *)
LoadRejected(j) ==
    /\ Loadable(j)
    /\ of[j] \in active
    /\ row' = [row EXCEPT ![of[j]].state = "dead"]
    /\ rejected' = rejected \cup {of[j]}
    /\ Ends(j, "done")
    /\ UNCHANGED <<emit, active, resending, early, posts, crashes, faults>>

\* Faulty variant: the attempt is not committed before the POST.
LoadUncounted(j) ==
    /\ Loadable(j)
    /\ of[j] \in active
    /\ seen' = [seen EXCEPT ![j] = row[of[j]].state]
    /\ count' = [count EXCEPT ![j] = row[of[j]].attempts + 1]
    /\ phase' = [phase EXCEPT ![j] = "posting"]
    /\ UNCHANGED <<row, emit, active, resending, of, retries, early, histVars,
                   crashes, faults>>

(* attempt_count += 1, committed; the lock is released.                    *)
Load(j) ==
    /\ Loadable(j)
    /\ of[j] \in active
    /\ row' = [row EXCEPT ![of[j]].attempts = @ + 1]
    /\ seen' = [seen EXCEPT ![j] = row[of[j]].state]
    /\ count' = [count EXCEPT ![j] = row[of[j]].attempts + 1]
    /\ phase' = [phase EXCEPT ![j] = "posting"]
    /\ UNCHANGED <<emit, active, resending, of, retries, early, histVars,
                   crashes, faults>>

-----------------------------------------------------------------------------
(* The POST, and the second transaction                                    *)

(* A 2xx response, or httpx.HTTPError.                                     *)
Post(j) ==
    /\ phase[j] = "posting"
    /\ posts' = [posts EXCEPT ![of[j]] = @ + 1]
    /\ \E p \in {"accepted", "refused"} : phase' = [phase EXCEPT ![j] = p]
    /\ UNCHANGED <<row, emit, active, resending, of, retries, seen, count,
                   early, rejected, crashes, faults>>

SettleDelivered(j) ==
    /\ phase[j] = "accepted"
    /\ Unlocked(of[j])
    /\ row' = [row EXCEPT ![of[j]].state = "delivered"]
    /\ Ends(j, "done")
    /\ UNCHANGED <<emit, active, resending, early, histVars, crashes, faults>>

\* Faulty variant: the limit is off by one.
SettleDeadEarly(j) ==
    /\ phase[j] = "refused"
    /\ Unlocked(of[j])
    /\ count[j] + 1 >= AttemptLimit
    /\ row' = [row EXCEPT ![of[j]].state = "dead"]
    /\ Ends(j, "done")
    /\ UNCHANGED <<emit, active, resending, early, histVars, crashes, faults>>

\* Faulty variant: a dead delivery is retried all the same.
SettleDeadRetries(j) ==
    /\ phase[j] = "refused"
    /\ Unlocked(of[j])
    /\ count[j] >= AttemptLimit
    /\ Retry(j)
    /\ UNCHANGED <<row, emit, active, resending, early, histVars, crashes, faults>>

(* The limit is reached: dead, and the job ends.                           *)
SettleDead(j) ==
    /\ phase[j] = "refused"
    /\ Unlocked(of[j])
    /\ count[j] >= AttemptLimit
    /\ row' = [row EXCEPT ![of[j]].state = "dead"]
    /\ Ends(j, "done")
    /\ UNCHANGED <<emit, active, resending, early, histVars, crashes, faults>>

\* Faulty variant: the failure is recorded but not re-raised.
SettleSwallowed(j) ==
    /\ phase[j] = "refused"
    /\ Unlocked(of[j])
    /\ count[j] < AttemptLimit
    /\ row' = IF seen[j] = "retrying" THEN row
              ELSE [row EXCEPT ![of[j]].state = "retrying"]
    /\ Ends(j, "done")
    /\ UNCHANGED <<emit, active, resending, early, histVars, crashes, faults>>

(* Otherwise "retrying"; no UPDATE of the column if it was read as that.   *)
SettleRetrying(j) ==
    /\ phase[j] = "refused"
    /\ Unlocked(of[j])
    /\ count[j] < AttemptLimit
    /\ row' = IF seen[j] = "retrying" THEN row
              ELSE [row EXCEPT ![of[j]].state = "retrying"]
    /\ Retry(j)
    /\ UNCHANGED <<emit, active, resending, early, histVars, crashes, faults>>

(* The worker is lost before it acknowledges the message, the last commit  *)
(* of a finished run included: the message is delivered again.             *)
Crash(j) ==
    /\ phase[j] \in {"posting", "accepted", "refused", "done", "failed"}
    /\ crashes < MaxCrashes
    /\ crashes' = crashes + 1
    /\ phase' = [phase EXCEPT ![j] = "queued"]
    /\ UNCHANGED <<row, emit, active, resending, of, retries, seen, count,
                   early, histVars, faults>>

(* The worker is lost between publishing the retry and acknowledging the   *)
(* message it replaces: both are delivered.                                *)
Duplicate(j, k) ==
    /\ phase[j] = "queued"
    /\ retries[j] > 0
    /\ phase[k] = "unused"
    /\ crashes < MaxCrashes
    /\ crashes' = crashes + 1
    /\ phase' = [phase EXCEPT ![k] = "queued"]
    /\ of' = [of EXCEPT ![k] = of[j]]
    /\ retries' = [retries EXCEPT ![k] = retries[j] - 1]
    /\ early' = [early EXCEPT ![k] = early[j]]
    /\ UNCHANGED <<row, emit, active, resending, seen, count, histVars, faults>>

(* An exception ends the run between two of its steps; an open transaction *)
(* is rolled back.                                                         *)
Raises(j) ==
    /\ phase[j] \in {"queued", "posting", "accepted", "refused"}
    /\ faults < MaxFaults
    /\ faults' = faults + 1
    /\ UNCHANGED <<row, emit, active, resending, early, histVars, crashes>>

(* SQLAlchemyError, OSError, InvalidToken, ...: the job is lost.           *)
Fault(j) == Raises(j) /\ Ends(j, "failed")

(* RuntimeError (a closed event loop, ...): the job is retried.            *)
FaultRetried(j) == Raises(j) /\ Retry(j)

-----------------------------------------------------------------------------
(* The administrator                                                       *)

(* retry_delivery: locks the row, publishes a job, returns.                *)
RetryDelivery(d, j) ==
    /\ row[d] # Null
    /\ Unlocked(d)
    /\ d \in active
    /\ row[d].state # "delivered"
    /\ Publish(j, d)
    /\ resending' = resending \cup {d}
    /\ UNCHANGED <<row, emit, active, histVars, crashes, faults>>

RetryCommit(d) ==
    /\ d \in resending
    /\ row' = [row EXCEPT ![d].state = "retrying"]
    /\ resending' = resending \ {d}
    /\ UNCHANGED <<emit, active, jobVars, histVars, crashes, faults>>

RetryAbort(d) ==
    /\ d \in resending
    /\ resending' = resending \ {d}
    /\ UNCHANGED <<row, emit, active, jobVars, histVars, crashes, faults>>

(* deactivate_webhook waits for retry_delivery's lock on the endpoint.     *)
DeactivateWebhook(d) ==
    /\ d \in active
    /\ Unlocked(d)
    /\ active' = active \ {d}
    /\ UNCHANGED <<row, emit, resending, jobVars, histVars, crashes, faults>>

-----------------------------------------------------------------------------
JobStep(j) == \/ LoadInvisible(j) \/ LoadSettled(j) \/ LoadInactive(j)
              \/ LoadRejected(j) \/ Load(j) \/ Post(j)
              \/ SettleDelivered(j) \/ SettleDead(j) \/ SettleRetrying(j)

EmitStep == (\E d \in Deliveries, j \in Jobs : EmitPublish(d, j)) \/ EmitCommit

RetryEnds(d) == RetryCommit(d) \/ RetryAbort(d)

Next == \/ EmitStep \/ EmitAbort
        \/ \E j \in Jobs : JobStep(j) \/ Crash(j) \/ Fault(j) \/ FaultRetried(j)
        \/ \E j, k \in Jobs : Duplicate(j, k)
        \/ \E d \in Deliveries : RetryEnds(d) \/ DeactivateWebhook(d)
        \/ \E d \in Deliveries, j \in Jobs : RetryDelivery(d, j)

Spec == Init /\ [][Next]_vars

(* Requests end and workers keep consuming; nobody has to press "retry".   *)
Fairness == /\ WF_vars(EmitStep)
            /\ \A j \in Jobs : WF_vars(JobStep(j))
            /\ \A d \in Deliveries : WF_vars(RetryEnds(d))

FairSpec == Spec /\ Fairness

-----------------------------------------------------------------------------
(* Properties                                                              *)

JobsOf(d) == {j \in Jobs : of[j] = d}

(* Every POST was preceded by a committed increment of attempt_count, so   *)
(* none is sent for a rolled-back event and concurrent jobs lose no count, *)
(* whatever crashes.                                                       *)
PostsCounted ==
    \A d \in Deliveries :
        posts[d] <= IF row[d] = Null THEN 0 ELSE row[d].attempts

(* A dead delivery has used up its attempts, or its endpoint is inactive   *)
(* or was rejected: no interleaving kills a delivery too soon.             *)
DeadIsJustified ==
    \A d \in Deliveries : row[d] # Null /\ row[d].state = "dead" =>
        \/ row[d].attempts >= AttemptLimit
        \/ d \notin active
        \/ d \in rejected

(* Attempts stay bounded: each job makes at most one attempt at or past    *)
(* the limit; only a lost worker or a run that raised adds another.        *)
AttemptsBounded ==
    \A d \in Deliveries : row[d] # Null =>
        row[d].attempts <= AttemptLimit - 1 + Cardinality(JobsOf(d)) + crashes + faults

(* "Delivered webhooks are not retried" (retry_delivery): the state never  *)
(* leaves "delivered".                                                     *)
DeliveredIsFinal ==
    [][\A d \in Deliveries :
          row[d] # Null /\ row[d].state = "delivered"
             => row'[d].state = "delivered"]_vars

(* Every committed delivery settles for good as delivered or dead (README, *)
(* "Outbound webhooks": retries finish in a dead state after the limit).   *)
EventuallySettled ==
    \A d \in Deliveries :
        <>[](row[d] = Null \/ row[d].state \in {"delivered", "dead"})

(* Every published job ends, the orphans of a rolled-back request included *)
(* (ADR 0005).                                                             *)
EveryJobEnds ==
    \A j \in Jobs : phase[j] = "queued" ~> phase[j] \in {"done", "failed"}
=============================================================================
