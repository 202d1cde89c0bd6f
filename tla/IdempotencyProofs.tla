-------------------------- MODULE IdempotencyProofs --------------------------
(***************************************************************************)
(* For any number of requests, slots and payloads: the type invariant, the *)
(* three safety invariants of Idempotency, and that Idempotency implements *)
(* IdempotentStore.                                                        *)
(*                                                                         *)
(* None of the invariants is inductive.  What carries them is what the     *)
(* locks guarantee: an uncommitted insert excludes every other row of its  *)
(* slot, a row lock excludes its deletion, and an effect is older than the *)
(* current life of its slot unless the slot's row is its own.              *)
(***************************************************************************)
EXTENDS Idempotency, TLAPS

(* An uncommitted row: whose it is and what it holds.                      *)
DraftInv ==
    \A c \in Calls : draft[c] # Null =>
        /\ pc[c] \in {"body", "complete", "returned"}
        /\ draft[c].hash = req[c].hash
        /\ record[req[c].slot] = Null
        /\ born[c] = life[req[c].slot]
        /\ pc[c] = "returned" =>
              /\ draft[c].status = "completed"
              /\ draft[c].body = c
              /\ outcome[c] = [kind |-> "created", body |-> c]

(* At most one open transaction has inserted into a slot.                  *)
DraftsApart ==
    \A c, d \in Calls :
        draft[c] # Null /\ draft[d] # Null /\ req[c].slot = req[d].slot => c = d

(* What a call knows at each point of its handler.                         *)
PhaseInv ==
    \A c \in Calls :
        /\ pc[c] \in {"body", "complete"} => draft[c] # Null
        /\ pc[c] \notin {"returned", "ended"} => outcome[c] = Answer("none")
        /\ c \in resources => pc[c] = "ended"
        /\ pc[c] = "returned" /\ draft[c] = Null =>
              /\ record[req[c].slot] # Null
              /\ req[c].slot \notin doomed
              /\ outcome[c] = [kind |-> "replay",
                               body |-> record[req[c].slot].body]
              /\ record[req[c].slot].hash = req[c].hash

(* The clean-up only holds committed rows.                                 *)
CleanupInv ==
    /\ \A s \in expired \cup todo \cup doomed : record[s] # Null
    /\ ~sweeping => todo = {} /\ doomed = {}

(* An effect belongs to an earlier life of its slot, or to the present row.*)
AgeInv ==
    \A c \in resources :
        /\ born[c] <= life[req[c].slot]
        /\ record[req[c].slot] = Null \/ record[req[c].slot].body # c
              => born[c] < life[req[c].slot]

IndInv ==
    /\ TypeOK
    /\ DraftInv
    /\ DraftsApart
    /\ PhaseInv
    /\ CleanupInv
    /\ AgeInv
    /\ RecordHasResource
    /\ OneResourcePerLife
    /\ ReplayFaithful

-----------------------------------------------------------------------------
(* The initial states                                                      *)

(* Nothing is recorded, drafted or deleted at the start.                   *)
LEMMA InitInv == Init => IndInv
  <1> SUFFICES ASSUME Init PROVE IndInv
    OBVIOUS
  <1>1. TypeOK
    <2>1. outcome \in [Calls -> Response]
      BY DEF Init, Answer, Response, Kind
    <2> QED
      BY <2>1 DEF Init, TypeOK, Phase
  <1>2. DraftInv /\ DraftsApart /\ CleanupInv
    BY DEF Init, DraftInv, DraftsApart, CleanupInv
  <1>3. PhaseInv /\ ReplayFaithful
    BY DEF Init, PhaseInv, ReplayFaithful, Answer
  <1>4. AgeInv /\ RecordHasResource /\ OneResourcePerLife
    BY DEF Init, AgeInv, RecordHasResource, OneResourcePerLife
  <1> QED
    BY <1>1, <1>2, <1>3, <1>4 DEF IndInv

-----------------------------------------------------------------------------
(* One lemma per action                                                    *)

(* The winner of the insert becomes the only writer of its slot.           *)
LEMMA InsertWinsKeeps ==
    ASSUME IndInv, NEW c \in Calls, InsertWins(c)
    PROVE  IndInv'
  <1> USE NullAssumption DEF IndInv, TypeOK, Requests, Row, Status, Phase, Kind, Response, Answer,
              tableVars, callVars, cleanVars, InsertWins, InsertPending, NewRow
  <1>1. TypeOK'
    OBVIOUS
  <1>2. DraftInv'
    BY DEF DraftInv, PhaseInv
  <1>3. DraftsApart'
    BY DEF DraftsApart
  <1>4. PhaseInv'
    BY DEF PhaseInv, DraftInv
  <1>5. AgeInv' /\ OneResourcePerLife'
    BY DEF AgeInv, OneResourcePerLife, PhaseInv
  <1>6. CleanupInv' /\ RecordHasResource' /\ ReplayFaithful'
    BY DEF CleanupInv, RecordHasResource, ReplayFaithful
  <1> QED
    BY <1>1, <1>2, <1>3, <1>4, <1>5, <1>6 DEF IndInv

(* A conflict only moves the request on to its SELECT.                     *)
LEMMA InsertConflictsKeeps ==
    ASSUME IndInv, NEW c \in Calls, InsertConflicts(c)
    PROVE  IndInv'
  <1> USE NullAssumption DEF IndInv, TypeOK, Requests, Row, Status, Phase, Kind, Response, Answer,
              tableVars, callVars, cleanVars, InsertConflicts
  <1>1. TypeOK'
    OBVIOUS
  <1>2. DraftInv'
    BY DEF DraftInv
  <1>3. PhaseInv'
    BY DEF PhaseInv
  <1>4. DraftsApart' /\ CleanupInv' /\ AgeInv' /\ RecordHasResource' /\ OneResourcePerLife' /\ ReplayFaithful'
    BY DEF DraftsApart, CleanupInv, AgeInv, RecordHasResource, OneResourcePerLife, ReplayFaithful
  <1> QED
    BY <1>1, <1>2, <1>3, <1>4 DEF IndInv

(* A request that raises has written nothing.                              *)
LEMMA SelectRaisesKeeps ==
    ASSUME IndInv, NEW c \in Calls, SelectRaises(c)
    PROVE  IndInv'
  <1> USE NullAssumption DEF IndInv, TypeOK, Requests, Row, Status, Phase, Kind, Response, Answer,
              tableVars, callVars, cleanVars, SelectRaises, RollBack, SelectReady
  <1>1. TypeOK'
    OBVIOUS
  <1>2. DraftInv'
    BY DEF DraftInv
  <1>3. DraftsApart'
    BY DEF DraftsApart
  <1>4. PhaseInv'
    BY DEF PhaseInv
  <1>5. ReplayFaithful'
    BY DEF ReplayFaithful
  <1>6. CleanupInv' /\ AgeInv' /\ RecordHasResource' /\ OneResourcePerLife'
    BY DEF CleanupInv, AgeInv, RecordHasResource, OneResourcePerLife
  <1> QED
    BY <1>1, <1>2, <1>3, <1>4, <1>5, <1>6 DEF IndInv

(* A replay holds the row lock and repeats what the row stores.            *)
LEMMA SelectReplaysKeeps ==
    ASSUME IndInv, NEW c \in Calls, SelectReplays(c)
    PROVE  IndInv'
  <1> USE NullAssumption DEF IndInv, TypeOK, Requests, Row, Status, Phase, Kind, Response, Answer,
              tableVars, callVars, cleanVars, SelectReplays, SelectReady, Replays
  <1>1. TypeOK'
    OBVIOUS
  <1>2. DraftInv'
    BY DEF DraftInv
  <1>3. PhaseInv'
    BY DEF PhaseInv, DraftInv
  <1>4. ReplayFaithful'
    BY DEF ReplayFaithful, RecordHasResource
  <1>5. DraftsApart' /\ CleanupInv' /\ AgeInv' /\ RecordHasResource' /\ OneResourcePerLife'
    BY DEF DraftsApart, CleanupInv, AgeInv, RecordHasResource, OneResourcePerLife
  <1> QED
    BY <1>1, <1>2, <1>3, <1>4, <1>5 DEF IndInv

(* The work is done in the same transaction as the insert.                 *)
LEMMA BodySucceedsKeeps ==
    ASSUME IndInv, NEW c \in Calls, BodySucceeds(c)
    PROVE  IndInv'
  <1> USE NullAssumption DEF IndInv, TypeOK, Requests, Row, Status, Phase, Kind, Response, Answer,
              tableVars, callVars, cleanVars, BodySucceeds
  <1>1. TypeOK'
    OBVIOUS
  <1>2. DraftInv'
    BY DEF DraftInv
  <1>3. PhaseInv'
    BY DEF PhaseInv
  <1>4. DraftsApart' /\ CleanupInv' /\ AgeInv' /\ RecordHasResource' /\ OneResourcePerLife' /\ ReplayFaithful'
    BY DEF DraftsApart, CleanupInv, AgeInv, RecordHasResource, OneResourcePerLife, ReplayFaithful
  <1> QED
    BY <1>1, <1>2, <1>3, <1>4 DEF IndInv

(* A failing handler drops its row.                                        *)
LEMMA BodyFailsKeeps ==
    ASSUME IndInv, NEW c \in Calls, BodyFails(c)
    PROVE  IndInv'
  <1> USE NullAssumption DEF IndInv, TypeOK, Requests, Row, Status, Phase, Kind, Response, Answer,
              tableVars, callVars, cleanVars, BodyFails, RollBack
  <1>1. TypeOK'
    OBVIOUS
  <1>2. DraftInv'
    BY DEF DraftInv
  <1>3. DraftsApart'
    BY DEF DraftsApart
  <1>4. PhaseInv'
    BY DEF PhaseInv
  <1>5. ReplayFaithful'
    BY DEF ReplayFaithful
  <1>6. CleanupInv' /\ AgeInv' /\ RecordHasResource' /\ OneResourcePerLife'
    BY DEF CleanupInv, AgeInv, RecordHasResource, OneResourcePerLife
  <1> QED
    BY <1>1, <1>2, <1>3, <1>4, <1>5, <1>6 DEF IndInv

(* An aborted request drops its row, whatever it had answered.             *)
LEMMA AbortKeeps ==
    ASSUME IndInv, NEW c \in Calls, Abort(c)
    PROVE  IndInv'
  <1> USE NullAssumption DEF IndInv, TypeOK, Requests, Row, Status, Phase, Kind, Response, Answer,
              tableVars, callVars, cleanVars, Abort, RollBack
  <1>1. TypeOK'
    OBVIOUS
  <1>2. DraftInv'
    BY DEF DraftInv
  <1>3. DraftsApart'
    BY DEF DraftsApart
  <1>4. PhaseInv'
    BY DEF PhaseInv
  <1>5. ReplayFaithful'
    BY DEF ReplayFaithful
  <1>6. CleanupInv' /\ AgeInv' /\ RecordHasResource' /\ OneResourcePerLife'
    BY DEF CleanupInv, AgeInv, RecordHasResource, OneResourcePerLife
  <1> QED
    BY <1>1, <1>2, <1>3, <1>4, <1>5, <1>6 DEF IndInv

(* Expiry touches committed rows only.                                     *)
LEMMA ExpireKeeps ==
    ASSUME IndInv, NEW s \in Slots, Expire(s)
    PROVE  IndInv'
  <1> USE NullAssumption DEF IndInv, TypeOK, Requests, Row, Status, Phase, Kind, Response, Answer,
              tableVars, callVars, cleanVars, Expire
  <1>1. TypeOK'
    OBVIOUS
  <1>2. CleanupInv'
    BY DEF CleanupInv
  <1>3. DraftInv' /\ DraftsApart' /\ PhaseInv' /\ AgeInv' /\ RecordHasResource' /\ OneResourcePerLife' /\ ReplayFaithful'
    BY DEF DraftInv, DraftsApart, PhaseInv, AgeInv, RecordHasResource, OneResourcePerLife, ReplayFaithful
  <1> QED
    BY <1>1, <1>2, <1>3 DEF IndInv

(* The DELETE visits the expired rows.                                     *)
LEMMA CleanupStartKeeps ==
    ASSUME IndInv, CleanupStart
    PROVE  IndInv'
  <1> USE NullAssumption DEF IndInv, TypeOK, Requests, Row, Status, Phase, Kind, Response, Answer,
              tableVars, callVars, cleanVars, CleanupStart
  <1>1. TypeOK'
    OBVIOUS
  <1>2. CleanupInv'
    BY DEF CleanupInv
  <1>3. DraftInv' /\ DraftsApart' /\ PhaseInv' /\ AgeInv' /\ RecordHasResource' /\ OneResourcePerLife' /\ ReplayFaithful'
    BY DEF DraftInv, DraftsApart, PhaseInv, AgeInv, RecordHasResource, OneResourcePerLife, ReplayFaithful
  <1> QED
    BY <1>1, <1>2, <1>3 DEF IndInv

(* The DELETE waits for row locks, so no replay loses its row.             *)
LEMMA CleanupDeleteKeeps ==
    ASSUME IndInv, NEW s \in Slots, CleanupDelete(s)
    PROVE  IndInv'
  <1> USE NullAssumption DEF IndInv, TypeOK, Requests, Row, Status, Phase, Kind, Response, Answer,
              tableVars, callVars, cleanVars, CleanupDelete, RowLocked
  <1>1. TypeOK'
    OBVIOUS
  <1>2. PhaseInv'
    BY DEF PhaseInv
  <1>3. CleanupInv'
    BY DEF CleanupInv
  <1>4. DraftInv' /\ DraftsApart' /\ AgeInv' /\ RecordHasResource' /\ OneResourcePerLife' /\ ReplayFaithful'
    BY DEF DraftInv, DraftsApart, AgeInv, RecordHasResource, OneResourcePerLife, ReplayFaithful
  <1> QED
    BY <1>1, <1>2, <1>3, <1>4 DEF IndInv

(* An aborted clean-up leaves every row in place.                          *)
LEMMA CleanupAbortKeeps ==
    ASSUME IndInv, CleanupAbort
    PROVE  IndInv'
  <1> USE NullAssumption DEF IndInv, TypeOK, Requests, Row, Status, Phase, Kind, Response, Answer,
              tableVars, callVars, cleanVars, CleanupAbort, CleanupEnds
  <1>1. TypeOK'
    OBVIOUS
  <1>2. PhaseInv'
    BY DEF PhaseInv
  <1>3. CleanupInv'
    BY DEF CleanupInv
  <1>4. DraftInv' /\ DraftsApart' /\ AgeInv' /\ RecordHasResource' /\ OneResourcePerLife' /\ ReplayFaithful'
    BY DEF DraftInv, DraftsApart, AgeInv, RecordHasResource, OneResourcePerLife, ReplayFaithful
  <1> QED
    BY <1>1, <1>2, <1>3, <1>4 DEF IndInv

(* complete_idempotency fills the row the request itself inserted.         *)
LEMMA CompleteKeeps ==
    ASSUME IndInv, NEW c \in Calls, Complete(c)
    PROVE  IndInv'
  <1> DEFINE row == [hash |-> req[c].hash, status |-> "completed", body |-> c]
  <1>1. draft[c] \in Row /\ draft[c].hash = req[c].hash
    BY DEF IndInv, TypeOK, PhaseInv, DraftInv, Complete
  <1>3. draft' = [draft EXCEPT ![c] = row]
    BY <1>1 DEF Complete
  <1>4. row \in Row /\ row # Null
    BY NullAssumption DEF IndInv, TypeOK, Requests, Row, Status
  <1> HIDE DEF row
  <1>5. TypeOK'
    BY <1>3, <1>4 DEF IndInv, TypeOK, Complete, Phase, Kind, Response,
                      tableVars, cleanVars
  <1> USE DEF IndInv, TypeOK, tableVars, cleanVars, Complete
  <1>6. DraftInv'
    BY <1>3, <1>4 DEF DraftInv, PhaseInv, row
  <1>7. DraftsApart'
    BY <1>3, <1>4 DEF DraftsApart, PhaseInv
  <1>8. PhaseInv'
    BY <1>3, <1>4 DEF PhaseInv, DraftInv
  <1>9. ReplayFaithful'
    BY DEF ReplayFaithful
  <1>10. CleanupInv' /\ AgeInv' /\ RecordHasResource' /\ OneResourcePerLife'
    BY DEF CleanupInv, AgeInv, RecordHasResource, OneResourcePerLife
  <1> QED
    BY <1>5, <1>6, <1>7, <1>8, <1>9, <1>10 DEF IndInv

(* COMMIT publishes row and effect together; the effect is the first of    *)
(* the slot's present life.                                                *)
LEMMA CommitKeeps ==
    ASSUME IndInv, NEW c \in Calls, Commit(c)
    PROVE  IndInv'
  <1> USE NullAssumption DEF IndInv, TypeOK, Requests, Row, Status, Phase,
              tableVars, callVars, cleanVars, Commit
  <1>1. TypeOK'
    OBVIOUS
  <1>2. DraftInv' /\ DraftsApart'
    BY DEF DraftInv, DraftsApart
  <1>3. PhaseInv'
    BY DEF PhaseInv, DraftInv
  <1>4. CleanupInv'
    BY DEF CleanupInv
  <1>5. AgeInv'
    BY DEF AgeInv, DraftInv, PhaseInv
  <1>6. RecordHasResource'
    BY DEF RecordHasResource, DraftInv
  <1>7. OneResourcePerLife'
    <2>1. CASE draft[c] = Null
      BY <2>1 DEF OneResourcePerLife
    <2>2. CASE draft[c] # Null
      <3>1. ASSUME NEW d \in resources, req[d].slot = req[c].slot
            PROVE  born[d] # born[c]
        BY <2>2, <3>1 DEF DraftInv, AgeInv
      <3> QED
        BY <2>2, <3>1 DEF OneResourcePerLife
    <2> QED
      BY <2>1, <2>2
  <1>8. ReplayFaithful'
    BY DEF ReplayFaithful
  <1> QED
    BY <1>1, <1>2, <1>3, <1>4, <1>5, <1>6, <1>7, <1>8

(* Deleting a row starts a new life, older than no effect of its slot.     *)
LEMMA CleanupCommitKeeps ==
    ASSUME IndInv, CleanupCommit
    PROVE  IndInv'
  <1> USE DEF IndInv, TypeOK, Requests, callVars, CleanupCommit, CleanupEnds
  <1>1. life' \in [Slots -> Nat] /\ record' \in [Slots -> Row \cup {Null}]
    OBVIOUS
  <1>2. TypeOK'
    BY <1>1
  <1>3. DraftInv'
    BY DEF DraftInv, CleanupInv
  <1>4. DraftsApart'
    BY DEF DraftsApart
  <1>5. PhaseInv'
    BY DEF PhaseInv
  <1>6. CleanupInv'
    BY DEF CleanupInv
  <1>7. AgeInv'
    BY DEF AgeInv
  <1>8. RecordHasResource' /\ OneResourcePerLife' /\ ReplayFaithful'
    BY DEF RecordHasResource, OneResourcePerLife, ReplayFaithful
  <1> QED
    BY <1>2, <1>3, <1>4, <1>5, <1>6, <1>7, <1>8

(* Stuttering changes nothing.                                             *)
LEMMA StutterKeeps == IndInv /\ UNCHANGED vars => IndInv'
  BY DEF vars, IndInv, TypeOK, DraftInv, DraftsApart, PhaseInv, CleanupInv,
         AgeInv, RecordHasResource, OneResourcePerLife, ReplayFaithful

(* The invariant is inductive.                                             *)
LEMMA NextInv == IndInv /\ [Next]_vars => IndInv'
  BY InsertWinsKeeps, InsertConflictsKeeps, SelectRaisesKeeps,
     SelectReplaysKeeps, BodySucceedsKeeps, BodyFailsKeeps, CompleteKeeps,
     CommitKeeps, AbortKeeps, ExpireKeeps, CleanupStartKeeps,
     CleanupDeleteKeeps, CleanupCommitKeeps, CleanupAbortKeeps, StutterKeeps
     DEF Next, Step, CleanupStep

(* The inductive invariant holds in every reachable state.                 *)
LEMMA Invariance == Spec => []IndInv
  BY InitInv, NextInv, PTL DEF Spec

-----------------------------------------------------------------------------
(* The variables of the idempotency protocol keep their types.             *)
THEOREM TypeCorrect == Spec => []TypeOK
  BY Invariance, PTL DEF IndInv

(* A committed idempotency record is complete and its effect is durable:   *)
(* acquire, work and complete share the request's transaction.             *)
THEOREM RecordsComplete == Spec => []RecordHasResource
  BY Invariance, PTL DEF IndInv

(* However many requests race on one Idempotency-Key, the work is done at  *)
(* most once between two clean-ups of its record.                          *)
THEOREM AtMostOnce == Spec => []OneResourcePerLife
  BY Invariance, PTL DEF IndInv

(* Every replayed response is the stored one of an equal request.          *)
THEOREM ReplaysFaithful == Spec => []ReplayFaithful
  BY Invariance, PTL DEF IndInv

-----------------------------------------------------------------------------
(* Refinement                                                              *)

(* The initial states are initial states of the store.                     *)
LEMMA InitAbstract == Init => Abstract!Init
  BY DEF Init, Abstract!Init, Requests, Abstract!Requests, Abstract!NoAnswer,
         Answer

(* What a committed row says of the call that wrote it.                    *)
LEMMA RowFacts ==
    ASSUME IndInv, NEW s \in Slots, record[s] # Null
    PROVE  /\ record[s].body \in Calls
           /\ record[s].status = "completed"
           /\ req[record[s].body].slot = s
           /\ req[record[s].body].hash = record[s].hash
  <1>1. /\ record[s].status = "completed"
        /\ record[s].body \in resources
        /\ req[record[s].body] = [slot |-> s, hash |-> record[s].hash]
    BY DEF IndInv, RecordHasResource
  <1> QED
    BY <1>1 DEF IndInv, TypeOK

(* A request that ends without a row is a failure of the store.            *)
LEMMA FailAbstract ==
    ASSUME IndInv, NEW c \in Calls, pc[c] # "ended",
           NEW r, r = Answer("error") \/ r = [kind |-> "created", body |-> c],
           RollBack(c, r), UNCHANGED <<record, resources, req>>
    PROVE  Abstract!Fail(c)
  BY DEF IndInv, TypeOK, RollBack, Abstract!Fail, Abstract!NoAnswer,
         Abstract!Refusal, Abstract!Created, Answer

(* A replay answers while it holds the lock on the remembered row.         *)
LEMMA RepeatAbstract ==
    ASSUME IndInv, NEW c \in Calls, pc[c] = "returned", draft[c] = Null,
           pc' = [pc EXCEPT ![c] = "ended"],
           outcome' = outcome, UNCHANGED <<record, resources, req>>
    PROVE  Abstract!Repeat(c)
  <1>1. /\ record[req[c].slot] # Null
        /\ record[req[c].slot].body \in Calls
        /\ req[record[req[c].slot].body] = req[c]
        /\ outcome[c] = [kind |-> "replay", body |-> record[req[c].slot].body]
    BY DEF IndInv, TypeOK, Requests, PhaseInv, RecordHasResource
  <1> QED
    BY <1>1, NullAssumption
    DEF IndInv, TypeOK, Requests, Abstract!Repeat, Abstract!NoAnswer,
        Abstract!Replay, Answer

(* Every step is a step of the store or leaves it alone.                   *)
LEMMA NextAbstract ==
    ASSUME IndInv, [Next]_vars
    PROVE  [Abstract!Next]_(Abstract!vars)
  <1> USE DEF tableVars, callVars, cleanVars
  <1>1. ASSUME NEW c \in Calls,
               InsertWins(c) \/ InsertConflicts(c) \/ SelectReplays(c)
                 \/ BodySucceeds(c) \/ Complete(c)
        PROVE  UNCHANGED Abstract!vars
    BY <1>1 DEF IndInv, TypeOK, InsertWins, InsertConflicts, SelectReplays,
                SelectReady, BodySucceeds, Complete, Abstract!vars
  <1>2. ASSUME NEW c \in Calls, SelectRaises(c)
        PROVE  Abstract!Fail(c) \/ Abstract!Mismatch(c)
    <2>1. CASE record[req[c].slot] = Null
      BY <1>2, <2>1, FailAbstract DEF SelectRaises, SelectReady
    <2>2. CASE record[req[c].slot] # Null
      <3>1. /\ record[req[c].slot].body \in Calls
            /\ record[req[c].slot].status = "completed"
            /\ req[record[req[c].slot].body].hash = record[req[c].slot].hash
        BY <2>2, RowFacts DEF IndInv, TypeOK, Requests
      <3>2. record[req[c].slot].hash # req[c].hash
        BY <1>2, <2>2, <3>1, NullAssumption DEF SelectRaises, Replays
      <3> QED
        BY <1>2, <2>2, <3>1, <3>2, NullAssumption
        DEF IndInv, TypeOK, Requests, SelectRaises, SelectReady, RollBack,
            Abstract!Mismatch, Abstract!NoAnswer, Abstract!Reuse, Answer
    <2> QED
      BY <2>1, <2>2
  <1>3. ASSUME NEW c \in Calls, BodyFails(c)
        PROVE  Abstract!Fail(c)
    BY <1>3, FailAbstract DEF BodyFails
  <1>4. ASSUME NEW c \in Calls, Commit(c)
        PROVE  Abstract!Perform(c) \/ Abstract!Repeat(c)
    <2>1. CASE draft[c] = Null
      BY <1>4, <2>1, RepeatAbstract DEF Commit
    <2>2. CASE draft[c] # Null
      <3> DEFINE s == req[c].slot
                 held(t) == IF record[t] = Null THEN Null ELSE record[t].body
                 told(d) == IF pc[d] = "ended" THEN outcome[d] ELSE Answer("none")
      <3>1. /\ s \in Slots /\ record[s] = Null /\ pc[c] = "returned"
            /\ draft[c].body = c
            /\ outcome[c] = [kind |-> "created", body |-> c]
        BY <1>4, <2>2 DEF IndInv, TypeOK, Requests, DraftInv, Commit
      <3>2. record' = [record EXCEPT ![s] = draft[c]]
        BY <1>4, <2>2 DEF Commit
      <3>3. [t \in Slots |-> held(t)'] = [[t \in Slots |-> held(t)] EXCEPT ![s] = c]
        BY <2>2, <3>1, <3>2 DEF IndInv, TypeOK
      <3>4. [d \in Calls |-> told(d)']
              = [[d \in Calls |-> told(d)] EXCEPT
                   ![c] = [kind |-> "created", body |-> c]]
        BY <1>4, <3>1 DEF IndInv, TypeOK, Commit, Answer
      <3> QED
        BY <1>4, <2>2, <3>1, <3>3, <3>4
        DEF Commit, Abstract!Perform, Abstract!NoAnswer, Abstract!Created, Answer
    <2> QED
      BY <2>1, <2>2
  <1>5. ASSUME NEW c \in Calls, Abort(c)
        PROVE  Abstract!Fail(c) \/ Abstract!Repeat(c)
    <2>1. PICK r \in {Answer("error")} \cup
                    (IF pc[c] = "returned" THEN {outcome[c]} ELSE {}) :
             RollBack(c, r)
      BY <1>5 DEF Abort
    <2>2. CASE r = Answer("error") \/ r = [kind |-> "created", body |-> c]
      BY <1>5, <2>1, <2>2, FailAbstract DEF Abort
    <2>3. CASE ~(r = Answer("error") \/ r = [kind |-> "created", body |-> c])
      <3>1. pc[c] = "returned" /\ r = outcome[c]
        BY <2>1, <2>3
      <3>2. draft[c] = Null
        BY <2>3, <3>1 DEF IndInv, DraftInv
      <3>3. outcome' = outcome /\ pc' = [pc EXCEPT ![c] = "ended"]
        BY <2>1, <3>1 DEF RollBack, IndInv, TypeOK
      <3> QED
        BY <1>5, <3>1, <3>2, <3>3, RepeatAbstract DEF Abort
    <2> QED
      BY <2>2, <2>3
  <1>6. CASE CleanupCommit
    <2>1. PICK S \in SUBSET Slots : S = doomed
      BY DEF IndInv, TypeOK
    <2>2. Abstract!Forget(S)
      BY <1>6, <2>1 DEF IndInv, TypeOK, CleanupCommit, Abstract!Forget
    <2> QED
      BY <2>2 DEF Abstract!Next
  <1>7. CASE \/ \E s \in Slots : Expire(s) \/ CleanupDelete(s)
             \/ CleanupStart \/ CleanupAbort \/ UNCHANGED vars
    BY <1>7 DEF Expire, CleanupDelete, CleanupStart, CleanupAbort, vars,
                Abstract!vars
  <1> QED
    BY <1>1, <1>2, <1>3, <1>4, <1>5, <1>6, <1>7
    DEF Next, Step, CleanupStep, Abstract!Next

(* The protocol implements the abstract store: transactions, locks and     *)
(* clean-up are invisible to clients except as the store's own outcomes.   *)
THEOREM Refinement == Spec => Implements
  BY InitAbstract, NextAbstract, Invariance, PTL
  DEF Spec, Implements, Abstract!Spec

=============================================================================
