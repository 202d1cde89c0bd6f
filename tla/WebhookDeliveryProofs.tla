------------------------ MODULE WebhookDeliveryProofs ------------------------
(***************************************************************************)
(* For any number of deliveries, jobs, retries, losses and faults: every   *)
(* POST is counted, a dead delivery is justified and attempts are bounded. *)
(*                                                                         *)
(* Two counting arguments carry the proof.  A job between its two          *)
(* transactions owns one counted attempt that is not a POST yet; and every *)
(* attempt at or past the limit is charged to the job that made it, until  *)
(* a loss or a fault takes the job back.  Both sets of jobs are finite     *)
(* because only finitely many messages have been published.                *)
(***************************************************************************)
EXTENDS WebhookDelivery, FiniteSetTheorems, TLAPS

(* Exactly the published messages name a delivery.                         *)
JobInv ==
    \A j \in Jobs : IF phase[j] = "unused" THEN of[j] = Null
                                           ELSE of[j] \in Deliveries

(* A job past its first transaction works on a committed row, which counts *)
(* at least the attempts the job has read.                                 *)
RunInv ==
    \A j \in Jobs : phase[j] \in {"posting", "accepted", "refused"} =>
        /\ row[of[j]] # Null
        /\ count[j] <= row[of[j]].attempts

(* Rows appear with the commit of the emitting request, and only committed *)
(* rows are locked by retry_delivery.                                      *)
RowInv ==
    /\ emit # "committed" => \A d \in Deliveries : row[d] = Null
    /\ \A d \in resending : row[d] # Null

Published == {j \in Jobs : of[j] # Null}

Attempts(d) == IF row[d] = Null THEN 0 ELSE row[d].attempts

(* Jobs of d that have counted their attempt and not sent the POST yet.    *)
Posting(d) == {j \in Jobs : of[j] = d /\ phase[j] = "posting"}

(* Jobs of d whose present or last attempt reached the limit.              *)
Charged(d) ==
    {j \in Jobs : /\ of[j] = d
                  /\ phase[j] \in {"posting", "accepted", "refused", "done"}
                  /\ count[j] >= AttemptLimit}

PostInv ==
    \A d \in Deliveries : posts[d] + Cardinality(Posting(d)) <= Attempts(d)

ChargeInv ==
    \A d \in Deliveries :
        Attempts(d) <= AttemptLimit - 1 + Cardinality(Charged(d)) + crashes + faults

IndInv ==
    /\ TypeOK
    /\ JobInv
    /\ RunInv
    /\ RowInv
    /\ IsFiniteSet(Published)
    /\ PostInv
    /\ ChargeInv
    /\ DeadIsJustified

-----------------------------------------------------------------------------
(* The initial states                                                      *)

(* Nothing is published, committed or sent at the start.                   *)
LEMMA InitInv == Init => IndInv
  <1> SUFFICES ASSUME Init PROVE IndInv
    OBVIOUS
  <1> USE ConstantsAssumption DEF Init
  <1>1. TypeOK
    BY DEF TypeOK, Phases
  <1>2. JobInv /\ RunInv /\ RowInv /\ DeadIsJustified
    BY DEF JobInv, RunInv, RowInv, DeadIsJustified
  <1>3. Published = {}
    BY DEF Published
  <1>4. \A d \in Deliveries : Posting(d) = {} /\ Charged(d) = {} /\ Attempts(d) = 0
    BY DEF Posting, Charged, Attempts
  <1>5. IsFiniteSet(Published)
    BY <1>3, FS_EmptySet
  <1>6. \A d \in Deliveries : Cardinality(Posting(d)) = 0 /\ Cardinality(Charged(d)) = 0
    BY <1>4, FS_EmptySet
  <1>7. PostInv
    BY <1>4, <1>6 DEF PostInv
  <1>8. ChargeInv
    BY <1>4, <1>6 DEF ChargeInv
  <1> QED
    BY <1>1, <1>2, <1>5, <1>7, <1>8 DEF IndInv

-----------------------------------------------------------------------------
(* Counting jobs                                                           *)

(* Publishing at most one message keeps the published ones finite.         *)
LEMMA OneMorePublished ==
    ASSUME IndInv, NEW j, Published' \subseteq Published \cup {j}
    PROVE  IsFiniteSet(Published')
  <1>1. IsFiniteSet(Published \cup {j})
    BY FS_AddElement DEF IndInv
  <1> QED
    BY <1>1, FS_Subset

(* The counted sets of jobs are finite, before and after a step.           *)
LEMMA CountedFinite ==
    ASSUME IndInv, IsFiniteSet(Published'), NEW d \in Deliveries
    PROVE  /\ IsFiniteSet(Posting(d)) /\ IsFiniteSet(Posting(d)')
           /\ IsFiniteSet(Charged(d)) /\ IsFiniteSet(Charged(d)')
  <1>1. Posting(d) \subseteq Published /\ Charged(d) \subseteq Published
    BY ConstantsAssumption DEF Posting, Charged, Published
  <1>2. Posting(d)' \subseteq Published' /\ Charged(d)' \subseteq Published'
    BY ConstantsAssumption DEF Posting, Charged, Published
  <1>3. IsFiniteSet(Published)
    BY DEF IndInv
  <1> QED
    BY <1>1, <1>2, <1>3, FS_Subset

(* Counts are natural numbers.                                             *)
LEMMA AttemptsType ==
    ASSUME TypeOK, NEW d \in Deliveries
    PROVE  Attempts(d) \in Nat /\ posts[d] \in Nat
  BY DEF TypeOK, Row, Attempts

(* A step that sends nothing, starts no run and forgets no attempt.        *)
LEMMA PostsStillCounted ==
    ASSUME IndInv, TypeOK', IsFiniteSet(Published'), posts' = posts,
           \A d \in Deliveries : /\ Posting(d)' \subseteq Posting(d)
                                 /\ Attempts(d) <= Attempts(d)'
    PROVE  PostInv'
  <1> SUFFICES ASSUME NEW d \in Deliveries
               PROVE  posts'[d] + Cardinality(Posting(d)') <= Attempts(d)'
    BY DEF PostInv
  <1>1. posts[d] + Cardinality(Posting(d)) <= Attempts(d)
    BY DEF IndInv, PostInv
  <1>2. Cardinality(Posting(d)') <= Cardinality(Posting(d))
    BY CountedFinite, FS_Subset
  <1>3. /\ Cardinality(Posting(d)) \in Nat /\ Cardinality(Posting(d)') \in Nat
    BY CountedFinite, FS_CardinalityType
  <1>4. Attempts(d) \in Nat /\ posts[d] \in Nat
    BY AttemptsType DEF IndInv
  <1>5. Attempts(d)' \in Nat
    BY DEF TypeOK, Row, Attempts
  <1> QED
    BY <1>1, <1>2, <1>3, <1>4, <1>5

(* A step that counts no attempt and takes no charge back.                 *)
LEMMA ChargesKept ==
    ASSUME IndInv, TypeOK', IsFiniteSet(Published'),
           crashes <= crashes', faults <= faults',
           \A d \in Deliveries : /\ Attempts(d)' = Attempts(d)
                                 /\ Charged(d) \subseteq Charged(d)'
    PROVE  ChargeInv'
  <1> SUFFICES ASSUME NEW d \in Deliveries
               PROVE  Attempts(d)' <= AttemptLimit - 1 + Cardinality(Charged(d)')
                                                      + crashes' + faults'
    BY DEF ChargeInv
  <1>1. Attempts(d) <= AttemptLimit - 1 + Cardinality(Charged(d)) + crashes + faults
    BY DEF IndInv, ChargeInv
  <1>2. Cardinality(Charged(d)) <= Cardinality(Charged(d)')
    BY CountedFinite, FS_Subset
  <1>3. Cardinality(Charged(d)) \in Nat /\ Cardinality(Charged(d)') \in Nat
    BY CountedFinite, FS_CardinalityType
  <1>4. Attempts(d) \in Nat
    BY AttemptsType DEF IndInv
  <1>5. crashes \in Nat /\ faults \in Nat /\ crashes' \in Nat /\ faults' \in Nat
    BY ConstantsAssumption DEF IndInv, TypeOK
  <1>6. AttemptLimit \in Nat
    BY ConstantsAssumption
  <1> QED
    BY <1>1, <1>2, <1>3, <1>4, <1>5, <1>6

(* A loss or a fault takes back the charge of one job at most.             *)
LEMMA ChargeLost ==
    ASSUME IndInv, TypeOK', IsFiniteSet(Published'), NEW j,
           \/ crashes' = crashes + 1 /\ faults' = faults
           \/ faults' = faults + 1 /\ crashes' = crashes,
           \A d \in Deliveries : /\ Attempts(d)' = Attempts(d)
                                 /\ Charged(d) \ {j} \subseteq Charged(d)'
    PROVE  ChargeInv'
  <1> SUFFICES ASSUME NEW d \in Deliveries
               PROVE  Attempts(d)' <= AttemptLimit - 1 + Cardinality(Charged(d)')
                                                      + crashes' + faults'
    BY DEF ChargeInv
  <1>1. Attempts(d) <= AttemptLimit - 1 + Cardinality(Charged(d)) + crashes + faults
    BY DEF IndInv, ChargeInv
  <1>2. IsFiniteSet(Charged(d)) /\ IsFiniteSet(Charged(d)')
    BY CountedFinite
  <1>3. /\ Cardinality(Charged(d)) <= Cardinality(Charged(d) \ {j}) + 1
        /\ Cardinality(Charged(d) \ {j}) <= Cardinality(Charged(d)')
        /\ Cardinality(Charged(d) \ {j}) \in Nat
    BY <1>2, FS_RemoveElement, FS_Subset, FS_CardinalityType
  <1>4. Cardinality(Charged(d)) \in Nat /\ Cardinality(Charged(d)') \in Nat
    BY <1>2, FS_CardinalityType
  <1>5. Attempts(d) \in Nat
    BY AttemptsType DEF IndInv
  <1>6. crashes \in Nat /\ faults \in Nat /\ crashes' \in Nat /\ faults' \in Nat
    BY ConstantsAssumption DEF IndInv, TypeOK
  <1>7. AttemptLimit \in Nat
    BY ConstantsAssumption
  <1> QED
    BY <1>1, <1>3, <1>4, <1>5, <1>6, <1>7

-----------------------------------------------------------------------------
(* One lemma per action                                                    *)

(* The emitting request publishes a job before any row is committed.       *)
LEMMA EmitPublishKeeps ==
    ASSUME IndInv, NEW d \in Deliveries, NEW j \in Jobs, EmitPublish(d, j)
    PROVE  IndInv'
  <1> USE ConstantsAssumption DEF IndInv, TypeOK, Row, State, Phases, JobInv, RunInv,
                                  RowInv, EmitPublish, Publish, histVars
  <1>1. TypeOK'
    OBVIOUS
  <1>2. JobInv' /\ RunInv' /\ RowInv'
    OBVIOUS
  <1>3. DeadIsJustified'
    BY DEF DeadIsJustified
  <1>4. IsFiniteSet(Published')
    <2>1. Published' \subseteq Published \cup {j}
      BY DEF Published
    <2> QED
      BY <2>1, OneMorePublished
  <1>5. PostInv'
    <2>1. \A e \in Deliveries : Posting(e)' \subseteq Posting(e)
      BY DEF Posting
    <2>2. \A e \in Deliveries : Attempts(e)' = Attempts(e) /\ Attempts(e) \in Nat
      BY DEF Attempts
    <2> QED
      BY <1>1, <1>4, <2>1, <2>2, PostsStillCounted
  <1>6. ChargeInv'
    <2>1. \A e \in Deliveries : Charged(e) \subseteq Charged(e)'
      BY DEF Charged
    <2>2. \A e \in Deliveries : Attempts(e)' = Attempts(e)
      BY DEF Attempts
    <2> QED
      BY <1>1, <1>4, <2>1, <2>2, ChargesKept
  <1> QED
    BY <1>1, <1>2, <1>3, <1>4, <1>5, <1>6

(* Its commit finds no row, so no job is past its first transaction.       *)
LEMMA EmitCommitKeeps ==
    ASSUME IndInv, EmitCommit
    PROVE  IndInv'
  <1> USE ConstantsAssumption DEF IndInv, TypeOK, Row, State, Phases, JobInv, RunInv,
                                  RowInv, EmitCommit, jobVars, histVars
  <1>1. TypeOK'
    OBVIOUS
  <1>2. JobInv' /\ RunInv' /\ RowInv'
    OBVIOUS
  <1>3. DeadIsJustified'
    BY DEF DeadIsJustified
  <1>4. IsFiniteSet(Published')
    <2>1. Published' = Published
      BY DEF Published
    <2> QED
      BY <2>1
  <1>5. PostInv'
    <2>1. \A d \in Deliveries : Posting(d)' \subseteq Posting(d)
      BY DEF Posting
    <2>2. \A d \in Deliveries : Attempts(d)' = Attempts(d) /\ Attempts(d) \in Nat
      BY DEF Attempts
    <2> QED
      BY <1>1, <1>4, <2>1, <2>2, PostsStillCounted
  <1>6. ChargeInv'
    <2>1. \A d \in Deliveries : Charged(d) \subseteq Charged(d)'
      BY DEF Charged
    <2>2. \A d \in Deliveries : Attempts(d)' = Attempts(d)
      BY DEF Attempts
    <2> QED
      BY <1>1, <1>4, <2>1, <2>2, ChargesKept
  <1> QED
    BY <1>1, <1>2, <1>3, <1>4, <1>5, <1>6

(* Its rollback leaves the orphaned jobs without a row.                    *)
LEMMA EmitAbortKeeps ==
    ASSUME IndInv, EmitAbort
    PROVE  IndInv'
  <1> USE ConstantsAssumption DEF IndInv, TypeOK, Row, State, Phases, JobInv, RunInv,
                                  RowInv, EmitAbort, jobVars, histVars
  <1>1. TypeOK'
    OBVIOUS
  <1>2. JobInv' /\ RunInv' /\ RowInv'
    OBVIOUS
  <1>3. DeadIsJustified'
    BY DEF DeadIsJustified
  <1>4. IsFiniteSet(Published')
    <2>1. Published' = Published
      BY DEF Published
    <2> QED
      BY <2>1
  <1>5. PostInv'
    <2>1. \A d \in Deliveries : Posting(d)' \subseteq Posting(d)
      BY DEF Posting
    <2>2. \A d \in Deliveries : Attempts(d)' = Attempts(d) /\ Attempts(d) \in Nat
      BY DEF Attempts
    <2> QED
      BY <1>1, <1>4, <2>1, <2>2, PostsStillCounted
  <1>6. ChargeInv'
    <2>1. \A d \in Deliveries : Charged(d) \subseteq Charged(d)'
      BY DEF Charged
    <2>2. \A d \in Deliveries : Attempts(d)' = Attempts(d)
      BY DEF Attempts
    <2> QED
      BY <1>1, <1>4, <2>1, <2>2, ChargesKept
  <1> QED
    BY <1>1, <1>2, <1>3, <1>4, <1>5, <1>6

(* A job that finds no row is retried or fails.                            *)
LEMMA LoadInvisibleKeeps ==
    ASSUME IndInv, NEW j \in Jobs, LoadInvisible(j)
    PROVE  IndInv'
  <1> USE ConstantsAssumption DEF IndInv, TypeOK, Row, State, Phases, JobInv, RunInv,
                                  RowInv, LoadInvisible, Retry, histVars
  <1>1. TypeOK'
    OBVIOUS
  <1>2. JobInv' /\ RunInv' /\ RowInv'
    OBVIOUS
  <1>3. DeadIsJustified'
    BY DEF DeadIsJustified
  <1>4. IsFiniteSet(Published')
    <2>1. Published' = Published
      BY DEF Published
    <2> QED
      BY <2>1
  <1>5. PostInv'
    <2>1. \A d \in Deliveries : Posting(d)' \subseteq Posting(d)
      BY DEF Posting
    <2>2. \A d \in Deliveries : Attempts(d)' = Attempts(d) /\ Attempts(d) \in Nat
      BY DEF Attempts
    <2> QED
      BY <1>1, <1>4, <2>1, <2>2, PostsStillCounted
  <1>6. ChargeInv'
    <2>1. \A d \in Deliveries : Charged(d) \subseteq Charged(d)'
      BY DEF Charged
    <2>2. \A d \in Deliveries : Attempts(d)' = Attempts(d)
      BY DEF Attempts
    <2> QED
      BY <1>1, <1>4, <2>1, <2>2, ChargesKept
  <1> QED
    BY <1>1, <1>2, <1>3, <1>4, <1>5, <1>6

(* A job that finds a settled row ends.                                    *)
LEMMA LoadSettledKeeps ==
    ASSUME IndInv, NEW j \in Jobs, LoadSettled(j)
    PROVE  IndInv'
  <1> USE ConstantsAssumption DEF IndInv, TypeOK, Row, State, Phases, JobInv, RunInv,
                                  RowInv, LoadSettled, Ends, Unlocked, histVars
  <1>1. TypeOK'
    OBVIOUS
  <1>2. JobInv' /\ RunInv' /\ RowInv'
    OBVIOUS
  <1>3. DeadIsJustified'
    BY DEF DeadIsJustified
  <1>4. IsFiniteSet(Published')
    <2>1. Published' = Published
      BY DEF Published
    <2> QED
      BY <2>1
  <1>5. PostInv'
    <2>1. \A d \in Deliveries : Posting(d)' \subseteq Posting(d)
      BY DEF Posting
    <2>2. \A d \in Deliveries : Attempts(d)' = Attempts(d) /\ Attempts(d) \in Nat
      BY DEF Attempts
    <2> QED
      BY <1>1, <1>4, <2>1, <2>2, PostsStillCounted
  <1>6. ChargeInv'
    <2>1. \A d \in Deliveries : Charged(d) \subseteq Charged(d)'
      BY DEF Charged
    <2>2. \A d \in Deliveries : Attempts(d)' = Attempts(d)
      BY DEF Attempts
    <2> QED
      BY <1>1, <1>4, <2>1, <2>2, ChargesKept
  <1> QED
    BY <1>1, <1>2, <1>3, <1>4, <1>5, <1>6

(* An inactive endpoint justifies "dead".                                  *)
LEMMA LoadInactiveKeeps ==
    ASSUME IndInv, NEW j \in Jobs, LoadInactive(j)
    PROVE  IndInv'
  <1> USE ConstantsAssumption DEF IndInv, TypeOK, Row, State, Phases, JobInv, RunInv,
                                  RowInv, LoadInactive, Loadable, Ends, Unlocked, histVars
  <1>1. TypeOK'
    OBVIOUS
  <1>2. JobInv' /\ RunInv' /\ RowInv'
    OBVIOUS
  <1>3. DeadIsJustified'
    BY DEF DeadIsJustified
  <1>4. IsFiniteSet(Published')
    <2>1. Published' = Published
      BY DEF Published
    <2> QED
      BY <2>1
  <1>5. PostInv'
    <2>1. \A d \in Deliveries : Posting(d)' \subseteq Posting(d)
      BY DEF Posting
    <2>2. \A d \in Deliveries : Attempts(d)' = Attempts(d) /\ Attempts(d) \in Nat
      BY DEF Attempts
    <2> QED
      BY <1>1, <1>4, <2>1, <2>2, PostsStillCounted
  <1>6. ChargeInv'
    <2>1. \A d \in Deliveries : Charged(d) \subseteq Charged(d)'
      BY DEF Charged
    <2>2. \A d \in Deliveries : Attempts(d)' = Attempts(d)
      BY DEF Attempts
    <2> QED
      BY <1>1, <1>4, <2>1, <2>2, ChargesKept
  <1> QED
    BY <1>1, <1>2, <1>3, <1>4, <1>5, <1>6

(* So does a rejected target.                                              *)
LEMMA LoadRejectedKeeps ==
    ASSUME IndInv, NEW j \in Jobs, LoadRejected(j)
    PROVE  IndInv'
  <1> USE ConstantsAssumption DEF IndInv, TypeOK, Row, State, Phases, JobInv, RunInv,
                                  RowInv, LoadRejected, Loadable, Ends, Unlocked, histVars
  <1>1. TypeOK'
    OBVIOUS
  <1>2. JobInv' /\ RunInv' /\ RowInv'
    OBVIOUS
  <1>3. DeadIsJustified'
    BY DEF DeadIsJustified
  <1>4. IsFiniteSet(Published')
    <2>1. Published' = Published
      BY DEF Published
    <2> QED
      BY <2>1
  <1>5. PostInv'
    <2>1. \A d \in Deliveries : Posting(d)' \subseteq Posting(d)
      BY DEF Posting
    <2>2. \A d \in Deliveries : Attempts(d)' = Attempts(d) /\ Attempts(d) \in Nat
      BY DEF Attempts
    <2> QED
      BY <1>1, <1>4, <2>1, <2>2, PostsStillCounted
  <1>6. ChargeInv'
    <2>1. \A d \in Deliveries : Charged(d) \subseteq Charged(d)'
      BY DEF Charged
    <2>2. \A d \in Deliveries : Attempts(d)' = Attempts(d)
      BY DEF Attempts
    <2> QED
      BY <1>1, <1>4, <2>1, <2>2, ChargesKept
  <1> QED
    BY <1>1, <1>2, <1>3, <1>4, <1>5, <1>6

(* The first transaction counts an attempt, and the job owes one POST.     *)
LEMMA LoadKeeps ==
    ASSUME IndInv, NEW j \in Jobs, Load(j)
    PROVE  IndInv'
  <1> USE ConstantsAssumption DEF IndInv, TypeOK, Row, State, Phases, JobInv, RunInv,
                                  RowInv, Load, Loadable, Unlocked, histVars
  <1>1. TypeOK'
    OBVIOUS
  <1>2. JobInv' /\ RunInv' /\ RowInv'
    OBVIOUS
  <1>3. DeadIsJustified'
    BY DEF DeadIsJustified
  <1>4. IsFiniteSet(Published')
    <2>1. Published' = Published
      BY DEF Published
    <2> QED
      BY <2>1
  <1>5. /\ of[j] \in Deliveries
        /\ Attempts(of[j])' = Attempts(of[j]) + 1
        /\ count'[j] = Attempts(of[j]) + 1
        /\ \A d \in Deliveries \ {of[j]} : Attempts(d)' = Attempts(d)
    BY DEF Attempts
  <1>6. PostInv'
    <2> SUFFICES ASSUME NEW d \in Deliveries
                 PROVE  posts'[d] + Cardinality(Posting(d)') <= Attempts(d)'
      BY DEF PostInv
    <2>1. Posting(d)' = IF d = of[j] THEN Posting(d) \cup {j} ELSE Posting(d)
      BY DEF Posting
    <2>2. j \notin Posting(d)
      BY DEF Posting
    <2>3. posts'[d] + Cardinality(Posting(d)) <= Attempts(d)
      BY DEF PostInv
    <2>4. IsFiniteSet(Posting(d))
      BY <1>4, CountedFinite
    <2>5. Cardinality(Posting(d) \cup {j}) = Cardinality(Posting(d)) + 1
      BY <2>2, <2>4, FS_AddElement
    <2>6. Cardinality(Posting(d)) \in Nat
      BY <2>4, FS_CardinalityType
    <2>7. Attempts(d) \in Nat /\ posts'[d] \in Nat
      BY AttemptsType
    <2> QED
      BY <1>5, <2>1, <2>3, <2>5, <2>6, <2>7
  <1>7. ChargeInv'
    <2> SUFFICES ASSUME NEW d \in Deliveries
                 PROVE  Attempts(d)' <= AttemptLimit - 1 + Cardinality(Charged(d)')
                                                        + crashes' + faults'
      BY DEF ChargeInv
    <2>1. Attempts(d) <= AttemptLimit - 1 + Cardinality(Charged(d)) + crashes + faults
      BY DEF ChargeInv
    <2>2. IsFiniteSet(Charged(d)) /\ IsFiniteSet(Charged(d)')
      BY <1>4, CountedFinite
    <2>3. /\ Cardinality(Charged(d)) \in Nat /\ Cardinality(Charged(d)') \in Nat
          /\ Attempts(d) \in Nat
      BY <2>2, FS_CardinalityType, AttemptsType
    <2>4. crashes \in Nat /\ faults \in Nat /\ UNCHANGED <<crashes, faults>>
      OBVIOUS
    <2>5. CASE d # of[j]
      <3>1. Charged(d) \subseteq Charged(d)'
        BY <2>5 DEF Charged
      <3> QED
        BY <1>5, <2>1, <2>2, <2>3, <2>4, <2>5, <3>1, FS_Subset
    <2>6. CASE d = of[j] /\ Attempts(d) + 1 < AttemptLimit
      BY <1>5, <2>3, <2>4, <2>6
    <2>7. CASE d = of[j] /\ Attempts(d) + 1 >= AttemptLimit
      <3>1. j \notin Charged(d) /\ Charged(d)' = Charged(d) \cup {j}
        BY <1>5, <2>7 DEF Charged
      <3>2. Cardinality(Charged(d)') = Cardinality(Charged(d)) + 1
        BY <2>2, <3>1, FS_AddElement
      <3> QED
        BY <1>5, <2>1, <2>3, <2>4, <2>7, <3>2
    <2> QED
      BY <2>3, <2>5, <2>6, <2>7
  <1> QED
    BY <1>1, <1>2, <1>3, <1>4, <1>6, <1>7

(* The POST uses the attempt the job has counted.                          *)
LEMMA PostKeeps ==
    ASSUME IndInv, NEW j \in Jobs, Post(j)
    PROVE  IndInv'
  <1> USE ConstantsAssumption DEF IndInv, TypeOK, Row, State, Phases, JobInv, RunInv,
                                  RowInv, Post
  <1>1. TypeOK'
    OBVIOUS
  <1>2. JobInv' /\ RunInv' /\ RowInv'
    OBVIOUS
  <1>3. DeadIsJustified'
    BY DEF DeadIsJustified
  <1>4. IsFiniteSet(Published')
    <2>1. Published' = Published
      BY DEF Published
    <2> QED
      BY <2>1
  <1>5. PostInv'
    <2> SUFFICES ASSUME NEW d \in Deliveries
                 PROVE  posts'[d] + Cardinality(Posting(d)') <= Attempts(d)'
      BY DEF PostInv
    <2>1. Posting(d)' = Posting(d) \ {j}
      BY DEF Posting
    <2>2. Attempts(d)' = Attempts(d)
      BY DEF Attempts
    <2>3. d = of[j] <=> j \in Posting(d)
      BY DEF Posting
    <2>4. posts'[d] = IF d = of[j] THEN posts[d] + 1 ELSE posts[d]
      OBVIOUS
    <2>5. posts[d] + Cardinality(Posting(d)) <= Attempts(d)
      BY DEF PostInv
    <2>6. IsFiniteSet(Posting(d))
      BY <1>4, CountedFinite
    <2>7. Cardinality(Posting(d) \ {j}) = IF j \in Posting(d)
                                              THEN Cardinality(Posting(d)) - 1
                                              ELSE Cardinality(Posting(d))
      BY <2>6, FS_RemoveElement
    <2>8. Cardinality(Posting(d)) \in Nat
      BY <2>6, FS_CardinalityType
    <2>9. Attempts(d) \in Nat /\ posts[d] \in Nat
      BY AttemptsType
    <2> QED
      BY <2>1, <2>2, <2>3, <2>4, <2>5, <2>7, <2>8, <2>9
  <1>6. ChargeInv'
    <2>1. \A d \in Deliveries : Charged(d) \subseteq Charged(d)'
      BY DEF Charged
    <2>2. \A d \in Deliveries : Attempts(d)' = Attempts(d)
      BY DEF Attempts
    <2> QED
      BY <1>1, <1>4, <2>1, <2>2, ChargesKept
  <1> QED
    BY <1>1, <1>2, <1>3, <1>4, <1>5, <1>6

(* An accepted delivery is recorded.                                       *)
LEMMA SettleDeliveredKeeps ==
    ASSUME IndInv, NEW j \in Jobs, SettleDelivered(j)
    PROVE  IndInv'
  <1> USE ConstantsAssumption DEF IndInv, TypeOK, Row, State, Phases, JobInv, RunInv,
                                  RowInv, SettleDelivered, Ends, Unlocked, histVars
  <1>1. TypeOK'
    OBVIOUS
  <1>2. JobInv' /\ RunInv' /\ RowInv'
    OBVIOUS
  <1>3. DeadIsJustified'
    BY DEF DeadIsJustified
  <1>4. IsFiniteSet(Published')
    <2>1. Published' = Published
      BY DEF Published
    <2> QED
      BY <2>1
  <1>5. PostInv'
    <2>1. \A d \in Deliveries : Posting(d)' \subseteq Posting(d)
      BY DEF Posting
    <2>2. \A d \in Deliveries : Attempts(d)' = Attempts(d) /\ Attempts(d) \in Nat
      BY DEF Attempts
    <2> QED
      BY <1>1, <1>4, <2>1, <2>2, PostsStillCounted
  <1>6. ChargeInv'
    <2>1. \A d \in Deliveries : Charged(d) \subseteq Charged(d)'
      BY DEF Charged
    <2>2. \A d \in Deliveries : Attempts(d)' = Attempts(d)
      BY DEF Attempts
    <2> QED
      BY <1>1, <1>4, <2>1, <2>2, ChargesKept
  <1> QED
    BY <1>1, <1>2, <1>3, <1>4, <1>5, <1>6

(* The count a job decides on is at most the committed one.                *)
LEMMA SettleDeadKeeps ==
    ASSUME IndInv, NEW j \in Jobs, SettleDead(j)
    PROVE  IndInv'
  <1> USE ConstantsAssumption DEF IndInv, TypeOK, Row, State, Phases, JobInv, RunInv,
                                  RowInv, SettleDead, Ends, Unlocked, histVars
  <1>1. TypeOK'
    OBVIOUS
  <1>2. JobInv' /\ RunInv' /\ RowInv'
    OBVIOUS
  <1>3. DeadIsJustified'
    BY DEF DeadIsJustified
  <1>4. IsFiniteSet(Published')
    <2>1. Published' = Published
      BY DEF Published
    <2> QED
      BY <2>1
  <1>5. PostInv'
    <2>1. \A d \in Deliveries : Posting(d)' \subseteq Posting(d)
      BY DEF Posting
    <2>2. \A d \in Deliveries : Attempts(d)' = Attempts(d) /\ Attempts(d) \in Nat
      BY DEF Attempts
    <2> QED
      BY <1>1, <1>4, <2>1, <2>2, PostsStillCounted
  <1>6. ChargeInv'
    <2>1. \A d \in Deliveries : Charged(d) \subseteq Charged(d)'
      BY DEF Charged
    <2>2. \A d \in Deliveries : Attempts(d)' = Attempts(d)
      BY DEF Attempts
    <2> QED
      BY <1>1, <1>4, <2>1, <2>2, ChargesKept
  <1> QED
    BY <1>1, <1>2, <1>3, <1>4, <1>5, <1>6

(* A job that is queued again was not charged.                             *)
LEMMA SettleRetryingKeeps ==
    ASSUME IndInv, NEW j \in Jobs, SettleRetrying(j)
    PROVE  IndInv'
  <1> USE ConstantsAssumption DEF IndInv, TypeOK, Row, State, Phases, JobInv, RunInv,
                                  RowInv, SettleRetrying, Retry, Unlocked, histVars
  <1>1. TypeOK'
    OBVIOUS
  <1>2. JobInv' /\ RunInv' /\ RowInv'
    OBVIOUS
  <1>3. DeadIsJustified'
    BY DEF DeadIsJustified
  <1>4. IsFiniteSet(Published')
    <2>1. Published' = Published
      BY DEF Published
    <2> QED
      BY <2>1
  <1>5. PostInv'
    <2>1. \A d \in Deliveries : Posting(d)' \subseteq Posting(d)
      BY DEF Posting
    <2>2. \A d \in Deliveries : Attempts(d)' = Attempts(d) /\ Attempts(d) \in Nat
      BY DEF Attempts
    <2> QED
      BY <1>1, <1>4, <2>1, <2>2, PostsStillCounted
  <1>6. ChargeInv'
    <2>1. \A d \in Deliveries : Charged(d) \subseteq Charged(d)'
      BY DEF Charged
    <2>2. \A d \in Deliveries : Attempts(d)' = Attempts(d)
      BY DEF Attempts
    <2> QED
      BY <1>1, <1>4, <2>1, <2>2, ChargesKept
  <1> QED
    BY <1>1, <1>2, <1>3, <1>4, <1>5, <1>6

(* A loss may take back the charge of the job it hits, and is counted.     *)
LEMMA CrashKeeps ==
    ASSUME IndInv, NEW j \in Jobs, Crash(j)
    PROVE  IndInv'
  <1> USE ConstantsAssumption DEF IndInv, TypeOK, Row, State, Phases, JobInv, RunInv,
                                  RowInv, Crash, histVars
  <1>1. TypeOK'
    OBVIOUS
  <1>2. JobInv' /\ RunInv' /\ RowInv'
    OBVIOUS
  <1>3. DeadIsJustified'
    BY DEF DeadIsJustified
  <1>4. IsFiniteSet(Published')
    <2>1. Published' = Published
      BY DEF Published
    <2> QED
      BY <2>1
  <1>5. PostInv'
    <2>1. \A d \in Deliveries : Posting(d)' \subseteq Posting(d)
      BY DEF Posting
    <2>2. \A d \in Deliveries : Attempts(d)' = Attempts(d) /\ Attempts(d) \in Nat
      BY DEF Attempts
    <2> QED
      BY <1>1, <1>4, <2>1, <2>2, PostsStillCounted
  <1>6. ChargeInv'
    <2>1. \A d \in Deliveries : Charged(d) \ {j} \subseteq Charged(d)'
      BY DEF Charged
    <2>2. \A d \in Deliveries : Attempts(d)' = Attempts(d)
      BY DEF Attempts
    <2> QED
      BY <1>1, <1>4, <2>1, <2>2, ChargeLost
  <1> QED
    BY <1>1, <1>2, <1>3, <1>4, <1>5, <1>6

(* A duplicated message is a fresh job.                                    *)
LEMMA DuplicateKeeps ==
    ASSUME IndInv, NEW j \in Jobs, NEW k \in Jobs, Duplicate(j, k)
    PROVE  IndInv'
  <1> USE ConstantsAssumption DEF IndInv, TypeOK, Row, State, Phases, JobInv, RunInv,
                                  RowInv, Duplicate, histVars
  <1>1. TypeOK'
    OBVIOUS
  <1>2. JobInv' /\ RunInv' /\ RowInv'
    OBVIOUS
  <1>3. DeadIsJustified'
    BY DEF DeadIsJustified
  <1>4. IsFiniteSet(Published')
    <2>1. Published' \subseteq Published \cup {k}
      BY DEF Published
    <2> QED
      BY <2>1, OneMorePublished
  <1>5. PostInv'
    <2>1. \A d \in Deliveries : Posting(d)' \subseteq Posting(d)
      BY DEF Posting
    <2>2. \A d \in Deliveries : Attempts(d)' = Attempts(d) /\ Attempts(d) \in Nat
      BY DEF Attempts
    <2> QED
      BY <1>1, <1>4, <2>1, <2>2, PostsStillCounted
  <1>6. ChargeInv'
    <2>1. \A d \in Deliveries : Charged(d) \subseteq Charged(d)'
      BY DEF Charged
    <2>2. \A d \in Deliveries : Attempts(d)' = Attempts(d)
      BY DEF Attempts
    <2> QED
      BY <1>1, <1>4, <2>1, <2>2, ChargesKept
  <1> QED
    BY <1>1, <1>2, <1>3, <1>4, <1>5, <1>6

(* So may a fault.                                                         *)
LEMMA FaultKeeps ==
    ASSUME IndInv, NEW j \in Jobs, Fault(j)
    PROVE  IndInv'
  <1> USE ConstantsAssumption DEF IndInv, TypeOK, Row, State, Phases, JobInv, RunInv,
                                  RowInv, Fault, Raises, Ends, histVars
  <1>1. TypeOK'
    OBVIOUS
  <1>2. JobInv' /\ RunInv' /\ RowInv'
    OBVIOUS
  <1>3. DeadIsJustified'
    BY DEF DeadIsJustified
  <1>4. IsFiniteSet(Published')
    <2>1. Published' = Published
      BY DEF Published
    <2> QED
      BY <2>1
  <1>5. PostInv'
    <2>1. \A d \in Deliveries : Posting(d)' \subseteq Posting(d)
      BY DEF Posting
    <2>2. \A d \in Deliveries : Attempts(d)' = Attempts(d) /\ Attempts(d) \in Nat
      BY DEF Attempts
    <2> QED
      BY <1>1, <1>4, <2>1, <2>2, PostsStillCounted
  <1>6. ChargeInv'
    <2>1. \A d \in Deliveries : Charged(d) \ {j} \subseteq Charged(d)'
      BY DEF Charged
    <2>2. \A d \in Deliveries : Attempts(d)' = Attempts(d)
      BY DEF Attempts
    <2> QED
      BY <1>1, <1>4, <2>1, <2>2, ChargeLost
  <1> QED
    BY <1>1, <1>2, <1>3, <1>4, <1>5, <1>6

(* So may a fault that is retried.                                         *)
LEMMA FaultRetriedKeeps ==
    ASSUME IndInv, NEW j \in Jobs, FaultRetried(j)
    PROVE  IndInv'
  <1> USE ConstantsAssumption DEF IndInv, TypeOK, Row, State, Phases, JobInv, RunInv,
                                  RowInv, FaultRetried, Raises, Retry, histVars
  <1>1. TypeOK'
    OBVIOUS
  <1>2. JobInv' /\ RunInv' /\ RowInv'
    OBVIOUS
  <1>3. DeadIsJustified'
    BY DEF DeadIsJustified
  <1>4. IsFiniteSet(Published')
    <2>1. Published' = Published
      BY DEF Published
    <2> QED
      BY <2>1
  <1>5. PostInv'
    <2>1. \A d \in Deliveries : Posting(d)' \subseteq Posting(d)
      BY DEF Posting
    <2>2. \A d \in Deliveries : Attempts(d)' = Attempts(d) /\ Attempts(d) \in Nat
      BY DEF Attempts
    <2> QED
      BY <1>1, <1>4, <2>1, <2>2, PostsStillCounted
  <1>6. ChargeInv'
    <2>1. \A d \in Deliveries : Charged(d) \ {j} \subseteq Charged(d)'
      BY DEF Charged
    <2>2. \A d \in Deliveries : Attempts(d)' = Attempts(d)
      BY DEF Attempts
    <2> QED
      BY <1>1, <1>4, <2>1, <2>2, ChargeLost
  <1> QED
    BY <1>1, <1>2, <1>3, <1>4, <1>5, <1>6

(* retry_delivery publishes one more job.                                  *)
LEMMA RetryDeliveryKeeps ==
    ASSUME IndInv, NEW d \in Deliveries, NEW j \in Jobs, RetryDelivery(d, j)
    PROVE  IndInv'
  <1> USE ConstantsAssumption DEF IndInv, TypeOK, Row, State, Phases, JobInv, RunInv,
                                  RowInv, RetryDelivery, Publish, Unlocked, histVars
  <1>1. TypeOK'
    OBVIOUS
  <1>2. JobInv' /\ RunInv' /\ RowInv'
    OBVIOUS
  <1>3. DeadIsJustified'
    BY DEF DeadIsJustified
  <1>4. IsFiniteSet(Published')
    <2>1. Published' \subseteq Published \cup {j}
      BY DEF Published
    <2> QED
      BY <2>1, OneMorePublished
  <1>5. PostInv'
    <2>1. \A e \in Deliveries : Posting(e)' \subseteq Posting(e)
      BY DEF Posting
    <2>2. \A e \in Deliveries : Attempts(e)' = Attempts(e) /\ Attempts(e) \in Nat
      BY DEF Attempts
    <2> QED
      BY <1>1, <1>4, <2>1, <2>2, PostsStillCounted
  <1>6. ChargeInv'
    <2>1. \A e \in Deliveries : Charged(e) \subseteq Charged(e)'
      BY DEF Charged
    <2>2. \A e \in Deliveries : Attempts(e)' = Attempts(e)
      BY DEF Attempts
    <2> QED
      BY <1>1, <1>4, <2>1, <2>2, ChargesKept
  <1> QED
    BY <1>1, <1>2, <1>3, <1>4, <1>5, <1>6

(* Its commit revives a dead delivery without touching the count.          *)
LEMMA RetryCommitKeeps ==
    ASSUME IndInv, NEW d \in Deliveries, RetryCommit(d)
    PROVE  IndInv'
  <1> USE ConstantsAssumption DEF IndInv, TypeOK, Row, State, Phases, JobInv, RunInv,
                                  RowInv, RetryCommit, jobVars, histVars
  <1>1. TypeOK'
    OBVIOUS
  <1>2. JobInv' /\ RunInv' /\ RowInv'
    OBVIOUS
  <1>3. DeadIsJustified'
    BY DEF DeadIsJustified
  <1>4. IsFiniteSet(Published')
    <2>1. Published' = Published
      BY DEF Published
    <2> QED
      BY <2>1
  <1>5. PostInv'
    <2>1. \A e \in Deliveries : Posting(e)' \subseteq Posting(e)
      BY DEF Posting
    <2>2. \A e \in Deliveries : Attempts(e)' = Attempts(e) /\ Attempts(e) \in Nat
      BY DEF Attempts
    <2> QED
      BY <1>1, <1>4, <2>1, <2>2, PostsStillCounted
  <1>6. ChargeInv'
    <2>1. \A e \in Deliveries : Charged(e) \subseteq Charged(e)'
      BY DEF Charged
    <2>2. \A e \in Deliveries : Attempts(e)' = Attempts(e)
      BY DEF Attempts
    <2> QED
      BY <1>1, <1>4, <2>1, <2>2, ChargesKept
  <1> QED
    BY <1>1, <1>2, <1>3, <1>4, <1>5, <1>6

(* Its rollback only releases the lock.                                    *)
LEMMA RetryAbortKeeps ==
    ASSUME IndInv, NEW d \in Deliveries, RetryAbort(d)
    PROVE  IndInv'
  <1> USE ConstantsAssumption DEF IndInv, TypeOK, Row, State, Phases, JobInv, RunInv,
                                  RowInv, RetryAbort, jobVars, histVars
  <1>1. TypeOK'
    OBVIOUS
  <1>2. JobInv' /\ RunInv' /\ RowInv'
    OBVIOUS
  <1>3. DeadIsJustified'
    BY DEF DeadIsJustified
  <1>4. IsFiniteSet(Published')
    <2>1. Published' = Published
      BY DEF Published
    <2> QED
      BY <2>1
  <1>5. PostInv'
    <2>1. \A e \in Deliveries : Posting(e)' \subseteq Posting(e)
      BY DEF Posting
    <2>2. \A e \in Deliveries : Attempts(e)' = Attempts(e) /\ Attempts(e) \in Nat
      BY DEF Attempts
    <2> QED
      BY <1>1, <1>4, <2>1, <2>2, PostsStillCounted
  <1>6. ChargeInv'
    <2>1. \A e \in Deliveries : Charged(e) \subseteq Charged(e)'
      BY DEF Charged
    <2>2. \A e \in Deliveries : Attempts(e)' = Attempts(e)
      BY DEF Attempts
    <2> QED
      BY <1>1, <1>4, <2>1, <2>2, ChargesKept
  <1> QED
    BY <1>1, <1>2, <1>3, <1>4, <1>5, <1>6

(* Deactivating only widens what justifies "dead".                         *)
LEMMA DeactivateWebhookKeeps ==
    ASSUME IndInv, NEW d \in Deliveries, DeactivateWebhook(d)
    PROVE  IndInv'
  <1> USE ConstantsAssumption DEF IndInv, TypeOK, Row, State, Phases, JobInv, RunInv,
                                  RowInv, DeactivateWebhook, Unlocked, jobVars, histVars
  <1>1. TypeOK'
    OBVIOUS
  <1>2. JobInv' /\ RunInv' /\ RowInv'
    OBVIOUS
  <1>3. DeadIsJustified'
    BY DEF DeadIsJustified
  <1>4. IsFiniteSet(Published')
    <2>1. Published' = Published
      BY DEF Published
    <2> QED
      BY <2>1
  <1>5. PostInv'
    <2>1. \A e \in Deliveries : Posting(e)' \subseteq Posting(e)
      BY DEF Posting
    <2>2. \A e \in Deliveries : Attempts(e)' = Attempts(e) /\ Attempts(e) \in Nat
      BY DEF Attempts
    <2> QED
      BY <1>1, <1>4, <2>1, <2>2, PostsStillCounted
  <1>6. ChargeInv'
    <2>1. \A e \in Deliveries : Charged(e) \subseteq Charged(e)'
      BY DEF Charged
    <2>2. \A e \in Deliveries : Attempts(e)' = Attempts(e)
      BY DEF Attempts
    <2> QED
      BY <1>1, <1>4, <2>1, <2>2, ChargesKept
  <1> QED
    BY <1>1, <1>2, <1>3, <1>4, <1>5, <1>6

-----------------------------------------------------------------------------
(* The theorems                                                            *)

(* Every step keeps the invariant.                                         *)
LEMMA NextKeeps == IndInv /\ [Next]_vars => IndInv'
  <1> SUFFICES ASSUME IndInv, [Next]_vars PROVE IndInv'
    OBVIOUS
  <1>1. CASE EmitStep \/ EmitAbort
    BY <1>1, EmitPublishKeeps, EmitCommitKeeps, EmitAbortKeeps DEF EmitStep
  <1>2. CASE \E j \in Jobs : JobStep(j)
    BY <1>2, LoadInvisibleKeeps, LoadSettledKeeps, LoadInactiveKeeps, LoadRejectedKeeps,
       LoadKeeps, PostKeeps, SettleDeliveredKeeps, SettleDeadKeeps, SettleRetryingKeeps
    DEF JobStep
  <1>3. CASE \E j \in Jobs : Crash(j) \/ Fault(j) \/ FaultRetried(j)
    BY <1>3, CrashKeeps, FaultKeeps, FaultRetriedKeeps
  <1>4. CASE \E j, k \in Jobs : Duplicate(j, k)
    BY <1>4, DuplicateKeeps
  <1>5. CASE \E d \in Deliveries : RetryEnds(d) \/ DeactivateWebhook(d)
    BY <1>5, RetryCommitKeeps, RetryAbortKeeps, DeactivateWebhookKeeps DEF RetryEnds
  <1>6. CASE \E d \in Deliveries, j \in Jobs : RetryDelivery(d, j)
    BY <1>6, RetryDeliveryKeeps
  <1>7. CASE UNCHANGED vars
    <2>1. TypeOK' /\ JobInv' /\ RunInv' /\ RowInv' /\ DeadIsJustified'
      BY <1>7 DEF IndInv, vars, TypeOK, JobInv, RunInv, RowInv, DeadIsJustified
    <2>2. Published' = Published
      BY <1>7 DEF vars, Published
    <2>3. \A d \in Deliveries : /\ Posting(d)' = Posting(d)
                                /\ Charged(d)' = Charged(d)
                                /\ Attempts(d)' = Attempts(d)
      BY <1>7 DEF vars, Posting, Charged, Attempts
    <2>4. PostInv' /\ ChargeInv'
      BY <1>7, <2>3 DEF IndInv, vars, PostInv, ChargeInv
    <2> QED
      BY <2>1, <2>2, <2>4 DEF IndInv
  <1> QED
    BY <1>1, <1>2, <1>3, <1>4, <1>5, <1>6, <1>7 DEF Next

(* The invariant holds in every reachable state.                           *)
LEMMA InvHolds == Spec => []IndInv
  BY InitInv, NextKeeps, PTL DEF Spec

(* Rows, jobs and counters keep their types: retries within max_retries,   *)
(* and a job only ever reads "pending" or "retrying".                      *)
THEOREM TypeCorrect == Spec => []TypeOK
  <1>1. IndInv => TypeOK
    BY DEF IndInv
  <1> QED
    BY <1>1, InvHolds, PTL

(* Every POST has a committed attempt, whatever crashes, with any number   *)
(* of jobs for the same delivery: the job's first transaction commits the  *)
(* increment under the row lock before the POST is sent.                   *)
THEOREM PostsAlwaysCounted == Spec => []PostsCounted
  <1>1. ASSUME IndInv PROVE PostsCounted
    <2> SUFFICES ASSUME NEW d \in Deliveries PROVE posts[d] <= Attempts(d)
      BY DEF PostsCounted, Attempts
    <2>1. Posting(d) \subseteq Published
      BY ConstantsAssumption DEF Posting, Published
    <2>2. Cardinality(Posting(d)) \in Nat
      BY <1>1, <2>1, FS_Subset, FS_CardinalityType DEF IndInv
    <2>3. Attempts(d) \in Nat /\ posts[d] \in Nat
      BY <1>1, AttemptsType DEF IndInv
    <2> QED
      BY <1>1, <2>2, <2>3 DEF IndInv, PostInv
  <1> QED
    BY <1>1, InvHolds, PTL

(* A delivery is dead only with its attempts used up, an inactive endpoint *)
(* or a rejected target, although SettleDead decides on a stale count.     *)
THEOREM DeadAlwaysJustified == Spec => []DeadIsJustified
  <1>1. IndInv => DeadIsJustified
    BY DEF IndInv
  <1> QED
    BY <1>1, InvHolds, PTL

(* However many jobs run for a delivery, each adds at most one attempt at  *)
(* or past the limit, and only a loss or a fault lets it add another.      *)
THEOREM AttemptsAlwaysBounded == Spec => []AttemptsBounded
  <1>1. ASSUME IndInv PROVE AttemptsBounded
    <2> SUFFICES ASSUME NEW d \in Deliveries, row[d] # Null
                 PROVE  row[d].attempts <=
                           AttemptLimit - 1 + Cardinality(JobsOf(d)) + crashes + faults
      BY DEF AttemptsBounded
    <2>1. Charged(d) \subseteq JobsOf(d) /\ JobsOf(d) \subseteq Published
      BY ConstantsAssumption DEF Charged, JobsOf, Published
    <2>2. IsFiniteSet(JobsOf(d))
      BY <1>1, <2>1, FS_Subset DEF IndInv
    <2>3. /\ Cardinality(Charged(d)) <= Cardinality(JobsOf(d))
          /\ Cardinality(JobsOf(d)) \in Nat /\ Cardinality(Charged(d)) \in Nat
      BY <2>1, <2>2, FS_Subset, FS_CardinalityType
    <2>4. row[d].attempts <=
             AttemptLimit - 1 + Cardinality(Charged(d)) + crashes + faults
      BY <1>1 DEF IndInv, ChargeInv, Attempts
    <2>5. crashes \in Nat /\ faults \in Nat /\ row[d].attempts \in Nat
      BY <1>1 DEF IndInv, TypeOK, Row
    <2> QED
      BY <2>3, <2>4, <2>5, ConstantsAssumption
  <1> QED
    BY <1>1, InvHolds, PTL
=============================================================================
