--------------------------- MODULE IdempotentStore ---------------------------
(***************************************************************************)
(* What the Idempotency-Key of TenantFlow promises a client, without       *)
(* transactions, rows or locks.                                            *)
(*                                                                         *)
(* Every call asks for one effect under a slot (an operation scope and a   *)
(* key) with a request hash.  The store remembers, per slot, the call      *)
(* whose effect the slot stands for.  A call either performs its effect on *)
(* a slot that remembers nothing, or is answered with the remembered       *)
(* effect of an equal request, or is refused; after a while a slot may be  *)
(* forgotten.                                                              *)
(***************************************************************************)
CONSTANTS Calls, Slots, Hashes, Null

VARIABLES asked,    \* asked[c]: the request of call c
          holder,   \* holder[s]: the call whose effect slot s remembers
          effects,  \* the calls whose effect is durable
          answer    \* answer[c]: what call c was told

vars == <<asked, holder, effects, answer>>

Requests == [slot : Slots, hash : Hashes]

NoAnswer == [kind |-> "none", body |-> Null]
Refusal == [kind |-> "error", body |-> Null]
Reuse == [kind |-> "key_reused", body |-> Null]
Created(c) == [kind |-> "created", body |-> c]
Replay(c) == [kind |-> "replay", body |-> c]

Init == /\ asked \in [Calls -> Requests]
        /\ holder = [s \in Slots |-> Null]
        /\ effects = {}
        /\ answer = [c \in Calls |-> NoAnswer]

(* The effect becomes durable; the client may still see a failure.         *)
Perform(c) ==
    /\ answer[c] = NoAnswer
    /\ holder[asked[c].slot] = Null
    /\ holder' = [holder EXCEPT ![asked[c].slot] = c]
    /\ effects' = effects \cup {c}
    /\ answer' = [answer EXCEPT ![c] = Created(c)]
    /\ UNCHANGED asked

(* The remembered effect belongs to an equal request.                      *)
Repeat(c) ==
    LET h == holder[asked[c].slot] IN
    /\ answer[c] = NoAnswer
    /\ h # Null
    /\ asked[h] = asked[c]
    /\ answer' = [answer EXCEPT ![c] = Replay(h)]
    /\ UNCHANGED <<asked, holder, effects>>

(* The remembered effect belongs to a different payload.                   *)
Mismatch(c) ==
    LET h == holder[asked[c].slot] IN
    /\ answer[c] = NoAnswer
    /\ h # Null
    /\ asked[h].hash # asked[c].hash
    /\ answer' = [answer EXCEPT ![c] = Reuse]
    /\ UNCHANGED <<asked, holder, effects>>

(* The call fails without an effect.  The response is produced before the  *)
(* transaction commits, so a failing commit may leave the client with a    *)
(* success that has no effect behind it.                                   *)
Fail(c) ==
    /\ answer[c] = NoAnswer
    /\ \E a \in {Refusal, Created(c)} : answer' = [answer EXCEPT ![c] = a]
    /\ UNCHANGED <<asked, holder, effects>>

(* Slots are forgotten once their records have expired.                    *)
Forget(S) ==
    /\ holder' = [s \in Slots |-> IF s \in S THEN Null ELSE holder[s]]
    /\ UNCHANGED <<asked, effects, answer>>

Next == \/ \E c \in Calls : Perform(c) \/ Repeat(c) \/ Mismatch(c) \/ Fail(c)
        \/ \E S \in SUBSET Slots : Forget(S)

Spec == Init /\ [][Next]_vars
=============================================================================
