---------------------------- MODULE RefreshTokens ----------------------------
(***************************************************************************)
(* Refresh tokens: login, rotation, logout and the clean-up of expired     *)
(* tokens, each in a transaction of its own.                               *)
(*                                                                         *)
(*   app/modules/auth/service.py   issue_token_pair, rotate_refresh_token, *)
(*                                 revoke_refresh_token                    *)
(*   app/db/session.py             get_session                             *)
(*   app/workers/tasks.py          cleanup_expired_state_task              *)
(*                                                                         *)
(* A token is a random secret that is never issued twice.  The family of a *)
(* token, a fresh UUID chosen at login, is named after the first token of  *)
(* the family.  SELECT ... FOR UPDATE locks the presented token until its  *)
(* transaction ends.  Requests that are refused (401) or that log out a    *)
(* revoked or unknown token change nothing and have no action.             *)
(***************************************************************************)
EXTENDS Naturals

CONSTANTS Tokens,       \* refresh tokens, never issued twice
          Connections,  \* database transactions that may be open at a time
          Null

VARIABLES row,      \* row[t]: committed refresh_tokens row, or Null
          tx,       \* tx[w]: the writes of the open transaction, or Null
          issued,   \* tokens handed to a client, committed or not
          expired,  \* committed tokens with expires_at <= now
          parent,   \* parent[t]: the token that t replaced (history)
          closed,   \* families ended by a logout (history)
          lapsed    \* families whose last token expired and was deleted (history)

vars == <<row, tx, issued, expired, parent, closed, lapsed>>

Row == [family : Tokens, revoked : {"no", "yes"}]
Tx == [kind : {"login", "refresh", "logout"},
       old : Tokens \cup {Null}, new : Tokens \cup {Null}, family : Tokens]

ASSUME NullAssumption == Null \notin Tokens /\ Null \notin Row /\ Null \notin Tx

TypeOK ==
    /\ row \in [Tokens -> Row \cup {Null}]
    /\ tx \in [Connections -> Tx \cup {Null}]
    /\ issued \in SUBSET Tokens
    /\ expired \in SUBSET Tokens
    /\ parent \in [Tokens -> Tokens \cup {Null}]
    /\ closed \in SUBSET Tokens
    /\ lapsed \in SUBSET Tokens

Init ==
    /\ row = [t \in Tokens |-> Null]
    /\ tx = [w \in Connections |-> Null]
    /\ issued = {}
    /\ expired = {}
    /\ parent = [t \in Tokens |-> Null]
    /\ closed = {}
    /\ lapsed = {}

-----------------------------------------------------------------------------
(* A committed token that has not been revoked.                            *)
Unrevoked(t) == row[t] # Null /\ row[t].revoked = "no"

\* Faulty variant: .with_for_update() is missing.
NeverLocked(t) == TRUE

(* No open transaction holds the row lock of t.                            *)
Unlocked(t) == \A w \in Connections : tx[w] # Null => tx[w].old # t

(* issue_token_pair without a family.                                      *)
Login(w, n) ==
    /\ tx[w] = Null
    /\ n \notin issued
    /\ tx' = [tx EXCEPT ![w] = [kind |-> "login", old |-> Null, new |-> n, family |-> n]]
    /\ issued' = issued \cup {n}
    /\ UNCHANGED <<row, expired, parent, closed, lapsed>>

(* rotate_refresh_token: the token is valid, its successor is inserted.    *)
Refresh(w, t, n) ==
    /\ tx[w] = Null
    /\ t \in issued
    /\ Unlocked(t)
    /\ Unrevoked(t)
    /\ t \notin expired
    /\ n \notin issued
    /\ tx' = [tx EXCEPT ![w] = [kind |-> "refresh", old |-> t, new |-> n,
                                family |-> row[t].family]]
    /\ issued' = issued \cup {n}
    /\ UNCHANGED <<row, expired, parent, closed, lapsed>>

\* Faulty variant: logout reads the token without locking it.
LogoutUnlocked(w, t) ==
    /\ tx[w] = Null
    /\ t \in issued
    /\ Unrevoked(t)
    /\ tx' = [tx EXCEPT ![w] = [kind |-> "logout", old |-> t, new |-> Null,
                                family |-> row[t].family]]
    /\ UNCHANGED <<row, issued, expired, parent, closed, lapsed>>

(* revoke_refresh_token; an expired token may still be revoked.            *)
Logout(w, t) ==
    /\ tx[w] = Null
    /\ t \in issued
    /\ Unlocked(t)
    /\ Unrevoked(t)
    /\ tx' = [tx EXCEPT ![w] = [kind |-> "logout", old |-> t, new |-> Null,
                                family |-> row[t].family]]
    /\ UNCHANGED <<row, issued, expired, parent, closed, lapsed>>

\* Faulty variant: token.revoked_at is not set.
WrittenUnrevoked(x, t) ==
    IF t = x.new THEN [family |-> x.family, revoked |-> "no"] ELSE row[t]

\* Faulty variant: the successor is not part of the rotation's transaction.
WrittenWithoutSuccessor(x, t) ==
    IF t = x.new /\ x.kind = "login" THEN [family |-> x.family, revoked |-> "no"]
    ELSE IF t = x.old /\ row[t] # Null THEN [family |-> row[t].family, revoked |-> "yes"]
    ELSE row[t]

\* Faulty variant: a login without a fresh family_id.
WrittenWithoutFamily(x, t) ==
    IF t = x.new THEN [family |-> x.old, revoked |-> "no"]
    ELSE IF t = x.old /\ row[t] # Null THEN [family |-> row[t].family, revoked |-> "yes"]
    ELSE row[t]

(* The table after the writes x: revoked_at of the old token is set, the   *)
(* new token is there.                                                     *)
Written(x, t) ==
    IF t = x.new THEN [family |-> x.family, revoked |-> "no"]
    ELSE IF t = x.old /\ row[t] # Null THEN [family |-> row[t].family, revoked |-> "yes"]
    ELSE row[t]

Commit(w) ==
    /\ tx[w] # Null
    /\ row' = [t \in Tokens |-> Written(tx[w], t)]
    /\ parent' = [t \in Tokens |-> IF t = tx[w].new THEN tx[w].old ELSE parent[t]]
    /\ closed' = IF tx[w].kind = "logout" THEN closed \cup {tx[w].family} ELSE closed
    /\ tx' = [tx EXCEPT ![w] = Null]
    /\ UNCHANGED <<issued, expired, lapsed>>

(* The account is unavailable, the request fails, or COMMIT fails.  The    *)
(* client may hold the new token; it is not valid.                         *)
Abort(w) ==
    /\ tx[w] # Null
    /\ tx' = [tx EXCEPT ![w] = Null]
    /\ UNCHANGED <<row, issued, expired, parent, closed, lapsed>>

Expire(t) ==
    /\ row[t] # Null
    /\ expired' = expired \cup {t}
    /\ UNCHANGED <<row, tx, issued, parent, closed, lapsed>>

(* DELETE ... WHERE expires_at < now, committed.  It has waited for the    *)
(* lock of every row it deletes; S are the tokens that had expired when it *)
(* started.                                                                *)
Cleanup(S) ==
    /\ \A t \in S : Unlocked(t)
    /\ row' = [t \in Tokens |-> IF t \in S THEN Null ELSE row[t]]
    /\ lapsed' = lapsed \cup {row[t].family : t \in {u \in S : Unrevoked(u)}}
    /\ UNCHANGED <<tx, issued, expired, parent, closed>>

-----------------------------------------------------------------------------
Next ==
    \/ \E w \in Connections, n \in Tokens : Login(w, n)
    \/ \E w \in Connections, t, n \in Tokens : Refresh(w, t, n)
    \/ \E w \in Connections, t \in Tokens : Logout(w, t)
    \/ \E w \in Connections : Commit(w) \/ Abort(w)
    \/ \E t \in Tokens : Expire(t)
    \/ \E S \in SUBSET expired : Cleanup(S)

Spec == Init /\ [][Next]_vars

-----------------------------------------------------------------------------
(* Properties                                                              *)

(* A family has at most one token that is not revoked: a token presented   *)
(* twice, even at the same moment, yields one successor.                   *)
OneLiveToken ==
    \A t, u \in Tokens :
        Unrevoked(t) /\ Unrevoked(u) /\ row[t].family = row[u].family => t = u

(* Rotation forms chains: no token has two committed successors, and a     *)
(* token with a successor is revoked.                                      *)
NoFork ==
    \A t, u \in Tokens : parent[t] # Null =>
        /\ parent[u] = parent[t] => t = u
        /\ ~Unrevoked(parent[t])

(* Once a logout has revoked the token of a family, no refresh, earlier or *)
(* later, leaves a token of that family usable.                            *)
LogoutIsFinal ==
    \A t \in Tokens : Unrevoked(t) => row[t].family \notin closed

(* A session is never lost half-way: a family that was opened and neither  *)
(* logged out nor expired has a token that is not revoked.                 *)
SessionKept ==
    \A f \in Tokens : row[f] # Null /\ row[f].family \notin closed \cup lapsed =>
        \E t \in Tokens : Unrevoked(t) /\ row[t].family = row[f].family
=============================================================================
