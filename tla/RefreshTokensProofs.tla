------------------------- MODULE RefreshTokensProofs -------------------------
(***************************************************************************)
(* For any number of tokens and open transactions: a session has one live  *)
(* token, rotation never forks, a logout is final and no session is lost.  *)
(*                                                                         *)
(* The invariant behind them says what the row lock of SELECT ... FOR      *)
(* UPDATE keeps true until the transaction ends: the presented token is    *)
(* still unrevoked and belongs to nobody else's transaction.               *)
(***************************************************************************)
EXTENDS RefreshTokens, TLAPS

(* What an open transaction has read is still so.                          *)
LockInv ==
    \A w \in Connections : tx[w] # Null =>
        /\ tx[w].kind = "login" => tx[w].old = Null /\ tx[w].family = tx[w].new
        /\ tx[w].kind # "login" =>
              /\ tx[w].old \in Tokens
              /\ Unrevoked(tx[w].old)
              /\ row[tx[w].old].family = tx[w].family
        /\ tx[w].kind = "logout" <=> tx[w].new = Null

(* Open transactions work on different tokens.                             *)
LocksApart ==
    \A v, w \in Connections : tx[v] # Null /\ tx[w] # Null /\ v # w =>
        /\ tx[v].old = tx[w].old => tx[v].old = Null
        /\ tx[v].new = tx[w].new => tx[v].new = Null

(* Nothing committed refers to token t.                                    *)
Unmentioned(t) ==
    /\ row[t] = Null
    /\ t \notin closed
    /\ \A u \in Tokens : parent[u] # t
    /\ \A u \in Tokens : row[u] # Null => row[u].family # t

(* A token that is not issued, or not committed, is mentioned nowhere.     *)
FreshInv ==
    /\ \A t \in Tokens \ issued : Unmentioned(t)
    /\ \A w \in Connections : tx[w] # Null /\ tx[w].new # Null =>
          tx[w].new \in issued /\ Unmentioned(tx[w].new)

IndInv ==
    /\ TypeOK
    /\ LockInv
    /\ LocksApart
    /\ FreshInv
    /\ OneLiveToken
    /\ NoFork
    /\ LogoutIsFinal
    /\ SessionKept

-----------------------------------------------------------------------------
(* The initial states                                                      *)

(* No token is issued and no transaction is open at the start.             *)
LEMMA InitInv == Init => IndInv
  <1> SUFFICES ASSUME Init PROVE IndInv
    OBVIOUS
  <1>1. TypeOK
    BY DEF Init, TypeOK
  <1>2. LockInv /\ LocksApart
    BY DEF Init, LockInv, LocksApart
  <1>3. FreshInv
    BY NullAssumption DEF Init, FreshInv, Unmentioned
  <1>4. OneLiveToken /\ NoFork /\ LogoutIsFinal /\ SessionKept
    BY DEF Init, OneLiveToken, NoFork, LogoutIsFinal, SessionKept, Unrevoked
  <1> QED
    BY <1>1, <1>2, <1>3, <1>4 DEF IndInv

-----------------------------------------------------------------------------
(* One lemma per action                                                    *)

(* What the properties speak of is not changed by opening or rolling back  *)
(* a transaction.                                                          *)
LEMMA CommittedPartKeeps ==
    ASSUME OneLiveToken, NoFork, LogoutIsFinal, SessionKept,
           UNCHANGED <<row, parent, closed, lapsed>>
    PROVE  OneLiveToken' /\ NoFork' /\ LogoutIsFinal' /\ SessionKept'
  BY DEF OneLiveToken, NoFork, LogoutIsFinal, SessionKept, Unrevoked

(* Login opens a transaction that locks nothing and holds a fresh token.   *)
LEMMA LoginKeeps ==
    ASSUME IndInv, NEW w \in Connections, NEW n \in Tokens, Login(w, n)
    PROVE  IndInv'
  <1> USE NullAssumption DEF IndInv, TypeOK, Tx, Login
  <1>1. TypeOK'
    OBVIOUS
  <1>2. LockInv'
    BY DEF LockInv, Unrevoked
  <1>3. LocksApart'
    BY DEF LocksApart, FreshInv
  <1>4. FreshInv'
    BY DEF FreshInv, Unmentioned
  <1>5. OneLiveToken' /\ NoFork' /\ LogoutIsFinal' /\ SessionKept'
    BY CommittedPartKeeps
  <1> QED
    BY <1>1, <1>2, <1>3, <1>4, <1>5 DEF IndInv

(* Refresh locks a token nobody else has locked.                           *)
LEMMA RefreshKeeps ==
    ASSUME IndInv, NEW w \in Connections, NEW t \in Tokens, NEW n \in Tokens,
           Refresh(w, t, n)
    PROVE  IndInv'
  <1> USE NullAssumption DEF IndInv, TypeOK, Refresh
  <1>1. row[t] \in Row /\ row[t].family \in Tokens
    BY DEF Unrevoked, Row
  <1>2. TypeOK'
    BY <1>1 DEF Tx
  <1>3. LockInv'
    BY <1>1 DEF LockInv, Unrevoked, Tx
  <1>4. LocksApart'
    BY DEF LocksApart, FreshInv, Unlocked, Tx
  <1>5. FreshInv'
    BY DEF FreshInv, Unmentioned, Tx
  <1>6. OneLiveToken' /\ NoFork' /\ LogoutIsFinal' /\ SessionKept'
    BY CommittedPartKeeps
  <1> QED
    BY <1>2, <1>3, <1>4, <1>5, <1>6 DEF IndInv

(* So does Logout.                                                         *)
LEMMA LogoutKeeps ==
    ASSUME IndInv, NEW w \in Connections, NEW t \in Tokens, Logout(w, t)
    PROVE  IndInv'
  <1> USE NullAssumption DEF IndInv, TypeOK, Logout
  <1>1. row[t] \in Row /\ row[t].family \in Tokens
    BY DEF Unrevoked, Row
  <1>2. TypeOK'
    BY <1>1 DEF Tx
  <1>3. LockInv'
    BY <1>1 DEF LockInv, Unrevoked, Tx
  <1>4. LocksApart'
    BY DEF LocksApart, Unlocked, Tx
  <1>5. FreshInv'
    BY DEF FreshInv, Unmentioned, Tx
  <1>6. OneLiveToken' /\ NoFork' /\ LogoutIsFinal' /\ SessionKept'
    BY CommittedPartKeeps
  <1> QED
    BY <1>2, <1>3, <1>4, <1>5, <1>6 DEF IndInv

(* The row of every token after a commit.                                  *)
LEMMA CommitRows ==
    ASSUME IndInv, NEW w \in Connections, Commit(w), NEW t \in Tokens
    PROVE  /\ t = tx[w].new => row'[t] = [family |-> tx[w].family, revoked |-> "no"]
           /\ t = tx[w].old => row'[t] = [family |-> tx[w].family, revoked |-> "yes"]
           /\ t # tx[w].new /\ t # tx[w].old => row'[t] = row[t]
  <1>1. t = tx[w].old => /\ Unrevoked(t)
                         /\ row[t].family = tx[w].family
    BY NullAssumption DEF IndInv, LockInv, Commit
  <1>2. t = tx[w].new => row[t] = Null
    BY NullAssumption DEF IndInv, FreshInv, Unmentioned, Commit
  <1>3. row'[t] = Written(tx[w], t)
    BY DEF Commit
  <1> QED
    BY <1>1, <1>2, <1>3 DEF Written, Unrevoked

(* A commit replaces the locked token, ends its family, or opens a new one.*)
LEMMA CommitKeeps ==
    ASSUME IndInv, NEW w \in Connections, Commit(w)
    PROVE  IndInv'
  <1> DEFINE x == tx[w]
  <1>1. x \in Tx /\ x.family \in Tokens /\ x.new \in Tokens \cup {Null}
        /\ x.old \in Tokens \cup {Null} /\ x.kind \in {"login", "refresh", "logout"}
    BY NullAssumption DEF Commit, IndInv, TypeOK, Tx
  <1>2. /\ x.kind = "login" => x.old = Null /\ x.family = x.new
        /\ x.kind # "login" => /\ x.old \in Tokens
                               /\ Unrevoked(x.old)
                               /\ row[x.old].family = x.family
        /\ x.kind = "logout" <=> x.new = Null
        /\ x.new # Null => x.new \in issued /\ Unmentioned(x.new)
    BY DEF Commit, IndInv, LockInv, FreshInv
  <1>3. \A t \in Tokens :
           /\ t = x.new => row'[t] = [family |-> x.family, revoked |-> "no"]
           /\ t = x.old => row'[t] = [family |-> x.family, revoked |-> "yes"]
           /\ t # x.new /\ t # x.old => row'[t] = row[t]
    BY CommitRows
  <1>4. \A t \in Tokens : parent'[t] = IF t = x.new THEN x.old ELSE parent[t]
    BY DEF Commit
  <1>5. closed' = IF x.kind = "logout" THEN closed \cup {x.family} ELSE closed
    BY DEF Commit
  <1>6. \A v \in Connections : tx'[v] # Null => v # w /\ tx'[v] = tx[v]
    BY DEF Commit, IndInv, TypeOK
  <1>7. x.new # Null => x.new # x.old
    BY <1>2 DEF Unmentioned, Unrevoked
  <1>8. x # Null /\ UNCHANGED <<issued, expired, lapsed>>
    BY DEF Commit
  <1> HIDE DEF x
  <1>a. TypeOK'
    <2>1. \A t \in Tokens : row'[t] \in Row \cup {Null}
      BY <1>1, <1>3 DEF IndInv, TypeOK, Row
    <2>2. row' \in [Tokens -> Row \cup {Null}]
      BY <2>1 DEF Commit
    <2>3. parent' \in [Tokens -> Tokens \cup {Null}]
      BY <1>1 DEF Commit, IndInv, TypeOK, x
    <2>4. tx' \in [Connections -> Tx \cup {Null}]
      BY DEF Commit, IndInv, TypeOK
    <2> QED
      BY <1>1, <1>5, <1>8, <2>2, <2>3, <2>4 DEF IndInv, TypeOK
  <1>b. LockInv'
    <2> SUFFICES ASSUME NEW v \in Connections, tx[v] # Null, v # w, tx'[v] = tx[v],
                        tx[v].kind # "login"
                 PROVE  /\ tx[v].old \in Tokens
                        /\ Unrevoked(tx[v].old)'
                        /\ row'[tx[v].old].family = tx[v].family
      BY <1>6 DEF LockInv, IndInv, Unrevoked
    <2>1. /\ tx[v].old \in Tokens
          /\ Unrevoked(tx[v].old)
          /\ row[tx[v].old].family = tx[v].family
      BY DEF LockInv, IndInv
    <2>2. tx[v].old # x.old
      BY <2>1, <1>8, NullAssumption DEF IndInv, LocksApart, x
    <2>3. tx[v].old # x.new
      BY <2>1, <1>2, NullAssumption DEF Unmentioned, Unrevoked
    <2> QED
      BY <2>1, <2>2, <2>3, <1>3 DEF Unrevoked
  <1>c. LocksApart'
    BY <1>6 DEF LocksApart, IndInv
  <1>d. FreshInv'
    <2>1. ASSUME NEW n \in Tokens, Unmentioned(n), n # x.new
          PROVE  Unmentioned(n)'
      <3>1. n # x.old /\ n # x.family
        BY <2>1, <1>2, NullAssumption DEF Unmentioned, Unrevoked
      <3>2. row'[n] = Null /\ n \notin closed'
        BY <2>1, <3>1, <1>3, <1>5 DEF Unmentioned
      <3>3. \A u \in Tokens : parent'[u] # n
        BY <2>1, <3>1, <1>4 DEF Unmentioned
      <3>4. \A u \in Tokens : row'[u] # Null => row'[u].family # n
        BY <2>1, <3>1, <1>3 DEF Unmentioned
      <3> QED
        BY <3>2, <3>3, <3>4 DEF Unmentioned
    <2>2. ASSUME NEW t \in Tokens \ issued' PROVE Unmentioned(t)'
      BY <2>1, <2>2, <1>2, <1>8, NullAssumption DEF IndInv, FreshInv
    <2>3. ASSUME NEW v \in Connections, tx'[v] # Null, tx'[v].new # Null
          PROVE  (tx[v].new \in issued /\ Unmentioned(tx[v].new))'
      <3>1. tx[v] # Null /\ tx'[v] = tx[v] /\ v # w
        BY <2>3, <1>6
      <3>2. tx[v].new \in Tokens /\ tx[v].new \in issued /\ Unmentioned(tx[v].new)
        BY <2>3, <3>1 DEF IndInv, FreshInv, TypeOK
      <3>3. tx[v].new # x.new
        BY <2>3, <3>1, <1>8 DEF IndInv, LocksApart, x
      <3> QED
        BY <3>1, <3>2, <3>3, <2>1, <1>8 DEF Unmentioned
    <2> QED
      BY <2>2, <2>3 DEF FreshInv
  <1>e. \A t \in Tokens :
           Unrevoked(t)' <=> t = x.new \/ (Unrevoked(t) /\ t # x.old)
    BY <1>1, <1>2, <1>3, <1>7, NullAssumption DEF Unrevoked, Row
  <1>f. OneLiveToken'
    BY <1>2, <1>3, <1>e DEF IndInv, OneLiveToken, Unmentioned, Unrevoked
  <1>g. NoFork'
    <2> SUFFICES ASSUME NEW t \in Tokens, NEW u \in Tokens, parent'[t] # Null
                 PROVE  /\ parent'[u] = parent'[t] => t = u
                        /\ ~Unrevoked(parent[t])'
      BY DEF NoFork
    <2>1. ~Unrevoked(parent[t])'
      BY <1>1, <1>2, <1>4, <1>7, <1>e, NullAssumption
      DEF IndInv, TypeOK, NoFork, Unmentioned
    <2>2. parent'[u] = parent'[t] => t = u
      BY <1>2, <1>4 DEF IndInv, NoFork
    <2> QED
      BY <2>1, <2>2
  <1>h. LogoutIsFinal'
    BY <1>1, <1>2, <1>3, <1>5, <1>7, <1>e, NullAssumption
    DEF IndInv, LogoutIsFinal, OneLiveToken, Unmentioned
  <1>i. SessionKept'
    <2> SUFFICES ASSUME NEW f \in Tokens, row'[f] # Null,
                        row'[f].family \notin closed' \cup lapsed'
                 PROVE  \E t \in Tokens : Unrevoked(t)' /\ row'[t].family = row'[f].family
      BY DEF SessionKept
    <2>1. CASE row'[f].family = x.family
      BY <2>1, <1>1, <1>2, <1>3, <1>5, <1>e DEF IndInv, TypeOK
    <2>2. CASE row'[f].family # x.family
      <3>1. row'[f] = row[f]
        BY <2>2, <1>3
      <3>2. row[f].family \notin closed \cup lapsed
        BY <3>1, <1>5, <1>8
      <3>3. PICK t \in Tokens : Unrevoked(t) /\ row[t].family = row[f].family
        BY <3>1, <3>2 DEF IndInv, SessionKept
      <3>4. t # x.old /\ t # x.new
        BY <2>2, <3>1, <3>3, <1>2, NullAssumption DEF Unmentioned, Unrevoked
      <3> QED
        BY <3>1, <3>3, <3>4, <1>3, <1>e
    <2> QED
      BY <2>1, <2>2
  <1> QED
    BY <1>a, <1>b, <1>c, <1>d, <1>f, <1>g, <1>h, <1>i DEF IndInv

(* Rolling back drops the writes.                                          *)
LEMMA AbortKeeps ==
    ASSUME IndInv, NEW w \in Connections, Abort(w)
    PROVE  IndInv'
  <1> USE DEF IndInv, TypeOK, Abort
  <1>1. TypeOK'
    OBVIOUS
  <1>2. LockInv' /\ LocksApart'
    BY DEF LockInv, LocksApart, Unrevoked
  <1>3. FreshInv'
    BY DEF FreshInv, Unmentioned
  <1>4. OneLiveToken' /\ NoFork' /\ LogoutIsFinal' /\ SessionKept'
    BY CommittedPartKeeps
  <1> QED
    BY <1>1, <1>2, <1>3, <1>4 DEF IndInv

(* Expiry concerns no invariant.                                           *)
LEMMA ExpireKeeps ==
    ASSUME IndInv, NEW t \in Tokens, Expire(t)
    PROVE  IndInv'
  <1> USE DEF IndInv, TypeOK, Expire
  <1>1. TypeOK'
    OBVIOUS
  <1>2. LockInv' /\ LocksApart' /\ FreshInv'
    BY DEF LockInv, LocksApart, Unrevoked, FreshInv, Unmentioned
  <1>3. OneLiveToken' /\ NoFork' /\ LogoutIsFinal' /\ SessionKept'
    BY CommittedPartKeeps
  <1> QED
    BY <1>1, <1>2, <1>3 DEF IndInv

(* The clean-up deletes no locked row, and ends the families it empties.   *)
LEMMA CleanupKeeps ==
    ASSUME IndInv, NEW S \in SUBSET expired, Cleanup(S)
    PROVE  IndInv'
  <1>1. S \subseteq Tokens
    BY DEF IndInv, TypeOK
  <1>2. \A t \in Tokens : row'[t] = IF t \in S THEN Null ELSE row[t]
    BY DEF Cleanup
  <1>3. \A t \in Tokens : Unrevoked(t)' <=> Unrevoked(t) /\ t \notin S
    BY <1>2 DEF Unrevoked
  <1>4. TypeOK'
    <2>1. \A t \in S : Unrevoked(t) => row[t].family \in Tokens
      BY <1>1 DEF IndInv, TypeOK, Unrevoked, Row
    <2>2. lapsed' \in SUBSET Tokens
      BY <2>1 DEF Cleanup, IndInv, TypeOK
    <2>3. row' \in [Tokens -> Row \cup {Null}]
      BY DEF Cleanup, IndInv, TypeOK
    <2> QED
      BY <2>2, <2>3 DEF Cleanup, IndInv, TypeOK
  <1>5. LockInv' /\ LocksApart'
    BY <1>1, <1>2, <1>3 DEF Cleanup, Unlocked, IndInv, LockInv, LocksApart
  <1>6. FreshInv'
    <2>1. ASSUME NEW n \in Tokens, Unmentioned(n) PROVE Unmentioned(n)'
      BY <2>1, <1>2 DEF Cleanup, Unmentioned
    <2> QED
      BY <2>1 DEF Cleanup, IndInv, FreshInv, TypeOK, Tx
  <1>7. OneLiveToken' /\ NoFork' /\ LogoutIsFinal'
    BY <1>2, <1>3, NullAssumption
    DEF Cleanup, IndInv, TypeOK, OneLiveToken, NoFork, LogoutIsFinal
  <1>8. SessionKept'
    <2> SUFFICES ASSUME NEW f \in Tokens, row'[f] # Null,
                        row'[f].family \notin closed' \cup lapsed'
                 PROVE  \E t \in Tokens : Unrevoked(t)' /\ row'[t].family = row'[f].family
      BY DEF SessionKept
    <2>1. row'[f] = row[f]
      BY <1>2
    <2>2. PICK t \in Tokens : Unrevoked(t) /\ row[t].family = row[f].family
      BY <2>1 DEF Cleanup, IndInv, SessionKept
    <2>3. t \notin S
      BY <2>1, <2>2 DEF Cleanup
    <2> QED
      BY <1>2, <1>3, <2>1, <2>2, <2>3
  <1> QED
    BY <1>4, <1>5, <1>6, <1>7, <1>8 DEF IndInv

-----------------------------------------------------------------------------
(* Every step keeps the invariant.                                         *)
LEMMA NextKeeps == IndInv /\ [Next]_vars => IndInv'
  <1> SUFFICES ASSUME IndInv, [Next]_vars PROVE IndInv'
    OBVIOUS
  <1>1. CASE UNCHANGED vars
    <2>1. OneLiveToken' /\ NoFork' /\ LogoutIsFinal' /\ SessionKept'
      BY <1>1, CommittedPartKeeps DEF vars, IndInv
    <2>2. TypeOK' /\ LocksApart'
      BY <1>1 DEF vars, IndInv, TypeOK, LocksApart
    <2>3. LockInv' /\ FreshInv'
      BY <1>1 DEF vars, IndInv, LockInv, FreshInv, Unmentioned, Unrevoked
    <2> QED
      BY <2>1, <2>2, <2>3 DEF IndInv
  <1>2. CASE \E w \in Connections, n \in Tokens : Login(w, n)
    BY <1>2, LoginKeeps
  <1>3. CASE \E w \in Connections, t, n \in Tokens : Refresh(w, t, n)
    BY <1>3, RefreshKeeps
  <1>4. CASE \E w \in Connections, t \in Tokens : Logout(w, t)
    BY <1>4, LogoutKeeps
  <1>5. CASE \E w \in Connections : Commit(w) \/ Abort(w)
    BY <1>5, CommitKeeps, AbortKeeps
  <1>6. CASE \E t \in Tokens : Expire(t)
    BY <1>6, ExpireKeeps
  <1>7. CASE \E S \in SUBSET expired : Cleanup(S)
    BY <1>7, CleanupKeeps
  <1> QED
    BY <1>1, <1>2, <1>3, <1>4, <1>5, <1>6, <1>7 DEF Next

(* The inductive invariant holds in every reachable state.                 *)
LEMMA Invariance == Spec => []IndInv
  BY InitInv, NextKeeps, PTL DEF Spec

-----------------------------------------------------------------------------
(* Every variable keeps its type.                                          *)
THEOREM TypeCorrect == Spec => []TypeOK
  <1>1. IndInv => TypeOK
    BY DEF IndInv
  <1> QED
    BY Invariance, <1>1, PTL

(* A token presented by any number of concurrent refreshes and logouts     *)
(* leaves its family with at most one live token.                          *)
THEOREM OneLive == Spec => []OneLiveToken
  <1>1. IndInv => OneLiveToken
    BY DEF IndInv
  <1> QED
    BY Invariance, <1>1, PTL

(* rotate_refresh_token gives a token at most one committed successor.     *)
THEOREM RotationIsAChain == Spec => []NoFork
  <1>1. IndInv => NoFork
    BY DEF IndInv
  <1> QED
    BY Invariance, <1>1, PTL

(* No refresh that races revoke_refresh_token survives it.                 *)
THEOREM LogoutHolds == Spec => []LogoutIsFinal
  <1>1. IndInv => LogoutIsFinal
    BY DEF IndInv
  <1> QED
    BY Invariance, <1>1, PTL

(* A failed or interrupted rotation never costs the session.               *)
THEOREM SessionHolds == Spec => []SessionKept
  <1>1. IndInv => SessionKept
    BY DEF IndInv
  <1> QED
    BY Invariance, <1>1, PTL
=============================================================================
