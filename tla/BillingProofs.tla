---------------------------- MODULE BillingProofs ----------------------------
(***************************************************************************)
(* For any organizations, events, keys and number of open requests: an     *)
(* event is applied once and to its own organization, a Checkout session   *)
(* is never another organization's, and a column of a subscription changes *)
(* only with an event that assigns it.                                     *)
(*                                                                         *)
(* Nothing locks the row a request has read.  What the proof rests on is   *)
(* what nobody else can undo before the request ends: its marker, its own  *)
(* INSERT of the first row, and the existence of a row it has found.       *)
(***************************************************************************)
EXTENDS Billing, TLAPS

(* Customer c, if any, is one that Stripe's events attach to o.            *)
Known(o, c) ==
    c # Null => \E e \in Events : EventData[e].customer = c /\ EventData[e].home = o

SubInv == \A o \in Orgs : sub[o] # Null => Known(o, sub[o].customer)

(* An event in progress is not recorded yet and works on its organization. *)
TxEvent(x) ==
    x.kind = "event" => /\ x.id \in Events \ marked
                        /\ x.org \in {Null, EventData[x.id].home}

(* A Checkout that has its session has the one Stripe keeps for the key.   *)
TxCheckout(x) ==
    x.kind = "checkout" =>
        /\ x.id \in Keys
        /\ x.at = "written" => stripe[x.id] # Null /\ stripe[x.id].org = x.org

(* Only an event may be without organization, and then has nothing to do.  *)
TxOrg(x) == x.org = Null => x.kind = "event" /\ x.at = "written"

(* The row is inserted by the step that says so.                           *)
TxFresh(x) == x.at \in {"resolved", "absent"} \/ x.org = Null => x.fresh = "no"

(* A row that was found is still there, an inserted one is still missing,  *)
(* and only an event has changed what was read, as it should.              *)
TxRow(x) ==
    x.org # Null /\ x.at \in {"loaded", "written"} =>
        /\ x.seen \in Row /\ x.new \in Row
        /\ IF x.fresh = "yes" THEN sub[x.org] = Null /\ x.seen = FreshRow
                              ELSE sub[x.org] # Null
        /\ Known(x.org, x.new.customer)
        /\ Known(x.org, x.seen.customer)
        /\ x.new # x.seen =>
              x.kind = "event" /\ x.new = AfterEvent(EventData[x.id], x.seen)

TxInv ==
    \A w \in Connections : tx[w] # Null =>
        /\ TxEvent(tx[w]) /\ TxCheckout(tx[w]) /\ TxOrg(tx[w])
        /\ TxFresh(tx[w]) /\ TxRow(tx[w])

(* Markers and first rows are inserted by one open transaction each.       *)
TxApart ==
    \A v, w \in Connections : tx[v] # Null /\ tx[w] # Null /\ v # w =>
        /\ ~(tx[v].kind = "event" /\ tx[w].kind = "event" /\ tx[v].id = tx[w].id)
        /\ ~(tx[v].fresh = "yes" /\ tx[w].fresh = "yes" /\ tx[v].org = tx[w].org)

IndInv ==
    /\ TypeOK
    /\ SubInv
    /\ TxInv
    /\ TxApart
    /\ AppliedOnce
    /\ SessionIsOwn

-----------------------------------------------------------------------------
(* Rows and events                                                         *)

(* What an event makes of a row is a row of the same organization.         *)
LEMMA AfterEventRow ==
    ASSUME NEW e \in Events, NEW row \in Row,
           Known(EventData[e].home, row.customer)
    PROVE  /\ AfterEvent(EventData[e], row) \in Row
           /\ Known(EventData[e].home, AfterEvent(EventData[e], row).customer)
  <1> DEFINE d == EventData[e]
  <1>1. d \in Event
    BY BillingAssumption
  <1>2. NewStatus(d) \in Status \/ d.type = "other"
    BY <1>1 DEF Event, NewStatus, ALLOWED_STRIPE_SUBSCRIPTION_STATES, RawStatus, Status
  <1>3. "status" \in Assigned(d) => NewStatus(d) \in Status
    BY <1>1, <1>2 DEF Assigned, Event
  <1>4. AfterEvent(d, row) \in Row
    BY <1>1, <1>3 DEF AfterEvent, Row, Event
  <1>5. AfterEvent(d, row).customer \in {d.customer, row.customer}
    BY DEF AfterEvent
  <1> QED
    BY <1>4, <1>5 DEF Known

(* An event changes only the columns it assigns.                           *)
LEMMA AfterEventColumns ==
    ASSUME NEW d, NEW row \in Row, NEW c \in DOMAIN row,
           AfterEvent(d, row)[c] # row[c]
    PROVE  c \in Assigned(d)
  <1>1. c \in {"plan", "status", "customer"}
    BY DEF Row
  <1> QED
    BY <1>1 DEF AfterEvent, Row

(* _resolve_organization_id finds nobody or the event's own organization.  *)
LEMMA ResolveIsHome ==
    ASSUME IndInv, NEW e \in Events
    PROVE  Resolve(e) \in {Null, EventData[e].home} /\ Resolve(e) \in Orgs \cup {Null}
  <1> DEFINE d == EventData[e]
             owners == {o \in Orgs : sub[o] # Null /\ sub[o].customer = d.customer}
  <1>1. d \in Event /\ d.org \in {Null, d.home}
    BY BillingAssumption
  <1>2. d.home \in Orgs
    BY <1>1 DEF Event
  <1>3. ASSUME d.customer # Null, NEW o \in owners
        PROVE  o = d.home
    BY <1>3, BillingAssumption DEF IndInv, SubInv, Known
  <1>4. d.org = Null => Resolve(e) = IF d.customer # Null /\ owners # {}
                                     THEN CHOOSE o \in owners : TRUE ELSE Null
    BY DEF Resolve
  <1>5. d.org # Null => Resolve(e) = d.org
    BY DEF Resolve
  <1>6. owners # {} => (CHOOSE o \in owners : TRUE) \in owners
    OBVIOUS
  <1> HIDE DEF d, owners
  <1> QED
    BY <1>1, <1>2, <1>3, <1>4, <1>5, <1>6 DEF d

(* The flush writes a row, column by column.                               *)
LEMMA FlushedRow ==
    ASSUME NEW x, x.seen \in Row, x.new \in Row, x.fresh # "yes" => sub[x.org] \in Row
    PROVE  /\ Flushed(x) \in Row
           /\ \A c \in {"plan", "status", "customer"} :
                 Flushed(x)[c] = IF x.new[c] # x.seen[c] THEN x.new[c]
                                 ELSE IF x.fresh = "yes" THEN x.seen[c] ELSE sub[x.org][c]
  BY DEF Flushed, Row

-----------------------------------------------------------------------------
(* The initial states                                                      *)

(* There is no row, no marker and no request at the start.                 *)
LEMMA InitInv == Init => IndInv
  <1> SUFFICES ASSUME Init PROVE IndInv
    OBVIOUS
  <1>1. TypeOK
    BY BillingAssumption DEF Init, TypeOK
  <1>2. SubInv /\ TxInv /\ TxApart
    BY DEF Init, SubInv, TxInv, TxApart
  <1>3. AppliedOnce /\ SessionIsOwn
    BY DEF Init, AppliedOnce, SessionIsOwn
  <1> QED
    BY <1>1, <1>2, <1>3 DEF IndInv

-----------------------------------------------------------------------------
(* One lemma per action                                                    *)

(* What is committed, and known to Stripe, stays right while it is left    *)
(* alone.                                                                  *)
LEMMA CommittedPartKeeps ==
    ASSUME SubInv, AppliedOnce, SessionIsOwn,
           UNCHANGED <<sub, marked, stripe, done, applied, twice>>
    PROVE  SubInv' /\ AppliedOnce' /\ SessionIsOwn'
  BY DEF SubInv, AppliedOnce, SessionIsOwn, Known

(* Requests open with nothing read.                                        *)
LEMMA BeginKeeps ==
    ASSUME IndInv, NEW w \in Connections, NEW kind, NEW id, NEW o, tx[w] = Null,
           Begin(w, kind, id, o), UNCHANGED <<sub, marked, stripe, done, histVars, faults>>,
           \/ /\ kind = "event" /\ id \in Events \ marked
              /\ o \in {Null, EventData[id].home} /\ o \in Orgs \cup {Null}
              /\ \A v \in Connections : ~Holds(v, "event", id)
           \/ kind = "checkout" /\ id \in Keys /\ o \in Orgs
           \/ kind = "view" /\ id = Null /\ o \in Orgs
    PROVE  IndInv'
  <1> DEFINE x == [kind |-> kind, id |-> id, org |-> o,
                   at |-> IF o = Null THEN "written" ELSE "resolved",
                   fresh |-> "no", seen |-> Null, new |-> Null]
  <1> USE BillingAssumption DEF IndInv, histVars
  <1>1. x \in Tx /\ o = Null => x.kind = "event"
    BY DEF Tx
  <1>2. tx' = [tx EXCEPT ![w] = x]
    BY DEF Begin
  <1>3. TypeOK'
    BY <1>1, <1>2 DEF TypeOK, Tx
  <1>4. TxInv'
    BY <1>2 DEF TxInv, TypeOK, TxEvent, TxCheckout, TxOrg, TxFresh, TxRow, Known
  <1>5. TxApart'
    BY <1>2 DEF TxApart, TypeOK, Holds
  <1>6. SubInv' /\ AppliedOnce' /\ SessionIsOwn'
    BY CommittedPartKeeps
  <1> QED
    BY <1>3, <1>4, <1>5, <1>6

(* The marker is new and nobody else has inserted it.                      *)
LEMMA ReceiveEventKeeps ==
    ASSUME IndInv, NEW w \in Connections, NEW e \in Events, ReceiveEvent(w, e)
    PROVE  IndInv'
  <1>1. Resolve(e) \in {Null, EventData[e].home} /\ Resolve(e) \in Orgs \cup {Null}
    BY ResolveIsHome
  <1>2. e \in Events \ marked /\ \A v \in Connections : ~Holds(v, "event", e)
    BY DEF ReceiveEvent, MarkerInserted
  <1> QED
    BY <1>1, <1>2, BeginKeeps DEF ReceiveEvent

(* A Checkout or a view starts with its organization.                      *)
LEMMA StartKeeps ==
    ASSUME IndInv, NEW w \in Connections, NEW o \in Orgs,
           StartView(w, o) \/ \E k \in Keys : StartCheckout(w, o, k)
    PROVE  IndInv'
  <1>1. CASE StartView(w, o)
    BY <1>1, BeginKeeps DEF StartView
  <1>2. CASE \E k \in Keys : StartCheckout(w, o, k)
    BY <1>2, BeginKeeps DEF StartCheckout
  <1> QED
    BY <1>1, <1>2

(* The row is read as it is committed.                                     *)
LEMMA GetSubscriptionKeeps ==
    ASSUME IndInv, NEW w \in Connections, GetSubscription(w)
    PROVE  IndInv'
  <1> USE BillingAssumption DEF IndInv, histVars
  <1>1. tx[w] \in Tx /\ tx[w].org \in Orgs /\ sub[tx[w].org] \in Row \cup {Null}
    BY DEF GetSubscription, TypeOK, TxInv, TxOrg, Tx
  <1>2. TypeOK'
    <2>1. PICK a \in {"absent", "loaded"}, r \in Row \cup {Null} :
             tx' = [tx EXCEPT ![w].at = a, ![w].seen = r, ![w].new = r]
      BY <1>1 DEF GetSubscription
    <2>2. [tx[w] EXCEPT !.at = a, !.seen = r, !.new = r] \in Tx
      BY <1>1 DEF Tx
    <2>3. tx' \in [Connections -> Tx \cup {Null}]
      BY <2>1, <2>2 DEF TypeOK
    <2> QED
      BY <2>3 DEF GetSubscription, TypeOK
  <1>3. TxInv'
    <2> SUFFICES ASSUME NEW v \in Connections, tx'[v] # Null
                 PROVE  /\ TxEvent(tx[v])' /\ TxCheckout(tx[v])' /\ TxOrg(tx[v])'
                        /\ TxFresh(tx[v])' /\ TxRow(tx[v])'
      BY DEF TxInv
    <2>1. CASE v # w
      <3>1. tx'[v] = tx[v] /\ UNCHANGED <<sub, marked, stripe>>
        BY <2>1 DEF GetSubscription, TypeOK
      <3> QED
        BY <3>1 DEF TxInv, TxEvent, TxCheckout, TxOrg, TxFresh, TxRow, Known
    <2>2. CASE v = w
      <3>1. TxEvent(tx[v])' /\ TxCheckout(tx[v])' /\ TxOrg(tx[v])' /\ TxFresh(tx[v])'
        BY <1>1, <2>2 DEF GetSubscription, TxInv, TypeOK, Tx, TxEvent, TxCheckout, TxOrg, TxFresh
      <3>2. /\ tx[w].fresh = "no" /\ tx'[w].fresh = "no" /\ tx'[w].org = tx[w].org
            /\ tx'[w].at = (IF sub[tx[w].org] = Null THEN "absent" ELSE "loaded")
            /\ tx'[w].seen = sub[tx[w].org] /\ tx'[w].new = sub[tx[w].org]
        BY <1>1 DEF GetSubscription, TxInv, TypeOK, Tx, TxFresh
      <3>3. TxRow(tx[v])'
        <4>1. sub' = sub /\ tx'[v] = tx'[w]
          BY <2>2 DEF GetSubscription
        <4>2. CASE sub[tx[w].org] = Null
          BY <2>2, <3>2, <4>2 DEF TxRow
        <4>3. CASE sub[tx[w].org] # Null
          <5>1. sub[tx[w].org] \in Row /\ Known(tx[w].org, sub[tx[w].org].customer)
            BY <1>1, <4>3 DEF SubInv
          <5> QED
            BY <1>1, <3>2, <4>1, <4>3, <5>1 DEF TxRow, Known
        <4> QED
          BY <4>2, <4>3
      <3> QED
        BY <3>1, <3>3
    <2> QED
      BY <2>1, <2>2
  <1>4. TxApart'
    BY DEF GetSubscription, TxApart, TypeOK, Tx
  <1>5. SubInv' /\ AppliedOnce' /\ SessionIsOwn'
    BY CommittedPartKeeps DEF GetSubscription
  <1> QED
    BY <1>2, <1>3, <1>4, <1>5

(* The first row is inserted by one transaction at a time.                 *)
LEMMA CreateSubscriptionKeeps ==
    ASSUME IndInv, NEW w \in Connections, CreateSubscription(w)
    PROVE  IndInv'
  <1> USE BillingAssumption DEF IndInv, histVars
  <1>1. FreshRow \in Row /\ FreshRow.customer = Null
    BY DEF FreshRow, Row, Plan, Status
  <1>2. tx[w] \in Tx
    BY DEF CreateSubscription, TypeOK
  <1>3. TypeOK'
    <2>1. PICK r \in Row :
             tx' = [tx EXCEPT ![w].at = "loaded", ![w].fresh = "yes", ![w].seen = r, ![w].new = r]
      BY <1>1 DEF CreateSubscription
    <2> DEFINE y == [tx[w] EXCEPT !.at = "loaded", !.fresh = "yes", !.seen = r, !.new = r]
    <2>2. y \in Tx
      BY <1>2 DEF Tx
    <2>3. tx' \in [Connections -> Tx \cup {Null}]
      BY <2>1, <2>2 DEF TypeOK
    <2> QED
      BY <2>3 DEF CreateSubscription, TypeOK
  <1>4. TxInv'
    <2> SUFFICES ASSUME NEW v \in Connections, tx'[v] # Null
                 PROVE  /\ TxEvent(tx[v])' /\ TxCheckout(tx[v])' /\ TxOrg(tx[v])'
                        /\ TxFresh(tx[v])' /\ TxRow(tx[v])'
      BY DEF TxInv
    <2>1. CASE v # w
      <3>1. tx'[v] = tx[v] /\ UNCHANGED <<sub, marked, stripe>>
        BY <2>1 DEF CreateSubscription, TypeOK
      <3> QED
        BY <3>1 DEF TxInv, TxEvent, TxCheckout, TxOrg, TxFresh, TxRow, Known
    <2>2. CASE v = w
      <3>1. /\ tx'[w].kind = tx[w].kind /\ tx'[w].id = tx[w].id /\ tx'[w].org = tx[w].org
            /\ tx'[w].at = "loaded" /\ tx'[w].fresh = "yes"
            /\ tx'[w].seen = FreshRow /\ tx'[w].new = FreshRow
        BY <1>2 DEF CreateSubscription, TypeOK, Tx
      <3>2. /\ UNCHANGED <<sub, marked, stripe>> /\ sub[tx[w].org] = Null
            /\ TxEvent(tx[w]) /\ TxCheckout(tx[w]) /\ TxOrg(tx[w]) /\ tx[w].at = "absent"
        BY DEF CreateSubscription, Insertable, TxInv
      <3>3. TxEvent(tx[v])' /\ TxCheckout(tx[v])' /\ TxOrg(tx[v])' /\ TxFresh(tx[v])'
        BY <2>2, <3>1, <3>2 DEF TxEvent, TxCheckout, TxOrg, TxFresh
      <3>4. TxRow(tx[v])'
        BY <1>1, <2>2, <3>1, <3>2 DEF TxRow, Known
      <3> QED
        BY <3>3, <3>4
    <2> QED
      BY <2>1, <2>2
  <1>5. TxApart'
    BY <1>2 DEF CreateSubscription, Insertable, TxApart, TypeOK, Tx
  <1>6. SubInv' /\ AppliedOnce' /\ SessionIsOwn'
    BY CommittedPartKeeps DEF CreateSubscription
  <1> QED
    BY <1>3, <1>4, <1>5, <1>6

(* An event changes the row it has read, in memory.                        *)
LEMMA ApplyEventKeeps ==
    ASSUME IndInv, NEW w \in Connections, ApplyEvent(w)
    PROVE  IndInv'
  <1> DEFINE x == tx[w]
             row == AfterEvent(EventData[x.id], x.seen)
  <1> USE BillingAssumption DEF IndInv, histVars
  <1>1. /\ x \in Tx /\ x.id \in Events /\ x.org = EventData[x.id].home /\ x.org \in Orgs
        /\ x.seen \in Row /\ Known(x.org, x.seen.customer)
    BY DEF ApplyEvent, TypeOK, TxInv, TxEvent, TxOrg, TxRow, Tx
  <1>2. row \in Row /\ Known(x.org, row.customer)
    BY <1>1, AfterEventRow
  <1>3. tx' = [tx EXCEPT ![w].at = "written", ![w].new = row]
    BY DEF ApplyEvent
  <1>4. x.kind = "event" /\ x.at = "loaded" /\ x # Null
    BY DEF ApplyEvent
  <1>5. UNCHANGED <<sub, marked, stripe, done, applied, twice, refused, faults>>
    BY DEF ApplyEvent
  <1> HIDE DEF row
  <1>6. TypeOK'
    <2>1. [[x EXCEPT !.at = "written"] EXCEPT !.new = row] \in Tx
      BY <1>1, <1>2 DEF Tx
    <2>2. tx' \in [Connections -> Tx \cup {Null}]
      BY <1>3, <2>1 DEF TypeOK
    <2> QED
      BY <1>5, <2>2 DEF TypeOK
  <1>7. TxInv'
    <2> SUFFICES ASSUME NEW v \in Connections, tx'[v] # Null
                 PROVE  /\ TxEvent(tx[v])' /\ TxCheckout(tx[v])' /\ TxOrg(tx[v])'
                        /\ TxFresh(tx[v])' /\ TxRow(tx[v])'
      BY DEF TxInv
    <2>1. CASE v # w
      BY <1>3, <1>5, <2>1 DEF TxInv, TypeOK, TxEvent, TxCheckout, TxOrg, TxFresh, TxRow, Known
    <2>2. CASE v = w
      BY <1>1, <1>2, <1>3, <1>4, <1>5, <2>2
      DEF TxInv, TypeOK, Tx, TxEvent, TxCheckout, TxOrg, TxFresh, TxRow, Known, row
    <2> QED
      BY <2>1, <2>2
  <1>8. TxApart'
    <2>1. \A v \in Connections : tx'[v] # Null =>
             /\ tx[v] # Null /\ tx'[v].kind = tx[v].kind /\ tx'[v].id = tx[v].id
             /\ tx'[v].fresh = tx[v].fresh /\ tx'[v].org = tx[v].org
      BY <1>1, <1>3, <1>4 DEF TypeOK, Tx
    <2> QED
      BY <2>1 DEF TxApart
  <1>9. SubInv' /\ AppliedOnce' /\ SessionIsOwn'
    BY <1>5, CommittedPartKeeps
  <1> QED
    BY <1>6, <1>7, <1>8, <1>9

(* What Stripe remembers for a key never changes.                          *)
LEMMA CallStripeKeeps ==
    ASSUME IndInv, NEW w \in Connections, CallStripe(w)
    PROVE  IndInv'
  <1> DEFINE x == tx[w]
             p == CheckoutParams(x)
  <1> USE BillingAssumption DEF IndInv
  <1>1. x \in Tx /\ x # Null /\ x.kind = "checkout" /\ x.at = "loaded" /\ x.id \in Keys
        /\ x.org \in Orgs /\ x.seen \in Row
    BY DEF CallStripe, TypeOK, TxInv, TxCheckout, TxOrg, TxRow, Tx
  <1>2. p \in Params /\ p.org = x.org
    BY <1>1 DEF CheckoutParams, Params, Row
  <1>3. UNCHANGED <<sub, marked, done, applied, twice, faults>>
    BY DEF CallStripe
  <1>4. CASE stripe[x.id] \in {Null, p}
    <2>1. /\ stripe' = [stripe EXCEPT ![x.id] = p] /\ UNCHANGED refused
          /\ tx' = [tx EXCEPT ![w].at = "written"]
      BY <1>4 DEF CallStripe
    <2>2. TypeOK'
      BY <1>1, <1>2, <1>3, <2>1 DEF TypeOK, Tx
    <2>3. \A k \in Keys : stripe[k] # Null => stripe'[k] = stripe[k]
      BY <1>4, <2>1 DEF TypeOK
    <2>4. stripe'[x.id] # Null /\ stripe'[x.id].org = x.org
      BY <1>1, <1>2, <2>1 DEF TypeOK
    <2>5. TxInv'
      <3> SUFFICES ASSUME NEW v \in Connections, tx'[v] # Null
                   PROVE  /\ TxEvent(tx[v])' /\ TxCheckout(tx[v])' /\ TxOrg(tx[v])'
                          /\ TxFresh(tx[v])' /\ TxRow(tx[v])'
        BY DEF TxInv
      <3>1. CASE v # w
        BY <1>3, <2>1, <2>3, <3>1
        DEF TxInv, TypeOK, TxEvent, TxCheckout, TxOrg, TxFresh, TxRow, Known
      <3>2. CASE v = w
        BY <1>1, <1>3, <2>1, <2>4, <3>2
        DEF TxInv, TypeOK, Tx, TxEvent, TxCheckout, TxOrg, TxFresh, TxRow, Known
      <3> QED
        BY <3>1, <3>2
    <2>6. TxApart'
      <3>1. \A v \in Connections : tx'[v] # Null =>
               /\ tx[v] # Null /\ tx'[v].kind = tx[v].kind /\ tx'[v].id = tx[v].id
               /\ tx'[v].fresh = tx[v].fresh /\ tx'[v].org = tx[v].org
        BY <1>1, <2>1 DEF TypeOK, Tx
      <3> QED
        BY <3>1 DEF TxApart
    <2>7. SubInv' /\ AppliedOnce'
      BY <1>3 DEF SubInv, AppliedOnce, Known
    <2>8. SessionIsOwn'
      BY <1>3, <2>3 DEF SessionIsOwn, TypeOK
    <2> QED
      BY <2>2, <2>5, <2>6, <2>7, <2>8
  <1>5. CASE stripe[x.id] \notin {Null, p}
    <2>1. /\ refused' = refused \cup {<<x.org, x.id>>} /\ UNCHANGED stripe
          /\ tx' = [tx EXCEPT ![w] = Null]
      BY <1>5 DEF CallStripe
    <2>2. TypeOK'
      BY <1>1, <1>3, <2>1 DEF TypeOK
    <2>3. TxInv' /\ TxApart'
      BY <1>3, <2>1
      DEF TxInv, TxApart, TypeOK, TxEvent, TxCheckout, TxOrg, TxFresh, TxRow, Known
    <2>4. SubInv' /\ AppliedOnce' /\ SessionIsOwn'
      BY <1>3, <2>1, CommittedPartKeeps
    <2> QED
      BY <2>2, <2>3, <2>4
  <1> QED
    BY <1>4, <1>5

(* A rollback forgets the transaction.                                     *)
LEMMA RollbackKeeps ==
    ASSUME IndInv, NEW w \in Connections, Conflict(w) \/ Fail(w)
    PROVE  IndInv'
  <1> USE BillingAssumption DEF IndInv, histVars, Conflict, Fail
  <1>1. tx' = [tx EXCEPT ![w] = Null] /\ faults' \in 0 .. MaxFaults
        /\ UNCHANGED <<sub, marked, stripe, done, applied, twice, refused>>
    BY DEF TypeOK
  <1>2. TypeOK'
    BY <1>1 DEF TypeOK
  <1>3. TxInv' /\ TxApart'
    BY <1>1 DEF TxInv, TxApart, TypeOK, TxEvent, TxCheckout, TxOrg, TxFresh, TxRow, Known
  <1>4. SubInv' /\ AppliedOnce' /\ SessionIsOwn'
    BY <1>1, CommittedPartKeeps
  <1> QED
    BY <1>2, <1>3, <1>4

(* What a commit does to the rows: nothing but the columns the request     *)
(* changed, or the first row.                                              *)
LEMMA CommitRows ==
    ASSUME IndInv, NEW w \in Connections, Commit(w)
    PROVE  /\ sub' \in [Orgs -> Row \cup {Null}]
           /\ \A o \in Orgs \ {tx[w].org} : sub'[o] = sub[o]
           /\ tx[w].org # Null =>
                 /\ tx[w].org \in Orgs
                 /\ sub'[tx[w].org] = Flushed(tx[w]) /\ Flushed(tx[w]) \in Row
                 /\ Known(tx[w].org, Flushed(tx[w]).customer)
  <1> DEFINE x == tx[w]
  <1> USE BillingAssumption DEF IndInv
  <1>1. x \in Tx /\ x # Null /\ x.at \in {"loaded", "written"}
    BY DEF Commit, TypeOK
  <1>2. sub' = IF x.org = Null THEN sub ELSE [sub EXCEPT ![x.org] = Flushed(x)]
    BY DEF Commit
  <1>3. ASSUME x.org # Null
        PROVE  x.org \in Orgs /\ Flushed(x) \in Row /\ Known(x.org, Flushed(x).customer)
    <2>1. x.org \in Orgs
      BY <1>1, <1>3 DEF Tx
    <2>2. /\ x.seen \in Row /\ x.new \in Row /\ (x.fresh # "yes" => sub[x.org] # Null)
          /\ Known(x.org, x.new.customer) /\ Known(x.org, x.seen.customer)
      BY <1>1, <1>3 DEF TxInv, TxRow
    <2>3. x.fresh # "yes" => sub[x.org] \in Row /\ Known(x.org, sub[x.org].customer)
      BY <2>1, <2>2 DEF TypeOK, SubInv
    <2>4. /\ Flushed(x) \in Row
          /\ Flushed(x)["customer"] = IF x.new["customer"] # x.seen["customer"]
                                      THEN x.new["customer"]
                                      ELSE IF x.fresh = "yes" THEN x.seen["customer"]
                                      ELSE sub[x.org]["customer"]
      BY <2>2, <2>3, FlushedRow
    <2>5. Known(x.org, Flushed(x).customer)
      BY <2>2, <2>3, <2>4 DEF Row
    <2> QED
      BY <2>1, <2>4, <2>5
  <1> HIDE DEF x
  <1>4. CASE x.org = Null
    BY <1>2, <1>4 DEF TypeOK, x
  <1>5. CASE x.org # Null
    BY <1>2, <1>3, <1>5 DEF TypeOK, x
  <1> QED
    BY <1>4, <1>5

(* A commit records its event once, and its Checkout with its own session. *)
LEMMA CommitKeeps ==
    ASSUME IndInv, NEW w \in Connections, Commit(w)
    PROVE  IndInv'
  <1> DEFINE x == tx[w]
  <1> USE BillingAssumption DEF IndInv
  <1>1. x \in Tx /\ x # Null /\ x.at \in {"loaded", "written"}
    BY DEF Commit, TypeOK
  <1>2. x.org \in Orgs \cup {Null} /\ x.kind \in {"event", "checkout", "view"}
    BY <1>1 DEF Tx
  <1>3. TxEvent(x) /\ TxCheckout(x) /\ TxOrg(x) /\ TxFresh(x) /\ TxRow(x)
    BY <1>1 DEF TxInv
  <1>4. /\ tx' = [tx EXCEPT ![w] = Null]
        /\ UNCHANGED <<stripe, refused, faults>>
        /\ done' = IF x.kind = "checkout" THEN done \cup {<<x.org, x.id>>} ELSE done
    BY DEF Commit
  <1>5. IF x.kind = "event"
        THEN /\ marked' = marked \cup {x.id}
             /\ twice' = twice \cup (marked \cap {x.id})
             /\ applied' = [applied EXCEPT ![x.id] = @ \cup ({x.org} \ {Null})]
        ELSE UNCHANGED <<marked, twice, applied>>
    BY DEF Commit
  <1>6. x.kind = "checkout" => x.at = "written" /\ x.org # Null
    BY <1>3 DEF Commit, TxOrg
  <1>7. /\ sub' \in [Orgs -> Row \cup {Null}]
        /\ \A o \in Orgs \ {x.org} : sub'[o] = sub[o]
        /\ x.org # Null => /\ x.org \in Orgs
                           /\ sub'[x.org] \in Row
                           /\ Known(x.org, sub'[x.org].customer)
    BY CommitRows
  <1>8. \A v \in Connections : tx'[v] # Null => v # w /\ tx'[v] = tx[v]
    BY <1>4 DEF TypeOK
  <1> HIDE DEF x
  <1>a. TypeOK'
    <2>1. tx' \in [Connections -> Tx \cup {Null}]
      BY <1>4 DEF TypeOK
    <2>2. done' \in SUBSET (Orgs \X Keys)
      BY <1>2, <1>3, <1>4, <1>6 DEF TypeOK, TxCheckout
    <2>3. marked' \in SUBSET Events /\ twice' \in SUBSET Events
      BY <1>3, <1>5 DEF TypeOK, TxEvent
    <2>4. applied' \in [Events -> SUBSET Orgs]
      BY <1>2, <1>3, <1>5 DEF TypeOK, TxEvent
    <2> QED
      BY <1>4, <1>7, <2>1, <2>2, <2>3, <2>4 DEF TypeOK
  <1>b. SubInv'
    BY <1>7 DEF SubInv, Known
  <1>c. TxInv'
    <2> SUFFICES ASSUME NEW v \in Connections, tx[v] # Null, v # w, tx'[v] = tx[v]
                 PROVE  /\ TxEvent(tx[v])' /\ TxCheckout(tx[v])' /\ TxOrg(tx[v])'
                        /\ TxFresh(tx[v])' /\ TxRow(tx[v])'
      BY <1>8 DEF TxInv
    <2>1. /\ TxEvent(tx[v]) /\ TxCheckout(tx[v]) /\ TxOrg(tx[v])
          /\ TxFresh(tx[v]) /\ TxRow(tx[v])
      BY DEF TxInv
    <2>2. TxEvent(tx[v])'
      BY <1>1, <1>5, <2>1 DEF TxEvent, TxApart, x
    <2>3. TxCheckout(tx[v])' /\ TxOrg(tx[v])' /\ TxFresh(tx[v])'
      BY <1>4, <2>1 DEF TxCheckout, TxOrg, TxFresh
    <2>4. ASSUME tx[v].org # Null, tx[v].at \in {"loaded", "written"}
          PROVE  IF tx[v].fresh = "yes" THEN sub'[tx[v].org] = Null
                                        ELSE sub'[tx[v].org] # Null
      <3>1. tx[v].org \in Orgs
        BY <2>4 DEF TypeOK, Tx
      <3>2. CASE tx[v].org # x.org
        BY <1>7, <2>1, <2>4, <3>1, <3>2 DEF TxRow
      <3>3. CASE tx[v].org = x.org
        <4>1. x.fresh = "yes" => tx[v].fresh # "yes"
          BY <1>1, <3>3 DEF TxApart, x
        <4>2. x.fresh # "yes" => tx[v].fresh # "yes"
          BY <1>1, <1>3, <2>1, <2>4, <3>3 DEF TxRow
        <4> QED
          BY <1>7, <2>4, <3>3, <4>1, <4>2
      <3> QED
        BY <3>2, <3>3
    <2>5. TxRow(tx[v])'
      BY <2>1, <2>4 DEF TxRow, Known
    <2> QED
      BY <2>2, <2>3, <2>5
  <1>d. TxApart'
    BY <1>8 DEF TxApart
  <1>e. AppliedOnce'
    BY <1>3, <1>5 DEF AppliedOnce, TxEvent, TypeOK
  <1>f. SessionIsOwn'
    BY <1>3, <1>4, <1>6 DEF SessionIsOwn, TxCheckout
  <1> QED
    BY <1>a, <1>b, <1>c, <1>d, <1>e, <1>f

-----------------------------------------------------------------------------
(* The theorems                                                            *)

(* Every step keeps the invariant.                                         *)
LEMMA NextKeeps == IndInv /\ [Next]_vars => IndInv'
  <1> SUFFICES ASSUME IndInv, [Next]_vars PROVE IndInv'
    OBVIOUS
  <1>1. CASE \E w \in Connections, e \in Events : ReceiveEvent(w, e)
    BY <1>1, ReceiveEventKeeps
  <1>2. CASE \E w \in Connections, o \in Orgs :
                StartView(w, o) \/ \E k \in Keys : StartCheckout(w, o, k)
    BY <1>2, StartKeeps
  <1>3. CASE \E w \in Connections : Step(w) \/ Fail(w)
    BY <1>3, GetSubscriptionKeeps, CreateSubscriptionKeeps, ApplyEventKeeps,
       CallStripeKeeps, CommitKeeps, RollbackKeeps DEF Step
  <1>4. CASE UNCHANGED vars
    BY <1>4 DEF vars, IndInv, TypeOK, SubInv, TxInv, TxApart, AppliedOnce, SessionIsOwn,
                TxEvent, TxCheckout, TxOrg, TxFresh, TxRow, Known
  <1> QED
    BY <1>1, <1>2, <1>3, <1>4 DEF Next

(* The invariant holds in every reachable state.                           *)
LEMMA InvHolds == Spec => []IndInv
  BY InitInv, NextKeeps, PTL DEF Spec

(* Subscriptions, markers and open requests keep their types: what an      *)
(* event makes of a row is a row, whatever status Stripe sends.            *)
THEOREM TypeCorrect == Spec => []TypeOK
  <1>1. IndInv => TypeOK
    BY DEF IndInv
  <1> QED
    BY <1>1, InvHolds, PTL

(* process_stripe_event applies an event at most once and only to the      *)
(* organization it belongs to, with any number of concurrent deliveries.   *)
THEOREM EventAppliedOnce == Spec => []AppliedOnce
  <1>1. IndInv => AppliedOnce
    BY DEF IndInv
  <1> QED
    BY <1>1, InvHolds, PTL

(* No organization is given the Checkout session of another one, however   *)
(* their Idempotency-Keys coincide.                                        *)
THEOREM SessionAlwaysOwn == Spec => []SessionIsOwn
  <1>1. IndInv => SessionIsOwn
    BY DEF IndInv
  <1> QED
    BY <1>1, InvHolds, PTL

(* Although nothing locks the row that was read, a column changes only     *)
(* with the commit of an event that assigns it.                            *)
THEOREM OnlyAssignedColumnsChange == Spec => OnlyAssignedChange
  <1> DEFINE A == \A o \in Orgs : sub[o] # Null =>
                     /\ sub'[o] # Null
                     /\ \A c \in DOMAIN sub[o] : sub'[o][c] # sub[o][c] =>
                           \E e \in marked' \ marked : c \in Assigned(EventData[e])
  <1>1. ASSUME IndInv, [Next]_vars PROVE [A]_vars
    <2>1. CASE UNCHANGED sub
      BY <2>1
    <2>2. ASSUME NEW w \in Connections, Commit(w)
          PROVE  A
      <3> SUFFICES ASSUME NEW o \in Orgs, sub[o] # Null
                   PROVE  /\ sub'[o] # Null
                          /\ \A c \in DOMAIN sub[o] : sub'[o][c] # sub[o][c] =>
                                \E e \in marked' \ marked : c \in Assigned(EventData[e])
        OBVIOUS
      <3> DEFINE x == tx[w]
      <3> USE BillingAssumption
      <3>1. CASE o # x.org
        BY <1>1, <2>2, <3>1, CommitRows
      <3>2. CASE o = x.org
        <4>1. x # Null /\ x.org # Null /\ x.at \in {"loaded", "written"}
          BY <2>2, <3>2 DEF Commit
        <4>2. TxEvent(x) /\ TxRow(x)
          BY <1>1, <4>1 DEF IndInv, TxInv
        <4>3. /\ x.seen \in Row /\ x.new \in Row /\ x.fresh # "yes"
              /\ x.new # x.seen => x.kind = "event"
                                   /\ x.new = AfterEvent(EventData[x.id], x.seen)
          BY <3>2, <4>1, <4>2 DEF TxRow
        <4>4. sub[o] \in Row /\ sub'[o] = Flushed(x) /\ Flushed(x) \in Row
          BY <1>1, <2>2, <3>2, <4>1, CommitRows DEF IndInv, TypeOK
        <4> HIDE DEF x
        <4>5. ASSUME NEW c \in DOMAIN sub[o], sub'[o][c] # sub[o][c]
              PROVE  \E e \in marked' \ marked : c \in Assigned(EventData[e])
          <5>1. c \in {"plan", "status", "customer"}
            BY <4>4 DEF Row
          <5>2. x.new[c] # x.seen[c]
            BY <3>2, <4>3, <4>4, <4>5, <5>1, FlushedRow
          <5>3. x.kind = "event" /\ AfterEvent(EventData[x.id], x.seen)[c] # x.seen[c]
            BY <4>3, <5>2
          <5>4. c \in DOMAIN x.seen
            BY <4>3, <5>1 DEF Row
          <5>5. c \in Assigned(EventData[x.id])
            BY <4>3, <5>3, <5>4, AfterEventColumns
          <5>6. x.id \in marked' \ marked
            BY <2>2, <4>2, <5>3 DEF Commit, TxEvent, x
          <5> QED
            BY <5>5, <5>6
        <4> QED
          BY <4>4, <4>5
      <3> QED
        BY <3>1, <3>2
    <2>3. UNCHANGED sub \/ \E w \in Connections : Commit(w)
      BY <1>1 DEF Next, Step, vars, ReceiveEvent, StartCheckout, StartView,
                  GetSubscription, CreateSubscription, ApplyEvent, CallStripe,
                  Conflict, Fail
    <2> QED
      BY <2>1, <2>2, <2>3
  <1> QED
    BY <1>1, InvHolds, PTL DEF Spec, OnlyAssignedChange
=============================================================================
