------------------------------- MODULE Billing -------------------------------
(***************************************************************************)
(* Billing: the subscription row of each organization, the Stripe events   *)
(* that change it, and the Checkout calls made to Stripe.                  *)
(*                                                                         *)
(*   app/modules/billing/service.py, router.py                             *)
(*   app/integrations/stripe_client.py   (Stripe itself is external)       *)
(*                                                                         *)
(* Every request is one READ COMMITTED transaction.  The subscription is   *)
(* read without a lock; the ORM later updates only the columns that differ *)
(* from what was read.  Stripe delivers each event at least once, in any   *)
(* order, also twice at a time, and again after a failure; a delivery that *)
(* finds its marker committed changes nothing and has no action.           *)
(*                                                                         *)
(* A row is abstracted to plan, status and customer; stripe_subscription_id*)
(* is written like the customer, current_period_end like the plan.  The    *)
(* payload of a Checkout call is fixed by its key (module Idempotency      *)
(* refuses another one) and each key has one user.                         *)
(***************************************************************************)
EXTENDS Naturals

CONSTANTS Orgs, Customers, Events, Keys, Connections, Null,
          EventData,  \* EventData[e]: the content of event e
          MaxFaults   \* bound: requests that fail or whose COMMIT fails

VARIABLES sub,      \* sub[o]: committed subscription row, or Null
          marked,   \* committed stripe_events
          tx,       \* tx[w]: the open transaction, or Null
          stripe,   \* stripe[k]: parameters Stripe remembers for key k
          done,     \* <<o, k>>: completed Checkout calls
          applied,  \* applied[e]: organizations e was applied to (history)
          twice,    \* events committed again (history)
          refused,  \* <<o, k>>: Checkout calls refused by Stripe (history)
          faults

vars == <<sub, marked, tx, stripe, done, applied, twice, refused, faults>>
histVars == <<applied, twice, refused>>

Plan == {"free", "pro", "business"}
Status == {"inactive", "trialing", "active", "past_due", "cancelled"}
RawStatus == {"trialing", "active", "past_due", "unpaid", "paused", "incomplete",
              "incomplete_expired", "canceled"}
Row == [plan : Plan, status : Status, customer : Customers \cup {Null}]
Event == [type : {"checkout", "updated", "deleted", "payment_failed", "other"},
          org : Orgs \cup {Null},            \* metadata or client_reference_id
          home : Orgs,                       \* whose customer it is
          customer : Customers \cup {Null},
          raw : RawStatus, plan : Plan]      \* "free": no known price
Tx == [kind : {"event", "checkout", "view"}, id : Events \cup Keys \cup {Null},
       org : Orgs \cup {Null}, at : {"resolved", "absent", "loaded", "written"},
       fresh : {"no", "yes"}, seen : Row \cup {Null}, new : Row \cup {Null}]
Params == [org : Orgs, customer : Customers \cup {Null}]

ASSUME BillingAssumption ==
    /\ EventData \in [Events -> Event]
    /\ Events \cap Keys = {}
    /\ MaxFaults \in Nat
    /\ Null \notin Orgs \cup Customers \cup Events \cup Keys \cup Row \cup Tx \cup Params
    /\ \A d, e \in Events :   \* a Stripe customer belongs to one organization
          /\ EventData[e].org \in {Null, EventData[e].home}
          /\ EventData[d].customer = EventData[e].customer /\ EventData[d].customer # Null
               => EventData[d].home = EventData[e].home

TypeOK ==
    /\ sub \in [Orgs -> Row \cup {Null}]
    /\ marked \in SUBSET Events
    /\ tx \in [Connections -> Tx \cup {Null}]
    /\ stripe \in [Keys -> Params \cup {Null}]
    /\ done \in SUBSET (Orgs \X Keys)
    /\ applied \in [Events -> SUBSET Orgs]
    /\ twice \in SUBSET Events
    /\ refused \in SUBSET (Orgs \X Keys)
    /\ faults \in 0 .. MaxFaults

Init ==
    /\ sub = [o \in Orgs |-> Null]
    /\ marked = {}
    /\ tx = [w \in Connections |-> Null]
    /\ stripe = [k \in Keys |-> Null]
    /\ done = {}
    /\ applied = [e \in Events |-> {}]
    /\ twice = {}
    /\ refused = {}
    /\ faults = 0

FreshRow == [plan |-> "free", status |-> "inactive", customer |-> Null]

-----------------------------------------------------------------------------
(* The content of an event                                                 *)

ALLOWED_STRIPE_SUBSCRIPTION_STATES ==
    [trialing |-> "trialing", active |-> "active", past_due |-> "past_due",
     unpaid |-> "past_due", paused |-> "inactive", incomplete |-> "inactive",
     incomplete_expired |-> "inactive", canceled |-> "cancelled"]

(* _resolve_organization_id: by metadata, else by the customer.            *)
Resolve(e) ==
    LET d == EventData[e]
        owners == {o \in Orgs : sub[o] # Null /\ sub[o].customer = d.customer}
    IN IF d.org # Null THEN d.org
       ELSE IF d.customer # Null /\ owners # {} THEN CHOOSE o \in owners : TRUE
       ELSE Null

(* The columns an event assigns.                                           *)
Assigned(d) ==
    CASE d.type = "checkout" -> {"customer", "status"}
      [] d.type \in {"updated", "deleted"} ->
            {"customer", "status"} \cup IF d.plan = "free" THEN {} ELSE {"plan"}
      [] d.type = "payment_failed" -> {"status"}
      [] OTHER -> {}

\* Faulty variant: Stripe's status is stored as it is.
NewStatusRaw(d) == d.raw

NewStatus(d) ==
    CASE d.type = "checkout" -> "active"
      [] d.type = "updated" -> ALLOWED_STRIPE_SUBSCRIPTION_STATES[d.raw]
      [] d.type = "deleted" -> "cancelled"
      [] OTHER -> "past_due"

(* The ORM object after the assignments.                                   *)
AfterEvent(d, row) ==
    [plan |-> IF "plan" \in Assigned(d) THEN d.plan ELSE row.plan,
     status |-> IF "status" \in Assigned(d) THEN NewStatus(d) ELSE row.status,
     customer |-> IF "customer" \in Assigned(d) THEN d.customer ELSE row.customer]

-----------------------------------------------------------------------------
(* Transactions                                                            *)

Begin(w, kind, id, o) ==
    tx' = [tx EXCEPT ![w] =
             [kind |-> kind, id |-> id, org |-> o,
              at |-> IF o = Null THEN "written" ELSE "resolved",
              fresh |-> "no", seen |-> Null, new |-> Null]]

Holds(v, kind, id) == tx[v] # Null /\ tx[v].kind = kind /\ tx[v].id = id

(* A Checkout is completed by a user who was given its URL; subscriptions  *)
(* may also be created in Stripe's dashboard.                              *)
Raised(e) ==
    EventData[e].type = "checkout" => \E k \in Keys : <<EventData[e].home, k>> \in done

\* Faulty variant: the marker is looked up, not inserted first.
NotMarkedYet(w, e) == e \notin marked

(* INSERT ... ON CONFLICT DO NOTHING of the marker inserts: it has waited  *)
(* for every other transaction that inserted it.                           *)
MarkerInserted(w, e) ==
    e \notin marked /\ \A v \in Connections : ~Holds(v, "event", e)

(* process_stripe_event: the marker, then the organization.                *)
ReceiveEvent(w, e) ==
    /\ tx[w] = Null
    /\ Raised(e)
    /\ MarkerInserted(w, e)
    /\ Begin(w, "event", e, Resolve(e))
    /\ UNCHANGED <<sub, marked, stripe, done, histVars, faults>>

(* checkout: acquire_idempotency lets the call run.                        *)
StartCheckout(w, o, k) ==
    /\ tx[w] = Null
    /\ <<o, k>> \notin done
    /\ \A v \in Connections : Holds(v, "checkout", k) => tx[v].org # o
    /\ Begin(w, "checkout", k, o)
    /\ UNCHANGED <<sub, marked, stripe, done, histVars, faults>>

(* subscription_status, create_billing_portal: get_or_create_subscription. *)
StartView(w, o) ==
    /\ tx[w] = Null
    /\ Begin(w, "view", Null, o)
    /\ UNCHANGED <<sub, marked, stripe, done, histVars, faults>>

(* get_or_create_subscription, the SELECT.                                 *)
GetSubscription(w) ==
    /\ tx[w] # Null /\ tx[w].at = "resolved"
    /\ LET row == sub[tx[w].org]
       IN tx' = [tx EXCEPT ![w].at = IF row = Null THEN "absent" ELSE "loaded",
                           ![w].seen = row, ![w].new = row]
    /\ UNCHANGED <<sub, marked, stripe, done, histVars, faults>>

(* The unique organization_id admits the row; an uncommitted one is waited *)
(* for.                                                                    *)
Insertable(w, o) ==
    /\ sub[o] = Null
    /\ \A v \in Connections \ {w} : tx[v] # Null => ~(tx[v].fresh = "yes" /\ tx[v].org = o)

(* get_or_create_subscription, the INSERT.                                 *)
CreateSubscription(w) ==
    /\ tx[w] # Null /\ tx[w].at = "absent"
    /\ Insertable(w, tx[w].org)
    /\ tx' = [tx EXCEPT ![w].at = "loaded", ![w].fresh = "yes",
                        ![w].seen = FreshRow, ![w].new = FreshRow]
    /\ UNCHANGED <<sub, marked, stripe, done, histVars, faults>>

(* The flush of process_stripe_event: an UPDATE, unless nothing changed,   *)
(* waits for the row.                                                      *)
ApplyEvent(w) ==
    /\ tx[w] # Null /\ tx[w].kind = "event" /\ tx[w].at = "loaded"
    /\ LET row == AfterEvent(EventData[tx[w].id], tx[w].seen)
       IN /\ row # tx[w].seen =>
                \A v \in Connections \ {w} : tx[v] # Null =>
                    ~(tx[v].org = tx[w].org /\ tx[v].at = "written" /\ tx[v].new # tx[v].seen)
          /\ tx' = [tx EXCEPT ![w].at = "written", ![w].new = row]
    /\ UNCHANGED <<sub, marked, stripe, done, histVars, faults>>

\* Faulty variant: the organization is not sent to Stripe.
ParamsWithoutOrg(x) ==
    IF stripe[x.id] = Null THEN [org |-> x.org, customer |-> x.seen.customer]
    ELSE [org |-> stripe[x.id].org, customer |-> x.seen.customer]

(* create_checkout_session: what the request to Stripe depends on besides  *)
(* the payload.                                                            *)
CheckoutParams(x) == [org |-> x.org, customer |-> x.seen.customer]

(* Stripe creates a session for a new key, returns the same one for equal  *)
(* parameters, and refuses anything else.  A call whose answer is lost is  *)
(* this step and then a Fail.                                              *)
CallStripe(w) ==
    /\ tx[w] # Null /\ tx[w].kind = "checkout" /\ tx[w].at = "loaded"
    /\ LET k == tx[w].id
           p == CheckoutParams(tx[w])
       IN IF stripe[k] \in {Null, p}
          THEN /\ stripe' = [stripe EXCEPT ![k] = p]
               /\ tx' = [tx EXCEPT ![w].at = "written"]
               /\ UNCHANGED refused
          ELSE /\ refused' = refused \cup {<<tx[w].org, k>>}
               /\ tx' = [tx EXCEPT ![w] = Null]
               /\ UNCHANGED stripe
    /\ UNCHANGED <<sub, marked, done, applied, twice, faults>>

\* Faulty variant: every column is written back.
FlushedWhole(x) == x.new

(* The row after the flush: only the columns that x changed are written.   *)
Flushed(x) ==
    LET row == IF x.fresh = "yes" THEN x.seen ELSE sub[x.org]
    IN [c \in DOMAIN row |-> IF x.new[c] = x.seen[c] THEN row[c] ELSE x.new[c]]

Commit(w) ==
    /\ tx[w] # Null
    /\ tx[w].at = "written" \/ (tx[w].at = "loaded" /\ tx[w].kind = "view")
    /\ LET x == tx[w]
       IN /\ sub' = IF x.org = Null THEN sub ELSE [sub EXCEPT ![x.org] = Flushed(x)]
          /\ IF x.kind = "event"
             THEN /\ marked' = marked \cup {x.id}
                  /\ twice' = twice \cup (marked \cap {x.id})
                  /\ applied' = [applied EXCEPT ![x.id] = @ \cup ({x.org} \ {Null})]
             ELSE UNCHANGED <<marked, twice, applied>>
          /\ done' = IF x.kind = "checkout" THEN done \cup {<<x.org, x.id>>} ELSE done
    /\ tx' = [tx EXCEPT ![w] = Null]
    /\ UNCHANGED <<stripe, refused, faults>>

\* Faulty variant: the IntegrityError is handled and the marker is committed.
ConflictRecorded(w) ==
    /\ tx[w] # Null
    /\ tx[w].at = "absent" /\ sub[tx[w].org] # Null
    /\ marked' = IF tx[w].kind = "event" THEN marked \cup {tx[w].id} ELSE marked
    /\ tx' = [tx EXCEPT ![w] = Null]
    /\ UNCHANGED <<sub, stripe, done, histVars, faults>>

(* IntegrityError on the INSERT, or a portal without customer: rollback.   *)
Conflict(w) ==
    /\ tx[w] # Null
    /\ \/ tx[w].at = "absent" /\ sub[tx[w].org] # Null
       \/ tx[w].at = "loaded" /\ tx[w].kind = "view" /\ tx[w].seen.customer = Null
    /\ tx' = [tx EXCEPT ![w] = Null]
    /\ UNCHANGED <<sub, marked, stripe, done, histVars, faults>>

(* The request or its COMMIT fails.                                        *)
Fail(w) ==
    /\ tx[w] # Null
    /\ faults < MaxFaults
    /\ faults' = faults + 1
    /\ tx' = [tx EXCEPT ![w] = Null]
    /\ UNCHANGED <<sub, marked, stripe, done, histVars>>

-----------------------------------------------------------------------------
Step(w) == \/ GetSubscription(w) \/ CreateSubscription(w) \/ ApplyEvent(w)
           \/ CallStripe(w) \/ Commit(w) \/ Conflict(w)

Next ==
    \/ \E w \in Connections, e \in Events : ReceiveEvent(w, e)
    \/ \E w \in Connections, o \in Orgs, k \in Keys : StartCheckout(w, o, k)
    \/ \E w \in Connections, o \in Orgs : StartView(w, o)
    \/ \E w \in Connections : Step(w) \/ Fail(w)

Spec == Init /\ [][Next]_vars

(* Requests end: one that waits for the row of another is not overtaken    *)
(* for ever.  Stripe retries an event until it is answered with 2xx.       *)
Fairness == /\ \A w \in Connections : SF_vars(Step(w))
            /\ \A e \in Events : SF_vars(\E w \in Connections : ReceiveEvent(w, e))

FairSpec == Spec /\ Fairness

-----------------------------------------------------------------------------
(* Properties                                                              *)

(* An event is applied once and to its own organization, however often,    *)
(* concurrently or late it is delivered and whatever rolls back; one that  *)
(* was applied is recorded (process_stripe_event: "once, safely under      *)
(* concurrent retries").                                                   *)
AppliedOnce ==
    /\ twice = {}
    /\ \A e \in Events : /\ applied[e] \subseteq {EventData[e].home}
                         /\ applied[e] # {} => e \in marked

(* Equal Idempotency-Keys of two organizations reach Stripe as one key;    *)
(* nobody is given the Checkout session of another organization.           *)
SessionIsOwn == \A c \in done : stripe[c[2]] # Null /\ stripe[c[2]].org = c[1]

(* An event leaves alone what it does not assign: a subscription row is    *)
(* never replaced or created twice, and a column changes only when an      *)
(* event that assigns it is recorded, although the row was read without a  *)
(* lock.  (The converse need not hold: an assignment equal to the value    *)
(* that was read is not written, even if the column changed meanwhile.)    *)
OnlyAssignedChange ==
    [][\A o \in Orgs : sub[o] # Null =>
          /\ sub'[o] # Null
          /\ \A c \in DOMAIN sub[o] : sub'[o][c] # sub[o][c] =>
                \E e \in marked' \ marked : c \in Assigned(EventData[e])]_vars

(* No event Stripe raises is lost: one that names its organization is      *)
(* applied in the end and any other is recorded.  A rollback, a conflict   *)
(* over the first row or a crash neither keeps the marker nor blocks the   *)
(* retry.                                                                  *)
EveryEventApplied ==
    \A e \in Events :
        Raised(e) ~> IF EventData[e].org # Null THEN applied[e] # {} ELSE e \in marked

(* "both the local API boundary and the external payment request are       *)
(* retry-safe" (README.md): Stripe does not refuse a Checkout call that    *)
(* repeats the key and the payload of an earlier one of its organization.  *)
CheckoutRetrySafe == \A c \in refused : stripe[c[2]].org # c[1]
=============================================================================
