------------------------------ MODULE Billing ------------------------------
(***************************************************************************)
(* The plan of a user as Stripe's webhooks set it (app/api/billing).       *)
(* Checkout reads the stored customer id and opens a session; the rest of  *)
(* a subscription's life happens at Stripe and comes back as events, each  *)
(* sent again until the route answers 200.                                 *)
(***************************************************************************)
EXTENDS Naturals, Sequences

CONSTANTS Users,
          Customers,   \* Stripe customer ids
          MaxSubs,     \* bound: subscriptions bought
          MaxWire,     \* bound: events of one user under way at a time
          None

VARIABLES plan,      \* lelu_users.plan
          customer,  \* lelu_users.stripe_customer_id
          sessions,  \* open Stripe checkout sessions
          subs,      \* external: subscriptions at Stripe
          wire,      \* external: each user's webhook events that Stripe has yet to
                     \* get a 200 for, the oldest first
          doubled,   \* history: users with two subscriptions at a time
          overtaken  \* history: users of whom an event came in ahead of an older one

vars == <<plan, customer, sessions, subs, wire, doubled, overtaken>>

Plans == {"free", "paid"}
Session == [user : Users, cust : Customers \cup {None}]
Sub == [id : 1..MaxSubs, user : Users, cust : Customers, active : BOOLEAN, ended : BOOLEAN]
Event == [type : {"completed", "updated", "deleted"}, user : Users,
          cust : Customers, active : BOOLEAN]

TypeOK ==
    /\ plan \in [Users -> Plans]
    /\ customer \in [Users -> Customers \cup {None}]
    /\ sessions \subseteq Session
    /\ subs \subseteq Sub
    /\ \A u \in Users : Len(wire[u]) <= MaxWire /\ \A i \in DOMAIN wire[u] : wire[u][i] \in Event
    /\ doubled \subseteq Users /\ overtaken \subseteq Users

Init ==
    /\ plan = [u \in Users |-> "free"] /\ customer = [u \in Users |-> None]
    /\ sessions = {} /\ subs = {} /\ wire = [u \in Users |-> <<>>]
    /\ doubled = {} /\ overtaken = {}

Post(e) ==
    /\ Len(wire[e.user]) < MaxWire
    /\ wire' = [wire EXCEPT ![e.user] = Append(@, e)]

Live(u) == {s \in subs : s.user = u /\ s.active}

Checkout(u) ==
    /\ sessions' = sessions \cup {[user |-> u, cust |-> customer[u]]}
    /\ sessions' # sessions
    /\ UNCHANGED <<plan, customer, subs, wire, doubled, overtaken>>

\* The user pays; without a customer id Stripe makes a new customer.
Pay == \E s \in sessions, n \in 1..MaxSubs, c \in Customers :
    /\ \A t \in subs : t.id # n
    /\ IF s.cust = None THEN \A t \in subs : t.cust # c ELSE c = s.cust
    /\ sessions' = sessions \ {s}
    /\ subs' = subs \cup {[id |-> n, user |-> s.user, cust |-> c, active |-> TRUE,
                           ended |-> FALSE]}
    /\ Post([type |-> "completed", user |-> s.user, cust |-> c,
                             active |-> TRUE])
    /\ doubled' = IF \E t \in subs : t.user = s.user /\ ~t.ended
                  THEN doubled \cup {s.user} ELSE doubled
    /\ UNCHANGED <<plan, customer, overtaken>>

\* A payment fails or is made good, or the subscription ends (the portal).
Lapse == \E s \in subs, e \in BOOLEAN :
    /\ s.active /\ ~s.ended
    /\ subs' = (subs \ {s}) \cup {[s EXCEPT !.active = FALSE, !.ended = e]}
    /\ Post([type |-> IF e THEN "deleted" ELSE "updated",
                             user |-> s.user, cust |-> s.cust, active |-> FALSE])
    /\ UNCHANGED <<plan, customer, sessions, doubled, overtaken>>

Renew == \E s \in subs :
    /\ ~s.active /\ ~s.ended
    /\ subs' = (subs \ {s}) \cup {[s EXCEPT !.active = TRUE]}
    /\ Post([type |-> "updated", user |-> s.user, cust |-> s.cust,
                             active |-> TRUE])
    /\ UNCHANGED <<plan, customer, sessions, doubled, overtaken>>

Webhook_NoStatus(e) ==
    IF e.type = "completed"
    THEN /\ plan' = [plan EXCEPT ![e.user] = "paid"]
         /\ customer' = [customer EXCEPT ![e.user] = e.cust]
    ELSE /\ plan' = [u \in Users |->
                       IF customer[u] = e.cust /\ e.type = "deleted" THEN "free" ELSE plan[u]]
         /\ UNCHANGED customer

\* The body of POST /billing/webhook.
Webhook(e) ==
    IF e.type = "completed"
    THEN /\ plan' = [plan EXCEPT ![e.user] = "paid"]
         /\ customer' = [customer EXCEPT ![e.user] = e.cust]
    ELSE /\ plan' = [u \in Users |->
                       IF customer[u] = e.cust
                       THEN IF e.active THEN "paid" ELSE "free"
                       ELSE plan[u]]
         /\ UNCHANGED customer

\* Events come in any order, several times too: one stays on the wire, and is
\* sent again, until Stripe sees the 200.
Without(events, i) == SubSeq(events, 1, i - 1) \o SubSeq(events, i + 1, Len(events))
Deliver == \E u \in Users : \E i \in DOMAIN wire[u] :
    /\ Webhook(wire[u][i])
    /\ wire' = [wire EXCEPT ![u] = Without(@, i)] \/ UNCHANGED wire
    /\ overtaken' = IF i > 1 THEN overtaken \cup {u} ELSE overtaken
    /\ UNCHANGED <<sessions, subs, doubled>>

-----------------------------------------------------------------------------
Next == (\E u \in Users : Checkout(u)) \/ Pay \/ Lapse \/ Renew \/ Deliver

Spec == Init /\ [][Next]_vars
-----------------------------------------------------------------------------
\* When Stripe has no event of a user left, that user has the paid plan exactly
\* while the subscription is active (billing/webhook): although every event may
\* be delivered repeatedly, and other users' events between them in any order.
\* Nothing is said of users who held two subscriptions at a time, and of those
\* of whom a newer event came in first, which the older one then undoes.
PlanFollowsSubscription ==
    \A u \in Users \ (doubled \cup overtaken) :
        wire[u] = <<>> => (plan[u] = "paid" <=> Live(u) # {})
=============================================================================
