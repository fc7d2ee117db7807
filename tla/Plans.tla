------------------------------- MODULE Plans --------------------------------
(***************************************************************************)
(* What a tenant pays for and what is monitored for it: the trial's end    *)
(* (app/scheduler/jobs.py), the move to the free plan                      *)
(* (app/services/plans.py), Paddle's webhooks (app/routers/webhooks.py),   *)
(* the plan's limits (app/db/models/tenant.py), and the routes that add,   *)
(* switch and delete monitored pages (app/routers/subprocessors.py,        *)
(* app/routers/onboarding.py, app/services/onboarding.py).                 *)
(*                                                                         *)
(* One tenant.  A job, a webhook and a request each load what they need in *)
(* a session of their own and commit later; InFlight says how many of them *)
(* may be between the two.  Paddle is the environment: it has the state of *)
(* the subscription and sends an event for each change of it, again and    *)
(* again until it is answered, in order or (Ordered = FALSE) in any order. *)
(***************************************************************************)
EXTENDS Naturals, FiniteSets, UnitOfWork

CONSTANTS
  Hooks,         \* webhook requests
  Requests,      \* requests that add pages
  Names,         \* normalised names of vendors
  None,          \* NULL, and a price id that the settings do not list
  Trials,        \* downgrade_expired_trials
  FreeLimit,     \* settings.FREE_TIER_MAX_SUBPROCESSORS
  StarterLimit,  \* settings.STARTER_MAX_SUBPROCESSORS
  GrowthLimit,   \* settings.MAX_SUBPROCESSORS_PER_TENANT
  MaxPages,      \* bound on the pages ever added
  MaxEvents,     \* bound on the events Paddle sends
  InFlight,      \* how many jobs, webhooks and requests may overlap
  Ordered        \* events come in the order they were sent

ASSUME LimitsAssumption ==
  /\ FreeLimit \in Nat /\ StarterLimit \in Nat /\ GrowthLimit \in Nat
  /\ FreeLimit <= StarterLimit /\ StarterLimit <= GrowthLimit
ASSUME BoundsAssumption ==
  MaxPages \in Nat /\ MaxEvents \in Nat /\ InFlight \in Nat \ {0} /\ Ordered \in BOOLEAN
ASSUME ActorsAssumption ==
  /\ IsFiniteSet(Hooks) /\ IsFiniteSet(Requests) /\ IsFiniteSet(Names)
  /\ Hooks \cap Requests = {} /\ Trials \notin Hooks \cup Requests

VARIABLES
  status,   \* subscription_status
  plan,     \* plan
  trial,    \* trial_ends_at: none, ahead or past
  linked,   \* paddle_customer_id is known
  admin,    \* the email is one of settings.admin_email_set
  pages,    \* subprocessors rows by age, the oldest first
  born,     \* how many of them there have been
  paddle,   \* the subscription as Paddle has it
  sent,     \* events that Paddle has not had an answer to
  events,   \* how many it has sent
  pc,       \* where each job, webhook and request is
  seen,     \* the tenant as its session loaded it
  hook,     \* the event a webhook carries
  off,      \* the pages it is about to switch off
  adds      \* the names a request is about to add

tenantVars == <<status, plan, linked>>
paddleVars == <<paddle, sent, events>>
pageVars == <<pages, born>>
actorVars == <<pc, seen, hook, off, adds>>
vars == <<tenantVars, trial, admin, pageVars, paddleVars, actorVars>>

Statuses == {"trialing", "active", "past_due", "canceled", "unpaid", "free"}
Tiers == {"starter", "growth"}
Actors == Hooks \cup Requests \cup {Trials}
PageIds == 1 .. MaxPages
Event == [n : 1 .. MaxEvents, type : {"completed", "updated", "canceled"},
          status : {"active", "past_due", "paused", "canceled"}, plan : Tiers \cup {None}]

TypeOK ==
  /\ status \in Statuses
  /\ plan \in Tiers
  /\ trial \in {"none", "ahead", "past"}
  /\ linked \in BOOLEAN
  /\ admin \in BOOLEAN
  /\ pages \in [PageIds -> [name : Names, on : BOOLEAN, cut : BOOLEAN] \cup {None}]
  /\ born \in 0 .. MaxPages
  /\ paddle \in [status : {"none", "active", "past_due", "paused", "canceled"},
                 plan : Tiers \cup {None}]
  /\ sent \subseteq Event
  /\ events \in 0 .. MaxEvents
  /\ pc \in [Actors -> {"idle", "moving", "leaving", "storing", "adding"}]
  /\ seen \in [Actors -> [status : Statuses, plan : Tiers] \cup {None}]
  /\ hook \in [Hooks -> Event \cup {None}]
  /\ off \in [Actors -> SUBSET PageIds]
  /\ adds \in [Requests -> SUBSET Names]

\* A tenant that has just signed up.
Init ==
  /\ status = "trialing"
  /\ plan = "growth"
  /\ trial \in {"none", "ahead"}
  /\ linked = FALSE
  /\ admin \in BOOLEAN
  /\ pages = [i \in PageIds |-> None]
  /\ born = 0
  /\ paddle = [status |-> "none", plan |-> None]
  /\ sent = {}
  /\ events = 0
  /\ pc = [a \in Actors |-> "idle"]
  /\ seen = [a \in Actors |-> None]
  /\ hook = [h \in Hooks |-> None]
  /\ off = [a \in Actors |-> {}]
  /\ adds = [r \in Requests |-> {}]

-----------------------------------------------------------------------------
(* The rows.                                                               *)

Rows == {i \in PageIds : pages[i] # None}
On == {i \in Rows : pages[i].on}
NamesOn(rows) == {pages[i].name : i \in rows}

\* Tenant.subprocessor_limit: a trial previews the Growth plan.
Limit(st, tier) ==
  IF st = "free" THEN FreeLimit
  ELSE IF st # "trialing" /\ tier = "starter" THEN StarterLimit
  ELSE GrowthLimit

\* Mutant of Kept: the newest pages are kept.
KeptNewest(rows) == {i \in rows : Cardinality({j \in rows : j > i}) < FreeLimit}

\* free_plan_split: of the pages that are on, the oldest.
Kept(rows) == {i \in rows : Cardinality({j \in rows : j < i}) < FreeLimit}

-----------------------------------------------------------------------------
(* Jobs, webhooks and requests.                                            *)

HasRoom == Cardinality({a \in Actors : pc[a] # "idle"}) < InFlight

MayStart(a) == pc[a] = "idle" /\ HasRoom

Load(a, where) ==
  /\ pc' = [pc EXCEPT ![a] = where]
  /\ seen' = [seen EXCEPT ![a] = [status |-> status, plan |-> plan]]

Finish(a) ==
  /\ pc' = [pc EXCEPT ![a] = "idle"]
  /\ seen' = [seen EXCEPT ![a] = None]

\* Mutant of ListExpired: the trials that are not over yet.
ListExpiredAhead ==
  /\ MayStart(Trials)
  /\ status = "trialing"
  /\ trial = "ahead"
  /\ ~admin
  /\ Load(Trials, "moving")
  /\ UNCHANGED <<tenantVars, trial, admin, pageVars, paddleVars, hook, off, adds>>

\* downgrade_expired_trials selects the tenants; the operator's own is skipped.
ListExpired ==
  /\ MayStart(Trials)
  /\ status = "trialing"
  /\ trial = "past"
  /\ ~admin
  /\ Load(Trials, "moving")
  /\ UNCHANGED <<tenantVars, trial, admin, pageVars, paddleVars, hook, off, adds>>

\* move_tenant_to_free loads the pages and picks those above the limit.
MoveToFree(a) ==
  /\ pc[a] = "moving"
  /\ pc' = [pc EXCEPT ![a] = "leaving"]
  /\ off' = [off EXCEPT ![a] = On \ Kept(On)]
  /\ UNCHANGED <<tenantVars, trial, admin, pageVars, paddleVars, seen, hook, adds>>

SwitchOff(ids) ==
  pages' = [i \in PageIds |->
    IF i \in ids /\ i \in Rows THEN [pages[i] EXCEPT !.on = FALSE, !.cut = TRUE] ELSE pages[i]]

\* The end of a trial is committed.
CommitTrialEnd ==
  /\ pc[Trials] = "leaving"
  /\ status' = Dirty(seen[Trials].status, "free", status)
  /\ SwitchOff(off[Trials])
  /\ off' = [off EXCEPT ![Trials] = {}]
  /\ Finish(Trials)
  /\ UNCHANGED <<born, plan, linked, trial, admin, paddleVars, hook, adds>>

-----------------------------------------------------------------------------
(* Paddle's webhooks.                                                      *)

\* _SUBSCRIPTION_STATUS_MAP
Mapped(st) == IF st \in {"paused", "canceled"} THEN "free" ELSE st

\* The event ends the paid subscription.
Ends(e) == e.type # "completed" /\ Mapped(e.status) = "free"

Deliverable(e) == ~Ordered \/ \A other \in sent : e.n <= other.n

\* Paddle has the answer, or not: then it sends the event again.
Answer(e) == sent' = sent \ {e} \/ UNCHANGED sent

\* A tenant is found by its id, which only a transaction carries, or by the
\* customer that an earlier transaction has left.
Deliver(h, e) ==
  /\ MayStart(h)
  /\ Deliverable(e)
  /\ e.type = "completed" \/ linked
  /\ Load(h, IF Ends(e) THEN "moving" ELSE "storing")
  /\ hook' = [hook EXCEPT ![h] = e]
  /\ UNCHANGED <<tenantVars, trial, admin, pageVars, paddleVars, off, adds>>

\* No tenant has that customer: the event is answered and forgotten.
DropUnknown(e) ==
  /\ Deliverable(e)
  /\ e.type # "completed"
  /\ ~linked
  /\ sent' = sent \ {e}
  /\ UNCHANGED <<tenantVars, trial, admin, pageVars, paddle, events, actorVars>>

StorePlan(h, e) ==
  IF e.plan = None \/ e.type = "canceled" THEN UNCHANGED plan
  ELSE plan' = Dirty(seen[h].plan, e.plan, plan)

\* Mutant of CommitEvent: a price that is not known is taken for the cheap plan.
CommitEventGuessing(h) ==
  /\ pc[h] = "storing"
  /\ LET e == hook[h] IN
     /\ status' = Dirty(seen[h].status, Mapped(e.status), status)
     /\ plan' = IF e.plan = "growth" THEN plan ELSE "starter"
     /\ linked' = (linked \/ e.type = "completed")
     /\ Answer(e)
  /\ hook' = [hook EXCEPT ![h] = None]
  /\ Finish(h)
  /\ UNCHANGED <<trial, admin, pageVars, paddle, events, off, adds>>

\* _handle_transaction_completed, and _handle_subscription_updated for a
\* status that does not end the subscription.
CommitEvent(h) ==
  /\ pc[h] = "storing"
  /\ LET e == hook[h] IN
     /\ status' = Dirty(seen[h].status, Mapped(e.status), status)
     /\ StorePlan(h, e)
     /\ linked' = (linked \/ e.type = "completed")
     /\ Answer(e)
  /\ hook' = [hook EXCEPT ![h] = None]
  /\ Finish(h)
  /\ UNCHANGED <<trial, admin, pageVars, paddle, events, off, adds>>

\* _handle_subscription_canceled, and an update that says paused or canceled.
CommitEnd(h) ==
  /\ pc[h] = "leaving"
  /\ status' = Dirty(seen[h].status, "free", status)
  /\ StorePlan(h, hook[h])
  /\ SwitchOff(off[h])
  /\ Answer(hook[h])
  /\ off' = [off EXCEPT ![h] = {}]
  /\ hook' = [hook EXCEPT ![h] = None]
  /\ Finish(h)
  /\ UNCHANGED <<born, linked, trial, admin, paddle, events, adds>>

-----------------------------------------------------------------------------
(* The tenant's pages.                                                     *)

NamesTaken == NamesOn(Rows)

Open(r, names) ==
  /\ Load(r, "adding")
  /\ adds' = [adds EXCEPT ![r] = names]
  /\ UNCHANGED <<tenantVars, trial, admin, pageVars, paddleVars, hook, off>>

\* create_subprocessor counts the rows; a name may be there already.
OpenCreate(r, name) ==
  /\ MayStart(r)
  /\ Cardinality(Rows) < Limit(status, plan)
  /\ Open(r, {name})

\* add_custom
OpenCustom(r, name) ==
  /\ MayStart(r)
  /\ Cardinality(Rows) < Limit(status, plan)
  /\ name \notin NamesTaken
  /\ Open(r, {name})

\* Mutant of OpenLibrary: the count is not kept while names are added.
OpenLibraryUncounted(r, picked) ==
  /\ MayStart(r)
  /\ Cardinality(NamesTaken) < Limit(status, plan)
  /\ picked \cap NamesTaken = {}
  /\ Open(r, picked)

\* add_providers: as many of the picked names that are new as fit under the
\* limit, which it compares with the number of names.
OpenLibrary(r, picked) ==
  /\ MayStart(r)
  /\ picked # {}
  /\ picked \cap NamesTaken = {}
  /\ Cardinality(NamesTaken) + Cardinality(picked) <= Limit(status, plan)
  /\ Open(r, picked)

\* The rows are inserted.
Insert(r) ==
  /\ pc[r] = "adding"
  /\ born + Cardinality(adds[r]) <= MaxPages
  /\ born' = born + Cardinality(adds[r])
  /\ \E name \in [born + 1 .. born' -> adds[r]] :
       /\ \A i, j \in DOMAIN name : i # j => name[i] # name[j]
       /\ pages' = [i \in PageIds |->
            IF i \in DOMAIN name THEN [name |-> name[i], on |-> TRUE, cut |-> FALSE] ELSE pages[i]]
  /\ adds' = [adds EXCEPT ![r] = {}]
  /\ Finish(r)
  /\ UNCHANGED <<tenantVars, trial, admin, paddleVars, hook, off>>

\* validate_url refuses the address, or the bound on pages is reached.
Refuse(r) ==
  /\ pc[r] = "adding"
  /\ adds' = [adds EXCEPT ![r] = {}]
  /\ Finish(r)
  /\ UNCHANGED <<tenantVars, trial, admin, pageVars, paddleVars, hook, off>>

\* toggle_subprocessor: no limit is looked at.
Toggle(i) ==
  /\ HasRoom
  /\ i \in Rows
  /\ pages' = [pages EXCEPT ![i].on = ~@, ![i].cut = FALSE]
  /\ UNCHANGED <<born, tenantVars, trial, admin, paddleVars, actorVars>>

\* delete_subprocessor, and remove in the wizard.
Delete(i) ==
  /\ HasRoom
  /\ i \in Rows
  /\ pages' = [pages EXCEPT ![i] = None]
  /\ UNCHANGED <<born, tenantVars, trial, admin, paddleVars, actorVars>>

-----------------------------------------------------------------------------
(* Paddle and the clock.                                                   *)

EndTrial ==
  /\ trial = "ahead"
  /\ trial' = "past"
  /\ UNCHANGED <<tenantVars, admin, pageVars, paddleVars, actorVars>>

Send(new) ==
  /\ events + Cardinality(new) <= MaxEvents
  /\ events' = events + Cardinality(new)
  /\ sent' = sent \cup new
  /\ UNCHANGED <<tenantVars, trial, admin, pageVars, actorVars>>

EventOf(n, type, st, tier) == [n |-> n, type |-> type, status |-> st, plan |-> tier]

\* The checkout is paid, or a payment is made: the subscription is reported, and
\* then the transaction is completed.
Pay(tier) ==
  /\ paddle' = [status |-> "active", plan |-> tier]
  /\ Send({EventOf(events + 1, "updated", "active", tier),
           EventOf(events + 2, "completed", "active", tier)})

\* A payment fails, the subscription is paused, resumed or gets another price.
Report(st, tier) ==
  /\ paddle.status \in {"active", "past_due", "paused"}
  /\ st \in {"active", "past_due", "paused"}
  /\ paddle' = [status |-> st, plan |-> tier]
  /\ Send({EventOf(events + 1, "updated", st, tier)})

\* The paid period of a cancelled subscription is over.
Cancel ==
  /\ paddle.status \in {"active", "past_due", "paused"}
  /\ paddle' = [paddle EXCEPT !.status = "canceled"]
  /\ \E type \in {"updated", "canceled"} :
       Send({EventOf(events + 1, type, "canceled", paddle.plan)})

Handle(h) ==
  \/ \E e \in sent : Deliver(h, e)
  \/ MoveToFree(h)
  \/ CommitEvent(h)
  \/ CommitEnd(h)

TrialStep ==
  \/ ListExpired
  \/ MoveToFree(Trials)
  \/ CommitTrialEnd

Tenant ==
  \/ \E r \in Requests, name \in Names : OpenCreate(r, name) \/ OpenCustom(r, name)
  \/ \E r \in Requests, picked \in SUBSET Names : OpenLibrary(r, picked)
  \/ \E r \in Requests : Insert(r) \/ Refuse(r)
  \/ \E i \in PageIds : Toggle(i) \/ Delete(i)

Paddle ==
  \/ \E tier \in Tiers \cup {None} : Pay(tier)
  \/ \E st \in {"active", "past_due", "paused"}, tier \in Tiers \cup {None} : Report(st, tier)
  \/ Cancel

Next ==
  \/ \E h \in Hooks : Handle(h)
  \/ \E e \in sent : DropUnknown(e)
  \/ TrialStep
  \/ Tenant
  \/ Paddle
  \/ EndTrial

Spec == Init /\ [][Next]_vars

\* A sweep runs the job every three hours; what is in flight comes to its end.
Fairness ==
  /\ SF_vars(ListExpired)
  /\ WF_vars(MoveToFree(Trials) \/ CommitTrialEnd)
  /\ \A h \in Hooks : WF_vars(MoveToFree(h) \/ CommitEvent(h) \/ CommitEnd(h))
  /\ \A r \in Requests : WF_vars(Insert(r) \/ Refuse(r))

FairSpec == Spec /\ Fairness

-----------------------------------------------------------------------------
(* With one job, webhook or request at a time and events in order.         *)

\* When every event has been answered, the tenant is what Paddle is paid for: a
\* paused or cancelled subscription is the free plan, and the tier is the one of
\* the price, unless that is not known.
Settled == sent = {} /\ \A h \in Hooks : pc[h] = "idle"
InStep ==
  Settled /\ paddle.status # "none"
    => /\ status = Mapped(paddle.status)
       /\ paddle.plan # None => plan = paddle.plan

\* "Your 3 oldest pages keep being checked" (pricing.faq3_a): the move to the free
\* plan leaves on the oldest pages that were on, up to the limit.
OldestKept ==
  [][status # "free" /\ status' = "free"
       => /\ On' \subseteq On
          /\ \A i \in On, j \in On' : i < j => i \in On'
          /\ On' = On \/ Cardinality(On') = FreeLimit]_vars

\* A page that is added leaves no more vendors on the list than the plan allows.
AddsWithinLimit ==
  [][born' > born => Cardinality(NamesTaken') <= Limit(status, plan)]_vars

\* A trial that is over does not stay one (the operator's own excepted).
TrialsEnd == trial = "past" /\ ~admin ~> status # "trialing"

-----------------------------------------------------------------------------
(* What the pages say and the code does not do.                            *)

\* "Upgrading turns them back on with their history intact"
\* (downgrade_expired_trials), "subscribing restores them" (terms.html).
UpgradeRestores ==
  status = "active" /\ (\E i \in Rows : pages[i].cut)
    => Cardinality(On) >= Limit(status, plan)

\* "The free plan, which monitors up to 3 pages" (terms.html).
FreeWithinAllowance == status = "free" => Cardinality(On) <= FreeLimit

\* "Add library providers to a tenant, honouring the plan cap" (add_providers):
\* the cap is compared with the number of names, and two rows may have one name.
RowsWithinLimit == [][born' > born => Cardinality(Rows') <= Limit(status, plan)]_vars

=============================================================================
