----------------------------- MODULE PlansProofs ----------------------------
(***************************************************************************)
(* What PlansSerial checks for two names and two pages, for any number of  *)
(* them, any limits and any number of webhooks and requests: the types,    *)
(* whatever overlaps; if jobs, webhooks and requests do not overlap, that  *)
(* no page is added beyond the plan; and if Paddle's events also come in   *)
(* order, that the tenant ends as what Paddle has, and that the move to    *)
(* the free plan keeps the oldest pages.                                   *)
(***************************************************************************)
EXTENDS Plans, FiniteSetTheorems, TLAPS

Row == [name : Names, on : BOOLEAN, cut : BOOLEAN]
Copy == [status : Statuses, plan : Tiers]

\* What is under way carries what it needs: a webhook its event, all of them the
\* tenant.
BusyInv ==
  /\ \A a \in Actors : pc[a] # "idle" => seen[a] \in Copy
  /\ \A h \in Hooks : /\ pc[h] # "idle" => hook[h] \in Event
                      /\ pc[h] \in {"idle", "moving", "leaving", "storing"}
                      /\ pc[h] = "storing" => Mapped(hook[h].status) # "free"
                                              \/ hook[h].type = "completed"
  /\ \A r \in Requests : pc[r] \in {"idle", "adding"}
  /\ pc[Trials] \in {"idle", "moving", "leaving"}

IInv == TypeOK /\ BusyInv

LEMMA Kinds ==
  /\ Hooks \subseteq Actors /\ Requests \subseteq Actors /\ Trials \in Actors
  /\ \A h \in Hooks : h \notin Requests /\ h # Trials
  /\ \A r \in Requests : r \notin Hooks /\ r # Trials
BY ActorsAssumption DEF Actors

LEMMA InitIInv == Init => IInv
<1> SUFFICES ASSUME Init PROVE IInv
  OBVIOUS
<1>1. TypeOK
  <2>1. /\ status \in Statuses /\ plan \in Tiers /\ trial \in {"none", "ahead", "past"}
        /\ linked \in BOOLEAN /\ admin \in BOOLEAN /\ sent \subseteq Event
    BY DEF Init, Statuses, Tiers
  <2>2. paddle \in [status : {"none", "active", "past_due", "paused", "canceled"},
                    plan : Tiers \cup {None}]
    BY DEF Init
  <2>3. born \in 0 .. MaxPages /\ events \in 0 .. MaxEvents
    BY BoundsAssumption DEF Init
  <2>4. pages \in [PageIds -> Row \cup {None}]
    BY DEF Init
  <2>5. /\ pc \in [Actors -> {"idle", "moving", "leaving", "storing", "adding"}]
        /\ seen \in [Actors -> Copy \cup {None}]
        /\ hook \in [Hooks -> Event \cup {None}]
        /\ off \in [Actors -> SUBSET PageIds]
        /\ adds \in [Requests -> SUBSET Names]
    BY DEF Init
  <2> QED
    BY <2>1, <2>2, <2>3, <2>4, <2>5 DEF TypeOK, Row, Copy
<1>2. BusyInv
  BY Kinds DEF Init, BusyInv
<1> QED
  BY <1>1, <1>2 DEF IInv

\* Loading the tenant, and letting it go.
LEMMA LoadTypes ==
  ASSUME IInv, NEW a \in Actors, NEW where \in {"moving", "storing", "adding"}, Load(a, where)
  PROVE  /\ pc' \in [Actors -> {"idle", "moving", "leaving", "storing", "adding"}]
         /\ seen' \in [Actors -> Copy \cup {None}]
         /\ pc'[a] = where /\ seen'[a] \in Copy
         /\ \A b \in Actors : b # a => pc'[b] = pc[b] /\ seen'[b] = seen[b]
<1> DEFINE copy == [status |-> status, plan |-> plan]
<1>1. copy \in Copy
  BY DEF IInv, TypeOK, Copy
<1>2. seen' = [seen EXCEPT ![a] = copy] /\ pc' = [pc EXCEPT ![a] = where]
  BY DEF Load
<1> HIDE DEF copy
<1> QED
  BY <1>1, <1>2 DEF IInv, TypeOK, Copy

LEMMA FinishTypes ==
  ASSUME IInv, NEW a \in Actors, Finish(a)
  PROVE  /\ pc' \in [Actors -> {"idle", "moving", "leaving", "storing", "adding"}]
         /\ seen' \in [Actors -> Copy \cup {None}]
         /\ pc'[a] = "idle"
         /\ \A b \in Actors : b # a => pc'[b] = pc[b] /\ seen'[b] = seen[b]
BY DEF Finish, IInv, TypeOK, Copy

LEMMA SwitchOffType ==
  ASSUME IInv, NEW ids, SwitchOff(ids) PROVE pages' \in [PageIds -> Row \cup {None}]
<1>1. ASSUME NEW i \in PageIds, i \in Rows
      PROVE  [pages[i] EXCEPT !.on = FALSE, !.cut = TRUE] \in Row
  <2>1. pages[i] \in Row
    BY <1>1 DEF IInv, TypeOK, Rows, Row
  <2> QED
    BY <2>1 DEF Row
<1> QED
  BY <1>1 DEF SwitchOff, IInv, TypeOK, Row

LEMMA ListIInv == ASSUME IInv, ListExpired PROVE IInv'
<1>1. /\ Load(Trials, "moving") /\ Trials \in Actors
      /\ UNCHANGED <<status, plan, linked, trial, admin, pages, born, paddle, sent, events,
                     hook, off, adds>>
  BY Kinds DEF ListExpired, tenantVars, pageVars, paddleVars
<1>2. TypeOK'
  BY <1>1, LoadTypes DEF IInv, TypeOK, Copy
<1>3. BusyInv'
  BY <1>1, LoadTypes, Kinds DEF IInv, BusyInv
<1> QED
  BY <1>2, <1>3 DEF IInv

LEMMA MoveIInv == ASSUME IInv, NEW a \in Hooks \cup {Trials}, MoveToFree(a) PROVE IInv'
<1>1. /\ a \in Actors /\ pc[a] = "moving"
      /\ pc' = [pc EXCEPT ![a] = "leaving"]
      /\ off' = [off EXCEPT ![a] = On \ Kept(On)]
      /\ UNCHANGED <<status, plan, linked, trial, admin, pages, born, paddle, sent, events,
                     seen, hook, adds>>
  BY Kinds DEF MoveToFree, tenantVars, pageVars, paddleVars
<1>2. On \ Kept(On) \in SUBSET PageIds
  BY DEF On, Rows
<1>3. TypeOK'
  BY <1>1, <1>2 DEF IInv, TypeOK
<1>4. BusyInv'
  BY <1>1, Kinds DEF IInv, TypeOK, BusyInv
<1> QED
  BY <1>3, <1>4 DEF IInv

LEMMA CommitTrialIInv == ASSUME IInv, CommitTrialEnd PROVE IInv'
<1>1. /\ Trials \in Actors /\ pc[Trials] = "leaving" /\ Finish(Trials)
      /\ SwitchOff(off[Trials]) /\ off' = [off EXCEPT ![Trials] = {}]
      /\ status' = Dirty(seen[Trials].status, "free", status)
      /\ UNCHANGED <<born, plan, linked, trial, admin, paddle, sent, events, hook, adds>>
  BY Kinds DEF CommitTrialEnd, paddleVars
<1>2. status' \in Statuses
  BY <1>1 DEF Dirty, IInv, TypeOK, Statuses
<1>3. pages' \in [PageIds -> Row \cup {None}]
  BY <1>1, SwitchOffType
<1>4. TypeOK'
  BY <1>1, <1>2, <1>3, FinishTypes DEF IInv, TypeOK, Copy, Row
<1>5. BusyInv'
  BY <1>1, FinishTypes, Kinds DEF IInv, BusyInv
<1> QED
  BY <1>4, <1>5 DEF IInv

-----------------------------------------------------------------------------
(* Paddle's webhooks.                                                      *)

LEMMA DeliverIInv == ASSUME IInv, NEW h \in Hooks, NEW e \in sent, Deliver(h, e) PROVE IInv'
<1> DEFINE where == IF Ends(e) THEN "moving" ELSE "storing"
<1>1. /\ h \in Actors /\ e \in Event /\ Load(h, where)
      /\ hook' = [hook EXCEPT ![h] = e]
      /\ UNCHANGED <<status, plan, linked, trial, admin, pages, born, paddle, sent, events,
                     off, adds>>
  BY Kinds DEF Deliver, IInv, TypeOK, tenantVars, pageVars, paddleVars
<1>2. /\ where \in {"moving", "storing", "adding"} /\ where \in {"moving", "storing"}
      /\ where = "storing" => Mapped(e.status) # "free" \/ e.type = "completed"
  BY DEF Ends
<1> HIDE DEF where
<1>3. TypeOK'
  BY <1>1, <1>2, LoadTypes DEF IInv, TypeOK, Copy
<1>4. BusyInv'
  <2>1. \A a \in Actors : pc'[a] # "idle" => seen'[a] \in Copy
    BY <1>1, <1>2, LoadTypes DEF IInv, BusyInv
  <2>2. /\ pc'[h] = where /\ hook'[h] = e
        /\ \A g \in Hooks : g # h => pc'[g] = pc[g] /\ hook'[g] = hook[g]
        /\ \A r \in Requests : pc'[r] = pc[r]
        /\ pc'[Trials] = pc[Trials]
    BY <1>1, <1>2, LoadTypes, Kinds DEF IInv, TypeOK
  <2> QED
    BY <1>1, <1>2, <2>1, <2>2 DEF IInv, BusyInv
<1> QED
  BY <1>3, <1>4 DEF IInv

\* A webhook is over and its event may be answered.
LEMMA HookIInv ==
  ASSUME IInv, NEW h \in Hooks, NEW e, Finish(h), Answer(e),
         status' \in Statuses, plan' \in Tiers, linked' \in BOOLEAN,
         pages' \in [PageIds -> Row \cup {None}],
         off' \in [Actors -> SUBSET PageIds],
         hook' = [hook EXCEPT ![h] = None],
         UNCHANGED <<born, trial, admin, paddle, events, adds>>
  PROVE  IInv'
<1>1. h \in Actors /\ sent' \subseteq Event
  BY Kinds DEF Answer, IInv, TypeOK
<1>2. TypeOK'
  BY <1>1, FinishTypes DEF IInv, TypeOK, Copy, Row
<1>3. BusyInv'
  <2>1. \A a \in Actors : pc'[a] # "idle" => seen'[a] \in Copy
    BY <1>1, FinishTypes DEF IInv, BusyInv
  <2>2. /\ pc'[h] = "idle"
        /\ \A g \in Hooks : g # h => pc'[g] = pc[g] /\ hook'[g] = hook[g]
        /\ \A r \in Requests : pc'[r] = pc[r]
        /\ pc'[Trials] = pc[Trials]
    BY <1>1, FinishTypes, Kinds DEF IInv, TypeOK
  <2> QED
    BY <2>1, <2>2 DEF IInv, BusyInv
<1> QED
  BY <1>2, <1>3 DEF IInv

LEMMA StoreTypes ==
  ASSUME IInv, NEW h \in Hooks, NEW e \in Event, StorePlan(h, e) PROVE plan' \in Tiers
BY DEF StorePlan, Dirty, Event, IInv, TypeOK

LEMMA CommitEventIInv == ASSUME IInv, NEW h \in Hooks, CommitEvent(h) PROVE IInv'
<1>1. /\ hook[h] \in Event /\ StorePlan(h, hook[h]) /\ Answer(hook[h]) /\ Finish(h)
      /\ status' = Dirty(seen[h].status, Mapped(hook[h].status), status)
      /\ linked' = (linked \/ hook[h].type = "completed")
      /\ hook' = [hook EXCEPT ![h] = None]
      /\ UNCHANGED <<pages, born, trial, admin, paddle, events, off, adds>>
  BY DEF CommitEvent, IInv, BusyInv, pageVars
<1>2. Mapped(hook[h].status) \in Statuses
  BY <1>1 DEF Mapped, Event, Statuses
<1>3. status' \in Statuses /\ linked' \in BOOLEAN
  BY <1>1, <1>2 DEF Dirty, IInv, TypeOK
<1>4. plan' \in Tiers
  BY <1>1, StoreTypes
<1>5. pages' \in [PageIds -> Row \cup {None}] /\ off' \in [Actors -> SUBSET PageIds]
  BY <1>1 DEF IInv, TypeOK, Row
<1> QED
  BY <1>1, <1>3, <1>4, <1>5, HookIInv

LEMMA CommitEndIInv == ASSUME IInv, NEW h \in Hooks, CommitEnd(h) PROVE IInv'
<1>1. /\ hook[h] \in Event /\ StorePlan(h, hook[h]) /\ Answer(hook[h]) /\ Finish(h)
      /\ status' = Dirty(seen[h].status, "free", status)
      /\ SwitchOff(off[h]) /\ off' = [off EXCEPT ![h] = {}]
      /\ hook' = [hook EXCEPT ![h] = None]
      /\ UNCHANGED <<born, linked, trial, admin, paddle, events, adds>>
  BY DEF CommitEnd, IInv, BusyInv
<1>2. status' \in Statuses /\ linked' \in BOOLEAN
  BY <1>1 DEF Dirty, IInv, TypeOK, Statuses
<1>3. plan' \in Tiers
  BY <1>1, StoreTypes
<1>4. pages' \in [PageIds -> Row \cup {None}] /\ off' \in [Actors -> SUBSET PageIds]
  BY <1>1, SwitchOffType DEF IInv, TypeOK
<1> QED
  BY <1>1, <1>2, <1>3, <1>4, HookIInv

-----------------------------------------------------------------------------
(* Requests.                                                               *)

LEMMA OpenIInv ==
  ASSUME IInv, NEW r \in Requests, NEW names \in SUBSET Names, Open(r, names) PROVE IInv'
<1>1. /\ r \in Actors /\ Load(r, "adding") /\ adds' = [adds EXCEPT ![r] = names]
      /\ UNCHANGED <<status, plan, linked, trial, admin, pages, born, paddle, sent, events,
                     hook, off>>
  BY Kinds DEF Open, tenantVars, pageVars, paddleVars
<1>2. TypeOK'
  BY <1>1, LoadTypes DEF IInv, TypeOK, Copy
<1>3. BusyInv'
  BY <1>1, LoadTypes, Kinds DEF IInv, BusyInv
<1> QED
  BY <1>2, <1>3 DEF IInv

\* A request is over.
LEMMA RequestIInv ==
  ASSUME IInv, NEW r \in Requests, Finish(r), adds' = [adds EXCEPT ![r] = {}],
         pages' \in [PageIds -> Row \cup {None}], born' \in 0 .. MaxPages,
         UNCHANGED <<status, plan, linked, trial, admin, paddle, sent, events, hook, off>>
  PROVE  IInv'
<1>1. r \in Actors
  BY Kinds
<1>2. TypeOK'
  BY <1>1, FinishTypes DEF IInv, TypeOK, Copy, Row
<1>3. BusyInv'
  BY <1>1, FinishTypes, Kinds DEF IInv, BusyInv
<1> QED
  BY <1>2, <1>3 DEF IInv

LEMMA InsertTypes ==
  ASSUME IInv, NEW r \in Requests, Insert(r)
  PROVE  /\ pages' \in [PageIds -> Row \cup {None}] /\ born' \in 0 .. MaxPages
         /\ \A i \in PageIds : pages'[i] # pages[i] => pages'[i].name \in adds[r]
<1>1. IsFiniteSet(adds[r])
  BY ActorsAssumption, FS_Subset DEF IInv, TypeOK
<1>2. Cardinality(adds[r]) \in Nat
  BY <1>1, FS_CardinalityType
<1>3. born' \in 0 .. MaxPages
  BY <1>2, BoundsAssumption DEF Insert, IInv, TypeOK
<1>4. PICK name \in [born + 1 .. born' -> adds[r]] :
        pages' = [i \in PageIds |->
          IF i \in DOMAIN name THEN [name |-> name[i], on |-> TRUE, cut |-> FALSE] ELSE pages[i]]
  BY DEF Insert
<1>5. \A i \in DOMAIN name : name[i] \in adds[r] /\ name[i] \in Names
  BY <1>4 DEF IInv, TypeOK
<1>6. pages' \in [PageIds -> Row \cup {None}]
  BY <1>4, <1>5 DEF IInv, TypeOK, Row
<1>7. \A i \in PageIds : pages'[i] # pages[i] => pages'[i].name \in adds[r]
  BY <1>4, <1>5
<1> QED
  BY <1>3, <1>6, <1>7

LEMMA AddIInv == ASSUME IInv, NEW r \in Requests, Insert(r) \/ Refuse(r) PROVE IInv'
<1>1. /\ Finish(r) /\ adds' = [adds EXCEPT ![r] = {}]
      /\ UNCHANGED <<status, plan, linked, trial, admin, paddle, sent, events, hook, off>>
  BY DEF Insert, Refuse, tenantVars, paddleVars
<1>2. pages' \in [PageIds -> Row \cup {None}] /\ born' \in 0 .. MaxPages
  BY InsertTypes DEF Refuse, pageVars, IInv, TypeOK, Row
<1> QED
  BY <1>1, <1>2, RequestIInv

\* A step of Paddle, the calendar or a page that starts and ends no handler.
LEMMA OutsideIInv ==
  ASSUME IInv, UNCHANGED <<pc, seen, hook, off, adds, status, plan, linked, admin, born>>,
         pages' \in [PageIds -> Row \cup {None}],
         trial' \in {"none", "ahead", "past"},
         sent' \subseteq Event, events' \in 0 .. MaxEvents,
         paddle' \in [status : {"none", "active", "past_due", "paused", "canceled"},
                      plan : Tiers \cup {None}]
  PROVE  IInv'
<1>1. TypeOK'
  BY DEF IInv, TypeOK, Row
<1>2. BusyInv'
  BY DEF IInv, BusyInv
<1> QED
  BY <1>1, <1>2 DEF IInv

\* toggle_subprocessor and delete_subprocessor
LEMMA PageIInv == ASSUME IInv, NEW i \in PageIds, Toggle(i) \/ Delete(i) PROVE IInv'
<1>1. pages[i] \in Row \cup {None} /\ UNCHANGED <<pc, seen, hook, off, adds, status, plan, linked,
                 trial, admin, born, paddle, sent, events>>
  BY DEF Toggle, Delete, IInv, TypeOK, Row, tenantVars, paddleVars, actorVars
<1>2. pages' \in [PageIds -> Row \cup {None}]
  <2>1. CASE Delete(i)
    BY <2>1 DEF Delete, IInv, TypeOK, Row
  <2>2. CASE Toggle(i)
    <3> DEFINE row == [pages[i] EXCEPT !.on = ~pages[i].on, !.cut = FALSE]
    <3>1. pages[i] \in Row
      BY <1>1, <2>2 DEF Toggle, Rows
    <3>2. row \in Row
      BY <3>1 DEF Row
    <3>3. pages' = [pages EXCEPT ![i] = row]
      BY <2>2 DEF Toggle, IInv, TypeOK
    <3> HIDE DEF row
    <3> QED
      BY <3>2, <3>3 DEF IInv, TypeOK, Row
  <2> QED
    BY <2>1, <2>2
<1> QED
  BY <1>1, <1>2, OutsideIInv DEF IInv, TypeOK

\* Everything that changes nothing but Paddle and the calendar.
LEMMA SendIInv ==
  ASSUME IInv, NEW new \in SUBSET Event, IsFiniteSet(new), Send(new),
         paddle' \in [status : {"none", "active", "past_due", "paused", "canceled"},
                      plan : Tiers \cup {None}]
  PROVE  IInv'
<1>1. Cardinality(new) \in Nat
  BY FS_CardinalityType
<1>2. events' \in 0 .. MaxEvents /\ sent' \subseteq Event
  BY <1>1, BoundsAssumption DEF Send, IInv, TypeOK
<1>3. UNCHANGED <<pc, seen, hook, off, adds, status, plan, linked, trial, admin, pages, born>>
  BY DEF Send, tenantVars, pageVars, actorVars
<1> QED
  BY <1>2, <1>3, OutsideIInv DEF IInv, TypeOK, Row

LEMMA PaddleIInv == ASSUME IInv, Paddle PROVE IInv'
<1> USE DEF EventOf
<1>0. events \in 0 .. MaxEvents /\ MaxEvents \in Nat
  BY BoundsAssumption DEF IInv, TypeOK
<1>1. ASSUME NEW tier \in Tiers \cup {None}, Pay(tier) PROVE IInv'
  <2> DEFINE one == EventOf(events + 1, "updated", "active", tier)
             two == EventOf(events + 2, "completed", "active", tier)
  <2>1. one # two
    OBVIOUS
  <2>2. IsFiniteSet({one, two}) /\ Cardinality({one, two}) = 2
    <3>1. IsFiniteSet({one}) /\ Cardinality({one}) = 1
      BY FS_Singleton
    <3> HIDE DEF one, two
    <3>2. {one, two} = {one} \cup {two} /\ two \notin {one}
      BY <2>1
    <3> QED
      BY <3>1, <3>2, FS_AddElement
  <2>3. one \in Event /\ two \in Event
    BY <1>0, <1>1, <2>2 DEF Pay, Send, Event
  <2>4. paddle' \in [status : {"none", "active", "past_due", "paused", "canceled"},
                      plan : Tiers \cup {None}]
    BY <1>1 DEF Pay
  <2>5. Send({one, two})
    BY <1>1 DEF Pay
  <2> HIDE DEF one, two
  <2> QED
    BY <2>2, <2>3, <2>4, <2>5, SendIInv
<1>2. ASSUME NEW type \in {"updated", "canceled"},
             NEW st \in {"active", "past_due", "paused", "canceled"},
             NEW tier \in Tiers \cup {None}, Send({EventOf(events + 1, type, st, tier)}),
             paddle' \in [status : {"none", "active", "past_due", "paused", "canceled"},
                          plan : Tiers \cup {None}]
      PROVE  IInv'
  <2> DEFINE one == EventOf(events + 1, type, st, tier)
  <2>1. IsFiniteSet({one}) /\ Cardinality({one}) = 1
    BY FS_Singleton
  <2>2. one \in Event
    BY <1>0, <1>2, <2>1 DEF Send, Event
  <2> HIDE DEF one
  <2> QED
    BY <1>2, <2>1, <2>2, SendIInv DEF one
<1>3. ASSUME NEW st \in {"active", "past_due", "paused"}, NEW tier \in Tiers \cup {None},
             Report(st, tier)
      PROVE  IInv'
  BY <1>2, <1>3 DEF Report
<1>4. ASSUME Cancel PROVE IInv'
  <2>1. paddle.plan \in Tiers \cup {None}
    BY DEF IInv, TypeOK
  <2>2. paddle' \in [status : {"none", "active", "past_due", "paused", "canceled"},
                      plan : Tiers \cup {None}]
    BY <1>4 DEF Cancel, IInv, TypeOK
  <2>3. PICK type \in {"updated", "canceled"} :
          Send({EventOf(events + 1, type, "canceled", paddle.plan)})
    BY <1>4 DEF Cancel
  <2> QED
    BY <1>2, <2>1, <2>2, <2>3
<1> QED
  BY <1>1, <1>3, <1>4 DEF Paddle

LEMMA NextIInv == IInv /\ [Next]_vars => IInv'
<1> SUFFICES ASSUME IInv, [Next]_vars PROVE IInv'
  OBVIOUS
<1>1. ASSUME NEW h \in Hooks, Handle(h) PROVE IInv'
  BY <1>1, DeliverIInv, MoveIInv, CommitEventIInv, CommitEndIInv DEF Handle
<1>2. ASSUME NEW e \in sent, DropUnknown(e) PROVE IInv'
  <2>1. /\ sent' \subseteq Event
        /\ UNCHANGED <<pc, seen, hook, off, adds, status, plan, linked, trial, admin, pages, born,
                       paddle, events>>
    BY <1>2 DEF DropUnknown, IInv, TypeOK, tenantVars, pageVars, actorVars
  <2> QED
    BY <2>1, OutsideIInv DEF IInv, TypeOK, Row
<1>3. CASE TrialStep
  BY <1>3, ListIInv, MoveIInv, CommitTrialIInv DEF TrialStep
<1>4. CASE Tenant
  <2>1. ASSUME NEW r \in Requests, NEW name \in Names, OpenCreate(r, name) \/ OpenCustom(r, name)
        PROVE  IInv'
    BY <2>1, OpenIInv DEF OpenCreate, OpenCustom
  <2>2. ASSUME NEW r \in Requests, NEW picked \in SUBSET Names, OpenLibrary(r, picked) PROVE IInv'
    BY <2>2, OpenIInv DEF OpenLibrary
  <2> QED
    BY <1>4, <2>1, <2>2, AddIInv, PageIInv DEF Tenant
<1>5. CASE Paddle
  BY <1>5, PaddleIInv
<1>6. CASE EndTrial
  <2>1. /\ trial' = "past"
        /\ UNCHANGED <<pc, seen, hook, off, adds, status, plan, linked, admin, pages, born, paddle,
                       sent, events>>
    BY <1>6 DEF EndTrial, tenantVars, pageVars, paddleVars, actorVars
  <2> QED
    BY <2>1, OutsideIInv DEF IInv, TypeOK, Row
<1>7. CASE UNCHANGED vars
  <2>1. UNCHANGED <<pc, seen, hook, off, adds, status, plan, linked, trial, admin, pages, born,
                   paddle, sent, events>>
    BY <1>7 DEF vars, tenantVars, pageVars, paddleVars, actorVars
  <2> QED
    BY <2>1, OutsideIInv DEF IInv, TypeOK, Row
<1> QED
  BY <1>1, <1>2, <1>3, <1>4, <1>5, <1>6, <1>7 DEF Next

\* What is under way is well formed in every reachable state, overlapping or not.
THEOREM Invariance == Spec => []IInv
BY InitIInv, NextIInv, PTL DEF Spec

\* Tenants, rows, events and handlers keep their types whatever overlaps.
THEOREM TypeCorrect == Spec => []TypeOK
<1>1. IInv => TypeOK
  BY DEF IInv
<1> QED
  BY <1>1, Invariance, PTL

-----------------------------------------------------------------------------
(* One job, webhook or request at a time.                                  *)

\* Only one is under way, and while it is one that adds pages nothing that the
\* limit was compared with can change.
AloneInv == \A a, b \in Actors : pc[a] # "idle" /\ pc[b] # "idle" => a = b
RoomInv ==
  \A r \in Requests :
    pc[r] = "adding" => Cardinality(NamesTaken \cup adds[r]) <= Limit(status, plan)
SerialInv == InFlight = 1 => AloneInv /\ RoomInv

LEMMA RoomIsQuiet ==
  ASSUME HasRoom, InFlight = 1 PROVE \A a \in Actors : pc[a] = "idle"
<1> DEFINE busy == {a \in Actors : pc[a] # "idle"}
<1>1. IsFiniteSet(Hooks \cup Requests)
  BY ActorsAssumption, FS_Union
<1>2. IsFiniteSet(Actors)
  BY <1>1, FS_AddElement DEF Actors
<1>3. IsFiniteSet(busy)
  BY <1>2, FS_Subset
<1>4. Cardinality(busy) \in Nat /\ Cardinality(busy) < 1
  BY <1>3, FS_CardinalityType DEF HasRoom
<1>5. Cardinality(busy) = 0
  BY <1>4
<1>6. busy = {}
  BY <1>3, <1>5, FS_EmptySet
<1> QED
  BY <1>6

\* There are no more names than rows.
LEMMA NamesAndRows ==
  ASSUME IInv
  PROVE  /\ IsFiniteSet(NamesTaken) /\ IsFiniteSet(Rows)
         /\ Cardinality(NamesTaken) \in Nat /\ Cardinality(Rows) \in Nat
         /\ Cardinality(NamesTaken) <= Cardinality(Rows)
<1> DEFINE name == [i \in Rows |-> pages[i].name]
<1>1. IsFiniteSet(PageIds)
  BY FS_Interval, BoundsAssumption DEF PageIds
<1>2. IsFiniteSet(Rows)
  BY <1>1, FS_Subset DEF Rows
<1>3. name \in Surjection(Rows, NamesTaken)
  BY DEF Surjection, NamesTaken, NamesOn
<1>4. IsFiniteSet(NamesTaken) /\ Cardinality(NamesTaken) <= Cardinality(Rows)
  BY <1>2, <1>3, FS_Surjection
<1> QED
  BY <1>2, <1>4, FS_CardinalityType

\* What the routes that add pages check, as one fact.
LEMMA OpenLeavesRoom ==
  ASSUME IInv, NEW r \in Requests, NEW names \in SUBSET Names,
         \/ \E name \in Names :
              /\ names = {name}
              /\ OpenCreate(r, name) \/ OpenCustom(r, name)
         \/ OpenLibrary(r, names)
  PROVE  Cardinality(NamesTaken \cup names) <= Limit(status, plan)
<1>0. Limit(status, plan) \in Nat
  BY LimitsAssumption DEF Limit
<1>1. ASSUME NEW name \in Names, names = {name}, OpenCreate(r, name) \/ OpenCustom(r, name)
      PROVE  Cardinality(NamesTaken \cup names) <= Limit(status, plan)
  <2>1. Cardinality(Rows) < Limit(status, plan)
    BY <1>1 DEF OpenCreate, OpenCustom
  <2>2. Cardinality(NamesTaken \cup {name}) <= Cardinality(NamesTaken) + 1
    <3>1. IsFiniteSet(NamesTaken) /\ Cardinality(NamesTaken) \in Nat
      BY NamesAndRows
    <3>2. Cardinality(NamesTaken \cup {name})
            = IF name \in NamesTaken THEN Cardinality(NamesTaken) ELSE Cardinality(NamesTaken) + 1
      BY <3>1, FS_AddElement
    <3> QED
      BY <3>1, <3>2
  <2>3. Cardinality(NamesTaken \cup {name}) \in Nat
    BY NamesAndRows, FS_AddElement, FS_CardinalityType
  <2> QED
    BY <1>0, <1>1, <2>1, <2>2, <2>3, NamesAndRows
<1>2. ASSUME OpenLibrary(r, names) PROVE Cardinality(NamesTaken \cup names) <= Limit(status, plan)
  <2>1. IsFiniteSet(names) /\ Cardinality(names) \in Nat
    BY ActorsAssumption, FS_Subset, FS_CardinalityType
  <2>2. names \cap NamesTaken = {}
        /\ Cardinality(NamesTaken) + Cardinality(names) <= Limit(status, plan)
    BY <1>2 DEF OpenLibrary
  <2>3. NamesTaken \cap names = {}
    BY <2>2
  <2>4. Cardinality(NamesTaken \cup names)
          = Cardinality(NamesTaken) + Cardinality(names) - Cardinality(NamesTaken \cap names)
    BY <2>1, NamesAndRows, FS_Union
  <2>5. Cardinality(NamesTaken \cap names) = 0
    BY <2>3, FS_EmptySet
  <2> QED
    BY <2>1, <2>2, <2>4, <2>5, NamesAndRows
<1> QED
  BY <1>1, <1>2

\* A second actor starts only when nothing is under way.
LEMMA NextSerial == IInv /\ SerialInv /\ [Next]_vars => SerialInv'
<1> SUFFICES ASSUME IInv, InFlight = 1, AloneInv, RoomInv, [Next]_vars
             PROVE  AloneInv' /\ RoomInv'
  BY DEF SerialInv
<1> USE Kinds
<1>0. /\ pc \in [Actors -> {"idle", "moving", "leaving", "storing", "adding"}]
      /\ seen \in [Actors -> Copy \cup {None}]
      /\ adds \in [Requests -> SUBSET Names]
      /\ \A r \in Requests : pc[r] \in {"idle", "adding"}
  BY DEF IInv, TypeOK, Copy, BusyInv
\* Another one starts: nothing was under way.
<1>1. ASSUME NEW a \in Actors, HasRoom, NEW where, Load(a, where)
      PROVE  AloneInv' /\ \A b \in Actors : b # a => pc'[b] = "idle"
  BY <1>0, <1>1, RoomIsQuiet DEF Load, AloneInv
\* A job or a webhook goes on or ends: no request was under way.
<1>2. ASSUME NEW a \in Hooks \cup {Trials}, pc[a] # "idle", NEW where,
             pc' = [pc EXCEPT ![a] = where]
      PROVE  AloneInv' /\ RoomInv'
  <2>1. \A b \in Actors : b # a => pc'[b] = "idle"
    BY <1>0, <1>2 DEF AloneInv
  <2>2. AloneInv'
    BY <2>1 DEF AloneInv
  <2>3. \A r \in Requests : pc'[r] # "adding"
    BY <2>1
  <2> QED
    BY <2>2, <2>3 DEF RoomInv
<1>3. ASSUME NEW h \in Hooks, Handle(h) PROVE AloneInv' /\ RoomInv'
  <2>1. ASSUME NEW e \in sent, Deliver(h, e) PROVE AloneInv' /\ RoomInv'
    BY <1>1, <2>1 DEF Deliver, MayStart, RoomInv
  <2>2. CASE MoveToFree(h)
    BY <1>2, <2>2 DEF MoveToFree
  <2>3. CASE CommitEvent(h) \/ CommitEnd(h)
    BY <1>2, <2>3 DEF CommitEvent, CommitEnd, Finish
  <2> QED
    BY <1>3, <2>1, <2>2, <2>3 DEF Handle
<1>4. ASSUME NEW e \in sent, DropUnknown(e) PROVE AloneInv' /\ RoomInv'
  BY <1>4 DEF DropUnknown, tenantVars, pageVars, actorVars, AloneInv, RoomInv, NamesTaken, NamesOn,
     Rows
<1>5. ASSUME TrialStep PROVE AloneInv' /\ RoomInv'
  <2>1. CASE ListExpired
    BY <1>1, <2>1 DEF ListExpired, MayStart, RoomInv
  <2>2. CASE MoveToFree(Trials)
    BY <1>2, <2>2 DEF MoveToFree
  <2>3. CASE CommitTrialEnd
    BY <1>2, <2>3 DEF CommitTrialEnd, Finish
  <2> QED
    BY <1>5, <2>1, <2>2, <2>3 DEF TrialStep
<1>6. ASSUME Tenant PROVE AloneInv' /\ RoomInv'
  <2>1. ASSUME NEW r \in Requests, NEW names \in SUBSET Names, MayStart(r), Open(r, names),
               Cardinality(NamesTaken \cup names) <= Limit(status, plan)
        PROVE  AloneInv' /\ RoomInv'
    <3>1. AloneInv' /\ \A b \in Actors : b # r => pc'[b] = "idle"
      BY <1>1, <2>1 DEF MayStart, Open
    <3>2. adds'[r] = names /\ NamesTaken' = NamesTaken /\ UNCHANGED <<status, plan>>
      BY <1>0, <2>1 DEF Open, NamesTaken, NamesOn, Rows, pageVars, tenantVars
    <3>3. Limit(status, plan)' = Limit(status, plan)
      BY <3>2 DEF Limit
    <3>4. ASSUME NEW q \in Requests, pc'[q] = "adding"
          PROVE  Cardinality(NamesTaken' \cup adds'[q]) <= Limit(status, plan)'
      <4>1. q = r
        BY <3>1, <3>4
      <4> QED
        BY <2>1, <3>2, <3>3, <4>1
    <3> QED
      BY <3>1, <3>4 DEF RoomInv
  <2>2. ASSUME NEW r \in Requests, NEW name \in Names, OpenCreate(r, name) \/ OpenCustom(r, name)
        PROVE  AloneInv' /\ RoomInv'
    <3>1. MayStart(r) /\ Open(r, {name}) /\ {name} \in SUBSET Names
      BY <2>2 DEF OpenCreate, OpenCustom
    <3>2. Cardinality(NamesTaken \cup {name}) <= Limit(status, plan)
      BY <2>2, <3>1, OpenLeavesRoom
    <3> QED
      BY <2>1, <3>1, <3>2
  <2>3. ASSUME NEW r \in Requests, NEW picked \in SUBSET Names, OpenLibrary(r, picked)
        PROVE  AloneInv' /\ RoomInv'
    <3>1. MayStart(r) /\ Open(r, picked)
      BY <2>3 DEF OpenLibrary
    <3>2. Cardinality(NamesTaken \cup picked) <= Limit(status, plan)
      BY <2>3, OpenLeavesRoom
    <3> QED
      BY <2>1, <3>1, <3>2
  <2>4. ASSUME NEW r \in Requests, Insert(r) \/ Refuse(r) PROVE AloneInv' /\ RoomInv'
    <3>1. pc[r] = "adding" /\ pc' = [pc EXCEPT ![r] = "idle"]
      BY <2>4 DEF Insert, Refuse, Finish
    <3>2. \A b \in Actors : pc'[b] = "idle"
      BY <1>0, <3>1 DEF AloneInv
    <3> QED
      BY <3>2 DEF AloneInv, RoomInv
  <2>5. ASSUME NEW i \in PageIds, Toggle(i) \/ Delete(i) PROVE AloneInv' /\ RoomInv'
    <3>1. \A b \in Actors : pc'[b] = "idle"
      BY <2>5, RoomIsQuiet DEF Toggle, Delete, actorVars
    <3> QED
      BY <3>1 DEF AloneInv, RoomInv
  <2> QED
    BY <1>6, <2>2, <2>3, <2>4, <2>5 DEF Tenant
\* Paddle and the calendar touch nothing that the limit depends on.
<1>7. ASSUME UNCHANGED <<pc, adds, pages, status, plan>> PROVE AloneInv' /\ RoomInv'
  BY <1>7 DEF AloneInv, RoomInv, NamesTaken, NamesOn, Rows, Limit
<1>8. ASSUME Paddle PROVE AloneInv' /\ RoomInv'
  BY <1>7, <1>8 DEF Paddle, Pay, Report, Cancel, Send, tenantVars, pageVars, actorVars
<1>9. ASSUME EndTrial PROVE AloneInv' /\ RoomInv'
  BY <1>7, <1>9 DEF EndTrial, tenantVars, pageVars, actorVars
<1>10. ASSUME UNCHANGED vars PROVE AloneInv' /\ RoomInv'
  BY <1>7, <1>10 DEF vars, tenantVars, pageVars, actorVars
<1> QED
  BY <1>3, <1>4, <1>5, <1>6, <1>8, <1>9, <1>10 DEF Next

\* The rows that are inserted are the ones the limit had room for.
LEMMA InsertWithinLimit ==
  ASSUME IInv, RoomInv, [Next]_vars, born' > born
  PROVE  Cardinality(NamesTaken') <= Limit(status, plan)
<1>1. PICK r \in Requests : Insert(r)
  <2>1. born \in Nat
    BY BoundsAssumption DEF IInv, TypeOK
  <2>2. born' # born
    BY <2>1
  <2> QED
    BY <2>2 DEF Next, Handle, Deliver, MoveToFree, CommitEvent, CommitEnd, DropUnknown, TrialStep,
       ListExpired, CommitTrialEnd, Tenant, OpenCreate, OpenCustom, OpenLibrary, Open, Refuse,
       Toggle, Delete, Paddle, Pay, Report, Cancel, Send, EndTrial, vars, pageVars
<1>2. NamesTaken' \subseteq NamesTaken \cup adds[r]
  BY <1>1, InsertTypes DEF NamesTaken, NamesOn, Rows
<1>3. IsFiniteSet(NamesTaken \cup adds[r])
  <2>1. IsFiniteSet(adds[r])
    BY ActorsAssumption, FS_Subset DEF IInv, TypeOK
  <2> QED
    BY <2>1, NamesAndRows, FS_Union
<1>4. /\ Cardinality(NamesTaken') <= Cardinality(NamesTaken \cup adds[r])
      /\ Cardinality(NamesTaken') \in Nat /\ Cardinality(NamesTaken \cup adds[r]) \in Nat
  BY <1>2, <1>3, FS_Subset, FS_CardinalityType
<1>5. Cardinality(NamesTaken \cup adds[r]) <= Limit(status, plan)
  BY <1>1 DEF Insert, RoomInv
<1>6. Limit(status, plan) \in Nat
  BY LimitsAssumption DEF Limit
<1> QED
  BY <1>4, <1>5, <1>6

LEMMA SerialInvariance == Spec => []SerialInv
<1>1. Init => SerialInv
  BY Kinds DEF Init, SerialInv, AloneInv, RoomInv
<1> QED
  BY <1>1, NextSerial, Invariance, PTL DEF Spec

\* Where requests, webhooks and jobs do not overlap, no page that is added leaves more
\* vendors on the list than the plan allows, for any limits (create_subprocessor,
\* add_custom, add_providers).
THEOREM AddsStayWithinLimit == InFlight = 1 => (Spec => AddsWithinLimit)
<1> SUFFICES ASSUME InFlight = 1 PROVE Spec => AddsWithinLimit
  OBVIOUS
<1>1. IInv /\ SerialInv /\ [Next]_vars
        => [born' > born => Cardinality(NamesTaken') <= Limit(status, plan)]_vars
  BY InsertWithinLimit DEF SerialInv
<1> QED
  BY <1>1, SerialInvariance, Invariance, PTL DEF Spec, AddsWithinLimit

-----------------------------------------------------------------------------
(* The same, and Paddle's events in the order they were sent.  Then what   *)
(* the answered events have made of the tenant, with what the events that  *)
(* still wait will make of it, is what Paddle has.                         *)

\* What is under way holds the tenant as it is, and a webhook the first of
\* the events that wait.
HeldInv ==
  /\ \A a \in Actors : pc[a] # "idle" => seen[a].status = status /\ seen[a].plan = plan
  /\ \A a \in Actors : pc[a] = "leaving" => off[a] = On \ Kept(On)
  /\ pc[Trials] # "idle" => status = "trialing"
  /\ \A h \in Hooks : pc[h] # "idle" =>
       /\ hook[h] \in sent
       /\ \A f \in sent : hook[h].n <= f.n
       /\ hook[h].type = "completed" \/ linked
       /\ Ends(hook[h]) <=> pc[h] # "storing"

\* Events are numbered as they are sent.  A tenant that no transaction has linked
\* waits for its first, whose subscription event said the same.
QueueInv ==
  /\ \A e \in sent : /\ e.n <= events
                     /\ e.type = "completed" => e.status = "active"
  /\ \A e, f \in sent : e.n = f.n => e = f
  /\ paddle.status = "none" => events = 0
  /\ ~linked /\ paddle.status # "none" =>
       \E c \in sent : /\ c.n = 2
                       /\ c.type = "completed"
                       /\ \A f \in sent : f.n = 1 => f.plan = c.plan

\* The last event says what Paddle has; once it is answered the tenant says so.
StatusInv ==
  paddle.status # "none" =>
    \/ sent = {} /\ status = Mapped(paddle.status)
    \/ \E e \in sent : e.n = events /\ Mapped(e.status) = Mapped(paddle.status)

\* The price Paddle has is the tenant's tier, or an event that waits will make it
\* so, and no later one undoes that.
SetsPlan(e) == e.type # "canceled" /\ e.plan # None
PlanInv ==
  paddle.status # "none" /\ paddle.plan # None =>
    \/ /\ plan = paddle.plan
       /\ \A f \in sent : SetsPlan(f) => f.plan = paddle.plan
    \/ \E e \in sent :
         /\ SetsPlan(e) /\ e.plan = paddle.plan
         /\ \A f \in sent : f.n > e.n /\ SetsPlan(f) => f.plan = paddle.plan

PaidInv == QueueInv /\ StatusInv /\ PlanInv
SoloInv == HeldInv /\ PaidInv

\* Numbers are natural numbers.
LEMMA Numbers ==
  ASSUME IInv PROVE events \in Nat /\ \A e \in sent : e \in Event /\ e.n \in Nat \ {0}
<1>1. events \in Nat /\ sent \subseteq Event
  BY BoundsAssumption DEF IInv, TypeOK
<1>2. \A e \in Event : e.n \in Nat \ {0}
  BY BoundsAssumption DEF Event
<1> QED
  BY <1>1, <1>2

\* Nothing waits and nothing is paid at the start.
LEMMA InitSoloInv == Init => SoloInv
BY Kinds DEF Init, SoloInv, HeldInv, PaidInv, QueueInv, StatusInv, PlanInv

\* What neither commits an event nor sends one leaves PaidInv.
LEMMA PaidUntouched ==
  ASSUME PaidInv, UNCHANGED <<sent, events, paddle, status, plan, linked>> PROVE PaidInv'
BY DEF PaidInv, QueueInv, StatusInv, PlanInv

\* Once everything has come to its end nothing is held.
LEMMA QuietHeld == ASSUME \A a \in Actors : pc'[a] = "idle" PROVE HeldInv'
BY Kinds DEF HeldInv

\* What starts loads the tenant as it is.
LEMMA LoadHeld ==
  ASSUME IInv, InFlight = 1, HasRoom, NEW a \in Actors,
         NEW where \in {"moving", "storing", "adding"}, Load(a, where),
         UNCHANGED <<status, plan, linked, sent>>,
         a = Trials => status = "trialing",
         a \in Hooks => /\ hook'[a] \in sent
                        /\ \A f \in sent : hook'[a].n <= f.n
                        /\ hook'[a].type = "completed" \/ linked
                        /\ Ends(hook'[a]) <=> where # "storing"
  PROVE  HeldInv'
<1>1. /\ pc'[a] = where
      /\ \A b \in Actors : b # a => pc'[b] = "idle"
  BY LoadTypes, RoomIsQuiet
<1>2. seen'[a].status = status /\ seen'[a].plan = plan
  BY DEF Load, IInv, TypeOK
<1> QED
  BY <1>1, <1>2, Kinds DEF HeldInv

\* The move to the free plan picks the pages that are on now.
LEMMA MoveHeld ==
  ASSUME IInv, HeldInv, NEW a \in Hooks \cup {Trials}, MoveToFree(a) PROVE HeldInv'
<1>1. /\ a \in Actors /\ pc[a] = "moving"
      /\ pc' = [pc EXCEPT ![a] = "leaving"]
      /\ off' = [off EXCEPT ![a] = On \ Kept(On)]
      /\ UNCHANGED <<status, plan, linked, pages, sent, seen, hook>>
  BY Kinds DEF MoveToFree, tenantVars, pageVars, paddleVars
<1>2. (On \ Kept(On))' = On \ Kept(On)
  BY <1>1 DEF On, Rows, Kept
<1>3. /\ \A b \in Actors : b # a => pc'[b] = pc[b] /\ off'[b] = off[b]
      /\ pc'[a] = "leaving" /\ off'[a] = On \ Kept(On)
  BY <1>1 DEF IInv, TypeOK
<1> QED
  BY <1>1, <1>2, <1>3, Kinds DEF HeldInv

\* While nothing is started or ended, events come behind the ones that are held,
\* and the ones that go are not held.
LEMMA QueueHeld ==
  ASSUME IInv, HeldInv,
         UNCHANGED <<pc, seen, off, hook, status, plan, linked, pages>>,
         \A h \in Hooks : pc[h] # "idle" =>
           hook[h] \in sent' /\ \A f \in sent' \ sent : hook[h].n <= f.n
  PROVE  HeldInv'
<1>1. (On \ Kept(On))' = On \ Kept(On)
  BY DEF On, Rows, Kept
<1> QED
  BY <1>1 DEF HeldInv

-----------------------------------------------------------------------------
\* What a webhook makes of the tenant.
Applies(e) ==
  /\ status' = Mapped(e.status)
  /\ plan' = IF SetsPlan(e) THEN e.plan ELSE plan
  /\ linked' = (linked \/ e.type = "completed")
  /\ Answer(e)
  /\ UNCHANGED <<paddle, events>>

\* A webhook that commits applies the event it holds: no one has written to the
\* tenant since it was loaded.
LEMMA CommitApplies ==
  ASSUME IInv, HeldInv, NEW h \in Hooks, CommitEvent(h) \/ CommitEnd(h)
  PROVE  Applies(hook[h]) /\ pc[h] # "idle" /\ hook[h] \in sent
<1>1. h \in Actors /\ pc[h] # "idle"
  BY Kinds DEF CommitEvent, CommitEnd
<1>2. /\ seen[h].status = status /\ seen[h].plan = plan
      /\ hook[h] \in sent /\ hook[h] \in Event
      /\ hook[h].type = "completed" \/ linked
      /\ Ends(hook[h]) <=> pc[h] # "storing"
      /\ linked \in BOOLEAN
  BY <1>1, Numbers DEF HeldInv, IInv, TypeOK
<1>3. ASSUME StorePlan(h, hook[h])
      PROVE  plan' = IF SetsPlan(hook[h]) THEN hook[h].plan ELSE plan
  BY <1>2, <1>3 DEF StorePlan, SetsPlan, Dirty
<1>4. CASE CommitEvent(h)
  <2>1. status' = Mapped(hook[h].status)
    BY <1>2, <1>4 DEF CommitEvent, Dirty
  <2>2. plan' = IF SetsPlan(hook[h]) THEN hook[h].plan ELSE plan
    BY <1>3, <1>4 DEF CommitEvent
  <2> QED
    BY <1>1, <1>2, <1>4, <2>1, <2>2 DEF CommitEvent, Applies
<1>5. CASE CommitEnd(h)
  <2>1. Mapped(hook[h].status) = "free" /\ hook[h].type # "completed"
    BY <1>2, <1>5 DEF CommitEnd, Ends
  <2>2. status' = Mapped(hook[h].status)
    BY <1>2, <1>5, <2>1 DEF CommitEnd, Dirty
  <2>3. plan' = IF SetsPlan(hook[h]) THEN hook[h].plan ELSE plan
    BY <1>3, <1>5 DEF CommitEnd
  <2> QED
    BY <1>1, <1>2, <1>5, <2>1, <2>2, <2>3 DEF CommitEnd, Applies
<1> QED
  BY <1>4, <1>5

\* The first event that waits is applied, and answered or sent again.
LEMMA CommitPaid ==
  ASSUME IInv, PaidInv, NEW e \in sent, \A f \in sent : e.n <= f.n,
         e.type = "completed" \/ linked, Applies(e)
  PROVE  PaidInv'
<1>1. /\ linked'
      /\ sent' \subseteq sent /\ \A f \in sent : f # e => f \in sent'
      /\ UNCHANGED <<paddle, events>>
  BY DEF Applies, Answer
<1>2. QueueInv'
  BY <1>1 DEF PaidInv, QueueInv
<1>3. StatusInv'
  <2> SUFFICES ASSUME paddle.status # "none" PROVE StatusInv'
    BY <1>1 DEF StatusInv
  <2>1. PICK last \in sent : last.n = events /\ Mapped(last.status) = Mapped(paddle.status)
    BY DEF PaidInv, StatusInv
  <2>2. CASE last \in sent'
    BY <1>1, <2>1, <2>2 DEF StatusInv
  <2>3. CASE last \notin sent'
    <3>1. last = e
      BY <1>1, <2>3
    <3>2. \A f \in sent : f.n = e.n
      BY <2>1, <3>1, Numbers DEF PaidInv, QueueInv
    <3>3. \A f \in sent : f = e
      BY <3>2 DEF PaidInv, QueueInv
    <3>4. sent' = {}
      BY <1>1, <2>3, <3>1, <3>3
    <3>5. status' = Mapped(paddle.status)
      BY <2>1, <3>1 DEF Applies
    <3> QED
      BY <1>1, <3>4, <3>5 DEF StatusInv
  <2> QED
    BY <2>2, <2>3
<1>4. PlanInv'
  <2> SUFFICES ASSUME paddle.status # "none", paddle.plan # None PROVE PlanInv'
    BY <1>1 DEF PlanInv
  <2>1. plan' = IF SetsPlan(e) THEN e.plan ELSE plan
    BY DEF Applies
  <2>2. CASE plan = paddle.plan /\ \A f \in sent : SetsPlan(f) => f.plan = paddle.plan
    <3>1. plan' = paddle.plan
      BY <2>1, <2>2
    <3> QED
      BY <1>1, <2>2, <3>1 DEF PlanInv, SetsPlan
  <2>3. ASSUME NEW w \in sent, SetsPlan(w), w.plan = paddle.plan,
               \A f \in sent : f.n > w.n /\ SetsPlan(f) => f.plan = paddle.plan
        PROVE  PlanInv'
    <3>1. CASE w \in sent'
      BY <1>1, <2>3, <3>1 DEF PlanInv, SetsPlan
    <3>2. CASE w \notin sent'
      <4>1. w = e /\ plan' = paddle.plan
        BY <1>1, <2>1, <2>3, <3>2
      <4>2. \A f \in sent' : f.n > e.n
        <5> SUFFICES ASSUME NEW f \in sent' PROVE f.n > e.n
          OBVIOUS
        <5>1. f \in sent /\ f # e
          BY <1>1, <3>2, <4>1
        <5>2. f.n # e.n
          BY <5>1 DEF PaidInv, QueueInv
        <5>3. f.n >= e.n /\ f.n \in Nat /\ e.n \in Nat
          BY <5>1, Numbers
        <5> QED
          BY <5>2, <5>3
      <4>3. \A f \in sent' : SetsPlan(f) => f.plan = paddle.plan
        BY <1>1, <2>3, <4>1, <4>2
      <4> QED
        BY <1>1, <4>1, <4>3 DEF PlanInv, SetsPlan
    <3> QED
      BY <3>1, <3>2
  <2> QED
    BY <2>2, <2>3 DEF PaidInv, PlanInv
<1> QED
  BY <1>2, <1>3, <1>4 DEF PaidInv

\* A trial that ends was never paid for: the tenant's first event still waits.
LEMMA TrialPaid ==
  ASSUME IInv, HeldInv, PaidInv, CommitTrialEnd PROVE PaidInv'
<1>1. /\ status = "trialing"
      /\ UNCHANGED <<sent, events, paddle, plan, linked>>
  BY DEF CommitTrialEnd, HeldInv, paddleVars
<1>2. Mapped(paddle.status) # "trialing"
  BY DEF Mapped, IInv, TypeOK
<1>3. StatusInv'
  BY <1>1, <1>2 DEF PaidInv, StatusInv
<1> QED
  BY <1>1, <1>3 DEF PaidInv, QueueInv, PlanInv

\* The one event that may be dropped for want of a customer is the first, and the
\* transaction behind it says the same.
LEMMA DropSolo ==
  ASSUME IInv, Ordered, HeldInv, PaidInv, NEW e \in sent, DropUnknown(e)
  PROVE  HeldInv' /\ PaidInv'
<1>1. /\ e.type # "completed" /\ ~linked /\ sent' = sent \ {e}
      /\ \A f \in sent : e.n <= f.n
      /\ UNCHANGED <<pc, seen, off, hook, status, plan, linked, pages, paddle, events>>
  BY DEF DropUnknown, Deliverable, tenantVars, pageVars, actorVars
<1>2. HeldInv'
  <2>1. \A h \in Hooks : pc[h] # "idle" => hook[h] \in sent /\ hook[h] # e
    BY <1>1 DEF HeldInv
  <2>2. \A h \in Hooks : pc[h] # "idle" =>
          hook[h] \in sent' /\ \A f \in sent' \ sent : hook[h].n <= f.n
    BY <1>1, <2>1
  <2> QED
    BY <1>1, <2>2, QueueHeld
<1>3. CASE paddle.status = "none"
  <2>1. PaidInv'
    BY <1>1, <1>3 DEF PaidInv, QueueInv, StatusInv, PlanInv
  <2> QED
    BY <1>2, <2>1
<1>4. CASE paddle.status # "none"
  <2>1. PICK c \in sent : /\ c.n = 2
                          /\ c.type = "completed"
                          /\ \A f \in sent : f.n = 1 => f.plan = c.plan
    BY <1>1, <1>4 DEF PaidInv, QueueInv
  <2>2. e # c /\ c \in sent'
    BY <1>1, <2>1
  <2>3. e.n = 1 /\ events >= 2
    <3>1. e.n # 2
      BY <2>1, <2>2 DEF PaidInv, QueueInv
    <3>2. e.n <= 2 /\ 2 <= events
      BY <1>1, <2>1 DEF PaidInv, QueueInv
    <3> QED
      BY <3>1, <3>2, Numbers
  <2>4. QueueInv'
    BY <1>1, <2>1, <2>2 DEF PaidInv, QueueInv
  <2>5. StatusInv'
    <3>1. PICK last \in sent : last.n = events /\ Mapped(last.status) = Mapped(paddle.status)
      BY <1>4 DEF PaidInv, StatusInv
    <3>2. last # e
      BY <2>3, <3>1, Numbers
    <3> QED
      BY <1>1, <3>1, <3>2 DEF StatusInv
  <2>6. PlanInv'
    <3> SUFFICES ASSUME paddle.plan # None PROVE PlanInv'
      BY <1>1 DEF PlanInv
    <3>1. CASE plan = paddle.plan /\ \A f \in sent : SetsPlan(f) => f.plan = paddle.plan
      BY <1>1, <3>1 DEF PlanInv, SetsPlan
    <3>2. ASSUME NEW w \in sent, SetsPlan(w), w.plan = paddle.plan,
                 \A f \in sent : f.n > w.n /\ SetsPlan(f) => f.plan = paddle.plan
          PROVE  PlanInv'
      <4>1. CASE w # e
        BY <1>1, <3>2, <4>1 DEF PlanInv, SetsPlan
      <4>2. CASE w = e
        <5>1. c.plan = paddle.plan /\ SetsPlan(c)
          BY <2>1, <2>3, <3>2, <4>2 DEF SetsPlan
        <5>2. \A f \in sent : f.n > c.n => f.n > w.n
          BY <2>1, <2>3, <4>2, Numbers
        <5>3. \A f \in sent' : f.n > c.n /\ SetsPlan(f) => f.plan = paddle.plan
          BY <1>1, <3>2, <5>2
        <5> QED
          BY <1>1, <2>2, <5>1, <5>3 DEF PlanInv, SetsPlan
      <4> QED
        BY <4>1, <4>2
    <3> QED
      BY <1>4, <3>1, <3>2 DEF PaidInv, PlanInv
  <2> QED
    BY <1>2, <2>4, <2>5, <2>6 DEF PaidInv
<1> QED
  BY <1>3, <1>4

-----------------------------------------------------------------------------
\* A payment is reported and completed, in this order.
LEMMA PaySends ==
  ASSUME IInv, NEW tier, Pay(tier)
  PROVE  /\ events' = events + 2
         /\ sent' = sent \cup {EventOf(events + 1, "updated", "active", tier),
                               EventOf(events + 2, "completed", "active", tier)}
         /\ UNCHANGED <<pc, seen, off, hook, status, plan, linked, pages>>
<1> DEFINE one == EventOf(events + 1, "updated", "active", tier)
           two == EventOf(events + 2, "completed", "active", tier)
<1>1. one # two
  BY DEF EventOf
<1>2. Send({one, two})
  BY DEF Pay
<1> HIDE DEF one, two
<1>3. Cardinality({one, two}) = 2
  <2>1. IsFiniteSet({one}) /\ Cardinality({one}) = 1
    BY FS_Singleton
  <2>2. two \notin {one}
    BY <1>1
  <2>3. Cardinality({one} \cup {two}) = 2
    BY <2>1, <2>2, FS_AddElement
  <2>4. {one, two} = {one} \cup {two}
    OBVIOUS
  <2> QED
    BY <2>3, <2>4
<1>4. /\ events' = events + 2 /\ sent' = sent \cup {one, two}
      /\ UNCHANGED <<pc, seen, off, hook, status, plan, linked, pages>>
  BY <1>2, <1>3 DEF Send, tenantVars, pageVars, actorVars
<1> QED
  BY <1>4 DEF one, two

\* Any other change is one event.
LEMMA OneIsSent ==
  ASSUME NEW e, Send({e})
  PROVE  /\ events' = events + 1
         /\ sent' = sent \cup {e}
         /\ UNCHANGED <<pc, seen, off, hook, status, plan, linked, pages>>
<1>1. Cardinality({e}) = 1
  BY FS_Singleton
<1> QED
  BY <1>1 DEF Send, tenantVars, pageVars, actorVars

\* After a payment the transaction is the last event, and it says everything.
LEMMA PayPaid ==
  ASSUME IInv, PaidInv, NEW tier \in Tiers \cup {None}, Pay(tier) PROVE PaidInv'
<1> DEFINE one == EventOf(events + 1, "updated", "active", tier)
           two == EventOf(events + 2, "completed", "active", tier)
<1>1. /\ one.n = events + 1 /\ one.type = "updated" /\ one.status = "active" /\ one.plan = tier
      /\ two.n = events + 2 /\ two.type = "completed" /\ two.status = "active" /\ two.plan = tier
  BY DEF EventOf
<1>2. /\ events' = events + 2 /\ sent' = sent \cup {one, two}
      /\ UNCHANGED <<status, plan, linked>>
      /\ paddle'.status = "active" /\ paddle'.plan = tier
  BY PaySends DEF Pay
<1> HIDE DEF one, two
<1>3. events \in Nat /\ \A e \in sent : e.n \in Nat \ {0} /\ e.n <= events
  BY Numbers DEF PaidInv, QueueInv
<1>4. QueueInv'
  <2>1. \A e \in sent' : /\ e.n <= events'
                         /\ e.type = "completed" => e.status = "active"
    BY <1>1, <1>2, <1>3 DEF PaidInv, QueueInv
  <2>2. \A e, f \in sent' : e.n = f.n => e = f
    <3>1. \A e \in sent : e.n # one.n /\ e.n # two.n
      BY <1>1, <1>3
    <3>2. one.n # two.n
      BY <1>1, <1>3
    <3> QED
      BY <1>2, <3>1, <3>2 DEF PaidInv, QueueInv
  <2>3. ASSUME ~linked
        PROVE  \E c \in sent' : /\ c.n = 2
                                /\ c.type = "completed"
                                /\ \A f \in sent' : f.n = 1 => f.plan = c.plan
    <3>1. CASE paddle.status = "none"
      <4>1. events = 0 /\ \A e \in sent : FALSE
        BY <1>3, <3>1 DEF PaidInv, QueueInv
      <4>2. two \in sent' /\ two.n = 2 /\ \A f \in sent' : f = one \/ f = two
        BY <1>1, <1>2, <4>1
      <4>3. one.plan = two.plan
        BY <1>1
      <4> QED
        BY <1>1, <4>2, <4>3
    <3>2. CASE paddle.status # "none"
      <4>1. PICK c \in sent : /\ c.n = 2
                              /\ c.type = "completed"
                              /\ \A f \in sent : f.n = 1 => f.plan = c.plan
        BY <2>3, <3>2 DEF PaidInv, QueueInv
      <4>2. one.n # 1 /\ two.n # 1
        BY <1>1, <1>3, <4>1
      <4> QED
        BY <1>2, <4>1, <4>2
    <3> QED
      BY <3>1, <3>2
  <2> QED
    BY <1>2, <2>1, <2>2, <2>3 DEF QueueInv
<1>5. StatusInv'
  BY <1>1, <1>2 DEF StatusInv, Mapped
<1>6. PlanInv'
  <2>1. \A f \in sent' : ~ f.n > two.n
    BY <1>1, <1>2, <1>3
  <2>2. two \in sent' /\ (tier # None => SetsPlan(two))
    BY <1>1, <1>2 DEF SetsPlan
  <2> QED
    BY <1>1, <1>2, <2>1, <2>2 DEF PlanInv, SetsPlan
<1> QED
  BY <1>4, <1>5, <1>6 DEF PaidInv

\* A report carries the price Paddle has now; a cancellation leaves the price.
LEMMA ReportPaid ==
  ASSUME IInv, PaidInv, paddle.status # "none",
         NEW type \in {"updated", "canceled"},
         NEW st \in {"active", "past_due", "paused", "canceled"},
         NEW tier \in Tiers \cup {None},
         Send({EventOf(events + 1, type, st, tier)}),
         paddle'.status = st, paddle'.plan = tier,
         type = "updated" \/ tier = paddle.plan
  PROVE  PaidInv'
<1> DEFINE one == EventOf(events + 1, type, st, tier)
<1>1. one.n = events + 1 /\ one.type = type /\ one.status = st /\ one.plan = tier
  BY DEF EventOf
<1>2. /\ events' = events + 1 /\ sent' = sent \cup {one}
      /\ UNCHANGED <<status, plan, linked>>
  BY OneIsSent
<1> HIDE DEF one
<1>3. events \in Nat /\ \A e \in sent : e.n \in Nat \ {0} /\ e.n <= events
  BY Numbers DEF PaidInv, QueueInv
<1>4. QueueInv'
  <2>1. \A e \in sent' : /\ e.n <= events'
                         /\ e.type = "completed" => e.status = "active"
    BY <1>1, <1>2, <1>3 DEF PaidInv, QueueInv
  <2>2. \A e, f \in sent' : e.n = f.n => e = f
    <3>1. \A e \in sent : e.n # one.n
      BY <1>1, <1>3
    <3> QED
      BY <1>2, <3>1 DEF PaidInv, QueueInv
  <2>3. ASSUME ~linked
        PROVE  \E c \in sent' : /\ c.n = 2
                                /\ c.type = "completed"
                                /\ \A f \in sent' : f.n = 1 => f.plan = c.plan
    <3>1. PICK c \in sent : /\ c.n = 2
                            /\ c.type = "completed"
                            /\ \A f \in sent : f.n = 1 => f.plan = c.plan
      BY <2>3 DEF PaidInv, QueueInv
    <3>2. one.n # 1
      BY <1>1, <1>3, <3>1
    <3> QED
      BY <1>2, <3>1, <3>2
  <2> QED
    BY <1>2, <2>1, <2>2, <2>3 DEF QueueInv
<1>5. StatusInv'
  BY <1>1, <1>2 DEF StatusInv
<1>6. PlanInv'
  <2> SUFFICES ASSUME tier # None PROVE PlanInv'
    BY DEF PlanInv
  <2>1. CASE type = "updated"
    <3>1. \A f \in sent' : ~ f.n > one.n
      BY <1>1, <1>2, <1>3
    <3>2. one \in sent' /\ SetsPlan(one)
      BY <1>1, <1>2, <2>1 DEF SetsPlan
    <3> QED
      BY <1>1, <1>2, <3>1, <3>2 DEF PlanInv, SetsPlan
  <2>2. CASE tier = paddle.plan
    <3>1. CASE plan = paddle.plan /\ \A f \in sent : SetsPlan(f) => f.plan = paddle.plan
      BY <1>1, <1>2, <2>2, <3>1 DEF PlanInv, SetsPlan
    <3>2. ASSUME NEW w \in sent, SetsPlan(w), w.plan = paddle.plan,
                 \A f \in sent : f.n > w.n /\ SetsPlan(f) => f.plan = paddle.plan
          PROVE  PlanInv'
      BY <1>1, <1>2, <2>2, <3>2 DEF PlanInv, SetsPlan
    <3> QED
      BY <2>2, <3>1, <3>2 DEF PaidInv, PlanInv
  <2> QED
    BY <2>1, <2>2
<1> QED
  BY <1>4, <1>5, <1>6 DEF PaidInv

\* Whatever Paddle does comes behind the events that are held.
LEMMA PaddleSolo ==
  ASSUME IInv, HeldInv, PaidInv, Paddle PROVE HeldInv' /\ PaidInv'
<1>0. events \in Nat /\ \A e \in sent : e.n \in Nat /\ e.n <= events
  BY Numbers DEF PaidInv, QueueInv
<1>1. ASSUME UNCHANGED <<pc, seen, off, hook, status, plan, linked, pages>>, sent \subseteq sent',
             \A f \in sent' \ sent : f.n > events /\ f.n \in Nat
      PROVE  HeldInv'
  <2>1. \A h \in Hooks : pc[h] # "idle" =>
          hook[h] \in sent' /\ \A f \in sent' \ sent : hook[h].n <= f.n
    BY <1>0, <1>1 DEF HeldInv
  <2> QED
    BY <1>1, <2>1, QueueHeld
<1>2. ASSUME NEW tier \in Tiers \cup {None}, Pay(tier) PROVE HeldInv' /\ PaidInv'
  <2>1. \A f \in sent' \ sent : f.n > events /\ f.n \in Nat
    BY <1>0, <1>2, PaySends DEF EventOf
  <2> QED
    BY <1>1, <1>2, <2>1, PaySends, PayPaid
<1>3. ASSUME NEW type \in {"updated", "canceled"},
             NEW st \in {"active", "past_due", "paused", "canceled"},
             NEW tier \in Tiers \cup {None}, Send({EventOf(events + 1, type, st, tier)})
      PROVE  HeldInv'
  <2> DEFINE one == EventOf(events + 1, type, st, tier)
  <2>0. one.n = events + 1 /\ sent' = sent \cup {one}
    BY <1>3, OneIsSent DEF EventOf
  <2> HIDE DEF one
  <2>1. \A f \in sent' \ sent : f.n > events /\ f.n \in Nat
    BY <1>0, <2>0
  <2> QED
    BY <1>1, <1>3, <2>1, OneIsSent
<1>4. ASSUME NEW st \in {"active", "past_due", "paused"}, NEW tier \in Tiers \cup {None},
             Report(st, tier)
      PROVE  HeldInv' /\ PaidInv'
  <2>1. /\ paddle.status # "none" /\ paddle'.status = st /\ paddle'.plan = tier
        /\ Send({EventOf(events + 1, "updated", st, tier)})
    BY <1>4 DEF Report
  <2> QED
    BY <1>3, <2>1, ReportPaid
<1>5. ASSUME Cancel PROVE HeldInv' /\ PaidInv'
  <2>1. /\ paddle.plan \in Tiers \cup {None} /\ paddle.status # "none"
        /\ paddle'.status = "canceled" /\ paddle'.plan = paddle.plan
    BY <1>5 DEF Cancel, IInv, TypeOK
  <2>2. PICK type \in {"updated", "canceled"} :
          Send({EventOf(events + 1, type, "canceled", paddle.plan)})
    BY <1>5 DEF Cancel
  <2> QED
    BY <1>3, <2>1, <2>2, ReportPaid
<1> QED
  BY <1>2, <1>4, <1>5 DEF Paddle

-----------------------------------------------------------------------------
\* Webhooks start with the first event, apply it and end.
LEMMA HandleSolo ==
  ASSUME InFlight = 1, Ordered, IInv, AloneInv, SoloInv, NEW h \in Hooks, Handle(h)
  PROVE  SoloInv'
<1> USE Kinds
<1>1. ASSUME NEW e \in sent, Deliver(h, e) PROVE SoloInv'
  <2> DEFINE where == IF Ends(e) THEN "moving" ELSE "storing"
  <2>1. /\ HasRoom /\ Load(h, where)
        /\ \A f \in sent : e.n <= f.n
        /\ e.type = "completed" \/ linked
        /\ hook'[h] = e
        /\ UNCHANGED <<status, plan, linked, sent, events, paddle>>
    BY <1>1 DEF Deliver, MayStart, Deliverable, tenantVars, paddleVars, IInv, TypeOK
  <2>2. where \in {"moving", "storing", "adding"} /\ (Ends(e) <=> where # "storing")
    OBVIOUS
  <2> HIDE DEF where
  <2>3. HeldInv'
    BY <2>1, <2>2, LoadHeld
  <2> QED
    BY <2>1, <2>3, PaidUntouched DEF SoloInv
<1>2. CASE MoveToFree(h)
  BY <1>2, MoveHeld, PaidUntouched DEF SoloInv, MoveToFree, tenantVars, paddleVars
<1>3. CASE CommitEvent(h) \/ CommitEnd(h)
  <2>1. Applies(hook[h]) /\ pc[h] # "idle" /\ hook[h] \in sent
    BY <1>3, CommitApplies DEF SoloInv
  <2>2. (\A f \in sent : hook[h].n <= f.n) /\ (hook[h].type = "completed" \/ linked)
    BY <2>1 DEF SoloInv, HeldInv
  <2>3. PaidInv'
    BY <2>1, <2>2, CommitPaid DEF SoloInv
  <2>4. \A a \in Actors : pc'[a] = "idle"
    BY <1>3, <2>1, FinishTypes DEF CommitEvent, CommitEnd, AloneInv, IInv, TypeOK
  <2> QED
    BY <2>3, <2>4, QuietHeld DEF SoloInv
<1> QED
  BY <1>1, <1>2, <1>3 DEF Handle

\* The trial's end finds a trial, and ends it.
LEMMA TrialSolo ==
  ASSUME InFlight = 1, IInv, AloneInv, SoloInv, TrialStep PROVE SoloInv'
<1> USE Kinds
<1>1. CASE ListExpired
  <2>1. /\ HasRoom /\ Load(Trials, "moving") /\ status = "trialing" /\ Trials \notin Hooks
        /\ UNCHANGED <<status, plan, linked, sent, events, paddle>>
    BY <1>1 DEF ListExpired, MayStart, tenantVars, paddleVars
  <2>2. HeldInv'
    BY <2>1, LoadHeld
  <2> QED
    BY <2>1, <2>2, PaidUntouched DEF SoloInv
<1>2. CASE MoveToFree(Trials)
  BY <1>2, MoveHeld, PaidUntouched DEF SoloInv, MoveToFree, tenantVars, paddleVars
<1>3. CASE CommitTrialEnd
  <2>0. pc[Trials] = "leaving"
    BY <1>3 DEF CommitTrialEnd
  <2>1. status = "trialing"
    BY <2>0 DEF SoloInv, HeldInv
  <2>2. PaidInv'
    BY <1>3, TrialPaid DEF SoloInv
  <2>3. \A a \in Actors : pc'[a] = "idle"
    BY <1>3, <2>0, FinishTypes DEF CommitTrialEnd, AloneInv, IInv, TypeOK
  <2> QED
    BY <2>2, <2>3, QuietHeld DEF SoloInv
<1> QED
  BY <1>1, <1>2, <1>3 DEF TrialStep

\* Requests leave the tenant and the events alone.
LEMMA TenantSolo ==
  ASSUME InFlight = 1, IInv, AloneInv, SoloInv, Tenant PROVE SoloInv'
<1> USE Kinds
<1>1. ASSUME NEW r \in Requests, NEW names, MayStart(r), Open(r, names) PROVE SoloInv'
  <2>1. /\ HasRoom /\ Load(r, "adding") /\ r \notin Hooks /\ r # Trials
        /\ UNCHANGED <<status, plan, linked, sent, events, paddle>>
    BY <1>1 DEF MayStart, Open, tenantVars, paddleVars
  <2>2. HeldInv'
    BY <2>1, LoadHeld
  <2> QED
    BY <2>1, <2>2, PaidUntouched DEF SoloInv
<1>2. ASSUME NEW r \in Requests, Insert(r) \/ Refuse(r) PROVE SoloInv'
  <2>1. /\ pc[r] = "adding" /\ Finish(r)
        /\ UNCHANGED <<status, plan, linked, sent, events, paddle>>
    BY <1>2 DEF Insert, Refuse, tenantVars, paddleVars
  <2>2. \A a \in Actors : pc'[a] = "idle"
    BY <2>1, FinishTypes DEF AloneInv, IInv, TypeOK
  <2> QED
    BY <2>1, <2>2, QuietHeld, PaidUntouched DEF SoloInv
<1>3. ASSUME NEW i \in PageIds, Toggle(i) \/ Delete(i) PROVE SoloInv'
  <2>1. HasRoom /\ UNCHANGED <<pc, status, plan, linked, sent, events, paddle>>
    BY <1>3 DEF Toggle, Delete, tenantVars, paddleVars, actorVars
  <2>2. \A a \in Actors : pc'[a] = "idle"
    BY <2>1, RoomIsQuiet
  <2> QED
    BY <2>1, <2>2, QuietHeld, PaidUntouched DEF SoloInv
<1> QED
  BY <1>1, <1>2, <1>3 DEF Tenant, OpenCreate, OpenCustom, OpenLibrary

\* Every step keeps SoloInv while jobs, webhooks and requests do not overlap and
\* events come in order.
LEMMA NextSoloInv ==
  InFlight = 1 /\ Ordered /\ IInv /\ SerialInv /\ SoloInv /\ [Next]_vars => SoloInv'
<1> SUFFICES ASSUME InFlight = 1, Ordered, IInv, AloneInv, SoloInv, [Next]_vars PROVE SoloInv'
  BY DEF SerialInv
<1>1. ASSUME NEW h \in Hooks, Handle(h) PROVE SoloInv'
  BY <1>1, HandleSolo
<1>2. ASSUME NEW e \in sent, DropUnknown(e) PROVE SoloInv'
  BY <1>2, DropSolo DEF SoloInv
<1>3. CASE TrialStep
  BY <1>3, TrialSolo
<1>4. CASE Tenant
  BY <1>4, TenantSolo
<1>5. CASE Paddle
  BY <1>5, PaddleSolo DEF SoloInv
<1>6. CASE EndTrial \/ UNCHANGED vars
  <2>1. UNCHANGED <<pc, seen, off, hook, status, plan, linked, pages, sent, events, paddle>>
    BY <1>6 DEF EndTrial, vars, tenantVars, pageVars, paddleVars, actorVars
  <2>2. \A h \in Hooks : pc[h] # "idle" =>
          hook[h] \in sent' /\ \A f \in sent' \ sent : hook[h].n <= f.n
    BY <2>1 DEF SoloInv, HeldInv
  <2> QED
    BY <2>1, <2>2, QueueHeld, PaidUntouched DEF SoloInv
<1> QED
  BY <1>1, <1>2, <1>3, <1>4, <1>5, <1>6 DEF Next

\* What waits and what has been answered are together what Paddle has, in every
\* reachable state.
THEOREM SoloInvariance == InFlight = 1 /\ Ordered => (Spec => []SoloInv)
<1> SUFFICES ASSUME InFlight = 1, Ordered PROVE Spec => []SoloInv
  OBVIOUS
<1>1. IInv /\ SerialInv /\ SoloInv /\ [Next]_vars => SoloInv'
  BY NextSoloInv
<1> QED
  BY <1>1, InitSoloInv, Invariance, SerialInvariance, PTL DEF Spec

\* When every event of Paddle's has been answered, the tenant has the status and the
\* tier that Paddle is paid for, whatever came twice and whenever the trial ended
\* (handle_paddle_webhook and its handlers, downgrade_expired_trials).
THEOREM TenantIsInStep == InFlight = 1 /\ Ordered => (Spec => []InStep)
<1> SUFFICES ASSUME InFlight = 1, Ordered PROVE Spec => []InStep
  OBVIOUS
<1>1. SoloInv => InStep
  BY DEF SoloInv, PaidInv, StatusInv, PlanInv, InStep, Settled
<1> QED
  BY <1>1, SoloInvariance, PTL

-----------------------------------------------------------------------------
(* The move to the free plan.                                              *)

\* How many of R are older than i.
Older(R, i) == {j \in R : j < i}
Age(R) == [i \in R |-> Cardinality(Older(R, i))]

\* The ages of a set of pages are 0, 1, 2 and so on: each page has its own, an
\* older page a smaller one.
LEMMA Ages ==
  ASSUME NEW R \in SUBSET PageIds
  PROVE  /\ IsFiniteSet(R) /\ Cardinality(R) \in Nat
         /\ \A i \in R : Age(R)[i] \in Nat /\ Age(R)[i] < Cardinality(R)
         /\ \A i, j \in R : i < j => Age(R)[i] < Age(R)[j]
         /\ Age(R) \in Injection(R, 0 .. Cardinality(R) - 1)
         /\ Age(R) \in Surjection(R, 0 .. Cardinality(R) - 1)
<1>1. IsFiniteSet(R) /\ Cardinality(R) \in Nat /\ R \subseteq Nat
  <2>1. IsFiniteSet(PageIds) /\ PageIds \subseteq Nat
    BY BoundsAssumption, FS_Interval DEF PageIds
  <2> QED
    BY <2>1, FS_Subset, FS_CardinalityType
<1>2. \A i \in R : /\ IsFiniteSet(Older(R, i))
                   /\ Cardinality(Older(R, i)) \in Nat
                   /\ Age(R)[i] = Cardinality(Older(R, i))
  <2> SUFFICES ASSUME NEW i \in R
               PROVE  /\ IsFiniteSet(Older(R, i))
                      /\ Cardinality(Older(R, i)) \in Nat
                      /\ Age(R)[i] = Cardinality(Older(R, i))
    OBVIOUS
  <2>1. Older(R, i) \in SUBSET R
    BY DEF Older
  <2> QED
    BY <1>1, <2>1, FS_Subset, FS_CardinalityType DEF Age
<1>3. ASSUME NEW i \in R PROVE Age(R)[i] < Cardinality(R)
  <2>1. Older(R, i) \in SUBSET (R \ {i})
    BY <1>1 DEF Older
  <2>2. IsFiniteSet(R \ {i}) /\ Cardinality(R \ {i}) = Cardinality(R) - 1
    BY <1>1, FS_RemoveElement
  <2>3. Cardinality(Older(R, i)) <= Cardinality(R) - 1
    BY <2>1, <2>2, FS_Subset
  <2> QED
    BY <1>1, <1>2, <2>3
<1>4. ASSUME NEW i \in R, NEW j \in R, i < j PROVE Age(R)[i] < Age(R)[j]
  <2>0. i \in Nat /\ j \in Nat /\ \A k \in Older(R, i) : k \in R /\ k \in Nat /\ k < i
    BY <1>1 DEF Older
  <2>1. i \notin Older(R, i) /\ Older(R, i) \cup {i} \in SUBSET Older(R, j)
    <3>1. \A k \in Older(R, i) \cup {i} : k \in R /\ k < j
      BY <1>4, <2>0
    <3>2. i \notin Older(R, i)
      BY <2>0
    <3> QED
      BY <3>1, <3>2 DEF Older
  <2>2. Cardinality(Older(R, i) \cup {i}) = Cardinality(Older(R, i)) + 1
    BY <1>2, <2>1, FS_AddElement
  <2>3. Cardinality(Older(R, i) \cup {i}) <= Cardinality(Older(R, j))
    BY <1>2, <2>1, FS_Subset
  <2> QED
    BY <1>2, <2>2, <2>3
<1>5. Age(R) \in Injection(R, 0 .. Cardinality(R) - 1)
  <2>1. Age(R) \in [R -> 0 .. Cardinality(R) - 1]
    <3>1. \A i \in R : Age(R)[i] \in 0 .. Cardinality(R) - 1
      BY <1>1, <1>2, <1>3
    <3> QED
      BY <3>1 DEF Age
  <2>2. \A i, j \in R : i # j => Age(R)[i] # Age(R)[j]
    <3> SUFFICES ASSUME NEW i \in R, NEW j \in R, i # j PROVE Age(R)[i] # Age(R)[j]
      OBVIOUS
    <3>1. i < j \/ j < i
      BY <1>1
    <3>2. Age(R)[i] \in Nat /\ Age(R)[j] \in Nat
      BY <1>2
    <3> QED
      BY <1>4, <3>1, <3>2
  <2> QED
    BY <2>1, <2>2 DEF Injection, IsInjective
<1>6. Age(R) \in Surjection(R, 0 .. Cardinality(R) - 1)
  <2>1. /\ IsFiniteSet(0 .. Cardinality(R) - 1)
        /\ Cardinality(0 .. Cardinality(R) - 1) = Cardinality(R)
    <3> DEFINE last == Cardinality(R) - 1
    <3>1. 0 \in Int /\ last \in Int /\ (0 > last => Cardinality(R) = 0)
      BY <1>1
    <3>2. IsFiniteSet(0 .. last) /\ Cardinality(0 .. last) = IF 0 > last THEN 0 ELSE last - 0 + 1
      BY <3>1, FS_Interval
    <3> QED
      BY <1>1, <3>1, <3>2
  <2> QED
    BY <1>5, <2>1, FS_Injection
<1> QED
  BY <1>1, <1>2, <1>3, <1>4, <1>5, <1>6

\* free_plan_split keeps the oldest pages, all of them or as many as the limit says.
LEMMA KeptIsOldest ==
  ASSUME NEW R \in SUBSET PageIds
  PROVE  /\ Kept(R) \subseteq R
         /\ \A i \in R, j \in Kept(R) : i < j => i \in Kept(R)
         /\ Kept(R) = R \/ Cardinality(Kept(R)) = FreeLimit
<1>1. Kept(R) = {i \in R : Age(R)[i] < FreeLimit}
  BY DEF Kept, Age, Older
<1>2. FreeLimit \in Nat
  BY LimitsAssumption
<1>3. \A i \in R, j \in Kept(R) : i < j => i \in Kept(R)
  <2> SUFFICES ASSUME NEW i \in R, NEW j \in Kept(R), i < j PROVE i \in Kept(R)
    OBVIOUS
  <2>1. j \in R /\ Age(R)[j] < FreeLimit
    BY <1>1
  <2>2. Age(R)[i] < Age(R)[j] /\ Age(R)[i] \in Nat /\ Age(R)[j] \in Nat
    BY <2>1, Ages
  <2>3. Age(R)[i] < FreeLimit
    BY <1>2, <2>1, <2>2
  <2> QED
    BY <1>1, <2>3
<1>4. ASSUME Kept(R) # R PROVE Cardinality(Kept(R)) = FreeLimit
  <2> DEFINE age == [i \in Kept(R) |-> Age(R)[i]]
             small == 0 .. FreeLimit - 1
  <2>1. PICK m \in R : ~(Age(R)[m] < FreeLimit)
    BY <1>1, <1>4
  <2>2. FreeLimit < Cardinality(R)
    <3>1. Age(R)[m] \in Nat /\ Age(R)[m] < Cardinality(R) /\ Cardinality(R) \in Nat
      BY Ages
    <3> QED
      BY <1>2, <2>1, <3>1
  <2>3. \A i \in Kept(R) : i \in R /\ Age(R)[i] \in small
    <3> SUFFICES ASSUME NEW i \in Kept(R) PROVE i \in R /\ Age(R)[i] \in small
      OBVIOUS
    <3>1. i \in R /\ Age(R)[i] < FreeLimit
      BY <1>1
    <3>2. Age(R)[i] \in Nat
      BY <3>1, Ages
    <3> QED
      BY <1>2, <3>1, <3>2
  <2>4. age \in Injection(Kept(R), small)
    <3>1. age \in [Kept(R) -> small]
      BY <2>3
    <3>2. \A i, j \in R : Age(R)[i] = Age(R)[j] => i = j
      BY Ages DEF Injection, IsInjective
    <3>3. \A i, j \in Kept(R) : age[i] = age[j] => i = j
      BY <2>3, <3>2
    <3> QED
      BY <3>1, <3>3 DEF Injection, IsInjective
  <2>5. age \in Surjection(Kept(R), small)
    <3>1. ASSUME NEW k \in small PROVE \E i \in Kept(R) : age[i] = k
      <4>1. k \in 0 .. Cardinality(R) - 1 /\ k < FreeLimit
        BY <1>2, <2>2, <3>1, Ages
      <4>2. PICK i \in R : Age(R)[i] = k
        BY <4>1, Ages DEF Surjection
      <4> QED
        BY <1>1, <4>1, <4>2
    <3>2. age \in [Kept(R) -> small]
      BY <2>3
    <3> QED
      BY <3>1, <3>2 DEF Surjection
  <2>6. IsFiniteSet(small) /\ Cardinality(small) = FreeLimit
    BY <1>2, FS_Interval
  <2> HIDE DEF age, small
  <2> QED
    BY <2>4, <2>5, <2>6, FS_Injection
<1> QED
  BY <1>1, <1>3, <1>4

\* Only what moves the tenant to the free plan makes its status "free": a price
\* that is stored goes with a status that is paid for.
LEMMA FreeIsMoved ==
  ASSUME IInv, SoloInv, [Next]_vars, status # "free", status' = "free"
  PROVE  \E a \in Hooks \cup {Trials} : pc[a] = "leaving" /\ SwitchOff(off[a])
<1>1. ASSUME NEW h \in Hooks, CommitEvent(h) PROVE FALSE
  <2>1. Applies(hook[h]) /\ pc[h] = "storing" /\ hook[h] \in sent
    BY <1>1, CommitApplies DEF SoloInv, CommitEvent
  <2>2. ~ Ends(hook[h])
    BY <2>1 DEF SoloInv, HeldInv
  <2>3. hook[h].type = "completed" => hook[h].status = "active"
    BY <2>1 DEF SoloInv, PaidInv, QueueInv
  <2>4. Mapped(hook[h].status) # "free"
    BY <2>2, <2>3 DEF Ends, Mapped
  <2> QED
    BY <2>1, <2>4 DEF Applies
<1>2. \/ CommitTrialEnd
      \/ \E h \in Hooks : CommitEnd(h)
  BY <1>1 DEF Next, Handle, Deliver, MoveToFree, DropUnknown, TrialStep,
     ListExpired, Tenant, OpenCreate, OpenCustom, OpenLibrary, Open, Insert, Refuse,
     Toggle, Delete, Paddle, Pay, Report, Cancel, Send, EndTrial, vars, tenantVars
<1> QED
  BY <1>2 DEF CommitTrialEnd, CommitEnd

\* The pages that stay on are the ones that were kept.
LEMMA SwitchOffKeeps ==
  ASSUME IInv, SwitchOff(On \ Kept(On)) PROVE On' = Kept(On)
<1> DEFINE gone == On \ Kept(On)
<1>1. On \subseteq Rows /\ Rows \subseteq PageIds /\ Kept(On) \subseteq On
  BY DEF On, Rows, Kept
<1>2. \A i \in PageIds : pages'[i] =
        IF i \in gone /\ i \in Rows THEN [pages[i] EXCEPT !.on = FALSE, !.cut = TRUE] ELSE pages[i]
  BY DEF SwitchOff
<1>3. \A i \in Rows : pages[i] \in Row
  BY DEF Rows, IInv, TypeOK, Row
<1>4. ASSUME NEW i \in gone PROVE i \notin On'
  <2>1. i \in PageIds /\ pages[i] \in Row /\ i \in Rows
    BY <1>1, <1>3
  <2>2. pages'[i] = [pages[i] EXCEPT !.on = FALSE, !.cut = TRUE]
    BY <1>2, <2>1
  <2>3. pages'[i].on = FALSE
    BY <2>1, <2>2 DEF Row
  <2> QED
    BY <2>3 DEF On
<1>5. ASSUME NEW i \in PageIds, i \notin gone PROVE i \in On' <=> i \in On
  <2>1. pages'[i] = pages[i]
    BY <1>2, <1>5
  <2> QED
    BY <2>1 DEF On, Rows
<1>6. On' \subseteq PageIds
  BY DEF On, Rows
<1> QED
  BY <1>1, <1>4, <1>5, <1>6

\* "Your 3 oldest pages keep being checked": the move to the free plan leaves on the
\* oldest of the pages that were on, all of them or as many as the limit says, for
\* any limit and any number of pages (free_plan_split, move_tenant_to_free).
THEOREM OldestAreKept == InFlight = 1 /\ Ordered => (Spec => OldestKept)
<1> SUFFICES ASSUME InFlight = 1, Ordered PROVE Spec => OldestKept
  OBVIOUS
<1> DEFINE Keeps == status # "free" /\ status' = "free"
                     => /\ On' \subseteq On
                        /\ \A i \in On, j \in On' : i < j => i \in On'
                        /\ On' = On \/ Cardinality(On') = FreeLimit
<1>1. IInv /\ SoloInv /\ [Next]_vars => Keeps
  <2> SUFFICES ASSUME IInv, SoloInv, [Next]_vars, status # "free", status' = "free"
               PROVE  /\ On' \subseteq On
                      /\ \A i \in On, j \in On' : i < j => i \in On'
                      /\ On' = On \/ Cardinality(On') = FreeLimit
    OBVIOUS
  <2>1. PICK a \in Hooks \cup {Trials} : pc[a] = "leaving" /\ SwitchOff(off[a])
    BY FreeIsMoved
  <2>2. off[a] = On \ Kept(On)
    BY <2>1, Kinds DEF SoloInv, HeldInv
  <2>3. On' = Kept(On)
    BY <2>1, <2>2, SwitchOffKeeps
  <2>4. On \in SUBSET PageIds
    BY DEF On, Rows
  <2> QED
    BY <2>3, <2>4, KeptIsOldest
<1>2. IInv /\ SoloInv /\ [Next]_vars => [Keeps]_vars
  BY <1>1
<1> QED
  BY <1>2, Invariance, SoloInvariance, PTL DEF Spec, OldestKept

=============================================================================
