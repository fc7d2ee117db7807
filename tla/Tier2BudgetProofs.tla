------------------------- MODULE Tier2BudgetProofs -------------------------
(***************************************************************************)
(* The budgets hold for any number of sources and days, any limits and any *)
(* deaths of the process, as long as there is a single sweep: then what    *)
(* its session flushes is what the row holds already.  So does the promise *)
(* that the tenant's count covers the runs that were charged to it.        *)
(***************************************************************************)
EXTENDS Tier2Budget, FiniteSetTheorems, TLAPS

OneSweep == \A s, z \in Sweeps : s = z

-----------------------------------------------------------------------------
(* The inductive invariant.                                                *)

\* The rows account for every run of their day, and no run is of a later one.
SourceRowsInv ==
  \A x \in Sources :
    /\ date[x] <= today
    /\ \A d \in Days : /\ runs[x][d] <= PerSource
                       /\ date[x] < d => runs[x][d] = 0
                       /\ date[x] = d => runs[x][d] <= count[x]

TenantRowInv ==
  /\ tenantDate <= today
  /\ \A d \in Days : /\ tenantRuns[d] <= TenantLimit
                     /\ tenantDate < d => tenantRuns[d] = 0
                     /\ tenantDate = d => tenantRuns[d] <= tenantCount

\* A check's day is not behind any row, since nobody else spends meanwhile.
DayInv ==
  \A s \in Sweeps : pc[s] # "idle" =>
    /\ day[s] <= today
    /\ tenantDate <= day[s]
    /\ \A x \in Sources : date[x] <= day[s]

\* What waits to be flushed is what the row holds.
FlushInv ==
  \A s \in Sweeps :
    /\ own[s] # Nothing => own[s] = count[at[s]]
    /\ tenantOwn[s] # Nothing => tenantOwn[s] = tenantCount
    /\ pc[s] \in {"idle", "source"} => own[s] = Nothing
    /\ pc[s] \in {"idle", "source", "tenant"} => tenantOwn[s] = Nothing

\* A source that passed its own pool has paid for the run to come.
PaidInv ==
  \A s \in Sweeps : pc[s] = "tenant" =>
    /\ date[at[s]] = day[s]
    /\ count[at[s]] <= PerSource
    /\ runs[at[s]][day[s]] < count[at[s]]

IInv == TypeOK /\ SourceRowsInv /\ TenantRowInv /\ DayInv /\ FlushInv /\ PaidInv

-----------------------------------------------------------------------------
\* Days are positive numbers.
LEMMA DayIsNat == \A d \in Days : d \in Nat /\ d > 0
  BY BoundsAssumption DEF Days

\* What the invariant says of the runs of one source on one day.
LEMMA RunsAt ==
  ASSUME TypeOK, SourceRowsInv, NEW x \in Sources, NEW d \in Days
  PROVE  /\ runs[x] \in [Days -> Nat]
         /\ runs[x][d] \in Nat
         /\ date[x] \in Nat
         /\ count[x] \in Nat
         /\ runs[x][d] <= PerSource
         /\ date[x] < d => runs[x][d] = 0
         /\ date[x] = d => runs[x][d] <= count[x]
<1>1. runs[x] \in [Days -> Nat] /\ count[x] \in Nat /\ date[x] \in Days \cup {Never}
  BY DEF TypeOK
<1>2. runs[x][d] \in Nat
  BY <1>1
<1>3. date[x] \in Nat
  BY <1>1, DayIsNat DEF Never
<1> QED
  BY <1>1, <1>2, <1>3 DEF SourceRowsInv

\* What the invariant says of the runs of the tenant on one day.
LEMMA TenantRunsAt ==
  ASSUME TypeOK, TenantRowInv, NEW d \in Days
  PROVE  /\ tenantRuns[d] \in Nat
         /\ tenantDate \in Nat
         /\ tenantCount \in Nat
         /\ tenantRuns[d] <= TenantLimit
         /\ tenantDate < d => tenantRuns[d] = 0
         /\ tenantDate = d => tenantRuns[d] <= tenantCount
  BY DayIsNat DEF TypeOK, TenantRowInv, Never

\* Nothing is spent at first.
LEMMA InitIInv == Init => IInv
<1> SUFFICES ASSUME Init PROVE IInv
  OBVIOUS
<1> USE QuotaAssumption, BoundsAssumption DEF Init, Days, Never, Nothing
<1>1. TypeOK
  BY DEF TypeOK
<1>2. SourceRowsInv /\ TenantRowInv
  BY DEF SourceRowsInv, TenantRowInv
<1>3. DayInv /\ FlushInv /\ PaidInv
  BY DEF DayInv, FlushInv, PaidInv
<1> QED
  BY <1>1, <1>2, <1>3 DEF IInv

\* The check begins on today, which no row is ahead of.
LEMMA LoadSourceIInv ==
  ASSUME OneSweep, IInv, NEW s \in Sweeps, NEW x \in Sources, LoadSource(s, x)
  PROVE  IInv'
<1> USE BoundsAssumption DEF IInv, OneSweep, rowVars, history, LoadSource, Days, Never, Nothing
<1>1. TypeOK'
  BY DEF TypeOK
<1>2. SourceRowsInv' /\ TenantRowInv'
  BY DEF SourceRowsInv, TenantRowInv
<1>3. DayInv'
  BY DEF DayInv, SourceRowsInv, TenantRowInv, TypeOK
<1>4. FlushInv' /\ PaidInv'
  BY DEF FlushInv, PaidInv, TypeOK
<1> QED
  BY <1>1, <1>2, <1>3, <1>4

\* The source's pool (try_spend_source_budget): its row rolls over to the
\* check's day, or counts one more.
LEMMA SpendSourceIInv ==
  ASSUME OneSweep, IInv, NEW s \in Sweeps, SpendSource(s)
  PROVE  IInv'
<1> USE QuotaAssumption, BoundsAssumption
    DEF IInv, OneSweep, history, SpendSource, Spent, WithinQuota, Days, Never, Nothing
<1> DEFINE x == at[s]
           n == Spent(count[x], date[x], day[s])
<1>1. /\ x \in Sources /\ count[x] \in Nat /\ day[s] \in Days
      /\ n \in Nat \ {0}
      /\ date[x] <= day[s] /\ day[s] <= today
  <2>1. /\ x \in Sources /\ count[x] \in Nat /\ day[s] \in Days
    BY DEF TypeOK
  <2>2. date[x] <= day[s] /\ day[s] <= today
    BY <2>1 DEF DayInv
  <2>3. n \in Nat \ {0}
    BY <2>1
  <2> QED
    BY <2>1, <2>2, <2>3
<1>2. TypeOK'
  BY <1>1 DEF TypeOK
<1>3. count'[x] = n /\ date'[x] = day[s]
  BY <1>1 DEF TypeOK
<1>4. runs[x][day[s]] < n
  <2>1. /\ date[x] < day[s] => runs[x][day[s]] = 0
        /\ date[x] = day[s] => runs[x][day[s]] <= count[x]
        /\ runs[x][day[s]] \in Nat
        /\ date[x] \in Nat /\ day[s] \in Nat
    BY <1>1, RunsAt, DayIsNat
  <2> HIDE DEF x, n
  <2>2. CASE date[x] = day[s]
    <3>1. n = count[x] + 1
      BY <2>2 DEF n
    <3> QED
      BY <3>1, <2>1, <2>2, <1>1
  <2>3. CASE date[x] # day[s]
    BY <2>3, <2>1, <1>1
  <2> QED
    BY <2>2, <2>3
<1>5. SourceRowsInv'
  <2> SUFFICES ASSUME NEW y \in Sources
               PROVE  /\ date'[y] <= today'
                      /\ \A d \in Days : /\ runs'[y][d] <= PerSource
                                         /\ date'[y] < d => runs'[y][d] = 0
                                         /\ date'[y] = d => runs'[y][d] <= count'[y]
    BY DEF SourceRowsInv
  <2>1. CASE y = x
    <3> SUFFICES ASSUME NEW d \in Days
                 PROVE  /\ runs[x][d] <= PerSource
                        /\ day[s] < d => runs[x][d] = 0
                        /\ day[s] = d => runs[x][d] <= n
      BY <2>1, <1>1, <1>3
    <3>1. /\ runs[x][d] <= PerSource /\ runs[x][d] \in Nat
          /\ date[x] < d => runs[x][d] = 0
          /\ date[x] \in Nat /\ day[s] \in Nat /\ d \in Nat
      BY <1>1, RunsAt, DayIsNat
    <3> HIDE DEF x, n
    <3> QED
      BY <3>1, <1>1, <1>4
  <2>2. CASE y # x
    BY <2>2, <1>1 DEF SourceRowsInv, TypeOK
  <2> QED
    BY <2>1, <2>2
<1>6. TenantRowInv'
  BY DEF TenantRowInv
<1>7. DayInv'
  BY <1>1 DEF DayInv, TypeOK
<1>8. FlushInv'
  BY <1>1, <1>3 DEF FlushInv, TypeOK
<1>9. PaidInv'
  BY <1>1, <1>3, <1>4 DEF PaidInv, TypeOK
<1> QED
  BY <1>2, <1>5, <1>6, <1>7, <1>8, <1>9

\* The tenant's pool (try_spend_tenant_budget): the flush before it rewrites
\* the source's count with itself, and a run that starts is paid for in both.
LEMMA SpendTenantIInv ==
  ASSUME OneSweep, IInv, NEW s \in Sweeps, SpendTenant(s)
  PROVE  IInv'
<1> USE QuotaAssumption, BoundsAssumption
    DEF IInv, OneSweep, SpendTenant, Spent, Flush, WithinLimit, Days, Never, Nothing
<1> DEFINE x == at[s]
           n == Spent(tenantCount, tenantDate, day[s])
<1>1. /\ x \in Sources /\ day[s] \in Days /\ n \in Nat \ {0}
      /\ tenantDate <= day[s] /\ day[s] <= today
      /\ date[x] = day[s]
      /\ count[x] <= PerSource /\ runs[x][day[s]] < count[x]
      /\ tenantRuns[day[s]] < n
  <2>1. /\ x \in Sources /\ day[s] \in Days /\ n \in Nat \ {0}
        /\ tenantCount \in Nat /\ tenantDate \in Nat /\ day[s] \in Nat
        /\ tenantRuns[day[s]] \in Nat
    BY DEF TypeOK
  <2>2. /\ tenantDate <= day[s] /\ day[s] <= today
        /\ date[x] = day[s]
        /\ count[x] <= PerSource /\ runs[x][day[s]] < count[x]
    BY DEF DayInv, PaidInv
  <2>3. /\ tenantDate < day[s] => tenantRuns[day[s]] = 0
        /\ tenantDate = day[s] => tenantRuns[day[s]] <= tenantCount
    BY <2>1 DEF TenantRowInv
  <2> HIDE DEF x
  <2> QED
    BY <2>1, <2>2, <2>3
<1>2. count' = count
  BY <1>1 DEF TypeOK, FlushInv
<1> DEFINE more == [runs EXCEPT ![x][day[s]] = @ + 1]
<1>3. runs' = runs \/ runs' = more
  OBVIOUS
<1>4. /\ more \in [Sources -> [Days -> Nat]]
       /\ more[x][day[s]] = runs[x][day[s]] + 1
       /\ \A y \in Sources, d \in Days :
            ~(y = x /\ d = day[s]) => more[y][d] = runs[y][d]
  <2> DEFINE h == [runs[x] EXCEPT ![day[s]] = @ + 1]
  <2>1. /\ runs \in [Sources -> [Days -> Nat]]
        /\ runs[x] \in [Days -> Nat] /\ runs[x][day[s]] \in Nat
    BY <1>1, RunsAt DEF TypeOK
  <2>2. more = [runs EXCEPT ![x] = h]
    OBVIOUS
  <2>3. /\ h \in [Days -> Nat]
        /\ h[day[s]] = runs[x][day[s]] + 1
        /\ \A e \in Days : e # day[s] => h[e] = runs[x][e]
    BY <2>1, <1>1, SMTT(30)
  <2>4. x \in Sources /\ day[s] \in Days
    BY <1>1
  <2> HIDE DEF x, h, more
  <2> QED
    BY ONLY <2>1, <2>2, <2>3, <2>4
<1>5. TypeOK'
  <2>1. runs' \in [Sources -> [Days -> Nat]]
    <3>1. runs \in [Sources -> [Days -> Nat]]
      BY DEF TypeOK
    <3> HIDE DEF more, x
    <3> QED
      BY ONLY <1>3, <1>4, <3>1
  <2>2. tenantRuns' \in [Days -> Nat]
    <3>1. tenantRuns \in [Days -> Nat]
      BY DEF TypeOK
    <3> QED
      BY <3>1, <1>1
  <2>3. /\ tenantCount' = n /\ tenantDate' = day[s]
        /\ UNCHANGED <<count, date, browser, at, day, today, spare, crashes>>
    BY <1>2
  <2>4. /\ pc' \in [Sweeps -> {"idle", "source", "tenant", "deferring", "browsing",
                               "fetching", "escalated"}]
        /\ own' \in [Sweeps -> Nat]
        /\ tenantOwn' \in [Sweeps -> Nat]
    BY <1>1 DEF TypeOK
  <2> HIDE DEF n, x, more, SpendTenant
  <2> QED
    BY <1>1, <2>1, <2>2, <2>3, <2>4 DEF TypeOK
<1>6. SourceRowsInv'
  <2> SUFFICES ASSUME NEW y \in Sources, NEW d \in Days
               PROVE  /\ date'[y] <= today'
                      /\ runs'[y][d] <= PerSource
                      /\ date'[y] < d => runs'[y][d] = 0
                      /\ date'[y] = d => runs'[y][d] <= count'[y]
    BY BoundsAssumption DEF SourceRowsInv
  <2>1. CASE runs' = runs
    BY <2>1, <1>2 DEF SourceRowsInv
  <2>2. CASE runs' = more /\ y = x /\ d = day[s]
    <3>1. runs'[y][d] = runs[x][day[s]] + 1
      BY <2>2, <1>4
    <3>2. runs[x][d] \in Nat /\ count[x] \in Nat /\ day[s] \in Nat
      BY <1>1, RunsAt, DayIsNat
    <3> QED
      BY <3>1, <3>2, <2>2, <1>1, <1>2
  <2>3. CASE runs' = more /\ ~(y = x /\ d = day[s])
    <3>1. runs'[y][d] = runs[y][d]
      BY <2>3, <1>4
    <3> QED
      BY <3>1, <1>2 DEF SourceRowsInv
  <2> HIDE DEF more
  <2> QED
    BY <2>1, <2>2, <2>3, <1>3
<1>7. TenantRowInv'
  <2> SUFFICES ASSUME NEW d \in Days
               PROVE  /\ tenantRuns'[d] <= TenantLimit
                      /\ day[s] < d => tenantRuns'[d] = 0
                      /\ day[s] = d => tenantRuns'[d] <= n
    BY <1>1 DEF TenantRowInv
  <2>1. /\ tenantRuns[d] <= TenantLimit /\ tenantRuns[d] \in Nat
        /\ tenantDate < d => tenantRuns[d] = 0
        /\ d \in Nat /\ day[s] \in Nat /\ tenantDate \in Nat
    BY <1>1, TenantRunsAt, DayIsNat
  <2>2. \/ tenantRuns'[d] = tenantRuns[d]
        \/ /\ d = day[s] /\ n <= TenantLimit
           /\ tenantRuns'[d] = tenantRuns[day[s]] + 1
    BY <1>1 DEF TypeOK
  <2> HIDE DEF n
  <2> QED
    BY <1>1, <2>1, <2>2
<1>8. DayInv'
  BY <1>1 DEF DayInv, TypeOK
<1>9. FlushInv'
  BY <1>1, <1>2, SMTT(30) DEF FlushInv, TypeOK
<1>10. PaidInv'
  BY <1>1, SMTT(30) DEF PaidInv, TypeOK
<1> QED
  BY <1>5, <1>6, <1>7, <1>8, <1>9, <1>10

\* The commit that ends a check rewrites both counts with themselves.
LEMMA CommitIInv ==
  ASSUME OneSweep, IInv, NEW s \in Sweeps, Commit(s)
  PROVE  IInv'
<1> USE BoundsAssumption DEF IInv, OneSweep, history, Commit, Ends, Flush, Days, Never, Nothing
<1>1. count' = count /\ tenantCount' = tenantCount
  BY DEF TypeOK, FlushInv
<1>2. TypeOK'
  BY <1>1 DEF TypeOK
<1>3. SourceRowsInv' /\ TenantRowInv'
  BY <1>1 DEF SourceRowsInv, TenantRowInv
<1>4. DayInv' /\ FlushInv' /\ PaidInv'
  BY <1>1 DEF DayInv, FlushInv, PaidInv, TypeOK
<1> QED
  BY <1>2, <1>3, <1>4

\* A step that leaves the counts, and what is to be flushed or drops it.
LEMMA CountsKept ==
  ASSUME OneSweep, IInv, TypeOK', NEW s \in Sweeps,
         UNCHANGED <<count, date, tenantCount, tenantDate, at, day, today, runs, tenantRuns>>,
         pc[s] # "idle", pc'[s] \in {"idle", "escalated"},
         \/ own'[s] = Nothing /\ tenantOwn'[s] = Nothing
         \/ pc'[s] = "escalated" /\ UNCHANGED <<own, tenantOwn>>
  PROVE  IInv'
<1>1. SourceRowsInv' /\ TenantRowInv'
  BY DEF IInv, SourceRowsInv, TenantRowInv
<1>2. DayInv'
  BY DEF IInv, OneSweep, DayInv
<1>3. FlushInv' /\ PaidInv'
  BY DEF IInv, OneSweep, FlushInv, PaidInv
<1> QED
  BY <1>1, <1>2, <1>3 DEF IInv

\* A check outside the budgets, or one that dies, touches no count.
LEMMA UnbudgetedIInv ==
  ASSUME OneSweep, IInv, NEW s \in Sweeps,
         FetchedPlainly(s) \/ Escalate(s) \/ PinBrowser(s)
         \/ EscalationFails(s) \/ Crash(s)
  PROVE  IInv'
<1> USE BoundsAssumption DEF IInv, rowVars, history, Ends
<1>1. CASE FetchedPlainly(s) \/ EscalationFails(s) \/ Crash(s)
  <2>1. /\ Ends(s)
        /\ UNCHANGED <<rowVars, at, day, today, history>>
        /\ crashes' \in Nat
    BY <1>1 DEF TypeOK, FetchedPlainly, EscalationFails, Crash
  <2>2. TypeOK'
    BY <2>1 DEF TypeOK, Nothing
  <2> QED
    BY <1>1, <2>1, <2>2, CountsKept DEF TypeOK, FetchedPlainly, EscalationFails, Crash
<1>2. CASE Escalate(s)
  <2>1. TypeOK'
    BY <1>2 DEF TypeOK, Escalate
  <2> QED
    BY <1>2, <2>1, CountsKept DEF TypeOK, Escalate
<1>3. CASE PinBrowser(s)
  <2>1. TypeOK'
    BY <1>3 DEF TypeOK, PinBrowser, Nothing
  <2> QED
    BY <1>3, <2>1, CountsKept DEF TypeOK, PinBrowser
<1> QED
  BY <1>1, <1>2, <1>3

\* Midnight moves no row.
LEMMA MidnightIInv == ASSUME IInv, Midnight PROVE IInv'
<1> USE BoundsAssumption DEF IInv, rowVars, sweepVars, history, Midnight, Days, Never
<1>1. TypeOK'
  BY DEF TypeOK
<1>2. today <= today' /\ today \in Nat /\ today' \in Nat
  BY DEF TypeOK
<1>3. SourceRowsInv' /\ TenantRowInv'
  <2>1. \A x \in Sources : date[x] \in Nat
    BY DEF TypeOK
  <2> QED
    BY <1>2, <2>1 DEF SourceRowsInv, TenantRowInv, TypeOK
<1>4. DayInv'
  BY <1>2 DEF DayInv, TypeOK
<1>5. FlushInv' /\ PaidInv'
  BY DEF FlushInv, PaidInv
<1> QED
  BY <1>1, <1>3, <1>4, <1>5

\* Every step of a single sweep keeps the invariant.
LEMMA NextIInv == ASSUME OneSweep, IInv, [Next]_vars PROVE IInv'
<1>1. CASE \E s \in Sweeps : Check(s) \/ Crash(s)
  BY <1>1, LoadSourceIInv, SpendSourceIInv, SpendTenantIInv, CommitIInv,
     UnbudgetedIInv DEF Check
<1>2. CASE Midnight
  BY <1>2, MidnightIInv
<1>3. CASE UNCHANGED vars
  BY <1>3 DEF IInv, TypeOK, SourceRowsInv, TenantRowInv, DayInv, FlushInv, PaidInv,
     vars, rowVars, sweepVars, history
<1> QED
  BY <1>1, <1>2, <1>3 DEF Next

\* With a single sweep the rows account for every browser run.
THEOREM Invariance == OneSweep => (Spec => []IInv)
<1> SUFFICES ASSUME OneSweep PROVE Spec => []IInv
  OBVIOUS
<1>1. IInv /\ [Next]_vars => IInv'
  BY NextIInv
<1> QED
  BY <1>1, InitIInv, PTL DEF Spec

\* With a single sweep every variable keeps its type.
THEOREM TypeCorrect == OneSweep => (Spec => []TypeOK)
<1> SUFFICES ASSUME OneSweep PROVE Spec => []TypeOK
  OBVIOUS
<1>1. IInv => TypeOK
  BY DEF IInv
<1> QED
  BY <1>1, Invariance, PTL

\* No source runs the browser more often in a day than its quota
\* (TIER2_DAILY_PER_SOURCE), over midnights and deaths of the process.
THEOREM SourceQuotaKept == OneSweep => (Spec => []SourceWithinQuota)
<1> SUFFICES ASSUME OneSweep PROVE Spec => []SourceWithinQuota
  OBVIOUS
<1>1. IInv => SourceWithinQuota
  BY DEF IInv, SourceRowsInv, SourceWithinQuota
<1> QED
  BY <1>1, Invariance, PTL

\* The sources of a tenant together stay within the tenant's limit, also when
\* their quotas add up to more.
THEOREM TenantLimitKept == OneSweep => (Spec => []TenantWithinLimit)
<1> SUFFICES ASSUME OneSweep PROVE Spec => []TenantWithinLimit
  OBVIOUS
<1>1. IInv => TenantWithinLimit
  BY DEF IInv, TenantRowInv, TenantWithinLimit
<1> QED
  BY <1>1, Invariance, PTL

-----------------------------------------------------------------------------
(* The tenant's count against the counts of its sources.  A source whose   *)
(* own pool let it through is ahead of the tenant's by the run to come.    *)

AheadInv ==
  \A s \in Sweeps : pc[s] = "tenant" /\ tenantDate = day[s] =>
    tenantCount + 1 <= Cardinality(ChargedRuns)

ValveInv == ValveIsCovered /\ AheadInv

\* There are no more runs to charge than the quotas allow.
LEMMA PairsFinite == IsFiniteSet(Sources \X (1 .. PerSource))
<1>1. IsFiniteSet(1 .. PerSource)
  BY QuotaAssumption, FS_Interval
<1> QED
  BY <1>1, SourcesAssumption, FS_Product

\* Those that were charged can be counted.
LEMMA ChargedRunsFinite ==
  /\ IsFiniteSet(ChargedRuns)
  /\ Cardinality(ChargedRuns) \in Nat
<1>1. IsFiniteSet(ChargedRuns)
  BY PairsFinite, FS_Subset DEF ChargedRuns
<1> QED
  BY <1>1, FS_CardinalityType

\* Nothing is charged to the tenant at first.
LEMMA InitValve == Init => ValveInv
<1>1. Init => tenantCount = 0 /\ \A s \in Sweeps : pc[s] # "tenant"
  BY DEF Init
<1> QED
  BY <1>1, ChargedRunsFinite DEF ValveInv, ValveIsCovered, AheadInv

\* A step that leaves the counts and lets no source through.
LEMMA ChargesKept ==
  ASSUME ValveInv, UNCHANGED <<count, date, tenantCount, tenantDate>>,
         \A s \in Sweeps : pc'[s] = "tenant" => pc[s] = "tenant" /\ day'[s] = day[s]
  PROVE  ValveInv'
<1>1. ChargedRuns' = ChargedRuns
  BY DEF ChargedRuns, Charged
<1> QED
  BY <1>1 DEF ValveInv, ValveIsCovered, AheadInv

\* A source's pool is charged first: within its quota that is one more run.
LEMMA SpendSourceValve ==
  ASSUME OneSweep, IInv, ValveInv, NEW s \in Sweeps, SpendSource(s)
  PROVE  ValveInv'
<1> PICK x \in Sources : x = at[s]
  BY DEF IInv, TypeOK
<1> DEFINE n == Spent(count[x], date[x], day[s])
           new == <<x, n>>
<1>1. /\ n \in Nat \ {0}
      /\ date[x] \in Nat /\ count[x] \in Nat /\ day[s] \in Nat /\ tenantDate \in Nat
      /\ tenantCount \in Nat /\ PerSource \in Nat
  BY QuotaAssumption, DayIsNat DEF IInv, TypeOK, Spent, Never
<1>2. /\ pc[s] = "source"
      /\ count' = [count EXCEPT ![x] = n]
      /\ date' = [date EXCEPT ![x] = day[s]]
      /\ pc'[s] = IF n <= PerSource THEN "tenant" ELSE "deferring"
      /\ UNCHANGED <<tenantCount, tenantDate, day>>
  BY DEF SpendSource, WithinQuota, IInv, TypeOK
<1>a. date[x] = day[s] => n = count[x] + 1
  BY DEF Spent
<1>b. date[x] # day[s] => n = 1
  BY DEF Spent
<1> HIDE DEF n
<1>c. /\ count'[x] = n /\ date'[x] = day[s]
      /\ \A y \in Sources : y # x => count'[y] = count[y] /\ date'[y] = date[y]
  BY <1>2 DEF IInv, TypeOK
<1>3. tenantDate <= day[s] /\ \A y \in Sources : date[y] <= day[s]
  BY <1>2 DEF IInv, DayInv
<1>4. CASE day[s] # tenantDate
  <2>1. ~(date'[x] <= tenantDate')
    BY <1>1, <1>2, <1>c, <1>3, <1>4
  <2>2. ValveIsCovered'
    BY <1>1, <2>1 DEF ValveIsCovered
  <2>3. AheadInv'
    BY <1>2, <1>4 DEF OneSweep, AheadInv
  <2> QED
    BY <2>2, <2>3 DEF ValveInv
<1>5. CASE day[s] = tenantDate
  <2>1. tenantCount <= Cardinality(ChargedRuns)
    BY <1>3, <1>5 DEF ValveInv, ValveIsCovered
  <2>2. \A y \in Sources : y # x => Charged(y)' = Charged(y)
    BY <1>2, <1>c DEF Charged
  <2>3. Charged(x)' = IF n < PerSource THEN n ELSE PerSource
    BY <1>2, <1>c, <1>5 DEF Charged
  <2>4. Charged(x) = IF n - 1 < PerSource THEN n - 1 ELSE PerSource
    BY <1>1, <1>a, <1>b, <1>5 DEF Charged
  <2>5. CASE n <= PerSource
    <3>1. Charged(x)' = n /\ Charged(x) = n - 1
      BY <2>3, <2>4, <2>5, <1>1
    <3>2. new \notin ChargedRuns
      BY <3>1, <1>1 DEF ChargedRuns
    <3>3. ChargedRuns' = ChargedRuns \cup {new}
      <4>1. ASSUME NEW q \in Sources \X (1 .. PerSource)
            PROVE  q \in ChargedRuns' <=> q \in ChargedRuns \/ q = new
        <5>1. CASE q[1] # x
          BY <5>1, <2>2 DEF ChargedRuns
        <5>2. CASE q[1] = x
          <6>1. q = new <=> q[2] = n
            BY <5>2
          <6>a. q[2] \in Nat
            BY QuotaAssumption
          <6>2. q[2] <= n <=> q[2] <= n - 1 \/ q[2] = n
            BY <1>1, <6>a
          <6> QED
            BY <5>2, <6>1, <6>2, <3>1 DEF ChargedRuns
        <5> QED
          BY <5>1, <5>2
      <4>2. new \in Sources \X (1 .. PerSource)
        BY <1>1, <2>5
      <4>3. ChargedRuns \subseteq Sources \X (1 .. PerSource)
        BY DEF ChargedRuns
      <4>4. ChargedRuns' \subseteq Sources \X (1 .. PerSource)
        BY DEF ChargedRuns
      <4> QED
        BY <4>1, <4>2, <4>3, <4>4
    <3>4. Cardinality(ChargedRuns') = Cardinality(ChargedRuns) + 1
      BY <3>2, <3>3, ChargedRunsFinite, FS_AddElement
    <3>5. tenantCount' + 1 <= Cardinality(ChargedRuns)'
      BY <1>1, <1>2, <2>1, <3>4, ChargedRunsFinite
    <3> QED
      BY <1>1, <1>2, <3>4, <3>5, ChargedRunsFinite DEF ValveInv, ValveIsCovered, AheadInv
  <2>6. CASE ~(n <= PerSource)
    <3>1. Charged(x)' = Charged(x)
      BY <2>3, <2>4, <2>6, <1>1
    <3>2. ChargedRuns' = ChargedRuns
      BY <3>1, <2>2 DEF ChargedRuns
    <3>3. pc'[s] # "tenant"
      BY <1>2, <2>6
    <3> QED
      BY <1>2, <2>1, <3>2, <3>3 DEF OneSweep, ValveInv, ValveIsCovered, AheadInv
  <2> QED
    BY <2>5, <2>6
<1> QED
  BY <1>4, <1>5

\* The tenant's pool catches up with the source that was let through.
LEMMA SpendTenantValve ==
  ASSUME OneSweep, IInv, ValveInv, NEW s \in Sweeps, SpendTenant(s)
  PROVE  ValveInv'
<1> PICK x \in Sources : x = at[s]
  BY DEF IInv, TypeOK
<1> DEFINE n == Spent(tenantCount, tenantDate, day[s])
<1>1. /\ pc[s] = "tenant"
      /\ day[s] \in Nat /\ date[x] = day[s]
      /\ count[x] \in Nat /\ count[x] <= PerSource /\ runs[x][day[s]] < count[x]
      /\ runs[x][day[s]] \in Nat
  <2>1. /\ pc[s] = "tenant" /\ day[s] \in Days
    BY DEF SpendTenant, IInv, TypeOK
  <2> QED
    BY <2>1, RunsAt, DayIsNat DEF IInv, PaidInv
<1>2. /\ tenantCount' = n /\ tenantDate' = day[s]
      /\ pc'[s] # "tenant"
      /\ UNCHANGED <<count, date>>
  BY <1>1, SMTT(30) DEF SpendTenant, Flush, IInv, TypeOK, FlushInv
<1>3. AheadInv'
  BY <1>2 DEF OneSweep, AheadInv
<1>4. n <= Cardinality(ChargedRuns)'
  <2>1. CASE tenantDate = day[s]
    <3>1. ChargedRuns' = ChargedRuns
      BY <1>2, <2>1 DEF ChargedRuns, Charged
    <3> QED
      BY <1>1, <2>1, <3>1 DEF ValveInv, AheadInv, Spent
  <2>2. CASE tenantDate # day[s]
    <3>1. PerSource >= 1 /\ count[x] >= 1
      BY ONLY <1>1, QuotaAssumption
    <3>2. 1 <= Charged(x)'
      BY <1>1, <1>2, <3>1, QuotaAssumption DEF Charged
    <3> DEFINE first == <<x, 1>>
    <3>a. first \in Sources \X (1 .. PerSource) /\ first[1] = x /\ first[2] = 1
      BY <3>1, QuotaAssumption
    <3> HIDE DEF first
    <3>3. first \in ChargedRuns'
      BY <3>a, <3>2 DEF ChargedRuns
    <3>b. ChargedRuns' \subseteq Sources \X (1 .. PerSource)
      BY DEF ChargedRuns
    <3>4. IsFiniteSet(ChargedRuns') /\ Cardinality(ChargedRuns') \in Nat
      BY <3>b, PairsFinite, FS_Subset, FS_CardinalityType
    <3>5. Cardinality(ChargedRuns') # 0
      BY <3>3, <3>4, FS_EmptySet
    <3> QED
      BY <2>2, <3>4, <3>5 DEF Spent
  <2> QED
    BY <2>1, <2>2
<1> QED
  BY <1>2, <1>3, <1>4 DEF ValveInv, ValveIsCovered

\* Every step of a single sweep keeps the tenant's count covered.
LEMMA NextValve == ASSUME OneSweep, IInv, ValveInv, [Next]_vars PROVE ValveInv'
<1>1. ASSUME NEW s \in Sweeps, NEW x \in Sources, LoadSource(s, x) PROVE ValveInv'
  BY <1>1, ChargesKept DEF LoadSource, rowVars, OneSweep, IInv, TypeOK
<1>2. ASSUME NEW s \in Sweeps, Commit(s) PROVE ValveInv'
  <2>1. count' = count /\ tenantCount' = tenantCount
    BY <1>2 DEF Commit, Flush, IInv, TypeOK, FlushInv
  <2> QED
    BY <1>2, <2>1, ChargesKept DEF Commit, Ends, OneSweep, IInv, TypeOK
<1>3. ASSUME NEW s \in Sweeps,
             FetchedPlainly(s) \/ Escalate(s) \/ PinBrowser(s) \/ EscalationFails(s) \/ Crash(s)
      PROVE  ValveInv'
  <2>1. /\ UNCHANGED <<count, date, tenantCount, tenantDate>>
        /\ pc'[s] \in {"idle", "escalated"}
    BY <1>3 DEF FetchedPlainly, Escalate, PinBrowser, EscalationFails, Crash, Ends, rowVars,
                IInv, TypeOK
  <2> QED
    BY <2>1, ChargesKept DEF OneSweep
<1>4. CASE Midnight
  BY <1>4, ChargesKept DEF Midnight, rowVars, sweepVars
<1>5. CASE UNCHANGED vars
  BY <1>5, ChargesKept DEF vars, rowVars, sweepVars
<1> QED
  BY <1>1, <1>2, <1>3, <1>4, <1>5, SpendSourceValve, SpendTenantValve DEF Next, Check

\* The valve for the whole tenant stays shut as long as its limit is what the
\* sources' quotas add up to: its count never exceeds the runs that their own
\* pools were charged for.
THEOREM ValveStaysShut == OneSweep => (Spec => []ValveIsCovered)
<1> SUFFICES ASSUME OneSweep PROVE Spec => []ValveIsCovered
  OBVIOUS
<1>1. IInv /\ ValveInv /\ [Next]_vars => ValveInv'
  BY NextValve
<1>2. ValveInv => ValveIsCovered
  BY DEF ValveInv
<1> QED
  BY <1>1, <1>2, InitValve, Invariance, PTL DEF Spec

=============================================================================
