---------------------------- MODULE Tier2Budget ----------------------------
(***************************************************************************)
(* The daily budgets of browser ("Tier-2") runs: app/services/             *)
(* tier2_budget.py, and the part of app/services/monitoring.py             *)
(* (run_subprocessor_check) that draws on them.  The sources here belong   *)
(* to one tenant.                                                          *)
(*                                                                         *)
(* Each spend is one UPDATE that rolls the day over or adds one.  But the  *)
(* spender then assigns the count it got back to the object its session    *)
(* holds, whose attribute the UPDATE has just expired: the session counts  *)
(* it as changed, and its next flush writes that count again, whatever the *)
(* row holds by then.  The day is computed from the UPDATE's own value, so *)
(* assigning it changes nothing.                                           *)
(*                                                                         *)
(* Which sources are due, what the pages hold and what becomes of a check  *)
(* apart from its browser is left open.                                    *)
(***************************************************************************)
EXTENDS Naturals, FiniteSets

CONSTANTS
  Sources,      \* the tenant's subprocessors rows
  Sweeps,       \* sweeps that may run at the same time
  PerSource,    \* settings.TIER2_DAILY_PER_SOURCE
  TenantLimit,  \* Tenant.tier2_daily_limit
  LastDay,      \* bound on the days that pass
  MaxSpends,    \* bound on what a source spends in a day
  MaxCrashes    \* bound on checks that die

ASSUME SourcesAssumption == IsFiniteSet(Sources)
ASSUME QuotaAssumption == PerSource \in Nat /\ TenantLimit \in Nat
ASSUME BoundsAssumption == /\ LastDay \in Nat \ {0}
                           /\ MaxSpends \in Nat
                           /\ MaxCrashes \in Nat

Days == 1 .. LastDay
Never == 0   \* tier2_daily_date is NULL
Nothing == 0 \* no count waits to be flushed; a count that was spent is positive

VARIABLES
  count,        \* subprocessors.tier2_daily_count
  date,         \* subprocessors.tier2_daily_date
  tenantCount,  \* tenants.tier2_daily_count
  tenantDate,   \* tenants.tier2_daily_date
  browser,      \* subprocessors.requires_browser
  pc,           \* where the check of each sweep is
  at,           \* the source it checks
  day,          \* the check's own today
  own,          \* the source's count, assigned and not flushed
  tenantOwn,    \* the tenant's count, assigned and not flushed
  today,        \* the calendar (UTC)
  runs,         \* budgeted browser runs per source and day, kept nowhere
  tenantRuns,   \* budgeted browser runs of the tenant per day, kept nowhere
  spare,        \* browser runs of a source outside of any budget, up to two
  crashes       \* checks that died so far

rowVars == <<count, date, tenantCount, tenantDate, browser>>
sweepVars == <<pc, at, day, own, tenantOwn>>
history == <<runs, tenantRuns, spare>>
vars == <<rowVars, sweepVars, today, history, crashes>>

TypeOK ==
  /\ count \in [Sources -> Nat]
  /\ date \in [Sources -> Days \cup {Never}]
  /\ tenantCount \in Nat
  /\ tenantDate \in Days \cup {Never}
  /\ browser \in [Sources -> BOOLEAN]
  /\ pc \in [Sweeps -> {"idle", "source", "tenant", "deferring", "browsing",
                        "fetching", "escalated"}]
  /\ at \in [Sweeps -> Sources]
  /\ day \in [Sweeps -> Days]
  /\ own \in [Sweeps -> Nat]
  /\ tenantOwn \in [Sweeps -> Nat]
  /\ today \in Days
  /\ runs \in [Sources -> [Days -> Nat]]
  /\ tenantRuns \in [Days -> Nat]
  /\ spare \in [Sources -> 0 .. 2]
  /\ crashes \in Nat

Init ==
  /\ count = [x \in Sources |-> 0]
  /\ date = [x \in Sources |-> Never]
  /\ tenantCount = 0
  /\ tenantDate = Never
  /\ browser \in [Sources -> BOOLEAN]
  /\ pc = [s \in Sweeps |-> "idle"]
  /\ at \in [Sweeps -> Sources]
  /\ day = [s \in Sweeps |-> 1]
  /\ own = [s \in Sweeps |-> Nothing]
  /\ tenantOwn = [s \in Sweeps |-> Nothing]
  /\ today = 1
  /\ runs = [x \in Sources |-> [d \in Days |-> 0]]
  /\ tenantRuns = [d \in Days |-> 0]
  /\ spare = [x \in Sources |-> 0]
  /\ crashes = 0

-----------------------------------------------------------------------------
\* _atomic_spend's CASE: the first run of a day, or one more.
Spent(n, since, d) == IF since # d THEN 1 ELSE n + 1

\* What a flush leaves of a count that is stored.
Flush(assigned, stored) == IF assigned # Nothing THEN assigned ELSE stored

Ends(s) ==
  /\ pc' = [pc EXCEPT ![s] = "idle"]
  /\ own' = [own EXCEPT ![s] = Nothing]
  /\ tenantOwn' = [tenantOwn EXCEPT ![s] = Nothing]

\* The check begins.  Only a source that is known to need the browser draws
\* on the budgets, and the day is read once for both of them.
LoadSource(s, x) ==
  /\ pc[s] = "idle"
  /\ date[x] = today => count[x] < MaxSpends
  /\ at' = [at EXCEPT ![s] = x]
  /\ day' = [day EXCEPT ![s] = today]
  /\ pc' = [pc EXCEPT ![s] = IF browser[x] THEN "source" ELSE "fetching"]
  /\ UNCHANGED <<rowVars, own, tenantOwn, today, history, crashes>>

\* Mutant of WithinQuota: the run that reaches one above the limit is let through.
WithinQuotaLate(n) == n <= PerSource + 1

WithinQuota(n) == n <= PerSource

\* Mutant of SpendSource: the tenant's pool is charged whatever the source's
\* own pool says.
SpendSourceAnyway(s) ==
  LET x == at[s]
      n == Spent(count[x], date[x], day[s])
  IN
  /\ pc[s] = "source"
  /\ count' = [count EXCEPT ![x] = n]
  /\ date' = [date EXCEPT ![x] = day[s]]
  /\ own' = [own EXCEPT ![s] = n]
  /\ pc' = [pc EXCEPT ![s] = "tenant"]
  /\ UNCHANGED <<tenantCount, tenantDate, browser, at, day, tenantOwn, today,
                 history, crashes>>

\* try_spend_source_budget: the UPDATE commits, and the count it returned is
\* assigned.
SpendSource(s) ==
  LET x == at[s]
      n == Spent(count[x], date[x], day[s])
  IN
  /\ pc[s] = "source"
  /\ count' = [count EXCEPT ![x] = n]
  /\ date' = [date EXCEPT ![x] = day[s]]
  /\ own' = [own EXCEPT ![s] = n]
  /\ pc' = [pc EXCEPT ![s] = IF WithinQuota(n) THEN "tenant" ELSE "deferring"]
  /\ UNCHANGED <<tenantCount, tenantDate, browser, at, day, tenantOwn, today,
                 history, crashes>>

\* Mutant of WithinLimit: the valve only alerts.
WithinLimitAlways(n) == TRUE

WithinLimit(n) == n <= TenantLimit

\* The UPDATE of the tenant's row flushes the source's count first.  If both
\* pools allow it the browser starts.
SpendTenant(s) ==
  LET x == at[s]
      n == Spent(tenantCount, tenantDate, day[s])
  IN
  /\ pc[s] = "tenant"
  /\ count' = [count EXCEPT ![x] = Flush(own[s], @)]
  /\ own' = [own EXCEPT ![s] = Nothing]
  /\ tenantCount' = n
  /\ tenantDate' = day[s]
  /\ tenantOwn' = [tenantOwn EXCEPT ![s] = n]
  /\ IF WithinLimit(n)
     THEN /\ pc' = [pc EXCEPT ![s] = "browsing"]
          /\ runs' = [runs EXCEPT ![x][day[s]] = @ + 1]
          /\ tenantRuns' = [tenantRuns EXCEPT ![day[s]] = @ + 1]
     ELSE /\ pc' = [pc EXCEPT ![s] = "deferring"]
          /\ UNCHANGED <<runs, tenantRuns>>
  /\ UNCHANGED <<date, browser, at, day, today, spare, crashes>>

\* The commit that ends a check, deferred or not, flushes what was assigned.
Commit(s) ==
  /\ pc[s] \in {"deferring", "browsing"}
  /\ count' = [count EXCEPT ![at[s]] = Flush(own[s], @)]
  /\ tenantCount' = Flush(tenantOwn[s], tenantCount)
  /\ Ends(s)
  /\ UNCHANGED <<date, tenantDate, browser, at, day, today, history, crashes>>

-----------------------------------------------------------------------------
(* A source not known to need the browser is fetched over plain HTTP.      *)

\* Plain HTTP answers, well or with an error that is no reason to escalate.
FetchedPlainly(s) ==
  /\ pc[s] = "fetching"
  /\ Ends(s)
  /\ UNCHANGED <<rowVars, at, day, today, history, crashes>>

\* Plain HTTP is blocked (fetch_raw_html) or gives too little text
\* (run_subprocessor_check's inline retry): the browser is tried at once.
Escalate(s) ==
  LET x == at[s] IN
  /\ pc[s] = "fetching"
  /\ pc' = [pc EXCEPT ![s] = "escalated"]
  /\ spare' = [spare EXCEPT ![x] = IF @ < 2 THEN @ + 1 ELSE @]
  /\ UNCHANGED <<rowVars, at, day, own, tenantOwn, today, runs, tenantRuns, crashes>>

\* It got the page: mark_subprocessor_requires_browser.
PinBrowser(s) ==
  /\ pc[s] = "escalated"
  /\ browser' = [browser EXCEPT ![at[s]] = TRUE]
  /\ Ends(s)
  /\ UNCHANGED <<count, date, tenantCount, tenantDate, at, day, today, history, crashes>>

\* It failed too: the failure is counted, the source is not pinned.
EscalationFails(s) ==
  /\ pc[s] = "escalated"
  /\ Ends(s)
  /\ UNCHANGED <<rowVars, at, day, today, history, crashes>>

\* The process dies, or the check raises and its session is closed.
Crash(s) ==
  /\ pc[s] # "idle"
  /\ crashes < MaxCrashes
  /\ crashes' = crashes + 1
  /\ Ends(s)
  /\ UNCHANGED <<rowVars, at, day, today, history>>

Midnight ==
  /\ today < LastDay
  /\ today' = today + 1
  /\ UNCHANGED <<rowVars, sweepVars, history, crashes>>

Check(s) ==
  \/ \E x \in Sources : LoadSource(s, x)
  \/ SpendSource(s)
  \/ SpendTenant(s)
  \/ Commit(s)
  \/ FetchedPlainly(s)
  \/ Escalate(s)
  \/ PinBrowser(s)
  \/ EscalationFails(s)

Next ==
  \/ \E s \in Sweeps : Check(s) \/ Crash(s)
  \/ Midnight

Spec == Init /\ [][Next]_vars

-----------------------------------------------------------------------------
(* The budgets when one sweep runs at a time, over midnights and crashes.  *)
(* When two overlap TLC refutes SourceWithinQuota (Tier2Race), and in the  *)
(* same way the other two.                                                 *)

\* "each already-bot-walled source may run Tier-2 at most this many times per
\* UTC day" (config.py), counted by the runs and not by the row's own count.
SourceWithinQuota ==
  \A x \in Sources, d \in Days : runs[x][d] <= PerSource

\* The safety valve: the tenant's runs of a day never exceed its limit.
TenantWithinLimit == \A d \in Days : tenantRuns[d] <= TenantLimit

\* "per-source quotas should never add up to this" (monitoring.py): the
\* tenant's pool is charged no more than its sources' pools, each capped by
\* its quota, so with a limit of Cardinality(Sources) * PerSource the valve
\* stays shut.  Rows that were rolled over to a later day no longer tell.
Charged(x) == IF date[x] # tenantDate THEN 0
              ELSE IF count[x] < PerSource THEN count[x] ELSE PerSource

\* The runs that the sources' pools were charged for, the n-th of each.
ChargedRuns == {q \in Sources \X (1 .. PerSource) : q[2] <= Charged(q[1])}

ValveIsCovered ==
  (\A x \in Sources : date[x] <= tenantDate) =>
    tenantCount <= Cardinality(ChargedRuns)

-----------------------------------------------------------------------------
\* "A source escalating for the first time this run still gets that one
\* attempt; it starts drawing on the budget from the next check onward"
\* (monitoring.py): one run outside the budgets.
OneFreeAttempt == \A x \in Sources : spare[x] <= 1

=============================================================================
