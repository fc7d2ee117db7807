----------------------------- MODULE SweepCycle -----------------------------
(***************************************************************************)
(* The sweep cycle (app/scheduler/jobs.py, run_sweep_cycle), what starts   *)
(* it (app/main.py: the scheduler and /internal/sweep), the heartbeat it   *)
(* leaves (app/services/system_state.py, app/db/models/system_state.py)    *)
(* and the probe that reads it (/healthz/monitoring).                      *)
(*                                                                         *)
(* The four passes of a cycle have modules of their own (Plans,            *)
(* Timestamping, Monitoring, Directory); here a pass is a step, except     *)
(* that the pages of one tenant are followed through the first and the     *)
(* third.  The scheduler never runs two of its cycles at once, but a       *)
(* triggered one may run beside them.  sweep.last_started_at is not        *)
(* modelled: nothing reads it.                                             *)
(*                                                                         *)
(* Time goes by in units; a pass may take any number of them, the records  *)
(* of a cycle take none.                                                   *)
(***************************************************************************)
EXTENDS Naturals, UnitOfWork

CONSTANTS
  Scheduled,  \* the cycles of the scheduler
  Triggers,   \* requests to /internal/sweep
  None,       \* NULL, or no row
  Operator,   \* the tenant's email is in settings.admin_email_set
  Interval,   \* hours between two ticks
  MaxAge,     \* settings.SWEEP_MAX_AGE_HOURS
  Grace,      \* settings.SWEEP_BOOT_GRACE_MINUTES
  MaxRun,     \* bound on the length of a cycle
  MaxFaults   \* bound on crashes, broken cycles, failed checks and lost records

ASSUME TimesAssumption ==
  /\ Interval \in Nat \ {0} /\ MaxAge \in Nat /\ Grace \in Nat \ {0}
  /\ MaxRun \in Nat /\ MaxFaults \in Nat
ASSUME NoneAssumption == None \notin Nat /\ None \notin BOOLEAN /\ None \notin {"clean", "broken"}
ASSUME CyclesAssumption == Scheduled \notin Triggers /\ Operator \in BOOLEAN

VARIABLES
  up,         \* the process runs
  timer,      \* time since the scheduler was started or last fired
  booted,     \* time since _BOOT_AT, up to Grace
  completed,  \* age of sweep.last_completed_at, up to MaxAge + 1
  error,      \* sweep.last_error: no row, or whether its value is an error
  pc,         \* where each cycle is
  elapsed,    \* how long it has been running
  row,        \* the row that the session of its record has loaded
  listed,     \* its check pass has the tenant's pages on its list
  status,     \* the tenant's subscription_status
  trial,      \* its trial_ends_at: none, ahead or past
  due,        \* its pages are due
  worked,     \* age of the last cycle whose four passes came to their end
  alone,      \* no other cycle has run beside this one
  ended,      \* how the last cycle ended, if it was alone and left its records
  faults      \* faults so far

processVars == <<up, timer, booted>>
stateVars == <<completed, error>>
tenantVars == <<status, trial, due>>
cycleVars == <<pc, elapsed, row, listed, alone>>
vars == <<processVars, stateVars, tenantVars, cycleVars, worked, ended, faults>>

Cycles == Triggers \cup {Scheduled}
Passes == {"trials", "stamps", "list", "check", "vendors"}
Records == {"complete", "clear", "break"}
Ages == (0 .. MaxAge + 1) \cup {None}

TypeOK ==
  /\ up \in BOOLEAN
  /\ timer \in 0 .. Interval
  /\ booted \in 0 .. Grace
  /\ completed \in Ages
  /\ error \in BOOLEAN \cup {None}
  /\ pc \in [Cycles -> Passes \cup Records \cup {"idle"}]
  /\ elapsed \in [Cycles -> 0 .. MaxRun]
  /\ row \in [Cycles -> {"unread", "absent", "clean", "broken"}]
  /\ listed \in [Cycles -> BOOLEAN]
  /\ status \in {"trialing", "active", "past_due", "free"}
  /\ trial \in {"none", "ahead", "past"}
  /\ due \in BOOLEAN
  /\ worked \in Ages
  /\ alone \in [Cycles -> BOOLEAN]
  /\ ended \in {"clean", "broken", None}
  /\ faults \in 0 .. MaxFaults

\* The first deployment.
Init ==
  /\ up = TRUE
  /\ timer = 0
  /\ booted = 0
  /\ completed = None
  /\ error = None
  /\ pc = [c \in Cycles |-> "idle"]
  /\ elapsed = [c \in Cycles |-> 0]
  /\ row = [c \in Cycles |-> "unread"]
  /\ listed = [c \in Cycles |-> FALSE]
  /\ status = "trialing"
  /\ trial \in {"none", "ahead"}
  /\ due = TRUE
  /\ worked = None
  /\ alone = [c \in Cycles |-> FALSE]
  /\ ended = None
  /\ faults = 0

-----------------------------------------------------------------------------
(* What starts a cycle.                                                    *)

Running == {c \in Cycles : pc[c] # "idle"}

Begin(c) ==
  /\ pc' = [pc EXCEPT ![c] = "trials"]
  /\ alone' = [d \in Cycles |-> d = c /\ Running = {}]
  /\ UNCHANGED <<elapsed, row, listed>>

\* The interval is over: a cycle, or none if the last one is still running
\* (max_instances = 1).
Tick ==
  /\ up
  /\ timer = Interval
  /\ timer' = 0
  /\ IF Scheduled \in Running THEN UNCHANGED cycleVars ELSE Begin(Scheduled)
  /\ UNCHANGED <<up, booted, stateVars, tenantVars, worked, ended, faults>>

\* trigger_sweep
Trigger(c) ==
  /\ up
  /\ c \in Triggers
  /\ pc[c] = "idle"
  /\ Begin(c)
  /\ UNCHANGED <<processVars, stateVars, tenantVars, worked, ended, faults>>

-----------------------------------------------------------------------------
(* The passes.                                                             *)

Move(c, from, to) == pc[c] = from /\ pc' = [pc EXCEPT ![c] = to]

Lapsed == status = "trialing" /\ trial = "past"

\* Mutant of SettleTrials: nobody is moved.
SettleTrialsNot(c) ==
  /\ Move(c, "trials", "stamps")
  /\ UNCHANGED <<processVars, stateVars, tenantVars, elapsed, row, listed, alone, worked,
                 ended, faults>>

\* downgrade_expired_trials
SettleTrials(c) ==
  /\ Move(c, "trials", "stamps")
  /\ status' = IF Lapsed /\ ~Operator THEN "free" ELSE status
  /\ UNCHANGED <<processVars, stateVars, trial, due, elapsed, row, listed,
                 alone, worked, ended, faults>>

\* run_timestamp_retry_pass
RetryStamps(c) ==
  /\ Move(c, "stamps", "list")
  /\ UNCHANGED <<processVars, stateVars, tenantVars, elapsed, row, listed, alone, worked,
                 ended, faults>>

\* MONITORED_STATUSES
Monitored == {"active", "trialing", "free"}

\* sweep_due_subprocessors selects the pages that are due, unless a payment is
\* overdue; those of a trial that is over wait for the tick that ends it.
ListDue(c) ==
  /\ Move(c, "list", "check")
  /\ listed' = [listed EXCEPT ![c] = due /\ status \in Monitored /\ ~Lapsed]
  /\ UNCHANGED <<processVars, stateVars, tenantVars, elapsed, row, alone, worked, ended,
                 faults>>

\* run_subprocessor_check dates the next check.
CheckPages(c) ==
  /\ Move(c, "check", "vendors")
  /\ due' = (due /\ ~listed[c])
  /\ listed' = [listed EXCEPT ![c] = FALSE]
  /\ UNCHANGED <<processVars, stateVars, status, trial, elapsed, row, alone,
                 worked, ended, faults>>

\* It raises: the error is logged, the page stays due, and the pass goes on.
CheckFails(c) ==
  /\ listed[c]
  /\ faults < MaxFaults
  /\ Move(c, "check", "vendors")
  /\ faults' = faults + 1
  /\ listed' = [listed EXCEPT ![c] = FALSE]
  /\ UNCHANGED <<processVars, stateVars, tenantVars, elapsed, row, alone, worked, ended>>

\* sweep_due_vendors
SweepVendors(c) ==
  /\ Move(c, "vendors", "complete")
  /\ worked' = 0
  /\ UNCHANGED <<processVars, stateVars, tenantVars, elapsed, row, listed, alone, ended,
                 faults>>

\* Mutant of Break: a broken cycle leaves its heartbeat all the same.
BreakAndComplete(c) ==
  /\ pc[c] \in Passes
  /\ faults < MaxFaults
  /\ faults' = faults + 1
  /\ pc' = [pc EXCEPT ![c] = "complete"]
  /\ listed' = [listed EXCEPT ![c] = FALSE]
  /\ UNCHANGED <<processVars, stateVars, tenantVars, elapsed, row, alone, worked, ended>>

\* A pass raises: the database cannot be reached while it lists its rows.
Break(c) ==
  /\ pc[c] \in Passes
  /\ faults < MaxFaults
  /\ faults' = faults + 1
  /\ pc' = [pc EXCEPT ![c] = "break"]
  /\ listed' = [listed EXCEPT ![c] = FALSE]
  /\ UNCHANGED <<processVars, stateVars, tenantVars, elapsed, row, alone, worked, ended>>

-----------------------------------------------------------------------------
(* The records: record_state reads the row of its key, then writes it.     *)

Stored(e) == CASE e = None -> "absent" [] e = FALSE -> "clean" [] e = TRUE -> "broken"

ReadRow(c) ==
  /\ pc[c] \in Records
  /\ row[c] = "unread"
  /\ row' = [row EXCEPT ![c] =
       IF pc[c] = "complete" THEN IF completed = None THEN "absent" ELSE "clean"
       ELSE Stored(error)]
  /\ UNCHANGED <<processVars, stateVars, tenantVars, pc, elapsed, listed, alone, worked,
                 ended, faults>>

\* The record is written or lost, and the cycle goes on; after its last record
\* it is over.
Proceed(c, outcome) ==
  /\ row' = [row EXCEPT ![c] = "unread"]
  /\ pc' = [pc EXCEPT ![c] = IF @ = "complete" THEN "clear" ELSE "idle"]
  /\ IF pc[c] = "complete" THEN UNCHANGED <<elapsed, alone, ended>>
     ELSE /\ elapsed' = [elapsed EXCEPT ![c] = 0]
          /\ alone' = [alone EXCEPT ![c] = FALSE]
          /\ ended' = IF alone[c] THEN outcome ELSE None
  /\ UNCHANGED <<processVars, tenantVars, listed, worked>>

\* Two cycles that both find no row both insert it: one of them fails.
Collides(c) ==
  row[c] = "absent" /\ IF pc[c] = "complete" THEN completed # None ELSE error # None

\* Mutant of WriteCompleted: the heartbeat is dated by the start of the cycle.
WriteCompletedAsStarted(c) ==
  /\ pc[c] = "complete"
  /\ row[c] # "unread"
  /\ ~Collides(c)
  /\ completed' = elapsed[c]
  /\ Proceed(c, None)
  /\ UNCHANGED <<error, faults>>

WriteCompleted(c) ==
  /\ pc[c] = "complete"
  /\ row[c] # "unread"
  /\ ~Collides(c)
  /\ completed' = 0
  /\ Proceed(c, None)
  /\ UNCHANGED <<error, faults>>

\* Mutant of WriteError: an error is never cleared.
WriteErrorOnly(c) ==
  /\ pc[c] \in {"clear", "break"}
  /\ row[c] # "unread"
  /\ ~Collides(c)
  /\ error' = (error = TRUE \/ pc[c] = "break")
  /\ Proceed(c, IF pc[c] = "break" THEN "broken" ELSE "clean")
  /\ UNCHANGED <<completed, faults>>

\* The text of an error may be the one that was loaded, or another one.
WriteError(c) ==
  /\ pc[c] \in {"clear", "break"}
  /\ row[c] # "unread"
  /\ ~Collides(c)
  /\ \/ error' = IF row[c] = "absent" THEN pc[c] = "break"
                 ELSE Dirty(row[c] = "broken", pc[c] = "break", error)
     \/ pc[c] = "break" /\ error' = TRUE
  /\ Proceed(c, IF pc[c] = "break" THEN "broken" ELSE "clean")
  /\ UNCHANGED <<completed, faults>>

\* record_state swallows the failure of a record.
LoseRecord(c) ==
  /\ pc[c] \in Records
  /\ row[c] # "unread"
  /\ \/ Collides(c) /\ UNCHANGED faults
     \/ faults < MaxFaults /\ faults' = faults + 1
  /\ Proceed(c, None)
  /\ UNCHANGED stateVars

-----------------------------------------------------------------------------
(* The process, the clock and the tenant.                                  *)

\* The process dies or is spun down.
Stop ==
  /\ up
  /\ faults < MaxFaults
  /\ faults' = faults + 1
  /\ up' = FALSE
  /\ pc' = [c \in Cycles |-> "idle"]
  /\ elapsed' = [c \in Cycles |-> 0]
  /\ row' = [c \in Cycles |-> "unread"]
  /\ listed' = [c \in Cycles |-> FALSE]
  /\ alone' = [c \in Cycles |-> FALSE]
  /\ ended' = None
  /\ UNCHANGED <<timer, booted, stateVars, tenantVars, worked>>

\* lifespan: the scheduler's first tick is an interval away.
Start ==
  /\ ~up
  /\ up' = TRUE
  /\ timer' = 0
  /\ booted' = 0
  /\ UNCHANGED <<stateVars, tenantVars, cycleVars, worked, ended, faults>>

Older(age) == IF age \in {None, MaxAge + 1} THEN age ELSE age + 1

PassTime ==
  /\ up => timer < Interval
  /\ \A c \in Running : pc[c] \in Passes /\ elapsed[c] < MaxRun
  /\ timer' = IF up THEN timer + 1 ELSE timer
  /\ booted' = IF booted < Grace THEN booted + 1 ELSE booted
  /\ completed' = Older(completed)
  /\ worked' = Older(worked)
  /\ elapsed' = [c \in Cycles |-> IF c \in Running THEN elapsed[c] + 1 ELSE 0]
  /\ UNCHANGED <<up, error, tenantVars, pc, row, listed, alone, ended, faults>>

EndTrial ==
  /\ trial = "ahead"
  /\ trial' = "past"
  /\ UNCHANGED <<processVars, stateVars, status, due, cycleVars, worked, ended,
                 faults>>

\* A payment, one that fails, and the end of the subscription: what Paddle
\* reports last (see Plans).
Subscribe(new) ==
  /\ new # status
  /\ status' = new
  /\ UNCHANGED <<processVars, stateVars, trial, due, cycleVars, worked, ended,
                 faults>>

ComeDue ==
  /\ ~due
  /\ due' = TRUE
  /\ UNCHANGED <<processVars, stateVars, status, trial, cycleVars, worked, ended,
                 faults>>

CycleStep(c) ==
  \/ SettleTrials(c)
  \/ RetryStamps(c)
  \/ ListDue(c)
  \/ CheckPages(c)
  \/ SweepVendors(c)
  \/ ReadRow(c)
  \/ WriteCompleted(c)
  \/ WriteError(c)
  \/ LoseRecord(c)

Next ==
  \/ Tick
  \/ \E c \in Triggers : Trigger(c)
  \/ \E c \in Cycles : CycleStep(c) \/ CheckFails(c) \/ Break(c)
  \/ Stop
  \/ Start
  \/ PassTime
  \/ EndTrial
  \/ \E new \in {"active", "past_due", "free"} : Subscribe(new)
  \/ ComeDue

Spec == Init /\ [][Next]_vars

\* Time passes, the scheduler fires, a cycle goes on, and a process that was
\* stopped is started again (Render restarts it, a request wakes it).
Fairness ==
  /\ WF_vars(PassTime)
  /\ WF_vars(Tick)
  /\ WF_vars(Start)
  /\ \A c \in Cycles : WF_vars(CycleStep(c))

FairSpec == Spec /\ Fairness

-----------------------------------------------------------------------------
(* The probe.                                                              *)

Booting == booted < Grace

\* healthz_monitoring
Degraded == IF completed = None THEN ~Booting ELSE completed > MaxAge

-----------------------------------------------------------------------------

\* "absence of a recent write is the signal" (system_state): if the probe of a
\* process that is past its boot is green, a cycle has come to the end of its
\* four passes within MaxAge, whatever else broke, overlapped or was lost.
GreenMeansWorked ==
  up /\ ~Booting /\ ~Degraded => worked # None /\ worked <= MaxAge

\* "long enough that one slow cycle is not an alarm" (SWEEP_MAX_AGE_HOURS): while
\* nothing fails and a cycle takes no longer than MaxAge - Interval, the probe is
\* green from the first completed cycle on.
NoFalseAlarm ==
  faults = 0 /\ completed # None /\ Interval + MaxRun <= MaxAge => ~Degraded

\* "a stale error never lingers" (run_sweep_cycle): after a cycle that was alone
\* and kept its records, last_error says how it ended.
LastErrorIsCurrent ==
  Running = {} => /\ ended = "clean" => error = FALSE
                  /\ ended = "broken" => error = TRUE

\* A page that is due is checked some time, or its tenant owes a payment: also
\* when the trial runs out, the plan changes between the listing and the check,
\* cycles overlap, or a check raises; except that of the operator.
DueIsChecked == due /\ ~Operator ~> ~due \/ status = "past_due"

\* "The operator's own tenant is the showcase trust page": it is not moved to the
\* free plan, so that its pages stay on (downgrade_expired_trials).
OperatorIsChecked == due /\ Operator ~> ~due \/ status = "past_due"

\* "A fresh deploy has no completed sweep yet and must not fail its own probe on
\* the way up" (SWEEP_BOOT_GRACE_MINUTES).
FreshDeployIsGreen == faults = 0 /\ up => ~Degraded

=============================================================================
