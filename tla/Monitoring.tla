----------------------------- MODULE Monitoring -----------------------------
(***************************************************************************)
(* The check of a monitored page: app/services/monitoring.py, started by   *)
(* the sweep of app/scheduler/jobs.py (sweep_due_subprocessors).           *)
(*                                                                         *)
(* A check loads its source in a session of its own, mails a staleness     *)
(* alert if one is owed, is let through by the browser budgets or put off, *)
(* fetches the page, and writes what it found over the row: a failure (and *)
(* from a threshold on an alert), a first snapshot, a new reading, nothing *)
(* new, or a change event.  Whatever the row has become since the load,    *)
(* the commit writes the columns the check changed (UnitOfWork).           *)
(*                                                                         *)
(* A point in time is the age it has, in days, up to the length of the     *)
(* window it is compared with.  A page is what its normalized text hashes  *)
(* to.  The budgets are Tier2Budget's matter: here a source that needs the *)
(* browser is let through or put off.  What becomes of the event is        *)
(* Timestamping's and NoticeRelease's.                                     *)
(***************************************************************************)
EXTENDS Naturals, UnitOfWork

CONSTANTS
  Sources,      \* subprocessors rows
  Sweeps,       \* sweeps that may run at the same time
  Pages,        \* what a monitored page can say
  None,         \* NULL
  Threshold,    \* settings.MONITORING_ALERT_FAILURE_THRESHOLD
  Window,       \* settings.MONITORING_ALERT_DEDUPE_DAYS
  StaleAfter,   \* settings.STALENESS_ALERT_DAYS
  MaxFaults     \* bound on crashes, uncaught errors and lost mails

ASSUME SettingsAssumption == /\ Threshold \in Nat \ {0}
                             /\ Window \in Nat \ {0}
                             /\ StaleAfter \in Nat \ {0}
ASSUME BoundsAssumption == MaxFaults \in Nat
ASSUME NoneAssumption == None \notin Nat /\ None \notin Pages /\ None \notin Sources

VARIABLES
  page,        \* what each page says now
  hash,        \* last_content_hash (and text, and HTML)
  format,      \* content_format_version: the current NORMALIZER_VERSION?
  browser,     \* requires_browser
  deferred,    \* tier2_deferred
  failures,    \* consecutive_failure_count, up to Threshold
  failStamp,   \* age of monitoring_alert_sent_at
  staleStamp,  \* age of staleness_alert_sent_at
  read,        \* age of last_checked_at, or else of created_at
  due,         \* next_check_at has come
  enabled,     \* monitoring_enabled
  monitored,   \* the tenant's subscription is one whose pages are checked
  event,       \* the latest change_events row of each source
  pc,          \* where each sweep is
  todo,        \* ids the sweep has listed and not reached
  at,          \* the source in the sweep's session
  seen,        \* that row as the session holds it
  got,         \* the page it fetched
  alerted,     \* age of the last failure alert mailed in this streak
  told,        \* a staleness alert was mailed since the last reading
  faults       \* crashes, uncaught errors and lost mails so far

contentVars == <<hash, format, event>>
healthVars == <<failures, failStamp, staleStamp, read>>
flagVars == <<browser, deferred, due>>
sweepVars == <<pc, todo, at, seen, got>>
watchVars == <<enabled, monitored>>
mailVars == <<alerted, told>>
vars == <<page, watchVars, contentVars, healthVars, flagVars, sweepVars, mailVars, faults>>

Ages == 0 .. Window
Stamp == Ages \cup {None}

Snapshot == [hash : Pages \cup {None}, format : {"older", "current"},
             browser : BOOLEAN, deferred : BOOLEAN, failures : 0 .. Threshold,
             failStamp : Stamp, staleStamp : Stamp]

ASSUME NoSessionAssumption == None \notin Snapshot

TypeOK ==
  /\ page \in [Sources -> Pages]
  /\ hash \in [Sources -> Pages \cup {None}]
  /\ format \in [Sources -> {"older", "current"}]
  /\ event \in [Sources -> [old : Pages, new : Pages] \cup {None}]
  /\ browser \in [Sources -> BOOLEAN]
  /\ deferred \in [Sources -> BOOLEAN]
  /\ due \in [Sources -> BOOLEAN]
  /\ enabled \in [Sources -> BOOLEAN]
  /\ monitored \in BOOLEAN
  /\ failures \in [Sources -> 0 .. Threshold]
  /\ failStamp \in [Sources -> Stamp]
  /\ staleStamp \in [Sources -> Stamp]
  /\ read \in [Sources -> 0 .. StaleAfter]
  /\ pc \in [Sweeps -> {"idle", "checking", "alarming", "mailing", "gated",
                        "fetching", "comparing", "warning", "sending"}]
  /\ todo \in [Sweeps -> SUBSET Sources]
  /\ at \in [Sweeps -> Sources \cup {None}]
  /\ seen \in [Sweeps -> Snapshot \cup {None}]
  /\ got \in [Sweeps -> Pages \cup {None}]
  /\ alerted \in [Sources -> Stamp]
  /\ told \in [Sources -> BOOLEAN]
  /\ faults \in Nat

\* Sources just added, and sources read by an older release.
Init ==
  /\ page \in [Sources -> Pages]
  /\ hash \in [Sources -> Pages \cup {None}]
  /\ format \in [Sources -> {"older", "current"}]
  /\ event = [x \in Sources |-> None]
  /\ browser \in [Sources -> BOOLEAN]
  /\ deferred = [x \in Sources |-> FALSE]
  /\ due = [x \in Sources |-> TRUE]
  /\ enabled = [x \in Sources |-> TRUE]
  /\ monitored = TRUE
  /\ failures = [x \in Sources |-> 0]
  /\ failStamp = [x \in Sources |-> None]
  /\ staleStamp = [x \in Sources |-> None]
  /\ read = [x \in Sources |-> 0]
  /\ pc = [s \in Sweeps |-> "idle"]
  /\ todo = [s \in Sweeps |-> {}]
  /\ at = [s \in Sweeps |-> None]
  /\ seen = [s \in Sweeps |-> None]
  /\ got = [s \in Sweeps |-> None]
  /\ alerted = [x \in Sources |-> None]
  /\ told = [x \in Sources |-> FALSE]
  /\ faults = 0

-----------------------------------------------------------------------------
(* The sweep.                                                              *)

StartSweep(s) ==
  /\ pc[s] = "idle"
  /\ pc' = [pc EXCEPT ![s] = "checking"]
  /\ todo' = [todo EXCEPT ![s] = {x \in Sources : monitored /\ enabled[x] /\ due[x]}]
  /\ UNCHANGED <<page, watchVars, contentVars, healthVars, flagVars, at, seen, got,
                 mailVars, faults>>

EndSweep(s) ==
  /\ pc[s] = "checking"
  /\ todo[s] = {}
  /\ pc' = [pc EXCEPT ![s] = "idle"]
  /\ UNCHANGED <<page, watchVars, contentVars, healthVars, flagVars, todo, at, seen,
                 got, mailVars, faults>>

\* The check is over and its session is closed.
EndCheck(s) ==
  /\ pc' = [pc EXCEPT ![s] = "checking"]
  /\ at' = [at EXCEPT ![s] = None]
  /\ seen' = [seen EXCEPT ![s] = None]
  /\ got' = [got EXCEPT ![s] = None]

\* Mutant of MaySend: no window.
MaySendAlways(stamp) == TRUE

\* _dedupe_and_send: the alert is sent unless one was within the window.
MaySend(stamp) == stamp \in {None, Window}

\* Mutant of IsStale: a failing source has an alert of its own.
IsStaleUnlessFailing(x) == read[x] = StaleAfter /\ failures[x] = 0

IsStale(x) == read[x] = StaleAfter

\* The row is loaded; a source that was switched off meanwhile is skipped (one
\* whose tenant's subscription has lapsed is not).
\* Whether a staleness alert is owed is decided on the loaded row.
LoadSource(s, x) ==
  /\ pc[s] = "checking"
  /\ x \in todo[s]
  /\ todo' = [todo EXCEPT ![s] = @ \ {x}]
  /\ IF enabled[x]
     THEN /\ at' = [at EXCEPT ![s] = x]
          /\ seen' = [seen EXCEPT ![s] =
               [hash |-> hash[x], format |-> format[x], browser |-> browser[x],
                deferred |-> deferred[x], failures |-> failures[x],
                failStamp |-> failStamp[x], staleStamp |-> staleStamp[x]]]
          /\ pc' = [pc EXCEPT ![s] =
               IF IsStale(x) /\ MaySend(staleStamp[x]) THEN "alarming" ELSE "gated"]
     ELSE UNCHANGED <<pc, at, seen>>
  /\ UNCHANGED <<page, watchVars, contentVars, healthVars, flagVars, got, mailVars, faults>>

\* The stamp is committed before the alert is mailed.
StampStaleness(s) ==
  /\ pc[s] = "alarming"
  /\ staleStamp' = [staleStamp EXCEPT ![at[s]] = 0]
  /\ seen' = [seen EXCEPT ![s].staleStamp = 0]
  /\ pc' = [pc EXCEPT ![s] = "mailing"]
  /\ UNCHANGED <<page, watchVars, contentVars, failures, failStamp, read, flagVars,
                 todo, at, got, mailVars, faults>>

\* A mail the provider refuses or never answers is logged and forgotten.
MailStaleness(s) ==
  /\ pc[s] = "mailing"
  /\ pc' = [pc EXCEPT ![s] = "gated"]
  /\ \/ /\ told' = [told EXCEPT ![at[s]] = TRUE]
        /\ UNCHANGED faults
     \/ /\ faults < MaxFaults
        /\ faults' = faults + 1
        /\ UNCHANGED told
  /\ UNCHANGED <<page, watchVars, contentVars, healthVars, flagVars, todo, at, seen,
                 got, alerted>>

-----------------------------------------------------------------------------
(* The browser budgets and the fetch.                                      *)

Defer(s) ==
  /\ pc[s] = "gated"
  /\ seen[s].browser
  /\ due' = [due EXCEPT ![at[s]] = FALSE]
  /\ deferred' = [deferred EXCEPT ![at[s]] = Dirty(seen[s].deferred, TRUE, @)]
  /\ EndCheck(s)
  /\ UNCHANGED <<page, watchVars, contentVars, healthVars, browser, todo, mailVars, faults>>

Proceed(s) ==
  /\ pc[s] = "gated"
  /\ pc' = [pc EXCEPT ![s] = "fetching"]
  /\ UNCHANGED <<page, watchVars, contentVars, healthVars, flagVars, todo, at, seen,
                 got, mailVars, faults>>

\* Plain HTTP was blocked or gave too little and the browser got through:
\* mark_subprocessor_requires_browser commits, and with it the cleared
\* tier2_deferred.
PinBrowser(s) ==
  /\ pc[s] = "fetching"
  /\ ~seen[s].browser
  /\ browser' = [browser EXCEPT ![at[s]] = TRUE]
  /\ deferred' = [deferred EXCEPT ![at[s]] = Dirty(seen[s].deferred, FALSE, @)]
  /\ seen' = [seen EXCEPT ![s].browser = TRUE, ![s].deferred = FALSE]
  /\ UNCHANGED <<page, watchVars, contentVars, healthVars, due, pc, todo, at, got,
                 mailVars, faults>>

\* Mutant of ReadPage: the page of a bot wall is taken for content.
ReadPageUnchecked(s) ==
  /\ pc[s] = "fetching"
  /\ pc' = [pc EXCEPT ![s] = "comparing"]
  /\ got' = [got EXCEPT ![s] = "bot wall"]
  /\ UNCHANGED <<page, watchVars, contentVars, healthVars, flagVars, todo, at, seen,
                 mailVars, faults>>

\* Some tier returned healthy content (content_health_issue).
ReadPage(s) ==
  /\ pc[s] = "fetching"
  /\ pc' = [pc EXCEPT ![s] = "comparing"]
  /\ got' = [got EXCEPT ![s] = page[at[s]]]
  /\ UNCHANGED <<page, watchVars, contentVars, healthVars, flagVars, todo, at, seen,
                 mailVars, faults>>

\* Timeout, error, bot wall or empty content: _record_fetch_failure.
FetchFails(s) ==
  LET n == IF seen[s].failures < Threshold THEN seen[s].failures + 1 ELSE Threshold IN
  /\ pc[s] = "fetching"
  /\ failures' = [failures EXCEPT ![at[s]] = n]
  /\ deferred' = [deferred EXCEPT ![at[s]] = Dirty(seen[s].deferred, FALSE, @)]
  /\ due' = [due EXCEPT ![at[s]] = FALSE]
  /\ IF n = Threshold /\ MaySend(seen[s].failStamp)
     THEN /\ pc' = [pc EXCEPT ![s] = "warning"]
          /\ seen' = [seen EXCEPT ![s].failures = n, ![s].deferred = FALSE]
          /\ UNCHANGED <<at, got>>
     ELSE EndCheck(s)
  /\ UNCHANGED <<page, watchVars, contentVars, failStamp, staleStamp, read, browser,
                 todo, mailVars, faults>>

StampFailure(s) ==
  /\ pc[s] = "warning"
  /\ failStamp' = [failStamp EXCEPT ![at[s]] = 0]
  /\ seen' = [seen EXCEPT ![s].failStamp = 0]
  /\ pc' = [pc EXCEPT ![s] = "sending"]
  /\ UNCHANGED <<page, watchVars, contentVars, failures, staleStamp, read, flagVars,
                 todo, at, got, mailVars, faults>>

\* The alert is as old as the stamp that was committed for it.
MailFailure(s) ==
  /\ pc[s] = "sending"
  /\ alerted' = [alerted EXCEPT ![at[s]] = seen[s].failStamp]
  /\ EndCheck(s)
  /\ UNCHANGED <<page, watchVars, contentVars, healthVars, flagVars, todo, told, faults>>

LoseFailureMail(s) ==
  /\ pc[s] = "sending"
  /\ faults < MaxFaults
  /\ faults' = faults + 1
  /\ EndCheck(s)
  /\ UNCHANGED <<page, watchVars, contentVars, healthVars, flagVars, todo, mailVars>>

-----------------------------------------------------------------------------
(* A page that was read ends the streak of failures and the silence.       *)

\* Mutant of ResetHealth: the dedupe stamps stay.
ResetHealthOnly(s) ==
  /\ failures' = [failures EXCEPT ![at[s]] = Dirty(seen[s].failures, 0, @)]
  /\ UNCHANGED <<failStamp, staleStamp>>

\* _reset_health
ResetHealth(s) ==
  LET x == at[s] IN
  /\ failures' = [failures EXCEPT ![x] = Dirty(seen[s].failures, 0, @)]
  /\ failStamp' = [failStamp EXCEPT ![x] = Dirty(seen[s].failStamp, None, @)]
  /\ staleStamp' = [staleStamp EXCEPT ![x] = Dirty(seen[s].staleStamp, None, @)]

\* What every check that read its page commits.
Succeed(s) ==
  LET x == at[s] IN
  /\ ResetHealth(s)
  /\ read' = [read EXCEPT ![x] = 0]
  /\ due' = [due EXCEPT ![x] = FALSE]
  /\ deferred' = [deferred EXCEPT ![x] = Dirty(seen[s].deferred, FALSE, @)]
  /\ alerted' = [alerted EXCEPT ![x] = None]
  /\ told' = [told EXCEPT ![x] = FALSE]
  /\ EndCheck(s)
  /\ UNCHANGED <<page, watchVars, browser, todo, faults>>

StoreReading(s) ==
  LET x == at[s] IN
  /\ hash' = [hash EXCEPT ![x] = Dirty(seen[s].hash, got[s], @)]
  /\ format' = [format EXCEPT ![x] = Dirty(seen[s].format, "current", @)]

\* Mutant of Rebaseline: whatever was read before.
RebaselineAnyway(s) ==
  /\ pc[s] = "comparing"
  /\ seen[s].hash # None
  /\ StoreReading(s)
  /\ Succeed(s)
  /\ UNCHANGED event

\* First check: there is nothing to compare with.
StoreBaseline(s) ==
  /\ pc[s] = "comparing"
  /\ seen[s].hash = None
  /\ StoreReading(s)
  /\ Succeed(s)
  /\ UNCHANGED event

\* The stored hash is an older normalizer's.
Rebaseline(s) ==
  /\ pc[s] = "comparing"
  /\ seen[s].hash # None
  /\ seen[s].format # "current"
  /\ StoreReading(s)
  /\ Succeed(s)
  /\ UNCHANGED event

FindNoChange(s) ==
  /\ pc[s] = "comparing"
  /\ seen[s].hash = got[s]
  /\ seen[s].format = "current"
  /\ Succeed(s)
  /\ UNCHANGED contentVars

\* The model has been asked about the difference meanwhile; without an
\* answer the event is filed as UNCERTAIN.
RecordChange(s) ==
  LET x == at[s] IN
  /\ pc[s] = "comparing"
  /\ seen[s].hash \notin {None, got[s]}
  /\ seen[s].format = "current"
  /\ event' = [event EXCEPT ![x] = [old |-> seen[s].hash, new |-> got[s]]]
  /\ hash' = [hash EXCEPT ![x] = got[s]]
  /\ Succeed(s)
  /\ UNCHANGED format

-----------------------------------------------------------------------------
(* Faults, the tenant, the page and the clock.                             *)

\* An error that run_subprocessor_check does not catch: the sweep goes on.
CheckRaises(s) ==
  /\ pc[s] \notin {"idle", "checking"}
  /\ faults < MaxFaults
  /\ faults' = faults + 1
  /\ EndCheck(s)
  /\ UNCHANGED <<page, watchVars, contentVars, healthVars, flagVars, todo, mailVars>>

Crash(s) ==
  /\ pc[s] # "idle"
  /\ faults < MaxFaults
  /\ faults' = faults + 1
  /\ pc' = [pc EXCEPT ![s] = "idle"]
  /\ todo' = [todo EXCEPT ![s] = {}]
  /\ at' = [at EXCEPT ![s] = None]
  /\ seen' = [seen EXCEPT ![s] = None]
  /\ got' = [got EXCEPT ![s] = None]
  /\ UNCHANGED <<page, watchVars, contentVars, healthVars, flagVars, mailVars>>

\* toggle_subprocessor; off as well when the tenant moves to the free plan.
Toggle(x) ==
  /\ enabled' = [enabled EXCEPT ![x] = ~@]
  /\ UNCHANGED <<page, monitored, contentVars, healthVars, flagVars, sweepVars, mailVars, faults>>

\* The subscription lapses or is paid again.
ChangeSubscription ==
  /\ monitored' = ~monitored
  /\ UNCHANGED <<page, enabled, contentVars, healthVars, flagVars, sweepVars, mailVars, faults>>

ChangePage(x, p) ==
  /\ page' = [page EXCEPT ![x] = p]
  /\ UNCHANGED <<watchVars, contentVars, healthVars, flagVars, sweepVars, mailVars, faults>>

\* next_check_at comes: the source's interval, half an hour or an hour later.
ComeDue(x) ==
  /\ ~due[x]
  /\ due' = [due EXCEPT ![x] = TRUE]
  /\ UNCHANGED <<page, watchVars, contentVars, healthVars, browser, deferred,
                 sweepVars, mailVars, faults>>

Older(stamp) == IF stamp \in {None, Window} THEN stamp ELSE stamp + 1

\* A day passes, for the stamps in the rows and in the sessions.
Day ==
  /\ failStamp' = [x \in Sources |-> Older(failStamp[x])]
  /\ staleStamp' = [x \in Sources |-> Older(staleStamp[x])]
  /\ read' = [x \in Sources |-> IF read[x] < StaleAfter THEN read[x] + 1 ELSE StaleAfter]
  /\ alerted' = [x \in Sources |-> Older(alerted[x])]
  /\ seen' = [s \in Sweeps |->
       IF seen[s] = None THEN None
       ELSE [seen[s] EXCEPT !.failStamp = Older(@), !.staleStamp = Older(@)]]
  /\ UNCHANGED <<page, watchVars, contentVars, failures, flagVars, pc, todo, at, got,
                 told, faults>>

SweepStep(s) ==
  \/ StartSweep(s)
  \/ \E x \in Sources : LoadSource(s, x)
  \/ StampStaleness(s)
  \/ MailStaleness(s)
  \/ Defer(s)
  \/ Proceed(s)
  \/ PinBrowser(s)
  \/ ReadPage(s)
  \/ FetchFails(s)
  \/ StampFailure(s)
  \/ MailFailure(s)
  \/ StoreBaseline(s)
  \/ Rebaseline(s)
  \/ FindNoChange(s)
  \/ RecordChange(s)
  \/ EndSweep(s)

Next ==
  \/ \E s \in Sweeps : SweepStep(s) \/ LoseFailureMail(s) \/ CheckRaises(s) \/ Crash(s)
  \/ \E x \in Sources : Toggle(x) \/ ComeDue(x)
  \/ \E x \in Sources, p \in Pages : ChangePage(x, p)
  \/ ChangeSubscription
  \/ Day

Spec == Init /\ [][Next]_vars

\* Sweeps are started every three hours and go on, checks come due, days
\* pass, and the daily budgets do not put a source off every time.
Fairness ==
  /\ \A s \in Sweeps : WF_vars(SweepStep(s)) /\ SF_vars(Proceed(s))
  /\ \A x \in Sources : WF_vars(ComeDue(x))
  /\ WF_vars(Day)

FairSpec == Spec /\ Fairness

-----------------------------------------------------------------------------
(* Safety when one sweep runs at a time.  TLC refutes each of these when   *)
(* two overlap: a check that loaded the row earlier writes, or leaves,     *)
(* what it saw then.                                                       *)

\* "A successful check clears the failure streak, the staleness clock, and
\* both alert dedupe stamps - so a later, unrelated occurrence of either
\* alarm fires right away" (_reset_health).
RecoveryClearsStamps ==
  \A x \in Sources : /\ failures[x] = 0 => failStamp[x] = None
                     /\ read[x] < StaleAfter => staleStamp[x] = None

\* No reading replaces another one of the same normalizer without a change
\* event that leads from the one to the other, and no event says anything
\* else.
ChangesAreRecorded ==
  \A x \in Sources :
    /\ hash'[x] # hash[x] /\ hash[x] # None /\ format[x] = "current"
       => event'[x] = [old |-> hash[x], new |-> hash'[x]]
    /\ event'[x] # event[x]
       => event'[x] = [old |-> hash[x], new |-> hash'[x]]

EventsRecordChanges == [][ChangesAreRecorded]_vars

\* In one streak of failures the owner is mailed once per window, also when
\* mails are lost and the process dies.
AlertsSpaced ==
  [][\A s \in Sweeps : MailFailure(s) => alerted[at[s]] \in {None, Window}]_vars

-----------------------------------------------------------------------------
(* Liveness: no source goes silent.                                        *)

Watched(x) == monitored /\ enabled[x]

\* "A long budget deferral has zero recorded failures and would otherwise be
\* completely invisible" (_check_staleness): a source that is not read is
\* reported, whatever the reason, and so is a streak of failures that has reached
\* the threshold, unless it ends.
TroubleIsTold ==
  \A x \in Sources :
    /\ Watched(x) /\ read[x] = StaleAfter
         ~> told[x] \/ read[x] < StaleAfter \/ ~Watched(x)
    /\ Watched(x) /\ failures[x] = Threshold
         ~> alerted[x] # None \/ failures[x] = 0 \/ ~Watched(x)

=============================================================================
