---------------------------- MODULE Timestamping ----------------------------
(***************************************************************************)
(* Independent RFC 3161 timestamps of change events and of the first       *)
(* capture (the baseline) of a source: app/services/tsa_retry.py, the      *)
(* captures of app/services/monitoring.py that make a row due, the manual  *)
(* retry of app/routers/dashboard.py and the deletion of a source.         *)
(*                                                                         *)
(* A sweep (app/scheduler/jobs.py, run_sweep_cycle) first gives every due  *)
(* row one attempt, then checks the sources that are due.  Every row is    *)
(* loaded in a session of its own, the TSA or the page is awaited, and the *)
(* outcome is written over whatever the row has become meanwhile.  Sweeps  *)
(* may overlap: the in-process scheduler runs one at a time                *)
(* (max_instances=1), but POST /internal/sweep and run_sweep.py start      *)
(* others.                                                                 *)
(*                                                                         *)
(* Error texts, authority URLs and clock times are left out.  A token is   *)
(* the digest it covers and the stamp (authority and time) the TSA put on  *)
(* it.                                                                     *)
(***************************************************************************)
EXTENDS Naturals, UnitOfWork

CONSTANTS
  Events,        \* change_events rows
  Sources,       \* subprocessors rows
  SourceOf,      \* the source each event belongs to
  Sweeps,        \* sweeps that may run at the same time
  Tabs,          \* dashboard requests that may run at the same time
  Digests,       \* SHA-256 digests of captured pages
  Stamps,        \* what a TSA can put on a digest: authority and time
  NoDigest, NoToken, Nothing,
  MaxAttempts,   \* settings.TSA_MAX_ATTEMPTS
  MaxFaults,     \* bound on crashes and uncounted errors
  MaxRetries     \* bound on manual retries

Rows == Events \cup Sources

ASSUME MaxAttemptsAssumption == MaxAttempts \in Nat \ {0}
ASSUME BoundsAssumption == MaxFaults \in Nat /\ MaxRetries \in Nat
ASSUME RowsAssumption == /\ Events \cap Sources = {}
                         /\ SourceOf \in [Events -> Sources]
                         /\ Nothing \notin Rows
ASSUME ValuesAssumption == /\ NoDigest \notin Digests
                           /\ NoToken \notin [digest : Digests, stamp : Stamps]

\* A row that is not there yet, or no longer, has a status outside the enum.
TimestampStatus == {"pending", "retrying", "timestamped", "failed",
                    "not_available_pre_tsa"}
Due == {"pending", "retrying"}
Stored == TimestampStatus

VARIABLES
  status,    \* timestamp_status, baseline_timestamp_status
  digest,    \* new_raw_html_hash, baseline_raw_html_hash
  token,     \* tsa_token, baseline_tsa_token
  attempts,  \* tsa_attempt_count, baseline_tsa_attempt_count
  captured,  \* per source: last_content_hash is not NULL
  pc,        \* where each sweep is
  todo,      \* ids the sweep has listed and not reached
  at,        \* the row in the sweep's session
  seen,      \* that row as it was loaded
  tab,       \* the event in a retry request's session
  tabSeen,   \* its tsa_attempt_count as it was loaded
  faults,    \* crashes and uncounted errors so far
  retries    \* manual retries so far

rowVars == <<status, digest, token, attempts, captured>>
sweepVars == <<pc, todo, at, seen>>
tabVars == <<tab, tabSeen, retries>>
vars == <<rowVars, sweepVars, tabVars, faults>>

Snapshot == [status : TimestampStatus, digest : Digests \cup {NoDigest},
             attempts : Nat, captured : BOOLEAN]

TypeOK ==
  /\ status \in [Rows -> TimestampStatus \cup {"absent", "deleted"}]
  /\ digest \in [Rows -> Digests \cup {NoDigest}]
  /\ token \in [Rows -> [digest : Digests, stamp : Stamps] \cup {NoToken}]
  /\ attempts \in [Rows -> Nat]
  /\ captured \in [Sources -> BOOLEAN]
  /\ pc \in [Sweeps -> {"idle", "stamping", "requesting", "checking", "fetching"}]
  /\ todo \in [Sweeps -> SUBSET Rows]
  /\ at \in [Sweeps -> Rows \cup {Nothing}]
  /\ seen \in [Sweeps -> Snapshot \cup {Nothing}]
  /\ tab \in [Tabs -> Events \cup {Nothing}]
  /\ tabSeen \in [Tabs -> Nat]
  /\ faults \in Nat
  /\ retries \in Nat

-----------------------------------------------------------------------------
(* Rows written before timestamping shipped got not_available_pre_tsa from *)
(* the migration; a source starts there too, until its first check.        *)
Init ==
  /\ status \in [Rows -> {"absent", "not_available_pre_tsa"}]
  /\ digest \in [Rows -> Digests \cup {NoDigest}]
  /\ captured \in [Sources -> BOOLEAN]
  /\ \A r \in Rows : status[r] = "absent" => digest[r] = NoDigest
  /\ \A x \in Sources : /\ digest[x] = NoDigest
                        /\ captured[x] => status[x] # "absent"
  /\ \A e \in Events : status[e] # "absent" => captured[SourceOf[e]]
  /\ token = [r \in Rows |-> NoToken]
  /\ attempts = [r \in Rows |-> 0]
  /\ pc = [s \in Sweeps |-> "idle"]
  /\ todo = [s \in Sweeps |-> {}]
  /\ at = [s \in Sweeps |-> Nothing]
  /\ seen = [s \in Sweeps |-> Nothing]
  /\ tab = [t \in Tabs |-> Nothing]
  /\ tabSeen = [t \in Tabs |-> 0]
  /\ faults = 0
  /\ retries = 0

-----------------------------------------------------------------------------
(* The stamping pass of a sweep.                                           *)

\* stamp_pending_events and stamp_pending_baselines list the due rows.
Selected == {r \in Rows : status[r] \in Due}

StartPass(s) ==
  /\ pc[s] = "idle"
  /\ pc' = [pc EXCEPT ![s] = "stamping"]
  /\ todo' = [todo EXCEPT ![s] = Selected]
  /\ UNCHANGED <<rowVars, at, seen, tabVars, faults>>

\* Mutant of MayRequest: what another sweep has settled since the listing is
\* filed as pre-TSA.
MayRequestOnlyDue(r) == status[r] \in Due /\ digest[r] # NoDigest

\* stamp_change_event's trip-wires.
MayRequest(r) ==
  status[r] \in Stored \ {"not_available_pre_tsa"} /\ digest[r] # NoDigest

\* The row's own session.  A row that vanished is skipped, a pre-TSA row is
\* refused by the trip-wire, one without a digest becomes pre-TSA itself;
\* any other is kept as it was loaded while the TSA is awaited.
LoadRow(s, r) ==
  /\ pc[s] = "stamping"
  /\ r \in todo[s]
  /\ r \in Sources => todo[s] \cap Events = {}
  /\ todo' = [todo EXCEPT ![s] = @ \ {r}]
  /\ IF MayRequest(r)
     THEN /\ pc' = [pc EXCEPT ![s] = "requesting"]
          /\ at' = [at EXCEPT ![s] = r]
          /\ seen' = [seen EXCEPT ![s] =
               [status |-> status[r], digest |-> digest[r],
                attempts |-> attempts[r], captured |-> TRUE]]
          /\ UNCHANGED status
     ELSE /\ status' = [status EXCEPT ![r] =
               IF @ \in Stored THEN "not_available_pre_tsa" ELSE @]
          /\ UNCHANGED <<pc, at, seen>>
  /\ UNCHANGED <<digest, token, attempts, captured, tabVars, faults>>

\* Mutant of WriteAttempt: the counter is not incremented.
WriteAttemptUncounted(s, newStatus, newToken) ==
  LET r == at[s] IN
  /\ status' = [status EXCEPT ![r] =
       IF @ \in Stored THEN Dirty(seen[s].status, newStatus, @) ELSE @]
  /\ token' = [token EXCEPT ![r] = IF status[r] \in Stored THEN newToken ELSE @]
  /\ UNCHANGED attempts

\* What one attempt writes: the status only if it differs from the loaded
\* one, the counter and the token always.
WriteAttempt(s, newStatus, newToken) ==
  LET r == at[s] IN
  /\ status' = [status EXCEPT ![r] =
       IF @ \in Stored THEN Dirty(seen[s].status, newStatus, @) ELSE @]
  /\ attempts' = [attempts EXCEPT ![r] =
       IF status[r] \in Stored THEN seen[s].attempts + 1 ELSE @]
  /\ token' = [token EXCEPT ![r] = IF status[r] \in Stored THEN newToken ELSE @]

Leave(s, where) ==
  /\ pc' = [pc EXCEPT ![s] = where]
  /\ at' = [at EXCEPT ![s] = Nothing]
  /\ seen' = [seen EXCEPT ![s] = Nothing]

\* The primary or the fallback authority grants a token over the digest that
\* was loaded.
StampSucceeds(s, t) ==
  /\ pc[s] = "requesting"
  /\ WriteAttempt(s, "timestamped", [digest |-> seen[s].digest, stamp |-> t])
  /\ Leave(s, "stamping")
  /\ UNCHANGED <<digest, captured, todo, tabVars, faults>>

AfterFailure(n) == IF n + 1 >= MaxAttempts THEN "failed" ELSE "retrying"

\* Mutant of StampFails: a failed attempt clears the token.
StampFailsClearing(s) ==
  /\ pc[s] = "requesting"
  /\ WriteAttempt(s, AfterFailure(seen[s].attempts), NoToken)
  /\ Leave(s, "stamping")
  /\ UNCHANGED <<digest, captured, todo, tabVars, faults>>

\* Every configured authority failed this attempt.
StampFails(s) ==
  /\ pc[s] = "requesting"
  /\ WriteAttempt(s, AfterFailure(seen[s].attempts), token[at[s]])
  /\ Leave(s, "stamping")
  /\ UNCHANGED <<digest, captured, todo, tabVars, faults>>

\* An error the attempt does not expect (openssl timing out, a refused
\* commit) is logged by the pass and leaves the row alone.
StampAborts(s) ==
  /\ pc[s] = "requesting"
  /\ faults < MaxFaults
  /\ faults' = faults + 1
  /\ Leave(s, "stamping")
  /\ UNCHANGED <<rowVars, todo, tabVars>>

-----------------------------------------------------------------------------
(* The checks that follow in the same sweep, as far as they create rows to *)
(* stamp.  Which sources are due is left open.                             *)

StartChecks(s) ==
  /\ pc[s] = "stamping"
  /\ todo[s] = {}
  /\ pc' = [pc EXCEPT ![s] = "checking"]
  /\ \E due \in SUBSET {x \in Sources : status[x] \in Stored} :
       todo' = [todo EXCEPT ![s] = due]
  /\ UNCHANGED <<rowVars, at, seen, tabVars, faults>>

LoadSource(s, x) ==
  /\ pc[s] = "checking"
  /\ x \in todo[s]
  /\ todo' = [todo EXCEPT ![s] = @ \ {x}]
  /\ IF status[x] \in Stored
     THEN /\ pc' = [pc EXCEPT ![s] = "fetching"]
          /\ at' = [at EXCEPT ![s] = x]
          /\ seen' = [seen EXCEPT ![s] =
               [status |-> status[x], digest |-> digest[x],
                attempts |-> attempts[x], captured |-> captured[x]]]
     ELSE UNCHANGED <<pc, at, seen>>
  /\ UNCHANGED <<rowVars, tabVars, faults>>

\* Mutant of CaptureBaseline: any check replaces the baseline.
CaptureBaselineAgain(s, d) ==
  LET x == at[s] IN
  /\ pc[s] = "fetching"
  /\ status[x] \in Stored
  /\ digest' = [digest EXCEPT ![x] = d]
  /\ status' = [status EXCEPT ![x] = IF seen[s].captured THEN @ ELSE "pending"]
  /\ captured' = [captured EXCEPT ![x] = TRUE]
  /\ Leave(s, "checking")
  /\ UNCHANGED <<token, attempts, todo, tabVars, faults>>

\* First check of a source: the page is stored as the baseline.
CaptureBaseline(s, d) ==
  LET x == at[s] IN
  /\ pc[s] = "fetching"
  /\ ~seen[s].captured
  /\ status[x] \in Stored
  /\ digest' = [digest EXCEPT ![x] = Dirty(seen[s].digest, d, @)]
  /\ status' = [status EXCEPT ![x] = Dirty(seen[s].status, "pending", @)]
  /\ captured' = [captured EXCEPT ![x] = TRUE]
  /\ Leave(s, "checking")
  /\ UNCHANGED <<token, attempts, todo, tabVars, faults>>

\* A later check found the page changed: a new change event, due at once.
CaptureEvent(s, e, d) ==
  /\ pc[s] = "fetching"
  /\ seen[s].captured
  /\ SourceOf[e] = at[s]
  /\ status[e] = "absent"
  /\ status[at[s]] \in Stored
  /\ status' = [status EXCEPT ![e] = "pending"]
  /\ digest' = [digest EXCEPT ![e] = d]
  /\ Leave(s, "checking")
  /\ UNCHANGED <<token, attempts, captured, todo, tabVars, faults>>

\* No change, an unreachable page, or a source deleted meanwhile.
CheckEndsEmpty(s) ==
  /\ pc[s] = "fetching"
  /\ Leave(s, "checking")
  /\ UNCHANGED <<rowVars, todo, tabVars, faults>>

EndSweep(s) ==
  /\ pc[s] = "checking"
  /\ todo[s] = {}
  /\ pc' = [pc EXCEPT ![s] = "idle"]
  /\ UNCHANGED <<rowVars, todo, at, seen, tabVars, faults>>

\* The process dies: the sweep is forgotten, the rows stay.
Crash(s) ==
  /\ pc[s] # "idle"
  /\ faults < MaxFaults
  /\ faults' = faults + 1
  /\ Leave(s, "idle")
  /\ todo' = [todo EXCEPT ![s] = {}]
  /\ UNCHANGED <<rowVars, tabVars>>

-----------------------------------------------------------------------------
(* The tenant's side.                                                      *)

AddSource(x) ==
  /\ status[x] = "absent"
  /\ status' = [status EXCEPT ![x] = "not_available_pre_tsa"]
  /\ UNCHANGED <<digest, token, attempts, captured, sweepVars, tabVars, faults>>

\* change_events rows keep their source from being deleted: the ORM would
\* have to null a NOT NULL column.
DeleteSource(x) ==
  /\ status[x] \in Stored
  /\ \A e \in Events : SourceOf[e] = x => status[e] = "absent"
  /\ status' = [status EXCEPT ![x] = "deleted"]
  /\ UNCHANGED <<digest, token, attempts, captured, sweepVars, tabVars, faults>>

\* Mutant of OpenRetry: any event may be retried.
OpenRetryAny(t, e) ==
  /\ tab[t] = Nothing
  /\ status[e] \in Stored
  /\ retries < MaxRetries
  /\ retries' = retries + 1
  /\ tab' = [tab EXCEPT ![t] = e]
  /\ tabSeen' = [tabSeen EXCEPT ![t] = attempts[e]]
  /\ UNCHANGED <<rowVars, sweepVars, faults>>

\* POST .../retry-timestamp loads the event and goes on only if it failed.
OpenRetry(t, e) ==
  /\ tab[t] = Nothing
  /\ status[e] = "failed"
  /\ retries < MaxRetries
  /\ retries' = retries + 1
  /\ tab' = [tab EXCEPT ![t] = e]
  /\ tabSeen' = [tabSeen EXCEPT ![t] = attempts[e]]
  /\ UNCHANGED <<rowVars, sweepVars, faults>>

\* Mutant of CommitRetry: the attempts are not handed back.
CommitRetryKeepsCount(t) ==
  LET e == tab[t] IN
  /\ e # Nothing
  /\ status' = [status EXCEPT ![e] = "retrying"]
  /\ tab' = [tab EXCEPT ![t] = Nothing]
  /\ UNCHANGED <<digest, token, attempts, captured, sweepVars, tabSeen, retries, faults>>

CommitRetry(t) ==
  LET e == tab[t] IN
  /\ e # Nothing
  /\ status' = [status EXCEPT ![e] = "retrying"]
  /\ attempts' = [attempts EXCEPT ![e] = Dirty(tabSeen[t], 0, @)]
  /\ tab' = [tab EXCEPT ![t] = Nothing]
  /\ UNCHANGED <<digest, token, captured, sweepVars, tabSeen, retries, faults>>

-----------------------------------------------------------------------------
SweepStep(s) ==
  \/ StartPass(s)
  \/ \E r \in Rows : LoadRow(s, r)
  \/ \E t \in Stamps : StampSucceeds(s, t)
  \/ StampFails(s)
  \/ StartChecks(s)
  \/ \E x \in Sources : LoadSource(s, x)
  \/ \E d \in Digests : CaptureBaseline(s, d)
  \/ \E e \in Events, d \in Digests : CaptureEvent(s, e, d)
  \/ CheckEndsEmpty(s)
  \/ EndSweep(s)

Tenant ==
  \/ \E x \in Sources : AddSource(x) \/ DeleteSource(x)
  \/ \E t \in Tabs, e \in Events : OpenRetry(t, e)
  \/ \E t \in Tabs : CommitRetry(t)

Next ==
  \/ \E s \in Sweeps : SweepStep(s) \/ StampAborts(s) \/ Crash(s)
  \/ Tenant

Spec == Init /\ [][Next]_vars

\* The scheduler starts a sweep every three hours and a started sweep goes
\* on; a tenant owes nothing.
Fairness == \A s \in Sweeps : WF_vars(SweepStep(s))

FairSpec == Spec /\ Fairness

-----------------------------------------------------------------------------
(* Safety, however sweeps and retry requests overlap.                      *)

\* KURAL 0: what was captured before timestamping existed never becomes
\* eligible, neither through a sweep's stale copy nor through a retry.
PreTsaStays ==
  \A r \in Rows :
    /\ status[r] = "not_available_pre_tsa"
    /\ r \in Sources => captured[r]
    => status'[r] \in {"not_available_pre_tsa", "deleted"}

\* The same of every step: not_available_pre_tsa is terminal.
PreTsaIsTerminal == [][PreTsaStays]_vars

\* The other half of KURAL 0: such a row never holds a token.
PreTsaHasNoToken ==
  \A r \in Rows : status[r] = "not_available_pre_tsa" => token[r] = NoToken

\* An event that claims to be timestamped holds a token, and the token covers
\* the very digest of the event, also when several attempts raced.
TokenCoversEvent ==
  \A e \in Events :
    status[e] = "timestamped" =>
      /\ token[e] # NoToken
      /\ token[e].digest = digest[e]

\* A due row has a digest: the branch of stamp_change_event that files a
\* digest-less row under not_available_pre_tsa is never taken.
DueHasDigest == \A r \in Rows : status[r] \in Due => digest[r] # NoDigest

-----------------------------------------------------------------------------
(* Safety when one sweep runs at a time.  TLC refutes each when two        *)
(* overlap, or when a manual retry meets a late attempt: TimestampingRace  *)
(* is the run kept, and with another of these in its cfg it shows that one. *)

\* The same as TokenCoversEvent for baselines, which can be captured twice.
TokenCoversBaseline ==
  \A x \in Sources :
    status[x] = "timestamped" =>
      /\ token[x] # NoToken
      /\ token[x].digest = digest[x]

\* A due event still has a try left: the attempt that uses up the tries is
\* seen, and a manual retry hands out a fresh full budget (dashboard.py,
\* retry_timestamp).
DueHasTries == \A e \in Events : status[e] \in Due => attempts[e] < MaxAttempts

\* A timestamp that was obtained is kept: neither the status nor the token
\* changes again.
TimestampedIsFinal ==
  [][\A r \in Rows :
       status[r] = "timestamped" =>
         /\ status'[r] \in {"timestamped", "deleted"}
         /\ token'[r] = token[r]]_vars

\* The sweeps implement the state diagram, each edge in the step that commits.
Diagram == INSTANCE TimestampDiagram
             WITH Tokens <- [digest : Digests, stamp : Stamps]
FollowsDiagram == Diagram!Spec

-----------------------------------------------------------------------------
(* Liveness.                                                               *)

\* A row due for a timestamp leaves the due statuses: it is timestamped, or
\* it runs out of tries and waits for a person.
DueSettles == \A r \in Rows : status[r] \in Due ~> status[r] \notin Due

=============================================================================
