-------------------------- MODULE MonitoringProofs --------------------------
(***************************************************************************)
(* The check of a source.  Types are kept however many sweeps overlap;     *)
(* the stamps, the events and the spacing of the alerts are right for any  *)
(* number of sources, pages and faults, any threshold and any windows, as  *)
(* long as there is a single sweep: then what a check loaded is what the   *)
(* row still holds when it writes.                                         *)
(***************************************************************************)
EXTENDS Monitoring, TLAPS

OneSweep == \A s, z \in Sweeps : s = z

\* The session of a check is open.
Busy(s) == pc[s] \notin {"idle", "checking"}

-----------------------------------------------------------------------------
(* The inductive invariant for any number of sweeps: an open session has a *)
(* row, and a page when there is one to compare.                           *)

SessionInv ==
  \A s \in Sweeps :
    /\ Busy(s) => at[s] \in Sources /\ seen[s] \in Snapshot
    /\ pc[s] = "comparing" => got[s] \in Pages

IInv == TypeOK /\ SessionInv

\* No session is open when the process starts.
LEMMA InitIInv == Init => IInv
<1> SUFFICES ASSUME Init PROVE IInv
  OBVIOUS
<1>1. TypeOK
  BY SettingsAssumption, BoundsAssumption DEF Init, TypeOK, Stamp, Ages
<1>2. SessionInv
  BY DEF Init, SessionInv, Busy
<1> QED
  BY <1>1, <1>2 DEF IInv

\* A check that is over leaves no session behind.
LEMMA EndCheckTyped ==
  ASSUME IInv, NEW s \in Sweeps, EndCheck(s), UNCHANGED todo
  PROVE  /\ pc' \in [Sweeps -> {"idle", "checking", "alarming", "mailing", "gated",
                                "fetching", "comparing", "warning", "sending"}]
         /\ todo' \in [Sweeps -> SUBSET Sources]
         /\ at' \in [Sweeps -> Sources \cup {None}]
         /\ seen' \in [Sweeps -> Snapshot \cup {None}]
         /\ got' \in [Sweeps -> Pages \cup {None}]
         /\ SessionInv'
<1> USE DEF IInv, TypeOK, EndCheck
<1>1. /\ pc' \in [Sweeps -> {"idle", "checking", "alarming", "mailing", "gated",
                             "fetching", "comparing", "warning", "sending"}]
      /\ todo' \in [Sweeps -> SUBSET Sources]
      /\ at' \in [Sweeps -> Sources \cup {None}]
      /\ seen' \in [Sweeps -> Snapshot \cup {None}]
      /\ got' \in [Sweeps -> Pages \cup {None}]
  OBVIOUS
<1>2. SessionInv'
  BY DEF SessionInv, Busy
<1> QED
  BY <1>1, <1>2

\* A sweep that starts or ends opens no session (sweep_due_subprocessors).
LEMMA SweepTyped ==
  ASSUME IInv, NEW s \in Sweeps, StartSweep(s) \/ EndSweep(s)
  PROVE  IInv'
<1> USE DEF IInv, watchVars, contentVars, healthVars, flagVars, mailVars
<1>1. /\ pc' = [pc EXCEPT ![s] = "checking"] \/ pc' = [pc EXCEPT ![s] = "idle"]
      /\ todo' \in [Sweeps -> SUBSET Sources]
      /\ UNCHANGED <<page, watchVars, contentVars, healthVars, flagVars, at, seen, got,
                     mailVars, faults>>
  BY DEF StartSweep, EndSweep, TypeOK
<1>2. TypeOK'
  BY <1>1 DEF TypeOK
<1>3. SessionInv'
  BY <1>1 DEF TypeOK, SessionInv, Busy
<1> QED
  BY <1>2, <1>3

\* The session holds the row as it is loaded.
LEMMA LoadTyped ==
  ASSUME IInv, NEW s \in Sweeps, NEW x \in Sources, LoadSource(s, x)
  PROVE  IInv'
<1> USE DEF IInv, watchVars, contentVars, healthVars, flagVars, mailVars
<1> DEFINE row == [hash |-> hash[x], format |-> format[x], browser |-> browser[x],
                   deferred |-> deferred[x], failures |-> failures[x],
                   failStamp |-> failStamp[x], staleStamp |-> staleStamp[x]]
<1>1. row \in Snapshot
  BY DEF TypeOK, Snapshot
<1>2. CASE enabled[x]
  <2>1. /\ todo' = [todo EXCEPT ![s] = @ \ {x}]
        /\ at' = [at EXCEPT ![s] = x]
        /\ seen' = [seen EXCEPT ![s] = row]
        /\ pc' = [pc EXCEPT ![s] =
             IF IsStale(x) /\ MaySend(staleStamp[x]) THEN "alarming" ELSE "gated"]
        /\ UNCHANGED <<page, watchVars, contentVars, healthVars, flagVars, got, mailVars, faults>>
    BY <1>2 DEF LoadSource
  <2> HIDE DEF row
  <2>2. TypeOK'
    BY <1>1, <2>1 DEF TypeOK
  <2>3. SessionInv'
    BY <1>1, <2>1 DEF TypeOK, SessionInv, Busy
  <2> QED
    BY <2>2, <2>3
<1>3. CASE ~enabled[x]
  BY <1>3 DEF LoadSource, TypeOK, SessionInv, Busy
<1> QED
  BY <1>2, <1>3

\* Neither stamping nor mailing a staleness alert closes the session.
LEMMA StalenessTyped ==
  ASSUME IInv, NEW s \in Sweeps, StampStaleness(s) \/ MailStaleness(s)
  PROVE  IInv'
<1> USE DEF IInv, watchVars, contentVars, healthVars, flagVars, mailVars
<1>1. seen[s] \in Snapshot /\ at[s] \in Sources
  BY DEF SessionInv, Busy, StampStaleness, MailStaleness
<1>2. 0 \in Stamp
  BY SettingsAssumption DEF Stamp, Ages
<1>3. [seen[s] EXCEPT !.staleStamp = 0] \in Snapshot
  BY <1>1, <1>2 DEF Snapshot
<1>4. CASE StampStaleness(s)
  <2>1. TypeOK'
    BY <1>1, <1>2, <1>3, <1>4 DEF TypeOK, StampStaleness
  <2>2. SessionInv'
    BY <1>1, <1>3, <1>4 DEF TypeOK, SessionInv, Busy, StampStaleness
  <2> QED
    BY <2>1, <2>2
<1>5. CASE MailStaleness(s)
  <2>a. told' \in [Sources -> BOOLEAN]
    BY <1>1, <1>5 DEF TypeOK, MailStaleness
  <2>b. faults' \in Nat
    BY <1>5, BoundsAssumption DEF TypeOK, MailStaleness
  <2>1. TypeOK'
    BY <1>5, <2>a, <2>b DEF TypeOK, MailStaleness
  <2>2. SessionInv'
    BY <1>1, <1>5 DEF TypeOK, SessionInv, Busy, MailStaleness
  <2> QED
    BY <2>1, <2>2
<1> QED
  BY <1>4, <1>5

\* The gate opens or ends the check (tier2_budget.py).
LEMMA GateTyped ==
  ASSUME IInv, NEW s \in Sweeps, Defer(s) \/ Proceed(s)
  PROVE  IInv'
<1> USE DEF IInv, watchVars, contentVars, healthVars, flagVars, mailVars
<1>1. seen[s] \in Snapshot /\ at[s] \in Sources
  BY DEF SessionInv, Busy, Defer, Proceed
<1>2. CASE Defer(s)
  <2>1. Dirty(seen[s].deferred, TRUE, deferred[at[s]]) \in BOOLEAN
    BY <1>1 DEF Dirty, TypeOK
  <2>2. TypeOK'
    BY <1>1, <1>2, <2>1, EndCheckTyped DEF Defer, TypeOK
  <2> QED
    BY <1>2, <2>2, EndCheckTyped DEF Defer
<1>3. CASE Proceed(s)
  BY <1>3 DEF Proceed, TypeOK, SessionInv, Busy
<1> QED
  BY <1>2, <1>3

\* Pinning a source to the browser keeps the session.
LEMMA PinTyped ==
  ASSUME IInv, NEW s \in Sweeps, PinBrowser(s)
  PROVE  IInv'
<1> USE DEF IInv, PinBrowser, watchVars, contentVars, healthVars, flagVars, mailVars
<1>1. seen[s] \in Snapshot /\ at[s] \in Sources
  BY DEF SessionInv, Busy
<1>2. Dirty(seen[s].deferred, FALSE, deferred[at[s]]) \in BOOLEAN
  BY <1>1 DEF Dirty, TypeOK
<1>3. [seen[s] EXCEPT !.browser = TRUE, !.deferred = FALSE] \in Snapshot
  BY <1>1 DEF Snapshot
<1>4. TypeOK'
  BY <1>1, <1>2, <1>3 DEF TypeOK
<1>5. SessionInv'
  BY <1>1, <1>3 DEF TypeOK, SessionInv, Busy
<1> QED
  BY <1>4, <1>5

\* What is read is what the page says.
LEMMA ReadTyped ==
  ASSUME IInv, NEW s \in Sweeps, ReadPage(s)
  PROVE  IInv'
<1> USE DEF IInv, ReadPage, watchVars, contentVars, healthVars, flagVars, mailVars
<1>1. at[s] \in Sources /\ page[at[s]] \in Pages
  BY DEF SessionInv, Busy, TypeOK
<1>2. TypeOK'
  BY <1>1 DEF TypeOK
<1>3. SessionInv'
  BY <1>1 DEF TypeOK, SessionInv, Busy
<1> QED
  BY <1>2, <1>3

\* A failure is counted up to the threshold (_record_fetch_failure).
LEMMA FailTyped ==
  ASSUME IInv, NEW s \in Sweeps, FetchFails(s)
  PROVE  IInv'
<1> USE DEF IInv, watchVars, contentVars, healthVars, flagVars, mailVars
<1> DEFINE n == IF seen[s].failures < Threshold THEN seen[s].failures + 1 ELSE Threshold
<1>1. pc[s] = "fetching" /\ seen[s] \in Snapshot /\ at[s] \in Sources
  BY DEF SessionInv, Busy, FetchFails
<1>2. n \in 0 .. Threshold
  BY <1>1, SettingsAssumption DEF Snapshot
<1>3. Dirty(seen[s].deferred, FALSE, deferred[at[s]]) \in BOOLEAN
  BY <1>1 DEF Dirty, TypeOK
<1>4. [seen[s] EXCEPT !.failures = n, !.deferred = FALSE] \in Snapshot
  BY <1>1, <1>2 DEF Snapshot
<1>5. /\ failures' = [failures EXCEPT ![at[s]] = n]
      /\ deferred' = [deferred EXCEPT ![at[s]] = Dirty(seen[s].deferred, FALSE, @)]
      /\ due' = [due EXCEPT ![at[s]] = FALSE]
      /\ \/ /\ pc' = [pc EXCEPT ![s] = "warning"]
            /\ seen' = [seen EXCEPT ![s] = [seen[s] EXCEPT !.failures = n, !.deferred = FALSE]]
            /\ UNCHANGED <<at, got>>
         \/ EndCheck(s)
      /\ UNCHANGED <<page, watchVars, contentVars, failStamp, staleStamp, read, browser,
                     todo, mailVars, faults>>
  BY DEF FetchFails
<1> HIDE DEF n
<1>6. /\ failures' \in [Sources -> 0 .. Threshold]
      /\ deferred' \in [Sources -> BOOLEAN]
      /\ due' \in [Sources -> BOOLEAN]
  BY <1>1, <1>2, <1>3, <1>5 DEF TypeOK
<1>7. CASE EndCheck(s)
  BY <1>5, <1>6, <1>7, EndCheckTyped DEF TypeOK
<1>8. CASE /\ pc' = [pc EXCEPT ![s] = "warning"]
           /\ seen' = [seen EXCEPT ![s] = [seen[s] EXCEPT !.failures = n, !.deferred = FALSE]]
           /\ UNCHANGED <<at, got>>
  <2>1. TypeOK'
    BY <1>4, <1>5, <1>6, <1>8 DEF TypeOK
  <2>2. SessionInv'
    BY <1>1, <1>4, <1>8 DEF TypeOK, SessionInv, Busy
  <2> QED
    BY <2>1, <2>2
<1> QED
  BY <1>5, <1>7, <1>8

\* The failure alert: stamped, then mailed or lost (_dedupe_and_send).
LEMMA AlertTyped ==
  ASSUME IInv, NEW s \in Sweeps, StampFailure(s) \/ MailFailure(s) \/ LoseFailureMail(s)
  PROVE  IInv'
<1> USE DEF IInv, watchVars, contentVars, healthVars, flagVars, mailVars
<1>1. seen[s] \in Snapshot /\ at[s] \in Sources
  BY DEF SessionInv, Busy, StampFailure, MailFailure, LoseFailureMail
<1>2. /\ 0 \in Stamp
      /\ seen[s].failStamp \in Stamp
      /\ [seen[s] EXCEPT !.failStamp = 0] \in Snapshot
  BY <1>1, SettingsAssumption DEF Snapshot, Stamp, Ages
<1>3. CASE StampFailure(s)
  <2>1. TypeOK'
    BY <1>1, <1>2, <1>3 DEF TypeOK, StampFailure
  <2>2. SessionInv'
    BY <1>1, <1>2, <1>3 DEF TypeOK, SessionInv, Busy, StampFailure
  <2> QED
    BY <2>1, <2>2
<1>4. CASE MailFailure(s)
  <2>1. TypeOK'
    BY <1>1, <1>2, <1>4, EndCheckTyped DEF TypeOK, MailFailure
  <2> QED
    BY <1>4, <2>1, EndCheckTyped DEF MailFailure
<1>5. CASE LoseFailureMail(s)
  <2>1. TypeOK'
    BY <1>5, EndCheckTyped, BoundsAssumption DEF TypeOK, LoseFailureMail
  <2> QED
    BY <1>5, <2>1, EndCheckTyped DEF LoseFailureMail
<1> QED
  BY <1>3, <1>4, <1>5

\* What a check that read its page writes (_reset_health and the columns that
\* every branch assigns).
LEMMA SucceedTyped ==
  ASSUME IInv, NEW s \in Sweeps, pc[s] = "comparing", Succeed(s),
         hash' \in [Sources -> Pages \cup {None}],
         format' \in [Sources -> {"older", "current"}],
         event' \in [Sources -> [old : Pages, new : Pages] \cup {None}]
  PROVE  IInv'
<1> USE DEF IInv, watchVars
<1>1. seen[s] \in Snapshot /\ at[s] \in Sources
  BY DEF SessionInv, Busy
<1>2. /\ Dirty(seen[s].failures, 0, failures[at[s]]) \in 0 .. Threshold
      /\ Dirty(seen[s].failStamp, None, failStamp[at[s]]) \in Stamp
      /\ Dirty(seen[s].staleStamp, None, staleStamp[at[s]]) \in Stamp
      /\ None \in Stamp
      /\ 0 \in 0 .. StaleAfter
  BY <1>1, SettingsAssumption DEF Dirty, TypeOK, Stamp, Snapshot
<1>a. Dirty(seen[s].deferred, FALSE, deferred[at[s]]) \in BOOLEAN
  BY <1>1 DEF Dirty, TypeOK
<1>3. /\ failures' \in [Sources -> 0 .. Threshold]
      /\ failStamp' \in [Sources -> Stamp]
      /\ staleStamp' \in [Sources -> Stamp]
      /\ read' \in [Sources -> 0 .. StaleAfter]
      /\ due' \in [Sources -> BOOLEAN]
      /\ deferred' \in [Sources -> BOOLEAN]
      /\ alerted' \in [Sources -> Stamp]
      /\ told' \in [Sources -> BOOLEAN]
  BY <1>2, <1>a DEF Succeed, ResetHealth, TypeOK
<1>4. EndCheck(s) /\ UNCHANGED <<page, watchVars, browser, todo, faults>>
  BY DEF Succeed
<1> QED
  BY <1>3, <1>4, EndCheckTyped DEF TypeOK

\* The four ways a reading ends (run_subprocessor_check).
LEMMA ReadingTyped ==
  ASSUME IInv, NEW s \in Sweeps,
         StoreBaseline(s) \/ Rebaseline(s) \/ FindNoChange(s) \/ RecordChange(s)
  PROVE  IInv'
<1> USE DEF IInv, contentVars
<1>1. pc[s] = "comparing" /\ Succeed(s)
  BY DEF StoreBaseline, Rebaseline, FindNoChange, RecordChange
<1>2. seen[s] \in Snapshot /\ at[s] \in Sources /\ got[s] \in Pages
  BY <1>1 DEF SessionInv, Busy
<1>3. CASE StoreReading(s) /\ UNCHANGED event
  <2>1. /\ Dirty(seen[s].hash, got[s], hash[at[s]]) \in Pages \cup {None}
        /\ Dirty(seen[s].format, "current", format[at[s]]) \in {"older", "current"}
    BY <1>2 DEF Dirty, TypeOK
  <2> QED
    BY <1>1, <1>3, <2>1, SucceedTyped DEF StoreReading, TypeOK
<1>4. CASE FindNoChange(s)
  BY <1>1, <1>4, SucceedTyped DEF FindNoChange, TypeOK
<1>5. CASE RecordChange(s)
  <2>1. seen[s].hash \in Pages
    BY <1>2, <1>5 DEF RecordChange, Snapshot
  <2> QED
    BY <1>1, <1>2, <1>5, <2>1, SucceedTyped DEF RecordChange, TypeOK
<1> QED
  BY <1>3, <1>4, <1>5 DEF StoreBaseline, Rebaseline

\* An uncaught error closes one session, a crash all of the sweep.
LEMMA FaultTyped ==
  ASSUME IInv, NEW s \in Sweeps, CheckRaises(s) \/ Crash(s)
  PROVE  IInv'
<1> USE DEF IInv, watchVars, contentVars, healthVars, flagVars, mailVars
<1>1. CASE CheckRaises(s)
  <2>1. TypeOK'
    BY <1>1, EndCheckTyped, BoundsAssumption DEF TypeOK, CheckRaises
  <2> QED
    BY <1>1, <2>1, EndCheckTyped DEF CheckRaises
<1>2. CASE Crash(s)
  <2>1. TypeOK'
    BY <1>2, BoundsAssumption DEF TypeOK, Crash
  <2>2. SessionInv'
    BY <1>2 DEF TypeOK, SessionInv, Busy, Crash
  <2> QED
    BY <2>1, <2>2
<1> QED
  BY <1>1, <1>2

OutsideStep ==
  \/ \E x \in Sources : Toggle(x) \/ ComeDue(x)
  \/ \E x \in Sources, p \in Pages : ChangePage(x, p)
  \/ ChangeSubscription

\* The tenant, the page and next_check_at reach no session.
LEMMA OutsideTyped ==
  ASSUME IInv, OutsideStep
  PROVE  IInv'
<1> USE DEF IInv, watchVars, contentVars, healthVars, flagVars, sweepVars, mailVars
<1>1. ASSUME NEW x \in Sources, Toggle(x) \/ ComeDue(x) PROVE TypeOK'
  <2>1. enabled' \in [Sources -> BOOLEAN] /\ due' \in [Sources -> BOOLEAN]
    BY <1>1 DEF TypeOK, Toggle, ComeDue
  <2> QED
    BY <1>1, <2>1 DEF TypeOK, Toggle, ComeDue
<1>2. ASSUME NEW x \in Sources, NEW p \in Pages, ChangePage(x, p) PROVE TypeOK'
  BY <1>2 DEF TypeOK, ChangePage
<1>3. CASE ChangeSubscription
  BY <1>3 DEF ChangeSubscription, TypeOK, SessionInv, Busy
<1>4. UNCHANGED sweepVars
  BY DEF OutsideStep, Toggle, ComeDue, ChangePage, ChangeSubscription
<1>5. SessionInv'
  BY <1>4 DEF SessionInv, Busy
<1> QED
  BY <1>1, <1>2, <1>3, <1>5 DEF OutsideStep

\* A stamp that ages is a stamp.
LEMMA OlderIsStamp ==
  ASSUME NEW stamp \in Stamp
  PROVE  /\ Older(stamp) \in Stamp
         /\ Older(stamp) = None <=> stamp = None
         /\ stamp \in {None, Window} => Older(stamp) = stamp
BY SettingsAssumption, NoneAssumption DEF Older, Stamp, Ages

\* A silence that grows is counted up to the length that is stale.
LEMMA OlderIsRead ==
  ASSUME NEW n \in 0 .. StaleAfter
  PROVE  (IF n < StaleAfter THEN n + 1 ELSE StaleAfter) \in 0 .. StaleAfter
BY SettingsAssumption

\* The stamps age in the rows and in the sessions.
LEMMA DayTyped == ASSUME IInv, Day PROVE IInv'
<1> USE DEF IInv, Day, watchVars, contentVars, flagVars
<1>1. ASSUME NEW s \in Sweeps, seen[s] \in Snapshot
      PROVE  [seen[s] EXCEPT !.failStamp = Older(@), !.staleStamp = Older(@)] \in Snapshot
  BY <1>1, OlderIsStamp DEF Snapshot
<1>2. /\ failStamp' \in [Sources -> Stamp]
      /\ staleStamp' \in [Sources -> Stamp]
      /\ alerted' \in [Sources -> Stamp]
  BY OlderIsStamp DEF TypeOK
<1>3. read' \in [Sources -> 0 .. StaleAfter]
  <2>1. \A x \in Sources : read[x] \in 0 .. StaleAfter
    BY DEF TypeOK
  <2> QED
    BY <2>1, OlderIsRead
<1>4. seen' \in [Sweeps -> Snapshot \cup {None}]
  BY <1>1 DEF TypeOK
<1>5. TypeOK'
  BY <1>2, <1>3, <1>4 DEF TypeOK
<1>6. SessionInv'
  BY <1>1, NoSessionAssumption DEF SessionInv, Busy
<1> QED
  BY <1>5, <1>6

\* Every step keeps the types and the sessions, however the sweeps overlap.
LEMMA NextIInv == IInv /\ [Next]_vars => IInv'
<1> SUFFICES ASSUME IInv, [Next]_vars PROVE IInv'
  OBVIOUS
<1>1. ASSUME NEW s \in Sweeps, SweepStep(s) PROVE IInv'
  BY <1>1, SweepTyped, LoadTyped, StalenessTyped, GateTyped, PinTyped, ReadTyped, FailTyped,
     AlertTyped, ReadingTyped DEF SweepStep
<1>2. ASSUME NEW s \in Sweeps, LoseFailureMail(s) \/ CheckRaises(s) \/ Crash(s) PROVE IInv'
  BY <1>2, AlertTyped, FaultTyped
<1>3. CASE OutsideStep
  BY <1>3, OutsideTyped
<1>4. CASE Day
  BY <1>4, DayTyped
<1>5. CASE UNCHANGED vars
  BY <1>5 DEF IInv, TypeOK, SessionInv, Busy, vars, watchVars, contentVars, healthVars,
              flagVars, sweepVars, mailVars
<1> QED
  BY <1>1, <1>2, <1>3, <1>4, <1>5 DEF Next, OutsideStep

\* An open session has a row in every reachable state.
THEOREM Invariance == Spec => []IInv
BY InitIInv, NextIInv, PTL DEF Spec

-----------------------------------------------------------------------------
\* Every variable keeps its type, however many sweeps overlap.
THEOREM TypeCorrect == Spec => []TypeOK
BY Invariance, PTL DEF IInv

-----------------------------------------------------------------------------
(* The inductive invariant for one sweep at a time.                        *)

\* What the check loaded is what the row still holds.
CopyInv ==
  \A s \in Sweeps : Busy(s) =>
    /\ seen[s].hash = hash[at[s]]
    /\ seen[s].format = format[at[s]]
    /\ seen[s].failStamp = failStamp[at[s]]
    /\ seen[s].staleStamp = staleStamp[at[s]]

\* An alert that is on its way is owed: the source is stale, or has failed
\* and the owner heard of it a window ago or never.
OwedInv ==
  \A s \in Sweeps :
    /\ pc[s] = "alarming" => read[at[s]] = StaleAfter
    /\ pc[s] \in {"warning", "sending"} =>
         failures[at[s]] # 0 /\ alerted[at[s]] \in {None, Window}

\* No alert of this streak is younger than the stamp committed for it.
StampInv ==
  \A x \in Sources : alerted[x] # None => failStamp[x] # None /\ failStamp[x] <= alerted[x]

SoloInv == CopyInv /\ OwedInv /\ RecoveryClearsStamps /\ StampInv

\* No check is on its way and no alert was sent when the process starts.
LEMMA InitSolo == Init => SoloInv
BY DEF Init, SoloInv, CopyInv, OwedInv, RecoveryClearsStamps, StampInv, Busy

\* A step that writes none of the columns the alarms and readings depend on,
\* and lets no alert out.
LEMMA AlarmsUntouched ==
  ASSUME IInv, SoloInv,
         UNCHANGED <<hash, format, failures, failStamp, staleStamp, read, alerted>>,
         \A z \in Sweeps : Busy(z)' =>
           /\ Busy(z)
           /\ at'[z] = at[z]
           /\ seen'[z].hash = seen[z].hash
           /\ seen'[z].format = seen[z].format
           /\ seen'[z].failStamp = seen[z].failStamp
           /\ seen'[z].staleStamp = seen[z].staleStamp
           /\ pc'[z] \in {"alarming", "warning", "sending"} => pc'[z] = pc[z]
  PROVE  SoloInv'
<1> USE DEF SoloInv
<1>1. CopyInv'
  BY DEF CopyInv
<1>2. OwedInv'
  BY DEF OwedInv, Busy
<1>3. RecoveryClearsStamps' /\ StampInv'
  BY DEF RecoveryClearsStamps, StampInv
<1> QED
  BY <1>1, <1>2, <1>3

\* Sweeps that start and end, gates and readings touch no alarm.
LEMMA PassSolo ==
  ASSUME IInv, SoloInv, NEW s \in Sweeps,
         \/ StartSweep(s) \/ EndSweep(s) \/ MailStaleness(s) \/ Defer(s) \/ Proceed(s)
         \/ ReadPage(s) \/ LoseFailureMail(s) \/ CheckRaises(s) \/ Crash(s)
  PROVE  SoloInv'
<1>1. UNCHANGED <<hash, format, failures, failStamp, staleStamp, read, alerted>>
  BY DEF StartSweep, EndSweep, MailStaleness, Defer, Proceed, ReadPage, LoseFailureMail,
         CheckRaises, Crash, contentVars, healthVars, mailVars
<1>2. /\ pc' \in {[pc EXCEPT ![s] = p] : p \in {"idle", "checking", "gated", "fetching", "comparing"}}
      /\ \/ UNCHANGED <<at, seen>> /\ Busy(s)
         \/ pc'[s] \in {"idle", "checking"} /\ \A z \in Sweeps \ {s} : UNCHANGED <<at[z], seen[z]>>
  BY DEF StartSweep, EndSweep, MailStaleness, Defer, Proceed, ReadPage, LoseFailureMail,
         CheckRaises, Crash, EndCheck, Busy, IInv, TypeOK
<1>3. \A z \in Sweeps : Busy(z)' =>
        Busy(z) /\ UNCHANGED <<at[z], seen[z]>> /\ (pc'[z] = pc[z] \/ pc'[z] \in {"gated", "fetching", "comparing"})
  BY <1>2 DEF Busy, IInv, TypeOK
<1> QED
  BY <1>1, <1>3, AlarmsUntouched

\* Pinning a source to the browser touches no alarm.
LEMMA PinSolo ==
  ASSUME IInv, SoloInv, NEW s \in Sweeps, PinBrowser(s)
  PROVE  SoloInv'
<1>1. /\ UNCHANGED <<hash, format, failures, failStamp, staleStamp, read, alerted, pc, at>>
      /\ seen' = [seen EXCEPT ![s] = [seen[s] EXCEPT !.browser = TRUE, !.deferred = FALSE]]
  BY DEF PinBrowser, contentVars, healthVars, mailVars
<1>2. seen[s] \in Snapshot
  BY DEF PinBrowser, IInv, SessionInv, Busy
<1>3. \A z \in Sweeps :
        /\ seen'[z].hash = seen[z].hash
        /\ seen'[z].format = seen[z].format
        /\ seen'[z].failStamp = seen[z].failStamp
        /\ seen'[z].staleStamp = seen[z].staleStamp
  BY <1>1, <1>2 DEF IInv, TypeOK, Snapshot
<1> QED
  BY <1>1, <1>3, AlarmsUntouched DEF Busy

\* The tenant, the page and next_check_at touch no alarm.
LEMMA OutsideSolo == ASSUME IInv, SoloInv, OutsideStep PROVE SoloInv'
<1>1. UNCHANGED <<hash, format, failures, failStamp, staleStamp, read, alerted, pc, at, seen>>
  BY DEF OutsideStep, Toggle, ComeDue, ChangePage, ChangeSubscription, contentVars,
         healthVars, sweepVars, mailVars
<1> QED
  BY <1>1, AlarmsUntouched DEF Busy

\* The only session is a copy of the row it has just loaded.
LEMMA LoadSolo ==
  ASSUME OneSweep, IInv, SoloInv, NEW s \in Sweeps, NEW x \in Sources, LoadSource(s, x)
  PROVE  SoloInv'
<1>1. UNCHANGED <<hash, format, failures, failStamp, staleStamp, read, alerted>>
  BY DEF LoadSource, contentVars, healthVars, mailVars
<1>2. CASE enabled[x]
  <2>1. /\ at'[s] = x
        /\ seen'[s].hash = hash[x]
        /\ seen'[s].format = format[x]
        /\ seen'[s].failStamp = failStamp[x]
        /\ seen'[s].staleStamp = staleStamp[x]
        /\ pc'[s] \in {"alarming", "gated"}
        /\ pc'[s] = "alarming" => IsStale(x)
    BY <1>2 DEF LoadSource, IInv, TypeOK
  <2>2. CopyInv' /\ OwedInv'
    BY <1>1, <2>1 DEF OneSweep, CopyInv, OwedInv, IsStale
  <2>3. RecoveryClearsStamps' /\ StampInv'
    BY <1>1 DEF SoloInv, RecoveryClearsStamps, StampInv
  <2> QED
    BY <2>2, <2>3 DEF SoloInv
<1>3. CASE ~enabled[x]
  <2>1. UNCHANGED <<pc, at, seen>>
    BY <1>3 DEF LoadSource
  <2> QED
    BY <1>1, <2>1, AlarmsUntouched DEF Busy
<1> QED
  BY <1>2, <1>3

\* The staleness stamp is set on a source that is stale.
LEMMA StampStalenessSolo ==
  ASSUME OneSweep, IInv, SoloInv, NEW s \in Sweeps, StampStaleness(s)
  PROVE  SoloInv'
<1>1. /\ pc[s] = "alarming"
      /\ at[s] \in Sources
      /\ seen[s] \in Snapshot
  BY DEF StampStaleness, IInv, SessionInv, Busy
<1>2. /\ staleStamp' = [staleStamp EXCEPT ![at[s]] = 0]
      /\ seen'[s] = [seen[s] EXCEPT !.staleStamp = 0]
      /\ pc'[s] = "mailing"
      /\ UNCHANGED <<hash, format, failures, failStamp, read, at, alerted>>
  BY DEF StampStaleness, IInv, TypeOK, contentVars, mailVars
<1>3. read[at[s]] = StaleAfter
  BY <1>1 DEF SoloInv, OwedInv
<1>4. CopyInv'
  BY <1>1, <1>2 DEF OneSweep, SoloInv, CopyInv, Busy, Snapshot, IInv, TypeOK
<1>5. OwedInv'
  BY <1>2 DEF OneSweep, OwedInv
<1>6. RecoveryClearsStamps' /\ StampInv'
  BY <1>1, <1>2, <1>3, SettingsAssumption DEF SoloInv, RecoveryClearsStamps, StampInv, IInv, TypeOK
<1> QED
  BY <1>4, <1>5, <1>6 DEF SoloInv

\* A counted failure is not zero, and owes an alert only when the last one is
\* a window old.
LEMMA FailSolo ==
  ASSUME OneSweep, IInv, SoloInv, NEW s \in Sweeps, FetchFails(s)
  PROVE  SoloInv'
<1> DEFINE n == IF seen[s].failures < Threshold THEN seen[s].failures + 1 ELSE Threshold
<1>1. pc[s] = "fetching" /\ at[s] \in Sources /\ seen[s] \in Snapshot
  BY DEF FetchFails, IInv, SessionInv, Busy
<1>2. n # 0
  BY <1>1, SettingsAssumption DEF Snapshot
<1>3. /\ failures' = [failures EXCEPT ![at[s]] = n]
      /\ \/ /\ MaySend(seen[s].failStamp)
            /\ pc'[s] = "warning"
            /\ seen'[s] = [seen[s] EXCEPT !.failures = n, !.deferred = FALSE]
            /\ UNCHANGED at
         \/ pc'[s] = "checking"
      /\ UNCHANGED <<hash, format, failStamp, staleStamp, read, alerted>>
  BY DEF FetchFails, EndCheck, IInv, TypeOK, contentVars, mailVars
<1> HIDE DEF n
<1>4. RecoveryClearsStamps' /\ StampInv'
  BY <1>1, <1>2, <1>3 DEF SoloInv, RecoveryClearsStamps, StampInv, IInv, TypeOK
<1>5. CopyInv'
  <2>1. /\ seen[s].hash = hash[at[s]]
        /\ seen[s].format = format[at[s]]
        /\ seen[s].failStamp = failStamp[at[s]]
        /\ seen[s].staleStamp = staleStamp[at[s]]
    BY <1>1 DEF SoloInv, CopyInv, Busy
  <2>2. CASE seen'[s] = [seen[s] EXCEPT !.failures = n, !.deferred = FALSE] /\ UNCHANGED at
    <3>1. /\ seen'[s].hash = seen[s].hash
          /\ seen'[s].format = seen[s].format
          /\ seen'[s].failStamp = seen[s].failStamp
          /\ seen'[s].staleStamp = seen[s].staleStamp
      BY <1>1, <2>2 DEF Snapshot
    <3> QED
      BY <1>3, <2>1, <2>2, <3>1 DEF OneSweep, CopyInv
  <2>3. CASE pc'[s] = "checking"
    BY <2>3 DEF OneSweep, CopyInv, Busy
  <2> QED
    BY <1>3, <2>2, <2>3
<1>6. OwedInv'
  <2>1. ASSUME MaySend(seen[s].failStamp) PROVE alerted[at[s]] \in {None, Window}
    <3>1. failStamp[at[s]] \in {None, Window} /\ alerted[at[s]] \in Stamp
      BY <1>1, <2>1 DEF MaySend, SoloInv, CopyInv, Busy, IInv, TypeOK
    <3> QED
      BY <1>1, <3>1, SettingsAssumption DEF SoloInv, StampInv, Stamp, Ages
  <2>2. failures'[at[s]] # 0
    BY <1>1, <1>2, <1>3 DEF IInv, TypeOK
  <2> QED
    BY <1>3, <2>1, <2>2 DEF OneSweep, OwedInv
<1> QED
  BY <1>4, <1>5, <1>6 DEF SoloInv

\* The failure stamp is set on a source that has failed.
LEMMA StampFailureSolo ==
  ASSUME OneSweep, IInv, SoloInv, NEW s \in Sweeps, StampFailure(s)
  PROVE  SoloInv'
<1>1. /\ pc[s] = "warning"
      /\ at[s] \in Sources
      /\ seen[s] \in Snapshot
  BY DEF StampFailure, IInv, SessionInv, Busy
<1>2. /\ failStamp' = [failStamp EXCEPT ![at[s]] = 0]
      /\ seen'[s] = [seen[s] EXCEPT !.failStamp = 0]
      /\ pc'[s] = "sending"
      /\ UNCHANGED <<hash, format, failures, staleStamp, read, at, alerted>>
  BY DEF StampFailure, IInv, TypeOK, contentVars, mailVars
<1>3. failures[at[s]] # 0 /\ alerted[at[s]] \in {None, Window}
  BY <1>1 DEF SoloInv, OwedInv
<1>4. CopyInv'
  BY <1>1, <1>2 DEF OneSweep, SoloInv, CopyInv, Busy, Snapshot, IInv, TypeOK
<1>5. OwedInv'
  BY <1>2, <1>3 DEF OneSweep, OwedInv
<1>6. RecoveryClearsStamps'
  BY <1>1, <1>2, <1>3 DEF SoloInv, RecoveryClearsStamps, IInv, TypeOK
<1>7. StampInv'
  <2>1. \A x \in Sources : alerted[x] # None => alerted[x] >= 0
    BY SettingsAssumption DEF IInv, TypeOK, Stamp, Ages
  <2>2. 0 # None
    BY NoneAssumption
  <2> QED
    BY <1>1, <1>2, <2>1, <2>2 DEF SoloInv, StampInv, IInv, TypeOK
<1> QED
  BY <1>4, <1>5, <1>6, <1>7 DEF SoloInv

\* The alert is as old as the stamp of the row.
LEMMA MailFailureSolo ==
  ASSUME OneSweep, IInv, SoloInv, NEW s \in Sweeps, MailFailure(s)
  PROVE  SoloInv'
<1>1. pc[s] = "sending" /\ at[s] \in Sources
  BY DEF MailFailure, IInv, SessionInv, Busy
<1>2. /\ alerted' = [alerted EXCEPT ![at[s]] = seen[s].failStamp]
      /\ pc'[s] = "checking"
      /\ UNCHANGED <<hash, format, failures, failStamp, staleStamp, read>>
  BY DEF MailFailure, EndCheck, IInv, TypeOK, contentVars, healthVars
<1>3. seen[s].failStamp = failStamp[at[s]]
  BY <1>1 DEF SoloInv, CopyInv, Busy
<1>4. CopyInv' /\ OwedInv'
  BY <1>2 DEF OneSweep, CopyInv, OwedInv, Busy
<1>5. RecoveryClearsStamps'
  BY <1>2 DEF SoloInv, RecoveryClearsStamps
<1>6. StampInv'
  <2>1. \A x \in Sources : failStamp[x] # None => failStamp[x] <= failStamp[x]
    BY SettingsAssumption DEF IInv, TypeOK, Stamp, Ages
  <2> QED
    BY <1>1, <1>2, <1>3, <2>1 DEF SoloInv, StampInv, IInv, TypeOK
<1> QED
  BY <1>4, <1>5, <1>6 DEF SoloInv

\* A reading clears the streak, both stamps and the alerts of the streak.
LEMMA SucceedSolo ==
  ASSUME OneSweep, IInv, SoloInv, NEW s \in Sweeps, pc[s] = "comparing", Succeed(s)
  PROVE  SoloInv'
<1>1. at[s] \in Sources
  BY DEF IInv, SessionInv, Busy
<1>2. seen[s].failStamp = failStamp[at[s]] /\ seen[s].staleStamp = staleStamp[at[s]]
  BY DEF SoloInv, CopyInv, Busy
<1>3. /\ failStamp' = [failStamp EXCEPT ![at[s]] = None]
      /\ staleStamp' = [staleStamp EXCEPT ![at[s]] = None]
      /\ alerted' = [alerted EXCEPT ![at[s]] = None]
      /\ \A x \in Sources \ {at[s]} : failures'[x] = failures[x] /\ read'[x] = read[x]
      /\ pc'[s] = "checking"
  BY <1>1, <1>2 DEF Succeed, ResetHealth, EndCheck, Dirty, IInv, TypeOK
<1>4. CopyInv' /\ OwedInv'
  BY <1>3 DEF OneSweep, CopyInv, OwedInv, Busy
<1>5. RecoveryClearsStamps' /\ StampInv'
  BY <1>1, <1>3 DEF SoloInv, RecoveryClearsStamps, StampInv, IInv, TypeOK
<1> QED
  BY <1>4, <1>5 DEF SoloInv

\* A day ages a row and the session that copied it alike.
LEMMA DaySolo == ASSUME IInv, SoloInv, Day PROVE SoloInv'
<1>1. /\ failStamp' = [x \in Sources |-> Older(failStamp[x])]
      /\ staleStamp' = [x \in Sources |-> Older(staleStamp[x])]
      /\ read' = [x \in Sources |-> IF read[x] < StaleAfter THEN read[x] + 1 ELSE StaleAfter]
      /\ alerted' = [x \in Sources |-> Older(alerted[x])]
      /\ UNCHANGED <<hash, format, failures, pc, at>>
  BY DEF Day, contentVars, flagVars
<1>2. ASSUME NEW s \in Sweeps, Busy(s)
      PROVE  /\ at[s] \in Sources
             /\ seen'[s].hash = seen[s].hash
             /\ seen'[s].format = seen[s].format
             /\ seen'[s].failStamp = Older(seen[s].failStamp)
             /\ seen'[s].staleStamp = Older(seen[s].staleStamp)
  <2>1. seen[s] \in Snapshot /\ at[s] \in Sources
    BY <1>2 DEF IInv, SessionInv
  <2>2. seen'[s] = [seen[s] EXCEPT !.failStamp = Older(seen[s].failStamp),
                                   !.staleStamp = Older(seen[s].staleStamp)]
    BY <2>1, NoSessionAssumption DEF Day
  <2> QED
    BY <2>1, <2>2 DEF Snapshot
<1>3. CopyInv'
  BY <1>1, <1>2 DEF SoloInv, CopyInv, Busy
<1>4. OwedInv'
  <2>1. \A n \in 0 .. StaleAfter : n = StaleAfter =>
          (IF n < StaleAfter THEN n + 1 ELSE StaleAfter) = StaleAfter
    BY SettingsAssumption
  <2>2. \A x \in Sources : alerted[x] \in {None, Window} => alerted'[x] = alerted[x]
    BY <1>1 DEF Older
  <2>3. \A s \in Sweeps : Busy(s) => at[s] \in Sources
    BY <1>2
  <2> QED
    BY <1>1, <2>1, <2>2, <2>3, SettingsAssumption DEF SoloInv, OwedInv, Busy
<1>5. RecoveryClearsStamps'
  <2>1. \A x \in Sources : read'[x] < StaleAfter => read[x] < StaleAfter
    BY <1>1, SettingsAssumption DEF IInv, TypeOK
  <2> QED
    BY <1>1, <2>1 DEF SoloInv, RecoveryClearsStamps, Older
<1>6. StampInv'
  <2>1. ASSUME NEW f \in Ages, NEW a \in Ages, f <= a
        PROVE  Older(f) <= Older(a)
    BY <2>1, SettingsAssumption, NoneAssumption DEF Older, Ages
  <2>2. \A x \in Sources : alerted[x] \in Stamp /\ failStamp[x] \in Stamp
    BY DEF IInv, TypeOK
  <2> QED
    BY <1>1, <2>1, <2>2, OlderIsStamp DEF SoloInv, StampInv, Stamp
<1> QED
  BY <1>3, <1>4, <1>5, <1>6 DEF SoloInv

\* Every step of the only sweep, the tenant and the clock keeps SoloInv.
LEMMA NextSolo == ASSUME OneSweep PROVE IInv /\ SoloInv /\ [Next]_vars => SoloInv'
<1> SUFFICES ASSUME IInv, SoloInv, [Next]_vars PROVE SoloInv'
  OBVIOUS
<1>1. ASSUME NEW s \in Sweeps,
             StoreBaseline(s) \/ Rebaseline(s) \/ FindNoChange(s) \/ RecordChange(s)
      PROVE  SoloInv'
  BY <1>1, SucceedSolo DEF StoreBaseline, Rebaseline, FindNoChange, RecordChange
<1>2. ASSUME NEW s \in Sweeps,
             SweepStep(s) \/ LoseFailureMail(s) \/ CheckRaises(s) \/ Crash(s)
      PROVE  SoloInv'
  BY <1>1, <1>2, PassSolo, PinSolo, LoadSolo, StampStalenessSolo, FailSolo, StampFailureSolo,
     MailFailureSolo DEF SweepStep
<1>3. CASE OutsideStep
  BY <1>3, OutsideSolo
<1>4. CASE Day
  BY <1>4, DaySolo
<1>5. CASE UNCHANGED vars
  BY <1>5, AlarmsUntouched DEF Busy, vars, contentVars, healthVars, sweepVars, mailVars
<1> QED
  BY <1>2, <1>3, <1>4, <1>5 DEF Next, OutsideStep

\* With one sweep, a session is a copy of its row in every reachable state.
THEOREM SoloInvariance == OneSweep => (Spec => []SoloInv)
<1> SUFFICES ASSUME OneSweep PROVE Spec => []SoloInv
  OBVIOUS
<1>1. IInv /\ SoloInv /\ [Next]_vars => SoloInv'
  BY NextSolo
<1> QED
  BY <1>1, InitSolo, Invariance, PTL DEF Spec

-----------------------------------------------------------------------------
\* A reading leaves no stamp that would swallow the next, unrelated alarm,
\* whatever faults and days come between.
THEOREM RecoveryIsClean == OneSweep => (Spec => []RecoveryClearsStamps)
<1> SUFFICES ASSUME OneSweep PROVE Spec => []RecoveryClearsStamps
  OBVIOUS
<1>1. SoloInv => RecoveryClearsStamps
  BY DEF SoloInv
<1> QED
  BY <1>1, SoloInvariance, PTL

\* Every reading that replaces one of the same normalizer has its change
\* event, from the reading before it to this one.
THEOREM ChangesHaveEvents == OneSweep => (Spec => EventsRecordChanges)
<1> SUFFICES ASSUME OneSweep PROVE Spec => EventsRecordChanges
  OBVIOUS
<1>1. IInv /\ SoloInv /\ [Next]_vars => [ChangesAreRecorded]_vars
  <2> SUFFICES ASSUME IInv, SoloInv, Next PROVE ChangesAreRecorded
    OBVIOUS
  <2>1. ASSUME NEW s \in Sweeps, pc[s] = "comparing"
        PROVE  /\ at[s] \in Sources
               /\ seen[s].hash = hash[at[s]]
               /\ seen[s].format = format[at[s]]
    BY <2>1 DEF IInv, SessionInv, SoloInv, CopyInv, Busy
  <2>2. ASSUME NEW s \in Sweeps, StoreBaseline(s) \/ Rebaseline(s) PROVE ChangesAreRecorded
    <3>1. /\ pc[s] = "comparing"
          /\ seen[s].hash = None \/ seen[s].format # "current"
          /\ \A x \in Sources \ {at[s]} : hash'[x] = hash[x]
          /\ UNCHANGED event
      BY <2>2 DEF StoreBaseline, Rebaseline, StoreReading, IInv, TypeOK
    <3> QED
      BY <2>1, <3>1 DEF ChangesAreRecorded
  <2>3. ASSUME NEW s \in Sweeps, RecordChange(s) PROVE ChangesAreRecorded
    <3>1. /\ pc[s] = "comparing"
          /\ event' = [event EXCEPT ![at[s]] = [old |-> seen[s].hash, new |-> got[s]]]
          /\ hash' = [hash EXCEPT ![at[s]] = got[s]]
      BY <2>3 DEF RecordChange
    <3> QED
      BY <2>1, <3>1 DEF ChangesAreRecorded, IInv, TypeOK
  <2>4. CASE UNCHANGED <<hash, event>>
    BY <2>4 DEF ChangesAreRecorded
  <2>5. ASSUME NEW s \in Sweeps,
               \/ StartSweep(s) \/ EndSweep(s) \/ MailStaleness(s) \/ Defer(s) \/ Proceed(s)
               \/ ReadPage(s) \/ LoseFailureMail(s) \/ CheckRaises(s) \/ Crash(s)
               \/ StampStaleness(s) \/ PinBrowser(s) \/ FetchFails(s) \/ StampFailure(s)
               \/ MailFailure(s) \/ FindNoChange(s) \/ \E x \in Sources : LoadSource(s, x)
        PROVE  UNCHANGED <<hash, event>>
    BY <2>5 DEF StartSweep, LoadSource, StampStaleness, MailStaleness, Defer, Proceed,
       PinBrowser, ReadPage, FetchFails, StampFailure, MailFailure, FindNoChange, EndSweep,
       LoseFailureMail, CheckRaises, Crash, contentVars
  <2>6. OutsideStep \/ Day => UNCHANGED <<hash, event>>
    BY DEF OutsideStep, Toggle, ComeDue, ChangePage, ChangeSubscription, Day, contentVars
  <2> QED
    BY <2>2, <2>3, <2>4, <2>5, <2>6 DEF Next, SweepStep, OutsideStep
<1> QED
  BY <1>1, Invariance, SoloInvariance, PTL DEF Spec, EventsRecordChanges

\* In one streak of failures the alerts are a window apart, also when mails
\* are lost and the process dies.
THEOREM AlertsAreSpaced == OneSweep => (Spec => AlertsSpaced)
<1> SUFFICES ASSUME OneSweep PROVE Spec => AlertsSpaced
  OBVIOUS
<1>1. SoloInv /\ [Next]_vars =>
        [\A s \in Sweeps : MailFailure(s) => alerted[at[s]] \in {None, Window}]_vars
  BY DEF SoloInv, OwedInv, MailFailure
<1> QED
  BY <1>1, SoloInvariance, PTL DEF Spec, AlertsSpaced

=============================================================================
