------------------------- MODULE TimestampingProofs -------------------------
(***************************************************************************)
(* What TimestampingOverlap checks on a small instance, for any number of  *)
(* events, sources, sweeps and retry requests; and what TimestampingSolo   *)
(* checks, the refinement of TimestampDiagram included, for any number of  *)
(* events and sources when one sweep and one retry request run at a time.  *)
(***************************************************************************)
EXTENDS Timestamping, TLAPS

\* Past not_available_pre_tsa, on the edges of the diagram.
OnDiagram == {"pending", "retrying", "timestamped", "failed"}

-----------------------------------------------------------------------------
(* The inductive invariant.  Its first part relates the columns of a row,  *)
(* its second part what a handler holds to what the row can have become.   *)

RowsInv ==
  /\ \A r \in Rows : status[r] \in OnDiagram => digest[r] # NoDigest
  /\ \A r \in Rows : status[r] \in {"absent", "not_available_pre_tsa"} => token[r] = NoToken
  /\ \A e \in Events : /\ status[e] # "deleted"
                       /\ status[e] = "timestamped" => token[e] # NoToken
                       /\ token[e] # NoToken => token[e].digest = digest[e]
  /\ \A x \in Sources : ~captured[x] => /\ digest[x] = NoDigest
                                        /\ status[x] \notin OnDiagram

AttemptInv ==
  \A s \in Sweeps : pc[s] = "requesting" =>
    /\ at[s] \in Rows
    /\ seen[s] \in Snapshot
    /\ seen[s].digest # NoDigest
    /\ status[at[s]] \in OnDiagram \cup {"deleted"}
    /\ seen[s].status \in OnDiagram
    /\ at[s] \in Events => seen[s].digest = digest[at[s]]

CheckInv ==
  \A s \in Sweeps : pc[s] = "fetching" =>
    /\ at[s] \in Sources
    /\ status[at[s]] # "absent"
    /\ seen[s] \in Snapshot
    /\ ~seen[s].captured =>
         /\ seen[s].digest = NoDigest
         /\ seen[s].status = "not_available_pre_tsa"
         /\ ~(captured[at[s]] /\ status[at[s]] = "not_available_pre_tsa")

RetryInv == \A t \in Tabs : tab[t] # Nothing => status[tab[t]] \in OnDiagram

IInv == TypeOK /\ RowsInv /\ AttemptInv /\ CheckInv /\ RetryInv

-----------------------------------------------------------------------------
\* Rows from before timestamping, and sources never captured, satisfy IInv.
LEMMA InitIInv == Init => IInv
<1> SUFFICES ASSUME Init PROVE IInv
  OBVIOUS
<1>1. TypeOK
  BY RowsAssumption, BoundsAssumption DEF Init, TypeOK, TimestampStatus, Rows
<1>2. RowsInv
  BY RowsAssumption DEF Init, RowsInv, OnDiagram, Rows
<1>3. AttemptInv /\ CheckInv /\ RetryInv
  BY DEF Init, AttemptInv, CheckInv, RetryInv
<1> QED
  BY <1>1, <1>2, <1>3 DEF IInv

\* A step that only moves sweeps between passes: no row changes, and who
\* awaits a TSA or a page after it awaited the same before.
LEMMA RowsUntouched ==
  ASSUME IInv, TypeOK', UNCHANGED rowVars,
         \A s \in Sweeps : pc'[s] \in {"requesting", "fetching"} =>
           UNCHANGED <<pc[s], at[s], seen[s]>>,
         \A t \in Tabs : UNCHANGED tab[t]
  PROVE  IInv'
<1> USE DEF IInv, rowVars, Rows
<1>1. RowsInv'
  BY DEF RowsInv
<1>2. AttemptInv'
  BY DEF AttemptInv
<1>3. CheckInv'
  BY DEF CheckInv
<1>4. RetryInv'
  BY DEF RetryInv
<1> QED
  BY <1>1, <1>2, <1>3, <1>4

\* Listing the due rows changes none (run_timestamp_retry_pass).
LEMMA StartPassIInv == ASSUME IInv, NEW s \in Sweeps, StartPass(s) PROVE IInv'
<1> USE BoundsAssumption
    DEF IInv, Rows, Due, Stored, TimestampStatus, rowVars, sweepVars, tabVars, StartPass, Selected
<1>1. TypeOK'
  BY DEF TypeOK
<1>2. \A z \in Sweeps : pc'[z] \in {"requesting", "fetching"} =>
        UNCHANGED <<pc[z], at[z], seen[z]>>
  BY DEF TypeOK
<1> QED
  BY <1>1, <1>2, RowsUntouched

\* An attempt that raises leaves its row alone (run_timestamp_retry_pass).
LEMMA StampAbortsIInv == ASSUME IInv, NEW s \in Sweeps, StampAborts(s) PROVE IInv'
<1> USE BoundsAssumption
    DEF IInv, Rows, Due, Stored, TimestampStatus, rowVars, sweepVars, tabVars, StampAborts, Leave
<1>1. TypeOK'
  BY DEF TypeOK
<1>2. \A z \in Sweeps : pc'[z] \in {"requesting", "fetching"} =>
        UNCHANGED <<pc[z], at[z], seen[z]>>
  BY DEF TypeOK
<1> QED
  BY <1>1, <1>2, RowsUntouched

\* Listing the due sources changes no row (sweep_due_subprocessors).
LEMMA StartChecksIInv == ASSUME IInv, NEW s \in Sweeps, StartChecks(s) PROVE IInv'
<1> USE BoundsAssumption
    DEF IInv, Rows, Due, Stored, TimestampStatus, rowVars, sweepVars, tabVars, StartChecks
<1>1. TypeOK'
  BY DEF TypeOK
<1>2. \A z \in Sweeps : pc'[z] \in {"requesting", "fetching"} =>
        UNCHANGED <<pc[z], at[z], seen[z]>>
  BY DEF TypeOK
<1> QED
  BY <1>1, <1>2, RowsUntouched

\* A check that finds nothing leaves the rows alone (run_subprocessor_check).
LEMMA CheckEndsEmptyIInv == ASSUME IInv, NEW s \in Sweeps, CheckEndsEmpty(s) PROVE IInv'
<1> USE BoundsAssumption
    DEF IInv, Rows, Due, Stored, TimestampStatus, rowVars, sweepVars, tabVars, CheckEndsEmpty, Leave
<1>1. TypeOK'
  BY DEF TypeOK
<1>2. \A z \in Sweeps : pc'[z] \in {"requesting", "fetching"} =>
        UNCHANGED <<pc[z], at[z], seen[z]>>
  BY DEF TypeOK
<1> QED
  BY <1>1, <1>2, RowsUntouched

\* A sweep that ends changes no row (run_sweep_cycle).
LEMMA EndSweepIInv == ASSUME IInv, NEW s \in Sweeps, EndSweep(s) PROVE IInv'
<1> USE BoundsAssumption
    DEF IInv, Rows, Due, Stored, TimestampStatus, rowVars, sweepVars, tabVars, EndSweep
<1>1. TypeOK'
  BY DEF TypeOK
<1>2. \A z \in Sweeps : pc'[z] \in {"requesting", "fetching"} =>
        UNCHANGED <<pc[z], at[z], seen[z]>>
  BY DEF TypeOK
<1> QED
  BY <1>1, <1>2, RowsUntouched

\* A process that dies forgets its sweep and keeps the rows.
LEMMA CrashIInv == ASSUME IInv, NEW s \in Sweeps, Crash(s) PROVE IInv'
<1> USE BoundsAssumption
    DEF IInv, Rows, Due, Stored, TimestampStatus, rowVars, sweepVars, tabVars, Crash, Leave
<1>1. TypeOK'
  BY DEF TypeOK
<1>2. \A z \in Sweeps : pc'[z] \in {"requesting", "fetching"} =>
        UNCHANGED <<pc[z], at[z], seen[z]>>
  BY DEF TypeOK
<1> QED
  BY <1>1, <1>2, RowsUntouched

\* The trip-wires of stamp_change_event let only rows with a digest through.
LEMMA LoadRowIInv ==
  ASSUME IInv, NEW s \in Sweeps, NEW r \in Rows, LoadRow(s, r) PROVE IInv'
<1> USE ValuesAssumption, RowsAssumption, BoundsAssumption
    DEF IInv, Rows, Due, Stored, TimestampStatus, OnDiagram, Snapshot,
        rowVars, sweepVars, tabVars, LoadRow, MayRequest
<1>a. CASE status[r] \in Stored \ {"not_available_pre_tsa"} /\ digest[r] # NoDigest
  <2> DEFINE loaded == [status |-> status[r], digest |-> digest[r],
                        attempts |-> attempts[r], captured |-> TRUE]
  <2>1. loaded \in Snapshot
    BY <1>a DEF TypeOK
  <2>2. /\ pc' = [pc EXCEPT ![s] = "requesting"]
        /\ at' = [at EXCEPT ![s] = r]
        /\ seen' = [seen EXCEPT ![s] = loaded]
        /\ UNCHANGED status
    BY <1>a
  <2> HIDE DEF loaded, Snapshot
  <2>3. TypeOK'
    BY <2>1, <2>2 DEF TypeOK
  <2>4. RowsInv'
    BY <2>2 DEF RowsInv
  <2>5. /\ loaded.status = status[r]
        /\ loaded.digest = digest[r]
    BY DEF loaded
  <2>6. AttemptInv'
    BY <1>a, <2>1, <2>2, <2>5 DEF TypeOK, AttemptInv
  <2>7. CheckInv'
    BY <2>2 DEF TypeOK, CheckInv
  <2>8. RetryInv'
    BY <2>2 DEF RetryInv
  <2> QED
    BY <2>3, <2>4, <2>6, <2>7, <2>8
<1>b. CASE ~(status[r] \in Stored \ {"not_available_pre_tsa"} /\ digest[r] # NoDigest)
  \* By RowsInv no row takes this branch: it is not on the diagram.
  <2>1. status[r] \notin OnDiagram
    BY <1>b DEF RowsInv
  <2>2. UNCHANGED <<rowVars, pc, at, seen, tab>>
    BY <1>b, <2>1 DEF TypeOK
  <2>3. TypeOK'
    BY <2>2 DEF TypeOK
  <2> QED
    BY <2>2, <2>3, RowsUntouched
<1> QED
  BY <1>a, <1>b

\* A granted token covers the digest that was loaded (stamp_change_event).
LEMMA StampSucceedsIInv ==
  ASSUME IInv, NEW s \in Sweeps, NEW t \in Stamps, StampSucceeds(s, t) PROVE IInv'
<1> USE ValuesAssumption, RowsAssumption, BoundsAssumption
    DEF IInv, Rows, Due, Stored, TimestampStatus, OnDiagram, Snapshot,
        rowVars, sweepVars, tabVars, StampSucceeds, WriteAttempt, Leave, Dirty
<1>0. /\ at[s] \in Rows
      /\ seen[s] \in Snapshot
      /\ seen[s].digest \in Digests
      /\ seen[s].status \in OnDiagram
  BY DEF AttemptInv
<1>1. TypeOK'
  <2>1. [digest |-> seen[s].digest, stamp |-> t] \in [digest : Digests, stamp : Stamps]
    BY <1>0
  <2>2. status' \in [Rows -> TimestampStatus \cup {"absent", "deleted"}]
    BY <1>0 DEF TypeOK
  <2>3. token' \in [Rows -> [digest : Digests, stamp : Stamps] \cup {NoToken}]
    BY <2>1 DEF TypeOK
  <2>4. attempts' \in [Rows -> Nat]
    BY <1>0 DEF TypeOK
  <2>5. seen' \in [Sweeps -> Snapshot \cup {Nothing}]
    <3> HIDE DEF Snapshot
    <3> QED BY DEF TypeOK
  <2> QED
    BY <2>2, <2>3, <2>4, <2>5 DEF TypeOK
<1>2. RowsInv'
  BY DEF TypeOK, RowsInv, AttemptInv, CheckInv, RetryInv
<1>3. AttemptInv'
  BY DEF TypeOK, RowsInv, AttemptInv, CheckInv
<1>4. CheckInv'
  BY DEF TypeOK, RowsInv, AttemptInv, CheckInv
<1>5. RetryInv'
  BY DEF TypeOK, RowsInv, AttemptInv, RetryInv
<1> QED
  BY <1>1, <1>2, <1>3, <1>4, <1>5

\* A failed attempt writes no token (stamp_change_event).
LEMMA StampFailsIInv ==
  ASSUME IInv, NEW s \in Sweeps, StampFails(s) PROVE IInv'
<1> USE ValuesAssumption, RowsAssumption, BoundsAssumption
    DEF IInv, Rows, Due, Stored, TimestampStatus, OnDiagram, Snapshot,
        rowVars, sweepVars, tabVars, StampFails, AfterFailure, WriteAttempt, Leave, Dirty
<1>0. /\ at[s] \in Rows
      /\ seen[s] \in Snapshot
      /\ seen[s].status \in OnDiagram
  BY DEF AttemptInv
<1>1. TypeOK'
  <2>1. status' \in [Rows -> TimestampStatus \cup {"absent", "deleted"}]
    BY <1>0 DEF TypeOK
  <2>2. token' \in [Rows -> [digest : Digests, stamp : Stamps] \cup {NoToken}]
    BY <1>0 DEF TypeOK
  <2>3. attempts' \in [Rows -> Nat]
    BY <1>0 DEF TypeOK
  <2>4. seen' \in [Sweeps -> Snapshot \cup {Nothing}]
    <3> HIDE DEF Snapshot
    <3> QED BY DEF TypeOK
  <2> QED
    BY <2>1, <2>2, <2>3, <2>4 DEF TypeOK
<1>2. RowsInv'
  BY DEF TypeOK, RowsInv, AttemptInv, CheckInv, RetryInv
<1>3. AttemptInv'
  BY DEF TypeOK, RowsInv, AttemptInv, CheckInv
<1>4. CheckInv'
  BY DEF TypeOK, RowsInv, AttemptInv, CheckInv
<1>5. RetryInv'
  BY DEF TypeOK, RowsInv, AttemptInv, RetryInv
<1> QED
  BY <1>1, <1>2, <1>3, <1>4, <1>5

\* A check loads its source before it fetches (run_subprocessor_check).
LEMMA LoadSourceIInv ==
  ASSUME IInv, NEW s \in Sweeps, NEW x \in Sources, LoadSource(s, x) PROVE IInv'
<1> USE ValuesAssumption, RowsAssumption, BoundsAssumption
    DEF IInv, Rows, Due, Stored, TimestampStatus, OnDiagram, Snapshot,
        rowVars, sweepVars, tabVars, LoadSource
<1>0. status[x] \in Stored =>
        [status |-> status[x], digest |-> digest[x],
         attempts |-> attempts[x], captured |-> captured[x]] \in Snapshot
  BY DEF TypeOK
<1>1. TypeOK'
  <2>1. /\ pc' \in [Sweeps -> {"idle", "stamping", "requesting", "checking", "fetching"}]
        /\ todo' \in [Sweeps -> SUBSET Rows]
    BY DEF TypeOK
  <2>2. at' \in [Sweeps -> Rows \cup {Nothing}]
    BY DEF TypeOK
  <2>3. seen' \in [Sweeps -> Snapshot \cup {Nothing}]
    <3> HIDE DEF Snapshot
    <3> QED BY <1>0 DEF TypeOK
  <2> HIDE DEF Snapshot
  <2> QED
    BY <2>1, <2>2, <2>3, SMTT(30) DEF TypeOK
<1>2. RowsInv'
  BY DEF TypeOK, RowsInv, AttemptInv, CheckInv, RetryInv
<1>3. AttemptInv'
  BY DEF TypeOK, RowsInv, AttemptInv, CheckInv
<1>4. CheckInv'
  BY DEF TypeOK, RowsInv, AttemptInv, CheckInv
<1>5. RetryInv'
  BY DEF TypeOK, RowsInv, AttemptInv, RetryInv
<1> QED
  BY <1>1, <1>2, <1>3, <1>4, <1>5

\* A first capture writes digest and status together (run_subprocessor_check).
LEMMA CaptureBaselineIInv ==
  ASSUME IInv, NEW s \in Sweeps, NEW d \in Digests, CaptureBaseline(s, d) PROVE IInv'
<1> USE ValuesAssumption, RowsAssumption, BoundsAssumption
    DEF IInv, Rows, Due, Stored, TimestampStatus, OnDiagram, Snapshot,
        rowVars, sweepVars, tabVars, CaptureBaseline, Leave, Dirty
<1>1. TypeOK'
  BY DEF TypeOK
<1>2. RowsInv'
  BY DEF TypeOK, RowsInv, AttemptInv, CheckInv, RetryInv
<1>3. AttemptInv'
  BY DEF TypeOK, RowsInv, AttemptInv, CheckInv
<1>4. CheckInv'
  BY DEF TypeOK, RowsInv, AttemptInv, CheckInv
<1>5. RetryInv'
  BY DEF TypeOK, RowsInv, AttemptInv, RetryInv
<1> QED
  BY <1>1, <1>2, <1>3, <1>4, <1>5

\* A new event is stored due, with its digest (run_subprocessor_check).
LEMMA CaptureEventIInv ==
  ASSUME IInv, NEW s \in Sweeps, NEW e \in Events, NEW d \in Digests, CaptureEvent(s, e, d) PROVE IInv'
<1> USE ValuesAssumption, RowsAssumption, BoundsAssumption
    DEF IInv, Rows, Due, Stored, TimestampStatus, OnDiagram, Snapshot,
        rowVars, sweepVars, tabVars, CaptureEvent, Leave
<1>1. TypeOK'
  BY DEF TypeOK
<1>2. RowsInv'
  BY DEF TypeOK, RowsInv, AttemptInv, CheckInv, RetryInv
<1>3. AttemptInv'
  BY DEF TypeOK, RowsInv, AttemptInv, CheckInv
<1>4. CheckInv'
  BY DEF TypeOK, RowsInv, AttemptInv, CheckInv
<1>5. RetryInv'
  BY DEF TypeOK, RowsInv, AttemptInv, RetryInv
<1> QED
  BY <1>1, <1>2, <1>3, <1>4, <1>5

\* A new source has nothing to stamp (create_subprocessor).
LEMMA AddSourceIInv ==
  ASSUME IInv, NEW x \in Sources, AddSource(x) PROVE IInv'
<1> USE ValuesAssumption, RowsAssumption, BoundsAssumption
    DEF IInv, Rows, Due, Stored, TimestampStatus, OnDiagram, Snapshot,
        rowVars, sweepVars, tabVars, AddSource
<1>1. TypeOK'
  BY DEF TypeOK
<1>2. RowsInv'
  BY DEF TypeOK, RowsInv, AttemptInv, CheckInv, RetryInv
<1>3. AttemptInv'
  BY DEF TypeOK, RowsInv, AttemptInv, CheckInv
<1>4. CheckInv'
  BY DEF TypeOK, RowsInv, AttemptInv, CheckInv
<1>5. RetryInv'
  BY DEF TypeOK, RowsInv, AttemptInv, RetryInv
<1> QED
  BY <1>1, <1>2, <1>3, <1>4, <1>5

\* A source goes only when it has no events (delete_subprocessor).
LEMMA DeleteSourceIInv ==
  ASSUME IInv, NEW x \in Sources, DeleteSource(x) PROVE IInv'
<1> USE ValuesAssumption, RowsAssumption, BoundsAssumption
    DEF IInv, Rows, Due, Stored, TimestampStatus, OnDiagram, Snapshot,
        rowVars, sweepVars, tabVars, DeleteSource
<1>1. TypeOK'
  BY DEF TypeOK
<1>2. RowsInv'
  BY DEF TypeOK, RowsInv, AttemptInv, CheckInv, RetryInv
<1>3. AttemptInv'
  BY DEF TypeOK, RowsInv, AttemptInv, CheckInv
<1>4. CheckInv'
  BY DEF TypeOK, RowsInv, AttemptInv, CheckInv
<1>5. RetryInv'
  BY DEF TypeOK, RowsInv, AttemptInv, RetryInv
<1> QED
  BY <1>1, <1>2, <1>3, <1>4, <1>5

\* Only a failed event enters a manual retry (retry_timestamp).
LEMMA OpenRetryIInv ==
  ASSUME IInv, NEW t \in Tabs, NEW e \in Events, OpenRetry(t, e) PROVE IInv'
<1> USE ValuesAssumption, RowsAssumption, BoundsAssumption
    DEF IInv, Rows, Due, Stored, TimestampStatus, OnDiagram, Snapshot,
        rowVars, sweepVars, tabVars, OpenRetry
<1>1. TypeOK'
  BY DEF TypeOK
<1>2. RowsInv'
  BY DEF TypeOK, RowsInv, AttemptInv, CheckInv, RetryInv
<1>3. AttemptInv'
  BY DEF TypeOK, RowsInv, AttemptInv, CheckInv
<1>4. CheckInv'
  BY DEF TypeOK, RowsInv, AttemptInv, CheckInv
<1>5. RetryInv'
  BY DEF TypeOK, RowsInv, AttemptInv, RetryInv
<1> QED
  BY <1>1, <1>2, <1>3, <1>4, <1>5

\* A manual retry makes a row due that has a digest (retry_timestamp).
LEMMA CommitRetryIInv ==
  ASSUME IInv, NEW t \in Tabs, CommitRetry(t) PROVE IInv'
<1> USE ValuesAssumption, RowsAssumption, BoundsAssumption
    DEF IInv, Rows, Due, Stored, TimestampStatus, OnDiagram, Snapshot,
        rowVars, sweepVars, tabVars, CommitRetry, Dirty
<1>1. TypeOK'
  BY DEF TypeOK
<1>2. RowsInv'
  BY DEF TypeOK, RowsInv, AttemptInv, CheckInv, RetryInv
<1>3. AttemptInv'
  BY DEF TypeOK, RowsInv, AttemptInv, CheckInv
<1>4. CheckInv'
  BY DEF TypeOK, RowsInv, AttemptInv, CheckInv
<1>5. RetryInv'
  BY DEF TypeOK, RowsInv, AttemptInv, RetryInv
<1> QED
  BY <1>1, <1>2, <1>3, <1>4, <1>5

\* Every step of every sweep, request and tenant keeps IInv.
LEMMA NextIInv == IInv /\ [Next]_vars => IInv'
<1> SUFFICES ASSUME IInv, [Next]_vars PROVE IInv'
  OBVIOUS
<1>1. ASSUME NEW s \in Sweeps, SweepStep(s) PROVE IInv'
  BY <1>1, StartPassIInv, LoadRowIInv, StampSucceedsIInv, StampFailsIInv,
     StartChecksIInv, LoadSourceIInv, CaptureBaselineIInv, CaptureEventIInv,
     CheckEndsEmptyIInv, EndSweepIInv DEF SweepStep
<1>2. ASSUME NEW s \in Sweeps, StampAborts(s) \/ Crash(s) PROVE IInv'
  BY <1>2, StampAbortsIInv, CrashIInv
<1>3. CASE Tenant
  BY <1>3, AddSourceIInv, DeleteSourceIInv, OpenRetryIInv, CommitRetryIInv DEF Tenant
<1>4. CASE UNCHANGED vars
  <2>1. TypeOK'
    BY <1>4 DEF IInv, TypeOK, vars, rowVars, sweepVars, tabVars
  <2> QED
    BY <1>4, <2>1, RowsUntouched DEF vars, rowVars, sweepVars, tabVars
<1> QED
  BY <1>1, <1>2, <1>3, <1>4 DEF Next

\* The rows and the copies in flight agree in every reachable state.
THEOREM Invariance == Spec => []IInv
BY InitIInv, NextIInv, PTL DEF Spec

-----------------------------------------------------------------------------
\* Every variable keeps its type, for any number of rows, sweeps and requests.
THEOREM TypeCorrect == Spec => []TypeOK
BY Invariance, PTL DEF IInv

\* KURAL 0, first half: a row filed under not_available_pre_tsa never holds a
\* token, whatever sweeps and retry requests overlap.
THEOREM PreTsaUnstamped == Spec => []PreTsaHasNoToken
<1>1. IInv => PreTsaHasNoToken
  BY DEF IInv, RowsInv, PreTsaHasNoToken
<1> QED
  BY <1>1, Invariance, PTL

\* An event that claims to be timestamped holds a token over its own digest,
\* however many attempts raced for it.
THEOREM EventTokensCover == Spec => []TokenCoversEvent
<1>1. IInv => TokenCoversEvent
  BY DEF IInv, RowsInv, TokenCoversEvent
<1> QED
  BY <1>1, Invariance, PTL

\* stamp_change_event never meets a due row without a digest.
THEOREM DueRowsHaveDigest == Spec => []DueHasDigest
<1>1. IInv => DueHasDigest
  BY DEF IInv, RowsInv, OnDiagram, Due, DueHasDigest
<1> QED
  BY <1>1, Invariance, PTL

\* KURAL 0, second half: no step makes a row eligible that was captured before
\* timestamping existed.
THEOREM PreTsaTerminal == Spec => PreTsaIsTerminal
<1>1. IInv /\ [Next]_vars => [PreTsaStays]_vars
  <2> SUFFICES ASSUME IInv, Next PROVE PreTsaStays
    OBVIOUS
  <2> USE RowsAssumption DEF PreTsaStays, IInv, OnDiagram, Rows, Stored, TimestampStatus, Due
  <2>1. ASSUME NEW s \in Sweeps, SweepStep(s) PROVE PreTsaStays
    <3> USE DEF rowVars
    <3>1. ASSUME NEW r \in Rows, LoadRow(s, r) PROVE PreTsaStays
      BY <3>1 DEF TypeOK, RowsInv, LoadRow, MayRequest
    <3>2. ASSUME NEW t \in Stamps, StampSucceeds(s, t) PROVE PreTsaStays
      BY <3>2 DEF TypeOK, AttemptInv, StampSucceeds, WriteAttempt
    <3>3. CASE StampFails(s)
      BY <3>3 DEF TypeOK, AttemptInv, StampFails, WriteAttempt
    <3>4. ASSUME NEW d \in Digests, CaptureBaseline(s, d) PROVE PreTsaStays
      BY <3>4 DEF TypeOK, CheckInv, CaptureBaseline, Dirty
    <3>5. ASSUME NEW e \in Events, NEW d \in Digests, CaptureEvent(s, e, d) PROVE PreTsaStays
      BY <3>5 DEF TypeOK, CaptureEvent
    <3>6. CASE UNCHANGED status
      BY <3>6 DEF TypeOK
    <3> QED
      BY <2>1, <3>1, <3>2, <3>3, <3>4, <3>5, <3>6
      DEF SweepStep, StartPass, StartChecks, LoadSource, CheckEndsEmpty, EndSweep
  <2>2. ASSUME NEW s \in Sweeps, StampAborts(s) \/ Crash(s) PROVE PreTsaStays
    BY <2>2 DEF StampAborts, Crash, rowVars
  <2>3. CASE Tenant
    BY <2>3 DEF TypeOK, RetryInv, Tenant, AddSource, DeleteSource, OpenRetry, CommitRetry, rowVars
  <2> QED
    BY <2>1, <2>2, <2>3 DEF Next
<1> QED
  BY <1>1, Invariance, PTL DEF Spec, PreTsaIsTerminal

-----------------------------------------------------------------------------
(* One sweep at a time, as the in-process scheduler runs them, and one     *)
(* retry request at a time.  Then nothing else writes to the row a sweep   *)
(* awaits an answer for, except to delete it, and a retry request meets    *)
(* the row it loaded.                                                      *)

OneOfEach == /\ \A a, b \in Sweeps : a = b
             /\ \A a, b \in Tabs : a = b

AsLoaded ==
  \A s \in Sweeps :
    /\ pc[s] \in {"stamping", "requesting"} =>
         \A r \in todo[s] : status[r] \in Due \cup {"deleted"}
    /\ pc[s] = "requesting" =>
         /\ at[s] \notin todo[s]
         /\ seen[s].status \in Due
         /\ status[at[s]] \in {seen[s].status, "deleted"}
         /\ seen[s].digest = digest[at[s]]
         /\ seen[s].attempts = attempts[at[s]]
    /\ pc[s] = "fetching" => seen[s].captured = captured[at[s]]

RetryHeld ==
  \A t \in Tabs : tab[t] # Nothing =>
    /\ status[tab[t]] = "failed"
    /\ tabSeen[t] = attempts[tab[t]]

SettledInv ==
  \A r \in Rows :
    /\ status[r] \in {"absent", "not_available_pre_tsa"} => attempts[r] = 0
    /\ status[r] \in Due => attempts[r] < MaxAttempts
    /\ status[r] = "timestamped" => token[r] # NoToken
    /\ token[r] # NoToken => token[r].digest = digest[r]

SoloInv == AsLoaded /\ RetryHeld /\ SettledInv

\* Nothing is loaded at the start and nothing is due.
LEMMA InitSoloInv == Init => SoloInv
BY RowsAssumption, MaxAttemptsAssumption
DEF Init, SoloInv, AsLoaded, RetryHeld, SettledInv, Due, Rows

\* A step that writes to no row and lists or loads none.
LEMMA SoloUntouched ==
  ASSUME SoloInv, UNCHANGED rowVars,
         \A s \in Sweeps :
           /\ pc'[s] \in {"stamping", "requesting"} =>
                /\ pc[s] \in {"stamping", "requesting"}
                /\ UNCHANGED todo[s]
           /\ pc'[s] \in {"requesting", "fetching"} => UNCHANGED <<pc[s], at[s], seen[s]>>,
         \A t \in Tabs : UNCHANGED <<tab[t], tabSeen[t]>>
  PROVE  SoloInv'
<1> USE DEF SoloInv, rowVars
<1>1. AsLoaded'
  BY DEF AsLoaded
<1>2. RetryHeld' /\ SettledInv'
  BY DEF RetryHeld, SettledInv
<1> QED
  BY <1>1, <1>2

\* An attempt that raises leaves its row alone (run_timestamp_retry_pass).
LEMMA StampAbortsSolo == ASSUME IInv, SoloInv, NEW s \in Sweeps, StampAborts(s) PROVE SoloInv'
<1> USE DEF IInv, TypeOK, rowVars, sweepVars, tabVars, StampAborts, Leave
<1>1. \A z \in Sweeps :
        /\ pc'[z] \in {"stamping", "requesting"} =>
             /\ pc[z] \in {"stamping", "requesting"}
             /\ UNCHANGED todo[z]
        /\ pc'[z] \in {"requesting", "fetching"} => UNCHANGED <<pc[z], at[z], seen[z]>>
  OBVIOUS
<1> QED
  BY <1>1, SoloUntouched

\* The checks list sources, the stamping pass is over (sweep_due_subprocessors).
LEMMA StartChecksSolo == ASSUME IInv, SoloInv, NEW s \in Sweeps, StartChecks(s) PROVE SoloInv'
<1> USE DEF IInv, TypeOK, rowVars, sweepVars, tabVars, StartChecks
<1>1. \A z \in Sweeps :
        /\ pc'[z] \in {"stamping", "requesting"} =>
             /\ pc[z] \in {"stamping", "requesting"}
             /\ UNCHANGED todo[z]
        /\ pc'[z] \in {"requesting", "fetching"} => UNCHANGED <<pc[z], at[z], seen[z]>>
  OBVIOUS
<1> QED
  BY <1>1, SoloUntouched

\* A check that finds nothing writes to no row (run_subprocessor_check).
LEMMA CheckEndsEmptySolo == ASSUME IInv, SoloInv, NEW s \in Sweeps, CheckEndsEmpty(s) PROVE SoloInv'
<1> USE DEF IInv, TypeOK, rowVars, sweepVars, tabVars, CheckEndsEmpty, Leave
<1>1. \A z \in Sweeps :
        /\ pc'[z] \in {"stamping", "requesting"} =>
             /\ pc[z] \in {"stamping", "requesting"}
             /\ UNCHANGED todo[z]
        /\ pc'[z] \in {"requesting", "fetching"} => UNCHANGED <<pc[z], at[z], seen[z]>>
  OBVIOUS
<1> QED
  BY <1>1, SoloUntouched

\* A sweep that ends writes to no row (run_sweep_cycle).
LEMMA EndSweepSolo == ASSUME IInv, SoloInv, NEW s \in Sweeps, EndSweep(s) PROVE SoloInv'
<1> USE DEF IInv, TypeOK, rowVars, sweepVars, tabVars, EndSweep
<1>1. \A z \in Sweeps :
        /\ pc'[z] \in {"stamping", "requesting"} =>
             /\ pc[z] \in {"stamping", "requesting"}
             /\ UNCHANGED todo[z]
        /\ pc'[z] \in {"requesting", "fetching"} => UNCHANGED <<pc[z], at[z], seen[z]>>
  OBVIOUS
<1> QED
  BY <1>1, SoloUntouched

\* A process that dies forgets what it had listed and loaded.
LEMMA CrashSolo == ASSUME IInv, SoloInv, NEW s \in Sweeps, Crash(s) PROVE SoloInv'
<1> USE DEF IInv, TypeOK, rowVars, sweepVars, tabVars, Crash, Leave
<1>1. \A z \in Sweeps :
        /\ pc'[z] \in {"stamping", "requesting"} =>
             /\ pc[z] \in {"stamping", "requesting"}
             /\ UNCHANGED todo[z]
        /\ pc'[z] \in {"requesting", "fetching"} => UNCHANGED <<pc[z], at[z], seen[z]>>
  OBVIOUS
<1> QED
  BY <1>1, SoloUntouched

\* What a pass lists is due when it lists it (stamp_pending_events).
LEMMA StartPassSolo == ASSUME IInv, SoloInv, NEW s \in Sweeps, StartPass(s) PROVE SoloInv'
<1> USE DEF IInv, TypeOK, SoloInv, rowVars, tabVars, StartPass
<1>1. AsLoaded'
  BY DEF AsLoaded, Selected
<1>2. RetryHeld' /\ SettledInv'
  BY DEF RetryHeld, SettledInv
<1> QED
  BY <1>1, <1>2

\* What a pass loads is still due, or deleted: no other sweep has reached it.
LEMMA LoadRowSolo ==
  ASSUME OneOfEach, IInv, SoloInv, NEW s \in Sweeps, NEW r \in Rows, LoadRow(s, r)
  PROVE  SoloInv'
<1> USE DEF IInv, SoloInv, rowVars, tabVars
<1>1. /\ status[r] \in Due \cup {"deleted"}
      /\ todo' = [todo EXCEPT ![s] = @ \ {r}]
      /\ pc[s] = "stamping"
      /\ UNCHANGED <<status, digest, token, attempts, captured, tab, tabSeen>>
  BY DEF TypeOK, RowsInv, LoadRow, MayRequest, AsLoaded, Due, Stored, TimestampStatus, OnDiagram
<1>2. RetryHeld' /\ SettledInv'
  BY <1>1 DEF RetryHeld, SettledInv
<1>3. \A z \in Sweeps : \A q \in todo'[z] : q \in todo[z] /\ (z = s => q # r)
  BY <1>1 DEF TypeOK
<1>4. CASE MayRequest(r)
  <2>1. /\ pc' = [pc EXCEPT ![s] = "requesting"]
        /\ at' = [at EXCEPT ![s] = r]
        /\ seen' = [seen EXCEPT ![s] =
             [status |-> status[r], digest |-> digest[r],
              attempts |-> attempts[r], captured |-> TRUE]]
    BY <1>4 DEF LoadRow
  <2>2. status[r] \in Due
    BY <1>1, <1>4 DEF MayRequest, Stored, TimestampStatus
  <2>3. /\ pc'[s] = "requesting" /\ at'[s] = r
        /\ seen'[s].status = status[r]
        /\ seen'[s].digest = digest[r]
        /\ seen'[s].attempts = attempts[r]
    BY <2>1 DEF TypeOK
  <2>4. \A z \in Sweeps : z = s
    BY DEF OneOfEach
  <2> HIDE DEF IInv
  <2>5. AsLoaded'
    BY <1>1, <1>3, <2>2, <2>3, <2>4 DEF AsLoaded
  <2> QED
    BY <1>2, <2>5
<1>5. CASE ~MayRequest(r)
  <2>1. UNCHANGED <<pc, at, seen>>
    BY <1>5 DEF LoadRow
  <2>2. AsLoaded'
    BY <1>1, <1>3, <2>1 DEF AsLoaded
  <2> QED
    BY <1>2, <2>2
<1> QED
  BY <1>4, <1>5

\* What the outcome of an attempt does to its row.
Settles(r, newStatus, newToken) ==
  /\ status' = [status EXCEPT ![r] = newStatus]
  /\ token' = [token EXCEPT ![r] = newToken]
  /\ attempts' = [attempts EXCEPT ![r] = @ + 1]

\* An attempt writes what it decided if the row is still there, and nothing
\* if it was deleted (stamp_change_event, stamp_baseline).
LEMMA AttemptStores ==
  ASSUME IInv, SoloInv, NEW s \in Sweeps, pc[s] = "requesting",
         NEW newStatus \in TimestampStatus, NEW newToken,
         WriteAttempt(s, newStatus, newToken)
  PROVE  /\ at[s] \in Rows
         /\ \/ /\ status[at[s]] = "deleted"
               /\ UNCHANGED <<status, token, attempts>>
            \/ /\ status[at[s]] \in Due
               /\ seen[s].status = status[at[s]]
               /\ seen[s].attempts = attempts[at[s]]
               /\ Settles(at[s], newStatus, newToken)
<1>1. /\ at[s] \in Rows
      /\ seen[s].status \in Due
      /\ seen[s].attempts = attempts[at[s]]
      /\ status[at[s]] \in {seen[s].status, "deleted"}
  BY DEF IInv, AttemptInv, SoloInv, AsLoaded
<1>2. CASE status[at[s]] = "deleted"
  <2>1. status[at[s]] \notin Stored
    BY <1>2 DEF Stored, TimestampStatus
  <2>2. /\ status' = [status EXCEPT ![at[s]] = status[at[s]]]
        /\ attempts' = [attempts EXCEPT ![at[s]] = attempts[at[s]]]
        /\ token' = [token EXCEPT ![at[s]] = token[at[s]]]
    BY <2>1 DEF WriteAttempt
  <2> QED
    BY <1>1, <1>2, <2>2 DEF IInv, TypeOK
<1>3. CASE status[at[s]] = seen[s].status
  <2>1. status[at[s]] \in Stored
    BY <1>1, <1>3 DEF Stored, TimestampStatus, Due
  <2>2. Dirty(seen[s].status, newStatus, status[at[s]]) = newStatus
    BY <1>3 DEF Dirty
  <2>3. /\ status' = [status EXCEPT ![at[s]] = newStatus]
        /\ attempts' = [attempts EXCEPT ![at[s]] = seen[s].attempts + 1]
        /\ token' = [token EXCEPT ![at[s]] = newToken]
    BY <2>1, <2>2 DEF WriteAttempt
  <2> QED
    BY <1>1, <1>3, <2>3 DEF Settles
<1> QED
  BY <1>1, <1>2, <1>3

\* A sweep that has left its row holds nothing as loaded, and what it has
\* still to reach is not the row it wrote to.
LEMMA LeaveSolo ==
  ASSUME OneOfEach, IInv, SoloInv, NEW s \in Sweeps, pc[s] = "requesting",
         Leave(s, "stamping"), UNCHANGED todo,
         \A r \in Rows \ {at[s]} : UNCHANGED status[r]
  PROVE  AsLoaded'
<1>1. \A z \in Sweeps : z = s
  BY DEF OneOfEach
<1>2. pc'[s] = "stamping"
  BY DEF Leave, IInv, TypeOK
<1>3. \A r \in todo[s] : r \in Rows /\ r # at[s] /\ status[r] \in Due \cup {"deleted"}
  BY DEF IInv, TypeOK, SoloInv, AsLoaded
<1> QED
  BY <1>1, <1>2, <1>3 DEF AsLoaded

\* A granted token covers the digest of the row, which is the one loaded.
LEMMA StampSucceedsSolo ==
  ASSUME OneOfEach, IInv, SoloInv, NEW s \in Sweeps, NEW t \in Stamps, StampSucceeds(s, t)
  PROVE  SoloInv'
<1> DEFINE granted == [digest |-> seen[s].digest, stamp |-> t]
<1>1. /\ pc[s] = "requesting"
      /\ WriteAttempt(s, "timestamped", granted)
      /\ Leave(s, "stamping")
      /\ UNCHANGED <<digest, captured, todo, tab, tabSeen>>
  BY DEF StampSucceeds, tabVars
<1>2. /\ seen[s].digest = digest[at[s]]
      /\ seen[s].digest # NoDigest
      /\ seen[s].digest \in Digests
  BY <1>1 DEF IInv, AttemptInv, SoloInv, AsLoaded, Snapshot
<1>3. granted \in [digest : Digests, stamp : Stamps] /\ granted.digest = digest[at[s]]
  BY <1>2
<1>4. granted # NoToken
  BY <1>3, ValuesAssumption
<1> HIDE DEF granted
<1>5. /\ at[s] \in Rows
      /\ \/ UNCHANGED <<status, token, attempts>>
         \/ status[at[s]] \in Due /\ Settles(at[s], "timestamped", granted)
  BY <1>1, AttemptStores DEF TimestampStatus
<1>6. AsLoaded'
  BY <1>1, <1>5, LeaveSolo DEF Settles, IInv, TypeOK
<1>7. RetryHeld'
  BY <1>1, <1>5, RowsAssumption DEF SoloInv, RetryHeld, Settles, IInv, TypeOK, Due, Rows
<1>8. SettledInv'
  BY <1>1, <1>3, <1>4, <1>5 DEF SoloInv, SettledInv, Settles, IInv, TypeOK, Due
<1> QED
  BY <1>6, <1>7, <1>8 DEF SoloInv

\* The last try a row has is seen as the last: it fails the row.
LEMMA StampFailsSolo ==
  ASSUME OneOfEach, IInv, SoloInv, NEW s \in Sweeps, StampFails(s)
  PROVE  SoloInv'
<1> DEFINE new == AfterFailure(seen[s].attempts)
<1>1. /\ pc[s] = "requesting"
      /\ WriteAttempt(s, new, token[at[s]])
      /\ Leave(s, "stamping")
      /\ UNCHANGED <<digest, captured, todo, tab, tabSeen>>
  BY DEF StampFails, tabVars
<1>2. /\ seen[s].attempts = attempts[at[s]]
      /\ at[s] \in Rows
      /\ attempts[at[s]] \in Nat
  BY <1>1 DEF IInv, TypeOK, AttemptInv, SoloInv, AsLoaded
<1>3. new \in {"failed", "retrying"} /\ (new = "retrying" => attempts[at[s]] + 1 < MaxAttempts)
  BY <1>2, MaxAttemptsAssumption DEF AfterFailure
<1> HIDE DEF new
<1>4. \/ UNCHANGED <<status, token, attempts>>
      \/ status[at[s]] \in Due /\ Settles(at[s], new, token[at[s]])
  BY <1>1, <1>3, AttemptStores DEF TimestampStatus
<1>5. AsLoaded'
  BY <1>1, <1>2, <1>4, LeaveSolo DEF Settles, IInv, TypeOK
<1>6. RetryHeld'
  BY <1>1, <1>2, <1>4, RowsAssumption DEF SoloInv, RetryHeld, Settles, IInv, TypeOK, Due, Rows
<1>7. SettledInv'
  BY <1>1, <1>2, <1>3, <1>4 DEF SoloInv, SettledInv, Settles, IInv, TypeOK, Due
<1> QED
  BY <1>5, <1>6, <1>7 DEF SoloInv

\* A check holds the source as it is: only its own sweep captures it.
LEMMA LoadSourceSolo ==
  ASSUME OneOfEach, IInv, SoloInv, NEW s \in Sweeps, NEW x \in Sources, LoadSource(s, x)
  PROVE  SoloInv'
<1> USE DEF IInv, SoloInv, rowVars, tabVars, LoadSource
<1>1. RetryHeld' /\ SettledInv'
  BY DEF RetryHeld, SettledInv
<1>2. \A z \in Sweeps : z = s
  BY DEF OneOfEach
<1>3. CASE status[x] \in Stored
  <2>1. pc'[s] = "fetching" /\ at'[s] = x /\ seen'[s].captured = captured[x]
    BY <1>3 DEF TypeOK
  <2>2. UNCHANGED captured
    OBVIOUS
  <2> HIDE DEF IInv, LoadSource, SoloInv
  <2>3. AsLoaded'
    BY <1>2, <2>1, <2>2 DEF AsLoaded
  <2> QED
    BY <1>1, <2>3 DEF SoloInv
<1>4. CASE status[x] \notin Stored
  <2>1. pc'[s] = "checking"
    BY <1>4
  <2>2. AsLoaded'
    BY <1>2, <2>1 DEF AsLoaded
  <2> QED
    BY <1>1, <2>2
<1> QED
  BY <1>3, <1>4

\* The first capture meets a source that is not_available_pre_tsa and was
\* never captured, and stores it due with all its tries.
LEMMA CaptureStores ==
  ASSUME IInv, SoloInv, NEW s \in Sweeps, NEW d \in Digests, CaptureBaseline(s, d)
  PROVE  /\ at[s] \in Sources /\ at[s] \in Rows
         /\ ~captured[at[s]]
         /\ status[at[s]] = "not_available_pre_tsa"
         /\ token[at[s]] = NoToken
         /\ status' = [status EXCEPT ![at[s]] = "pending"]
         /\ digest' = [digest EXCEPT ![at[s]] = d]
         /\ captured' = [captured EXCEPT ![at[s]] = TRUE]
         /\ UNCHANGED <<token, attempts, tab, tabSeen>>
<1>1. /\ at[s] \in Sources /\ at[s] \in Rows
      /\ ~captured[at[s]]
      /\ seen[s].digest = NoDigest
      /\ seen[s].status = "not_available_pre_tsa"
      /\ digest[at[s]] = NoDigest
  BY DEF CaptureBaseline, IInv, CheckInv, RowsInv, SoloInv, AsLoaded, Rows
<1>2. status[at[s]] = "not_available_pre_tsa"
  BY <1>1 DEF CaptureBaseline, IInv, RowsInv, Stored, TimestampStatus, OnDiagram
<1>3. token[at[s]] = NoToken
  BY <1>1, <1>2 DEF IInv, RowsInv
<1>4. /\ Dirty(seen[s].digest, d, digest[at[s]]) = d
      /\ Dirty(seen[s].status, "pending", status[at[s]]) = "pending"
  BY <1>1, <1>2, ValuesAssumption DEF Dirty
<1> QED
  BY <1>1, <1>2, <1>3, <1>4 DEF CaptureBaseline, tabVars

\* A captured baseline is due and has no token of an earlier one.
LEMMA CaptureBaselineSolo ==
  ASSUME OneOfEach, IInv, SoloInv, NEW s \in Sweeps, NEW d \in Digests, CaptureBaseline(s, d)
  PROVE  SoloInv'
<1>1. \A z \in Sweeps : z = s
  BY DEF OneOfEach
<1>2. pc'[s] = "checking"
  BY DEF CaptureBaseline, Leave, IInv, TypeOK
<1>3. AsLoaded'
  BY <1>1, <1>2 DEF AsLoaded
<1>4. RetryHeld'
  BY CaptureStores DEF SoloInv, RetryHeld, IInv, TypeOK, Rows
<1>5. SettledInv'
  BY CaptureStores, MaxAttemptsAssumption DEF SoloInv, SettledInv, IInv, TypeOK, Due
<1> QED
  BY <1>3, <1>4, <1>5 DEF SoloInv

\* A new event is due and has all its tries.
LEMMA CaptureEventSolo ==
  ASSUME OneOfEach, IInv, SoloInv, NEW s \in Sweeps, NEW e \in Events, NEW d \in Digests,
         CaptureEvent(s, e, d)
  PROVE  SoloInv'
<1>1. \A z \in Sweeps : z = s
  BY DEF OneOfEach
<1>2. pc'[s] = "checking"
  BY DEF CaptureEvent, Leave, IInv, TypeOK
<1>3. AsLoaded'
  BY <1>1, <1>2 DEF AsLoaded
<1>4. /\ e \in Rows
      /\ status[e] = "absent"
      /\ token[e] = NoToken
      /\ status' = [status EXCEPT ![e] = "pending"]
      /\ digest' = [digest EXCEPT ![e] = d]
      /\ UNCHANGED <<token, attempts, tab, tabSeen>>
  BY DEF CaptureEvent, tabVars, IInv, RowsInv, Rows
<1>5. RetryHeld'
  BY <1>4 DEF SoloInv, RetryHeld, IInv, TypeOK
<1>6. SettledInv'
  BY <1>4, MaxAttemptsAssumption DEF SoloInv, SettledInv, IInv, TypeOK, Due
<1> QED
  BY <1>3, <1>5, <1>6 DEF SoloInv

\* A source that is added or deleted is no failed event, and was not loaded
\* if it is new.
LEMMA SourceSolo ==
  ASSUME IInv, SoloInv, NEW x \in Sources, AddSource(x) \/ DeleteSource(x)
  PROVE  SoloInv'
<1>1. /\ x \in Rows
      /\ x \notin Events
      /\ \/ /\ status[x] = "absent"
            /\ status' = [status EXCEPT ![x] = "not_available_pre_tsa"]
         \/ status' = [status EXCEPT ![x] = "deleted"]
      /\ UNCHANGED <<digest, token, attempts, captured, pc, todo, at, seen, tab, tabSeen>>
  BY RowsAssumption DEF AddSource, DeleteSource, sweepVars, tabVars, Rows
<1>2. status \in [Rows -> TimestampStatus \cup {"absent", "deleted"}]
  BY DEF IInv, TypeOK
<1>3. AsLoaded'
  <2>1. \A r \in Rows : status'[r] = status[r] \/ status[r] = "absent" \/ status'[r] = "deleted"
    BY <1>1, <1>2
  <2>2. \A s \in Sweeps : todo[s] \subseteq Rows /\ (pc[s] = "requesting" => at[s] \in Rows)
    BY DEF IInv, TypeOK, AttemptInv
  <2> QED
    BY <1>1, <2>1, <2>2 DEF SoloInv, AsLoaded, Due
<1>4. RetryHeld'
  BY <1>1, <1>2 DEF SoloInv, RetryHeld, IInv, TypeOK, Rows
<1>5. SettledInv'
  BY <1>1, <1>2 DEF SoloInv, SettledInv, Due
<1> QED
  BY <1>3, <1>4, <1>5 DEF SoloInv

\* The request holds the failed event with the attempts it has.
LEMMA OpenRetrySolo ==
  ASSUME IInv, SoloInv, NEW t \in Tabs, NEW e \in Events, OpenRetry(t, e)
  PROVE  SoloInv'
<1> USE DEF SoloInv, OpenRetry, rowVars, sweepVars
<1>1. AsLoaded' /\ SettledInv'
  BY DEF AsLoaded, SettledInv
<1>2. RetryHeld'
  BY DEF RetryHeld, IInv, TypeOK
<1> QED
  BY <1>1, <1>2

\* What a retry request commits.
LEMMA RetryStores ==
  ASSUME IInv, SoloInv, NEW t \in Tabs, CommitRetry(t)
  PROVE  /\ tab[t] \in Events /\ tab[t] \in Rows
         /\ status[tab[t]] = "failed"
         /\ status' = [status EXCEPT ![tab[t]] = "retrying"]
         /\ attempts' = [attempts EXCEPT ![tab[t]] = 0]
         /\ UNCHANGED <<digest, token, captured, pc, todo, at, seen>>
<1>1. /\ tab[t] \in Events /\ tab[t] \in Rows
      /\ status[tab[t]] = "failed"
      /\ tabSeen[t] = attempts[tab[t]]
  BY DEF CommitRetry, IInv, TypeOK, SoloInv, RetryHeld, Rows
<1>2. Dirty(tabSeen[t], 0, attempts[tab[t]]) = 0
  BY <1>1 DEF Dirty
<1> QED
  BY <1>1, <1>2 DEF CommitRetry, sweepVars

\* The retried event is due with all its tries.
LEMMA CommitRetrySolo ==
  ASSUME OneOfEach, IInv, SoloInv, NEW t \in Tabs, CommitRetry(t)
  PROVE  SoloInv'
<1>1. AsLoaded'
  BY RetryStores DEF SoloInv, AsLoaded, IInv, TypeOK, AttemptInv, Due
<1>2. \A z \in Tabs : z = t
  BY DEF OneOfEach
<1>3. tab'[t] = Nothing
  BY DEF CommitRetry, IInv, TypeOK
<1>4. RetryHeld'
  BY <1>2, <1>3 DEF RetryHeld
<1>5. SettledInv'
  BY RetryStores, MaxAttemptsAssumption DEF SoloInv, SettledInv, IInv, TypeOK, Due
<1> QED
  BY <1>1, <1>4, <1>5 DEF SoloInv

\* Every step keeps SoloInv while sweeps and retry requests do not overlap.
LEMMA NextSoloInv == OneOfEach /\ IInv /\ SoloInv /\ [Next]_vars => SoloInv'
<1> SUFFICES ASSUME OneOfEach, IInv, SoloInv, [Next]_vars PROVE SoloInv'
  OBVIOUS
<1>1. ASSUME NEW s \in Sweeps, SweepStep(s) PROVE SoloInv'
  BY <1>1, StartPassSolo, LoadRowSolo, StampSucceedsSolo, StampFailsSolo,
     StartChecksSolo, LoadSourceSolo, CaptureBaselineSolo, CaptureEventSolo,
     CheckEndsEmptySolo, EndSweepSolo DEF SweepStep
<1>2. ASSUME NEW s \in Sweeps, StampAborts(s) \/ Crash(s) PROVE SoloInv'
  BY <1>2, StampAbortsSolo, CrashSolo
<1>3. CASE Tenant
  BY <1>3, SourceSolo, OpenRetrySolo, CommitRetrySolo DEF Tenant
<1>4. CASE UNCHANGED vars
  BY <1>4, SoloUntouched DEF vars, rowVars, sweepVars, tabVars
<1> QED
  BY <1>1, <1>2, <1>3, <1>4 DEF Next

\* While sweeps and retry requests do not overlap, what a handler holds is
\* what its row is, or was when it was deleted.
THEOREM SoloInvariance == OneOfEach => (Spec => []SoloInv)
<1> SUFFICES ASSUME OneOfEach PROVE Spec => []SoloInv
  OBVIOUS
<1>1. IInv /\ SoloInv /\ [Next]_vars => SoloInv'
  BY NextSoloInv
<1> QED
  BY <1>1, InitSoloInv, Invariance, PTL DEF Spec

\* A baseline that claims to be timestamped holds a token over its own
\* digest: its source was captured once (stamp_baseline).
THEOREM BaselineTokensCover == OneOfEach => (Spec => []TokenCoversBaseline)
<1> SUFFICES ASSUME OneOfEach PROVE Spec => []TokenCoversBaseline
  OBVIOUS
<1>1. SoloInv => TokenCoversBaseline
  BY DEF SoloInv, SettledInv, TokenCoversBaseline, Rows
<1> QED
  BY <1>1, SoloInvariance, PTL

\* A due event has a try left, and a manual retry hands out all of them
\* (stamp_change_event, retry_timestamp).
THEOREM DueRowsHaveTries == OneOfEach => (Spec => []DueHasTries)
<1> SUFFICES ASSUME OneOfEach PROVE Spec => []DueHasTries
  OBVIOUS
<1>1. SoloInv => DueHasTries
  BY DEF SoloInv, SettledInv, DueHasTries, Rows
<1> QED
  BY <1>1, SoloInvariance, PTL

-----------------------------------------------------------------------------
(* The handlers implement the state diagram.                               *)

\* The rows start with nothing stamped and nothing tried.
LEMMA DiagramInit == Init => Diagram!Init
BY DEF Init, Diagram!Init

\* A source or an event is created, or a source deleted.
LEMMA DiagramSource ==
  ASSUME NEW x \in Sources, AddSource(x) \/ DeleteSource(x)
  PROVE  Diagram!Next
<1>1. x \in Rows
  BY DEF Rows
<1>2. Diagram!Create(x) \/ Diagram!Delete(x)
  BY DEF AddSource, DeleteSource, Diagram!Create, Diagram!Delete, Diagram!Become,
     Diagram!Stored, Diagram!Due, Stored, TimestampStatus
<1> QED
  BY <1>1, <1>2 DEF Diagram!Next

\* A first capture, and a capture that creates an event.
LEMMA DiagramCapture ==
  ASSUME IInv, SoloInv, NEW s \in Sweeps, NEW d \in Digests,
         CaptureBaseline(s, d) \/ \E e \in Events : CaptureEvent(s, e, d)
  PROVE  Diagram!Next
<1>1. CASE CaptureBaseline(s, d)
  <2>1. at[s] \in Rows /\ Diagram!FirstCapture(at[s])
    BY <1>1, CaptureStores DEF Diagram!FirstCapture, Diagram!Become, IInv, TypeOK
  <2> QED
    BY <2>1 DEF Diagram!Next
<1>2. ASSUME NEW e \in Events, CaptureEvent(s, e, d) PROVE Diagram!Next
  <2>1. e \in Rows /\ Diagram!Create(e)
    BY <1>2 DEF CaptureEvent, Diagram!Create, Diagram!Become, Rows
  <2> QED
    BY <2>1 DEF Diagram!Next
<1> QED
  BY <1>1, <1>2

\* A granted attempt is Diagram!Granted, on a deleted row it is nothing.
LEMMA DiagramGranted ==
  ASSUME IInv, SoloInv, NEW s \in Sweeps, NEW t \in Stamps, StampSucceeds(s, t)
  PROVE  [Diagram!Next]_Diagram!vars
<1> DEFINE granted == [digest |-> seen[s].digest, stamp |-> t]
<1>1. /\ pc[s] = "requesting"
      /\ WriteAttempt(s, "timestamped", granted)
      /\ UNCHANGED captured
  BY DEF StampSucceeds
<1>2. granted \in [digest : Digests, stamp : Stamps]
  BY <1>1 DEF IInv, AttemptInv, Snapshot
<1> HIDE DEF granted
<1>3. /\ at[s] \in Rows
      /\ \/ UNCHANGED <<status, token, attempts>>
         \/ status[at[s]] \in Due /\ Settles(at[s], "timestamped", granted)
  BY <1>1, AttemptStores DEF TimestampStatus
<1>4. CASE UNCHANGED <<status, token, attempts>>
  BY <1>1, <1>4 DEF Diagram!vars
<1>5. CASE status[at[s]] \in Due /\ Settles(at[s], "timestamped", granted)
  <2>1. Diagram!Granted(at[s], granted)
    BY <1>1, <1>5 DEF Settles, Diagram!Granted, Diagram!Become, Diagram!Due, Due
  <2> QED
    BY <1>2, <1>3, <2>1 DEF Diagram!Next
<1> QED
  BY <1>3, <1>4, <1>5

\* A failed attempt is Diagram!Refused, on a deleted row it is nothing.
LEMMA DiagramRefused ==
  ASSUME IInv, SoloInv, NEW s \in Sweeps, StampFails(s)
  PROVE  [Diagram!Next]_Diagram!vars
<1> DEFINE new == AfterFailure(seen[s].attempts)
<1>1. /\ pc[s] = "requesting"
      /\ WriteAttempt(s, new, token[at[s]])
      /\ UNCHANGED captured
  BY DEF StampFails
<1>2. new \in TimestampStatus
  BY DEF AfterFailure, TimestampStatus
<1>3. new = AfterFailure(seen[s].attempts)
  OBVIOUS
<1> HIDE DEF new
<1>4. /\ at[s] \in Rows
      /\ \/ UNCHANGED <<status, token, attempts>>
         \/ /\ status[at[s]] \in Due
            /\ seen[s].attempts = attempts[at[s]]
            /\ Settles(at[s], new, token[at[s]])
  BY <1>1, <1>2, AttemptStores
<1>5. CASE UNCHANGED <<status, token, attempts>>
  BY <1>1, <1>5 DEF Diagram!vars
<1>6. CASE /\ status[at[s]] \in Due
           /\ seen[s].attempts = attempts[at[s]]
           /\ Settles(at[s], new, token[at[s]])
  <2>1. UNCHANGED token
    BY <1>6 DEF Settles, IInv, TypeOK
  <2>2. new = IF attempts[at[s]] + 1 >= MaxAttempts THEN "failed" ELSE "retrying"
    BY <1>3, <1>6 DEF AfterFailure
  <2>3. Diagram!Refused(at[s])
    BY <1>1, <1>6, <2>1, <2>2 DEF Settles, Diagram!Refused, Diagram!Become, Diagram!Due, Due
  <2> QED
    BY <1>4, <2>3 DEF Diagram!Next
<1> QED
  BY <1>4, <1>5, <1>6

\* A manual retry is Diagram!PersonRetries.
LEMMA DiagramRetry ==
  ASSUME IInv, SoloInv, NEW t \in Tabs, CommitRetry(t)
  PROVE  Diagram!Next
<1>1. Diagram!PersonRetries(tab[t])
  BY RetryStores DEF Diagram!PersonRetries, Diagram!Become
<1> QED
  BY <1>1, RetryStores DEF Diagram!Next

\* Listing, loading, giving up and dying write to no row.
LEMMA DiagramStutters ==
  ASSUME IInv,
         \/ \E s \in Sweeps :
              \/ StartPass(s) \/ StampAborts(s) \/ StartChecks(s) \/ CheckEndsEmpty(s)
              \/ EndSweep(s) \/ Crash(s)
              \/ \E r \in Rows : LoadRow(s, r)
              \/ \E x \in Sources : LoadSource(s, x)
         \/ \E t \in Tabs, e \in Events : OpenRetry(t, e)
         \/ UNCHANGED vars
  PROVE  UNCHANGED Diagram!vars
<1>1. ASSUME NEW s \in Sweeps, NEW r \in Rows, LoadRow(s, r)
      PROVE  UNCHANGED <<status, token, attempts, captured>>
  BY <1>1 DEF IInv, TypeOK, RowsInv, LoadRow, MayRequest, Stored, TimestampStatus, OnDiagram
<1>2. UNCHANGED <<status, token, attempts, captured>>
  BY <1>1 DEF StartPass, StampAborts, StartChecks, CheckEndsEmpty, EndSweep, Crash, LoadSource,
     OpenRetry, vars, rowVars
<1> QED
  BY <1>2 DEF Diagram!vars

\* So every step of the handlers is a step of the diagram, or none.
LEMMA DiagramStep == OneOfEach /\ IInv /\ SoloInv /\ [Next]_vars => [Diagram!Next]_Diagram!vars
<1> SUFFICES ASSUME IInv, SoloInv, [Next]_vars PROVE [Diagram!Next]_Diagram!vars
  OBVIOUS
<1>1. ASSUME NEW s \in Sweeps, SweepStep(s) PROVE [Diagram!Next]_Diagram!vars
  BY <1>1, DiagramStutters, DiagramGranted, DiagramRefused, DiagramCapture DEF SweepStep
<1>2. ASSUME NEW s \in Sweeps, StampAborts(s) \/ Crash(s)
      PROVE  [Diagram!Next]_Diagram!vars
  BY <1>2, DiagramStutters
<1>3. CASE Tenant
  BY <1>3, DiagramStutters, DiagramSource, DiagramRetry DEF Tenant
<1>4. CASE UNCHANGED vars
  BY <1>4, DiagramStutters
<1> QED
  BY <1>1, <1>2, <1>3, <1>4 DEF Next

\* While sweeps and retry requests do not overlap, every row walks the state
\* diagram of TimestampStatus, each edge in the step that commits it.
THEOREM RowsFollowDiagram == OneOfEach => (Spec => FollowsDiagram)
<1> SUFFICES ASSUME OneOfEach PROVE Spec => FollowsDiagram
  OBVIOUS
<1>1. IInv /\ SoloInv /\ [Next]_vars => [Diagram!Next]_Diagram!vars
  BY DiagramStep
<1> QED
  BY <1>1, DiagramInit, Invariance, SoloInvariance, PTL DEF Spec, FollowsDiagram, Diagram!Spec

\* And no edge of the diagram leaves timestamped: a timestamp that was obtained
\* is kept with its token (stamp_change_event, retry_timestamp).
THEOREM TimestampsAreKept == OneOfEach => (Spec => TimestampedIsFinal)
<1> SUFFICES ASSUME OneOfEach PROVE Spec => TimestampedIsFinal
  OBVIOUS
<1> DEFINE Kept == \A r \in Rows : status[r] = "timestamped" =>
                     /\ status'[r] \in {"timestamped", "deleted"}
                     /\ token'[r] = token[r]
<1>1. ASSUME IInv, Diagram!Next PROVE Kept
  BY <1>1 DEF IInv, TypeOK, Diagram!Next, Diagram!Create, Diagram!FirstCapture, Diagram!Granted,
     Diagram!Refused, Diagram!PersonRetries, Diagram!Delete, Diagram!Become, Diagram!Due
<1>2. UNCHANGED Diagram!vars => Kept
  BY DEF Diagram!vars
<1>3. IInv /\ SoloInv /\ [Next]_vars => [Kept]_vars
  BY <1>1, <1>2, DiagramStep
<1> QED
  BY <1>3, Invariance, SoloInvariance, PTL DEF Spec, TimestampedIsFinal

=============================================================================
