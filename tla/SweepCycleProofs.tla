-------------------------- MODULE SweepCycleProofs --------------------------
(***************************************************************************)
(* What SweepCycleOverlap checks for one triggered cycle beside those of   *)
(* the scheduler, for any number of them and any lengths of time: the      *)
(* probe is never green without a cycle that did its work, never red while *)
(* nothing fails, and last_error tells how the last lone cycle ended.      *)
(***************************************************************************)
EXTENDS SweepCycle, TLAPS

\* Rows are held during the records of a cycle only, and no time passes there:
\* what a cycle that is about to leave its heartbeat has done is of now.
RecordInv ==
  \A c \in Cycles :
    /\ row[c] # "unread" => pc[c] \in Records
    /\ pc[c] = "complete" => worked = 0
    /\ pc[c] = "complete" /\ row[c] = "absent" /\ completed # None => completed = 0

\* A heartbeat is no younger than the work it tells of.
WorkInv == completed # None => worked # None /\ worked <= completed

\* While nothing has failed, the heartbeat is no older than the last tick, or
\* than the tick before the cycle that is running and that cycle together.
TimeInv ==
  faults = 0 =>
    /\ up
    /\ \A c \in Cycles : pc[c] # "break"
    /\ completed # None =>
         /\ pc[Scheduled] = "idle" => completed <= timer
         /\ pc[Scheduled] \in Passes \cup {"complete"}
              => completed <= Interval + elapsed[Scheduled]
         /\ pc[Scheduled] = "clear" => completed = 0

\* A cycle that is alone has read the row of last_error as it is.
AloneInv ==
  \A c \in Cycles :
    alone[c] =>
      /\ \A d \in Cycles : d # c => pc[d] = "idle"
      /\ pc[c] \in {"clear", "break"} /\ row[c] # "unread" => row[c] = Stored(error)

ErrorInv == /\ ended = "clean" => error = FALSE
            /\ ended = "broken" => error = TRUE

IInv == TypeOK /\ RecordInv /\ WorkInv /\ TimeInv /\ AloneInv /\ ErrorInv

LEMMA InitIInv == Init => IInv
<1> SUFFICES ASSUME Init PROVE IInv
  OBVIOUS
<1>1. TypeOK
  BY TimesAssumption, NoneAssumption, CyclesAssumption DEF Init, TypeOK, Ages
<1>2. RecordInv /\ WorkInv /\ TimeInv
  BY DEF Init, RecordInv, WorkInv, TimeInv, Records, Passes
<1>3. AloneInv /\ ErrorInv
  BY NoneAssumption DEF Init, AloneInv, ErrorInv
<1> QED
  BY <1>1, <1>2, <1>3 DEF IInv

-----------------------------------------------------------------------------
(* A cycle begins, and goes through its passes.                            *)

LEMMA BeginIInv ==
  ASSUME IInv, NEW c \in Cycles, pc[c] = "idle", Begin(c),
         timer' \in 0 .. Interval,
         c = Scheduled => timer = Interval /\ timer' = 0,
         c # Scheduled => timer' = timer,
         UNCHANGED <<up, booted, completed, error, tenantVars, worked, ended, faults>>
  PROVE  IInv'
<1>1. /\ pc' = [pc EXCEPT ![c] = "trials"]
      /\ alone' = [d \in Cycles |-> d = c /\ Running = {}]
      /\ UNCHANGED <<elapsed, row, listed>>
  BY DEF Begin
<1>2. TypeOK'
  BY <1>1 DEF IInv, TypeOK, tenantVars, Passes
<1>3. RecordInv' /\ WorkInv' /\ ErrorInv'
  BY <1>1 DEF IInv, TypeOK, RecordInv, WorkInv, ErrorInv, Records
<1>4. TimeInv'
  BY <1>1, TimesAssumption, NoneAssumption DEF IInv, TypeOK, TimeInv, Passes, Ages, Cycles
<1>5. AloneInv'
  BY <1>1 DEF IInv, TypeOK, AloneInv, Running
<1> QED
  BY <1>2, <1>3, <1>4, <1>5 DEF IInv

LEMMA TickIInv == ASSUME IInv, Tick PROVE IInv'
<1>1. Scheduled \in Cycles /\ timer = Interval /\ timer' = 0 /\ timer' \in 0 .. Interval
  BY TimesAssumption DEF Tick, Cycles
<1>2. UNCHANGED <<up, booted, completed, error, tenantVars, worked, ended, faults>>
  BY DEF Tick, stateVars
<1>3. CASE Scheduled \in Running
  <2>1. UNCHANGED cycleVars
    BY <1>3 DEF Tick
  <2>2. TypeOK'
    BY <1>1, <1>2, <2>1 DEF IInv, TypeOK, tenantVars, cycleVars
  <2>3. RecordInv' /\ WorkInv' /\ ErrorInv' /\ AloneInv'
    BY <1>2, <2>1 DEF IInv, RecordInv, WorkInv, ErrorInv, AloneInv, cycleVars
  <2>4. TimeInv'
    BY <1>2, <1>3, <2>1 DEF IInv, TimeInv, cycleVars, Running
  <2> QED
    BY <2>2, <2>3, <2>4 DEF IInv
<1>4. CASE Scheduled \notin Running
  <2>1. pc[Scheduled] = "idle" /\ Begin(Scheduled)
    BY <1>1, <1>4 DEF Tick, Running
  <2> QED
    BY <1>1, <1>2, <2>1, BeginIInv
<1> QED
  BY <1>3, <1>4

LEMMA TriggerIInv == ASSUME IInv, NEW c \in Triggers, Trigger(c) PROVE IInv'
<1>1. c \in Cycles /\ c # Scheduled /\ pc[c] = "idle" /\ Begin(c)
  BY CyclesAssumption DEF Trigger, Cycles
<1>2. UNCHANGED <<timer, up, booted, completed, error, tenantVars, worked, ended, faults>>
  BY DEF Trigger, processVars, stateVars
<1>3. timer' \in 0 .. Interval
  BY <1>2 DEF IInv, TypeOK
<1> QED
  BY <1>1, <1>2, <1>3, BeginIInv

\* A pass, whatever it does to the tenant.
LEMMA PassIInv ==
  ASSUME IInv, NEW c \in Cycles,
         SettleTrials(c) \/ RetryStamps(c) \/ ListDue(c) \/ CheckPages(c)
  PROVE  IInv'
<1>1. PICK p \in Passes : pc[c] \in Passes /\ pc' = [pc EXCEPT ![c] = p]
  BY DEF SettleTrials, RetryStamps, ListDue, CheckPages, Move, Passes
<1>2. /\ status' \in {"trialing", "active", "past_due", "free"} /\ due' \in BOOLEAN
      /\ listed' \in [Cycles -> BOOLEAN]
  BY DEF SettleTrials, RetryStamps, ListDue, CheckPages, IInv, TypeOK, tenantVars
<1>3. UNCHANGED <<up, timer, booted, completed, error, trial, elapsed, row, alone, worked,
                  ended, faults>>
  BY DEF SettleTrials, RetryStamps, ListDue, CheckPages, processVars, stateVars, tenantVars
<1>4. TypeOK'
  BY <1>1, <1>2, <1>3 DEF IInv, TypeOK
<1>5. RecordInv' /\ WorkInv' /\ ErrorInv'
  BY <1>1, <1>3 DEF IInv, TypeOK, RecordInv, WorkInv, ErrorInv, Records, Passes
<1>6. TimeInv'
  BY <1>1, <1>3 DEF IInv, TypeOK, TimeInv, Passes
<1>7. AloneInv'
  BY <1>1, <1>3 DEF IInv, TypeOK, AloneInv, Passes
<1> QED
  BY <1>4, <1>5, <1>6, <1>7 DEF IInv

\* A check that raises leaves its page due, and counts as a fault.
LEMMA CheckFailsIInv == ASSUME IInv, NEW c \in Cycles, CheckFails(c) PROVE IInv'
<1>1. /\ pc[c] = "check" /\ pc' = [pc EXCEPT ![c] = "vendors"]
      /\ faults \in Nat /\ faults' = faults + 1 /\ faults' \in 0 .. MaxFaults
      /\ listed' = [listed EXCEPT ![c] = FALSE]
      /\ UNCHANGED <<up, timer, booted, completed, error, status, trial, due, elapsed, row,
                     alone, worked, ended>>
  BY TimesAssumption DEF CheckFails, Move, processVars, stateVars, tenantVars, IInv, TypeOK
<1>2. TypeOK'
  BY <1>1 DEF IInv, TypeOK, Passes
<1>3. RecordInv' /\ ErrorInv' /\ WorkInv'
  BY <1>1 DEF IInv, TypeOK, RecordInv, ErrorInv, WorkInv, Records
<1>4. TimeInv'
  BY <1>1 DEF TimeInv
<1>5. AloneInv'
  BY <1>1 DEF IInv, TypeOK, AloneInv
<1> QED
  BY <1>2, <1>3, <1>4, <1>5 DEF IInv

LEMMA SweepVendorsIInv == ASSUME IInv, NEW c \in Cycles, SweepVendors(c) PROVE IInv'
<1>1. /\ pc[c] = "vendors" /\ pc' = [pc EXCEPT ![c] = "complete"] /\ worked' = 0
      /\ UNCHANGED <<up, timer, booted, completed, error, status, trial, due, elapsed, row,
                     listed, alone, ended, faults>>
  BY DEF SweepVendors, Move, processVars, stateVars, tenantVars
<1>2. row[c] = "unread"
  BY <1>1 DEF IInv, RecordInv, Records
<1>3. TypeOK'
  BY <1>1, TimesAssumption DEF IInv, TypeOK, Ages, Records
<1>4. RecordInv' /\ ErrorInv'
  BY <1>1, <1>2 DEF IInv, TypeOK, RecordInv, ErrorInv, Records
<1>5. WorkInv'
  BY <1>1, NoneAssumption, TimesAssumption DEF IInv, TypeOK, WorkInv, Ages
<1>6. TimeInv' /\ AloneInv'
  BY <1>1 DEF IInv, TypeOK, TimeInv, AloneInv, Passes
<1> QED
  BY <1>3, <1>4, <1>5, <1>6 DEF IInv

LEMMA BreakIInv == ASSUME IInv, NEW c \in Cycles, Break(c) PROVE IInv'
<1>1. /\ pc[c] \in Passes /\ pc' = [pc EXCEPT ![c] = "break"]
      /\ faults \in Nat /\ faults' = faults + 1 /\ faults' \in 0 .. MaxFaults
      /\ listed' = [listed EXCEPT ![c] = FALSE]
      /\ UNCHANGED <<up, timer, booted, completed, error, status, trial, due, elapsed, row,
                     alone, worked, ended>>
  BY TimesAssumption DEF Break, processVars, stateVars, tenantVars, IInv, TypeOK
<1>2. row[c] = "unread"
  BY <1>1 DEF IInv, RecordInv, Records, Passes
<1>3. TypeOK'
  BY <1>1 DEF IInv, TypeOK, Records
<1>4. RecordInv' /\ ErrorInv' /\ WorkInv'
  BY <1>1, <1>2 DEF IInv, TypeOK, RecordInv, ErrorInv, WorkInv, Records
<1>5. TimeInv'
  BY <1>1 DEF TimeInv
<1>6. AloneInv'
  BY <1>1, <1>2 DEF IInv, TypeOK, AloneInv, Passes
<1> QED
  BY <1>3, <1>4, <1>5, <1>6 DEF IInv

-----------------------------------------------------------------------------
(* The records.                                                            *)

LEMMA ReadRowIInv == ASSUME IInv, NEW c \in Cycles, ReadRow(c) PROVE IInv'
<1> DEFINE new == IF pc[c] = "complete"
                  THEN IF completed = None THEN "absent" ELSE "clean"
                  ELSE Stored(error)
<1>1. /\ pc[c] \in Records /\ row' = [row EXCEPT ![c] = new]
      /\ UNCHANGED <<up, timer, booted, completed, error, status, trial, due, pc, elapsed,
                     listed, alone, worked, ended, faults>>
  BY DEF ReadRow, processVars, stateVars, tenantVars
<1>2. new \in {"unread", "absent", "clean", "broken"}
  <2>1. Stored(error) \in {"absent", "clean", "broken"}
    BY NoneAssumption DEF Stored, IInv, TypeOK
  <2> QED
    BY <2>1
<1>3. pc[c] = "complete" /\ completed # None => new # "absent"
  OBVIOUS
<1>4. pc[c] \in {"clear", "break"} => new = Stored(error)
  OBVIOUS
<1> HIDE DEF new
<1>5. TypeOK'
  BY <1>1, <1>2 DEF IInv, TypeOK
<1>6. RecordInv'
  BY <1>1, <1>3 DEF IInv, TypeOK, RecordInv
<1>7. WorkInv' /\ TimeInv' /\ ErrorInv'
  BY <1>1 DEF IInv, WorkInv, TimeInv, ErrorInv
<1>8. AloneInv'
  BY <1>1, <1>4 DEF IInv, TypeOK, AloneInv, Stored
<1> QED
  BY <1>5, <1>6, <1>7, <1>8 DEF IInv

\* After its heartbeat a cycle goes on to clear the error.
LEMMA HeartbeatIInv ==
  ASSUME IInv, NEW c \in Cycles, pc[c] = "complete", Proceed(c, None),
         completed' \in {0, completed},
         faults' \in 0 .. MaxFaults, faults' = 0 => faults = 0 /\ completed' = 0,
         UNCHANGED error
  PROVE  IInv'
<1>1. /\ row' = [row EXCEPT ![c] = "unread"]
      /\ pc' = [pc EXCEPT ![c] = "clear"]
      /\ UNCHANGED <<up, timer, booted, error, status, trial, due, elapsed, alone, ended,
                     listed, worked>>
  BY DEF Proceed, processVars, tenantVars
<1>2. worked = 0
  BY DEF IInv, RecordInv
<1>3. TypeOK'
  BY <1>1, TimesAssumption DEF IInv, TypeOK, Ages, Records
<1>4. RecordInv'
  BY <1>1, <1>2 DEF IInv, TypeOK, RecordInv
<1>5. WorkInv'
  BY <1>1, <1>2, NoneAssumption DEF IInv, WorkInv
<1>6. TimeInv'
  <2>1. Scheduled \in Cycles
    BY DEF Cycles
  <2> QED
    BY <1>1, <2>1, TimesAssumption DEF IInv, TypeOK, TimeInv
<1>7. AloneInv' /\ ErrorInv'
  BY <1>1 DEF IInv, TypeOK, AloneInv, ErrorInv
<1> QED
  BY <1>3, <1>4, <1>5, <1>6, <1>7 DEF IInv

\* A cycle that is over leaves the error of its own end, or counts for nothing.
LEMMA OverIInv ==
  ASSUME IInv, NEW c \in Cycles, pc[c] \in {"clear", "break"}, NEW outcome, Proceed(c, outcome),
         outcome \in {"clean", "broken", None},
         error' \in BOOLEAN \cup {None},
         alone[c] /\ outcome = "clean" => error' = FALSE,
         alone[c] /\ outcome = "broken" => error' = TRUE,
         faults' \in 0 .. MaxFaults, faults' = 0 => faults = 0,
         UNCHANGED completed
  PROVE  IInv'
<1>1. /\ row' = [row EXCEPT ![c] = "unread"]
      /\ pc' = [pc EXCEPT ![c] = "idle"]
      /\ elapsed' = [elapsed EXCEPT ![c] = 0]
      /\ alone' = [alone EXCEPT ![c] = FALSE]
      /\ ended' = IF alone[c] THEN outcome ELSE None
      /\ UNCHANGED <<up, timer, booted, status, trial, due, listed, worked>>
  BY DEF Proceed, processVars, tenantVars
<1>2. TypeOK'
  BY <1>1, TimesAssumption DEF IInv, TypeOK
<1>3. RecordInv' /\ WorkInv'
  BY <1>1 DEF IInv, TypeOK, RecordInv, WorkInv
<1>4. TimeInv'
  BY <1>1, TimesAssumption DEF IInv, TypeOK, TimeInv, Passes
<1>5. AloneInv'
  BY <1>1 DEF IInv, TypeOK, AloneInv
<1>6. ErrorInv'
  BY <1>1, NoneAssumption DEF ErrorInv
<1> QED
  BY <1>2, <1>3, <1>4, <1>5, <1>6 DEF IInv

LEMMA WriteCompletedIInv == ASSUME IInv, NEW c \in Cycles, WriteCompleted(c) PROVE IInv'
BY HeartbeatIInv DEF WriteCompleted, IInv, TypeOK

LEMMA WriteErrorIInv == ASSUME IInv, NEW c \in Cycles, WriteError(c) PROVE IInv'
<1> DEFINE outcome == IF pc[c] = "break" THEN "broken" ELSE "clean"
<1>1. /\ pc[c] \in {"clear", "break"} /\ row[c] # "unread" /\ Proceed(c, outcome)
      /\ UNCHANGED <<completed, faults>>
  BY DEF WriteError
<1>2. \/ error' = IF row[c] = "absent" THEN pc[c] = "break"
                  ELSE IF (pc[c] = "break") # (row[c] = "broken") THEN pc[c] = "break" ELSE error
      \/ pc[c] = "break" /\ error' = TRUE
  BY DEF WriteError, Dirty
<1>3. error' \in BOOLEAN \cup {None}
  BY <1>2 DEF IInv, TypeOK
<1>4. ASSUME alone[c] PROVE error' = (pc[c] = "break")
  <2>1. row[c] = Stored(error) /\ error \in BOOLEAN \cup {None}
    BY <1>1, <1>4 DEF IInv, AloneInv, TypeOK
  <2>2. CASE error = None
    BY <1>2, <2>1, <2>2 DEF Stored
  <2>3. CASE error = TRUE
    <3>1. row[c] = "broken"
      BY <2>1, <2>3, NoneAssumption DEF Stored
    <3> QED
      BY <1>2, <2>3, <3>1
  <2>4. CASE error = FALSE
    <3>1. row[c] = "clean"
      BY <2>1, <2>4, NoneAssumption DEF Stored
    <3> QED
      BY <1>2, <2>4, <3>1
  <2> QED
    BY <2>1, <2>2, <2>3, <2>4
<1>5. faults' \in 0 .. MaxFaults
  BY <1>1 DEF IInv, TypeOK
<1> QED
  BY <1>1, <1>3, <1>4, <1>5, OverIInv

LEMMA LoseRecordIInv == ASSUME IInv, NEW c \in Cycles, LoseRecord(c) PROVE IInv'
<1>1. /\ pc[c] \in Records /\ row[c] # "unread" /\ Proceed(c, None)
      /\ UNCHANGED <<completed, error>>
      /\ faults' \in 0 .. MaxFaults
      /\ faults' = 0 => faults = 0 /\ Collides(c)
  BY TimesAssumption DEF LoseRecord, stateVars, IInv, TypeOK
<1>2. CASE pc[c] = "complete"
  <2>1. Collides(c) => completed = 0
    BY <1>2 DEF Collides, IInv, RecordInv
  <2> QED
    BY <1>1, <1>2, <2>1, HeartbeatIInv
<1>3. CASE pc[c] \in {"clear", "break"}
  <2>1. error' \in BOOLEAN \cup {None}
    BY <1>1 DEF IInv, TypeOK
  <2> QED
    BY <1>1, <1>3, <2>1, NoneAssumption, OverIInv
<1> QED
  BY <1>1, <1>2, <1>3 DEF Records

-----------------------------------------------------------------------------
(* The process, the clock and the tenant.                                  *)

LEMMA StopIInv == ASSUME IInv, Stop PROVE IInv'
<1>1. /\ faults' \in 0 .. MaxFaults /\ faults' # 0
      /\ pc' = [c \in Cycles |-> "idle"] /\ elapsed' = [c \in Cycles |-> 0]
      /\ row' = [c \in Cycles |-> "unread"] /\ listed' = [c \in Cycles |-> FALSE]
      /\ alone' = [c \in Cycles |-> FALSE] /\ ended' = None /\ up' = FALSE
      /\ UNCHANGED <<timer, booted, completed, error, status, trial, due, worked>>
  BY TimesAssumption DEF Stop, IInv, TypeOK, stateVars, tenantVars
<1>2. TypeOK'
  <2>1. pc' \in [Cycles -> {"idle"}] /\ row' \in [Cycles -> {"unread"}]
    BY <1>1
  <2>2. elapsed' \in [Cycles -> 0 .. MaxRun]
    BY <1>1, TimesAssumption
  <2>3. listed' \in [Cycles -> BOOLEAN] /\ alone' \in [Cycles -> BOOLEAN]
    BY <1>1
  <2> QED
    BY <1>1, <2>1, <2>2, <2>3 DEF IInv, TypeOK
<1>3. RecordInv' /\ WorkInv' /\ TimeInv' /\ AloneInv'
  BY <1>1 DEF IInv, RecordInv, WorkInv, TimeInv, AloneInv
<1>4. ErrorInv'
  BY <1>1, NoneAssumption DEF ErrorInv
<1> QED
  BY <1>2, <1>3, <1>4 DEF IInv

LEMMA StartIInv == ASSUME IInv, Start PROVE IInv'
<1>1. /\ ~up /\ up' = TRUE /\ timer' = 0 /\ booted' = 0
      /\ UNCHANGED <<completed, error, status, trial, due, pc, elapsed, row, listed, alone,
                     worked, ended, faults>>
  BY DEF Start, stateVars, tenantVars, cycleVars
<1>2. TypeOK'
  BY <1>1, TimesAssumption DEF IInv, TypeOK
<1>3. RecordInv' /\ WorkInv' /\ AloneInv' /\ ErrorInv'
  BY <1>1 DEF IInv, RecordInv, WorkInv, AloneInv, ErrorInv
<1>4. TimeInv'
  BY <1>1 DEF IInv, TimeInv
<1> QED
  BY <1>2, <1>3, <1>4 DEF IInv

LEMMA OlderAge ==
  ASSUME NEW age \in Ages
  PROVE  /\ Older(age) \in Ages
         /\ age = None <=> Older(age) = None
         /\ age # None => age \in Nat /\ Older(age) \in Nat /\ Older(age) <= age + 1
BY TimesAssumption, NoneAssumption DEF Older, Ages

LEMMA OlderGrows ==
  ASSUME NEW old \in Ages, NEW young \in Ages, old # None, young # None, young <= old
  PROVE  Older(young) <= Older(old)
BY TimesAssumption, NoneAssumption DEF Older, Ages

LEMMA PassTimeIInv == ASSUME IInv, PassTime PROVE IInv'
<1>1. \A c \in Cycles : pc[c] # "idle" => pc[c] \in Passes /\ elapsed[c] < MaxRun
  BY DEF PassTime, Running
<1>2. /\ up => timer < Interval
      /\ timer' = IF up THEN timer + 1 ELSE timer
      /\ booted' = IF booted < Grace THEN booted + 1 ELSE booted
      /\ completed' = Older(completed) /\ worked' = Older(worked)
      /\ elapsed' = [c \in Cycles |-> IF pc[c] # "idle" THEN elapsed[c] + 1 ELSE 0]
      /\ UNCHANGED <<up, error, status, trial, due, pc, row, listed, alone, ended, faults>>
  BY DEF PassTime, Running, tenantVars
<1>3. completed \in Ages /\ worked \in Ages
  BY DEF IInv, TypeOK
<1>4. TypeOK'
  <2>1. timer' \in 0 .. Interval /\ booted' \in 0 .. Grace
    BY <1>2, TimesAssumption DEF IInv, TypeOK
  <2>2. elapsed' \in [Cycles -> 0 .. MaxRun]
    BY <1>1, <1>2, TimesAssumption DEF IInv, TypeOK
  <2> QED
    BY <1>2, <1>3, <2>1, <2>2, OlderAge DEF IInv, TypeOK
<1>5. RecordInv'
  BY <1>1, <1>2 DEF IInv, RecordInv, Records, Passes
<1>6. WorkInv'
  BY <1>2, <1>3, OlderAge, OlderGrows DEF IInv, WorkInv
<1>7. TimeInv'
  <2> SUFFICES ASSUME faults = 0, completed' # None
               PROVE  /\ pc[Scheduled] = "idle" => completed' <= timer'
                      /\ pc[Scheduled] \in Passes \cup {"complete"}
                           => completed' <= Interval + elapsed'[Scheduled]
                      /\ pc[Scheduled] = "clear" => completed' = 0
    BY <1>2 DEF IInv, TimeInv
  <2>1. /\ completed # None /\ completed \in Nat /\ completed' \in Nat
        /\ completed' <= completed + 1
    BY <1>2, <1>3, OlderAge
  <2>2. Scheduled \in Cycles /\ timer \in Nat /\ elapsed[Scheduled] \in Nat
    BY TimesAssumption DEF Cycles, IInv, TypeOK
  <2>3. timer' = timer + 1
    BY <1>2 DEF IInv, TimeInv
  <2>4. CASE pc[Scheduled] = "idle"
    <3>1. completed <= timer
      BY <2>1, <2>4 DEF IInv, TimeInv
    <3> QED
      BY <2>1, <2>2, <2>3, <2>4, <3>1 DEF Passes
  <2>5. CASE pc[Scheduled] # "idle"
    <3>1. pc[Scheduled] \in Passes
      BY <1>1, <2>2, <2>5
    <3>2. completed <= Interval + elapsed[Scheduled]
      BY <2>1, <3>1 DEF IInv, TimeInv
    <3>3. elapsed'[Scheduled] = elapsed[Scheduled] + 1
      BY <1>2, <2>2, <2>5
    <3>4. completed' <= Interval + elapsed'[Scheduled]
      BY <2>1, <2>2, <3>2, <3>3, TimesAssumption
    <3> QED
      BY <2>5, <3>1, <3>4 DEF Passes
  <2> QED
    BY <2>4, <2>5
<1>8. AloneInv' /\ ErrorInv'
  BY <1>2 DEF IInv, AloneInv, ErrorInv, Stored
<1> QED
  BY <1>4, <1>5, <1>6, <1>7, <1>8 DEF IInv

LEMMA TenantIInv ==
  ASSUME IInv, EndTrial \/ (\E new \in {"active", "past_due", "free"} : Subscribe(new)) \/ ComeDue
  PROVE  IInv'
<1>1. /\ status' \in {"trialing", "active", "past_due", "free"} /\ trial' \in {"none", "ahead", "past"}
      /\ due' \in BOOLEAN
      /\ UNCHANGED <<up, timer, booted, completed, error, pc, elapsed, row, listed, alone,
                     worked, ended, faults>>
  BY DEF EndTrial, Subscribe, ComeDue, IInv, TypeOK, processVars, stateVars, cycleVars
<1>2. TypeOK'
  BY <1>1 DEF IInv, TypeOK
<1>3. RecordInv' /\ WorkInv' /\ TimeInv' /\ AloneInv' /\ ErrorInv'
  BY <1>1 DEF IInv, RecordInv, WorkInv, TimeInv, AloneInv, ErrorInv
<1> QED
  BY <1>2, <1>3 DEF IInv

LEMMA NextIInv == IInv /\ [Next]_vars => IInv'
<1> SUFFICES ASSUME IInv, [Next]_vars PROVE IInv'
  OBVIOUS
<1>1. CASE \E c \in Cycles : CycleStep(c) \/ CheckFails(c) \/ Break(c)
  <2> PICK c \in Cycles : CycleStep(c) \/ CheckFails(c) \/ Break(c)
    BY <1>1
  <2> QED
    BY PassIInv, CheckFailsIInv, SweepVendorsIInv, BreakIInv, ReadRowIInv, WriteCompletedIInv,
       WriteErrorIInv, LoseRecordIInv DEF CycleStep
<1>2. CASE UNCHANGED vars
  BY <1>2 DEF vars, IInv, TypeOK, RecordInv, WorkInv, TimeInv, AloneInv, ErrorInv, Stored,
              processVars, stateVars, tenantVars, cycleVars
<1> QED
  BY <1>1, <1>2, TickIInv, TriggerIInv, StopIInv, StartIInv, PassTimeIInv, TenantIInv DEF Next

\* The invariant holds however cycles overlap, break, lose their records or die.
THEOREM Invariance == Spec => []IInv
BY InitIInv, NextIInv, PTL DEF Spec

-----------------------------------------------------------------------------

\* Every variable keeps its type.
THEOREM TypeCorrect == Spec => []TypeOK
<1>1. IInv => TypeOK
  BY DEF IInv
<1> QED
  BY <1>1, Invariance, PTL

\* The probe is not green unless some cycle came to the end of its passes within
\* MaxAge.
THEOREM GreenIsEarned == Spec => []GreenMeansWorked
<1>1. IInv => GreenMeansWorked
  <2> SUFFICES ASSUME IInv, up, ~Booting, ~Degraded PROVE worked # None /\ worked <= MaxAge
    BY DEF GreenMeansWorked
  <2>1. completed # None /\ ~(completed > MaxAge)
    BY DEF Degraded
  <2>2. worked # None /\ worked <= completed
    BY <2>1 DEF IInv, WorkInv
  <2> QED
    BY <2>1, <2>2, TimesAssumption DEF IInv, TypeOK, Ages
<1> QED
  BY <1>1, Invariance, PTL

\* The probe does not turn red while nothing fails, if MaxAge leaves room for an
\* interval and the longest cycle.
THEOREM NoAlarmWithoutFault == Spec => []NoFalseAlarm
<1>1. IInv => NoFalseAlarm
  <2> SUFFICES ASSUME IInv, faults = 0, completed # None, Interval + MaxRun <= MaxAge
               PROVE  completed <= MaxAge
    BY TimesAssumption DEF NoFalseAlarm, Degraded, IInv, TypeOK, Ages
  <2>1. /\ Scheduled \in Cycles /\ timer \in 0 .. Interval
        /\ elapsed[Scheduled] \in 0 .. MaxRun /\ completed \in Nat
    BY TimesAssumption DEF Cycles, IInv, TypeOK, Ages
  <2>2. pc[Scheduled] \in {"idle", "clear", "complete"} \cup Passes
    BY <2>1 DEF IInv, TypeOK, TimeInv, Records
  <2>3. \/ completed <= timer
        \/ completed <= Interval + elapsed[Scheduled]
        \/ completed = 0
    BY <2>2 DEF IInv, TimeInv
  <2> QED
    BY <2>1, <2>3, TimesAssumption
<1> QED
  BY <1>1, Invariance, PTL

\* After a cycle that was alone, last_error is that of this cycle.
THEOREM ErrorIsOfLastCycle == Spec => []LastErrorIsCurrent
<1>1. IInv => LastErrorIsCurrent
  BY DEF IInv, ErrorInv, LastErrorIsCurrent
<1> QED
  BY <1>1, Invariance, PTL

=============================================================================
