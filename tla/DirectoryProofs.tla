--------------------------- MODULE DirectoryProofs --------------------------
(***************************************************************************)
(* What DirectorySerial checks for one sweep and one vendor.  For any      *)
(* number of vendors and of sweeps that overlap: the types, and that no    *)
(* page is ever published without a list.  For any number of vendors and   *)
(* one sweep: a page that is called fresh was read, and a list moves with  *)
(* a note of the change.                                                   *)
(***************************************************************************)
EXTENDS Directory, TLAPS

Busy(s) == pc[s] \notin {"idle", "checking"}

\* A check that is under way has its vendor loaded, and one that compares has
\* read a page.
SweepInv ==
  \A s \in Sweeps :
    /\ Busy(s) => at[s] \in Vendors /\ seen[s] \in Snapshot
    /\ pc[s] = "comparing" => got[s] \in Pages

\* PublishedHasList, said of the row.
ListInv == \A v \in Vendors : published[v] => entries[v] # None

\* Lists are replaced and never taken away, so what a sweep has seen of one still
\* holds: that is why an assignment that changes nothing may be left out of its
\* UPDATE.
SeenInv ==
  \A s \in Sweeps :
    Busy(s) /\ (seen[s].entries # None \/ seen[s].published) => entries[at[s]] # None

IInv == TypeOK /\ SweepInv /\ ListInv /\ SeenInv

ListInvs == SweepInv /\ ListInv /\ SeenInv

LEMMA InitIInv == Init => IInv
<1> SUFFICES ASSUME Init PROVE IInv
  OBVIOUS
<1>1. TypeOK
  BY SettingsAssumption, NoneAssumption DEF Init, TypeOK, Age
<1>2. SweepInv /\ ListInv /\ SeenInv
  BY DEF Init, SweepInv, ListInv, SeenInv, Busy
<1> QED
  BY <1>1, <1>2 DEF IInv

-----------------------------------------------------------------------------
(* Before the page is read.                                                *)

LEMMA StartIInv == ASSUME IInv, NEW s \in Sweeps, StartSweep(s) \/ EndSweep(s) PROVE IInv'
<1>1. TypeOK'
  BY DEF StartSweep, EndSweep, IInv, TypeOK, worldVars, contentVars, listVars
<1>2. ListInvs'
  BY DEF StartSweep, EndSweep, IInv, ListInvs, TypeOK, SweepInv, ListInv, SeenInv, Busy,
         listVars
<1> QED
  BY <1>1, <1>2 DEF IInv, ListInvs

LEMMA LoadIInv ==
  ASSUME IInv, NEW s \in Sweeps, NEW v \in Vendors, LoadVendor(s, v) PROVE IInv'
<1> DEFINE row == [hash |-> hash[v], format |-> format[v], entries |-> entries[v],
                   published |-> published[v], blocked |-> blocked[v], browser |-> browser[v]]
<1>1. row \in Snapshot
  BY DEF IInv, TypeOK, Snapshot
<1>2. row.entries = entries[v] /\ row.published = published[v]
  OBVIOUS
<1>3. /\ seen' = [seen EXCEPT ![s] = row]
      /\ at' = [at EXCEPT ![s] = v]
      /\ pc' = [pc EXCEPT ![s] = "asking"]
      /\ todo' = [todo EXCEPT ![s] = @ \ {v}]
      /\ UNCHANGED <<worldVars, cached, contentVars, listVars, blocked, browser, checked,
                     due, got, read, faults>>
  BY DEF LoadVendor
<1> HIDE DEF row
<1>4. TypeOK'
  BY <1>1, <1>3 DEF IInv, TypeOK, worldVars, contentVars, listVars
<1>5. SweepInv'
  BY <1>1, <1>3 DEF IInv, TypeOK, SweepInv, Busy
<1>6. ListInv'
  BY <1>3 DEF IInv, ListInv, listVars
<1>7. SeenInv'
  BY <1>2, <1>3 DEF IInv, TypeOK, SeenInv, ListInv, Busy, listVars
<1> QED
  BY <1>4, <1>5, <1>6, <1>7 DEF IInv

\* An answer of robots.txt is kept and changes no row.
LEMMA AnswersType ==
  ASSUME IInv, NEW v \in Vendors, NEW answer, Answers(v, answer)
  PROVE  cached' \in [Vendors -> Verdicts \cup {None}] /\ faults' \in Nat
BY DEF Answers, IInv, TypeOK, Verdicts

\* The end of a check frees its sweep and leaves the others alone.
LEMMA EndCheckInvs ==
  ASSUME IInv, NEW s \in Sweeps, Busy(s), EndCheck(s)
  PROVE  /\ pc' \in [Sweeps -> {"idle", "checking", "asking", "fetching", "comparing"}]
         /\ at' \in [Sweeps -> Vendors \cup {None}]
         /\ seen' \in [Sweeps -> Snapshot \cup {None}]
         /\ got' \in [Sweeps -> Pages \cup {None}]
         /\ SweepInv'
         /\ \A t \in Sweeps : Busy(t)' => Busy(t) /\ at'[t] = at[t] /\ seen'[t] = seen[t]
BY DEF EndCheck, IInv, TypeOK, SweepInv, Busy

\* As long as no list is taken away, what the sweeps have seen goes on to hold.
LEMMA SeenStays ==
  ASSUME IInv,
         \A t \in Sweeps : Busy(t)' => Busy(t) /\ at'[t] = at[t] /\ seen'[t] = seen[t],
         \A v \in Vendors : entries[v] # None => entries'[v] # None
  PROVE  SeenInv'
BY DEF IInv, SeenInv, SweepInv

LEMMA RefuseIInv == ASSUME IInv, NEW s \in Sweeps, RobotsRefuse(s) PROVE IInv'
<1>1. Busy(s) /\ EndCheck(s) /\ at[s] \in Vendors /\ seen[s] \in Snapshot
  BY DEF RobotsRefuse, Busy, IInv, SweepInv
<1>2. cached' \in [Vendors -> Verdicts \cup {None}] /\ faults' \in Nat
  BY <1>1, AnswersType DEF RobotsRefuse
<1>3. /\ blocked' \in [Vendors -> BOOLEAN]
      /\ published' \in [Vendors -> BOOLEAN]
      /\ \A v \in Vendors : published'[v] => published[v]
  BY <1>1 DEF RobotsRefuse, Dirty, IInv, TypeOK, Snapshot
<1>4. checked' \in [Vendors -> Age] /\ due' \in [Vendors -> BOOLEAN]
  BY <1>1, SettingsAssumption DEF RobotsRefuse, IInv, TypeOK, Age
<1>5. UNCHANGED <<page, rule, hash, format, change, entries, browser, todo, read>>
  BY DEF RobotsRefuse, worldVars, contentVars
<1>6. TypeOK'
  BY <1>1, <1>2, <1>3, <1>4, <1>5, EndCheckInvs DEF IInv, TypeOK
<1>7. SeenInv'
  BY <1>1, <1>5, EndCheckInvs, SeenStays
<1> QED
  BY <1>1, <1>3, <1>5, <1>6, <1>7, EndCheckInvs DEF IInv, ListInv

LEMMA AllowIInv == ASSUME IInv, NEW s \in Sweeps, RobotsAllow(s) PROVE IInv'
<1>1. at[s] \in Vendors
  BY DEF RobotsAllow, Busy, IInv, SweepInv
<1>2. cached' \in [Vendors -> Verdicts \cup {None}] /\ faults' \in Nat
  BY <1>1, AnswersType DEF RobotsAllow
<1>3. TypeOK'
  BY <1>2 DEF RobotsAllow, IInv, TypeOK, worldVars, contentVars, listVars
<1>4. ListInvs'
  BY DEF RobotsAllow, IInv, ListInvs, TypeOK, SweepInv, ListInv, SeenInv, Busy, listVars
<1> QED
  BY <1>3, <1>4 DEF IInv, ListInvs

\* The browser's commit changes the loaded row as it changes the stored one.
LEMMA PinIInv == ASSUME IInv, NEW s \in Sweeps, PinBrowser(s) PROVE IInv'
<1>1. at[s] \in Vendors /\ seen[s] \in Snapshot
  BY DEF PinBrowser, Busy, IInv, SweepInv
<1> DEFINE row == [seen[s] EXCEPT !.browser = TRUE, !.blocked = FALSE]
<1>2. row \in Snapshot /\ row.entries = seen[s].entries /\ row.published = seen[s].published
  BY <1>1 DEF Snapshot
<1>3. seen' = [seen EXCEPT ![s] = row]
  BY <1>1 DEF PinBrowser, IInv, TypeOK, Snapshot
<1>4. /\ browser' \in [Vendors -> BOOLEAN]
      /\ blocked' \in [Vendors -> BOOLEAN]
  BY <1>1 DEF PinBrowser, Unblock, Dirty, IInv, TypeOK, Snapshot
<1>5. UNCHANGED <<page, rule, cached, hash, format, change, entries, published, checked, due,
                  pc, todo, at, got, read, faults>>
  BY DEF PinBrowser, worldVars, contentVars, listVars
<1> HIDE DEF row
<1>6. TypeOK'
  BY <1>2, <1>3, <1>4, <1>5 DEF IInv, TypeOK
<1>7. SweepInv'
  BY <1>2, <1>3, <1>5 DEF IInv, TypeOK, SweepInv, Busy
<1>8. SeenInv' /\ ListInv'
  BY <1>2, <1>3, <1>5 DEF IInv, TypeOK, SeenInv, ListInv, Busy
<1> QED
  BY <1>6, <1>7, <1>8 DEF IInv

LEMMA ReadIInv == ASSUME IInv, NEW s \in Sweeps, ReadPage(s) PROVE IInv'
<1>1. at[s] \in Vendors /\ page[at[s]] \in Pages
  BY DEF ReadPage, Busy, IInv, SweepInv, TypeOK
<1>2. TypeOK'
  BY <1>1 DEF ReadPage, IInv, TypeOK, worldVars, contentVars, listVars
<1>3. ListInvs'
  BY <1>1 DEF ReadPage, IInv, ListInvs, TypeOK, SweepInv, ListInv, SeenInv, Busy, listVars
<1> QED
  BY <1>2, <1>3 DEF IInv, ListInvs

LEMMA FailIInv == ASSUME IInv, NEW s \in Sweeps, FetchFails(s) \/ CheckRaises(s) PROVE IInv'
<1>1. Busy(s) /\ EndCheck(s) /\ at[s] \in Vendors /\ seen[s] \in Snapshot
  BY DEF FetchFails, CheckRaises, Busy, IInv, SweepInv
<1>2. blocked' \in [Vendors -> BOOLEAN] /\ due' \in [Vendors -> BOOLEAN] /\ faults' \in Nat
  <2>1. CASE FetchFails(s)
    <3>1. Dirty(seen[s].blocked, FALSE, blocked[at[s]]) \in BOOLEAN
      BY <1>1 DEF Dirty, IInv, TypeOK
    <3>2. blocked' \in [Vendors -> BOOLEAN]
      BY <2>1, <3>1 DEF FetchFails, Unblock, IInv, TypeOK
    <3>3. due' \in [Vendors -> BOOLEAN] /\ faults' = faults
      BY <2>1 DEF FetchFails, IInv, TypeOK
    <3> QED
      BY <3>2, <3>3 DEF IInv, TypeOK
  <2>2. CASE CheckRaises(s)
    BY <2>2 DEF CheckRaises, IInv, TypeOK
  <2> QED
    BY <2>1, <2>2
<1>3. UNCHANGED <<page, rule, cached, hash, format, change, entries, published, browser,
                  checked, todo, read>>
  BY DEF FetchFails, CheckRaises, worldVars, contentVars, listVars
<1>4. TypeOK'
  BY <1>1, <1>2, <1>3, EndCheckInvs DEF IInv, TypeOK
<1>5. SeenInv'
  BY <1>1, <1>3, EndCheckInvs, SeenStays
<1> QED
  BY <1>1, <1>3, <1>4, <1>5, EndCheckInvs DEF IInv, ListInv

-----------------------------------------------------------------------------
(* The ends of a check that read its page.                                 *)

\* A list that is written is that of a page, whatever was stored meanwhile.
LEMMA RelistLists ==
  ASSUME IInv, NEW s \in Sweeps, pc[s] = "comparing", NEW listed \in BOOLEAN, Relist(s, listed)
  PROVE  /\ entries' \in [Vendors -> Pages \cup {None}]
         /\ published' \in [Vendors -> BOOLEAN]
         /\ faults' \in Nat
         /\ \A v \in Vendors : entries[v] # None => entries'[v] # None
         /\ ListInv'
<1>1. /\ at[s] \in Vendors /\ seen[s] \in Snapshot /\ got[s] \in Pages
      /\ seen[s].entries # None => entries[at[s]] # None
  BY DEF IInv, SweepInv, SeenInv, Busy
<1>2. CASE listed
  <2>1. /\ entries' = [entries EXCEPT ![at[s]] =
                         IF got[s] # seen[s].entries THEN got[s] ELSE entries[at[s]]]
        /\ published' = [published EXCEPT ![at[s]] =
                         IF TRUE # seen[s].published THEN TRUE ELSE published[at[s]]]
        /\ faults' = faults
    BY <1>2 DEF Relist, Dirty
  <2>2. entries' \in [Vendors -> Pages \cup {None}] /\ entries'[at[s]] # None
    BY <1>1, <2>1, NoneAssumption DEF IInv, TypeOK
  <2>3. \A v \in Vendors : v # at[s] => entries'[v] = entries[v] /\ published'[v] = published[v]
    BY <1>1, <2>1 DEF IInv, TypeOK
  <2>4. published' \in [Vendors -> BOOLEAN] /\ faults' \in Nat
    BY <1>1, <2>1 DEF IInv, TypeOK
  <2> QED
    BY <2>2, <2>3, <2>4 DEF IInv, ListInv
<1>3. CASE ~listed
  BY <1>3 DEF Relist, IInv, TypeOK, ListInv, listVars
<1> QED
  BY <1>2, <1>3

\* What a check that read its page commits besides.
LEMMA SucceedTypes ==
  ASSUME IInv, NEW s \in Sweeps, pc[s] = "comparing", Succeed(s)
  PROVE  /\ hash' \in [Vendors -> Pages \cup {None}]
         /\ format' \in [Vendors -> {"older", "current"}]
         /\ blocked' \in [Vendors -> BOOLEAN]
         /\ checked' \in [Vendors -> Age]
         /\ read' \in [Vendors -> Age]
         /\ due' \in [Vendors -> BOOLEAN]
         /\ Busy(s) /\ EndCheck(s)
         /\ UNCHANGED <<page, rule, cached, browser, todo>>
<1>1. at[s] \in Vendors /\ seen[s] \in Snapshot /\ got[s] \in Pages /\ Busy(s)
  BY DEF IInv, SweepInv, Busy
<1>2. hash' \in [Vendors -> Pages \cup {None}] /\ format' \in [Vendors -> {"older", "current"}]
  BY <1>1 DEF Succeed, Dirty, IInv, TypeOK, Snapshot
<1>3. blocked' \in [Vendors -> BOOLEAN] /\ due' \in [Vendors -> BOOLEAN]
  BY <1>1 DEF Succeed, Unblock, Dirty, IInv, TypeOK, Snapshot
<1>4. checked' \in [Vendors -> Age] /\ read' \in [Vendors -> Age]
  BY <1>1, SettingsAssumption DEF Succeed, IInv, TypeOK, Age
<1>5. EndCheck(s) /\ UNCHANGED <<page, rule, cached, browser, todo>>
  BY DEF Succeed, worldVars
<1> QED
  BY <1>1, <1>2, <1>3, <1>4, <1>5

LEMMA QuietIInv ==
  ASSUME IInv, NEW s \in Sweeps, Rebaseline(s) \/ FindNoChange(s) PROVE IInv'
<1>1. pc[s] = "comparing" /\ Succeed(s) /\ UNCHANGED <<change, entries, published, faults>>
  BY DEF Rebaseline, FindNoChange, listVars
<1>2. TypeOK'
  BY <1>1, SucceedTypes, EndCheckInvs DEF IInv, TypeOK
<1>3. SweepInv' /\ SeenInv'
  BY <1>1, SucceedTypes, EndCheckInvs, SeenStays
<1> QED
  BY <1>1, <1>2, <1>3 DEF IInv, ListInv

LEMMA RelistIInv ==
  ASSUME IInv, NEW s \in Sweeps, FirstSighting(s) \/ RecordChange(s) PROVE IInv'
<1>1. pc[s] = "comparing" /\ Succeed(s)
  BY DEF FirstSighting, RecordChange
<1>2. PICK listed \in BOOLEAN :
        /\ Relist(s, listed)
        /\ \/ UNCHANGED change
           \/ /\ seen[s].hash # None
              /\ change' = [change EXCEPT ![at[s]] =
                   [old |-> seen[s].hash, new |-> got[s], listed |-> listed]]
  BY DEF FirstSighting, RecordChange
<1>3. at[s] \in Vendors /\ seen[s].hash \in Pages \cup {None} /\ got[s] \in Pages
  BY <1>1 DEF IInv, SweepInv, Busy, Snapshot
<1>4. change' \in [Vendors -> [old : Pages, new : Pages, listed : BOOLEAN] \cup {None}]
  BY <1>2, <1>3 DEF IInv, TypeOK
<1>5. TypeOK'
  BY <1>1, <1>2, <1>4, SucceedTypes, RelistLists, EndCheckInvs DEF IInv, TypeOK
<1>6. SweepInv' /\ SeenInv' /\ ListInv'
  BY <1>1, <1>2, SucceedTypes, RelistLists, EndCheckInvs, SeenStays
<1> QED
  BY <1>5, <1>6 DEF IInv

-----------------------------------------------------------------------------

\* Lists and sweeps that are left alone keep what is known of them.
LEMMA ListInvsStay ==
  ASSUME IInv, UNCHANGED <<entries, published, pc, at, seen, got>> PROVE ListInvs'
BY DEF IInv, ListInvs, SweepInv, ListInv, SeenInv, Busy

LEMMA CrashIInv == ASSUME IInv, Crash PROVE IInv'
<1>1. TypeOK'
  BY DEF Crash, IInv, TypeOK, worldVars, contentVars, listVars
<1>2. ListInvs'
  BY DEF Crash, IInv, ListInvs, SweepInv, ListInv, SeenInv, Busy, listVars
<1> QED
  BY <1>1, <1>2 DEF IInv, ListInvs

LEMMA WorldIInv ==
  ASSUME IInv,
         \/ \E v \in Vendors, p \in Pages, r \in Verdicts : ChangeSite(v, p, r)
         \/ \E v \in Vendors : Forget(v) \/ ComeDue(v)
         \/ Day
  PROVE  IInv'
<1>1. UNCHANGED <<entries, published, pc, todo, at, seen, got, hash, format, change, blocked,
                  browser, faults>>
  BY DEF ChangeSite, Forget, ComeDue, Day, contentVars, listVars, sweepVars
<1>2. ASSUME \E v \in Vendors, p \in Pages, r \in Verdicts : ChangeSite(v, p, r) PROVE TypeOK'
  BY <1>1, <1>2 DEF ChangeSite, IInv, TypeOK
<1>3. ASSUME \E v \in Vendors : Forget(v) \/ ComeDue(v) PROVE TypeOK'
  <2>1. /\ cached' \in [Vendors -> Verdicts \cup {None}]
        /\ due' \in [Vendors -> BOOLEAN]
        /\ UNCHANGED <<page, rule, checked, read>>
    BY <1>3 DEF Forget, ComeDue, IInv, TypeOK, worldVars
  <2> QED
    BY <1>1, <2>1 DEF IInv, TypeOK
<1>4. ASSUME Day PROVE TypeOK'
  <2>1. \A age \in Age : Older(age) \in Age
    BY SettingsAssumption, NoneAssumption DEF Older, Age
  <2>2. checked' \in [Vendors -> Age] /\ read' \in [Vendors -> Age]
    BY <1>4, <2>1 DEF Day, IInv, TypeOK
  <2> QED
    BY <1>1, <1>4, <2>2 DEF Day, IInv, TypeOK, worldVars
<1>5. TypeOK'
  BY <1>2, <1>3, <1>4
<1> QED
  BY <1>1, <1>5, ListInvsStay DEF IInv, ListInvs

LEMMA NextIInv == IInv /\ [Next]_vars => IInv'
<1> SUFFICES ASSUME IInv, [Next]_vars PROVE IInv'
  OBVIOUS
<1>1. CASE \E s \in Sweeps : SweepStep(s) \/ CheckRaises(s)
  <2> PICK s \in Sweeps : SweepStep(s) \/ CheckRaises(s)
    BY <1>1
  <2> QED
    BY StartIInv, LoadIInv, RefuseIInv, AllowIInv, PinIInv, ReadIInv, FailIInv, QuietIInv,
       RelistIInv DEF SweepStep
<1>2. CASE UNCHANGED vars
  BY <1>2 DEF vars, IInv, TypeOK, SweepInv, ListInv, SeenInv, Busy, worldVars, contentVars,
              listVars, sweepVars
<1> QED
  BY <1>1, <1>2, WorldIInv, CrashIInv DEF Next

\* The invariant holds however many sweeps overlap, fail or die.
THEOREM Invariance == Spec => []IInv
BY InitIInv, NextIInv, PTL DEF Spec

-----------------------------------------------------------------------------

\* Every variable keeps its type.
THEOREM TypeCorrect == Spec => []TypeOK
<1>1. IInv => TypeOK
  BY DEF IInv
<1> QED
  BY <1>1, Invariance, PTL

\* No visitor is ever shown a published page without a list, whatever two sweeps
\* do to the same vendor.
THEOREM ListBehindEveryPage == Spec => []PublishedHasList
<1>1. IInv => PublishedHasList
  BY DEF IInv, ListInv, PublishedHasList, Detail
<1> QED
  BY <1>1, Invariance, PTL

-----------------------------------------------------------------------------
(* One sweep at a time: what it loaded is what the row holds, and a vendor *)
(* that is published was dated by a reading only.                          *)

OneSweep == \A s, z \in Sweeps : s = z

CopyInv ==
  \A s \in Sweeps : Busy(s) =>
    /\ seen[s].hash = hash[at[s]]
    /\ seen[s].entries = entries[at[s]]
    /\ seen[s].published = published[at[s]]

DatedInv == \A v \in Vendors : published[v] => checked[v] = read[v]

SoloInv == CopyInv /\ DatedInv

\* Vendors that an older release published have been read when they were dated.
LEMMA InitSolo == Init => SoloInv
BY DEF Init, SoloInv, CopyInv, DatedInv, Busy

\* A step that stores no reading, list or date leaves what was loaded as it is.
LEMMA RowsUntouched ==
  ASSUME SoloInv,
         UNCHANGED <<hash, entries, published, checked, read>>,
         \A z \in Sweeps : Busy(z)' =>
           /\ Busy(z)
           /\ at'[z] = at[z]
           /\ seen'[z].hash = seen[z].hash
           /\ seen'[z].entries = seen[z].entries
           /\ seen'[z].published = seen[z].published
  PROVE  SoloInv'
BY DEF SoloInv, CopyInv, DatedInv

\* The steps of a sweep that store nothing of it (directory.py).
LEMMA PassSolo ==
  ASSUME IInv, SoloInv, NEW s \in Sweeps,
         \/ StartSweep(s) \/ EndSweep(s) \/ RobotsAllow(s) \/ ReadPage(s)
         \/ FetchFails(s) \/ CheckRaises(s)
  PROVE  SoloInv'
<1>1. UNCHANGED <<hash, entries, published, checked, read>>
  BY DEF StartSweep, EndSweep, RobotsAllow, ReadPage, FetchFails, CheckRaises, contentVars,
         listVars
<1>2. /\ pc' \in {[pc EXCEPT ![s] = p] : p \in {"idle", "checking", "fetching", "comparing"}}
      /\ \/ UNCHANGED <<at, seen>> /\ Busy(s)
         \/ pc'[s] \in {"idle", "checking"} /\ \A z \in Sweeps \ {s} : UNCHANGED <<at[z], seen[z]>>
  BY DEF StartSweep, EndSweep, RobotsAllow, ReadPage, FetchFails, CheckRaises, EndCheck,
         Busy, IInv, TypeOK
<1>3. \A z \in Sweeps : Busy(z)' => Busy(z) /\ UNCHANGED <<at[z], seen[z]>>
  BY <1>2 DEF Busy, IInv, TypeOK
<1> QED
  BY <1>1, <1>3, RowsUntouched

\* The browser's commit stores nothing of it either.
LEMMA PinSolo == ASSUME IInv, SoloInv, NEW s \in Sweeps, PinBrowser(s) PROVE SoloInv'
<1>1. /\ UNCHANGED <<hash, entries, published, checked, read, pc, at>>
      /\ seen' = [seen EXCEPT ![s] = [seen[s] EXCEPT !.browser = TRUE, !.blocked = FALSE]]
  BY DEF PinBrowser, contentVars, listVars
<1>2. seen[s] \in Snapshot
  BY DEF PinBrowser, IInv, SweepInv, Busy
<1>3. \A z \in Sweeps :
        /\ seen'[z].hash = seen[z].hash
        /\ seen'[z].entries = seen[z].entries
        /\ seen'[z].published = seen[z].published
  BY <1>1, <1>2 DEF IInv, TypeOK, Snapshot
<1> QED
  BY <1>1, <1>3, RowsUntouched DEF Busy

\* The only session is a copy of the row it has just loaded.
LEMMA LoadSolo ==
  ASSUME OneSweep, IInv, SoloInv, NEW s \in Sweeps, NEW v \in Vendors, LoadVendor(s, v)
  PROVE  SoloInv'
<1>1. UNCHANGED <<hash, entries, published, checked, read>>
  BY DEF LoadVendor, contentVars, listVars
<1>2. /\ at'[s] = v
      /\ seen'[s].hash = hash[v]
      /\ seen'[s].entries = entries[v]
      /\ seen'[s].published = published[v]
  BY DEF LoadVendor, IInv, TypeOK
<1> QED
  BY <1>1, <1>2 DEF OneSweep, SoloInv, CopyInv, DatedInv

\* A refusal dates a row that is not published from then on.
LEMMA RefuseSolo ==
  ASSUME OneSweep, IInv, SoloInv, NEW s \in Sweeps, RobotsRefuse(s)
  PROVE  SoloInv'
<1>1. at[s] \in Vendors /\ seen[s].published = published[at[s]]
  BY DEF RobotsRefuse, IInv, SweepInv, SoloInv, CopyInv, Busy
<1>2. /\ pc'[s] = "checking"
      /\ published' = [published EXCEPT ![at[s]] = FALSE]
      /\ checked' = [checked EXCEPT ![at[s]] = 0]
      /\ UNCHANGED read
  BY <1>1 DEF RobotsRefuse, EndCheck, Dirty, IInv, TypeOK
<1> QED
  BY <1>1, <1>2 DEF OneSweep, SoloInv, CopyInv, DatedInv, Busy, IInv, TypeOK

\* What a reading stores when nobody else has written the row.
LEMMA SucceedStores ==
  ASSUME IInv, SoloInv, NEW s \in Sweeps, pc[s] = "comparing", Succeed(s)
  PROVE  /\ at[s] \in Vendors
         /\ hash' = [hash EXCEPT ![at[s]] = got[s]]
         /\ checked' = [checked EXCEPT ![at[s]] = 0]
         /\ read' = [read EXCEPT ![at[s]] = 0]
         /\ pc'[s] = "checking"
<1>1. at[s] \in Vendors /\ seen[s].hash = hash[at[s]]
  BY DEF IInv, SweepInv, SoloInv, CopyInv, Busy
<1> QED
  BY <1>1 DEF Succeed, EndCheck, Dirty, IInv, TypeOK

\* A list that was extracted is the one of the page that was read.
LEMMA RelistStores ==
  ASSUME IInv, SoloInv, NEW s \in Sweeps, pc[s] = "comparing", NEW listed \in BOOLEAN,
         Relist(s, listed)
  PROVE  /\ \A v \in Vendors \ {at[s]} : entries'[v] = entries[v] /\ published'[v] = published[v]
         /\ entries'[at[s]] # entries[at[s]] => listed /\ entries'[at[s]] = got[s]
<1>1. /\ at[s] \in Vendors
      /\ seen[s].entries = entries[at[s]] /\ seen[s].published = published[at[s]]
  BY DEF IInv, SweepInv, SoloInv, CopyInv, Busy
<1> QED
  BY <1>1 DEF Relist, Dirty, IInv, TypeOK, listVars

\* A reading dates the row and the page alike.
LEMMA SucceedSolo ==
  ASSUME OneSweep, IInv, SoloInv, NEW s \in Sweeps,
         FirstSighting(s) \/ Rebaseline(s) \/ FindNoChange(s) \/ RecordChange(s)
  PROVE  SoloInv'
<1>1. pc[s] = "comparing" /\ Succeed(s)
  BY DEF FirstSighting, Rebaseline, FindNoChange, RecordChange
<1>2. \A v \in Vendors \ {at[s]} : published'[v] = published[v]
  <2>1. CASE FirstSighting(s) \/ RecordChange(s)
    BY <1>1, <2>1, RelistStores DEF FirstSighting, RecordChange
  <2>2. CASE Rebaseline(s) \/ FindNoChange(s)
    BY <2>2 DEF Rebaseline, FindNoChange, listVars
  <2> QED
    BY <2>1, <2>2
<1>3. DatedInv'
  BY <1>1, <1>2, SucceedStores DEF SoloInv, DatedInv, IInv, TypeOK
<1>4. CopyInv'
  BY <1>1, SucceedStores DEF OneSweep, CopyInv, Busy
<1> QED
  BY <1>3, <1>4 DEF SoloInv

\* The world, the clock and a crash of the process store nothing.
LEMMA WorldSolo ==
  ASSUME IInv, SoloInv,
         \/ Crash
         \/ \E v \in Vendors, p \in Pages, r \in Verdicts : ChangeSite(v, p, r)
         \/ \E v \in Vendors : Forget(v) \/ ComeDue(v)
         \/ Day
  PROVE  SoloInv'
<1>1. CASE Crash
  BY <1>1, RowsUntouched DEF Crash, Busy, contentVars, listVars
<1>2. CASE \/ \E v \in Vendors, p \in Pages, r \in Verdicts : ChangeSite(v, p, r)
           \/ \E v \in Vendors : Forget(v) \/ ComeDue(v)
  <2>1. UNCHANGED <<hash, entries, published, checked, read, pc, at, seen>>
    BY <1>2 DEF ChangeSite, Forget, ComeDue, contentVars, listVars, sweepVars
  <2> QED
    BY <2>1, RowsUntouched DEF Busy
<1>3. CASE Day
  <2>1. /\ checked' = [v \in Vendors |-> Older(checked[v])]
        /\ read' = [v \in Vendors |-> Older(read[v])]
        /\ UNCHANGED <<hash, entries, published, pc, at, seen>>
    BY <1>3 DEF Day, contentVars, listVars, sweepVars
  <2> QED
    BY <2>1 DEF SoloInv, CopyInv, DatedInv, Busy
<1> QED
  BY <1>1, <1>2, <1>3

\* Every step of the only sweep and of the world keeps SoloInv.
LEMMA NextSolo == ASSUME OneSweep, IInv, SoloInv, [Next]_vars PROVE SoloInv'
<1>1. CASE \E s \in Sweeps : SweepStep(s) \/ CheckRaises(s)
  BY <1>1, PassSolo, PinSolo, LoadSolo, RefuseSolo, SucceedSolo DEF SweepStep
<1>2. CASE UNCHANGED vars
  BY <1>2, RowsUntouched DEF vars, Busy, contentVars, listVars, sweepVars
<1> QED
  BY <1>1, <1>2, WorldSolo DEF Next

\* With one sweep, a published vendor was dated by a reading only.
THEOREM SoloInvariance == OneSweep => (Spec => []SoloInv)
<1> SUFFICES ASSUME OneSweep PROVE Spec => []SoloInv
  OBVIOUS
<1>1. IInv /\ SoloInv /\ [Next]_vars => SoloInv'
  BY NextSolo
<1> QED
  BY <1>1, InitSolo, Invariance, PTL DEF Spec

\* No page looks fresh that nobody has read for StaleAfter days, refusals of
\* robots.txt notwithstanding.
THEOREM FreshPagesWereRead == OneSweep => (Spec => []FreshWasRead)
<1> SUFFICES ASSUME OneSweep PROVE Spec => []FreshWasRead
  OBVIOUS
<1>1. SoloInv => FreshWasRead
  <2> SUFFICES ASSUME SoloInv, NEW v \in Vendors, Detail(v) # None, Detail(v).badge = "fresh"
               PROVE  read[v] \notin {None, StaleAfter}
    BY DEF FreshWasRead
  <2>1. published[v] /\ Badge(v) = "fresh"
    BY DEF Detail
  <2>2. checked[v] \notin {None, StaleAfter}
    BY <2>1 DEF Badge
  <2> QED
    BY <2>1, <2>2 DEF SoloInv, DatedInv
<1> QED
  BY <1>1, SoloInvariance, PTL

\* Every list that replaces another has a change that leads from the stored
\* text to the text the new list comes from.
THEOREM ListsMoveInTheOpen == OneSweep => (Spec => NoSilentMove)
<1> SUFFICES ASSUME OneSweep PROVE Spec => NoSilentMove
  OBVIOUS
<1>1. IInv /\ SoloInv /\ [Next]_vars => [ListMovesAreNoted]_vars
  <2> SUFFICES ASSUME IInv, SoloInv, Next PROVE ListMovesAreNoted
    OBVIOUS
  <2>1. ASSUME NEW s \in Sweeps, FirstSighting(s) PROVE ListMovesAreNoted
    <3>1. pc[s] = "comparing" /\ hash[at[s]] = None
      BY <2>1 DEF FirstSighting, SoloInv, CopyInv, Busy
    <3>2. \A v \in Vendors \ {at[s]} : entries'[v] = entries[v]
      BY <2>1, <3>1, RelistStores DEF FirstSighting
    <3> QED
      BY <3>1, <3>2 DEF ListMovesAreNoted
  <2>2. ASSUME NEW s \in Sweeps, RecordChange(s) PROVE ListMovesAreNoted
    <3>1. /\ pc[s] = "comparing" /\ Succeed(s)
          /\ seen[s].hash = hash[at[s]]
      BY <2>2 DEF RecordChange, SoloInv, CopyInv, Busy
    <3>2. PICK listed \in BOOLEAN :
            /\ Relist(s, listed)
            /\ change' = [change EXCEPT ![at[s]] =
                 [old |-> seen[s].hash, new |-> got[s], listed |-> listed]]
      BY <2>2 DEF RecordChange
    <3>3. \A v \in Vendors \ {at[s]} : entries'[v] = entries[v]
      BY <3>1, <3>2, RelistStores
    <3>4. /\ at[s] \in Vendors
          /\ hash'[at[s]] = got[s]
      BY <3>1, SucceedStores DEF IInv, TypeOK
    <3>5. change'[at[s]] = [old |-> hash[at[s]], new |-> hash'[at[s]], listed |-> listed]
      BY <3>1, <3>2, <3>4 DEF IInv, TypeOK
    <3>6. entries'[at[s]] # entries[at[s]] => listed = TRUE /\ entries'[at[s]] = hash'[at[s]]
      BY <3>1, <3>2, <3>4, RelistStores
    <3> QED
      BY <3>3, <3>5, <3>6 DEF ListMovesAreNoted
  <2>3. CASE UNCHANGED entries
    BY <2>3 DEF ListMovesAreNoted
  <2>4. ASSUME NEW s \in Sweeps,
               \/ StartSweep(s) \/ EndSweep(s) \/ RobotsRefuse(s) \/ RobotsAllow(s)
               \/ PinBrowser(s) \/ ReadPage(s) \/ FetchFails(s) \/ Rebaseline(s)
               \/ FindNoChange(s) \/ CheckRaises(s) \/ \E v \in Vendors : LoadVendor(s, v)
        PROVE  UNCHANGED entries
    BY <2>4 DEF StartSweep, EndSweep, RobotsRefuse, RobotsAllow, PinBrowser, ReadPage,
       FetchFails, Rebaseline, FindNoChange, CheckRaises, LoadVendor, listVars
  <2>5. ASSUME \/ Crash \/ Day
               \/ \E v \in Vendors, p \in Pages, r \in Verdicts : ChangeSite(v, p, r)
               \/ \E v \in Vendors : Forget(v) \/ ComeDue(v)
        PROVE  UNCHANGED entries
    BY <2>5 DEF Crash, Day, ChangeSite, Forget, ComeDue, listVars
  <2> QED
    BY <2>1, <2>2, <2>3, <2>4, <2>5 DEF Next, SweepStep
<1> QED
  BY <1>1, Invariance, SoloInvariance, PTL DEF Spec, NoSilentMove

=============================================================================
