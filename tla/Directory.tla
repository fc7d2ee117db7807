----------------------------- MODULE Directory ------------------------------
(***************************************************************************)
(* The public vendor directory: app/services/directory.py, its rows        *)
(* (app/db/models/vendor.py), the robots.txt it asks first                 *)
(* (app/core/scraper/robots.py) and the page a visitor gets                *)
(* (app/routers/vendors.py).                                               *)
(*                                                                         *)
(* A check loads the vendor, asks robots.txt (an answer is kept for hours, *)
(* and so is the lack of one), fetches the page, and commits what it found *)
(* at once.  There is no reviewer: a change publishes itself and the list  *)
(* is extracted again.                                                     *)
(*                                                                         *)
(* A page is what its normalized text hashes to, and a list is the page it *)
(* was extracted from.                                                     *)
(***************************************************************************)
EXTENDS Naturals, UnitOfWork

CONSTANTS
  Vendors,      \* vendors rows, each on a host of its own
  Sweeps,       \* sweeps that may run at the same time
  Pages,        \* what a page can say
  None,         \* NULL
  StaleAfter,   \* settings.STALENESS_ALERT_DAYS
  MaxFaults     \* bound on crashes, errors, and robots.txt or a list not got

ASSUME SettingsAssumption == StaleAfter \in Nat \ {0} /\ MaxFaults \in Nat
ASSUME NoneAssumption == None \notin Nat /\ None \notin Pages /\ None \notin Vendors

VARIABLES
  page,        \* what each page says now
  rule,        \* what the host's robots.txt says of TrustPagesBot now
  cached,      \* the answer kept for the host in _CACHE
  hash,        \* last_content_hash (and text)
  format,      \* content_format_version: the current NORMALIZER_VERSION?
  entries,     \* entries: the page the list was extracted from
  published,   \* is_published
  blocked,     \* robots_blocked
  browser,     \* requires_browser
  checked,     \* age of last_checked_at in days
  due,         \* next_check_at has come
  change,      \* the latest vendor_changes row of each vendor
  pc,          \* where each sweep is
  todo,        \* vendors the sweep has listed and not reached
  at,          \* the vendor in the sweep's session
  seen,        \* that row as it was loaded
  got,         \* the page it fetched
  read,        \* age of the last reading of the page itself
  faults       \* faults so far

worldVars == <<page, rule>>
contentVars == <<hash, format, change>>
listVars == <<entries, published>>
sweepVars == <<pc, todo, at, seen, got>>
vars == <<worldVars, cached, contentVars, listVars, blocked, browser, checked, due,
          sweepVars, read, faults>>

Verdicts == {"allow", "deny"}
Age == (0 .. StaleAfter) \cup {None}

Snapshot == [hash : Pages \cup {None}, format : {"older", "current"},
             entries : Pages \cup {None}, published : BOOLEAN, blocked : BOOLEAN,
             browser : BOOLEAN]

TypeOK ==
  /\ page \in [Vendors -> Pages]
  /\ rule \in [Vendors -> Verdicts]
  /\ cached \in [Vendors -> Verdicts \cup {None}]
  /\ hash \in [Vendors -> Pages \cup {None}]
  /\ format \in [Vendors -> {"older", "current"}]
  /\ entries \in [Vendors -> Pages \cup {None}]
  /\ published \in [Vendors -> BOOLEAN]
  /\ blocked \in [Vendors -> BOOLEAN]
  /\ browser \in [Vendors -> BOOLEAN]
  /\ checked \in [Vendors -> Age]
  /\ due \in [Vendors -> BOOLEAN]
  /\ change \in [Vendors -> [old : Pages, new : Pages, listed : BOOLEAN] \cup {None}]
  /\ pc \in [Sweeps -> {"idle", "checking", "asking", "fetching", "comparing"}]
  /\ todo \in [Sweeps -> SUBSET Vendors]
  /\ at \in [Sweeps -> Vendors \cup {None}]
  /\ seen \in [Sweeps -> Snapshot \cup {None}]
  /\ got \in [Sweeps -> Pages \cup {None}]
  /\ read \in [Vendors -> Age]
  /\ faults \in Nat

\* Vendors just seeded, and vendors an older release has read and published.
Init ==
  /\ page \in [Vendors -> Pages]
  /\ rule \in [Vendors -> Verdicts]
  /\ cached = [v \in Vendors |-> None]
  /\ hash \in [Vendors -> Pages \cup {None}]
  /\ format = [v \in Vendors |-> "older"]
  /\ entries = hash
  /\ published = [v \in Vendors |-> hash[v] # None]
  /\ blocked = [v \in Vendors |-> FALSE]
  /\ browser \in [Vendors -> BOOLEAN]
  /\ checked = [v \in Vendors |-> IF hash[v] = None THEN None ELSE 0]
  /\ due = [v \in Vendors |-> TRUE]
  /\ change = [v \in Vendors |-> None]
  /\ pc = [s \in Sweeps |-> "idle"]
  /\ todo = [s \in Sweeps |-> {}]
  /\ at = [s \in Sweeps |-> None]
  /\ seen = [s \in Sweeps |-> None]
  /\ got = [s \in Sweeps |-> None]
  /\ read = checked
  /\ faults = 0

-----------------------------------------------------------------------------
(* The sweep and the question to robots.txt.                               *)

StartSweep(s) ==
  /\ pc[s] = "idle"
  /\ pc' = [pc EXCEPT ![s] = "checking"]
  /\ todo' = [todo EXCEPT ![s] = {v \in Vendors : due[v]}]
  /\ UNCHANGED <<worldVars, cached, contentVars, listVars, blocked, browser, checked,
                 due, at, seen, got, read, faults>>

EndSweep(s) ==
  /\ pc[s] = "checking"
  /\ todo[s] = {}
  /\ pc' = [pc EXCEPT ![s] = "idle"]
  /\ UNCHANGED <<worldVars, cached, contentVars, listVars, blocked, browser, checked,
                 due, todo, at, seen, got, read, faults>>

\* The check is over and its session is closed.
EndCheck(s) ==
  /\ pc' = [pc EXCEPT ![s] = "checking"]
  /\ at' = [at EXCEPT ![s] = None]
  /\ seen' = [seen EXCEPT ![s] = None]
  /\ got' = [got EXCEPT ![s] = None]

LoadVendor(s, v) ==
  /\ pc[s] = "checking"
  /\ v \in todo[s]
  /\ todo' = [todo EXCEPT ![s] = @ \ {v}]
  /\ at' = [at EXCEPT ![s] = v]
  /\ seen' = [seen EXCEPT ![s] =
       [hash |-> hash[v], format |-> format[v], entries |-> entries[v],
        published |-> published[v], blocked |-> blocked[v], browser |-> browser[v]]]
  /\ pc' = [pc EXCEPT ![s] = "asking"]
  /\ UNCHANGED <<worldVars, cached, contentVars, listVars, blocked, browser, checked,
                 due, got, read, faults>>

\* robots.is_allowed: the kept answer, or the host's; a robots.txt that is out
\* of reach allows, and that is kept as well.
Answers(v, answer) ==
  \/ /\ cached[v] # None
     /\ answer = cached[v]
     /\ UNCHANGED <<cached, faults>>
  \/ /\ cached[v] = None
     /\ answer = rule[v]
     /\ cached' = [cached EXCEPT ![v] = answer]
     /\ UNCHANGED faults
  \/ /\ cached[v] = None
     /\ faults < MaxFaults
     /\ faults' = faults + 1
     /\ answer = "allow"
     /\ cached' = [cached EXCEPT ![v] = answer]

\* Mutant of RobotsRefuse: the page stays up.
RobotsRefuseQuietly(s) ==
  /\ pc[s] = "asking"
  /\ Answers(at[s], "deny")
  /\ blocked' = [blocked EXCEPT ![at[s]] = TRUE]
  /\ checked' = [checked EXCEPT ![at[s]] = 0]
  /\ due' = [due EXCEPT ![at[s]] = FALSE]
  /\ EndCheck(s)
  /\ UNCHANGED <<worldVars, contentVars, listVars, browser, todo, read>>

RobotsRefuse(s) ==
  /\ pc[s] = "asking"
  /\ Answers(at[s], "deny")
  /\ blocked' = [blocked EXCEPT ![at[s]] = Dirty(seen[s].blocked, TRUE, @)]
  /\ published' = [published EXCEPT ![at[s]] = Dirty(seen[s].published, FALSE, @)]
  /\ checked' = [checked EXCEPT ![at[s]] = 0]
  /\ due' = [due EXCEPT ![at[s]] = FALSE]
  /\ EndCheck(s)
  /\ UNCHANGED <<worldVars, contentVars, entries, browser, todo, read>>

\* robots_blocked is taken back in the session; the next commit stores that.
RobotsAllow(s) ==
  /\ pc[s] = "asking"
  /\ Answers(at[s], "allow")
  /\ pc' = [pc EXCEPT ![s] = "fetching"]
  /\ UNCHANGED <<worldVars, contentVars, listVars, blocked, browser, checked, due, todo,
                 at, seen, got, read>>

-----------------------------------------------------------------------------
(* The fetch.                                                              *)

Unblock(s) == blocked' = [blocked EXCEPT ![at[s]] = Dirty(seen[s].blocked, FALSE, @)]

\* Plain HTTP was not enough and the browser got through:
\* _mark_vendor_requires_browser commits the session.
PinBrowser(s) ==
  /\ pc[s] = "fetching"
  /\ ~seen[s].browser
  /\ browser' = [browser EXCEPT ![at[s]] = TRUE]
  /\ Unblock(s)
  /\ seen' = [seen EXCEPT ![s].browser = TRUE, ![s].blocked = FALSE]
  /\ UNCHANGED <<worldVars, cached, contentVars, listVars, checked, due, pc, todo, at,
                 got, read, faults>>

\* Some tier returned healthy content (content_health_issue).
ReadPage(s) ==
  /\ pc[s] = "fetching"
  /\ pc' = [pc EXCEPT ![s] = "comparing"]
  /\ got' = [got EXCEPT ![s] = page[at[s]]]
  /\ UNCHANGED <<worldVars, cached, contentVars, listVars, blocked, browser, checked,
                 due, todo, at, seen, read, faults>>

\* Mutant of FetchFails: the attempt counts as a check.
FetchFailsDated(s) ==
  /\ pc[s] = "fetching"
  /\ Unblock(s)
  /\ checked' = [checked EXCEPT ![at[s]] = 0]
  /\ due' = [due EXCEPT ![at[s]] = FALSE]
  /\ EndCheck(s)
  /\ UNCHANGED <<worldVars, cached, contentVars, listVars, browser, todo, read, faults>>

\* Timeout, error, bot wall or too little text: again in half an hour.
FetchFails(s) ==
  /\ pc[s] = "fetching"
  /\ Unblock(s)
  /\ due' = [due EXCEPT ![at[s]] = FALSE]
  /\ EndCheck(s)
  /\ UNCHANGED <<worldVars, cached, contentVars, listVars, browser, checked, todo, read,
                 faults>>

-----------------------------------------------------------------------------
(* The four ends of a check that read its page.                            *)

\* What each of them commits.
Succeed(s) ==
  /\ hash' = [hash EXCEPT ![at[s]] = Dirty(seen[s].hash, got[s], @)]
  /\ format' = [format EXCEPT ![at[s]] = Dirty(seen[s].format, "current", @)]
  /\ Unblock(s)
  /\ checked' = [checked EXCEPT ![at[s]] = 0]
  /\ read' = [read EXCEPT ![at[s]] = 0]
  /\ due' = [due EXCEPT ![at[s]] = FALSE]
  /\ EndCheck(s)
  /\ UNCHANGED <<worldVars, cached, browser, todo>>

\* Mutant of Relist: a vendor is published without a list as well.
RelistAnyway(s, listed) ==
  /\ IF listed THEN UNCHANGED faults ELSE faults < MaxFaults /\ faults' = faults + 1
  /\ entries' = IF listed THEN [entries EXCEPT ![at[s]] = got[s]] ELSE entries
  /\ published' = [published EXCEPT ![at[s]] = TRUE]

\* _refresh_entries and what becomes of its answer: a list that was extracted
\* is shown; if none was, the list that is there stays.
Relist(s, listed) ==
  IF listed
  THEN /\ entries' = [entries EXCEPT ![at[s]] = Dirty(seen[s].entries, got[s], @)]
       /\ published' = [published EXCEPT ![at[s]] = Dirty(seen[s].published, TRUE, @)]
       /\ UNCHANGED faults
  ELSE /\ faults < MaxFaults
       /\ faults' = faults + 1
       /\ UNCHANGED listVars

FirstSighting(s) ==
  /\ pc[s] = "comparing"
  /\ seen[s].hash = None
  /\ Succeed(s)
  /\ \E listed \in BOOLEAN : Relist(s, listed)
  /\ UNCHANGED change

\* The stored hash is an older normalizer's.
Rebaseline(s) ==
  /\ pc[s] = "comparing"
  /\ seen[s].hash # None
  /\ seen[s].format # "current"
  /\ Succeed(s)
  /\ UNCHANGED <<change, listVars, faults>>

FindNoChange(s) ==
  /\ pc[s] = "comparing"
  /\ seen[s].hash = got[s]
  /\ seen[s].format = "current"
  /\ Succeed(s)
  /\ UNCHANGED <<change, listVars, faults>>

\* Mutant of RecordChange: the list is read again, the change is not noted.
RecordChangeUnnoted(s) ==
  /\ pc[s] = "comparing"
  /\ seen[s].hash \notin {None, got[s]}
  /\ seen[s].format = "current"
  /\ Succeed(s)
  /\ \E listed \in BOOLEAN : Relist(s, listed)
  /\ UNCHANGED change

\* added and removed lead from the list that was shown to the new one; they are
\* empty if there is no new one.
RecordChange(s) ==
  /\ pc[s] = "comparing"
  /\ seen[s].hash \notin {None, got[s]}
  /\ seen[s].format = "current"
  /\ Succeed(s)
  /\ \E listed \in BOOLEAN :
       /\ Relist(s, listed)
       /\ change' = [change EXCEPT ![at[s]] =
            [old |-> seen[s].hash, new |-> got[s], listed |-> listed]]

-----------------------------------------------------------------------------
(* Faults, the site and the clock.                                         *)

\* An error that run_vendor_check does not catch: the sweep goes on.
CheckRaises(s) ==
  /\ pc[s] \notin {"idle", "checking"}
  /\ faults < MaxFaults
  /\ faults' = faults + 1
  /\ EndCheck(s)
  /\ UNCHANGED <<worldVars, cached, contentVars, listVars, blocked, browser, checked,
                 due, todo, read>>

\* The process dies; the answers it kept die with it.
Crash ==
  /\ \E s \in Sweeps : pc[s] # "idle"
  /\ faults < MaxFaults
  /\ faults' = faults + 1
  /\ cached' = [v \in Vendors |-> None]
  /\ pc' = [s \in Sweeps |-> "idle"]
  /\ todo' = [s \in Sweeps |-> {}]
  /\ at' = [s \in Sweeps |-> None]
  /\ seen' = [s \in Sweeps |-> None]
  /\ got' = [s \in Sweeps |-> None]
  /\ UNCHANGED <<worldVars, contentVars, listVars, blocked, browser, checked, due, read>>

ChangeSite(v, p, r) ==
  /\ page' = [page EXCEPT ![v] = p]
  /\ rule' = [rule EXCEPT ![v] = r]
  /\ UNCHANGED <<cached, contentVars, listVars, blocked, browser, checked, due,
                 sweepVars, read, faults>>

\* The kept answer is six hours old.
Forget(v) ==
  /\ cached[v] # None
  /\ cached' = [cached EXCEPT ![v] = None]
  /\ UNCHANGED <<worldVars, contentVars, listVars, blocked, browser, checked, due,
                 sweepVars, read, faults>>

ComeDue(v) ==
  /\ ~due[v]
  /\ due' = [due EXCEPT ![v] = TRUE]
  /\ UNCHANGED <<worldVars, cached, contentVars, listVars, blocked, browser, checked,
                 sweepVars, read, faults>>

Older(age) == IF age \in {None, StaleAfter} THEN age ELSE age + 1

Day ==
  /\ checked' = [v \in Vendors |-> Older(checked[v])]
  /\ read' = [v \in Vendors |-> Older(read[v])]
  /\ UNCHANGED <<worldVars, cached, contentVars, listVars, blocked, browser, due,
                 sweepVars, faults>>

SweepStep(s) ==
  \/ StartSweep(s)
  \/ \E v \in Vendors : LoadVendor(s, v)
  \/ RobotsRefuse(s)
  \/ RobotsAllow(s)
  \/ PinBrowser(s)
  \/ ReadPage(s)
  \/ FetchFails(s)
  \/ FirstSighting(s)
  \/ Rebaseline(s)
  \/ FindNoChange(s)
  \/ RecordChange(s)
  \/ EndSweep(s)

Next ==
  \/ \E s \in Sweeps : SweepStep(s) \/ CheckRaises(s)
  \/ Crash
  \/ \E v \in Vendors, p \in Pages, r \in Verdicts : ChangeSite(v, p, r)
  \/ \E v \in Vendors : Forget(v) \/ ComeDue(v)
  \/ Day

Spec == Init /\ [][Next]_vars

\* Sweeps are started every three hours and go on, checks come due, kept answers
\* expire, and a page that is fetched again and again is read some time.
Fairness ==
  /\ \A s \in Sweeps : WF_vars(SweepStep(s)) /\ SF_vars(ReadPage(s))
  /\ \A v \in Vendors : WF_vars(Forget(v)) /\ WF_vars(ComeDue(v))

FairSpec == Spec /\ Fairness

-----------------------------------------------------------------------------
(* What a visitor gets.                                                    *)

Badge(v) ==
  IF blocked[v] THEN "robots" ELSE IF checked[v] \in {None, StaleAfter} THEN "stale" ELSE "fresh"

\* render_detail: a vendor that is not published is not found.
Detail(v) ==
  IF published[v] THEN [list |-> entries[v], badge |-> Badge(v)] ELSE None

-----------------------------------------------------------------------------

\* "A page is published only once a check has produced a usable list" (Vendor),
\* and a list that was shown is never emptied (_refresh_entries), however checks
\* overlap, fail or die.
PublishedHasList == \A v \in Vendors : Detail(v) # None => Detail(v).list # None

\* A page that nobody has read for StaleAfter days does not look fresh
\* (Vendor.is_stale), although a refusal of robots.txt sets last_checked_at too.
\* For one sweep at a time: with two, a refusal decided on a row that was not
\* published yet dates a row that now is.
FreshWasRead ==
  \A v \in Vendors :
    Detail(v) # None /\ Detail(v).badge = "fresh" => read[v] \notin {None, StaleAfter}

\* No list replaces another one without a change that a visitor can read, from
\* the text that was stored to the text the new list comes from.  For one sweep.
ListMovesAreNoted ==
  \A v \in Vendors :
    entries'[v] # entries[v] /\ hash[v] # None
      => /\ entries'[v] = hash'[v]
         /\ change'[v] = [old |-> hash[v], new |-> hash'[v], listed |-> TRUE]

NoSilentMove == [][ListMovesAreNoted]_vars

\* A host that keeps refusing TrustPagesBot has its page taken down.
RefusalIsHonoured ==
  \A v \in Vendors : rule[v] = "deny" ~> ~published[v] \/ rule[v] = "allow"

\* "A failure must leave the previous list in place: (...) and the next check
\* will try again" (_refresh_entries): a list that could not be extracted is
\* there some time, unless the page moves on or may not be read any more.
FailedListIsRetried ==
  \A v \in Vendors :
    change[v] # None /\ ~change[v].listed
      ~> entries[v] = hash[v] \/ page[v] # hash[v] \/ rule[v] = "deny"

=============================================================================
