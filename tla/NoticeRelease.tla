--------------------------- MODULE NoticeRelease ---------------------------
(***************************************************************************)
(* One change event from its review to the notice that reaches the         *)
(* tenant's subscribers: the approve, reject, notice and send handlers of  *)
(* app/routers/dashboard.py, app/services/approval.py, the mailer, and the *)
(* subscriptions of app/routers/public.py.                                 *)
(*                                                                         *)
(* Every handler works in a session of its own: it loads the event, awaits *)
(* (the database, the language model, the mail provider), and writes what  *)
(* it changed over the row as it is then.  A send loads, lists the         *)
(* recipients, commits the frozen notice, mails it, and commits one row    *)
(* per recipient.  A process may die between any two of these.             *)
(*                                                                         *)
(* A draft is its text; the subject goes with it.  The frozen notice is    *)
(* that text with the tenant's objection window filled in.  Names of       *)
(* reviewers, addresses of contacts and clock times are left out.          *)
(*                                                                         *)
(* A subscriber is a row: an address, and the request that inserted it.    *)
(* The table has no unique index on the address, and the subscribe handler *)
(* looks the address up, awaits, and inserts, so an address may have one   *)
(* row for each of the requests that overlap.                              *)
(***************************************************************************)
EXTENDS FiniteSets, Naturals, UnitOfWork

CONSTANTS
  Deciders,   \* approve and reject requests that may run at the same time
  Drafters,   \* notice-page requests
  Senders,    \* send requests
  Emails,     \* addresses that may subscribe
  Visits,     \* subscribe requests of one address that may overlap
  Texts,      \* drafts the language model can return
  Windows,    \* objection windows a tenant can configure, in days
  None,
  MaxCrashes  \* bound on crashes

ASSUME NoneAssumption ==
  /\ None \notin Texts
  /\ None \notin Windows
  /\ None \notin [text : Texts, window : Windows]
ASSUME EmailsAssumption == IsFiniteSet(Emails) /\ IsFiniteSet(Visits)
ASSUME BoundAssumption == MaxCrashes \in Nat

ChangeStatus == {"pending_review", "auto_published", "approved", "rejected"}
Verdict == {"approved", "rejected"}
ReviewAction == {"none", "auto_published_cosmetic", "notice_released_by_reviewer"}
Notice == [text : Texts, window : Windows]
Subscribers == Emails \X Visits

VARIABLES
  status,      \* status
  reviewAction,\* review_action
  draft,       \* notice_subject, notice_body
  frozen,      \* notice_frozen_subject, notice_frozen_body, notice_frozen_at
  count,       \* recipient_count
  windowDays,  \* window_days, window_closes_at, notified_at
  rows,        \* notification_recipients
  window,      \* the tenant's objection_window_days
  sub,         \* per subscriber: its row, or the request that may insert it
  shown,       \* the drafts a page has shown with their preview token
  mailed,      \* what the mail provider has accepted
  decision,    \* per decider: what it loaded and what it will write
  drafting,    \* per drafter: the draft it loaded, then the one it stored
  pc, job,     \* per sender: where it is, and what it holds
  crashes      \* crashes so far

eventVars == <<status, reviewAction, draft, frozen, count, windowDays, rows>>
tenantVars == <<window, sub>>
requestVars == <<decision, drafting, pc, job>>
vars == <<eventVars, tenantVars, shown, mailed, requestVars, crashes>>

\* A sender's session: the draft and the window it loaded, the recipients it
\* listed, and the results of the sends so far.  A result has a message id
\* and no error, or no id and the text of the exception, which is empty for
\* the timeouts of httpx.
Result == [to : Subscribers, error : {"none", "empty", "text"}]
Job == [text : Texts, window : Windows,
        recipients : SUBSET Subscribers, results : SUBSET Result]

TypeOK ==
  /\ status \in ChangeStatus
  /\ reviewAction \in ReviewAction
  /\ draft \in Texts \cup {None}
  /\ frozen \in Notice \cup {None}
  /\ count \in Nat \cup {None}
  /\ windowDays \in Windows \cup {None}
  /\ rows \subseteq [by : Senders, to : Subscribers, error : {"none", "empty", "text"}]
  /\ window \in Windows
  /\ sub \in [Subscribers -> {"absent", "opening", "unconfirmed", "active", "inactive"}]
  /\ shown \subseteq Texts
  /\ mailed \subseteq [by : Senders, to : Subscribers, notice : Notice]
  /\ decision \in [Deciders -> [loaded : ChangeStatus, verdict : Verdict] \cup {None}]
  /\ drafting \in [Drafters -> [loaded : Texts \cup {None}] \cup [stored : Texts] \cup {None}]
  /\ pc \in [Senders -> {"idle", "cleared", "listed", "mailing"}]
  /\ job \in [Senders -> Job \cup {None}]
  /\ crashes \in Nat

\* The event as run_subprocessor_check inserts it.
Init ==
  /\ status \in {"pending_review", "auto_published"}
  /\ reviewAction = IF status = "auto_published" THEN "auto_published_cosmetic" ELSE "none"
  /\ draft = None
  /\ frozen = None
  /\ count = None
  /\ windowDays = None
  /\ rows = {}
  /\ window \in Windows
  /\ sub = [x \in Subscribers |-> "absent"]
  /\ shown = {}
  /\ mailed = {}
  /\ decision = [d \in Deciders |-> None]
  /\ drafting = [p \in Drafters |-> None]
  /\ pc = [s \in Senders |-> "idle"]
  /\ job = [s \in Senders |-> None]
  /\ crashes = 0

-----------------------------------------------------------------------------
(* Approving and rejecting.                                                *)

\* _TERMINAL_STATUSES: an auto-published event is not among them.
Terminal == {"approved", "rejected"}

OpenDecision(d, verdict) ==
  /\ decision[d] = None
  /\ status \notin Terminal
  /\ decision' = [decision EXCEPT ![d] = [loaded |-> status, verdict |-> verdict]]
  /\ UNCHANGED <<eventVars, tenantVars, shown, mailed, drafting, pc, job, crashes>>

CommitDecision(d) ==
  /\ decision[d] # None
  /\ status' = Dirty(decision[d].loaded, decision[d].verdict, status)
  /\ decision' = [decision EXCEPT ![d] = None]
  /\ UNCHANGED <<reviewAction, draft, frozen, count, windowDays, rows,
                 tenantVars, shown, mailed, drafting, pc, job, crashes>>

-----------------------------------------------------------------------------
(* The notice page.  It needs neither an approval nor an unreleased event; *)
(* the free plan, which is only refused a first draft, is left out.        *)

ShowDraft(p) ==
  /\ drafting[p] = None
  /\ draft # None
  /\ shown' = shown \cup {draft}
  /\ UNCHANGED <<eventVars, tenantVars, mailed, requestVars, crashes>>

\* No draft yet, or ?regenerate=true.
StartDraft(p) ==
  /\ drafting[p] = None
  /\ drafting' = [drafting EXCEPT ![p] = [loaded |-> draft]]
  /\ UNCHANGED <<eventVars, tenantVars, shown, mailed, decision, pc, job, crashes>>

Awaits(p) == drafting[p] \in [loaded : Texts \cup {None}]
Stored(p) == drafting[p] \in [stored : Texts]

StoreDraft(p, t) ==
  /\ Awaits(p)
  /\ draft' = Dirty(drafting[p].loaded, t, draft)
  /\ drafting' = [drafting EXCEPT ![p] = [stored |-> t]]
  /\ UNCHANGED <<status, reviewAction, frozen, count, windowDays, rows,
                 tenantVars, shown, mailed, decision, pc, job, crashes>>

\* The page shows the draft as this session has it.
ShowStored(p) ==
  /\ Stored(p)
  /\ shown' = shown \cup {drafting[p].stored}
  /\ drafting' = [drafting EXCEPT ![p] = None]
  /\ UNCHANGED <<eventVars, tenantVars, mailed, decision, pc, job, crashes>>

\* The model fails or times out and the session is rolled back, or the page
\* never reaches its reader.
PageLost(p) ==
  /\ drafting[p] # None
  /\ drafting' = [drafting EXCEPT ![p] = None]
  /\ UNCHANGED <<eventVars, tenantVars, shown, mailed, decision, pc, job, crashes>>

-----------------------------------------------------------------------------
(* Releasing and sending.                                                  *)

\* Mutants of MayRelease: the token is not compared; a released notice may be
\* released again.
MayReleaseUnseen(token) ==
  /\ status = "approved"
  /\ reviewAction = "none"
  /\ draft # None

MayReleaseAgain(token) ==
  /\ status = "approved"
  /\ draft # None
  /\ token = draft

\* The guards of release_notice, on the event as the request loaded it.  The
\* token comes from a page, and is the hash of the text it showed.
MayRelease(token) ==
  /\ status = "approved"
  /\ reviewAction = "none"
  /\ draft # None
  /\ token = draft

OpenRelease(s, token) ==
  /\ pc[s] = "idle"
  /\ token \in shown
  /\ MayRelease(token)
  /\ pc' = [pc EXCEPT ![s] = "cleared"]
  /\ job' = [job EXCEPT ![s] = [text |-> draft, window |-> window,
                                recipients |-> {}, results |-> {}]]
  /\ UNCHANGED <<eventVars, tenantVars, shown, mailed, decision, drafting, crashes>>

\* confirmed_recipients: confirmed and active subscribers.
Confirmed == {x \in Subscribers : sub[x] = "active"}

ListRecipients(s) ==
  /\ pc[s] = "cleared"
  /\ pc' = [pc EXCEPT ![s] = "listed"]
  /\ job' = [job EXCEPT ![s].recipients = Confirmed]
  /\ UNCHANGED <<eventVars, tenantVars, shown, mailed, decision, drafting, crashes>>

\* First commit.  The session loaded every frozen column as NULL, so all of
\* them are written, whatever the row holds by now; the objection window
\* opens only when there is somebody to notify.
Freeze(s) ==
  LET j == job[s] IN
  /\ pc[s] = "listed"
  /\ reviewAction' = "notice_released_by_reviewer"
  /\ frozen' = [text |-> j.text, window |-> j.window]
  /\ count' = Cardinality(j.recipients)
  /\ windowDays' = IF j.recipients # {} THEN j.window ELSE windowDays
  /\ IF j.recipients # {}
     THEN pc' = [pc EXCEPT ![s] = "mailing"] /\ UNCHANGED job
     ELSE pc' = [pc EXCEPT ![s] = "idle"] /\ job' = [job EXCEPT ![s] = None]
  /\ UNCHANGED <<status, draft, rows, tenantVars, shown, mailed, decision, drafting, crashes>>

Pending(s) == job[s].recipients \ {r.to : r \in job[s].results}

\* Mutant of SendError: no raise_for_status, so a refusal is a success.
SendErrorUnraised(outcome) == IF outcome = "lost" THEN {"empty", "text"} ELSE {"none"}

\* An exception is recorded as its text, which may be empty.
SendError(outcome) == IF outcome = "accepted" THEN {"none"} ELSE {"empty", "text"}

\* Mutant of Mail: the mail goes out before the notice is frozen.
MailEarly(s, e, outcome, error) ==
  /\ pc[s] \in {"listed", "mailing"}
  /\ e \in Pending(s)
  /\ error \in SendError(outcome)
  /\ job' = [job EXCEPT ![s].results = @ \cup {[to |-> e, error |-> error]}]
  /\ mailed' = IF outcome = "refused" THEN mailed
               ELSE mailed \cup {[by |-> s, to |-> e,
                                  notice |-> [text |-> job[s].text, window |-> job[s].window]]}
  /\ UNCHANGED <<eventVars, tenantVars, shown, decision, drafting, pc, crashes>>

\* One of the concurrent posts to the provider ends: accepted; accepted with
\* the answer lost (a timeout), which reads as an error; or refused.
Mail(s, e, outcome, error) ==
  /\ pc[s] = "mailing"
  /\ e \in Pending(s)
  /\ error \in SendError(outcome)
  /\ job' = [job EXCEPT ![s].results = @ \cup {[to |-> e, error |-> error]}]
  /\ mailed' = IF outcome = "refused" THEN mailed
               ELSE mailed \cup {[by |-> s, to |-> e,
                                  notice |-> [text |-> job[s].text, window |-> job[s].window]]}
  /\ UNCHANGED <<eventVars, tenantVars, shown, decision, drafting, pc, crashes>>

\* Mutant of RecordRecipients: failed sends get no row.
RecordAcceptedOnly(s) ==
  /\ pc[s] = "mailing"
  /\ Pending(s) = {}
  /\ rows' = rows \cup {[by |-> s, to |-> r.to, error |-> r.error] :
                          r \in {x \in job[s].results : x.error = "none"}}
  /\ pc' = [pc EXCEPT ![s] = "idle"]
  /\ job' = [job EXCEPT ![s] = None]
  /\ UNCHANGED <<status, reviewAction, draft, frozen, count, windowDays,
                 tenantVars, shown, mailed, decision, drafting, crashes>>

\* Second commit: one row per recipient.
RecordRecipients(s) ==
  /\ pc[s] = "mailing"
  /\ Pending(s) = {}
  /\ rows' = rows \cup {[by |-> s, to |-> r.to, error |-> r.error] : r \in job[s].results}
  /\ pc' = [pc EXCEPT ![s] = "idle"]
  /\ job' = [job EXCEPT ![s] = None]
  /\ UNCHANGED <<status, reviewAction, draft, frozen, count, windowDays,
                 tenantVars, shown, mailed, decision, drafting, crashes>>

\* The process dies, or a commit fails.
Crash(s) ==
  /\ pc[s] # "idle"
  /\ crashes < MaxCrashes
  /\ crashes' = crashes + 1
  /\ pc' = [pc EXCEPT ![s] = "idle"]
  /\ job' = [job EXCEPT ![s] = None]
  /\ UNCHANGED <<eventVars, tenantVars, shown, mailed, decision, drafting>>

-----------------------------------------------------------------------------
(* The tenant's setting and the public subscription handlers.              *)

SetObjectionWindow(w) ==
  /\ window' = w
  /\ UNCHANGED <<eventVars, sub, shown, mailed, requestVars, crashes>>

SubscriberMoves(x, from, to) ==
  /\ sub[x] = from
  /\ sub' = [sub EXCEPT ![x] = to]
  /\ UNCHANGED <<eventVars, window, shown, mailed, requestVars, crashes>>

\* The request finds no row of its address.  One that finds a row inserts
\* none: it says so, or mails the verification link again.
LookUp(x) ==
  /\ \A y \in Subscribers : y[1] = x[1] => sub[y] \in {"absent", "opening"}
  /\ SubscriberMoves(x, "absent", "opening")

\* It inserts one, whatever the address has by now.
Subscribe(x) == SubscriberMoves(x, "opening", "unconfirmed")

\* It dies first, or its commit fails.
SubscribeLost(x) == SubscriberMoves(x, "opening", "absent")

VerifySubscription(x) == SubscriberMoves(x, "unconfirmed", "active")

\* There is no way back: subscribing again finds a confirmed row.
Unsubscribe(x) == SubscriberMoves(x, "active", "inactive")

-----------------------------------------------------------------------------
Decide == \E d \in Deciders : CommitDecision(d) \/ \E v \in Verdict : OpenDecision(d, v)

Page ==
  \E p \in Drafters :
    \/ ShowDraft(p)
    \/ StartDraft(p)
    \/ \E t \in Texts : StoreDraft(p, t)
    \/ ShowStored(p)
    \/ PageLost(p)

Send ==
  \E s \in Senders :
    \/ \E t \in Texts : OpenRelease(s, t)
    \/ ListRecipients(s)
    \/ Freeze(s)
    \/ \E e \in Subscribers, outcome \in {"accepted", "lost", "refused"},
          error \in {"none", "empty", "text"} : Mail(s, e, outcome, error)
    \/ RecordRecipients(s)

Outside ==
  \/ \E w \in Windows : SetObjectionWindow(w)
  \/ \E x \in Subscribers :
       LookUp(x) \/ Subscribe(x) \/ SubscribeLost(x) \/ VerifySubscription(x) \/ Unsubscribe(x)

Next ==
  \/ Decide
  \/ Page
  \/ Send
  \/ \E s \in Senders : Crash(s)
  \/ Outside

Spec == Init /\ [][Next]_vars

-----------------------------------------------------------------------------
(* However the requests overlap.                                           *)

\* What was frozen was on somebody's screen: a page showed this very draft
\* before it was released, also when the draft changed meanwhile.
ReleasedWasSeen == frozen # None => frozen.text \in shown

\* The record of who let the notice out is on disk before the first mail, so
\* no crash leaves mail that a second release would repeat.
MailNeedsRelease == mailed # {} => reviewAction = "notice_released_by_reviewer"

\* review_action never changes once set: an auto-published change that is
\* approved afterwards still has no reviewer, and its notice is never released.
ReviewActionStays ==
  reviewAction # "none" => reviewAction' = reviewAction

ReviewActionIsFinal == [][ReviewActionStays]_vars

\* Mail goes to confirmed subscribers only: whoever got one had confirmed.
MailedHadConfirmed == \A m \in mailed : sub[m.to] \in {"active", "inactive"}

\* The log and the provider agree on what went out: a row with a message id
\* stands for a mail, and unless a process died, every mail of a send that is
\* over has its row, also when its answer was lost or another send of
\* the notice overlapped it.
MailIsAccounted ==
  /\ \A r \in rows : r.error = "none" => \E m \in mailed : m.by = r.by /\ m.to = r.to
  /\ crashes = 0 =>
       \A m \in mailed : pc[m.by] = "idle" => \E r \in rows : r.by = m.by /\ r.to = m.to

-----------------------------------------------------------------------------
(* When the requests of one kind do not overlap.                           *)

\* The handlers implement the promise of manifest_v2.md: one decision, one
\* release of one text, at most one mail of it per address.
Promise == INSTANCE NoticePromise
             WITH mailed <- {[to |-> m.to[1], notice |-> m.notice] : m \in mailed}
KeepsPromise == Promise!Spec

\* recipient_count is the number of recipient rows, once the send is over and
\* if no process died in it (NotificationRecipient's docstring, manifest_v2.md).
CountIsRows ==
  count # None /\ crashes = 0 /\ (\A s \in Senders : pc[s] = "idle") =>
    count = Cardinality(rows)

-----------------------------------------------------------------------------
(* What the documents say beyond that.  TLC refutes each: NoticeTwice is   *)
(* kept as a run, and with one of the others in its place, and a second    *)
(* decider, draft, window or visit, or a crash, its cfg shows that one.    *)

\* "A notice is sent exactly once": no address gets it from two requests, nor
\* twice from one because two subscribe requests gave it two rows.
SentOncePerAddress ==
  \A m, n \in mailed : m.to[1] = n.to[1] => m.by = n.by /\ m.to = n.to

\* "Freeze and never change again."
FrozenForGood ==
  [][frozen # None => UNCHANGED <<frozen, count, windowDays, reviewAction>>]_vars

\* Approved and rejected are terminal.
DecisionIsFinal == [][(status \in Terminal) => UNCHANGED status]_vars

\* A release is refused unless the token matches the current draft.
FreezesCurrentDraft ==
  [][frozen' # frozen => frozen'.text = draft]_vars

\* recipient_count is the size of the log, also after a crash.
CountIsAlwaysRows ==
  count # None /\ (\A s \in Senders : pc[s] = "idle") => count = Cardinality(rows)

\* send_failed: "the Resend API call itself never succeeded".
FailedRowWasNotMailed ==
  \A r \in rows : r.error = "text" => \A m \in mailed : ~(m.by = r.by /\ m.to = r.to)

=============================================================================
