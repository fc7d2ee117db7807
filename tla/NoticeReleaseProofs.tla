------------------------- MODULE NoticeReleaseProofs -------------------------
(***************************************************************************)
(* What NoticeOverlap checks for two requests of each kind, for any number *)
(* of requests, addresses, drafts and crashes; what NoticeSerial checks    *)
(* for one of each kind, the refinement of NoticePromise included, for any *)
(* number of addresses, drafts, windows and crashes; and what              *)
(* DeliveryOrder checks of the log that follows, for any number of         *)
(* recipients and webhook types.                                           *)
(***************************************************************************)
EXTENDS NoticeRelease, DeliveryLog, FiniteSetTheorems, TLAPS

-----------------------------------------------------------------------------
(* The inductive invariant: what a send request holds while it is between  *)
(* its load and its last commit, whatever the others do meanwhile.         *)

InFlight == {"cleared", "listed", "mailing"}

\* It carries a draft that was on a page.
SeenInv ==
  /\ ReleasedWasSeen
  /\ \A s \in Senders : pc[s] \in InFlight => job[s] \in Job /\ job[s].text \in shown

\* It passed the guard on review_action, and mails only after its commit.
ActionInv ==
  /\ MailNeedsRelease
  /\ \A s \in Senders :
       /\ pc[s] \in InFlight => reviewAction # "auto_published_cosmetic"
       /\ pc[s] = "mailing" => reviewAction = "notice_released_by_reviewer"

\* Whom it lists had confirmed, and unconfirming is impossible.
RecipientInv ==
  /\ MailedHadConfirmed
  /\ \A s \in Senders : pc[s] \in {"listed", "mailing"} =>
       \A e \in job[s].recipients : sub[e] \in {"active", "inactive"}

\* It believes only what the provider confirmed, and until it records a mail
\* it holds a result of it.
ResultInv ==
  /\ \A r \in rows : r.error = "none" => \E m \in mailed : m.by = r.by /\ m.to = r.to
  /\ \A s \in Senders : pc[s] \in InFlight =>
       \A r \in job[s].results : r.error = "none" => \E m \in mailed : m.by = s /\ m.to = r.to
  /\ crashes = 0 => \A m \in mailed :
       \/ \E r \in rows : r.by = m.by /\ r.to = m.to
       \/ pc[m.by] = "mailing" /\ \E r \in job[m.by].results : r.to = m.to

IInv == TypeOK /\ SeenInv /\ ActionInv /\ RecipientInv /\ ResultInv

\* confirmed_recipients lists finitely many rows.
LEMMA SubscribersFinite == IsFiniteSet(Subscribers)
BY EmailsAssumption, FS_Product DEF Subscribers

\* An event as run_subprocessor_check stores it has nothing in flight.
LEMMA InitIInv == Init => IInv
<1> SUFFICES ASSUME Init PROVE IInv
  OBVIOUS
<1>1. TypeOK
  BY BoundAssumption DEF Init, TypeOK, ChangeStatus, ReviewAction
<1>2. SeenInv /\ ActionInv /\ RecipientInv /\ ResultInv
  BY DEF Init, SeenInv, ReleasedWasSeen, ActionInv, MailNeedsRelease, RecipientInv,
         MailedHadConfirmed, ResultInv, InFlight
<1> QED
  BY <1>1, <1>2 DEF IInv

\* A step that neither freezes, lists, mails nor records: pages may have
\* shown more drafts, and a send may have been given up.
LEMMA SendsUntouched ==
  ASSUME IInv, TypeOK', UNCHANGED <<reviewAction, frozen, rows, sub, mailed>>,
         shown \subseteq shown',
         \A s \in Senders : pc'[s] \in InFlight => UNCHANGED <<pc[s], job[s]>>,
         crashes' = 0 => UNCHANGED <<pc, job, crashes>>
  PROVE  IInv'
<1> USE DEF IInv
<1>1. SeenInv'
  BY DEF SeenInv, ReleasedWasSeen
<1>2. ActionInv'
  BY DEF ActionInv, MailNeedsRelease, InFlight
<1>3. RecipientInv'
  BY DEF RecipientInv, MailedHadConfirmed, InFlight
<1>4. ResultInv'
  BY DEF ResultInv
<1> QED
  BY <1>1, <1>2, <1>3, <1>4

\* Loading an event to decide it touches no send (approve_change_event).
LEMMA OpenDecisionIInv ==
  ASSUME IInv, NEW d \in Deciders, NEW v \in Verdict, OpenDecision(d, v)
  PROVE  IInv'
<1> USE DEF IInv, eventVars, tenantVars, requestVars, OpenDecision
<1>1. TypeOK'
  BY DEF TypeOK
<1>2. /\ UNCHANGED <<reviewAction, frozen, rows, sub, mailed>>
      /\ shown \subseteq shown'
      /\ \A s \in Senders : pc'[s] \in InFlight => UNCHANGED <<pc[s], job[s]>>
      /\ crashes' = 0 => UNCHANGED <<pc, job, crashes>>
  BY DEF TypeOK, InFlight
<1> QED
  BY <1>1, <1>2, SendsUntouched

\* A decision commits the status only (approve_change_event).
LEMMA CommitDecisionIInv ==
  ASSUME IInv, NEW d \in Deciders, CommitDecision(d)
  PROVE  IInv'
<1> USE DEF IInv, eventVars, tenantVars, requestVars, CommitDecision, Dirty
<1>1. TypeOK'
  BY DEF TypeOK, Verdict, ChangeStatus
<1>2. /\ UNCHANGED <<reviewAction, frozen, rows, sub, mailed>>
      /\ shown \subseteq shown'
      /\ \A s \in Senders : pc'[s] \in InFlight => UNCHANGED <<pc[s], job[s]>>
      /\ crashes' = 0 => UNCHANGED <<pc, job, crashes>>
  BY DEF TypeOK, InFlight
<1> QED
  BY <1>1, <1>2, SendsUntouched

\* Showing a stored draft only adds to what was shown (notice_draft).
LEMMA ShowDraftIInv ==
  ASSUME IInv, NEW p \in Drafters, ShowDraft(p)
  PROVE  IInv'
<1> USE DEF IInv, eventVars, tenantVars, requestVars, ShowDraft
<1>1. TypeOK'
  BY DEF TypeOK
<1>2. /\ UNCHANGED <<reviewAction, frozen, rows, sub, mailed>>
      /\ shown \subseteq shown'
      /\ \A s \in Senders : pc'[s] \in InFlight => UNCHANGED <<pc[s], job[s]>>
      /\ crashes' = 0 => UNCHANGED <<pc, job, crashes>>
  BY DEF TypeOK, InFlight
<1> QED
  BY <1>1, <1>2, SendsUntouched

\* Asking the model for a draft changes no row (notice_draft).
LEMMA StartDraftIInv ==
  ASSUME IInv, NEW p \in Drafters, StartDraft(p)
  PROVE  IInv'
<1> USE DEF IInv, eventVars, tenantVars, requestVars, StartDraft
<1>1. TypeOK'
  BY DEF TypeOK
<1>2. /\ UNCHANGED <<reviewAction, frozen, rows, sub, mailed>>
      /\ shown \subseteq shown'
      /\ \A s \in Senders : pc'[s] \in InFlight => UNCHANGED <<pc[s], job[s]>>
      /\ crashes' = 0 => UNCHANGED <<pc, job, crashes>>
  BY DEF TypeOK, InFlight
<1> QED
  BY <1>1, <1>2, SendsUntouched

\* Storing a draft leaves what a send has loaded alone (notice_draft).
LEMMA StoreDraftIInv ==
  ASSUME IInv, NEW p \in Drafters, NEW t \in Texts, StoreDraft(p, t)
  PROVE  IInv'
<1> USE DEF IInv, eventVars, tenantVars, requestVars, StoreDraft, Awaits, Dirty
<1>1. TypeOK'
  BY DEF TypeOK
<1>2. /\ UNCHANGED <<reviewAction, frozen, rows, sub, mailed>>
      /\ shown \subseteq shown'
      /\ \A s \in Senders : pc'[s] \in InFlight => UNCHANGED <<pc[s], job[s]>>
      /\ crashes' = 0 => UNCHANGED <<pc, job, crashes>>
  BY DEF TypeOK, InFlight
<1> QED
  BY <1>1, <1>2, SendsUntouched

\* Showing a new draft only adds to what was shown (notice_draft).
LEMMA ShowStoredIInv ==
  ASSUME IInv, NEW p \in Drafters, ShowStored(p)
  PROVE  IInv'
<1> USE DEF IInv, eventVars, tenantVars, requestVars, ShowStored, Stored
<1>1. TypeOK'
  BY DEF TypeOK
<1>2. /\ UNCHANGED <<reviewAction, frozen, rows, sub, mailed>>
      /\ shown \subseteq shown'
      /\ \A s \in Senders : pc'[s] \in InFlight => UNCHANGED <<pc[s], job[s]>>
      /\ crashes' = 0 => UNCHANGED <<pc, job, crashes>>
  BY DEF TypeOK, InFlight
<1> QED
  BY <1>1, <1>2, SendsUntouched

\* A failed draft is rolled back (notice_draft).
LEMMA PageLostIInv ==
  ASSUME IInv, NEW p \in Drafters, PageLost(p)
  PROVE  IInv'
<1> USE DEF IInv, eventVars, tenantVars, requestVars, PageLost
<1>1. TypeOK'
  BY DEF TypeOK
<1>2. /\ UNCHANGED <<reviewAction, frozen, rows, sub, mailed>>
      /\ shown \subseteq shown'
      /\ \A s \in Senders : pc'[s] \in InFlight => UNCHANGED <<pc[s], job[s]>>
      /\ crashes' = 0 => UNCHANGED <<pc, job, crashes>>
  BY DEF TypeOK, InFlight
<1> QED
  BY <1>1, <1>2, SendsUntouched

\* A process that dies forgets its send and keeps the rows.
LEMMA CrashIInv ==
  ASSUME IInv, NEW s \in Senders, Crash(s)
  PROVE  IInv'
<1> USE DEF IInv, eventVars, tenantVars, requestVars, Crash
<1>1. TypeOK'
  BY BoundAssumption DEF TypeOK
<1>2. /\ UNCHANGED <<reviewAction, frozen, rows, sub, mailed>>
      /\ shown \subseteq shown'
      /\ \A z \in Senders : pc'[z] \in InFlight => UNCHANGED <<pc[z], job[z]>>
      /\ crashes' = 0 => UNCHANGED <<pc, job, crashes>>
  BY DEF TypeOK, InFlight
<1> QED
  BY <1>1, <1>2, SendsUntouched

\* A new objection window reaches no send that has loaded the old one.
LEMMA SettingIInv ==
  ASSUME IInv, NEW w \in Windows, SetObjectionWindow(w)
  PROVE  IInv'
<1> USE DEF IInv, eventVars, tenantVars, requestVars, SetObjectionWindow
<1>1. TypeOK'
  BY DEF TypeOK
<1>2. /\ UNCHANGED <<reviewAction, frozen, rows, sub, mailed>>
      /\ shown \subseteq shown'
      /\ \A s \in Senders : pc'[s] \in InFlight => UNCHANGED <<pc[s], job[s]>>
      /\ crashes' = 0 => UNCHANGED <<pc, job, crashes>>
  BY DEF TypeOK, InFlight
<1> QED
  BY <1>1, <1>2, SendsUntouched

\* A send that passes the guards holds a draft that was shown (release_notice).
LEMMA OpenReleaseIInv ==
  ASSUME IInv, NEW s \in Senders, NEW t \in Texts, OpenRelease(s, t)
  PROVE  IInv'
<1> USE DEF IInv, eventVars, tenantVars, requestVars, InFlight, OpenRelease, MayRelease, Job
<1>1. TypeOK'
  BY DEF TypeOK
<1>2. SeenInv'
  BY NoneAssumption DEF TypeOK, SeenInv, ReleasedWasSeen
<1>3. ActionInv'
  BY DEF TypeOK, ActionInv, MailNeedsRelease
<1>4. RecipientInv'
  BY DEF TypeOK, RecipientInv, MailedHadConfirmed
<1>5. ResultInv'
  BY DEF TypeOK, ResultInv
<1> QED
  BY <1>1, <1>2, <1>3, <1>4, <1>5

\* confirmed_recipients lists only addresses that had confirmed.
LEMMA ListRecipientsIInv ==
  ASSUME IInv, NEW s \in Senders, ListRecipients(s)
  PROVE  IInv'
<1> USE DEF IInv, eventVars, tenantVars, requestVars, InFlight, ListRecipients, Confirmed, Job
<1>0. job[s] \in Job
  BY DEF SeenInv
<1>1. TypeOK'
  BY <1>0 DEF TypeOK
<1>2. SeenInv'
  BY NoneAssumption DEF TypeOK, SeenInv, ReleasedWasSeen
<1>3. ActionInv'
  BY DEF TypeOK, ActionInv, MailNeedsRelease
<1>4. RecipientInv'
  BY DEF TypeOK, RecipientInv, MailedHadConfirmed
<1>5. ResultInv'
  BY DEF TypeOK, ResultInv
<1> QED
  BY <1>1, <1>2, <1>3, <1>4, <1>5

\* The first commit sets review_action before any mail (release_notice).
LEMMA FreezeIInv ==
  ASSUME IInv, NEW s \in Senders, Freeze(s)
  PROVE  IInv'
<1> USE DEF IInv, eventVars, tenantVars, requestVars, InFlight, Freeze, Job
<1>0. job[s] \in Job
  BY DEF SeenInv
<1>a. Cardinality(job[s].recipients) \in Nat
  BY <1>0, SubscribersFinite, FS_Subset, FS_CardinalityType
<1>1. TypeOK'
  BY <1>0, <1>a DEF TypeOK, Notice, ReviewAction
<1>2. SeenInv'
  BY NoneAssumption DEF TypeOK, SeenInv, ReleasedWasSeen
<1>3. ActionInv'
  BY DEF TypeOK, ActionInv, MailNeedsRelease
<1>4. RecipientInv'
  BY DEF TypeOK, RecipientInv, MailedHadConfirmed
<1>5. ResultInv'
  BY DEF TypeOK, ResultInv
<1> QED
  BY <1>1, <1>2, <1>3, <1>4, <1>5

\* A post of send_notice goes to a listed address with the frozen text.
LEMMA MailIInv ==
  ASSUME IInv, NEW s \in Senders, NEW e \in Subscribers,
         NEW outcome \in {"accepted", "lost", "refused"},
         NEW error \in {"none", "empty", "text"}, Mail(s, e, outcome, error)
  PROVE  IInv'
<1> USE DEF IInv, eventVars, tenantVars, requestVars, InFlight
<1> DEFINE result == [to |-> e, error |-> error]
           mail == [by |-> s, to |-> e,
                    notice |-> [text |-> job[s].text, window |-> job[s].window]]
<1>1. job[s] \in Job /\ pc[s] = "mailing" /\ e \in job[s].recipients
  BY DEF SeenInv, Mail, Pending
<1>2. result \in Result /\ mail \in [by : Senders, to : Subscribers, notice : Notice]
  BY <1>1 DEF Job, Result, Notice
<1>3. /\ job' = [job EXCEPT ![s] = [job[s] EXCEPT !.results = @ \cup {result}]]
      /\ mailed' = IF outcome = "refused" THEN mailed ELSE mailed \cup {mail}
      /\ UNCHANGED <<eventVars, tenantVars, shown, decision, drafting, pc, crashes>>
  BY DEF Mail
<1>4. /\ mail.by = s
      /\ mail.to = e
      /\ result.to = e
      /\ result.error = "none" => outcome = "accepted"
  BY DEF Mail, SendError
<1> HIDE DEF result, mail
<1>5. /\ job'[s] \in Job
      /\ job'[s].text = job[s].text
      /\ job'[s].recipients = job[s].recipients
      /\ job'[s].results = job[s].results \cup {result}
      /\ \A z \in Senders : z # s => job'[z] = job[z]
  BY <1>1, <1>2, <1>3 DEF Job, TypeOK
<1>6. mailed \subseteq mailed' /\ mailed' \subseteq mailed \cup {mail}
  BY <1>3
<1>7. TypeOK'
  BY <1>2, <1>3, <1>5, <1>6 DEF TypeOK
<1>8. SeenInv'
  <2>1. ASSUME NEW z \in Senders, pc[z] \in InFlight
        PROVE  job'[z] \in Job /\ job'[z].text \in shown
    <3>1. CASE z = s
      BY <1>1, <1>5, <3>1 DEF SeenInv
    <3>2. CASE z # s
      BY <1>5, <2>1, <3>2 DEF SeenInv
    <3> QED
      BY <3>1, <3>2
  <2> QED
    BY <2>1, <1>3 DEF SeenInv, ReleasedWasSeen
<1>9. ActionInv'
  BY <1>1, <1>3 DEF ActionInv, MailNeedsRelease
<1>10. RecipientInv'
  BY <1>1, <1>3, <1>4, <1>5, <1>6 DEF RecipientInv, MailedHadConfirmed
<1>11. ResultInv'
  <2>1. \A r \in rows' : r.error = "none" => \E m \in mailed' : m.by = r.by /\ m.to = r.to
    BY <1>3, <1>6 DEF ResultInv
  <2>2. result.error = "none" => mail \in mailed'
    BY <1>3, <1>4
  <2>3. ASSUME NEW z \in Senders, pc[z] \in InFlight, NEW r \in job'[z].results,
               r.error = "none"
        PROVE  \E m \in mailed' : m.by = z /\ m.to = r.to
    <3>1. CASE r \in job[z].results
      BY <2>3, <3>1, <1>6 DEF ResultInv
    <3>2. CASE z = s /\ r = result
      BY <2>2, <2>3, <3>2, <1>4
    <3> QED
      BY <2>3, <3>1, <3>2, <1>5
  <2>4. ASSUME crashes = 0, NEW m \in mailed'
        PROVE  \/ \E r \in rows : r.by = m.by /\ r.to = m.to
               \/ pc[m.by] = "mailing" /\ \E r \in job'[m.by].results : r.to = m.to
    <3>1. CASE m \in mailed
      <4>1. m.by \in Senders
        BY <3>1 DEF TypeOK
      <4>2. job[m.by].results \subseteq job'[m.by].results
        BY <1>5, <4>1
      <4> QED
        BY <2>4, <3>1, <4>2 DEF ResultInv
    <3>2. CASE m = mail
      BY <3>2, <1>1, <1>4, <1>5
    <3> QED
      BY <2>4, <3>1, <3>2, <1>6
  <2> QED
    BY <2>1, <2>3, <2>4, <1>3 DEF ResultInv
<1> QED
  BY <1>7, <1>8, <1>9, <1>10, <1>11

\* The second commit writes what the posts returned (release_notice).
LEMMA RecordIInv ==
  ASSUME IInv, NEW s \in Senders, RecordRecipients(s)
  PROVE  IInv'
<1> USE DEF IInv, eventVars, tenantVars, requestVars, InFlight, RecordRecipients, Job
<1>0. job[s] \in Job
  BY DEF SeenInv
<1>1. TypeOK'
  BY <1>0 DEF TypeOK, Result
<1>2. SeenInv'
  BY NoneAssumption DEF TypeOK, SeenInv, ReleasedWasSeen
<1>3. ActionInv'
  BY DEF TypeOK, ActionInv, MailNeedsRelease
<1>4. RecipientInv'
  BY DEF TypeOK, RecipientInv, MailedHadConfirmed
<1>5. ResultInv'
  <2> DEFINE Row(r) == [by |-> s, to |-> r.to, error |-> r.error]
  <2>1. /\ pc[s] = "mailing"
        /\ rows' = rows \cup {Row(r) : r \in job[s].results}
        /\ UNCHANGED <<mailed, crashes>>
        /\ pc'[s] = "idle"
        /\ \A z \in Senders \ {s} : UNCHANGED <<pc[z], job[z]>>
    BY DEF TypeOK
  <2>2. \A r \in rows' : r.error = "none" => \E m \in mailed' : m.by = r.by /\ m.to = r.to
    BY <2>1 DEF ResultInv
  <2>3. \A z \in Senders : pc'[z] \in InFlight =>
          \A r \in job'[z].results : r.error = "none" => \E m \in mailed' : m.by = z /\ m.to = r.to
    BY <2>1 DEF ResultInv
  <2>4. ASSUME crashes = 0, NEW m \in mailed
        PROVE  \/ \E r \in rows' : r.by = m.by /\ r.to = m.to
               \/ pc'[m.by] = "mailing" /\ \E r \in job'[m.by].results : r.to = m.to
    <3>1. m.by \in Senders
      BY DEF TypeOK
    <3>2. CASE \E r \in rows : r.by = m.by /\ r.to = m.to
      BY <2>1, <3>2
    <3>3. CASE m.by # s /\ pc[m.by] = "mailing" /\ \E r \in job[m.by].results : r.to = m.to
      BY <2>1, <3>1, <3>3
    <3>4. ASSUME m.by = s, NEW r \in job[s].results, r.to = m.to
          PROVE  \E x \in rows' : x.by = m.by /\ x.to = m.to
      <4>1. Row(r) \in rows' /\ Row(r).by = m.by /\ Row(r).to = m.to
        BY <2>1, <3>4
      <4> QED
        BY <4>1
    <3> QED
      BY <2>4, <3>2, <3>3, <3>4 DEF ResultInv
  <2> QED
    BY <2>1, <2>2, <2>3, <2>4 DEF ResultInv
<1> QED
  BY <1>1, <1>2, <1>3, <1>4, <1>5

\* No step of a subscriber takes a confirmation back (public.py).
LEMMA SubscriberIInv ==
  ASSUME IInv, NEW x \in Subscribers,
         \/ LookUp(x) \/ Subscribe(x) \/ SubscribeLost(x)
         \/ VerifySubscription(x) \/ Unsubscribe(x)
  PROVE  IInv'
<1> USE DEF IInv, eventVars, requestVars, InFlight
<1>1. /\ sub' \in [Subscribers -> {"absent", "opening", "unconfirmed", "active", "inactive"}]
      /\ \A y \in Subscribers :
           sub[y] \in {"active", "inactive"} => sub'[y] \in {"active", "inactive"}
      /\ UNCHANGED <<eventVars, window, shown, mailed, requestVars, crashes>>
  BY DEF TypeOK, LookUp, Subscribe, SubscribeLost, VerifySubscription, Unsubscribe, SubscriberMoves
<1>2. TypeOK'
  BY <1>1 DEF TypeOK
<1>3. SeenInv' /\ ActionInv' /\ ResultInv'
  BY <1>1 DEF SeenInv, ReleasedWasSeen, ActionInv, MailNeedsRelease, ResultInv
<1>4. RecipientInv'
  <2>1. \A m \in mailed : m.to \in Subscribers
    BY DEF TypeOK
  <2>2. \A s \in Senders : pc[s] \in {"listed", "mailing"} => job[s].recipients \subseteq Subscribers
    BY DEF SeenInv, Job
  <2> QED
    BY <1>1, <2>1, <2>2 DEF RecipientInv, MailedHadConfirmed
<1> QED
  BY <1>2, <1>3, <1>4

\* Every step of every handler keeps IInv, however the requests overlap.
LEMMA NextIInv == IInv /\ [Next]_vars => IInv'
<1> SUFFICES ASSUME IInv, [Next]_vars PROVE IInv'
  OBVIOUS
<1>1. CASE Decide
  BY <1>1, OpenDecisionIInv, CommitDecisionIInv DEF Decide
<1>2. CASE Page
  BY <1>2, ShowDraftIInv, StartDraftIInv, StoreDraftIInv, ShowStoredIInv, PageLostIInv DEF Page
<1>3. CASE Send
  BY <1>3, OpenReleaseIInv, ListRecipientsIInv, FreezeIInv, MailIInv, RecordIInv DEF Send
<1>4. ASSUME NEW s \in Senders, Crash(s) PROVE IInv'
  BY <1>4, CrashIInv
<1>5. CASE Outside
  BY <1>5, SettingIInv, SubscriberIInv DEF Outside
<1>6. CASE UNCHANGED vars
  <2>1. TypeOK'
    BY <1>6 DEF IInv, TypeOK, vars, eventVars, tenantVars, requestVars
  <2> QED
    BY <1>6, <2>1, SendsUntouched DEF vars, eventVars, tenantVars, requestVars
<1> QED
  BY <1>1, <1>2, <1>3, <1>4, <1>5, <1>6 DEF Next

\* What a send holds stays true of the row in every reachable state.
THEOREM Invariance == Spec => []IInv
BY InitIInv, NextIInv, PTL DEF Spec

-----------------------------------------------------------------------------
\* Every variable keeps its type, however many requests overlap or die.
THEOREM TypeCorrect == Spec => []TypeOK
BY Invariance, PTL DEF IInv

\* Whatever redrafts and releases overlap, the frozen notice is a draft that
\* a page showed before.
THEOREM SeenBeforeReleased == Spec => []ReleasedWasSeen
<1>1. IInv => ReleasedWasSeen
  BY DEF IInv, SeenInv
<1> QED
  BY <1>1, Invariance, PTL

\* No mail leaves before the release is on record, crashes included.
THEOREM NoMailBeforeRelease == Spec => []MailNeedsRelease
<1>1. IInv => MailNeedsRelease
  BY DEF IInv, ActionInv
<1> QED
  BY <1>1, Invariance, PTL

\* Only confirmed subscribers are ever mailed.
THEOREM OnlyConfirmedMailed == Spec => []MailedHadConfirmed
<1>1. IInv => MailedHadConfirmed
  BY DEF IInv, RecipientInv
<1> QED
  BY <1>1, Invariance, PTL

\* However sends overlap, a recipient row with a message id stands for a mail,
\* and while no process dies every mail of a finished send has its row.
THEOREM MailsAreAccounted == Spec => []MailIsAccounted
<1>1. IInv => MailIsAccounted
  BY DEF IInv, ResultInv, MailIsAccounted
<1> QED
  BY <1>1, Invariance, PTL

\* review_action is set once: an auto-published change never becomes one that
\* a reviewer released.
THEOREM ReviewActionSetOnce == Spec => ReviewActionIsFinal
<1>1. IInv /\ [Next]_vars => [ReviewActionStays]_vars
  <2> SUFFICES ASSUME IInv, Next PROVE ReviewActionStays
    OBVIOUS
  <2>1. ASSUME NEW s \in Senders, Freeze(s) PROVE ReviewActionStays
    BY <2>1 DEF IInv, ActionInv, InFlight, TypeOK, ReviewAction, Freeze, ReviewActionStays
  <2>2. CASE UNCHANGED reviewAction
    BY <2>2 DEF ReviewActionStays
  <2> QED
    BY <2>1, <2>2 DEF Next, Decide, OpenDecision, CommitDecision, Page, ShowDraft, StartDraft,
       StoreDraft, ShowStored, PageLost, Send, OpenRelease, ListRecipients, Mail,
       RecordRecipients, Crash, Outside, SetObjectionWindow, LookUp, Subscribe, SubscribeLost,
       VerifySubscription, Unsubscribe, SubscriberMoves, eventVars
<1> QED
  BY <1>1, Invariance, PTL DEF Spec, ReviewActionIsFinal

-----------------------------------------------------------------------------
(* One request of each kind at a time: what a handler loaded is what the   *)
(* row holds when it commits.  Then the handlers implement NoticePromise.  *)

OneOfEach ==
  /\ \A d, e \in Deciders : d = e
  /\ \A p, q \in Drafters : p = q
  /\ \A s, z \in Senders : s = z
  /\ \A v, w \in Visits : v = w

Released == "notice_released_by_reviewer"

\* A decision that is under way is on an event that is still to be decided.
DecideInv ==
  \A d \in Deciders : decision[d] # None =>
    decision[d].loaded = status /\ status \notin Terminal

\* Nothing of a release is in the row before it.
UnreleasedInv ==
  reviewAction # Released =>
    frozen = None /\ count = None /\ windowDays = None /\ rows = {}

\* A send that passed the guards is still allowed when it freezes the notice.
ClearedInv ==
  \A s \in Senders : pc[s] \in {"cleared", "listed"} =>
    status = "approved" /\ reviewAction = "none" /\ job[s].results = {}

\* A send that mails carries the frozen notice, and counted its recipients; it
\* has one result per address it is through with, and mailed to no other.
MailingInv ==
  \A s \in Senders : pc[s] = "mailing" =>
    /\ frozen = [text |-> job[s].text, window |-> job[s].window]
    /\ count = Cardinality(job[s].recipients)
    /\ rows = {}
    /\ \A r \in job[s].results : r.to \in job[s].recipients
    /\ \A q, r \in job[s].results : q.to = r.to => q = r
    /\ \A m \in mailed : m.to \notin Pending(s)

\* CountIsRows, said of a released notice.
CountInv ==
  reviewAction = Released /\ crashes = 0 /\ (\A s \in Senders : pc[s] = "idle") =>
    count = Cardinality(rows)

SoloInv == DecideInv /\ UnreleasedInv /\ ClearedInv /\ MailingInv /\ CountInv

\* Nothing is decided, released or mailed when an event is stored.
LEMMA InitSolo == Init => SoloInv
BY DEF Init, SoloInv, DecideInv, UnreleasedInv, ClearedInv, MailingInv, CountInv, Released

\* A step that neither decides, releases, mails nor records.
LEMMA ReviewUntouched ==
  ASSUME SoloInv,
         UNCHANGED <<status, reviewAction, frozen, count, windowDays, rows, mailed, decision,
                     pc, job, crashes>>
  PROVE  SoloInv'
BY DEF SoloInv, DecideInv, UnreleasedInv, ClearedInv, MailingInv, CountInv, Pending

\* Neither the notice page, nor the setting, nor a subscriber does.
LEMMA PageLeavesReview ==
  ASSUME Page \/ Outside
  PROVE  UNCHANGED <<status, reviewAction, frozen, count, windowDays, rows, mailed, decision,
                     pc, job, crashes>>
BY DEF Page, ShowDraft, StartDraft, StoreDraft, ShowStored, PageLost, Outside,
       SetObjectionWindow, LookUp, Subscribe, SubscribeLost, VerifySubscription, Unsubscribe,
       SubscriberMoves,
       eventVars, tenantVars, requestVars

\* Only an undecided event is loaded to be decided.
LEMMA OpenDecisionSolo ==
  ASSUME OneOfEach, IInv, SoloInv, NEW d \in Deciders, NEW v \in Verdict, OpenDecision(d, v)
  PROVE  SoloInv'
<1>1. /\ status \notin Terminal
      /\ decision'[d].loaded = status
      /\ UNCHANGED <<status, reviewAction, frozen, count, windowDays, rows, mailed, pc, job,
                     crashes>>
  BY DEF OpenDecision, IInv, TypeOK, eventVars
<1>2. DecideInv'
  BY <1>1 DEF OneOfEach, DecideInv
<1>3. UnreleasedInv' /\ ClearedInv' /\ MailingInv' /\ CountInv'
  BY <1>1 DEF SoloInv, UnreleasedInv, ClearedInv, MailingInv, CountInv, Pending
<1> QED
  BY <1>2, <1>3 DEF SoloInv

\* A decision is stored on the event as it was loaded, so no send is waiting
\* to release it.
LEMMA CommitDecisionStores ==
  ASSUME IInv, SoloInv, NEW d \in Deciders, CommitDecision(d)
  PROVE  /\ status \notin Terminal
         /\ status' \in Verdict
         /\ decision'[d] = None
         /\ \A s \in Senders : pc[s] \notin {"cleared", "listed"}
         /\ UNCHANGED <<reviewAction, frozen, count, windowDays, rows, mailed, pc, job, crashes>>
<1>1. decision[d] # None /\ decision[d].loaded = status /\ status \notin Terminal
  BY DEF CommitDecision, SoloInv, DecideInv
<1>2. decision[d].verdict \in Verdict
  BY <1>1 DEF IInv, TypeOK
<1>3. status' \in Verdict
  BY <1>1, <1>2 DEF CommitDecision, Dirty, Verdict, Terminal
<1>4. \A s \in Senders : pc[s] \notin {"cleared", "listed"}
  BY <1>1 DEF SoloInv, ClearedInv, Terminal
<1> QED
  BY <1>1, <1>3, <1>4 DEF CommitDecision, IInv, TypeOK

\* The decision under way is the only one.
LEMMA CommitDecisionSolo ==
  ASSUME OneOfEach, IInv, SoloInv, NEW d \in Deciders, CommitDecision(d)
  PROVE  SoloInv'
<1>1. DecideInv'
  BY CommitDecisionStores DEF OneOfEach, DecideInv
<1>2. UnreleasedInv' /\ ClearedInv' /\ MailingInv' /\ CountInv'
  BY CommitDecisionStores DEF SoloInv, UnreleasedInv, ClearedInv, MailingInv, CountInv, Pending
<1> QED
  BY <1>1, <1>2 DEF SoloInv

\* A send that is let through finds an approved event that nobody released.
LEMMA OpenReleaseSolo ==
  ASSUME OneOfEach, IInv, SoloInv, NEW s \in Senders, NEW t \in Texts, OpenRelease(s, t)
  PROVE  SoloInv'
<1>1. /\ status = "approved" /\ reviewAction = "none"
      /\ pc'[s] = "cleared"
      /\ job'[s].results = {}
      /\ UNCHANGED <<status, reviewAction, frozen, count, windowDays, rows, mailed, decision,
                     crashes>>
  BY DEF OpenRelease, MayRelease, IInv, TypeOK, eventVars
<1>2. DecideInv' /\ UnreleasedInv'
  BY <1>1 DEF SoloInv, DecideInv, UnreleasedInv
<1>3. ClearedInv' /\ MailingInv' /\ CountInv'
  BY <1>1 DEF OneOfEach, ClearedInv, MailingInv, CountInv, Released
<1> QED
  BY <1>2, <1>3 DEF SoloInv

\* Listing the recipients changes the session only.
LEMMA ListRecipientsSolo ==
  ASSUME OneOfEach, IInv, SoloInv, NEW s \in Senders, ListRecipients(s)
  PROVE  SoloInv'
<1>1. pc[s] = "cleared" /\ job[s] \in Job
  BY DEF ListRecipients, IInv, SeenInv, InFlight
<1>2. /\ pc'[s] = "listed"
      /\ job'[s].results = job[s].results
      /\ UNCHANGED <<status, reviewAction, frozen, count, windowDays, rows, mailed, decision,
                     crashes>>
  BY <1>1 DEF ListRecipients, IInv, TypeOK, Job, eventVars
<1>3. DecideInv' /\ UnreleasedInv'
  BY <1>2 DEF SoloInv, DecideInv, UnreleasedInv
<1>4. ClearedInv' /\ MailingInv' /\ CountInv'
  BY <1>1, <1>2 DEF OneOfEach, SoloInv, ClearedInv, MailingInv, CountInv, Released
<1> QED
  BY <1>3, <1>4 DEF SoloInv

\* What the first commit of release_notice stores, and on what.
LEMMA FreezeStores ==
  ASSUME IInv, SoloInv, NEW s \in Senders, Freeze(s)
  PROVE  /\ job[s] \in Job /\ job[s].results = {}
         /\ status = "approved" /\ reviewAction = "none"
         /\ frozen = None /\ windowDays = None /\ rows = {} /\ mailed = {}
         /\ reviewAction' = Released
         /\ frozen' = [text |-> job[s].text, window |-> job[s].window]
         /\ count' = Cardinality(job[s].recipients)
         /\ windowDays' = IF job[s].recipients = {} THEN None ELSE job[s].window
         /\ \/ pc'[s] = "mailing" /\ job' = job
            \/ pc'[s] = "idle" /\ job[s].recipients = {}
         /\ UNCHANGED <<status, rows, mailed, decision, crashes>>
<1>1. pc[s] = "listed" /\ job[s] \in Job
  BY DEF Freeze, IInv, SeenInv, InFlight
<1>2. status = "approved" /\ reviewAction = "none" /\ job[s].results = {}
  BY <1>1 DEF SoloInv, ClearedInv
<1>3. frozen = None /\ windowDays = None /\ rows = {}
  BY <1>2 DEF SoloInv, UnreleasedInv, Released
<1>4. mailed = {}
  BY <1>2 DEF IInv, ActionInv, MailNeedsRelease
<1>5. pc \in [Senders -> {"idle", "cleared", "listed", "mailing"}]
  BY DEF IInv, TypeOK
<1> QED
  BY <1>1, <1>2, <1>3, <1>4, <1>5 DEF Freeze, Released

\* The count is that of the list, and with nobody on it the send is over.
LEMMA FreezeSolo ==
  ASSUME OneOfEach, IInv, SoloInv, NEW s \in Senders, Freeze(s)
  PROVE  SoloInv'
<1>1. DecideInv' /\ UnreleasedInv'
  BY FreezeStores DEF SoloInv, DecideInv, UnreleasedInv
<1>2. ClearedInv' /\ MailingInv'
  BY FreezeStores DEF OneOfEach, ClearedInv, MailingInv
<1>3. CountInv'
  BY FreezeStores DEF CountInv
<1> QED
  BY <1>1, <1>2, <1>3 DEF SoloInv

\* What one post of send_notice changes: one more result, for an address that
\* was pending, and at most one more mail, of the frozen notice.
LEMMA MailStores ==
  ASSUME IInv, SoloInv, NEW s \in Senders, NEW e \in Subscribers,
         NEW outcome \in {"accepted", "lost", "refused"},
         NEW error \in {"none", "empty", "text"}, Mail(s, e, outcome, error)
  PROVE  /\ pc[s] = "mailing" /\ job[s] \in Job
         /\ e \in job[s].recipients
         /\ \A r \in job[s].results : r.to # e
         /\ \A m \in mailed : m.to # e
         /\ job' = [job EXCEPT ![s] = [job[s] EXCEPT !.results =
              job[s].results \cup {[to |-> e, error |-> error]}]]
         /\ mailed' = IF outcome = "refused" THEN mailed
                      ELSE mailed \cup {[by |-> s, to |-> e, notice |-> frozen]}
         /\ UNCHANGED <<status, reviewAction, frozen, count, windowDays, rows, decision, pc,
                        crashes>>
<1>1. pc[s] = "mailing" /\ job[s] \in Job /\ e \in Pending(s)
  BY DEF Mail, IInv, SeenInv, InFlight
<1>2. /\ e \in job[s].recipients
      /\ \A r \in job[s].results : r.to # e
  BY <1>1 DEF Pending
<1>3. /\ frozen = [text |-> job[s].text, window |-> job[s].window]
      /\ \A m \in mailed : m.to # e
  BY <1>1 DEF SoloInv, MailingInv
<1> QED
  BY <1>1, <1>2, <1>3 DEF Mail, eventVars

\* One result and one mail more leave one of each per address.
LEMMA MailSolo ==
  ASSUME OneOfEach, IInv, SoloInv, NEW s \in Senders, NEW e \in Subscribers,
         NEW outcome \in {"accepted", "lost", "refused"},
         NEW error \in {"none", "empty", "text"}, Mail(s, e, outcome, error)
  PROVE  SoloInv'
<1> DEFINE result == [to |-> e, error |-> error]
           mail == [by |-> s, to |-> e, notice |-> frozen]
<1>1. result.to = e /\ mail.to = e
  OBVIOUS
<1>2. /\ pc[s] = "mailing"
      /\ job[s] \in Job
      /\ e \in job[s].recipients
      /\ \A r \in job[s].results : r.to # e
      /\ job' = [job EXCEPT ![s] = [job[s] EXCEPT !.results = job[s].results \cup {result}]]
      /\ mailed' \subseteq mailed \cup {mail}
      /\ UNCHANGED <<status, reviewAction, frozen, count, windowDays, rows, decision, pc, crashes>>
  BY MailStores
<1> HIDE DEF result, mail
<1>3. /\ job'[s].text = job[s].text
      /\ job'[s].window = job[s].window
      /\ job'[s].recipients = job[s].recipients
      /\ job'[s].results = job[s].results \cup {result}
  BY <1>2 DEF Job, IInv, TypeOK
<1>4. DecideInv' /\ UnreleasedInv'
  BY <1>2 DEF SoloInv, DecideInv, UnreleasedInv
<1>5. ClearedInv' /\ CountInv'
  BY <1>2 DEF OneOfEach, ClearedInv, CountInv
<1>6. MailingInv'
  <2>1. /\ frozen = [text |-> job[s].text, window |-> job[s].window]
        /\ count = Cardinality(job[s].recipients)
        /\ rows = {}
        /\ \A r \in job[s].results : r.to \in job[s].recipients
        /\ \A q, r \in job[s].results : q.to = r.to => q = r
        /\ \A m \in mailed : m.to \notin Pending(s)
    BY <1>2 DEF SoloInv, MailingInv
  <2>2. /\ \A r \in job'[s].results : r.to \in job'[s].recipients
        /\ \A q, r \in job'[s].results : q.to = r.to => q = r
    BY <1>1, <1>2, <1>3, <2>1
  <2>3. Pending(s)' \subseteq Pending(s) \ {e}
    BY <1>1, <1>3 DEF Pending
  <2>4. \A m \in mailed' : m.to \notin Pending(s)'
    BY <1>1, <1>2, <2>1, <2>3
  <2> QED
    BY <1>2, <1>3, <2>1, <2>2, <2>4 DEF OneOfEach, MailingInv
<1> QED
  BY <1>4, <1>5, <1>6 DEF SoloInv

\* One result per recipient makes as many rows as there are recipients.
LEMMA RowsPerRecipient ==
  ASSUME NEW s \in Senders, NEW j \in Job,
         \A r \in j.results : r.to \in j.recipients,
         \A q, r \in j.results : q.to = r.to => q = r,
         j.recipients \subseteq {r.to : r \in j.results}
  PROVE  Cardinality({[by |-> s, to |-> r.to, error |-> r.error] : r \in j.results})
           = Cardinality(j.recipients)
<1> DEFINE Rows == {[by |-> s, to |-> r.to, error |-> r.error] : r \in j.results}
           f == [w \in Rows |-> w.to]
<1>1. IsFiniteSet(j.recipients)
  BY SubscribersFinite, FS_Subset DEF Job
<1>2. ASSUME NEW w \in Rows
      PROVE  \E r \in j.results : w = [by |-> s, to |-> r.to, error |-> r.error] /\ w.to = r.to
  OBVIOUS
<1>3. f \in [Rows -> j.recipients]
  BY <1>2
<1>4. \A v, w \in Rows : f[v] = f[w] => v = w
  BY <1>2
<1>5. \A e \in j.recipients : \E w \in Rows : f[w] = e
  <2> TAKE e \in j.recipients
  <2> PICK r \in j.results : r.to = e
    OBVIOUS
  <2> WITNESS [by |-> s, to |-> r.to, error |-> r.error] \in Rows
  <2> QED
    OBVIOUS
<1>6. f \in Injection(Rows, j.recipients) /\ f \in Surjection(Rows, j.recipients)
  BY <1>3, <1>4, <1>5 DEF Injection, Surjection, IsInjective
<1> QED
  BY <1>1, <1>6, FS_Injection

\* The second commit stores one row per recipient.
LEMMA RecordSolo ==
  ASSUME OneOfEach, IInv, SoloInv, NEW s \in Senders, RecordRecipients(s)
  PROVE  SoloInv'
<1>1. pc[s] = "mailing" /\ job[s] \in Job
  BY DEF RecordRecipients, IInv, SeenInv, InFlight
<1>2. /\ count = Cardinality(job[s].recipients)
      /\ rows = {}
      /\ \A r \in job[s].results : r.to \in job[s].recipients
      /\ \A q, r \in job[s].results : q.to = r.to => q = r
  BY <1>1 DEF SoloInv, MailingInv
<1>3. job[s].recipients \subseteq {r.to : r \in job[s].results}
  BY DEF RecordRecipients, Pending
<1>4. /\ pc'[s] = "idle"
      /\ rows' = {[by |-> s, to |-> r.to, error |-> r.error] : r \in job[s].results}
      /\ UNCHANGED <<status, reviewAction, frozen, count, windowDays, mailed, decision, crashes>>
  BY <1>2 DEF RecordRecipients, IInv, TypeOK
<1>5. count' = Cardinality(rows')
  BY <1>1, <1>2, <1>3, <1>4, RowsPerRecipient
<1>6. reviewAction = Released
  BY <1>1 DEF IInv, ActionInv, Released
<1>7. DecideInv' /\ UnreleasedInv'
  BY <1>4, <1>6 DEF SoloInv, DecideInv, UnreleasedInv
<1>8. ClearedInv' /\ MailingInv' /\ CountInv'
  BY <1>4, <1>5 DEF OneOfEach, ClearedInv, MailingInv, CountInv
<1> QED
  BY <1>7, <1>8 DEF SoloInv

\* A crash forgets the send; what it counted stays.
LEMMA CrashSolo ==
  ASSUME OneOfEach, IInv, SoloInv, NEW s \in Senders, Crash(s)
  PROVE  SoloInv'
<1>1. /\ pc'[s] = "idle"
      /\ crashes' # 0
      /\ UNCHANGED <<status, reviewAction, frozen, count, windowDays, rows, mailed, decision>>
  BY DEF Crash, IInv, TypeOK, eventVars
<1>2. DecideInv' /\ UnreleasedInv'
  BY <1>1 DEF SoloInv, DecideInv, UnreleasedInv
<1>3. ClearedInv' /\ MailingInv' /\ CountInv'
  BY <1>1 DEF OneOfEach, ClearedInv, MailingInv, CountInv
<1> QED
  BY <1>2, <1>3 DEF SoloInv

\* Every step keeps SoloInv when the requests of a kind do not overlap.
LEMMA NextSolo == ASSUME OneOfEach, IInv, SoloInv, [Next]_vars PROVE SoloInv'
<1>1. CASE Decide
  BY <1>1, OpenDecisionSolo, CommitDecisionSolo DEF Decide
<1>2. CASE Page \/ Outside
  BY <1>2, PageLeavesReview, ReviewUntouched
<1>3. CASE Send
  BY <1>3, OpenReleaseSolo, ListRecipientsSolo, FreezeSolo, MailSolo, RecordSolo DEF Send
<1>4. CASE \E s \in Senders : Crash(s)
  BY <1>4, CrashSolo
<1>5. CASE UNCHANGED vars
  BY <1>5, ReviewUntouched DEF vars, eventVars, requestVars
<1> QED
  BY <1>1, <1>2, <1>3, <1>4, <1>5 DEF Next

\* With one request of each kind, what was loaded is what the row holds.
THEOREM SoloInvariance == OneOfEach => (Spec => []SoloInv)
<1> SUFFICES ASSUME OneOfEach PROVE Spec => []SoloInv
  OBVIOUS
<1>1. IInv /\ SoloInv /\ [Next]_vars => SoloInv'
  BY NextSolo
<1> QED
  BY <1>1, InitSolo, Invariance, PTL DEF Spec

\* recipient_count is the number of recipient rows once a send is over that
\* no crash interrupted.
THEOREM RecipientsAreCounted == OneOfEach => (Spec => []CountIsRows)
<1> SUFFICES ASSUME OneOfEach PROVE Spec => []CountIsRows
  OBVIOUS
<1>1. SoloInv => CountIsRows
  BY DEF SoloInv, UnreleasedInv, CountInv, CountIsRows
<1> QED
  BY <1>1, SoloInvariance, PTL

-----------------------------------------------------------------------------
(* The handlers implement NoticePromise.                                   *)

\* An event as it is stored is one that NoticePromise starts with.
LEMMA PromiseInit == Init => Promise!Init
BY DEF Init, Promise!Init

\* A commit of a verdict is Promise!Decide.
LEMMA PromiseDecide ==
  ASSUME IInv, SoloInv, NEW d \in Deciders, CommitDecision(d)
  PROVE  Promise!Decide
<1>1. status \in {"pending_review", "auto_published"}
  BY CommitDecisionStores DEF IInv, TypeOK, ChangeStatus, Terminal
<1> QED
  BY <1>1, CommitDecisionStores DEF Promise!Decide, Verdict

\* The first commit of release_notice is Promise!Release.
LEMMA PromiseRelease ==
  ASSUME IInv, SoloInv, NEW s \in Senders, Freeze(s)
  PROVE  Promise!Release
<1>1. /\ job[s].text \in Texts /\ job[s].window \in Windows
      /\ job[s].recipients \subseteq Subscribers
  BY FreezeStores DEF Job
<1>2. IsFiniteSet(job[s].recipients)
  BY <1>1, SubscribersFinite, FS_Subset
<1>3. /\ count' \in Nat
      /\ count' = 0 <=> job[s].recipients = {}
  BY <1>2, FreezeStores, FS_CardinalityType, FS_EmptySet
<1>4. frozen' \in [text : Texts, window : Windows] /\ frozen'.window = job[s].window
  BY <1>1, FreezeStores
<1> QED
  BY <1>3, <1>4, FreezeStores DEF Promise!Release, Promise!released, Released

\* Without overlapping subscribe requests, an address has one row.
LEMMA OneRowPerAddress ==
  ASSUME OneOfEach, NEW x \in Subscribers, NEW y \in Subscribers, x[1] = y[1]
  PROVE  x = y
<1>1. /\ x = <<x[1], x[2]>> /\ x[2] \in Visits
      /\ y = <<y[1], y[2]>> /\ y[2] \in Visits
  BY DEF Subscribers
<1> QED
  BY <1>1 DEF OneOfEach

\* A post that the provider accepts is Promise!Mail, a refused one nothing.
LEMMA PromiseMail ==
  ASSUME OneOfEach, IInv, SoloInv, NEW s \in Senders, NEW e \in Subscribers,
         NEW outcome \in {"accepted", "lost", "refused"},
         NEW error \in {"none", "empty", "text"}, Mail(s, e, outcome, error)
  PROVE  [Promise!Mail(e[1])]_Promise!vars
<1> DEFINE mail == [by |-> s, to |-> e, notice |-> frozen]
           Sent(M) == {[to |-> m.to[1], notice |-> m.notice] : m \in M}
<1>1. /\ pc[s] = "mailing"
      /\ \A m \in mailed : m.to # e
      /\ mailed' = mailed \/ mailed' = mailed \cup {mail}
      /\ UNCHANGED <<status, reviewAction, frozen, count, windowDays>>
  BY MailStores
<1>2. frozen # None
  <2>1. job[s] \in Job /\ frozen = [text |-> job[s].text, window |-> job[s].window]
    BY <1>1 DEF SoloInv, MailingInv, IInv, SeenInv, InFlight
  <2>2. frozen \in [text : Texts, window : Windows]
    BY <2>1 DEF Job
  <2> QED
    BY <2>2, NoneAssumption
<1>3. e[1] \notin {m.to : m \in Sent(mailed)}
  <2>1. \A m \in mailed : m.to \in Subscribers
    BY DEF IInv, TypeOK
  <2>2. \A m \in mailed : m.to[1] # e[1]
    BY <1>1, <2>1, OneRowPerAddress
  <2> QED
    BY <2>2
<1>4. Sent(mailed \cup {mail}) = Sent(mailed) \cup {[to |-> e[1], notice |-> frozen]}
  <2>1. mail.to = e /\ mail.notice = frozen
    OBVIOUS
  <2> HIDE DEF mail
  <2> QED
    BY <2>1
<1> QED
  BY <1>1, <1>2, <1>3, <1>4 DEF Promise!Mail, Promise!released, Promise!vars

\* Every other step leaves what NoticePromise speaks of alone.
LEMMA PromiseStutters ==
  ASSUME \/ Page \/ Outside \/ UNCHANGED vars
         \/ \E d \in Deciders, v \in Verdict : OpenDecision(d, v)
         \/ \E s \in Senders : \/ \E t \in Texts : OpenRelease(s, t)
                               \/ ListRecipients(s) \/ RecordRecipients(s) \/ Crash(s)
  PROVE  UNCHANGED Promise!vars
<1>1. UNCHANGED <<status, reviewAction, frozen, count, windowDays, mailed>>
  BY PageLeavesReview DEF OpenDecision, OpenRelease, ListRecipients, RecordRecipients, Crash,
     vars, eventVars
<1> QED
  BY <1>1 DEF Promise!vars

\* One decision, then one release of one text with one window, and at most
\* one mail of it per address: the handlers implement NoticePromise when the
\* requests of a kind do not overlap (one address's subscribe requests among
\* them), also when processes die.
THEOREM PromiseKept == OneOfEach => (Spec => KeepsPromise)
<1> SUFFICES ASSUME OneOfEach PROVE Spec => KeepsPromise
  OBVIOUS
<1>1. IInv /\ SoloInv /\ [Next]_vars => [Promise!Next]_Promise!vars
  <2> SUFFICES ASSUME IInv, SoloInv, [Next]_vars PROVE [Promise!Next]_Promise!vars
    OBVIOUS
  <2>1. CASE Decide
    BY <2>1, PromiseDecide, PromiseStutters DEF Decide, Promise!Next
  <2>2. CASE Send
    <3>1. ASSUME NEW s \in Senders, Freeze(s) PROVE Promise!Next
      BY <3>1, PromiseRelease DEF Promise!Next
    <3>2. ASSUME NEW s \in Senders, NEW e \in Subscribers,
                 NEW outcome \in {"accepted", "lost", "refused"},
                 NEW error \in {"none", "empty", "text"}, Mail(s, e, outcome, error)
          PROVE  [Promise!Next]_Promise!vars
      <4>1. e[1] \in Emails
        BY DEF Subscribers
      <4> QED
        BY <3>2, <4>1, PromiseMail DEF Promise!Next
    <3> QED
      BY <2>2, <3>1, <3>2, PromiseStutters DEF Send
  <2> QED
    BY <2>1, <2>2, PromiseStutters DEF Next
<1> QED
  BY <1>1, PromiseInit, Invariance, SoloInvariance, PTL DEF Spec, KeepsPromise, Promise!Spec

-----------------------------------------------------------------------------
(* The recipients of the notice afterwards (DeliveryLog): what             *)
(* DeliveryOrder checks for two recipients, for any number of recipients   *)
(* and webhooks.                                                           *)

\* Only a row that is committed can have a log, and once it is, how its mail
\* ended is settled: that is what makes a gap stay.
LogNeedsRow == \A w \in Webhooks : log[w] > 0 => recorded

SentBeforeRecorded == recorded => \A r \in Recipients : sent[r] # "waiting"

\* What was answered with its row at hand is in the log.
AnswersReachLog == \A w \in answered \ dropped : w.type \in Filed => log[w] > 0

LogInv == LogTypeOK /\ AnswersReachLog /\ LogNeedsRow /\ SentBeforeRecorded

\* Nothing is sent, filed or asked for when release_notice starts.
LEMMA InitLogInv == LogInit => LogInv
<1> SUFFICES ASSUME LogInit PROVE LogInv
  OBVIOUS
<1>1. LogTypeOK
  BY DEF LogInit, LogTypeOK
<1>2. AnswersReachLog /\ LogNeedsRow /\ SentBeforeRecorded
  BY DEF LogInit, AnswersReachLog, LogNeedsRow, SentBeforeRecorded
<1> QED
  BY <1>1, <1>2 DEF LogInv

\* A post that ends, as collected by mailer.send_notice, files nothing.
LEMMA SendLogInv ==
  ASSUME LogInv, NEW r \in Recipients, NEW outcome \in {"accepted", "lost", "refused"},
         NEW silent \in BOOLEAN, SendTo(r, outcome, silent)
  PROVE  LogInv'
BY DEF SendTo, LogInv, LogTypeOK, AnswersReachLog, LogNeedsRow, SentBeforeRecorded, Webhooks

\* The second commit of release_notice comes when every post has ended.
LEMMA RecordLogInv == ASSUME LogInv, RecordRows PROVE LogInv'
BY DEF RecordRows, LogInv, LogTypeOK, AnswersReachLog, LogNeedsRow, SentBeforeRecorded, Webhooks

\* The provider raising a webhook changes nothing in the database.
LEMMA RaiseLogInv == ASSUME LogInv, NEW w \in Webhooks, Raise(w) PROVE LogInv'
BY DEF Raise, LogInv, LogTypeOK, AnswersReachLog, LogNeedsRow, SentBeforeRecorded

\* What filing one webhook does to the log, answered or not.
LEMMA FileLog ==
  ASSUME LogInv, NEW w \in Webhooks, File(w)
  PROVE  /\ log' \in [Webhooks -> Nat]
         /\ \A x \in Webhooks : log'[x] >= log[x]
         /\ \A x \in Webhooks : log'[x] > 0 => log[x] > 0 \/ recorded
         /\ HasRow(w.to) /\ w.type \in Filed => log'[w] > 0
BY DEF File, HasRow, LogInv, LogTypeOK

\* A webhook that is answered is filed if its row is there; one whose answer
\* is lost is still to be answered.
LEMMA WebhookLogInv ==
  ASSUME LogInv, NEW w \in Webhooks, ResendWebhook(w) \/ ResendWebhookUnanswered(w)
  PROVE  LogInv'
<1>1. File(w) /\ w \in happened /\ UNCHANGED <<sent, mute, recorded, happened, resolved, asked, mails>>
  BY DEF ResendWebhook, ResendWebhookUnanswered
<1>2. \/ UNCHANGED <<answered, dropped>>
      \/ answered' = answered \cup {w} /\ NoteDrop(w)
  BY DEF ResendWebhook, ResendWebhookUnanswered
<1>3. answered' \subseteq happened /\ dropped' \subseteq answered'
  BY <1>1, <1>2 DEF NoteDrop, LogInv, LogTypeOK
<1>4. AnswersReachLog'
  <2> SUFFICES ASSUME NEW x \in answered' \ dropped', x.type \in Filed PROVE log'[x] > 0
    BY DEF AnswersReachLog
  <2>1. x \in Webhooks
    BY <1>1, <1>3 DEF LogInv, LogTypeOK
  <2>2. CASE x \in answered \ dropped
    <3>1. log[x] > 0 /\ log[x] \in Nat /\ log'[x] \in Nat /\ log'[x] >= log[x]
      BY <1>1, <2>1, <2>2, FileLog DEF LogInv, LogTypeOK, AnswersReachLog
    <3> QED
      BY <3>1
  <2>3. CASE x = w /\ NoteDrop(w)
    BY <1>1, <2>3, FileLog DEF NoteDrop
  <2> QED
    BY <1>2, <2>2, <2>3 DEF NoteDrop
<1>5. LogNeedsRow' /\ SentBeforeRecorded' /\ LogTypeOK'
  BY <1>1, <1>3, FileLog DEF LogInv, LogTypeOK, LogNeedsRow, SentBeforeRecorded
<1> QED
  BY <1>4, <1>5 DEF LogInv

\* The resolve and resend handlers leave the log alone.
LEMMA TenantLogInv ==
  ASSUME LogInv, NEW r \in Recipients, ResolveNotification(r) \/ ResendNotification(r)
  PROVE  LogInv'
BY DEF ResolveNotification, ResendNotification,
       LogInv, LogTypeOK, AnswersReachLog, LogNeedsRow, SentBeforeRecorded

\* Every step of the sender, the provider and the tenant keeps LogInv.
LEMMA NextLogInv == LogInv /\ [LogNext]_logVars => LogInv'
<1> SUFFICES ASSUME LogInv, [LogNext]_logVars PROVE LogInv'
  OBVIOUS
<1>1. CASE LogNext
  BY <1>1, SendLogInv, RecordLogInv, RaiseLogInv, WebhookLogInv, TenantLogInv DEF LogNext
<1>2. CASE UNCHANGED logVars
  BY <1>2 DEF logVars, LogInv, LogTypeOK, AnswersReachLog, LogNeedsRow, SentBeforeRecorded
<1> QED
  BY <1>1, <1>2

\* The log and the rows agree in every reachable state, whatever the webhooks do.
THEOREM LogInvariance == LogSpec => []LogInv
BY InitLogInv, NextLogInv, PTL DEF LogSpec

-----------------------------------------------------------------------------
\* Every variable keeps its type, however often a webhook is repeated.
THEOREM LogTypeCorrect == LogSpec => []LogTypeOK
BY LogInvariance, PTL DEF LogInv

\* Whatever a bounce or failure is mixed with, once it is answered with its
\* row at hand, the tenant's bounced_count has its recipient.
THEOREM BouncesAreCounted == LogSpec => []BounceIsCounted
<1>1. LogInv => BounceIsCounted
  <2> SUFFICES ASSUME LogInv, NEW w \in answered \ dropped, w.type \in {"bounced", "failed"}
               PROVE  Status(w.to) \in Gap
    BY DEF BounceIsCounted
  <2>1. w \in Webhooks /\ log[w] > 0
    BY DEF LogInv, LogTypeOK, AnswersReachLog, Filed
  <2>2. w.type \in Negative(w.to)
    BY <2>1 DEF Negative, Logged
  <2> QED
    BY <2>2 DEF Status, Gap, Negative
<1> QED
  BY <1>1, LogInvariance, PTL

\* Logged reports are never taken back, and neither is a resolution nor the
\* way a recorded mail ended: what Status reads only grows.
LEMMA LogStepGrows ==
  ASSUME LogInv, LogNext
  PROVE  /\ \A w \in Webhooks : log'[w] >= log[w]
         /\ resolved \subseteq resolved'
         /\ recorded => sent' = sent /\ mute' = mute
         /\ \A r \in Recipients : SendFailed(r) => SendFailed(r)'
<1>1. ASSUME NEW r \in Recipients, NEW outcome \in {"accepted", "lost", "refused"},
             NEW silent \in BOOLEAN, SendTo(r, outcome, silent)
      PROVE  /\ log' = log /\ resolved' = resolved
             /\ recorded => sent' = sent /\ mute' = mute
             /\ \A x \in Recipients : SendFailed(x) => SendFailed(x)'
  BY <1>1 DEF SendTo, SendFailed, LogInv, LogTypeOK, SentBeforeRecorded
<1>2. CASE RecordRows
  BY <1>2 DEF RecordRows, SendFailed, LogInv, LogTypeOK
<1>3. ASSUME NEW w \in Webhooks, Raise(w) PROVE UNCHANGED <<log, resolved, sent, mute>>
  BY <1>3 DEF Raise
<1>4. ASSUME NEW w \in Webhooks, ResendWebhook(w) \/ ResendWebhookUnanswered(w)
      PROVE  File(w) /\ UNCHANGED <<resolved, sent, mute>>
  BY <1>4 DEF ResendWebhook, ResendWebhookUnanswered
<1>5. ASSUME NEW r \in Recipients, ResolveNotification(r) \/ ResendNotification(r)
      PROVE  resolved \subseteq resolved' /\ UNCHANGED <<log, sent, mute>>
  BY <1>5 DEF ResolveNotification, ResendNotification
<1> QED
  BY <1>1, <1>2, <1>3, <1>4, <1>5, FileLog DEF LogNext, SendFailed, LogInv, LogTypeOK

\* The log is append-only.
THEOREM LogAppendOnly == LogSpec => LogGrows
<1>1. LogInv /\ [LogNext]_logVars => [\A w \in Webhooks : log'[w] >= log[w]]_logVars
  BY LogStepGrows
<1> QED
  BY <1>1, LogInvariance, PTL DEF LogSpec, LogGrows

\* No late, repeated or reordered report takes a recipient out of the gap.
THEOREM GapNeverCloses == LogSpec => GapIsSticky
<1>1. LogInv /\ [LogNext]_logVars => [GapStays]_logVars
  <2> SUFFICES ASSUME LogInv, LogNext, NEW r \in Recipients, Status(r) \in Gap
               PROVE  Status(r)' \in Gap
    BY DEF GapStays
  <2>1. SendFailed(r) \/ Negative(r) # {}
    BY DEF Status, Gap, Negative
  <2>2. CASE SendFailed(r)
    BY <2>2, LogStepGrows DEF Status, Gap
  <2>3. CASE Negative(r) # {}
    <3>a. log \in [Webhooks -> Nat] /\ log' \in [Webhooks -> Nat]
      BY NextLogInv DEF LogInv, LogTypeOK
    <3>b. \A w \in Webhooks : log[w] > 0 => log'[w] > 0
      BY <3>a, LogStepGrows
    <3>1. \A t : t \in Logged(r) => t \in Logged(r)'
      BY <3>b DEF Logged
    <3>2. (Negative(r) # {})'
      BY <2>3, <3>1 DEF Negative
    <3>3. ("bounced" \in Negative(r) \/ "failed" \in Negative(r))'
      BY <3>2 DEF Negative
    <3> QED
      BY <3>2, <3>3 DEF Status, Gap
  <2> QED
    BY <2>1, <2>2, <2>3
<1> QED
  BY <1>1, LogInvariance, PTL DEF LogSpec, GapIsSticky

=============================================================================
