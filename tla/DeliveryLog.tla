---------------------------- MODULE DeliveryLog ----------------------------
(***************************************************************************)
(* What becomes of a released notice, per recipient: the second half of    *)
(* release_notice (app/services/approval.py), the Resend webhook of        *)
(* app/routers/webhooks.py, the status that app/services/notifications.py  *)
(* derives from the log, and the resolve and resend handlers of            *)
(* app/routers/dashboard.py.                                               *)
(*                                                                         *)
(* The provider reports what happened to a mail in webhooks.  They come in *)
(* any order, more than once, and from the moment the provider has the     *)
(* mail, which is before the recipient rows are committed.  An unanswered  *)
(* one comes again; an answered one may too.                               *)
(*                                                                         *)
(* The resend handler fails on a name it does not import before it mails   *)
(* or writes anything, so last_manual_resend_at stays NULL and the status  *)
(* is derived from the whole log.                                          *)
(***************************************************************************)
EXTENDS FiniteSets, Naturals

CONSTANTS Recipients, Types

\* The webhook types the handler files; any other is answered and dropped.
Filed == {"delivered", "bounced", "deferred", "failed"}
Webhooks == [to : Recipients, type : Types]

VARIABLES
  sent,      \* per recipient: how the post to the provider ended, or waiting
  mute,      \* recipients whose send_error is the empty string
  recorded,  \* the recipient rows are committed
  happened,  \* webhooks the provider has raised, one webhook id each
  answered,  \* those it has a 200 for
  dropped,   \* history: those answered without a row to file them under
  log,       \* per webhook: its rows in notification_delivery_events
  resolved,  \* recipients with manually_resolved_at
  asked,     \* recipients the tenant has asked to resend to
  mails      \* posts to the provider so far, per recipient

logVars == <<sent, mute, recorded, happened, answered, dropped, log, resolved, asked, mails>>

LogTypeOK ==
  /\ sent \in [Recipients -> {"waiting", "accepted", "lost", "refused"}]
  /\ mute \subseteq Recipients
  /\ recorded \in BOOLEAN
  /\ happened \subseteq Webhooks
  /\ answered \subseteq happened
  /\ dropped \subseteq answered
  /\ log \in [Webhooks -> Nat]
  /\ resolved \subseteq Recipients
  /\ asked \subseteq Recipients
  /\ mails \in [Recipients -> Nat]

LogInit ==
  /\ sent = [r \in Recipients |-> "waiting"]
  /\ mute = {}
  /\ recorded = FALSE
  /\ happened = {}
  /\ answered = {}
  /\ dropped = {}
  /\ log = [w \in Webhooks |-> 0]
  /\ resolved = {}
  /\ asked = {}
  /\ mails = [r \in Recipients |-> 0]

-----------------------------------------------------------------------------
(* derive_recipient_status.                                                *)

Logged(r) == {w.type : w \in {x \in Webhooks : x.to = r /\ log[x] > 0}}

\* A lost answer left no message id either: send_error is all there is, and
\* the empty text of a timeout counts as none.
SendFailed(r) == sent[r] \in {"lost", "refused"} /\ r \notin mute

Negative(r) == Logged(r) \cap {"bounced", "failed"}

\* Mutant of Status: the good news first.
StatusDeliveredFirst(r) ==
  IF SendFailed(r) THEN "send_failed"
  ELSE IF "delivered" \in Logged(r) THEN "delivered"
  ELSE IF Negative(r) # {} THEN IF r \in resolved THEN "resolved" ELSE "bounced"
  ELSE "queued"

Status(r) ==
  IF SendFailed(r) THEN "send_failed"
  ELSE IF Negative(r) # {} /\ r \in resolved THEN "resolved"
  ELSE IF "bounced" \in Negative(r) THEN "bounced"
  ELSE IF "failed" \in Negative(r) THEN "failed"
  ELSE IF "delivered" \in Logged(r) THEN "delivered"
  ELSE IF "deferred" \in Logged(r) THEN "deferred"
  ELSE "queued"

\* _GAP_STATUSES: what bounced_count counts.
Gap == {"bounced", "failed", "resolved", "send_failed"}

-----------------------------------------------------------------------------
(* Sending, as in NoticeRelease.                                           *)

SendTo(r, outcome, silent) ==
  /\ sent[r] = "waiting"
  /\ silent => outcome # "accepted"
  /\ sent' = [sent EXCEPT ![r] = outcome]
  /\ mute' = IF silent THEN mute \cup {r} ELSE mute
  /\ mails' = [mails EXCEPT ![r] = @ + 1]
  /\ UNCHANGED <<recorded, happened, answered, dropped, log, resolved, asked>>

RecordRows ==
  /\ ~recorded
  /\ \A r \in Recipients : sent[r] # "waiting"
  /\ recorded' = TRUE
  /\ UNCHANGED <<sent, mute, happened, answered, dropped, log, resolved, asked, mails>>

-----------------------------------------------------------------------------
(* The provider and its webhooks.                                          *)

Raise(w) ==
  /\ sent[w.to] \in {"accepted", "lost"}
  /\ w \notin happened
  /\ happened' = happened \cup {w}
  /\ UNCHANGED <<sent, mute, recorded, answered, dropped, log, resolved, asked, mails>>

\* The row is found by its message id, which a lost answer never brought.
HasRow(r) == recorded /\ sent[r] = "accepted"

\* Mutant of File: a webhook id is taken for a mail's, so that a second
\* report of the same mail counts as a repetition.
FileFirstOnly(w) ==
  log' = IF w.type \in Filed /\ HasRow(w.to) /\ Logged(w.to) = {}
         THEN [log EXCEPT ![w] = 1] ELSE log

\* Mutant of File: nothing is filed once the mail counts as delivered.
FileUntilDelivered(w) ==
  log' = IF w.type \in Filed /\ HasRow(w.to) /\ Status(w.to) # "delivered"
         THEN [log EXCEPT ![w] = 1] ELSE log

\* A webhook is filed under the row that carries its message id.  The unique
\* webhook_event_id makes a second insert fail, which is answered like the
\* first.
File(w) ==
  log' = IF w.type \in Filed /\ HasRow(w.to) /\ log[w] = 0
         THEN [log EXCEPT ![w] = 1] ELSE log

\* Whether the last answer to a webhook found no row; no action reads it.
NoteDrop(w) == dropped' = IF HasRow(w.to) THEN dropped \ {w} ELSE dropped \cup {w}

\* A signed webhook: the provider did raise it.
ResendWebhook(w) ==
  /\ w \in happened
  /\ File(w)
  /\ NoteDrop(w)
  /\ answered' = answered \cup {w}
  /\ UNCHANGED <<sent, mute, recorded, happened, resolved, asked, mails>>

\* The handler commits and the provider never gets the answer.
ResendWebhookUnanswered(w) ==
  /\ w \in happened
  /\ File(w)
  /\ UNCHANGED <<sent, mute, recorded, happened, answered, dropped, resolved, asked, mails>>

-----------------------------------------------------------------------------
(* The tenant.                                                             *)

\* resolve_notification looks at no status.
ResolveNotification(r) ==
  /\ recorded
  /\ resolved' = resolved \cup {r}
  /\ UNCHANGED <<sent, mute, recorded, happened, answered, dropped, log, asked, mails>>

\* resend_notification raises NameError on Subscriber: nothing is mailed.
ResendNotification(r) ==
  /\ recorded
  /\ r \notin asked
  /\ asked' = asked \cup {r}
  /\ UNCHANGED <<sent, mute, recorded, happened, answered, dropped, log, resolved, mails>>

-----------------------------------------------------------------------------
LogNext ==
  \/ \E r \in Recipients, outcome \in {"accepted", "lost", "refused"}, silent \in BOOLEAN :
       SendTo(r, outcome, silent)
  \/ RecordRows
  \/ \E w \in Webhooks : Raise(w) \/ ResendWebhook(w) \/ ResendWebhookUnanswered(w)
  \/ \E r \in Recipients : ResolveNotification(r) \/ ResendNotification(r)

LogSpec == LogInit /\ [][LogNext]_logVars

\* The provider repeats a webhook until it is answered.
LogFairness == \A w \in Webhooks : WF_logVars(w \notin answered /\ ResendWebhook(w))

LogFairSpec == LogSpec /\ LogFairness

-----------------------------------------------------------------------------
\* A compliance gap stays one: no report that comes late, again or out of
\* order takes a recipient out of bounced_count.
GapStays == \A r \in Recipients : Status(r) \in Gap => Status(r)' \in Gap

GapIsSticky == [][GapStays]_logVars

\* A bounce or failure that the provider has an answer for is in the tenant's
\* bounced_count, whatever else was reported before or after it, if its row
\* was there when it was handled.
BounceIsCounted ==
  \A w \in answered \ dropped : w.type \in {"bounced", "failed"} => Status(w.to) \in Gap

\* The log is append-only.
LogGrows == [][\A w \in Webhooks : log'[w] >= log[w]]_logVars

\* What is reported after the rows are there reaches the log.
ReportsReachLog ==
  \A w \in Webhooks :
    (HasRow(w.to) /\ w.type \in Filed /\ w \in happened \ answered) ~> log[w] > 0

-----------------------------------------------------------------------------
(* What comments and documents say beyond that.                            *)

\* send_failed: the recipients whose post to the provider "never succeeded".
FailedPostIsGap == \A r \in Recipients : recorded /\ sent[r] = "refused" => Status(r) \in Gap

\* A report without a row is "harmless otherwise": it belongs to no mail of
\* this notice.
DropsAreHarmless ==
  \A w \in answered : recorded /\ sent[w.to] = "accepted" /\ w.type \in Filed => log[w] > 0

\* A resend is "a fresh send attempt to one recipient".
ResendMails == [][\A r \in asked' \ asked : mails'[r] > mails[r]]_logVars

=============================================================================
