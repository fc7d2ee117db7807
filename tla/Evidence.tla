------------------------------ MODULE Evidence ------------------------------
(***************************************************************************)
(* The evidence of one change: what is kept of it, the pack a tenant       *)
(* downloads (app/services/evidence.py, app/routers/dashboard.py), the     *)
(* objection window (app/services/notifications.py) and the two checks of  *)
(* a pack: verify.sh, which lies in every pack, and /verify                *)
(* (app/services/verify.py, app/routers/verify.py).                        *)
(*                                                                         *)
(* A digest is the content it is taken of.  A send, an attempt at a        *)
(* timestamp and its retry by hand load the event, wait, and write it back *)
(* as they loaded it.  Timestamping, NoticeRelease and DeliveryLog have    *)
(* the rest of their details; the names in the manifest hold none of its   *)
(* forbidden terms, and the authority that stamps has its chain in         *)
(* certs/tsa.                                                              *)
(***************************************************************************)
EXTENDS Naturals, FiniteSets, UnitOfWork

CONSTANTS
  Subscribers,    \* confirmed subscribers of the tenant
  Senders,        \* send requests
  Sweeps,         \* passes of the timestamp sweep that may overlap
  Tabs,           \* requests to retry a timestamp by hand
  Windows,        \* lengths of an objection window
  None,           \* NULL, not_available, or no pack
  MaxObjections,  \* bound on the objections that are recorded
  MaxCrashes      \* bound on crashes

Files == {"before.html", "after.html", "texts", "token", "chain", "notice.txt", "redacted.csv",
          "full.csv"}
Contents == {"page", "placeholder", "texts", "token", "chain", "notice", "log", "damaged"}
Delivery == {"queued", "delivered", "bounced", "resolved", "send_failed"}
Stamps == {"not_available_pre_tsa", "pending", "retrying", "timestamped", "failed"}

ASSUME BoundsAssumption ==
  Windows \subseteq Nat \ {0} /\ MaxObjections \in Nat /\ MaxCrashes \in Nat
ASSUME NoneAssumption ==
  None \notin Nat \cup BOOLEAN \cup Files \cup Contents \cup Delivery \cup Stamps
                \cup {"recorded", "open", "none recorded", "released", "auto", "listed"}
ASSUME SubscribersAssumption == IsFiniteSet(Subscribers) /\ IsFiniteSet(Senders)
ASSUME StampersAssumption == Sweeps \cap Tabs = {}

VARIABLES
  growth,    \* the tenant's plan has evidence packs (may_export_evidence)
  days,      \* objection_window_days
  check,     \* may_export_evidence as the check that finds the change loaded it
  event,     \* the change event
  left,      \* days until window_closes_at
  rows,      \* notification_recipients: each subscriber's row of each send
  opened,    \* objection_window_days as a send loaded it, with an unreleased event
  sending,   \* the recipients of a send that has released and not mailed
  tried,     \* the status a sweep or a retry by hand loaded, or that a sweep has listed it
  pack,      \* the pack downloaded last
  crashes    \* crashes so far

vars == <<growth, days, check, event, left, rows, opened, sending, tried, pack, crashes>>

Verdicts == {"PASS", "FAIL", "NO TIMESTAMP"}

\* window_days is the length that the frozen notice tells as well.
Event == [html : {"page", None}, entitled : BOOLEAN, stamp : Stamps,
          status : {"pending_review", "auto_published", "approved", "rejected"},
          review : {"released", "auto", None}, frozen : Windows \cup {None},
          count : 0 .. Cardinality(Subscribers) \cup {None}, window : Windows \cup {None},
          objections : 0 .. MaxObjections]

ASSUME EventAssumption == None \notin Event

TypeOK ==
  /\ growth \in BOOLEAN
  /\ days \in Windows
  /\ check \in BOOLEAN \cup {None}
  /\ event \in Event \cup {None}
  /\ left \in Nat \cup {None}
  /\ rows \in [Subscribers \X Senders -> Delivery \cup {None}]
  /\ opened \in [Senders -> Windows \cup {None}]
  /\ sending \in [Senders -> SUBSET Subscribers]
  /\ tried \in [Sweeps \cup Tabs -> Stamps \cup {"listed", None}]
  /\ pack # None => /\ DOMAIN pack.files \subseteq Files
                    /\ \A f \in DOMAIN pack.files : pack.files[f] \in Contents
  /\ crashes \in 0 .. MaxCrashes

\* Nothing yet, or a change from before the raw HTML and timestamps were kept.
Init ==
  /\ growth \in BOOLEAN
  /\ days \in Windows
  /\ check = None
  /\ event \in {None} \cup
       {[html |-> None, entitled |-> e, stamp |-> "not_available_pre_tsa",
         status |-> "pending_review", review |-> None, frozen |-> None, count |-> None,
         window |-> None, objections |-> 0] : e \in BOOLEAN}
  /\ left = None
  /\ rows = [row \in Subscribers \X Senders |-> None]
  /\ opened = [s \in Senders |-> None]
  /\ sending = [s \in Senders |-> {}]
  /\ tried = [z \in Sweeps \cup Tabs |-> None]
  /\ pack = None
  /\ crashes = 0

-----------------------------------------------------------------------------
(* What happens to the event.                                              *)

LoadTenant ==
  /\ check = None
  /\ event = None
  /\ check' = growth
  /\ UNCHANGED <<growth, days, event, left, rows, opened, sending, tried, pack, crashes>>

\* Mutant of Capture: export_entitled is left to its default.
CaptureByDefault(status) ==
  /\ check # None
  /\ event' = [html |-> "page", entitled |-> FALSE, stamp |-> "pending", status |-> status,
               review |-> IF status = "auto_published" THEN "auto" ELSE None,
               frozen |-> None, count |-> None, window |-> None, objections |-> 0]
  /\ check' = None
  /\ UNCHANGED <<growth, days, left, rows, opened, sending, tried, pack, crashes>>

\* The change is found and stored (run_subprocessor_check).
Capture(status) ==
  /\ check # None
  /\ event' = [html |-> "page", entitled |-> check, stamp |-> "pending", status |-> status,
               review |-> IF status = "auto_published" THEN "auto" ELSE None,
               frozen |-> None, count |-> None, window |-> None, objections |-> 0]
  /\ check' = None
  /\ UNCHANGED <<growth, days, left, rows, opened, sending, tried, pack, crashes>>

Due == {"pending", "retrying"}

\* run_timestamp_retry_pass lists what is due; each event is loaded when its turn comes.
List(z) ==
  /\ tried[z] = None
  /\ event # None
  /\ event.stamp \in Due
  /\ tried' = [tried EXCEPT ![z] = "listed"]
  /\ UNCHANGED <<growth, days, check, event, left, rows, opened, sending, pack, crashes>>

\* session.get in the pass; the status is not looked at again.
LoadListed(z) ==
  /\ tried[z] = "listed"
  /\ tried' = [tried EXCEPT ![z] = event.stamp]
  /\ UNCHANGED <<growth, days, check, event, left, rows, opened, sending, pack, crashes>>

\* retry_timestamp
LoadFailed(z) ==
  /\ tried[z] = None
  /\ event # None
  /\ event.stamp = "failed"
  /\ tried' = [tried EXCEPT ![z] = event.stamp]
  /\ UNCHANGED <<growth, days, check, event, left, rows, opened, sending, pack, crashes>>

\* The commit of stamp_change_event or of retry_timestamp.
Stamp(z, to) ==
  /\ tried[z] \in Stamps
  /\ event' = [event EXCEPT !.stamp = Dirty(tried[z], to, event.stamp)]
  /\ tried' = [tried EXCEPT ![z] = None]
  /\ UNCHANGED <<growth, days, check, left, rows, opened, sending, pack, crashes>>

\* approve_change_event, reject_change_event
Decide(to) ==
  /\ event # None
  /\ event.status \notin {"approved", "rejected"}
  /\ event' = [event EXCEPT !.status = to]
  /\ UNCHANGED <<growth, days, check, left, rows, opened, sending, tried, pack, crashes>>

\* release_notice loads the event and its tenant, and finds that it may be sent.
OpenRelease(s) ==
  /\ opened[s] = None
  /\ event # None
  /\ event.status = "approved"
  /\ event.review = None
  /\ opened' = [opened EXCEPT ![s] = days]
  /\ UNCHANGED <<growth, days, check, event, left, rows, sending, tried, pack, crashes>>

\* Its first commit freezes text, list and window; it does not look at the event again.
Freeze(s, to) ==
  /\ opened[s] # None
  /\ event' = [event EXCEPT !.review = "released", !.frozen = opened[s],
                            !.count = Cardinality(to),
                            !.window = IF to = {} THEN @ ELSE opened[s]]
  /\ left' = IF to = {} THEN left ELSE opened[s]
  /\ opened' = [opened EXCEPT ![s] = None]
  /\ sending' = [sending EXCEPT ![s] = to]
  /\ UNCHANGED <<growth, days, check, rows, tried, pack, crashes>>

\* The mails are sent, or not, and each leaves a row.  One that was not sent reads
\* "queued" when its error has no text (NoticeRelease, DeliveryLog).
Send(s, failed) ==
  /\ sending[s] # {}
  /\ rows' = [row \in Subscribers \X Senders |->
       IF row \notin sending[s] \X {s} THEN rows[row]
       ELSE IF row[1] \in failed THEN "send_failed" ELSE "queued"]
  /\ sending' = [sending EXCEPT ![s] = {}]
  /\ UNCHANGED <<growth, days, check, event, left, opened, tried, pack, crashes>>

\* The process dies, and with it all that it had loaded.
Crash ==
  /\ \/ check # None
     \/ \E s \in Senders : opened[s] # None \/ sending[s] # {}
     \/ \E z \in Sweeps \cup Tabs : tried[z] # None
  /\ crashes < MaxCrashes
  /\ crashes' = crashes + 1
  /\ check' = None
  /\ opened' = [s \in Senders |-> None]
  /\ sending' = [s \in Senders |-> {}]
  /\ tried' = [z \in Sweeps \cup Tabs |-> None]
  /\ UNCHANGED <<growth, days, event, left, rows, pack>>

\* A report of the mail provider, or a bounce that a human has dealt with.
Report(row, to) ==
  /\ <<rows[row], to>> \in {<<"queued", "delivered">>, <<"queued", "bounced">>,
                          <<"delivered", "bounced">>, <<"bounced", "resolved">>}
  /\ rows' = [rows EXCEPT ![row] = to]
  /\ UNCHANGED <<growth, days, check, event, left, opened, sending, tried, pack, crashes>>

\* record_objection; the page offers it once a window has been opened.
RecordObjection ==
  /\ event # None
  /\ event.window # None
  /\ event.objections < MaxObjections
  /\ event' = [event EXCEPT !.objections = @ + 1]
  /\ UNCHANGED <<growth, days, check, left, rows, opened, sending, tried, pack, crashes>>

\* set_objection_window
SetWindow(new) ==
  /\ new # days
  /\ days' = new
  /\ UNCHANGED <<growth, check, event, left, rows, opened, sending, tried, pack, crashes>>

ChangePlan ==
  /\ growth' = ~growth
  /\ UNCHANGED <<days, check, event, left, rows, opened, sending, tried, pack, crashes>>

PassDay ==
  /\ left \notin {None, 0}
  /\ left' = left - 1
  /\ UNCHANGED <<growth, days, check, event, rows, opened, sending, tried, pack, crashes>>

-----------------------------------------------------------------------------
(* The pack.                                                               *)

Timestamped == event.stamp = "timestamped"
HasNotification == event.frozen # None
WasSent == event.count \notin {None, 0}
HowMany(statuses) == Cardinality({row \in Subscribers \X Senders : rows[row] \in statuses})

\* Mutant of ObjectionStatus: a window that was never opened has closed.
ObjectionStatusOfAll ==
  CASE event.objections > 0 -> "recorded"
    [] event.objections = 0 /\ left \notin {None, 0} -> "open"
    [] OTHER -> "none recorded"

\* compute_objection_status
ObjectionStatus ==
  CASE ~WasSent -> None
    [] WasSent /\ event.objections > 0 -> "recorded"
    [] WasSent /\ event.objections = 0 /\ left # 0 -> "open"
    [] OTHER -> "none recorded"

OrPlaceholder(content) == IF content = None THEN "placeholder" ELSE content

FileNames(log) ==
  {"before.html", "after.html", "texts"}
    \cup (IF Timestamped THEN {"token", "chain"} ELSE {})
    \cup (IF HasNotification THEN {"notice.txt"} ELSE {})
    \cup (IF WasSent THEN {log} ELSE {})

Content(f) ==
  CASE f \in {"before.html", "after.html"} -> OrPlaceholder(event.html)
    [] f \in {"texts", "token", "chain"} -> f
    [] f = "notice.txt" -> "notice"
    [] OTHER -> "log"

\* Mutant of AfterDigest: the digest is taken of the file in the pack.
AfterDigestOfFile == OrPlaceholder(event.html)

\* after_sha256 is the digest stored at the capture.
AfterDigest == event.html

\* Mutant of WindowFields: the length that is configured now.
WindowFieldsOfTenant ==
  [window |-> IF event.window = None THEN None ELSE days, objections |-> ObjectionStatus]

WindowFields == [window |-> event.window, objections |-> ObjectionStatus]

NotificationFields(log) ==
  IF WasSent
  THEN [notice |-> "notice.txt", count |-> event.count, delivered |-> HowMany({"delivered"}),
        gap |-> HowMany({"bounced", "resolved", "send_failed"}), log |-> log]
  ELSE [notice |-> None, count |-> None, delivered |-> None, gap |-> None, log |-> None]

\* evidence_zip and _render_manifest_v2
Pack(log) ==
  [files |-> [f \in FileNames(log) |-> Content(f)],
   after |-> AfterDigest,
   stamp |-> event.stamp,
   token |-> IF Timestamped THEN "token" ELSE None,
   chain |-> IF Timestamped THEN "chain" ELSE None,
   review |-> event.review,
   notification |-> NotificationFields(log),
   objection |-> WindowFields]

\* evidence_bundle: the plan of today, or the one of the capture.
MayExport == growth \/ event.entitled

\* evidence_export: the changes in the CSV; without any it is refused as well.
Exported == {e \in {event} \ {None} : growth \/ e.entitled}

Download(log) ==
  /\ event # None
  /\ MayExport
  /\ pack' = Pack(log)
  /\ UNCHANGED <<growth, days, check, event, left, rows, opened, sending, tried, crashes>>

Next ==
  \/ LoadTenant
  \/ \E status \in {"pending_review", "auto_published"} : Capture(status)
  \/ \E z \in Sweeps :
       \/ List(z) \/ LoadListed(z)
       \/ \E to \in {"retrying", "timestamped", "failed"} : Stamp(z, to)
  \/ \E z \in Tabs : LoadFailed(z) \/ Stamp(z, "retrying")
  \/ \E to \in {"approved", "rejected"} : Decide(to)
  \/ \E s \in Senders :
       \/ OpenRelease(s)
       \/ \E to \in SUBSET Subscribers : Freeze(s, to)
       \/ \E failed \in SUBSET sending[s] : Send(s, failed)
  \/ Crash
  \/ \E row \in Subscribers \X Senders, to \in Delivery : Report(row, to)
  \/ RecordObjection
  \/ \E new \in Windows : SetWindow(new)
  \/ ChangePlan
  \/ PassDay
  \/ \E log \in {"redacted.csv", "full.csv"} : Download(log)

Spec == Init /\ [][Next]_vars

-----------------------------------------------------------------------------
(* The checks of a pack.                                                   *)

Has(p, f) == f \in DOMAIN p.files

\* openssl ts -verify -no_check_time
Attests(token, digest, chain) == token = "token" /\ digest = "page" /\ chain = "chain"

ContentMatches(p) == p.after # None /\ Has(p, "after.html") /\ p.files["after.html"] = p.after

\* _verify_sh: with the chain that lies in the pack.
VerifySh(p) ==
  IF ~ContentMatches(p) THEN "FAIL"
  ELSE IF p.stamp # "timestamped" THEN "NO TIMESTAMP"
  ELSE IF /\ Has(p, "token") /\ Has(p, "chain")
          /\ Attests(p.files["token"], p.after, p.files["chain"]) THEN "PASS"
  ELSE "FAIL"

\* Mutant of VerifyPack: the token is checked against its own digest only.
VerifyPackUnhashed(p) ==
  IF p.after = None THEN "FAIL"
  ELSE IF p.stamp # "timestamped" THEN "NO TIMESTAMP"
  ELSE IF Has(p, "token") /\ Attests(p.files["token"], p.after, "chain") THEN "PASS"
  ELSE "FAIL"

\* verify_pack: with the chain bundled for the authority that the manifest names.
VerifyPack(p) ==
  IF ~ContentMatches(p) THEN "FAIL"
  ELSE IF p.stamp # "timestamped" THEN "NO TIMESTAMP"
  ELSE IF Has(p, "token") /\ Attests(p.files["token"], p.after, "chain") THEN "PASS"
  ELSE "FAIL"

\* verify_content_and_token
VerifyPair(content, token) == IF Attests(token, content, "chain") THEN "PASS" ELSE "FAIL"

\* A copy whose file has been damaged or lost.
Damaged(p, f) == [p EXCEPT !.files[f] = "damaged"]
Without(p, f) == [p EXCEPT !.files = [g \in DOMAIN p.files \ {f} |-> p.files[g]]]
Copies(p, f) == {Damaged(p, f), Without(p, f)}

-----------------------------------------------------------------------------

\* "runs the same check verify.sh does" (manifest_v2): as it was downloaded, a
\* pack passes both checks in the way its timestamp_status says, if there was a
\* capture at all, the captured file passes with its token, and every file that
\* the manifest names lies in the pack.
Named(p) == {p.token, p.chain, p.notification.notice, p.notification.log} \ {None}
Optional(p) == DOMAIN p.files \ {"before.html", "after.html", "texts"}

PackVerifies ==
  pack # None =>
    /\ Named(pack) \subseteq Optional(pack)
    /\ VerifySh(pack) = VerifyPack(pack)
    /\ VerifyPack(pack) = IF pack.files["after.html"] = "placeholder" THEN "FAIL"
                          ELSE IF pack.stamp = "timestamped" THEN "PASS" ELSE "NO TIMESTAMP"
    /\ pack.stamp = "timestamped" =>
         VerifyPair(pack.files["after.html"], pack.files["token"]) = "PASS"

\* Neither check accepts a pack whose after.html, or the token its manifest
\* promises, has been damaged or lost.
DamageIsFound ==
  pack # None =>
    \A f \in {"after.html", pack.token} \cap DOMAIN pack.files :
      \A copy \in Copies(pack, f) : VerifySh(copy) = "FAIL" /\ VerifyPack(copy) = "FAIL"

\* "every file named in [PACK CONTENTS] needs a field here saying what it is"
\* (manifest_v2).
EveryFileIsNamed == pack # None => Optional(pack) = Named(pack)

Attempted == {r \in Subscribers : \E s \in Senders : rows[<<r, s>>] # None}

\* "never a false no objection recorded for a notice that was never sent"
\* (manifest_v2): where a manifest would say so, the window has run its whole
\* length, nobody has objected, and each recipient's mail has been tried, unless
\* a release died before it came to that.
NoFalseNegative ==
  event # None /\ ObjectionStatus = "none recorded" =>
    /\ left = 0
    /\ event.objections = 0
    /\ event.count > 0
    /\ crashes = 0 /\ (\A s \in Senders : sending[s] = {}) =>
         Cardinality(Attempted) >= event.count

\* The same whatever happens to the release.
NoFalseNegativeEver ==
  event # None /\ ObjectionStatus = "none recorded" => Cardinality(Attempted) >= event.count

\* "released evidence is immutable" (manifest_v2): what one pack has stated of
\* the notice, its window, its gaps and its timestamp, no later pack takes back,
\* and an objection that has been reported is reported for ever.
Stands ==
  pack # None =>
    LET was == pack  is == pack' IN
    /\ was.stamp = "timestamped" => is.stamp = "timestamped"
    /\ was.review # None => is.review = was.review
    /\ was.notification.count # None =>
         /\ is.notification.count = was.notification.count
         /\ is.notification.gap >= was.notification.gap
    /\ was.objection.window # None => is.objection.window = was.objection.window
    /\ was.objection.objections = "recorded" => is.objection.objections = "recorded"
    /\ was.objection.objections = "none recorded" => is.objection.objections # "open"

StatementsStand == [][Stands]_vars

\* "cancelling Growth must not retract access to packs already earned"
\* (ChangeEvent): once a check has begun on a plan with packs, the change that it
\* finds can be exported for ever, as a pack and in the CSV, whatever the plan is
\* by then.
EarnedIsKept ==
  [](check = TRUE => [](crashes = 0 /\ event # None => MayExport /\ event \in Exported))

=============================================================================
