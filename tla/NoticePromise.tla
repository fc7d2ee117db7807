--------------------------- MODULE NoticePromise ---------------------------
(***************************************************************************)
(* What the review of a change event and the release of its notice promise *)
(* (docs/manifest_v2.md, "released evidence is immutable" and "approve and *)
(* release are two separate acts"): one decision, then one release of one  *)
(* text with one objection window, and that notice, to an address at most  *)
(* once.  Each step is one commit or one accepted mail.                    *)
(***************************************************************************)
EXTENDS Naturals

CONSTANTS Texts, Windows, Emails, None

VARIABLES status, reviewAction, frozen, count, windowDays, mailed

vars == <<status, reviewAction, frozen, count, windowDays, mailed>>

released == frozen # None

Init ==
  /\ \/ status = "pending_review" /\ reviewAction = "none"
     \/ status = "auto_published" /\ reviewAction = "auto_published_cosmetic"
  /\ frozen = None
  /\ count = None
  /\ windowDays = None
  /\ mailed = {}

Decide ==
  /\ status \in {"pending_review", "auto_published"}
  /\ status' \in {"approved", "rejected"}
  /\ UNCHANGED <<reviewAction, frozen, count, windowDays, mailed>>

\* The number of recipients is fixed with the text; without any, the
\* objection window never opens.
Release ==
  /\ status = "approved"
  /\ reviewAction = "none"
  /\ ~released
  /\ reviewAction' = "notice_released_by_reviewer"
  /\ frozen' \in [text : Texts, window : Windows]
  /\ count' \in Nat
  /\ windowDays' = IF count' = 0 THEN None ELSE frozen'.window
  /\ UNCHANGED <<status, mailed>>

Mail(e) ==
  /\ released
  /\ e \notin {m.to : m \in mailed}
  /\ mailed' = mailed \cup {[to |-> e, notice |-> frozen]}
  /\ UNCHANGED <<status, reviewAction, frozen, count, windowDays>>

Next == Decide \/ Release \/ \E e \in Emails : Mail(e)

Spec == Init /\ [][Next]_vars

=============================================================================
