-------------------------- MODULE TimestampDiagram --------------------------
(***************************************************************************)
(* What the timestamping of one set of rows promises, whoever works on     *)
(* them and however often: the states of TimestampStatus                   *)
(* (app/db/models/change_event.py) and the edges its handlers take, each   *)
(* edge in one step.                                                       *)
(*                                                                         *)
(*   pending, retrying --TSA grants--> timestamped          (for good)     *)
(*   pending, retrying --TSA fails---> retrying, or failed at the last try *)
(*   failed --a person retries--> retrying, with all its tries again       *)
(*   not_available_pre_tsa: for good, except a source's first capture      *)
(***************************************************************************)
EXTENDS Naturals

CONSTANTS Rows, Tokens, NoToken, MaxAttempts

VARIABLES status, token, attempts, captured

vars == <<status, token, attempts, captured>>

Due == {"pending", "retrying"}
Stored == Due \cup {"timestamped", "failed", "not_available_pre_tsa"}

Init ==
  /\ \A r \in Rows : status[r] \in {"absent", "not_available_pre_tsa"}
  /\ token = [r \in Rows |-> NoToken]
  /\ attempts = [r \in Rows |-> 0]

Become(r, new) == status' = [status EXCEPT ![r] = new]

\* A change event is stored due, a source is stored with nothing to stamp.
Create(r) ==
  /\ status[r] = "absent"
  /\ Become(r, "pending") \/ Become(r, "not_available_pre_tsa")
  /\ UNCHANGED <<token, attempts, captured>>

FirstCapture(r) ==
  /\ r \in DOMAIN captured
  /\ ~captured[r]
  /\ status[r] = "not_available_pre_tsa"
  /\ Become(r, "pending")
  /\ captured' = [captured EXCEPT ![r] = TRUE]
  /\ UNCHANGED <<token, attempts>>

Granted(r, t) ==
  /\ status[r] \in Due
  /\ Become(r, "timestamped")
  /\ token' = [token EXCEPT ![r] = t]
  /\ attempts' = [attempts EXCEPT ![r] = @ + 1]
  /\ UNCHANGED captured

Refused(r) ==
  /\ status[r] \in Due
  /\ Become(r, IF attempts[r] + 1 >= MaxAttempts THEN "failed" ELSE "retrying")
  /\ attempts' = [attempts EXCEPT ![r] = @ + 1]
  /\ UNCHANGED <<token, captured>>

PersonRetries(r) ==
  /\ status[r] = "failed"
  /\ Become(r, "retrying")
  /\ attempts' = [attempts EXCEPT ![r] = 0]
  /\ UNCHANGED <<token, captured>>

Delete(r) ==
  /\ status[r] \in Stored
  /\ Become(r, "deleted")
  /\ UNCHANGED <<token, attempts, captured>>

Next ==
  \E r \in Rows :
    \/ Create(r)
    \/ FirstCapture(r)
    \/ \E t \in Tokens : Granted(r, t)
    \/ Refused(r)
    \/ PersonRetries(r)
    \/ Delete(r)

Spec == Init /\ [][Next]_vars

=============================================================================
