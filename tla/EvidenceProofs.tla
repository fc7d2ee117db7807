--------------------------- MODULE EvidenceProofs ---------------------------
(***************************************************************************)
(* What EvidencePack checks for one subscriber, one send, one sweep and one *)
(* retry by hand: what a pack is worth and what it may say, for any number *)
(* of them; and that nothing a pack has said is taken back, where no two   *)
(* sends, no two sweeps and no two retries overlap.                        *)
(***************************************************************************)
EXTENDS Evidence, FiniteSetTheorems, TLAPS

\* HTML was kept from when timestamps were; a notice is frozen with its count;
\* what is tried is an event that has a digest to stamp.
EventInv ==
  /\ check # None => event = None
  /\ event # None =>
       /\ event.html = None <=> event.stamp = "not_available_pre_tsa"
       /\ event.frozen = None <=> event.count = None
       /\ event.review = None => event.count = None
       /\ event.count = None => event.window = None
  /\ \A z \in Sweeps \cup Tabs :
       tried[z] # None =>
         event # None /\ event.html # None /\ tried[z] # "not_available_pre_tsa"

Tried(s) == {r \in Subscribers : rows[<<r, s>>] # None}
GapStatuses == {"bounced", "resolved", "send_failed"}

\* Rows and mails there are only of a notice that has been released; a send
\* releases once, and each recipient of the release that the event shows has a
\* row or is about to have one.
RowsInv ==
  /\ event = None => \A s \in Senders : opened[s] = None
  /\ event = None \/ event.count = None =>
       /\ left = None
       /\ \A s \in Senders : Tried(s) = {} /\ sending[s] = {}
  /\ \A s \in Senders :
       /\ opened[s] # None => Tried(s) = {} /\ sending[s] = {}
       /\ sending[s] # {} => Tried(s) = {}
  /\ event # None /\ event.count # None /\ crashes = 0
       => \E s \in Senders : Cardinality(Tried(s) \cup sending[s]) = event.count

IInv == TypeOK /\ EventInv /\ RowsInv /\ PackVerifies /\ DamageIsFound

\* No two sends, sweeps or retries by hand overlap.
OneOfEach ==
  /\ \A v, w \in Senders : v = w
  /\ \A v, w \in Sweeps : v = w
  /\ \A v, w \in Tabs : v = w

\* Then what a step has loaded of the event is what the event still holds.
SoloInv ==
  /\ \A z \in Sweeps :
       /\ tried[z] # None => event # None /\ event.stamp \in Due
       /\ tried[z] \in Stamps => event.stamp = tried[z]
  /\ \A z \in Tabs :
       tried[z] # None => event # None /\ event.stamp = "failed" /\ tried[z] = "failed"
  /\ \A s \in Senders : opened[s] # None => event # None /\ event.review = None

\* What a pack says of the event is still true of it, or has only grown.
PackInv ==
  pack # None =>
    /\ event # None
    /\ pack.stamp = "timestamped" => event.stamp = "timestamped"
    /\ pack.review # None => event.review = pack.review
    /\ pack.notification.count # None =>
         /\ WasSent
         /\ event.count = pack.notification.count
         /\ pack.notification.gap \in Nat
         /\ pack.notification.gap <= HowMany(GapStatuses)
    /\ pack.objection.window # None => event.window = pack.objection.window
    /\ pack.objection.objections = "recorded" => WasSent /\ event.objections > 0
    /\ pack.objection.objections = "none recorded" => WasSent /\ left = 0

AloneInv == SoloInv /\ PackInv

\* NULL is none of the values it stands beside.
LEMMA NoneIsNothing ==
  /\ None \notin Nat /\ None # 0
  /\ None \notin Delivery /\ None \notin Files
  /\ None \notin {"page", "placeholder", "damaged", "released", "auto"}
  /\ None \notin {"recorded", "open", "none recorded"}
  /\ None \notin Stamps /\ None # "listed"
<1>1. None \notin Nat /\ None \notin Delivery /\ None \notin Files /\ None \notin Contents
  BY NoneAssumption
<1>2. None \notin {"recorded", "open", "none recorded", "released", "auto", "listed"} \cup Stamps
  BY NoneAssumption
<1>3. None # 0
  BY <1>1
<1> QED
  BY <1>1, <1>2, <1>3 DEF Contents

LEMMA InitIInv == Init => IInv /\ AloneInv
<1> SUFFICES ASSUME Init PROVE IInv /\ AloneInv
  OBVIOUS
<1>1. ASSUME event # None
      PROVE  /\ event \in Event /\ event.html = None /\ event.stamp = "not_available_pre_tsa"
             /\ event.frozen = None /\ event.count = None /\ event.window = None
  <2>1. PICK e \in BOOLEAN :
          event = [html |-> None, entitled |-> e, stamp |-> "not_available_pre_tsa",
                   status |-> "pending_review", review |-> None, frozen |-> None,
                   count |-> None, window |-> None, objections |-> 0]
    BY <1>1 DEF Init
  <2>2. 0 \in 0 .. MaxObjections
    BY BoundsAssumption
  <2> QED
    BY <2>1, <2>2 DEF Event, Stamps
<1>2. TypeOK
  BY <1>1, BoundsAssumption DEF Init, TypeOK
<1>3. EventInv
  BY <1>1 DEF Init, EventInv
<1>4. RowsInv
  BY <1>1 DEF Init, RowsInv, Tried
<1>5. PackInv /\ PackVerifies /\ DamageIsFound
  BY DEF Init, PackInv, PackVerifies, DamageIsFound
<1>6. SoloInv
  BY NoneIsNothing DEF Init, SoloInv
<1> QED
  BY <1>2, <1>3, <1>4, <1>5, <1>6 DEF IInv, AloneInv

LEMMA PositiveCount == ASSUME NEW c \in Nat, NEW n \in 0 .. c, n # 0 PROVE n \in Nat /\ n > 0
OBVIOUS

-----------------------------------------------------------------------------
(* The pack as it is made.                                                 *)

\* Its fields, one by one.
LEMMA PackFields ==
  ASSUME NEW log
  PROVE  /\ Pack(log).files = [f \in FileNames(log) |-> Content(f)]
         /\ Pack(log).after = event.html
         /\ Pack(log).stamp = event.stamp
         /\ Pack(log).token = IF Timestamped THEN "token" ELSE None
         /\ Pack(log).chain = IF Timestamped THEN "chain" ELSE None
         /\ Pack(log).review = event.review
         /\ Pack(log).notification = NotificationFields(log)
         /\ Pack(log).objection = WindowFields
BY DEF Pack, AfterDigest

LEMMA NotificationOf ==
  ASSUME NEW log
  PROVE  /\ WasSent => /\ NotificationFields(log).notice = "notice.txt"
                       /\ NotificationFields(log).count = event.count
                       /\ NotificationFields(log).gap = HowMany(GapStatuses)
                       /\ NotificationFields(log).log = log
         /\ ~WasSent => /\ NotificationFields(log).notice = None
                        /\ NotificationFields(log).count = None
                        /\ NotificationFields(log).log = None
BY DEF NotificationFields, GapStatuses

LEMMA WindowOf ==
  /\ WindowFields.window = event.window
  /\ WindowFields.objections = ObjectionStatus
BY DEF WindowFields

LEMMA FilesOf ==
  ASSUME NEW log \in {"redacted.csv", "full.csv"}, event \in Event, EventInv, event # None
  PROVE  LET p == Pack(log) IN
         /\ DOMAIN p.files = FileNames(log)
         /\ FileNames(log) \subseteq Files
         /\ \A f \in FileNames(log) : p.files[f] \in Contents
         /\ "after.html" \in FileNames(log)
         /\ p.files["after.html"] = OrPlaceholder(event.html)
         /\ Timestamped => /\ "token" \in FileNames(log) /\ p.files["token"] = "token"
                           /\ "chain" \in FileNames(log) /\ p.files["chain"] = "chain"
         /\ HasNotification => "notice.txt" \in FileNames(log)
         /\ WasSent => log \in FileNames(log)
<1> DEFINE files == [f \in FileNames(log) |-> Content(f)]
<1>1. FileNames(log) \subseteq Files
  BY DEF FileNames, Files
<1>2. \A f \in Files : Content(f) \in Contents
  BY DEF Content, Contents, OrPlaceholder, Event, Files
<1>3. /\ "after.html" \in FileNames(log) /\ Content("after.html") = OrPlaceholder(event.html)
      /\ Content("token") = "token" /\ Content("chain") = "chain"
  BY DEF FileNames, Content
<1>4. Timestamped => "token" \in FileNames(log) /\ "chain" \in FileNames(log)
  BY DEF FileNames
<1>5. /\ HasNotification => "notice.txt" \in FileNames(log)
      /\ WasSent => log \in FileNames(log)
  BY DEF FileNames
<1> HIDE DEF Files
<1>6. Pack(log).files = files
  BY PackFields
<1> QED
  BY <1>1, <1>2, <1>3, <1>4, <1>5, <1>6

\* A pack as it is made passes the checks that its manifest promises.
LEMMA PackIsGood ==
  ASSUME NEW log \in {"redacted.csv", "full.csv"}, event \in Event, EventInv, event # None,
         pack' = Pack(log)
  PROVE  PackVerifies'
<1> DEFINE p == pack'
<1>1. /\ p.after = event.html /\ p.stamp = event.stamp
      /\ p.token = IF Timestamped THEN "token" ELSE None
      /\ p.chain = IF Timestamped THEN "chain" ELSE None
      /\ p.notification = NotificationFields(log)
  BY PackFields
<1>2. /\ DOMAIN p.files = FileNames(log)
      /\ "after.html" \in FileNames(log)
      /\ p.files["after.html"] = OrPlaceholder(event.html)
      /\ Timestamped => /\ "token" \in FileNames(log) /\ p.files["token"] = "token"
                        /\ "chain" \in FileNames(log) /\ p.files["chain"] = "chain"
      /\ HasNotification => "notice.txt" \in FileNames(log)
      /\ WasSent => log \in FileNames(log)
  BY FilesOf
<1> HIDE DEF p
<1>3. /\ event.html \in {"page", None} /\ None \notin {"page", "placeholder"}
      /\ event.html = None <=> event.stamp = "not_available_pre_tsa"
  BY NoneAssumption DEF Event, EventInv, Contents
<1>4. Named(p) \subseteq Optional(p)
  <2>1. /\ p.notification.notice \in {None, "notice.txt"}
        /\ p.notification.notice # None => HasNotification
        /\ p.notification.log \in {None, log}
        /\ p.notification.log # None => WasSent
    BY <1>1, NotificationOf DEF WasSent, HasNotification, EventInv
  <2> QED
    BY <1>1, <1>2, <2>1 DEF Named, Optional
<1>5. ContentMatches(p) <=> event.html # None
  BY <1>1, <1>2, <1>3 DEF ContentMatches, Has, OrPlaceholder
<1>6. VerifySh(p) = VerifyPack(p)
  BY <1>1, <1>2, <1>3, <1>5 DEF VerifySh, VerifyPack, Attests, Has, Timestamped
<1>7. VerifyPack(p) = IF p.files["after.html"] = "placeholder" THEN "FAIL"
                      ELSE IF p.stamp = "timestamped" THEN "PASS" ELSE "NO TIMESTAMP"
  BY <1>1, <1>2, <1>3, <1>5 DEF VerifyPack, Attests, Has, Timestamped, OrPlaceholder
<1>8. p.stamp = "timestamped" => VerifyPair(p.files["after.html"], p.files["token"]) = "PASS"
  BY <1>1, <1>2, <1>3 DEF VerifyPair, Attests, Timestamped, OrPlaceholder
<1> QED
  BY <1>4, <1>6, <1>7, <1>8 DEF PackVerifies, p

\* Neither check takes a damaged or incomplete copy of it.
LEMMA PackIsFragile ==
  ASSUME NEW log \in {"redacted.csv", "full.csv"}, event \in Event, EventInv, event # None,
         pack' = Pack(log)
  PROVE  DamageIsFound'
<1> DEFINE p == pack'
<1>1. /\ p.after = event.html /\ p.stamp = event.stamp
      /\ p.token = IF Timestamped THEN "token" ELSE None
  BY PackFields
<1>2. /\ event.html \in {"page", None} /\ None \notin {"damaged"}
      /\ None \notin Files
      /\ Timestamped <=> event.stamp = "timestamped"
  BY NoneAssumption DEF Event, Timestamped, Contents
<1>3. DOMAIN p.files \subseteq Files
  BY FilesOf
<1> SUFFICES ASSUME NEW f \in {"after.html", p.token} \cap DOMAIN p.files, NEW copy \in Copies(p, f)
             PROVE  VerifySh(copy) = "FAIL" /\ VerifyPack(copy) = "FAIL"
  BY DEF DamageIsFound, p
<1>4. /\ copy.after = p.after /\ copy.stamp = p.stamp
      /\ ~Has(copy, f) \/ copy.files[f] = "damaged"
  <2>1. /\ Pack(log) = [p EXCEPT !.files = p.files]
    BY DEF Pack, p
  <2>2. CASE copy = Damaged(p, f)
    BY <2>2 DEF Damaged, Pack, Has, p
  <2>3. CASE copy = Without(p, f)
    BY <2>3 DEF Without, Pack, Has, p
  <2> QED
    BY <2>2, <2>3 DEF Copies
<1> HIDE DEF p
<1>5. CASE f = "after.html"
  <2>1. ~ContentMatches(copy)
    BY <1>1, <1>2, <1>4, <1>5 DEF ContentMatches
  <2> QED
    BY <2>1 DEF VerifySh, VerifyPack
<1>6. CASE f = p.token
  <2>1. f = "token" /\ p.stamp = "timestamped"
    BY <1>1, <1>2, <1>3, <1>6
  <2>2. ~(Has(copy, "token") /\ copy.files["token"] = "token")
    BY <1>4, <2>1
  <2> QED
    BY <1>4, <2>1, <2>2 DEF VerifySh, VerifyPack, Attests
<1> QED
  BY <1>5, <1>6

-----------------------------------------------------------------------------
(* What happens to the event leaves what a pack has said of it true.       *)

LEMMA GapCounts ==
  ASSUME TypeOK, TypeOK',
         \A row \in Subscribers \X Senders : rows[row] \in GapStatuses => rows'[row] \in GapStatuses
  PROVE  /\ HowMany(GapStatuses) \in Nat /\ HowMany(GapStatuses)' \in Nat
         /\ HowMany(GapStatuses) <= HowMany(GapStatuses)'
<1> DEFINE all == Subscribers \X Senders
           old == {row \in all : rows[row] \in GapStatuses}
           new == {row \in all : rows'[row] \in GapStatuses}
<1>1. old \subseteq new /\ new \subseteq all
  OBVIOUS
<1>2. IsFiniteSet(all)
  BY SubscribersAssumption, FS_Product
<1> HIDE DEF all
<1>3. IsFiniteSet(new) /\ IsFiniteSet(old)
  BY <1>1, <1>2, FS_Subset
<1>4. Cardinality(old) <= Cardinality(new)
  BY <1>1, <1>3, FS_Subset
<1>5. Cardinality(old) \in Nat /\ Cardinality(new) \in Nat
  BY <1>3, FS_CardinalityType
<1> QED
  BY <1>4, <1>5 DEF HowMany, GapStatuses, all

\* The event only ever gains.
Gains ==
  /\ event # None =>
       /\ event' # None
       /\ event.stamp = "timestamped" => event'.stamp = "timestamped"
       /\ event.review # None => event'.review = event.review
       /\ event.count # None => event'.count = event.count
       /\ event.window # None => event'.window = event.window
       /\ event'.objections >= event.objections
  /\ \A row \in Subscribers \X Senders : rows[row] \in GapStatuses => rows'[row] \in GapStatuses
  /\ left = 0 => left' = 0

\* A pack that is left alone is as good as it was.
LEMMA PackKept ==
  ASSUME IInv, UNCHANGED pack
  PROVE  PackVerifies' /\ DamageIsFound'
BY DEF IInv, PackVerifies, DamageIsFound

LEMMA PackStays ==
  ASSUME IInv, PackInv, TypeOK', Gains, UNCHANGED pack
  PROVE  PackInv'
<1>2. /\ HowMany(GapStatuses) \in Nat /\ HowMany(GapStatuses)' \in Nat
      /\ HowMany(GapStatuses) <= HowMany(GapStatuses)'
  BY GapCounts DEF IInv, Gains
<1>3. event # None => event.objections \in Nat /\ event'.objections \in Nat
  BY BoundsAssumption DEF IInv, TypeOK, Event, Gains
<1>4. event # None /\ WasSent => WasSent'
  BY DEF Gains, WasSent
<1> SUFFICES ASSUME pack # None PROVE PackInv'
  BY DEF PackInv
<1>5. event # None /\ event' # None
  BY DEF PackInv, Gains
<1>6. /\ pack.stamp = "timestamped" => event'.stamp = "timestamped"
      /\ pack.review # None => event'.review = pack.review
      /\ pack.objection.window # None => event'.window = pack.objection.window
  BY <1>5 DEF PackInv, Gains
<1>7. ASSUME pack.notification.count # None
      PROVE  /\ WasSent'
             /\ event'.count = pack.notification.count
             /\ pack.notification.gap \in Nat
             /\ pack.notification.gap <= HowMany(GapStatuses)'
  <2>1. /\ event.count = pack.notification.count /\ pack.notification.gap \in Nat
        /\ pack.notification.gap <= HowMany(GapStatuses) /\ WasSent
    BY <1>7 DEF PackInv
  <2> QED
    BY <1>2, <1>4, <1>5, <1>7, <2>1 DEF Gains
<1>8. /\ pack.objection.objections = "recorded" => WasSent' /\ event'.objections > 0
      /\ pack.objection.objections = "none recorded" => WasSent' /\ left' = 0
  <2>1. event'.objections >= event.objections /\ (left = 0 => left' = 0)
    BY <1>5 DEF Gains
  <2>2. /\ pack.objection.objections = "recorded" => WasSent /\ event.objections > 0
        /\ pack.objection.objections = "none recorded" => WasSent /\ left = 0
    BY DEF PackInv
  <2>3. event.objections > 0 => event'.objections > 0
    BY <1>3, <1>5, <2>1
  <2> QED
    BY <1>4, <1>5, <2>1, <2>2, <2>3
<1> QED
  BY <1>5, <1>6, <1>7, <1>8 DEF PackInv

\* Nor does a step disturb what is loaded that leaves its fields of the event be.
LEMMA SoloStays ==
  ASSUME SoloInv, UNCHANGED <<opened, tried>>,
         event # None => /\ event' # None
                         /\ event'.stamp = event.stamp /\ event'.review = event.review
  PROVE  SoloInv'
<1>1. ASSUME NEW z \in Sweeps
      PROVE  /\ tried'[z] # None => event' # None /\ event'.stamp \in Due
             /\ tried'[z] \in Stamps => event'.stamp = tried'[z]
  <2>1. tried'[z] = tried[z] /\ (tried[z] \in Stamps => tried[z] # None)
    BY NoneIsNothing
  <2> QED
    BY <2>1 DEF SoloInv
<1>2. ASSUME NEW z \in Tabs, tried'[z] # None
      PROVE  event' # None /\ event'.stamp = "failed" /\ tried'[z] = "failed"
  BY <1>2 DEF SoloInv
<1>3. ASSUME NEW s \in Senders, opened'[s] # None PROVE event' # None /\ event'.review = None
  BY <1>3 DEF SoloInv
<1> QED
  BY <1>1, <1>2, <1>3 DEF SoloInv, Due

LEMMA CaptureIInv ==
  ASSUME IInv, LoadTenant \/ \E status \in {"pending_review", "auto_published"} : Capture(status)
  PROVE  IInv' /\ Gains /\ (SoloInv => SoloInv')
<1>1. event = None /\ UNCHANGED <<growth, days, left, rows, opened, sending, tried, pack, crashes>>
  BY NoneAssumption DEF LoadTenant, Capture, IInv, EventInv
<1>2. check' \in BOOLEAN \cup {None} /\ (check' # None => event' = None)
  BY <1>1 DEF LoadTenant, Capture, IInv, TypeOK
<1>3. ASSUME event' # None
      PROVE  /\ event' \in Event /\ event'.html = "page" /\ event'.stamp = "pending"
             /\ event'.frozen = None /\ event'.count = None /\ event'.window = None
  <2>1. PICK status \in {"pending_review", "auto_published"} : Capture(status)
    BY <1>1, <1>3 DEF LoadTenant
  <2>2. check \in BOOLEAN /\ 0 \in 0 .. MaxObjections
    BY <2>1, BoundsAssumption DEF Capture, IInv, TypeOK
  <2> QED
    BY <2>1, <2>2 DEF Capture, Event, Stamps
<1>4. TypeOK'
  BY <1>1, <1>2, <1>3 DEF IInv, TypeOK
<1>5. \A z \in Sweeps \cup Tabs : tried'[z] = None
  BY <1>1 DEF IInv, EventInv
<1>6. EventInv'
  BY <1>2, <1>3, <1>5, NoneIsNothing DEF EventInv
<1>7. RowsInv'
  BY <1>1, <1>3 DEF IInv, RowsInv, Tried
<1>8. Gains
  BY <1>1 DEF Gains
<1>9. SoloInv => SoloInv'
  BY <1>1, SoloStays
<1> QED
  BY <1>1, <1>4, <1>6, <1>7, <1>8, <1>9, PackKept DEF IInv

\* A step that changes the event in a field that its rows do not hang on.
LEMMA FieldIInv ==
  ASSUME IInv, event # None, event' # None, event' \in Event,
         /\ event'.html = event.html
         /\ event'.frozen = event.frozen /\ event'.count = event.count
         /\ event'.review = event.review /\ event'.window = event.window
         /\ event'.stamp = "not_available_pre_tsa" <=> event.stamp = "not_available_pre_tsa",
         tried' \in [Sweeps \cup Tabs -> Stamps \cup {"listed", None}],
         \A z \in Sweeps \cup Tabs :
           tried'[z] # None => event.html # None /\ tried'[z] # "not_available_pre_tsa",
         UNCHANGED <<growth, days, check, left, rows, opened, sending, pack, crashes>>
  PROVE  IInv'
<1>1. TypeOK'
  BY DEF IInv, TypeOK
<1>2. EventInv'
  BY DEF IInv, EventInv
<1>3. RowsInv'
  BY DEF IInv, RowsInv, Tried
<1> QED
  BY <1>1, <1>2, <1>3, PackKept DEF IInv

\* What is listed or loaded has a digest.
LEMMA LoadIInv ==
  ASSUME IInv, NEW z \in Sweeps \cup Tabs,
         \/ z \in Sweeps /\ (List(z) \/ LoadListed(z))
         \/ z \in Tabs /\ LoadFailed(z)
  PROVE  IInv' /\ Gains /\ (SoloInv => SoloInv')
<1>1. /\ event # None /\ event \in Event /\ event.html # None
      /\ event.stamp \in Stamps \ {"not_available_pre_tsa"}
  <2>1. event # None /\ event.html # None
    <3>1. CASE List(z) \/ LoadFailed(z)
      BY <3>1 DEF List, LoadFailed, Due, IInv, EventInv
    <3>2. CASE LoadListed(z)
      BY <3>2, NoneIsNothing DEF LoadListed, IInv, EventInv
    <3> QED
      BY <3>1, <3>2
  <2> QED
    BY <2>1 DEF IInv, TypeOK, EventInv, Event
<1>2. /\ \E to \in (Stamps \ {"not_available_pre_tsa"}) \cup {"listed"} :
           tried' = [tried EXCEPT ![z] = to]
      /\ UNCHANGED <<growth, days, check, event, left, rows, opened, sending, pack, crashes>>
  BY <1>1 DEF List, LoadListed, LoadFailed
<1>3. PICK to \in (Stamps \ {"not_available_pre_tsa"}) \cup {"listed"} :
        tried' = [tried EXCEPT ![z] = to]
  BY <1>2
<1>4. tried \in [Sweeps \cup Tabs -> Stamps \cup {"listed", None}]
  BY DEF IInv, TypeOK
<1>5. /\ tried' \in [Sweeps \cup Tabs -> Stamps \cup {"listed", None}]
      /\ \A y \in Sweeps \cup Tabs :
           tried'[y] # None => event.html # None /\ tried'[y] # "not_available_pre_tsa"
  BY <1>1, <1>3, <1>4 DEF IInv, EventInv, Stamps
<1>6. IInv'
  BY <1>1, <1>2, <1>5, FieldIInv
<1>7. Gains
  BY <1>1, <1>2, BoundsAssumption DEF Gains, Event
<1>8. ASSUME SoloInv PROVE SoloInv'
  <2>1. CASE z \in Sweeps /\ List(z)
    <3>1. tried' = [tried EXCEPT ![z] = "listed"] /\ event.stamp \in Due /\ "listed" \notin Stamps
      BY <2>1 DEF List, Stamps
    <3> QED
      BY <1>1, <1>2, <1>4, <1>8, <2>1, <3>1, StampersAssumption DEF SoloInv
  <2>2. CASE z \in Sweeps /\ LoadListed(z)
    <3>1. tried' = [tried EXCEPT ![z] = event.stamp] /\ event.stamp \in Due
      BY <1>8, <2>2, NoneIsNothing DEF LoadListed, SoloInv
    <3> QED
      BY <1>1, <1>2, <1>4, <1>8, <2>2, <3>1, StampersAssumption DEF SoloInv
  <2>3. CASE z \in Tabs /\ LoadFailed(z)
    <3>1. tried' = [tried EXCEPT ![z] = "failed"] /\ event.stamp = "failed"
      BY <2>3 DEF LoadFailed
    <3> QED
      BY <1>1, <1>2, <1>4, <1>8, <2>3, <3>1, StampersAssumption DEF SoloInv
  <2> QED
    BY <2>1, <2>2, <2>3
<1> QED
  BY <1>6, <1>7, <1>8

LEMMA StampEvent ==
  ASSUME IInv, NEW z \in Sweeps \cup Tabs, NEW to \in {"retrying", "timestamped", "failed"},
         Stamp(z, to)
  PROVE  /\ event # None /\ event \in Event /\ event' # None /\ event' \in Event
         /\ event' = [event EXCEPT !.stamp = Dirty(tried[z], to, event.stamp)]
         /\ event'.stamp # "not_available_pre_tsa" /\ event.stamp # "not_available_pre_tsa"
         /\ event.html # None
<1>1. tried[z] # None /\ event' = [event EXCEPT !.stamp = Dirty(tried[z], to, event.stamp)]
  BY NoneIsNothing DEF Stamp
<1>2. /\ event # None /\ event \in Event /\ event.html # None
      /\ event.stamp \in Stamps \ {"not_available_pre_tsa"}
  BY <1>1 DEF IInv, TypeOK, EventInv, Event
<1>3. Dirty(tried[z], to, event.stamp) \in Stamps \ {"not_available_pre_tsa"}
  BY <1>2 DEF Dirty, Stamps
<1>4. event' \in Event /\ event' # None
  BY <1>1, <1>2, <1>3, EventAssumption DEF Event
<1> QED
  BY <1>1, <1>2, <1>3, <1>4 DEF Event

LEMMA StampIInv ==
  ASSUME IInv, NEW z \in Sweeps \cup Tabs, NEW to \in {"retrying", "timestamped", "failed"},
         Stamp(z, to)
  PROVE  IInv'
<1>1. /\ event # None /\ event \in Event /\ event' # None /\ event' \in Event
      /\ event' = [event EXCEPT !.stamp = Dirty(tried[z], to, event.stamp)]
      /\ event'.stamp # "not_available_pre_tsa" /\ event.stamp # "not_available_pre_tsa"
      /\ event.html # None
  BY StampEvent
<1>2. /\ tried' = [tried EXCEPT ![z] = None]
      /\ UNCHANGED <<growth, days, check, left, rows, opened, sending, pack, crashes>>
  BY DEF Stamp
<1>3. /\ tried' \in [Sweeps \cup Tabs -> Stamps \cup {"listed", None}]
      /\ \A y \in Sweeps \cup Tabs :
           tried'[y] # None => event.html # None /\ tried'[y] # "not_available_pre_tsa"
  BY <1>2 DEF IInv, TypeOK, EventInv
<1>4. /\ event'.html = event.html
      /\ event'.frozen = event.frozen /\ event'.count = event.count
      /\ event'.review = event.review /\ event'.window = event.window
  BY <1>1 DEF Event
<1> QED
  BY <1>1, <1>2, <1>3, <1>4, FieldIInv

\* Alone, an attempt is of an event that is due and a retry of one that failed.
LEMMA StampAlone ==
  ASSUME OneOfEach, IInv, SoloInv, NEW z \in Sweeps \cup Tabs,
         NEW to \in {"retrying", "timestamped", "failed"}, Stamp(z, to)
  PROVE  Gains /\ SoloInv'
<1>1. /\ event # None /\ event \in Event /\ event' # None
      /\ event' = [event EXCEPT !.stamp = Dirty(tried[z], to, event.stamp)]
  BY StampEvent
<1>2. /\ tried[z] # None /\ tried' = [tried EXCEPT ![z] = None]
      /\ UNCHANGED <<left, rows, opened>>
  BY NoneIsNothing DEF Stamp
<1>3. /\ event.stamp # "timestamped"
      /\ \A y \in Sweeps \cup Tabs : tried[y] # None => y = z
  BY <1>2 DEF SoloInv, OneOfEach, Due
<1>4. \A y \in Sweeps \cup Tabs : tried'[y] = None
  BY <1>2, <1>3 DEF IInv, TypeOK
<1>5. event'.review = event.review /\ event.objections \in Nat /\ event'.objections = event.objections
  BY <1>1, BoundsAssumption DEF Event
<1>6. SoloInv'
  BY <1>1, <1>2, <1>4, <1>5, NoneIsNothing DEF SoloInv
<1>7. Gains
  BY <1>1, <1>2, <1>3, <1>5 DEF Gains, Event
<1> QED
  BY <1>6, <1>7

\* A decision, or an objection.
LEMMA FieldsIInv ==
  ASSUME IInv, (\E to \in {"approved", "rejected"} : Decide(to)) \/ RecordObjection
  PROVE  IInv' /\ Gains /\ (SoloInv => SoloInv')
<1>1. /\ event \in Event /\ event # None
      /\ UNCHANGED <<growth, days, check, left, rows, opened, sending, tried, pack, crashes>>
  BY DEF Decide, RecordObjection, IInv, TypeOK
<1>2. /\ event' \in Event /\ event' # None /\ event'.objections >= event.objections
      /\ event'.html = event.html /\ event'.stamp = event.stamp
      /\ event'.frozen = event.frozen /\ event'.count = event.count
      /\ event'.review = event.review /\ event'.window = event.window
  <2>1. ASSUME NEW to \in {"approved", "rejected"}, Decide(to)
        PROVE  event' = [event EXCEPT !.status = to]
    BY <2>1 DEF Decide
  <2>2. ASSUME RecordObjection
        PROVE  /\ event' = [event EXCEPT !.objections = @ + 1]
               /\ event.objections \in Nat /\ event.objections < MaxObjections
    BY <1>1, <2>2, BoundsAssumption DEF RecordObjection, Event
  <2>3. event.objections \in Nat
    BY <1>1, BoundsAssumption DEF Event
  <2>4. CASE \E to \in {"approved", "rejected"} : Decide(to)
    <3>1. PICK to \in {"approved", "rejected"} : event' = [event EXCEPT !.status = to]
      BY <2>1, <2>4
    <3> QED
      BY <1>1, <2>3, <3>1, EventAssumption DEF Event
  <2>5. CASE RecordObjection
    BY <1>1, <2>2, <2>5, EventAssumption, BoundsAssumption DEF Event
  <2> QED
    BY <2>4, <2>5
<1>3. /\ tried' \in [Sweeps \cup Tabs -> Stamps \cup {"listed", None}]
      /\ \A y \in Sweeps \cup Tabs :
           tried'[y] # None => event.html # None /\ tried'[y] # "not_available_pre_tsa"
  BY <1>1 DEF IInv, TypeOK, EventInv
<1>4. IInv'
  BY <1>1, <1>2, <1>3, FieldIInv
<1>5. Gains
  BY <1>1, <1>2 DEF Gains
<1>6. SoloInv => SoloInv'
  BY <1>1, <1>2, SoloStays
<1> QED
  BY <1>4, <1>5, <1>6

LEMMA OpenIInv ==
  ASSUME IInv, NEW s \in Senders, OpenRelease(s)
  PROVE  IInv' /\ Gains /\ (SoloInv => SoloInv')
<1>1. /\ event # None /\ event.review = None /\ event.count = None
      /\ days \in Windows /\ opened' = [opened EXCEPT ![s] = days]
      /\ opened \in [Senders -> Windows \cup {None}]
      /\ UNCHANGED <<growth, days, check, event, left, rows, sending, tried, pack, crashes>>
  BY DEF OpenRelease, IInv, TypeOK, EventInv
<1>2. TypeOK'
  BY <1>1 DEF IInv, TypeOK
<1>3. EventInv'
  BY <1>1 DEF IInv, EventInv
<1>4. RowsInv'
  BY <1>1 DEF IInv, RowsInv, Tried
<1>5. Gains
  BY <1>1, BoundsAssumption DEF Gains, IInv, TypeOK, Event
<1>6. SoloInv => SoloInv'
  BY <1>1 DEF SoloInv
<1> QED
  BY <1>1, <1>2, <1>3, <1>4, <1>5, <1>6, PackKept DEF IInv

LEMMA FreezeEvent ==
  ASSUME IInv, NEW s \in Senders, NEW to \in SUBSET Subscribers, Freeze(s, to)
  PROVE  /\ event # None /\ event \in Event
         /\ opened[s] \in Windows /\ opened[s] \in Nat /\ opened[s] # 0 /\ opened[s] # None
         /\ Cardinality(to) # None
         /\ event' \in Event /\ event' # None
         /\ event'.html = event.html /\ event'.stamp = event.stamp
         /\ event'.frozen = opened[s] /\ event'.count = Cardinality(to)
         /\ event'.review = "released" /\ event'.objections = event.objections
<1>1. /\ event # None /\ event \in Event
      /\ event' = [event EXCEPT !.review = "released", !.frozen = opened[s],
                                !.count = Cardinality(to),
                                !.window = IF to = {} THEN @ ELSE opened[s]]
  BY DEF Freeze, IInv, TypeOK, RowsInv
<1>2. opened[s] \in Windows /\ opened[s] \in Nat /\ opened[s] # 0 /\ opened[s] # None
  BY BoundsAssumption, NoneAssumption DEF Freeze, IInv, TypeOK
<1>3. Cardinality(to) \in 0 .. Cardinality(Subscribers) /\ Cardinality(to) # None
  <2>1. IsFiniteSet(to) /\ Cardinality(to) <= Cardinality(Subscribers)
    BY SubscribersAssumption, FS_Subset
  <2>2. Cardinality(to) \in Nat /\ Cardinality(Subscribers) \in Nat
    BY <2>1, SubscribersAssumption, FS_CardinalityType
  <2>3. Cardinality(to) # None
    BY <2>2, NoneIsNothing
  <2> QED
    BY <2>1, <2>2, <2>3
<1>4. event' \in Event /\ event' # None
  BY <1>1, <1>2, <1>3, EventAssumption DEF Event
<1>5. /\ event'.html = event.html /\ event'.stamp = event.stamp
      /\ event'.frozen = opened[s] /\ event'.count = Cardinality(to)
      /\ event'.review = "released" /\ event'.objections = event.objections
  BY <1>1 DEF Event
<1> QED
  BY <1>1, <1>2, <1>3, <1>4, <1>5

LEMMA FreezeIInv ==
  ASSUME IInv, NEW s \in Senders, NEW to \in SUBSET Subscribers, Freeze(s, to) PROVE IInv'
<1>1. /\ opened' = [opened EXCEPT ![s] = None] /\ opened[s] # None
      /\ left' = IF to = {} THEN left ELSE opened[s]
      /\ sending' = [sending EXCEPT ![s] = to]
      /\ UNCHANGED <<growth, days, check, rows, tried, pack, crashes>>
      /\ opened \in [Senders -> Windows \cup {None}] /\ sending \in [Senders -> SUBSET Subscribers]
  BY DEF Freeze, IInv, TypeOK
<1>2. /\ event # None /\ event \in Event
      /\ opened[s] \in Windows /\ opened[s] \in Nat /\ opened[s] # 0 /\ opened[s] # None
      /\ Cardinality(to) # None
      /\ event' \in Event /\ event' # None
      /\ event'.html = event.html /\ event'.stamp = event.stamp
      /\ event'.frozen = opened[s] /\ event'.count = Cardinality(to)
      /\ event'.review = "released"
  BY FreezeEvent
<1>3. Tried(s) = {} /\ sending[s] = {} /\ \A t \in Senders : Tried(t)' = Tried(t)
  BY <1>1 DEF IInv, RowsInv, Tried
<1>4. TypeOK'
  <2>1. left' \in Nat \cup {None}
    BY <1>1, <1>2 DEF IInv, TypeOK
  <2>2. opened' \in [Senders -> Windows \cup {None}] /\ sending' \in [Senders -> SUBSET Subscribers]
    BY <1>1
  <2> QED
    BY <1>1, <1>2, <2>1, <2>2 DEF IInv, TypeOK
<1>5. EventInv'
  BY <1>1, <1>2, NoneIsNothing DEF IInv, EventInv
<1>6. RowsInv'
  <2>1. Tried(s)' \cup sending'[s] = to
    BY <1>1, <1>3
  <2>2. \A t \in Senders : /\ opened'[t] # None => Tried(t)' = {} /\ sending'[t] = {}
                           /\ sending'[t] # {} => Tried(t)' = {}
    BY <1>1, <1>3 DEF IInv, RowsInv
  <2> QED
    BY <1>2, <2>1, <2>2 DEF RowsInv
<1> QED
  BY <1>1, <1>4, <1>5, <1>6, PackKept DEF IInv

\* Alone, a release is the first one of its event.
LEMMA FreezeAlone ==
  ASSUME OneOfEach, IInv, SoloInv, NEW s \in Senders, NEW to \in SUBSET Subscribers, Freeze(s, to)
  PROVE  Gains /\ SoloInv'
<1>1. /\ opened' = [opened EXCEPT ![s] = None] /\ opened[s] # None
      /\ left' = IF to = {} THEN left ELSE opened[s]
      /\ UNCHANGED <<rows, tried>>
      /\ opened \in [Senders -> Windows \cup {None}]
  BY DEF Freeze, IInv, TypeOK
<1>2. /\ event # None /\ event \in Event /\ opened[s] # 0
      /\ event' # None /\ event'.stamp = event.stamp /\ event'.objections = event.objections
  BY FreezeEvent
<1>3. event.review = None /\ event.count = None /\ event.window = None /\ left = None
  BY <1>1, <1>2 DEF SoloInv, IInv, EventInv, RowsInv
<1>4. \A t \in Senders : opened'[t] = None
  BY <1>1 DEF OneOfEach
<1>5. SoloInv'
  BY <1>1, <1>2, <1>4 DEF SoloInv
<1>6. Gains
  <2>1. event.objections \in Nat
    BY <1>2, BoundsAssumption DEF Event
  <2>2. left # 0
    BY <1>3, NoneIsNothing
  <2> QED
    BY <1>1, <1>2, <1>3, <2>1, <2>2 DEF Gains
<1> QED
  BY <1>5, <1>6

\* The rows of a send are its first ones; a failed one is a gap.
LEMMA SendIInv ==
  ASSUME IInv, NEW s \in Senders, NEW failed \in SUBSET sending[s], Send(s, failed)
  PROVE  IInv' /\ Gains /\ (SoloInv => SoloInv')
<1>1. /\ sending[s] # {} /\ sending' = [sending EXCEPT ![s] = {}]
      /\ rows' = [row \in Subscribers \X Senders |->
           IF row \notin sending[s] \X {s} THEN rows[row]
           ELSE IF row[1] \in failed THEN "send_failed" ELSE "queued"]
      /\ sending \in [Senders -> SUBSET Subscribers]
      /\ UNCHANGED <<growth, days, check, event, left, opened, tried, pack, crashes>>
  BY DEF Send, IInv, TypeOK
<1>2. /\ Tried(s) = {} /\ opened[s] = None /\ event # None /\ event.count # None
      /\ sending[s] \subseteq Subscribers
  BY <1>1 DEF IInv, RowsInv
<1>3. rows' \in [Subscribers \X Senders -> Delivery \cup {None}]
  BY <1>1 DEF IInv, TypeOK, Delivery
<1>4. /\ \A r \in Subscribers, t \in Senders :
           rows'[<<r, t>>] = IF t # s \/ r \notin sending[s] THEN rows[<<r, t>>]
                             ELSE IF r \in failed THEN "send_failed" ELSE "queued"
      /\ \A r \in Subscribers : rows[<<r, s>>] = None
  BY <1>1, <1>2 DEF Tried
<1>5. /\ Tried(s)' = sending[s]
      /\ \A t \in Senders \ {s} : Tried(t)' = Tried(t) /\ sending'[t] = sending[t]
      /\ sending'[s] = {}
  BY <1>1, <1>2, <1>4, NoneIsNothing DEF Tried, Delivery
<1>6. TypeOK'
  BY <1>1, <1>3 DEF IInv, TypeOK
<1>7. EventInv'
  BY <1>1 DEF IInv, EventInv
<1>8. RowsInv'
  <2>1. \A t \in Senders : Tried(t)' \cup sending'[t] = Tried(t) \cup sending[t]
    BY <1>2, <1>5
  <2>2. \A t \in Senders : /\ opened'[t] # None => Tried(t)' = {} /\ sending'[t] = {}
                           /\ sending'[t] # {} => Tried(t)' = {}
    BY <1>1, <1>2, <1>5 DEF IInv, RowsInv
  <2> QED
    BY <1>1, <1>2, <2>1, <2>2 DEF IInv, RowsInv
<1>9. Gains
  <2>1. event'.objections >= event.objections
    BY <1>1, <1>2, BoundsAssumption DEF IInv, TypeOK, Event
  <2>2. None \notin GapStatuses
    BY NoneIsNothing DEF GapStatuses, Delivery
  <2>3. ASSUME NEW row \in Subscribers \X Senders, rows[row] \in GapStatuses
        PROVE  rows'[row] \in GapStatuses
    <3>1. row \notin sending[s] \X {s}
      BY <1>2, <1>4, <2>2, <2>3
    <3> QED
      BY <1>1, <2>3, <3>1
  <2> QED
    BY <1>1, <2>1, <2>3 DEF Gains
<1>10. SoloInv => SoloInv'
  BY <1>1, SoloStays
<1> QED
  BY <1>1, <1>6, <1>7, <1>8, <1>9, <1>10, PackKept DEF IInv

LEMMA CrashIInv == ASSUME IInv, Crash PROVE IInv' /\ Gains /\ SoloInv'
<1>1. /\ check' = None
      /\ opened' = [s \in Senders |-> None] /\ sending' = [s \in Senders |-> {}]
      /\ tried' = [z \in Sweeps \cup Tabs |-> None]
      /\ crashes \in Nat /\ crashes' = crashes + 1 /\ crashes' \in 0 .. MaxCrashes
      /\ UNCHANGED <<growth, days, event, left, rows, pack>>
  BY BoundsAssumption DEF Crash, IInv, TypeOK
<1>2. TypeOK'
  BY <1>1 DEF IInv, TypeOK
<1>3. EventInv'
  BY <1>1 DEF IInv, EventInv
<1>4. RowsInv'
  BY <1>1 DEF IInv, RowsInv, Tried
<1>5. Gains
  BY <1>1, BoundsAssumption DEF Gains, IInv, TypeOK, Event
<1>6. SoloInv'
  BY <1>1, NoneIsNothing DEF SoloInv
<1> QED
  BY <1>1, <1>2, <1>3, <1>4, <1>5, <1>6, PackKept DEF IInv

LEMMA ReportIInv ==
  ASSUME IInv, NEW row \in Subscribers \X Senders, NEW to \in Delivery, Report(row, to)
  PROVE  IInv' /\ Gains /\ (SoloInv => SoloInv')
<1>1. /\ rows' = [rows EXCEPT ![row] = to]
      /\ rows[row] \in Delivery /\ (rows[row] \in GapStatuses => to \in GapStatuses)
      /\ UNCHANGED <<growth, days, check, event, left, opened, sending, tried, pack, crashes>>
  BY DEF Report, Delivery, GapStatuses
<1>2. TypeOK'
  BY <1>1 DEF IInv, TypeOK
<1>3. \A s \in Senders : Tried(s)' = Tried(s)
  BY <1>1, NoneIsNothing DEF IInv, TypeOK, Tried
<1>4. EventInv'
  BY <1>1 DEF IInv, EventInv
<1>5. RowsInv'
  BY <1>1, <1>3 DEF IInv, RowsInv
<1>6. \A q \in Subscribers \X Senders : rows[q] \in GapStatuses => rows'[q] \in GapStatuses
  BY <1>1 DEF IInv, TypeOK
<1>7. event # None => event'.objections >= event.objections
  BY <1>1, BoundsAssumption DEF IInv, TypeOK, Event
<1>8. Gains
  BY <1>1, <1>6, <1>7 DEF Gains
<1>9. SoloInv => SoloInv'
  BY <1>1, SoloStays
<1> QED
  BY <1>1, <1>2, <1>4, <1>5, <1>8, <1>9, PackKept DEF IInv

\* The tenant's settings, its plan and the calendar.
LEMMA OutsideIInv ==
  ASSUME IInv, (\E new \in Windows : SetWindow(new)) \/ ChangePlan \/ PassDay
  PROVE  IInv' /\ Gains /\ (SoloInv => SoloInv')
<1>1. UNCHANGED <<check, event, rows, opened, sending, tried, pack, crashes>>
  BY DEF SetWindow, ChangePlan, PassDay
<1>2. /\ growth' \in BOOLEAN /\ days' \in Windows /\ left' \in Nat \cup {None}
      /\ left = None => left' = None
      /\ left = 0 => left' = 0
  <2>1. growth \in BOOLEAN /\ days \in Windows /\ left \in Nat \cup {None}
    BY DEF IInv, TypeOK
  <2>2. CASE \E new \in Windows : SetWindow(new)
    BY <2>1, <2>2 DEF SetWindow
  <2>3. CASE ChangePlan
    BY <2>1, <2>3 DEF ChangePlan
  <2>4. CASE PassDay
    BY <2>1, <2>4 DEF PassDay
  <2> QED
    BY <2>2, <2>3, <2>4
<1>3. TypeOK'
  BY <1>1, <1>2 DEF IInv, TypeOK
<1>4. EventInv'
  BY <1>1 DEF IInv, EventInv
<1>5. RowsInv'
  BY <1>1, <1>2 DEF IInv, RowsInv, Tried
<1>6. event # None => event'.objections >= event.objections
  BY <1>1, BoundsAssumption DEF IInv, TypeOK, Event
<1>7. Gains
  BY <1>1, <1>2, <1>6 DEF Gains
<1>8. SoloInv => SoloInv'
  BY <1>1, SoloStays
<1> QED
  BY <1>1, <1>3, <1>4, <1>5, <1>7, <1>8, PackKept DEF IInv

LEMMA StatusOf ==
  ASSUME IInv, event # None
  PROVE  /\ ObjectionStatus = "recorded" => WasSent /\ event.objections > 0
         /\ ObjectionStatus = "none recorded" => WasSent /\ event.objections = 0 /\ left = 0
         /\ WasSent /\ event.objections > 0 => ObjectionStatus = "recorded"
         /\ WasSent /\ left = 0 => ObjectionStatus # "open"
<1>1. event.objections \in Nat
  BY BoundsAssumption DEF IInv, TypeOK, Event
<1>2. CASE ~WasSent
  BY <1>2, NoneIsNothing DEF ObjectionStatus
<1>3. CASE WasSent /\ event.objections > 0
  BY <1>1, <1>3 DEF ObjectionStatus
<1>4. CASE WasSent /\ event.objections = 0 /\ left # 0
  BY <1>1, <1>4 DEF ObjectionStatus
<1>5. CASE WasSent /\ event.objections = 0 /\ left = 0
  BY <1>1, <1>5 DEF ObjectionStatus
<1>6. event.objections > 0 \/ event.objections = 0
  BY <1>1
<1> QED
  BY <1>2, <1>3, <1>4, <1>5, <1>6

LEMMA DownloadIInv ==
  ASSUME IInv, NEW log \in {"redacted.csv", "full.csv"}, Download(log)
  PROVE  IInv' /\ (SoloInv => SoloInv')
<1>1. /\ event # None /\ event \in Event /\ EventInv /\ pack' = Pack(log)
      /\ UNCHANGED <<growth, days, check, event, left, rows, opened, sending, tried, crashes>>
  BY DEF Download, IInv, TypeOK
<1>2. PackVerifies' /\ DamageIsFound'
  BY <1>1, PackIsGood, PackIsFragile
<1>3. TypeOK'
  BY <1>1, FilesOf DEF IInv, TypeOK
<1>4. EventInv'
  BY <1>1 DEF IInv, EventInv
<1>5. RowsInv'
  BY <1>1 DEF IInv, RowsInv, Tried
<1>6. SoloInv => SoloInv'
  BY <1>1, SoloStays
<1> QED
  BY <1>2, <1>3, <1>4, <1>5, <1>6 DEF IInv

\* A pack says no less than the one before it.
LEMMA DownloadAlone ==
  ASSUME IInv, IInv', PackInv, NEW log \in {"redacted.csv", "full.csv"}, Download(log)
  PROVE  PackInv' /\ Stands
<1>1. /\ event # None /\ event \in Event /\ pack' = Pack(log)
      /\ UNCHANGED <<event, left, rows>>
  BY DEF Download, IInv, TypeOK
<1>2. HowMany(GapStatuses) \in Nat /\ HowMany(GapStatuses)' = HowMany(GapStatuses)
  BY <1>1, GapCounts DEF IInv, HowMany
<1>3. /\ pack'.stamp = event.stamp /\ pack'.review = event.review
      /\ pack'.notification.count # None => WasSent
      /\ WasSent => /\ pack'.notification.count = event.count
                    /\ pack'.notification.gap = HowMany(GapStatuses)
      /\ pack'.objection.window = event.window
      /\ pack'.objection.objections = ObjectionStatus
  <2>1. /\ pack'.stamp = event.stamp /\ pack'.review = event.review
        /\ pack'.notification = NotificationFields(log) /\ pack'.objection = WindowFields
    BY <1>1, PackFields
  <2> QED
    BY <2>1, NotificationOf, WindowOf
<1>4. WasSent' = WasSent
  BY <1>1 DEF WasSent
<1>5. PackInv'
  <2>1. /\ pack'.objection.objections = "recorded" => WasSent /\ event.objections > 0
        /\ pack'.objection.objections = "none recorded" => WasSent /\ left = 0
    BY <1>1, <1>3, StatusOf
  <2>2. pack'.notification.count # None => pack'.notification.gap <= HowMany(GapStatuses)'
    BY <1>2, <1>3
  <2> QED
    BY <1>1, <1>2, <1>3, <1>4, <2>1, <2>2 DEF PackInv
<1>6. Stands
  <2> SUFFICES ASSUME pack # None PROVE Stands
    BY DEF Stands
  <2>1. /\ pack.stamp = "timestamped" => pack'.stamp = "timestamped"
        /\ pack.review # None => pack'.review = pack.review
        /\ pack.objection.window # None => pack'.objection.window = pack.objection.window
    BY <1>3 DEF PackInv
  <2>2. ASSUME pack.notification.count # None
        PROVE  /\ pack'.notification.count = pack.notification.count
               /\ pack'.notification.gap >= pack.notification.gap
    <3>1. /\ event.count = pack.notification.count /\ pack.notification.gap \in Nat
          /\ pack.notification.gap <= HowMany(GapStatuses) /\ WasSent
      BY <2>2 DEF PackInv
    <3>2. pack'.notification.count = event.count
      BY <1>3, <3>1
    <3> QED
      BY <1>2, <1>3, <3>1, <3>2
  <2>3. /\ pack.objection.objections = "recorded" => pack'.objection.objections = "recorded"
        /\ pack.objection.objections = "none recorded" => pack'.objection.objections # "open"
    BY <1>1, <1>3, StatusOf DEF PackInv
  <2> QED
    BY <2>1, <2>2, <2>3 DEF Stands
<1> QED
  BY <1>5, <1>6

-----------------------------------------------------------------------------

\* Steps that keep the event's promises whoever else is at work.
Plain ==
  \/ LoadTenant \/ \E status \in {"pending_review", "auto_published"} : Capture(status)
  \/ \E z \in Sweeps : List(z) \/ LoadListed(z)
  \/ \E z \in Tabs : LoadFailed(z)
  \/ (\E to \in {"approved", "rejected"} : Decide(to)) \/ RecordObjection
  \/ \E s \in Senders : OpenRelease(s) \/ \E failed \in SUBSET sending[s] : Send(s, failed)
  \/ Crash
  \/ \E row \in Subscribers \X Senders, to \in Delivery : Report(row, to)
  \/ (\E new \in Windows : SetWindow(new)) \/ ChangePlan \/ PassDay

LEMMA NextCases ==
  ASSUME Next
  PROVE  \/ Plain
         \/ \E z \in Sweeps \cup Tabs, to \in {"retrying", "timestamped", "failed"} : Stamp(z, to)
         \/ \E s \in Senders : \E to \in SUBSET Subscribers : Freeze(s, to)
         \/ \E log \in {"redacted.csv", "full.csv"} : Download(log)
BY DEF Next, Plain

LEMMA PlainStep ==
  ASSUME IInv, Plain
  PROVE  IInv' /\ Gains /\ (SoloInv => SoloInv') /\ UNCHANGED pack
<1>1. CASE LoadTenant \/ \E status \in {"pending_review", "auto_published"} : Capture(status)
  BY <1>1, CaptureIInv DEF LoadTenant, Capture
<1>2. CASE (\E z \in Sweeps : List(z) \/ LoadListed(z)) \/ \E z \in Tabs : LoadFailed(z)
  <2>1. PICK z \in Sweeps \cup Tabs : \/ z \in Sweeps /\ (List(z) \/ LoadListed(z))
                                      \/ z \in Tabs /\ LoadFailed(z)
    BY <1>2
  <2> QED
    BY <2>1, LoadIInv DEF List, LoadListed, LoadFailed
<1>3. CASE (\E to \in {"approved", "rejected"} : Decide(to)) \/ RecordObjection
  BY <1>3, FieldsIInv DEF Decide, RecordObjection
<1>4. ASSUME NEW s \in Senders, OpenRelease(s)
      PROVE  IInv' /\ Gains /\ (SoloInv => SoloInv') /\ UNCHANGED pack
  BY <1>4, OpenIInv DEF OpenRelease
<1>5. ASSUME NEW s \in Senders, NEW failed \in SUBSET sending[s], Send(s, failed)
      PROVE  IInv' /\ Gains /\ (SoloInv => SoloInv') /\ UNCHANGED pack
  BY <1>5, SendIInv DEF Send
<1>6. CASE Crash
  BY <1>6, CrashIInv DEF Crash
<1>7. ASSUME NEW row \in Subscribers \X Senders, NEW to \in Delivery, Report(row, to)
      PROVE  IInv' /\ Gains /\ (SoloInv => SoloInv') /\ UNCHANGED pack
  BY <1>7, ReportIInv DEF Report
<1>8. CASE (\E new \in Windows : SetWindow(new)) \/ ChangePlan \/ PassDay
  BY <1>8, OutsideIInv DEF SetWindow, ChangePlan, PassDay
<1> QED
  BY <1>1, <1>2, <1>3, <1>4, <1>5, <1>6, <1>7, <1>8 DEF Plain

LEMMA StutterStep ==
  ASSUME IInv, UNCHANGED vars
  PROVE  IInv' /\ Gains /\ (SoloInv => SoloInv') /\ UNCHANGED pack
<1>1. event # None => event'.objections >= event.objections
  BY BoundsAssumption DEF vars, IInv, TypeOK, Event
<1>2. TypeOK'
  BY DEF vars, IInv, TypeOK
<1>3. EventInv'
  BY DEF vars, IInv, EventInv
<1>4. RowsInv'
  BY DEF vars, IInv, RowsInv, Tried
<1>5. Gains
  BY <1>1 DEF vars, Gains
<1>6. SoloInv => SoloInv'
  BY SoloStays DEF vars
<1> QED
  BY <1>2, <1>3, <1>4, <1>5, <1>6, PackKept DEF vars, IInv

LEMMA NextIInv == IInv /\ [Next]_vars => IInv'
<1> SUFFICES ASSUME IInv, [Next]_vars PROVE IInv'
  OBVIOUS
<1> QED
  BY StutterStep, NextCases, PlainStep, StampIInv, FreezeIInv, DownloadIInv

\* Alone, each step leaves what a pack has said standing.
LEMMA NextAlone == OneOfEach /\ IInv /\ AloneInv /\ [Next]_vars => AloneInv' /\ [Stands]_vars
<1> SUFFICES ASSUME OneOfEach, IInv, SoloInv, PackInv, [Next]_vars
             PROVE  AloneInv' /\ [Stands]_vars
  BY DEF AloneInv
<1>1. TypeOK' /\ IInv'
  BY NextIInv DEF IInv
<1>2. ASSUME Gains, SoloInv', UNCHANGED pack PROVE AloneInv' /\ Stands
  <2>1. PackInv'
    BY <1>1, <1>2, PackStays
  <2>2. Stands
    <3> SUFFICES ASSUME pack # None PROVE Stands
      BY DEF Stands
    <3>1. pack.notification.count # None => pack.notification.gap \in Nat
      BY DEF PackInv
    <3>2. pack.notification.count # None => pack.notification.gap >= pack.notification.gap
      BY <3>1
    <3>3. pack.objection.objections = "none recorded" => pack.objection.objections # "open"
      OBVIOUS
    <3> QED
      BY <1>2, <3>2, <3>3 DEF Stands
  <2> QED
    BY <1>2, <2>1, <2>2 DEF AloneInv
<1>3. CASE UNCHANGED vars
  BY <1>2, <1>3, StutterStep
<1>4. CASE Plain
  BY <1>2, <1>4, PlainStep
<1>5. ASSUME NEW z \in Sweeps \cup Tabs, NEW to \in {"retrying", "timestamped", "failed"},
             Stamp(z, to)
      PROVE  AloneInv' /\ Stands
  BY <1>2, <1>5, StampAlone DEF Stamp
<1>6. ASSUME NEW s \in Senders, NEW to \in SUBSET Subscribers, Freeze(s, to)
      PROVE  AloneInv' /\ Stands
  BY <1>2, <1>6, FreezeAlone DEF Freeze
<1>7. ASSUME NEW log \in {"redacted.csv", "full.csv"}, Download(log) PROVE AloneInv' /\ Stands
  BY <1>1, <1>7, DownloadIInv, DownloadAlone DEF AloneInv
<1> QED
  BY <1>3, <1>4, <1>5, <1>6, <1>7, NextCases

\* The invariant holds whatever happens to the event between two downloads.
THEOREM Invariance == Spec => []IInv
BY InitIInv, NextIInv, PTL DEF Spec

-----------------------------------------------------------------------------

\* Every variable keeps its type.
THEOREM TypeCorrect == Spec => []TypeOK
<1>1. IInv => TypeOK
  BY DEF IInv
<1> QED
  BY <1>1, Invariance, PTL

\* Both checks of a pack come to the same verdict, that of its timestamp_status,
\* and every file its manifest names is there.
THEOREM PacksVerify == Spec => []PackVerifies
<1>1. IInv => PackVerifies
  BY DEF IInv
<1> QED
  BY <1>1, Invariance, PTL

\* Neither check passes a pack whose evidence has been damaged or lost.
THEOREM DamageAlwaysFound == Spec => []DamageIsFound
<1>1. IInv => DamageIsFound
  BY DEF IInv
<1> QED
  BY <1>1, Invariance, PTL

\* "No objection recorded" is said of a notice that was sent, after its window,
\* however many sends overlap.
THEOREM SilenceIsOfASentNotice == Spec => []NoFalseNegative
<1>1. IInv => NoFalseNegative
  <2> SUFFICES ASSUME IInv, event # None, ObjectionStatus = "none recorded"
               PROVE  /\ left = 0 /\ event.objections = 0 /\ event.count > 0
                      /\ crashes = 0 /\ (\A s \in Senders : sending[s] = {}) =>
                           Cardinality(Attempted) >= event.count
    BY DEF NoFalseNegative
  <2>1. WasSent /\ event.objections = 0 /\ left = 0
    BY StatusOf
  <2>2. event.count # None /\ event.count \in Nat /\ event.count > 0
    <3>1. Cardinality(Subscribers) \in Nat
      BY SubscribersAssumption, FS_CardinalityType
    <3>2. event.count \in 0 .. Cardinality(Subscribers) \cup {None}
      BY DEF IInv, TypeOK, Event
    <3>3. event.count # None /\ event.count # 0
      BY <2>1 DEF WasSent
    <3>4. event.count \in 0 .. Cardinality(Subscribers)
      BY <3>2, <3>3
    <3>5. event.count \in Nat /\ event.count > 0
      BY <3>1, <3>3, <3>4, PositiveCount
    <3> QED
      BY <3>3, <3>5
  <2>3. ASSUME crashes = 0, \A s \in Senders : sending[s] = {}
        PROVE  Cardinality(Attempted) >= event.count
    <3>1. PICK s \in Senders : Cardinality(Tried(s) \cup sending[s]) = event.count
      BY <2>2, <2>3 DEF IInv, RowsInv
    <3>2. Tried(s) \cup sending[s] = Tried(s) /\ Tried(s) \subseteq Attempted
      BY <2>3 DEF Tried, Attempted
    <3>3. IsFiniteSet(Attempted)
      BY SubscribersAssumption, FS_Subset DEF Attempted
    <3>4. Cardinality(Tried(s)) <= Cardinality(Attempted) /\ Cardinality(Attempted) \in Nat
      BY <3>2, <3>3, FS_Subset, FS_CardinalityType
    <3> QED
      BY <2>2, <3>1, <3>2, <3>4
  <2> QED
    BY <2>1, <2>2, <2>3
<1> QED
  BY <1>1, Invariance, PTL

\* Where no two sends, no two sweeps and no two retries by hand overlap, no pack
\* takes back what an earlier one has stated.
THEOREM PacksAgree == OneOfEach => (Spec => StatementsStand)
<1> SUFFICES ASSUME OneOfEach PROVE Spec => StatementsStand
  OBVIOUS
<1>1. IInv /\ AloneInv /\ [Next]_vars => AloneInv' /\ [Stands]_vars
  BY NextAlone
<1> QED
  BY <1>1, InitIInv, Invariance, PTL DEF Spec, StatementsStand

\* The check has begun on a plan with packs, or the change says it did.
Earned == crashes = 0 => (event = None /\ check = TRUE) \/ (event # None /\ event.entitled)

\* What was earned by a check can be exported whatever the plan becomes.
THEOREM EarnedForEver == Spec => EarnedIsKept
<1>1. IInv /\ check = TRUE => Earned
  BY NoneAssumption DEF IInv, EventInv, Earned
<1>2. IInv /\ Earned /\ [Next]_vars => Earned'
  <2> SUFFICES ASSUME IInv, Earned, [Next]_vars, crashes' = 0 PROVE Earned'
    BY DEF Earned
  <2>1. ~Crash
    BY BoundsAssumption DEF Crash, IInv, TypeOK
  <2>2. crashes = 0
    BY <2>1 DEF Next, LoadTenant, Capture, List, LoadListed, LoadFailed, Stamp, Decide,
                OpenRelease, Freeze, Send, Report, RecordObjection, SetWindow, ChangePlan,
                PassDay, Download, vars
  <2>3. CASE event = None /\ check = TRUE
    <3>1. check # None /\ event = None
      BY <2>3, NoneAssumption
    <3>2. /\ \A z \in Sweeps \cup Tabs : tried[z] = None
          /\ \A s \in Senders : opened[s] = None
      BY <2>3 DEF IInv, EventInv, RowsInv
    <3>3. \/ \E status \in {"pending_review", "auto_published"} : Capture(status)
          \/ UNCHANGED <<event, check>>
      BY <2>1, <3>1, <3>2, NoneIsNothing DEF Next, LoadTenant, List, LoadListed, LoadFailed, Stamp,
         Decide, OpenRelease, Freeze, Send, Report, RecordObjection, SetWindow, ChangePlan,
         PassDay, Download, vars
    <3>4. ASSUME NEW status \in {"pending_review", "auto_published"}, Capture(status)
          PROVE  event' # None /\ event'.entitled
      <4>1. event' \in Event
        BY <2>3, <3>4, BoundsAssumption DEF Capture, Event, Stamps
      <4> QED
        BY <2>3, <3>4, <4>1, EventAssumption DEF Capture
    <3> QED
      BY <2>3, <3>3, <3>4 DEF Earned
  <2>4. CASE event # None /\ event.entitled
    <3>1. event \in Event /\ check = None
      BY <2>4, NoneAssumption DEF IInv, TypeOK, EventInv
    <3>2. \/ UNCHANGED event
          \/ \E z \in Sweeps \cup Tabs, to \in {"retrying", "timestamped", "failed"} : Stamp(z, to)
          \/ \E to \in {"approved", "rejected"} : Decide(to)
          \/ \E s \in Senders : \E to \in SUBSET Subscribers : Freeze(s, to)
          \/ RecordObjection
      BY <2>4, <3>1 DEF Next, LoadTenant, Capture, List, LoadListed, LoadFailed, OpenRelease, Send,
         Crash, Report, SetWindow, ChangePlan, PassDay, Download, vars
    <3>3. event'.entitled = event.entitled
      BY <3>1, <3>2 DEF Stamp, Decide, Freeze, RecordObjection, Event
    <3>4. event' # None
      BY <2>4, <3>2, StampEvent, FreezeEvent, FieldsIInv DEF Gains
    <3> QED
      BY <2>4, <3>3, <3>4 DEF Earned
  <2> QED
    BY <2>2, <2>3, <2>4 DEF Earned
<1>3. IInv /\ Earned => (crashes = 0 /\ event # None => MayExport /\ event \in Exported)
  <2> SUFFICES ASSUME IInv, Earned, crashes = 0, event # None
               PROVE  MayExport /\ event \in Exported
    OBVIOUS
  <2>1. event.entitled
    BY DEF Earned
  <2> QED
    BY <2>1 DEF MayExport, Exported
<1> QED
  BY <1>1, <1>2, <1>3, Invariance, PTL DEF Spec, EarnedIsKept

=============================================================================
