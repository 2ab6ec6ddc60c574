---------------------- MODULE NotificationOutboxProofs ----------------------
(***************************************************************************)
(* Proofs about NotificationOutbox, for any events and channels and any    *)
(* number of attempts, crashes, failing writes, rate limits and edits.     *)
(*                                                                         *)
(* A send belongs to a row in SENDING whose time has not come, so no other *)
(* tick claims that row.  What the receiver accepted is therefore either   *)
(* recorded, about to be recorded, or lost; the attempts of a row are      *)
(* bounded by the requests made for it; and no counter of failures, stored *)
(* or read, exceeds the deliveries that did fail.                          *)
(***************************************************************************)
EXTENDS NotificationOutbox, FiniteSetTheorems, TLAPS

-----------------------------------------------------------------------------
(* Lemmas *)

\* The rows the steps write.
Fresh == [NoRow EXCEPT !.status = "pending", !.ripe = TRUE]
Pruned(row) == [row EXCEPT !.pruned = TRUE]
Ripened(row) == [row EXCEPT !.ripe = TRUE]
Taken(row) == [row EXCEPT !.status = "sending", !.ripe = FALSE]

\* And the sends.
Begun(resolves) == [NoItem EXCEPT !.pc = "claimed", !.resolves = resolves]
Replied(result, caught) ==
    [NoItem EXCEPT !.pc = "answered", !.result = result, !.caught = caught]
Reading(i, failures, enabled) ==
    [i EXCEPT !.pc = "read", !.failures = failures, !.enabled = enabled]

\* They are well typed.
LEMMA RowTypes ==
    ASSUME NEW row \in Row
    PROVE  /\ NoRow \in Row /\ NoRow.status = "none" /\ NoRow.attempts = 0
           /\ NoRow.ripe = FALSE
           /\ Fresh \in Row /\ Fresh.status = "pending" /\ Fresh.attempts = 0
           /\ Pruned(row) \in Row /\ Pruned(row).status = row.status
           /\ Pruned(row).attempts = row.attempts /\ Pruned(row).ripe = row.ripe
           /\ Ripened(row) \in Row /\ Ripened(row).status = row.status
           /\ Ripened(row).attempts = row.attempts
           /\ Taken(row) \in Row /\ Taken(row).status = "sending"
           /\ Taken(row).ripe = FALSE /\ Taken(row).attempts = row.attempts
<1>1. /\ NoRow \in Row /\ NoRow.status = "none" /\ NoRow.attempts = 0
      /\ NoRow.ripe = FALSE
  BY DEF Row, NoRow
<1>2. /\ Fresh \in Row /\ Fresh.status = "pending" /\ Fresh.attempts = 0
  BY DEF Row, NoRow, Fresh
<1>3. /\ Pruned(row) \in Row /\ Pruned(row).status = row.status
      /\ Pruned(row).attempts = row.attempts /\ Pruned(row).ripe = row.ripe
  BY DEF Row, Pruned
<1>4. /\ Ripened(row) \in Row /\ Ripened(row).status = row.status
      /\ Ripened(row).attempts = row.attempts
  BY DEF Row, Ripened
<1>5. /\ Taken(row) \in Row /\ Taken(row).status = "sending"
      /\ Taken(row).ripe = FALSE /\ Taken(row).attempts = row.attempts
  BY DEF Row, Taken
<1> QED BY <1>1, <1>2, <1>3, <1>4, <1>5

\* What recording an attempt makes of a row.
LEMMA RecordedRow ==
    ASSUME NEW row \in Row, NEW result \in Results
    PROVE  /\ Recorded(row, result) \in Row
           /\ result = "ok" <=> Recorded(row, result).status = "sent"
           /\ Recorded(row, result).status \in {"pending", "sent", "failed"}
           /\ result = "limited" => Recorded(row, result).attempts = row.attempts
           /\ result # "limited" =>
                Recorded(row, result).attempts = row.attempts + 1
           /\ Recorded(row, result).status = "failed" =>
                \/ result = "permanent"
                \/ /\ result \in {"none", "error"}
                   /\ row.attempts + 1 >= MaxAttempts
<1> DEFINE spent == [row EXCEPT !.attempts = @ + 1]
<1>1. /\ spent \in Row /\ spent.attempts = row.attempts + 1
      /\ \A s \in {"pending", "sent", "failed"} :
           /\ [spent EXCEPT !.status = s] \in Row
           /\ [spent EXCEPT !.status = s].status = s
           /\ [spent EXCEPT !.status = s].attempts = row.attempts + 1
  <2>1. spent \in Row /\ spent.attempts = row.attempts + 1
    BY DEF Row
  <2> HIDE DEF spent
  <2> QED BY <2>1 DEF Row
<1>2. /\ [row EXCEPT !.status = "pending"] \in Row
      /\ [row EXCEPT !.status = "pending"].status = "pending"
      /\ [row EXCEPT !.status = "pending"].attempts = row.attempts
  BY DEF Row
<1>3. row.attempts \in Nat
  BY DEF Row
<1> HIDE DEF spent
<1>4. Recorded(row, result) =
        CASE result = "ok" -> [spent EXCEPT !.status = "sent"]
          [] result = "limited" -> [row EXCEPT !.status = "pending"]
          [] result = "permanent" -> [spent EXCEPT !.status = "failed"]
          [] OTHER -> [spent EXCEPT !.status =
                         IF spent.attempts < MaxAttempts THEN "pending" ELSE "failed"]
  BY DEF Recorded, spent
<1>5. CASE result = "ok"
  BY <1>1, <1>4, <1>5
<1>6. CASE result = "limited"
  BY <1>2, <1>4, <1>6
<1>7. CASE result = "permanent"
  BY <1>1, <1>4, <1>7
<1>8. CASE result \in {"none", "error"}
  <2>1. Recorded(row, result) =
          [spent EXCEPT !.status =
             IF spent.attempts < MaxAttempts THEN "pending" ELSE "failed"]
    BY <1>4, <1>8
  <2>2. CASE spent.attempts < MaxAttempts
    BY <1>1, <1>3, <1>8, <2>1, <2>2, BoundsAssumption
  <2>3. CASE ~(spent.attempts < MaxAttempts)
    BY <1>1, <1>3, <1>8, <2>1, <2>3, BoundsAssumption
  <2> QED BY <2>2, <2>3
<1> QED BY <1>5, <1>6, <1>7, <1>8 DEF Results

\* A channel after a recording: at most one more failure than was read, and
\* disabled only when that reaches the threshold.
LEMMA CountedChannel ==
    ASSUME NEW row \in ChannelRow, NEW i \in Item,
           NEW status \in {"pending", "sent", "failed"}
    PROVE  /\ Counted(row, i, status) \in ChannelRow
           /\ \/ Counted(row, i, status).failures \in {0, row.failures}
              \/ /\ status = "failed"
                 /\ Counted(row, i, status).failures = i.failures + 1
           /\ row.enabled /\ ~Counted(row, i, status).enabled =>
                /\ status = "failed"
                /\ i.failures + 1 >= Threshold
           /\ Counted(row, i, status).resolves = row.resolves
<1>1. CASE status = "sent"
  BY <1>1 DEF Counted, ChannelRow, Item
<1>2. CASE status = "failed"
  <2> DEFINE open == IF i.enabled /\ i.failures + 1 >= Threshold
                     THEN FALSE ELSE row.enabled
             new == [row EXCEPT !.failures = i.failures + 1, !.enabled = open]
  <2>1. Counted(row, i, status) = new
    BY <1>2 DEF Counted, ChannelRow
  <2>2. i.failures + 1 \in Nat
    BY DEF Item
  <2>3. open \in BOOLEAN
    BY DEF ChannelRow
  <2>4. row.enabled /\ ~open => i.failures + 1 >= Threshold
    OBVIOUS
  <2> HIDE DEF open
  <2>5. /\ new \in ChannelRow /\ new.failures = i.failures + 1 /\ new.enabled = open
        /\ new.resolves = row.resolves
    BY <2>2, <2>3 DEF ChannelRow
  <2> HIDE DEF new
  <2> QED BY <1>2, <2>1, <2>4, <2>5
<1>3. CASE status = "pending"
  BY <1>3 DEF Counted, ChannelRow, Item
<1> QED BY <1>1, <1>2, <1>3

\* The bounds count up.
LEMMA UsedTypes ==
    ASSUME used \in [mishaps : Nat, changes : Nat]
    PROVE  /\ Mishap => used' \in [mishaps : Nat, changes : Nat]
           /\ Change => used' \in [mishaps : Nat, changes : Nat]
BY DEF Mishap, Change

-----------------------------------------------------------------------------
(* The invariant *)

\* One delivery: its row, its send under way, how often it was accepted and
\* requested, and how many acceptances were lost.
Sound(row, i, accepted, requested, forgotten) ==
    /\ i.pc # "none" => row.status = "sending" /\ row.ripe = FALSE
    /\ i.pc \in {"none", "claimed"} <=> i.result = "none"
    /\ accepted <= forgotten
                   + (IF i.result = "ok" \/ row.status = "sent" THEN 1 ELSE 0)
    /\ i.result = "ok" => accepted > 0
    /\ i.result = "permanent" => i.caught = FALSE
    /\ row.status # "failed" => row.attempts <= requested
    /\ i.result \in {"ok", "error"} => row.attempts + 1 <= requested

Accounted ==
    \A d \in Deliveries :
        Sound(delivery[d], item[d], delivered[d], sends[d], lost[d])

\* The deliveries of c that were given up, and the counts of them.
FailedOf(c) == {d \in Deliveries : ChannelOf(d) = c /\ delivery[d].status = "failed"}
Counting ==
    /\ \A c \in Channels : channel[c].failures <= Cardinality(FailedOf(c))
    /\ \A d \in Deliveries :
          item[d].failures <= Cardinality(FailedOf(ChannelOf(d)))

Inv == TypeOK /\ Accounted /\ Counting

-----------------------------------------------------------------------------
(* The steps of one delivery *)

\* A send begins on a row without one that is due.
LEMMA SoundTaken ==
    ASSUME NEW row \in Row, NEW i \in Item, NEW a \in Nat, NEW r \in Nat,
           NEW l \in Nat, Sound(row, i, a, r, l),
           row.status \in {"pending", "sending"}, row.ripe, NEW resolves \in BOOLEAN
    PROVE  Sound(Taken(row), Begun(resolves), a, r, l)
<1>1. /\ Taken(row).status = "sending" /\ Taken(row).ripe = FALSE
      /\ Taken(row).attempts = row.attempts
  BY RowTypes
<1>2. /\ Begun(resolves).pc = "claimed" /\ Begun(resolves).result = "none"
      /\ Begun(resolves).caught = FALSE
  BY DEF Begun, NoItem
<1>3. i.pc = "none"
  BY DEF Sound
<1>4. i.result = "none" /\ row.attempts <= r /\ a <= l
  BY <1>3 DEF Sound, Row
<1> QED BY <1>1, <1>2, <1>4 DEF Sound

\* A request is answered.
LEMMA SoundReplied ==
    ASSUME NEW row \in Row, NEW i \in Item, NEW a \in Nat, NEW r \in Nat,
           NEW l \in Nat, Sound(row, i, a, r, l), i.pc = "claimed",
           NEW caught \in BOOLEAN
    PROVE  /\ Sound(row, Replied("permanent", FALSE), a, r, l)
           /\ Sound(row, Replied("ok", caught), a + 1, r + 1, l)
           /\ Sound(row, Replied("error", caught), a + 1, r + 1, l + 1)
           /\ Sound(row, Replied("error", caught), a, r + 1, l)
           /\ Sound(row, Replied("limited", caught), a, r, l)
<1>1. \A result \in Results : Replied(result, caught).pc = "answered"
                              /\ Replied(result, caught).result = result
  BY DEF Replied, NoItem
<1>2. /\ row.status = "sending" /\ row.ripe = FALSE /\ i.result = "none"
      /\ row.attempts <= r /\ a <= l /\ row.attempts \in Nat
  BY DEF Sound, Row
<1>3. Sound(row, Replied("permanent", FALSE), a, r, l)
  BY <1>2 DEF Sound, Replied, NoItem
<1>4. Sound(row, Replied("ok", caught), a + 1, r + 1, l)
  BY <1>1, <1>2 DEF Sound, Results
<1>5. Sound(row, Replied("error", caught), a + 1, r + 1, l + 1)
  BY <1>1, <1>2 DEF Sound, Results
<1>6. Sound(row, Replied("error", caught), a, r + 1, l)
  BY <1>1, <1>2 DEF Sound, Results
<1>7. Sound(row, Replied("limited", caught), a, r, l)
  BY <1>1, <1>2 DEF Sound, Results
<1> QED BY <1>3, <1>4, <1>5, <1>6, <1>7

\* The outcome is recorded.
LEMMA SoundRecorded ==
    ASSUME NEW row \in Row, NEW i \in Item, NEW a \in Nat, NEW r \in Nat,
           NEW l \in Nat, Sound(row, i, a, r, l), i.pc = "read"
    PROVE  Sound(Recorded(row, i.result), NoItem, a, r, l)
<1> DEFINE new == Recorded(row, i.result)
<1>1. i.result \in Results
  BY DEF Item
<1>2. /\ new \in Row
      /\ i.result = "ok" <=> new.status = "sent"
      /\ new.status \in {"pending", "sent", "failed"}
      /\ i.result = "limited" => new.attempts = row.attempts
      /\ i.result # "limited" => new.attempts = row.attempts + 1
      /\ new.status = "failed" \/ i.result # "permanent"
  BY <1>1, RecordedRow DEF Recorded, Row
<1>3. /\ row.status = "sending" /\ i.result # "none" /\ row.attempts \in Nat
      /\ row.attempts <= r
      /\ a <= l + (IF i.result = "ok" THEN 1 ELSE 0)
      /\ i.result \in {"ok", "error"} => row.attempts + 1 <= r
  BY DEF Sound, Row
<1>4. NoItem.pc = "none" /\ NoItem.result = "none"
  BY DEF NoItem
<1> HIDE DEF new
<1>5. a <= l + (IF new.status = "sent" THEN 1 ELSE 0)
  BY <1>2, <1>3
<1>6. new.status # "failed" => new.attempts <= r
  BY <1>1, <1>2, <1>3 DEF Results
<1>7. Sound(new, NoItem, a, r, l)
  BY <1>4, <1>5, <1>6 DEF Sound
<1> QED BY <1>7 DEF new

\* The outcome is lost.
LEMMA SoundForgotten ==
    ASSUME NEW row \in Row, NEW i \in Item, NEW a \in Nat, NEW r \in Nat,
           NEW l \in Nat, Sound(row, i, a, r, l), NEW s \in Nat, s >= r
    PROVE  Sound(row, NoItem, a, s, IF i.result = "ok" THEN l + 1 ELSE l)
<1>1. /\ row.attempts \in Nat
      /\ row.status # "failed" => row.attempts <= s
      /\ i.result = "ok" => row.status = "sending"
      /\ a <= l + (IF i.result = "ok" \/ row.status = "sent" THEN 1 ELSE 0)
  BY DEF Sound, Row
<1>2. NoItem.pc = "none" /\ NoItem.result = "none"
  BY DEF NoItem
<1>3. a <= (IF i.result = "ok" THEN l + 1 ELSE l)
             + (IF row.status = "sent" THEN 1 ELSE 0)
  BY <1>1
<1> QED BY <1>1, <1>2, <1>3 DEF Sound

\* The outcome is taken for a failure of the request.
LEMMA SoundMistaken ==
    ASSUME NEW row \in Row, NEW i \in Item, NEW a \in Nat, NEW r \in Nat,
           NEW l \in Nat, Sound(row, i, a, r, l),
           i.pc \in {"answered", "read"}, i.caught
    PROVE  Sound(row, Replied("error", FALSE), a,
                 IF i.result = "limited" THEN r + 1 ELSE r,
                 IF i.result = "ok" THEN l + 1 ELSE l)
<1>1. /\ row.attempts \in Nat /\ row.status = "sending" /\ row.ripe = FALSE
      /\ row.attempts <= r
      /\ a <= l + (IF i.result = "ok" THEN 1 ELSE 0)
      /\ i.result \in {"ok", "error"} => row.attempts + 1 <= r
      /\ i.result \in {"ok", "error", "limited"}
  BY DEF Sound, Row, Item, Results
<1>2. /\ Replied("error", FALSE).pc = "answered"
      /\ Replied("error", FALSE).result = "error"
  BY DEF Replied, NoItem
<1>3. a <= IF i.result = "ok" THEN l + 1 ELSE l
  BY <1>1
<1>4. row.attempts + 1 <= IF i.result = "limited" THEN r + 1 ELSE r
  BY <1>1
<1> DEFINE l1 == IF i.result = "ok" THEN l + 1 ELSE l
           r1 == IF i.result = "limited" THEN r + 1 ELSE r
<1>5. l1 \in Nat /\ r1 \in Nat /\ a <= l1 /\ row.attempts + 1 <= r1
  BY <1>3, <1>4
<1> HIDE DEF l1, r1
<1>6. Sound(row, Replied("error", FALSE), a, r1, l1)
  <2> DEFINE one == IF Replied("error", FALSE).result = "ok" \/ row.status = "sent"
                    THEN 1 ELSE 0
  <2>1. one = 0
    BY <1>1, <1>2
  <2> HIDE DEF one
  <2>2. a <= l1 + one
    BY <1>5, <2>1
  <2>3. row.attempts <= r1
    BY <1>1, <1>5
  <2> QED BY <1>1, <1>2, <1>5, <2>2, <2>3 DEF Sound, one
<1> QED BY <1>6 DEF l1, r1

-----------------------------------------------------------------------------
(* The steps of the outbox *)

\* The types, one by one.
LEMMA Types ==
    ASSUME TypeOK
    PROVE  /\ delivery \in [Deliveries -> Row]
           /\ channel \in [Channels -> ChannelRow]
           /\ item \in [Deliveries -> Item]
           /\ edit \in Edits
           /\ busy \in BOOLEAN
           /\ delivered \in [Deliveries -> Nat]
           /\ sends \in [Deliveries -> Nat]
           /\ lost \in [Deliveries -> Nat]
           /\ used \in [mishaps : Nat, changes : Nat]
           /\ \A d \in Deliveries : ChannelOf(d) \in Channels
BY DEF TypeOK, Deliveries, ChannelOf

\* A step that changes one delivery changes no other account.
LEMMA OneChanges ==
    ASSUME Accounted, NEW d \in Deliveries,
           \A e \in Deliveries \ {d} :
               /\ delivery'[e] = delivery[e] /\ item'[e] = item[e]
               /\ delivered'[e] = delivered[e] /\ sends'[e] = sends[e]
               /\ lost'[e] = lost[e],
           Sound(delivery'[d], item'[d], delivered'[d], sends'[d], lost'[d])
    PROVE  Accounted'
<1>1. \A e \in Deliveries \ {d} :
        Sound(delivery'[e], item'[e], delivered'[e], sends'[e], lost'[e])
  BY DEF Accounted
<1> QED BY <1>1 DEF Accounted

\* An edit changes whether a channel is enabled, and takes failures back.
LEMMA EditedChannel ==
    ASSUME TypeOK, NEW c \in Channels, EditCommit(c)
    PROVE  \E new \in ChannelRow :
             /\ channel' = [channel EXCEPT ![c] = new]
             /\ new.failures \in {0, channel[c].failures}
<1> DEFINE on == IF edit.to # edit.row.enabled THEN edit.to ELSE channel[c].enabled
           count == IF edit.to /\ ~edit.row.enabled /\ edit.row.failures # 0
                    THEN 0 ELSE channel[c].failures
           url == IF edit.resolves # edit.row.resolves THEN edit.resolves
                  ELSE channel[c].resolves
           new == [channel[c] EXCEPT !.enabled = on, !.failures = count, !.resolves = url]
<1>1. channel[c] \in ChannelRow
  BY Types
<1>2. /\ on \in BOOLEAN /\ count \in Nat /\ count \in {0, channel[c].failures}
      /\ url \in BOOLEAN
  BY <1>1, Types DEF ChannelRow, Edits
<1>3. channel' = [channel EXCEPT ![c] = new]
  BY Types DEF EditCommit
<1> HIDE DEF on, count, url
<1>4. new \in ChannelRow /\ new.failures = count
  BY <1>1, <1>2 DEF ChannelRow
<1> QED BY <1>2, <1>3, <1>4

\* An event adds rows where there were none.
LEMMA EnqueueStep ==
    ASSUME TypeOK, Accounted, NEW e \in Events, Enqueue(e)
    PROVE  TypeOK' /\ Accounted'
<1>1. PICK S \in SUBSET {c \in Channels : channel[c].exists /\ channel[c].enabled} :
        delivery' = [d \in Deliveries |-> IF d \in {e} \X S THEN Fresh
                                          ELSE delivery[d]]
  BY DEF Enqueue, Fresh
<1>2. \A d \in Deliveries : d \in {e} \X S => delivery[d].status = "none"
  BY <1>1 DEF Enqueue
<1>3. /\ Fresh \in Row /\ Fresh.status = "pending" /\ Fresh.attempts = 0
  BY DEF Fresh, Row, NoRow
<1>4. delivery' \in [Deliveries -> Row]
  BY <1>1, <1>3, Types
<1>5. TypeOK'
  BY <1>4 DEF TypeOK, Enqueue, Histories
<1>6. ASSUME NEW d \in Deliveries
      PROVE  Sound(delivery'[d], item[d], delivered[d], sends[d], lost[d])
  <2>1. Sound(delivery[d], item[d], delivered[d], sends[d], lost[d])
    BY DEF Accounted
  <2>2. CASE d \notin {e} \X S
    BY <1>1, <2>1, <2>2
  <2>3. CASE d \in {e} \X S
    <3>1. delivery'[d] = Fresh /\ delivery[d].status = "none"
      BY <1>1, <1>2, <2>3
    <3>2. /\ item[d].pc = "none" /\ item[d].result = "none"
          /\ delivered[d] <= lost[d] + 0
      BY <2>1, <3>1 DEF Sound
    <3>3. sends[d] \in Nat
      BY Types
    <3> QED BY <1>3, <3>1, <3>2, <3>3 DEF Sound
  <2> QED BY <2>2, <2>3
<1> QED BY <1>5, <1>6 DEF Accounted, Enqueue, Histories

\* A row is pruned, or its time comes.
LEMMA AgeStep ==
    ASSUME TypeOK, Accounted, NEW d \in Deliveries, Prune(d) \/ Elapse(d)
    PROVE  TypeOK' /\ Accounted'
<1>1. PICK row \in {Pruned(delivery[d]), Ripened(delivery[d])} :
        /\ delivery' = [delivery EXCEPT ![d] = row]
        /\ item[d].pc # "none" => row = Pruned(delivery[d])
        /\ UNCHANGED <<channel, edit, item, busy, Histories, used>>
  <2>1. CASE Prune(d)
    BY <2>1 DEF Prune, Pruned
  <2>2. CASE Elapse(d)
    BY <2>2 DEF Elapse, Ripened
  <2> QED BY <2>1, <2>2
<1>2. /\ row \in Row /\ row.status = delivery[d].status
      /\ row.attempts = delivery[d].attempts
      /\ row = Pruned(delivery[d]) => row.ripe = delivery[d].ripe
  <2>1. delivery[d] \in Row
    BY Types
  <2>2. CASE row = Pruned(delivery[d])
    BY <2>1, <2>2 DEF Pruned, Row
  <2>3. CASE row = Ripened(delivery[d]) /\ row # Pruned(delivery[d])
    BY <2>1, <2>3 DEF Ripened, Row
  <2> QED BY <1>1, <2>2, <2>3
<1>3. TypeOK'
  BY <1>1, <1>2 DEF TypeOK, Histories
<1>4. Sound(row, item[d], delivered[d], sends[d], lost[d])
  BY <1>1, <1>2 DEF Accounted, Sound
<1>5. Accounted'
  BY <1>1, <1>4, OneChanges, Types DEF Histories
<1> QED BY <1>3, <1>5

\* A tick claims rows that no other send is for.
LEMMA ClaimStep ==
    ASSUME TypeOK, Accounted, Claim
    PROVE  TypeOK' /\ Accounted'
<1>1. PICK S \in SUBSET Due :
        /\ delivery' = [d \in Deliveries |-> IF d \in S THEN Taken(delivery[d])
                                             ELSE delivery[d]]
        /\ item' = [d \in Deliveries |-> IF d \in S
                               THEN Begun(channel[ChannelOf(d)].resolves)
                               ELSE item[d]]
        /\ busy' = TRUE
        /\ UNCHANGED <<channel, edit, Histories, used>>
  BY DEF Claim, Taken, Begun
<1>2. \A d \in S : /\ d \in Deliveries /\ delivery[d].ripe
                   /\ delivery[d].status \in {"pending", "sending"}
  BY DEF Due
<1>3. /\ \A d \in Deliveries : /\ channel[ChannelOf(d)].resolves \in BOOLEAN
                               /\ Begun(channel[ChannelOf(d)].resolves) \in Item
      /\ \A row \in Row : Taken(row) \in Row
  <2>1. \A resolves \in BOOLEAN : Begun(resolves) \in Item
    BY DEF Begun, Item, NoItem, Results
  <2>2. \A d \in Deliveries : channel[ChannelOf(d)].resolves \in BOOLEAN
    BY Types DEF ChannelRow
  <2> QED BY <2>1, <2>2, RowTypes
<1>4. delivery' \in [Deliveries -> Row] /\ item' \in [Deliveries -> Item]
  BY <1>1, <1>3, Types
<1>5. TypeOK'
  BY <1>1, <1>4 DEF TypeOK, Histories
<1>6. ASSUME NEW d \in Deliveries
      PROVE  Sound(delivery'[d], item'[d], delivered[d], sends[d], lost[d])
  <2>1. Sound(delivery[d], item[d], delivered[d], sends[d], lost[d])
    BY DEF Accounted
  <2>2. CASE d \in S
    BY <1>1, <1>2, <1>3, <2>1, <2>2, Types, SoundTaken
  <2>3. CASE d \notin S
    BY <1>1, <2>1, <2>3
  <2> QED BY <2>2, <2>3
<1> QED BY <1>1, <1>5, <1>6 DEF Accounted, Histories

\* A request is answered.
LEMMA SendStepKeeps ==
    ASSUME TypeOK, Accounted, NEW d \in Deliveries, Send(d)
    PROVE  TypeOK' /\ Accounted'
<1> DEFINE row == delivery[d]
           a == delivered[d]
           r == sends[d]
           l == lost[d]
<1>1. /\ row \in Row /\ item[d] \in Item /\ a \in Nat /\ r \in Nat /\ l \in Nat
      /\ Sound(row, item[d], a, r, l) /\ item[d].pc = "claimed"
      /\ UNCHANGED <<delivery, channel, edit, busy>>
  BY Types DEF Accounted, Send
<1>2. \A caught \in BOOLEAN :
        /\ Sound(row, Replied("permanent", FALSE), a, r, l)
        /\ Sound(row, Replied("ok", caught), a + 1, r + 1, l)
        /\ Sound(row, Replied("error", caught), a + 1, r + 1, l + 1)
        /\ Sound(row, Replied("error", caught), a, r + 1, l)
        /\ Sound(row, Replied("limited", caught), a, r, l)
  BY <1>1, SoundReplied
<1>3. PICK result \in Results \ {"none"}, caught \in BOOLEAN :
        /\ item' = [item EXCEPT ![d] = Replied(result, caught)]
        /\ \/ result = "permanent" /\ caught = FALSE
              /\ UNCHANGED <<delivered, sends, lost>> /\ used' = used
           \/ /\ result = "ok" /\ used' = used /\ lost' = lost
              /\ delivered' = [delivered EXCEPT ![d] = @ + 1]
              /\ sends' = [sends EXCEPT ![d] = @ + 1]
           \/ /\ result = "error" /\ used' = used
              /\ lost' = [lost EXCEPT ![d] = @ + 1]
              /\ delivered' = [delivered EXCEPT ![d] = @ + 1]
              /\ sends' = [sends EXCEPT ![d] = @ + 1]
           \/ /\ result = "error" /\ used' = used /\ lost' = lost
              /\ delivered' = delivered
              /\ sends' = [sends EXCEPT ![d] = @ + 1]
           \/ /\ result = "limited" /\ Mishap
              /\ UNCHANGED <<delivered, sends, lost>>
  BY DEF Send, Request, Answer, Replied, Results, Histories
<1>4. Replied(result, caught) \in Item
  BY DEF Replied, NoItem, Item
<1>5. /\ item' \in [Deliveries -> Item]
      /\ delivered' \in [Deliveries -> Nat] /\ sends' \in [Deliveries -> Nat]
      /\ lost' \in [Deliveries -> Nat]
      /\ used' \in [mishaps : Nat, changes : Nat]
  BY <1>3, <1>4, Types, UsedTypes
<1>6. TypeOK'
  BY <1>1, <1>5 DEF TypeOK
<1>7. Sound(delivery'[d], item'[d], delivered'[d], sends'[d], lost'[d])
  BY <1>1, <1>2, <1>3, Types
<1>8. \A e \in Deliveries \ {d} :
        /\ delivery'[e] = delivery[e] /\ item'[e] = item[e]
        /\ delivered'[e] = delivered[e] /\ sends'[e] = sends[e]
        /\ lost'[e] = lost[e]
  BY <1>1, <1>3, Types
<1> QED BY <1>6, <1>7, <1>8, OneChanges

\* A send raises, and its row waits to be reclaimed.
LEMMA SendRaisesStep ==
    ASSUME TypeOK, Accounted, NEW d \in Deliveries, SendRaises(d)
    PROVE  TypeOK' /\ Accounted'
<1>1. /\ item' = [item EXCEPT ![d] = NoItem] /\ busy' = FALSE
      /\ UNCHANGED <<delivery, channel, edit, Histories, used>>
      /\ item[d].pc = "claimed"
  BY DEF SendRaises
<1>2. NoItem \in Item
  BY DEF NoItem, Item, Results
<1>3. TypeOK'
  BY <1>1, <1>2 DEF TypeOK, Histories
<1>4. Sound(delivery[d], NoItem, delivered[d], sends[d], lost[d])
  <2>1. /\ delivery[d] \in Row /\ item[d] \in Item /\ delivered[d] \in Nat
        /\ sends[d] \in Nat /\ lost[d] \in Nat
        /\ Sound(delivery[d], item[d], delivered[d], sends[d], lost[d])
    BY Types DEF Accounted
  <2>2. sends[d] >= sends[d] /\ item[d].result # "ok"
    BY <1>1, <2>1 DEF Sound
  <2> QED BY <2>1, <2>2, SoundForgotten
<1>5. Accounted'
  BY <1>1, <1>4, OneChanges, Types DEF Histories
<1> QED BY <1>3, <1>5

\* The channel is read.
LEMMA RecordReadStep ==
    ASSUME TypeOK, Accounted, NEW d \in Deliveries, RecordRead(d)
    PROVE  TypeOK' /\ Accounted'
<1> DEFINE c == ChannelOf(d)
           new == Reading(item[d], channel[c].failures, channel[c].enabled)
<1>1. /\ item' = [item EXCEPT ![d] = new]
      /\ item[d].pc = "answered"
      /\ UNCHANGED <<delivery, channel, edit, busy, Histories, used>>
  BY DEF RecordRead, Reading
<1>2. item[d] \in Item /\ channel[c] \in ChannelRow
  BY Types
<1>3. /\ new \in Item /\ new.pc = "read" /\ new.result = item[d].result
      /\ new.caught = item[d].caught
  BY <1>2 DEF Reading, Item, ChannelRow
<1> HIDE DEF new, c
<1>4. TypeOK'
  BY <1>1, <1>3 DEF TypeOK, Histories
<1>5. Sound(delivery[d], new, delivered[d], sends[d], lost[d])
  BY <1>1, <1>3 DEF Accounted, Sound
<1>6. Accounted'
  BY <1>1, <1>5, OneChanges, Types DEF Histories
<1> QED BY <1>4, <1>6

\* The outcome is recorded: what becomes of the row and its channel.
LEMMA RecordCommitEffect ==
    ASSUME TypeOK, Accounted, NEW d \in Deliveries, RecordCommit(d)
    PROVE  /\ delivery[d] \in Row /\ item[d] \in Item /\ item[d].result \in Results
           /\ delivery[d].status = "sending" /\ item[d].pc = "read"
           /\ Recorded(delivery[d], item[d].result) \in Row
           /\ Recorded(delivery[d], item[d].result).status
                \in {"pending", "sent", "failed"}
           /\ delivery' = [delivery EXCEPT
                             ![d] = Recorded(delivery[d], item[d].result)]
           /\ channel[ChannelOf(d)] \in ChannelRow
           /\ channel' = [channel EXCEPT ![ChannelOf(d)] =
                            Counted(channel[ChannelOf(d)], item[d],
                              Recorded(delivery[d], item[d].result).status)]
           /\ item' = [item EXCEPT ![d] = NoItem]
           /\ UNCHANGED <<edit, busy, delivered, sends, lost, used>>
<1>1. /\ delivery[d] \in Row /\ item[d] \in Item /\ item[d].pc = "read"
      /\ channel[ChannelOf(d)] \in ChannelRow
  BY Types DEF RecordCommit
<1>2. item[d].result \in Results
  BY <1>1 DEF Item
<1>3. delivery[d].status = "sending"
  BY <1>1 DEF Accounted, Sound
<1>4. /\ Recorded(delivery[d], item[d].result) \in Row
      /\ Recorded(delivery[d], item[d].result).status
           \in {"pending", "sent", "failed"}
  BY <1>1, <1>2, RecordedRow
<1> QED BY <1>1, <1>2, <1>3, <1>4 DEF RecordCommit, Histories

\* Recording keeps the types and the accounts.
LEMMA RecordCommitStep ==
    ASSUME TypeOK, Accounted, NEW d \in Deliveries, RecordCommit(d)
    PROVE  TypeOK' /\ Accounted'
<1> DEFINE c == ChannelOf(d)
           row == Recorded(delivery[d], item[d].result)
           new == Counted(channel[c], item[d], row.status)
<1>1. /\ delivery[d] \in Row /\ item[d] \in Item /\ item[d].pc = "read"
      /\ row \in Row /\ row.status \in {"pending", "sent", "failed"}
      /\ channel[c] \in ChannelRow
      /\ delivery' = [delivery EXCEPT ![d] = row]
      /\ channel' = [channel EXCEPT ![c] = new]
      /\ item' = [item EXCEPT ![d] = NoItem]
      /\ UNCHANGED <<edit, busy, delivered, sends, lost, used>>
  BY RecordCommitEffect
<1>2. new \in ChannelRow /\ NoItem \in Item
  BY <1>1, CountedChannel DEF NoItem, Item, Results
<1>3. Sound(row, NoItem, delivered[d], sends[d], lost[d])
  BY <1>1, Types, SoundRecorded DEF Accounted
<1> HIDE DEF c, row, new
<1>4. TypeOK'
  BY <1>1, <1>2 DEF TypeOK
<1>5. Accounted'
  BY <1>1, <1>3, OneChanges, Types
<1> QED BY <1>4, <1>5

\* Recording fails.
LEMMA RecordFaultStep ==
    ASSUME TypeOK, Accounted, NEW d \in Deliveries, RecordFault(d)
    PROVE  TypeOK' /\ Accounted'
<1> DEFINE l1 == IF item[d].result = "ok" THEN lost[d] + 1 ELSE lost[d]
           r1 == IF item[d].result = "limited" THEN sends[d] + 1 ELSE sends[d]
<1>1. /\ delivery[d] \in Row /\ item[d] \in Item /\ delivered[d] \in Nat
      /\ sends[d] \in Nat /\ lost[d] \in Nat
      /\ Sound(delivery[d], item[d], delivered[d], sends[d], lost[d])
  BY Types DEF Accounted
<1>2. /\ lost' = [lost EXCEPT ![d] = l1] /\ sends' = [sends EXCEPT ![d] = r1]
      /\ item[d].pc \in {"answered", "read"} /\ Mishap
      /\ UNCHANGED <<delivery, channel, edit, delivered>>
  BY <1>1, Types DEF RecordFault
<1>3. PICK new \in {NoItem, Replied("error", FALSE)} :
        /\ item' = [item EXCEPT ![d] = new]
        /\ busy' \in BOOLEAN
        /\ Sound(delivery[d], new, delivered[d], r1, l1)
  <2>1. CASE item[d].caught = TRUE
    <3>1. Sound(delivery[d], Replied("error", FALSE), delivered[d], r1, l1)
      BY <1>1, <1>2, <2>1, SoundMistaken
    <3>2. item' = [item EXCEPT ![d] = Replied("error", FALSE)] /\ busy' = busy
      BY <2>1 DEF RecordFault, Answer, Replied
    <3> QED BY <3>1, <3>2, Types
  <2>2. CASE item[d].caught = FALSE
    <3>1. r1 \in Nat /\ r1 >= sends[d]
      BY <1>1
    <3>2. Sound(delivery[d], NoItem, delivered[d], r1, l1)
      BY <1>1, <3>1, SoundForgotten
    <3>3. item' = [item EXCEPT ![d] = NoItem] /\ busy' = FALSE
      BY <2>2 DEF RecordFault
    <3> QED BY <3>2, <3>3
  <2>3. item[d].caught \in BOOLEAN
    BY <1>1 DEF Item
  <2> QED BY <2>1, <2>2, <2>3
<1>4. new \in Item
  <2>1. NoItem \in Item /\ Replied("error", FALSE) \in Item
    BY DEF Replied, NoItem, Item, Results
  <2> QED BY <1>3, <2>1
<1>5. l1 \in Nat /\ r1 \in Nat
  BY <1>1
<1> HIDE DEF l1, r1
<1>6. TypeOK'
  BY <1>2, <1>3, <1>4, <1>5, UsedTypes DEF TypeOK
<1>7. Accounted'
  BY <1>2, <1>3, OneChanges, Types
<1> QED BY <1>6, <1>7

\* The process dies.
LEMMA CrashStep ==
    ASSUME TypeOK, Accounted, Crash
    PROVE  TypeOK' /\ Accounted'
<1>1. /\ item' = [d \in Deliveries |-> NoItem]
      /\ lost' = [d \in Deliveries |-> IF item[d].result = "ok" THEN lost[d] + 1
                                       ELSE lost[d]]
      /\ busy' = FALSE /\ edit' = NoEdit /\ Mishap
      /\ UNCHANGED <<delivery, channel, delivered, sends>>
  BY DEF Crash
<1>2. NoItem \in Item
  BY DEF NoItem, Item, Results
<1>3. NoEdit \in Edits
  BY DEF NoEdit, Edits, FreshChannel, ChannelRow
<1>4. lost' \in [Deliveries -> Nat]
  BY <1>1, Types
<1>5. TypeOK'
  BY <1>1, <1>2, <1>3, <1>4, UsedTypes DEF TypeOK
<1>6. ASSUME NEW d \in Deliveries
      PROVE  Sound(delivery[d], NoItem, delivered[d], sends[d],
                   IF item[d].result = "ok" THEN lost[d] + 1 ELSE lost[d])
  <2>1. /\ delivery[d] \in Row /\ item[d] \in Item /\ delivered[d] \in Nat
        /\ sends[d] \in Nat /\ lost[d] \in Nat
        /\ Sound(delivery[d], item[d], delivered[d], sends[d], lost[d])
    BY Types DEF Accounted
  <2>2. sends[d] >= sends[d]
    BY <2>1
  <2> QED BY <2>1, <2>2, SoundForgotten
<1>7. Accounted'
  BY <1>1, <1>6 DEF Accounted
<1> QED BY <1>5, <1>7

\* Edits of channels and the end of a tick change no delivery.
LEMMA OtherSteps ==
    ASSUME TypeOK, Accounted,
           \/ TickEnd
           \/ \E c \in Channels : DeleteChannel(c) \/ EditRead(c) \/ EditCommit(c)
    PROVE  TypeOK' /\ Accounted'
<1>1. NoEdit \in Edits
  BY DEF NoEdit, Edits, FreshChannel, ChannelRow
<1>2. CASE TickEnd
  BY <1>2 DEF TickEnd, TypeOK, Accounted, Histories
<1>3. ASSUME NEW c \in Channels, EditRead(c)
      PROVE  TypeOK' /\ Accounted'
  <2>1. PICK to \in BOOLEAN, resolves \in BOOLEAN :
          edit' = [channel |-> {c}, to |-> to, resolves |-> resolves,
                   row |-> channel[c]]
    BY <1>3 DEF EditRead
  <2>2. edit' \in Edits
    BY <2>1, Types DEF Edits
  <2> QED BY <1>3, <2>2, UsedTypes DEF EditRead, TypeOK, Accounted, Histories
<1>4. ASSUME NEW c \in Channels, DeleteChannel(c)
      PROVE  TypeOK' /\ Accounted'
  <2>1. [channel[c] EXCEPT !.exists = FALSE] \in ChannelRow
    BY Types DEF ChannelRow
  <2>2. channel' \in [Channels -> ChannelRow]
    BY <1>4, <2>1, Types DEF DeleteChannel
  <2>3. edit' \in Edits
    BY <1>1, <1>4, Types DEF DeleteChannel
  <2> QED BY <1>4, <2>2, <2>3, UsedTypes DEF DeleteChannel, TypeOK, Accounted, Histories
<1>5. ASSUME NEW c \in Channels, EditCommit(c)
      PROVE  TypeOK' /\ Accounted'
  <2>1. PICK new \in ChannelRow : channel' = [channel EXCEPT ![c] = new]
    BY <1>5, EditedChannel
  <2>2. channel' \in [Channels -> ChannelRow]
    BY <2>1, Types
  <2>3. edit' = NoEdit /\ UNCHANGED <<delivery, item, busy, Histories, used>>
    BY <1>5 DEF EditCommit
  <2> QED BY <1>1, <2>2, <2>3 DEF TypeOK, Accounted, Histories
<1> QED BY <1>2, <1>3, <1>4, <1>5

\* Every step keeps the types and the accounts.
LEMMA NextKeeps ==
    ASSUME TypeOK, Accounted, [Next]_vars
    PROVE  TypeOK' /\ Accounted'
<1>1. CASE UNCHANGED vars
  BY <1>1 DEF vars, TypeOK, Accounted
<1>2. ASSUME NEW e \in Events, Enqueue(e)
      PROVE  TypeOK' /\ Accounted'
  BY <1>2, EnqueueStep
<1>3. ASSUME NEW d \in Deliveries, Prune(d) \/ Elapse(d)
      PROVE  TypeOK' /\ Accounted'
  BY <1>3, AgeStep
<1>4. ASSUME NEW d \in Deliveries, SendStep(d)
      PROVE  TypeOK' /\ Accounted'
  BY <1>4, SendStepKeeps, SendRaisesStep, RecordReadStep, RecordCommitStep DEF SendStep
<1>5. ASSUME NEW d \in Deliveries, RecordFault(d)
      PROVE  TypeOK' /\ Accounted'
  BY <1>5, RecordFaultStep
<1>6. CASE \/ TickEnd
           \/ \E c \in Channels : DeleteChannel(c) \/ EditRead(c) \/ EditCommit(c)
  BY <1>6, OtherSteps
<1>7. CASE Claim
  BY <1>7, ClaimStep
<1>8. CASE Crash
  BY <1>8, CrashStep
<1> QED BY <1>1, <1>2, <1>3, <1>4, <1>5, <1>6, <1>7, <1>8 DEF Next

-----------------------------------------------------------------------------
(* Counters of failures *)

\* d fails in this step.
Fails(d) == delivery[d].status # "failed" /\ delivery'[d].status = "failed"

\* What a step does to failed deliveries and to the counters of failures: a
\* counter grows, and the breaker opens, only when a delivery fails.
FailureStep ==
    /\ \A d \in Deliveries :
          delivery[d].status = "failed" => delivery'[d].status = "failed"
    /\ \A d \in Deliveries :
          item'[d].failures \in {0, item[d].failures, channel[ChannelOf(d)].failures}
    /\ \A c \in Channels :
          \/ channel'[c].failures \in {0, channel[c].failures}
          \/ \E d \in Deliveries :
               /\ ChannelOf(d) = c /\ Fails(d)
               /\ channel'[c].failures = item[d].failures + 1
    /\ \A c \in Channels :
          channel[c].enabled /\ ~channel'[c].enabled /\ edit' = edit =>
            \E d \in Deliveries : /\ ChannelOf(d) = c /\ Fails(d)
                                 /\ item[d].failures + 1 >= Threshold

\* A step that leaves the channels alone, keeps failed rows and begins or ends
\* sends.
LEMMA QuietStep ==
    ASSUME UNCHANGED channel,
           \A d \in Deliveries :
               /\ delivery[d].status = "failed" => delivery'[d].status = "failed"
               /\ item'[d].failures
                    \in {0, item[d].failures, channel[ChannelOf(d)].failures}
    PROVE  FailureStep
BY DEF FailureStep

\* So does every other step, except that recording may fail a delivery.
LEMMA FailureSteps ==
    ASSUME TypeOK, Accounted, [Next]_vars
    PROVE  FailureStep
<1>0. NoItem.failures = 0 /\ (\A resolves : Begun(resolves).failures = 0)
      /\ \A result, caught : Replied(result, caught).failures = 0
  BY DEF NoItem, Begun, Replied
<1>1. CASE UNCHANGED vars
  BY <1>1, QuietStep DEF vars
<1>2. ASSUME NEW e \in Events, Enqueue(e)
      PROVE  FailureStep
  <2>1. PICK S \in SUBSET {c \in Channels : channel[c].exists /\ channel[c].enabled} :
          delivery' = [d \in Deliveries |-> IF d \in {e} \X S THEN Fresh
                                            ELSE delivery[d]]
    BY <1>2 DEF Enqueue, Fresh
  <2>2. \A d \in Deliveries : d \in {e} \X S => delivery[d].status = "none"
    BY <1>2, <2>1 DEF Enqueue
  <2>3. \A d \in Deliveries :
          delivery[d].status = "failed" => delivery'[d].status = "failed"
    BY <2>1, <2>2
  <2> QED BY <1>2, <2>3, QuietStep DEF Enqueue
<1>3. ASSUME NEW d \in Deliveries, Prune(d) \/ Elapse(d)
      PROVE  FailureStep
  <2>1. PICK row \in {Pruned(delivery[d]), Ripened(delivery[d])} :
          delivery' = [delivery EXCEPT ![d] = row]
    BY <1>3 DEF Prune, Elapse, Pruned, Ripened
  <2>2. row.status = delivery[d].status
    <3>1. CASE row = Pruned(delivery[d])
      BY <3>1, Types DEF Pruned, Row
    <3>2. CASE row = Ripened(delivery[d])
      BY <3>2, Types DEF Ripened, Row
    <3> QED BY <3>1, <3>2
  <2>3. \A e \in Deliveries :
          delivery[e].status = "failed" => delivery'[e].status = "failed"
    BY <2>1, <2>2, Types
  <2> QED BY <1>3, <2>3, QuietStep DEF Prune, Elapse
<1>4. CASE Claim
  <2>1. PICK S \in SUBSET Due :
          /\ delivery' = [d \in Deliveries |-> IF d \in S THEN Taken(delivery[d])
                                               ELSE delivery[d]]
          /\ item' = [d \in Deliveries |-> IF d \in S
                               THEN Begun(channel[ChannelOf(d)].resolves)
                               ELSE item[d]]
    BY <1>4 DEF Claim, Taken, Begun
  <2>2. \A d \in S : delivery[d].status # "failed"
    BY DEF Due
  <2>3. \A d \in Deliveries :
          /\ delivery[d].status = "failed" => delivery'[d].status = "failed"
          /\ item'[d].failures \in {0, item[d].failures}
    BY <1>0, <2>1, <2>2
  <2> QED BY <1>4, <2>3, QuietStep DEF Claim
<1>5. ASSUME NEW d \in Deliveries, Send(d) \/ SendRaises(d) \/ RecordFault(d)
      PROVE  FailureStep
  <2>1. PICK new : item' = [item EXCEPT ![d] = new] /\ new.failures = 0
    <3>1. CASE Send(d)
      <4>1. \E result \in Results, caught \in BOOLEAN : Answer(d, result, caught)
        <5>1. CASE Answer(d, "permanent", FALSE)
          BY <5>1 DEF Results
        <5>2. CASE Request(d)
          <6> HIDE DEF Answer
          <6> QED BY <5>2 DEF Request, Results
        <5> QED BY <3>1, <5>1, <5>2 DEF Send
      <4>2. PICK result, caught : item' = [item EXCEPT ![d] = Replied(result, caught)]
        BY <4>1 DEF Answer, Replied
      <4>3. Replied(result, caught).failures = 0
        BY <1>0
      <4> QED BY <4>2, <4>3
    <3>2. CASE RecordFault(d)
      <4>1. \/ item' = [item EXCEPT ![d] = Replied("error", FALSE)]
            \/ item' = [item EXCEPT ![d] = NoItem]
        BY <3>2 DEF RecordFault, Answer, Replied
      <4> QED BY <1>0, <4>1
    <3>3. CASE SendRaises(d)
      BY <1>0, <3>3 DEF SendRaises
    <3> QED BY <1>5, <3>1, <3>2, <3>3
  <2>2. \A e \in Deliveries : item'[e].failures \in {0, item[e].failures}
    BY <2>1, Types
  <2>3. UNCHANGED <<delivery, channel>>
    BY <1>5 DEF Send, SendRaises, RecordFault
  <2> QED BY <2>2, <2>3, QuietStep
<1>6. ASSUME NEW d \in Deliveries, RecordRead(d)
      PROVE  FailureStep
  <2> DEFINE c == ChannelOf(d)
             new == Reading(item[d], channel[c].failures, channel[c].enabled)
  <2>1. item' = [item EXCEPT ![d] = new] /\ UNCHANGED <<delivery, channel>>
    BY <1>6 DEF RecordRead, Reading
  <2>2. new.failures = channel[c].failures
    BY Types DEF Reading, Item
  <2> HIDE DEF new
  <2>3. \A e \in Deliveries :
          item'[e].failures \in {0, item[e].failures, channel[ChannelOf(e)].failures}
    BY <2>1, <2>2, Types
  <2> QED BY <2>1, <2>3, QuietStep
<1>7. ASSUME NEW d \in Deliveries, RecordCommit(d)
      PROVE  FailureStep
  <2> DEFINE c == ChannelOf(d)
             row == Recorded(delivery[d], item[d].result)
             new == Counted(channel[c], item[d], row.status)
  <2>1. /\ delivery[d].status = "sending"
        /\ row.status \in {"pending", "sent", "failed"}
        /\ channel[c] \in ChannelRow /\ item[d] \in Item
        /\ delivery' = [delivery EXCEPT ![d] = row]
        /\ channel' = [channel EXCEPT ![c] = new]
        /\ item' = [item EXCEPT ![d] = NoItem]
    BY <1>7, RecordCommitEffect
  <2>2. /\ \/ new.failures \in {0, channel[c].failures}
           \/ row.status = "failed" /\ new.failures = item[d].failures + 1
        /\ channel[c].enabled /\ ~new.enabled =>
             row.status = "failed" /\ item[d].failures + 1 >= Threshold
    <3> HIDE DEF c, row
    <3> QED BY <2>1, CountedChannel
  <2> HIDE DEF c, row, new
  <2>3. c = ChannelOf(d) /\ c \in Channels
    BY Types DEF c
  <2>4. Fails(d) <=> row.status = "failed"
    BY <2>1, Types DEF Fails
  <2>5. /\ channel'[c] = new
        /\ \A b \in Channels \ {c} : channel'[b] = channel[b]
    BY <2>1, <2>3, Types
  <2>6. \A e \in Deliveries :
          /\ delivery[e].status = "failed" => delivery'[e].status = "failed"
          /\ item'[e].failures \in {0, item[e].failures}
    BY <1>0, <2>1, Types
  <2> QED BY <2>2, <2>3, <2>4, <2>5, <2>6 DEF FailureStep
<1>8. CASE Crash
  BY <1>0, <1>8, QuietStep DEF Crash
<1>9. CASE TickEnd \/ \E c \in Channels : EditRead(c)
  BY <1>9, QuietStep DEF TickEnd, EditRead
<1>10. ASSUME NEW c \in Channels, DeleteChannel(c)
       PROVE  FailureStep
  <2>1. /\ UNCHANGED <<delivery, item>>
        /\ channel' = [channel EXCEPT ![c].exists = FALSE]
    BY <1>10 DEF DeleteChannel
  <2>2. \A b \in Channels : /\ channel'[b].failures = channel[b].failures
                            /\ channel'[b].enabled = channel[b].enabled
    BY <2>1, Types DEF ChannelRow
  <2> QED BY <2>1, <2>2 DEF FailureStep
<1>11. ASSUME NEW c \in Channels, EditCommit(c)
       PROVE  FailureStep
  <2>1. PICK new \in ChannelRow : /\ channel' = [channel EXCEPT ![c] = new]
                                 /\ new.failures \in {0, channel[c].failures}
    BY <1>11, EditedChannel
  <2>2. UNCHANGED <<delivery, item>> /\ edit' # edit
    BY <1>11 DEF EditCommit, NoEdit
  <2>3. \A b \in Channels : channel'[b].failures \in {0, channel[b].failures}
    BY <2>1, Types
  <2> QED BY <2>2, <2>3 DEF FailureStep
<1> QED BY <1>1, <1>2, <1>3, <1>4, <1>5, <1>6, <1>7, <1>8, <1>9, <1>10, <1>11
        DEF Next, SendStep

\* The failed deliveries of a channel are finitely many, and become no fewer.
LEMMA FailedGrow ==
    ASSUME FailureStep, NEW c \in Channels
    PROVE  /\ Cardinality(FailedOf(c)) \in Nat
           /\ Cardinality(FailedOf(c))' \in Nat
           /\ Cardinality(FailedOf(c)) <= Cardinality(FailedOf(c))'
           /\ \A d \in Deliveries : ChannelOf(d) = c /\ Fails(d) =>
                Cardinality(FailedOf(c)) + 1 <= Cardinality(FailedOf(c))'
<1>1. IsFiniteSet(Deliveries)
  BY ChannelsAssumption, FS_Product DEF Deliveries
<1>2. FailedOf(c) \subseteq Deliveries /\ FailedOf(c)' \subseteq Deliveries
  BY DEF FailedOf
<1>3. IsFiniteSet(FailedOf(c)) /\ IsFiniteSet(FailedOf(c)')
  BY <1>1, <1>2, FS_Subset
<1>4. FailedOf(c) \subseteq FailedOf(c)'
  BY DEF FailedOf, FailureStep
<1>5. Cardinality(FailedOf(c)) \in Nat /\ Cardinality(FailedOf(c)') \in Nat
  BY <1>3, FS_CardinalityType
<1>6. Cardinality(FailedOf(c)) <= Cardinality(FailedOf(c)')
  BY <1>3, <1>4, FS_Subset
<1>7. ASSUME NEW d \in Deliveries, ChannelOf(d) = c, Fails(d)
      PROVE  Cardinality(FailedOf(c)) + 1 <= Cardinality(FailedOf(c)')
  <2>1. d \notin FailedOf(c) /\ d \in FailedOf(c)'
    BY <1>7 DEF FailedOf, Fails
  <2>2. FailedOf(c) \cup {d} \subseteq FailedOf(c)'
    BY <1>4, <2>1
  <2>3. Cardinality(FailedOf(c) \cup {d}) = Cardinality(FailedOf(c)) + 1
    BY <1>3, <2>1, FS_AddElement
  <2>4. Cardinality(FailedOf(c) \cup {d}) <= Cardinality(FailedOf(c)')
    BY <1>3, <2>2, FS_Subset
  <2> QED BY <2>3, <2>4
<1> QED BY <1>5, <1>6, <1>7

\* The counters stay below the number of failed deliveries.
LEMMA CountingStep ==
    ASSUME TypeOK, Counting, FailureStep, TypeOK'
    PROVE  Counting'
<1>1. ASSUME NEW c \in Channels
      PROVE  channel'[c].failures <= Cardinality(FailedOf(c))'
  <2>1. /\ Cardinality(FailedOf(c)) \in Nat /\ Cardinality(FailedOf(c))' \in Nat
        /\ Cardinality(FailedOf(c)) <= Cardinality(FailedOf(c))'
        /\ channel[c].failures <= Cardinality(FailedOf(c))
        /\ channel[c].failures \in Nat /\ channel'[c].failures \in Nat
    BY FailedGrow, Types DEF Counting, TypeOK, ChannelRow
  <2>2. CASE channel'[c].failures \in {0, channel[c].failures}
    BY <2>1, <2>2
  <2>3. ASSUME NEW d \in Deliveries, ChannelOf(d) = c, Fails(d),
               channel'[c].failures = item[d].failures + 1
        PROVE  channel'[c].failures <= Cardinality(FailedOf(c))'
    <3>1. Cardinality(FailedOf(c)) + 1 <= Cardinality(FailedOf(c))'
      BY <2>3, FailedGrow
    <3>2. item[d].failures <= Cardinality(FailedOf(c)) /\ item[d].failures \in Nat
      BY <2>3, Types DEF Counting, Item
    <3> QED BY <2>1, <2>3, <3>1, <3>2
  <2> QED BY <2>2, <2>3 DEF FailureStep
<1>2. ASSUME NEW d \in Deliveries
      PROVE  item'[d].failures <= Cardinality(FailedOf(ChannelOf(d)))'
  <2> DEFINE c == ChannelOf(d)
  <2>1. c \in Channels
    BY Types
  <2>2. /\ item[d].failures <= Cardinality(FailedOf(c))
        /\ channel[c].failures <= Cardinality(FailedOf(c))
        /\ item[d].failures \in Nat /\ channel[c].failures \in Nat
    BY <2>1, Types DEF Counting, Item, ChannelRow
  <2>3. item'[d].failures \in {0, item[d].failures, channel[c].failures}
    BY DEF FailureStep
  <2> HIDE DEF c
  <2>4. /\ Cardinality(FailedOf(c)) \in Nat /\ Cardinality(FailedOf(c))' \in Nat
        /\ Cardinality(FailedOf(c)) <= Cardinality(FailedOf(c))'
    BY <2>1, FailedGrow
  <2>5. item'[d].failures <= Cardinality(FailedOf(c))'
    BY <2>2, <2>3, <2>4
  <2> QED BY <2>5 DEF c
<1> QED BY <1>1, <1>2 DEF Counting

\* Only its own recording makes a delivery fail.
LEMMA OnlyRecordingFails ==
    ASSUME TypeOK, Accounted, Next, NEW d \in Deliveries, Fails(d)
    PROVE  RecordCommit(d)
<1>1. ASSUME NEW e \in Events, Enqueue(e)
      PROVE  FALSE
  <2>1. delivery'[d] \in {delivery[d], Fresh}
    BY <1>1 DEF Enqueue, Fresh
  <2> QED BY <2>1 DEF Fails, Fresh, NoRow
<1>2. ASSUME NEW e \in Deliveries, Prune(e) \/ Elapse(e)
      PROVE  FALSE
  <2>1. delivery'[d] \in {delivery[d], Pruned(delivery[d]), Ripened(delivery[d])}
    BY <1>2, Types DEF Prune, Elapse, Pruned, Ripened
  <2>2. /\ Pruned(delivery[d]).status = delivery[d].status
        /\ Ripened(delivery[d]).status = delivery[d].status
    BY Types DEF Pruned, Ripened, Row
  <2> QED BY <2>1, <2>2 DEF Fails
<1>3. CASE Claim
  <2>1. delivery'[d] \in {delivery[d], Taken(delivery[d])}
    BY <1>3 DEF Claim, Taken
  <2>2. Taken(delivery[d]).status = "sending"
    BY Types DEF Taken, Row
  <2> QED BY <2>1, <2>2 DEF Fails
<1>4. ASSUME NEW e \in Deliveries, RecordCommit(e), e # d
      PROVE  FALSE
  <2>1. delivery'[d] = delivery[d]
    BY <1>4, Types, RecordCommitEffect
  <2> QED BY <2>1 DEF Fails
<1>5. ASSUME UNCHANGED delivery
      PROVE  FALSE
  BY <1>5 DEF Fails
<1>6. CASE \/ TickEnd \/ Crash
           \/ \E c \in Channels : DeleteChannel(c) \/ EditRead(c) \/ EditCommit(c)
           \/ \E e \in Deliveries :
                Send(e) \/ SendRaises(e) \/ RecordRead(e) \/ RecordFault(e)
  BY <1>5, <1>6 DEF TickEnd, Crash, DeleteChannel, EditRead, EditCommit, Send,
                    SendRaises, RecordRead, RecordFault
<1> QED BY <1>1, <1>2, <1>3, <1>4, <1>6 DEF Next, SendStep

-----------------------------------------------------------------------------
(* Theorems *)

\* The initial state.
LEMMA InitInv == Init => Inv
<1> SUFFICES ASSUME Init PROVE Inv
  OBVIOUS
<1>1. /\ NoRow \in Row /\ NoItem \in Item
      /\ \A r \in BOOLEAN : /\ [FreshChannel EXCEPT !.resolves = r] \in ChannelRow
                            /\ [FreshChannel EXCEPT !.resolves = r].failures = 0
      /\ NoEdit \in Edits
  BY DEF NoRow, Row, NoItem, Item, Results, FreshChannel, ChannelRow, NoEdit,
         Edits
<1>2. TypeOK
  BY <1>1 DEF Init, TypeOK
<1>3. Accounted
  BY DEF Init, Accounted, Sound, NoRow, NoItem
<1>4. ASSUME NEW c \in Channels
      PROVE  0 <= Cardinality(FailedOf(c))
  <2>1. FailedOf(c) = {}
    BY DEF Init, FailedOf, NoRow
  <2> QED BY <2>1, FS_EmptySet
<1>5. Counting
  <2>1. \A c \in Channels : channel[c].failures = 0
    <3>1. \A c \in Channels :
            channel[c] \in {[FreshChannel EXCEPT !.resolves = r] : r \in BOOLEAN}
      BY DEF Init
    <3> QED BY <1>1, <3>1
  <2>2. \A d \in Deliveries : item[d].failures = 0
    BY DEF Init, NoItem
  <2> QED BY <1>2, <1>4, <2>1, <2>2, Types DEF Counting
<1> QED BY <1>2, <1>3, <1>5 DEF Inv

\* Every reachable state is well typed, accounts for what was delivered and
\* requested, and counts no more failures than there were.
THEOREM OutboxInvariant == Spec => []Inv
<1>1. Init => Inv
  BY InitInv
<1>2. Inv /\ [Next]_vars => Inv'
  BY NextKeeps, FailureSteps, CountingStep DEF Inv
<1> QED BY <1>1, <1>2, PTL DEF Spec

\* The variables keep their types.
THEOREM TypeCorrect == Spec => []TypeOK
<1>1. Inv => TypeOK
  BY DEF Inv
<1> QED BY <1>1, OutboxInvariant, PTL

\* A receiver accepts a message (_send_one) again only when the record of an
\* acceptance was lost.
THEOREM RepeatsArePaidFor == Spec => []RepeatsPaidFor
<1>1. ASSUME Inv, NEW d \in Deliveries
      PROVE  delivered[d] <= 1 + lost[d]
  BY <1>1, Types DEF Inv, Accounted, Sound
<1>2. Inv => RepeatsPaidFor
  BY <1>1 DEF RepeatsPaidFor
<1> QED BY <1>2, OutboxInvariant, PTL

\* _record_result gives a message up only when it cannot be sent or after
\* MaxAttempts requests for it.
THEOREM GivesUpAfterAllAttempts == Spec => GivenUpAfterAllAttempts
<1> DEFINE GivesUp ==
             \A d \in Deliveries :
               (delivery[d].status # "failed" /\ delivery'[d].status = "failed")
                 => \/ item[d].result = "permanent"
                    \/ sends[d] >= MaxAttempts
<1>1. ASSUME Inv, Next
      PROVE  GivesUp
  <2> SUFFICES ASSUME NEW d \in Deliveries, Fails(d)
               PROVE  item[d].result = "permanent" \/ sends[d] >= MaxAttempts
    BY DEF Fails
  <2>1. RecordCommit(d)
    BY <1>1, OnlyRecordingFails DEF Inv
  <2>2. /\ delivery[d] \in Row /\ item[d].result \in Results
        /\ delivery'[d] = Recorded(delivery[d], item[d].result)
        /\ item[d].pc = "read" /\ sends[d] \in Nat
    BY <1>1, <2>1, RecordCommitEffect, Types DEF Inv
  <2>3. \/ item[d].result = "permanent"
        \/ /\ item[d].result \in {"none", "error"}
           /\ delivery[d].attempts + 1 >= MaxAttempts
    BY <2>2, RecordedRow DEF Fails
  <2>4. item[d].result # "none"
    BY <1>1, <2>2 DEF Inv, Accounted, Sound
  <2>5. item[d].result = "error" => delivery[d].attempts + 1 <= sends[d]
    BY <1>1 DEF Inv, Accounted, Sound
  <2>6. delivery[d].attempts \in Nat
    BY <2>2 DEF Row
  <2> QED BY <2>2, <2>3, <2>4, <2>5, <2>6, BoundsAssumption
<1>2. Inv /\ [Next]_vars => [GivesUp]_vars
  BY <1>1
<1> QED BY <1>2, OutboxInvariant, PTL DEF Spec, GivenUpAfterAllAttempts

\* The breaker of _record_result opens only when Threshold deliveries of its
\* channel have failed, whatever the recordings that overlapped had read.
THEOREM BreakerIsNotEarly == Spec => BreakerNotEarly
<1> DEFINE NotEarly ==
             \A c \in Channels :
               (channel[c].enabled /\ ~channel'[c].enabled /\ edit' = edit)
                 => Threshold <= Cardinality({d \in Deliveries :
                      ChannelOf(d) = c /\ delivery'[d].status = "failed"})
<1>1. ASSUME Inv, Next
      PROVE  NotEarly
  <2> SUFFICES ASSUME NEW c \in Channels,
                      channel[c].enabled /\ ~channel'[c].enabled /\ edit' = edit
               PROVE  Threshold <= Cardinality(FailedOf(c))'
    BY DEF FailedOf
  <2>1. FailureStep
    BY <1>1, FailureSteps DEF Inv
  <2>2. PICK d \in Deliveries : /\ ChannelOf(d) = c /\ Fails(d)
                               /\ item[d].failures + 1 >= Threshold
    BY <2>1 DEF FailureStep
  <2>3. item[d].failures <= Cardinality(FailedOf(c)) /\ item[d].failures \in Nat
    BY <1>1, <2>2, Types DEF Inv, Counting, Item
  <2>4. /\ Cardinality(FailedOf(c)) \in Nat /\ Cardinality(FailedOf(c))' \in Nat
        /\ Cardinality(FailedOf(c)) + 1 <= Cardinality(FailedOf(c))'
    BY <2>1, <2>2, FailedGrow
  <2> QED BY <2>2, <2>3, <2>4, BoundsAssumption
<1>2. Inv /\ [Next]_vars => [NotEarly]_vars
  BY <1>1
<1> QED BY <1>2, OutboxInvariant, PTL DEF Spec, BreakerNotEarly

-----------------------------------------------------------------------------
(* At-least-once delivery *)

\* The messages of the channels whose URL raises.
Stuck == [d \in Deliveries |-> ~channel[ChannelOf(d)].resolves]

\* A step that changes no status and hands nothing over is at most an edit of a URL.
LEMMA Stutter ==
    ASSUME \A d \in Deliveries : StatusOf(d)' = StatusOf(d), UNCHANGED delivered
    PROVE  Abstract!Next
<1>1. Stuck' \in [Deliveries -> BOOLEAN]
  BY DEF Stuck
<1>2. Abstract!Hold
  BY <1>1 DEF Abstract!Hold, Stuck
<1> QED BY <1>2 DEF Abstract!Next

\* A step that settles one message.
LEMMA Settles ==
    ASSUME NEW d \in Deliveries, StatusOf(d) = "open", UNCHANGED delivered,
           \A e \in Deliveries \ {d} : StatusOf(e)' = StatusOf(e), UNCHANGED Stuck,
           \/ StatusOf(d)' = "sent" /\ delivered[d] > 0
           \/ StatusOf(d)' = "failed"
    PROVE  Abstract!Next
<1> DEFINE s == [e \in Deliveries |-> StatusOf(e)]
<1>1. CASE StatusOf(d)' = "sent" /\ delivered[d] > 0
  <2>1. s' = [s EXCEPT ![d] = "sent"]
    BY <1>1
  <2>2. Abstract!Settle(d)
    BY <1>1, <2>1 DEF Abstract!Settle, Stuck
  <2> QED BY <2>2 DEF Abstract!Next
<1>2. CASE StatusOf(d)' = "failed"
  <2>1. s' = [s EXCEPT ![d] = "failed"]
    BY <1>2
  <2>2. Abstract!GiveUp(d)
    BY <2>1 DEF Abstract!GiveUp, Stuck
  <2> QED BY <2>2 DEF Abstract!Next
<1> QED BY <1>1, <1>2

\* Every step of the outbox is one of at-least-once delivery, or a stutter.
LEMMA StepRefines ==
    ASSUME TypeOK, Accounted, [Next]_vars
    PROVE  [Abstract!Next]_(Abstract!vars)
<1> DEFINE s == [d \in Deliveries |-> StatusOf(d)]
<1>0. channel' = channel => Stuck' = Stuck
  BY DEF Stuck
<1>1. CASE UNCHANGED vars
  BY <1>1, Stutter DEF vars, StatusOf
<1>2. ASSUME NEW e \in Events, Enqueue(e)
      PROVE  Abstract!Next
  <2>1. PICK S \in SUBSET {c \in Channels : channel[c].exists /\ channel[c].enabled} :
          delivery' = [d \in Deliveries |-> IF d \in {e} \X S THEN Fresh
                                            ELSE delivery[d]]
    BY <1>2 DEF Enqueue, Fresh
  <2> DEFINE M == {e} \X S
  <2>2. M \in SUBSET Deliveries /\ \A d \in M : delivery[d].status = "none"
    BY <1>2, <2>1 DEF Enqueue, Deliveries
  <2>3. Fresh.status = "pending"
    BY DEF Fresh, NoRow
  <2>4. s' = [d \in Deliveries |-> IF d \in M THEN "open" ELSE s[d]]
    BY <2>1, <2>3 DEF StatusOf
  <2>5. \A d \in M : s[d] = "none"
    BY <2>2 DEF StatusOf
  <2> HIDE DEF M
  <2>6. delivered' = delivered /\ Stuck' = Stuck
    BY <1>0, <1>2 DEF Enqueue, Histories
  <2>7. Abstract!Add(M)
    BY <2>4, <2>5, <2>6 DEF Abstract!Add, Stuck
  <2> QED BY <2>2, <2>7 DEF Abstract!Next
<1>3. ASSUME NEW d \in Deliveries, Prune(d) \/ Elapse(d)
      PROVE  [Abstract!Next]_(Abstract!vars)
  <2>1. PICK row \in {Pruned(delivery[d]), Ripened(delivery[d])} :
          delivery' = [delivery EXCEPT ![d] = row]
    BY <1>3 DEF Prune, Elapse, Pruned, Ripened
  <2>2. /\ Pruned(delivery[d]).status = delivery[d].status
        /\ Ripened(delivery[d]).status = delivery[d].status
    BY Types DEF Pruned, Ripened, Row
  <2>3. row.status = delivery[d].status
    BY <2>1, <2>2
  <2>4. \A e \in Deliveries : delivery'[e].status = delivery[e].status
    BY <2>1, <2>3, Types
  <2> QED BY <1>3, <2>4, Stutter DEF Prune, Elapse, Histories, StatusOf
<1>4. CASE Claim
  <2>1. PICK S \in SUBSET Due :
          delivery' = [d \in Deliveries |-> IF d \in S THEN Taken(delivery[d])
                                            ELSE delivery[d]]
    BY <1>4 DEF Claim, Taken
  <2>2. \A d \in Deliveries : Taken(delivery[d]).status = "sending"
    BY Types DEF Taken, Row
  <2>3. \A d \in Deliveries : StatusOf(d)' = StatusOf(d)
    BY <2>1, <2>2 DEF StatusOf, Due
  <2> QED BY <1>4, <2>3, Stutter DEF Claim, Histories
<1>5. ASSUME NEW d \in Deliveries, Send(d)
      PROVE  [Abstract!Next]_(Abstract!vars)
  <2>1. s' = s
    BY <1>5 DEF Send, StatusOf
  <2>2. StatusOf(d) = "open"
    BY <1>5 DEF Send, Accounted, Sound, StatusOf
  <2>3. /\ delivered' = delivered \/ delivered' = [delivered EXCEPT ![d] = @ + 1]
        /\ Stuck' = Stuck
    BY <1>0, <1>5 DEF Send, Request, Histories
  <2>4. CASE delivered' = [delivered EXCEPT ![d] = @ + 1]
    <3>1. Abstract!Deliver(d)
      BY <2>1, <2>2, <2>3, <2>4 DEF Abstract!Deliver, Stuck
    <3> QED BY <3>1 DEF Abstract!Next
  <2>5. CASE delivered' = delivered
    BY <2>1, <2>3, <2>5 DEF Abstract!vars, Stuck
  <2> QED BY <2>3, <2>4, <2>5
<1>6. ASSUME NEW d \in Deliveries, RecordCommit(d)
      PROVE  [Abstract!Next]_(Abstract!vars)
  <2> DEFINE row == Recorded(delivery[d], item[d].result)
  <2>1. /\ delivery[d] \in Row /\ item[d].result \in Results
        /\ delivery[d].status = "sending"
        /\ row.status \in {"pending", "sent", "failed"}
        /\ delivery' = [delivery EXCEPT ![d] = row]
        /\ UNCHANGED delivered
    BY <1>6, RecordCommitEffect
  <2>2. row.status = "sent" => delivered[d] > 0
    BY <2>1, RecordedRow DEF Accounted, Sound
  <2>7. Stuck' = Stuck
    <3> DEFINE b == ChannelOf(d)
    <3>1. /\ channel[b] \in ChannelRow /\ item[d] \in Item /\ b \in Channels
          /\ channel' = [channel EXCEPT ![b] = Counted(channel[b], item[d], row.status)]
      BY <1>6, RecordCommitEffect, Types
    <3>2. Counted(channel[b], item[d], row.status).resolves = channel[b].resolves
      <4> HIDE DEF b, row
      <4> QED BY <2>1, <3>1, CountedChannel
    <3>3. \A c \in Channels : channel'[c].resolves = channel[c].resolves
      <4> HIDE DEF b, row
      <4> QED BY <3>1, <3>2, Types
    <3> QED BY <3>3, Types DEF Stuck
  <2> HIDE DEF row
  <2>3. /\ StatusOf(d) = "open"
        /\ StatusOf(d)' = IF row.status = "pending" THEN "open" ELSE row.status
    BY <2>1, Types DEF StatusOf
  <2>4. \A e \in Deliveries \ {d} : StatusOf(e)' = StatusOf(e)
    BY <2>1, Types DEF StatusOf
  <2>5. CASE row.status = "pending"
    BY <2>1, <2>3, <2>4, <2>5, Stutter
  <2>6. CASE row.status \in {"sent", "failed"}
    BY <2>1, <2>2, <2>3, <2>4, <2>6, <2>7, Settles
  <2> QED BY <2>1, <2>5, <2>6
<1>7. CASE \/ TickEnd \/ Crash
           \/ \E c \in Channels : DeleteChannel(c) \/ EditRead(c) \/ EditCommit(c)
           \/ \E e \in Deliveries : SendRaises(e) \/ RecordRead(e) \/ RecordFault(e)
  <2>1. UNCHANGED <<delivery, delivered>>
    BY <1>7 DEF TickEnd, Crash, DeleteChannel, EditRead, EditCommit, SendRaises,
                RecordRead, RecordFault, Histories
  <2> QED BY <2>1, Stutter DEF StatusOf
<1> QED BY <1>1, <1>2, <1>3, <1>4, <1>5, <1>6, <1>7 DEF Next, SendStep

\* The outbox implements the safety part of AtLeastOnce: no message is settled
\* as sent before the receiver accepted it, and none is sent after it is settled.
THEOREM SafelyImplementsAtLeastOnce == Spec => Abstract!Spec
<1>1. Init => Abstract!Init
  BY DEF Init, Abstract!Init, StatusOf, NoRow
<1>2. Inv /\ [Next]_vars => [Abstract!Next]_(Abstract!vars)
  BY StepRefines DEF Inv
<1> QED BY <1>1, <1>2, OutboxInvariant, PTL DEF Spec, Abstract!Spec
=============================================================================
