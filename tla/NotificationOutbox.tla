------------------------- MODULE NotificationOutbox -------------------------
(***************************************************************************)
(* Outbound notifications (services/notifications.py): an event adds one   *)
(* delivery row per subscribed channel in the transaction that caused it,  *)
(* and one dispatcher loop claims due rows, sends them concurrently and    *)
(* records each outcome in a worker thread of its own.  Recording reads    *)
(* the delivery and its channel and commits the columns it changed.        *)
(***************************************************************************)
EXTENDS Naturals, FiniteSets

CONSTANTS
    Events,       \* events that are announced
    Channels,     \* configured channels
    MaxAttempts,  \* _MAX_ATTEMPTS, one more than the length of _BACKOFF_SECONDS
    Threshold,    \* _CIRCUIT_BREAKER_THRESHOLD
    BatchSize,    \* _BATCH_SIZE, rows claimed by one tick
    MaxMishaps,   \* bound on crashes, failing writes and rate limits together
    MaxChanges    \* bound on edits of channels

ASSUME ChannelsAssumption == IsFiniteSet(Events) /\ IsFiniteSet(Channels)
ASSUME BoundsAssumption ==
    /\ MaxAttempts \in Nat \ {0} /\ Threshold \in Nat \ {0}
    /\ BatchSize \in Nat \ {0} /\ MaxMishaps \in Nat /\ MaxChanges \in Nat

VARIABLES
    delivery,   \* delivery[d]: the outbox row of d
    channel,    \* channel[c]: the row of channel c
    item,       \* item[d]: the send of d that is under way
    edit,       \* the request that edits a channel
    busy,       \* the dispatcher waits for the sends of its tick
    delivered,  \* history: times the receiver accepted d
    sends,      \* history: requests for d that were not recorded as rate-limited
    lost,       \* history: acceptances of d nobody recorded
    used        \* how much of each bound has been used

vars == <<delivery, channel, item, edit, busy, delivered, sends, lost, used>>

Deliveries == Events \X Channels
ChannelOf(d) == d[2]

-----------------------------------------------------------------------------
\* ripe: next_retry_at has come, or, of a row in SENDING, updated_at is older
\* than _STUCK_SENDING_SECONDS.
Row == [status : {"none", "pending", "sending", "sent", "failed"},
        attempts : Nat, ripe : BOOLEAN, pruned : BOOLEAN]
NoRow == [status |-> "none", attempts |-> 0, ripe |-> FALSE, pruned |-> FALSE]

\* resolves: resolve_public_target resolves the channel's URL or refuses it.  A URL
\* whose port is out of range, or whose host has no ASCII form, does neither: the
\* error is not one that _send_one expects.
ChannelRow == [exists : BOOLEAN, enabled : BOOLEAN, failures : Nat, resolves : BOOLEAN]

\* A send under way: what came of the request, whether a recording that fails is
\* caught and tried again, the channel as the recording read it, and its URL as
\* the claim read it.
Results == {"none", "ok", "error", "limited", "permanent"}
Item == [pc : {"none", "claimed", "answered", "read"}, result : Results,
         caught : BOOLEAN, failures : Nat, enabled : BOOLEAN, resolves : BOOLEAN]
NoItem == [pc |-> "none", result |-> "none", caught |-> FALSE, failures |-> 0,
           enabled |-> FALSE, resolves |-> TRUE]

\* An edit under way: its channel, the values for enabled and for the URL, the
\* row it read.
FreshChannel == [exists |-> TRUE, enabled |-> TRUE, failures |-> 0, resolves |-> TRUE]
Edits == [channel : SUBSET Channels, to : BOOLEAN, resolves : BOOLEAN, row : ChannelRow]
NoEdit == [channel |-> {}, to |-> FALSE, resolves |-> TRUE, row |-> FreshChannel]

TypeOK ==
    /\ delivery \in [Deliveries -> Row]
    /\ channel \in [Channels -> ChannelRow]
    /\ item \in [Deliveries -> Item]
    /\ edit \in Edits
    /\ busy \in BOOLEAN
    /\ delivered \in [Deliveries -> Nat]
    /\ sends \in [Deliveries -> Nat]
    /\ lost \in [Deliveries -> Nat]
    /\ used \in [mishaps : Nat, changes : Nat]

Init ==
    /\ delivery = [d \in Deliveries |-> NoRow]
    /\ channel \in [Channels -> {[FreshChannel EXCEPT !.resolves = r] : r \in BOOLEAN}]
    /\ edit = NoEdit
    /\ item = [d \in Deliveries |-> NoItem]
    /\ busy = FALSE
    /\ delivered = [d \in Deliveries |-> 0]
    /\ sends = [d \in Deliveries |-> 0]
    /\ lost = [d \in Deliveries |-> 0]
    /\ used = [mishaps |-> 0, changes |-> 0]

Histories == <<delivered, sends, lost>>
Mishap == /\ used.mishaps < MaxMishaps
          /\ used' = [used EXCEPT !.mishaps = @ + 1]
Change == /\ used.changes < MaxChanges
          /\ used' = [used EXCEPT !.changes = @ + 1]

-----------------------------------------------------------------------------
(* Events and channels *)

\* enqueue_for_event: the enabled channels in S subscribe to e.
Enqueue(e) ==
    /\ \A c \in Channels : delivery[<<e, c>>].status = "none"
    /\ \E S \in SUBSET {c \in Channels : channel[c].exists /\ channel[c].enabled} :
         delivery' = [d \in Deliveries |->
                        IF d \in {e} \X S
                        THEN [NoRow EXCEPT !.status = "pending", !.ripe = TRUE]
                        ELSE delivery[d]]
    /\ UNCHANGED <<channel, edit, item, busy, Histories, used>>

\* update_channel with values for enabled and url runs in a request thread: it reads
\* the channel and commits the columns whose values differ from those it read.
\* An edit without such a value changes nothing.
EditRead(c) ==
    /\ edit = NoEdit
    /\ Change
    /\ channel[c].exists
    /\ \E to, resolves \in BOOLEAN :
         /\ to # channel[c].enabled \/ resolves # channel[c].resolves
         /\ edit' = [channel |-> {c}, to |-> to, resolves |-> resolves, row |-> channel[c]]
    /\ UNCHANGED <<delivery, channel, item, busy, Histories>>

EditCommit(c) ==
    /\ edit.channel = {c}
    /\ channel' = [channel EXCEPT
          ![c].enabled = IF edit.to # edit.row.enabled THEN edit.to ELSE @,
          ![c].failures = IF edit.to /\ ~edit.row.enabled /\ edit.row.failures # 0
                          THEN 0 ELSE @,
          ![c].resolves = IF edit.resolves # edit.row.resolves THEN edit.resolves ELSE @]
    /\ edit' = NoEdit
    /\ UNCHANGED <<delivery, item, busy, Histories, used>>

\* delete_channel: the foreign key of the deliveries refuses while one is left.
\* The commit of an edit that read the row fails.
DeleteChannel(c) ==
    /\ Change
    /\ channel[c].exists
    /\ \A d \in Deliveries : ChannelOf(d) = c =>
         delivery[d].status = "none" \/ delivery[d].pruned
    /\ channel' = [channel EXCEPT ![c].exists = FALSE]
    /\ edit' = IF edit.channel = {c} THEN NoEdit ELSE edit
    /\ UNCHANGED <<delivery, item, busy, Histories>>

\* prune_deliveries, run by the daily loop.
Prune(d) ==
    /\ delivery[d].status \in {"sent", "failed"} /\ ~delivery[d].pruned
    /\ delivery' = [delivery EXCEPT ![d].pruned = TRUE]
    /\ UNCHANGED <<channel, edit, item, busy, Histories, used>>

\* Time passes.  A send ends within its request timeouts, long before its row
\* counts as stuck.
Elapse(d) ==
    /\ delivery[d].status \in {"pending", "sending"} /\ ~delivery[d].ripe
    /\ item[d].pc = "none"
    /\ delivery' = [delivery EXCEPT ![d].ripe = TRUE]
    /\ UNCHANGED <<channel, edit, item, busy, Histories, used>>

-----------------------------------------------------------------------------
(* The dispatcher *)

\* Mutants: rows left in SENDING are never reclaimed, or at once.
DuePending == {d \in Deliveries : delivery[d].status = "pending" /\ delivery[d].ripe}
DueUnaged == DuePending \union {d \in Deliveries : delivery[d].status = "sending"}

Due == {d \in Deliveries :
          delivery[d].status \in {"pending", "sending"} /\ delivery[d].ripe}

\* _claim_due_deliveries: one tick claims a batch of due rows.
Claim ==
    /\ ~busy
    /\ \E S \in SUBSET Due :
         /\ S # {}
         /\ \/ Cardinality(S) = BatchSize
            \/ S = Due /\ Cardinality(S) < BatchSize
         /\ delivery' = [d \in Deliveries |->
                           IF d \in S THEN [delivery[d] EXCEPT !.status = "sending",
                                                               !.ripe = FALSE]
                           ELSE delivery[d]]
         /\ item' = [d \in Deliveries |->
                       IF d \in S
                       THEN [NoItem EXCEPT !.pc = "claimed",
                                           !.resolves = channel[ChannelOf(d)].resolves]
                       ELSE item[d]]
    /\ busy' = TRUE
    /\ UNCHANGED <<channel, edit, Histories, used>>

Answer(d, result, caught) ==
    item' = [item EXCEPT ![d] = [NoItem EXCEPT !.pc = "answered",
                                   !.result = result, !.caught = caught]]

\* The request of _send_one.
Request(d) ==
    \/ /\ delivered' = [delivered EXCEPT ![d] = @ + 1]
       /\ sends' = [sends EXCEPT ![d] = @ + 1]
       /\ \/ Answer(d, "ok", TRUE) /\ UNCHANGED lost
          \/ Answer(d, "error", FALSE) /\ lost' = [lost EXCEPT ![d] = @ + 1]
       /\ UNCHANGED used
    \/ /\ \E caught \in BOOLEAN : Answer(d, "error", caught)
       /\ sends' = [sends EXCEPT ![d] = @ + 1]
       /\ UNCHANGED <<delivered, lost, used>>
    \/ /\ Mishap
       /\ Answer(d, "limited", TRUE)
       /\ UNCHANGED Histories

\* _send_one: a message that cannot be rendered, or whose URL is refused, is not
\* sent.  The receiver may accept a request and the answer be lost, or refuse it,
\* or ask to be left alone for a while.  Answers are recorded inside the try, the
\* loss of one and a request that failed in its handler.
Send(d) ==
    /\ item[d].pc = "claimed"
    /\ \/ /\ Answer(d, "permanent", FALSE)
          /\ UNCHANGED <<Histories, used>>
       \/ /\ item[d].resolves
          /\ Request(d)
    /\ UNCHANGED <<delivery, channel, edit, busy>>

\* Outside the handlers of _send_one, an error of resolve_public_target ends the
\* tick: nothing is recorded, no attempt spent, and the other sends go on.
SendRaises(d) ==
    /\ item[d].pc = "claimed" /\ ~item[d].resolves
    /\ item' = [item EXCEPT ![d] = NoItem]
    /\ busy' = FALSE
    /\ UNCHANGED <<delivery, channel, edit, Histories, used>>

\* _record_result, up to its commit.
RecordRead(d) ==
    /\ item[d].pc = "answered"
    /\ item' = [item EXCEPT ![d].pc = "read",
                            ![d].failures = channel[ChannelOf(d)].failures,
                            ![d].enabled = channel[ChannelOf(d)].enabled]
    /\ UNCHANGED <<delivery, channel, edit, busy, Histories, used>>

\* The delivery after an attempt with this result.  Mutant: a rate limit spends
\* an attempt.
RecordedLimited(row, result) ==
    LET spent == row.attempts + 1 IN
    IF result = "ok" THEN [row EXCEPT !.status = "sent", !.attempts = spent]
    ELSE IF result = "permanent" \/ spent >= MaxAttempts
    THEN [row EXCEPT !.status = "failed", !.attempts = spent]
    ELSE [row EXCEPT !.status = "pending", !.attempts = spent]
Recorded(row, result) ==
    LET spent == [row EXCEPT !.attempts = @ + 1] IN
    CASE result = "ok" -> [spent EXCEPT !.status = "sent"]
      [] result = "limited" -> [row EXCEPT !.status = "pending"]
      [] result = "permanent" -> [spent EXCEPT !.status = "failed"]
      [] OTHER -> [spent EXCEPT !.status =
                     IF spent.attempts < MaxAttempts THEN "pending" ELSE "failed"]

\* The channel's columns that change, from the channel as it was read.
\* Mutants: every failure counts, also one that will be retried; a success
\* takes back one failure instead of all.
CountedAny(row, i, status) ==
    CASE status = "sent" -> [row EXCEPT !.failures = IF i.failures # 0 THEN 0 ELSE @]
      [] OTHER -> [row EXCEPT !.failures = i.failures + 1,
                              !.enabled = @ /\ i.failures + 1 < Threshold]
CountedBack(row, i, status) ==
    CASE status = "sent" -> [row EXCEPT !.failures = i.failures - 1]
      [] OTHER -> row
Counted(row, i, status) ==
    CASE status = "sent" -> [row EXCEPT !.failures = IF i.failures # 0 THEN 0 ELSE @]
      [] status = "failed" ->
           [row EXCEPT !.failures = i.failures + 1,
                       !.enabled = IF i.enabled /\ i.failures + 1 >= Threshold
                                   THEN FALSE ELSE @]
      [] OTHER -> row

\* _record_result, its commit.
RecordCommit(d) ==
    /\ item[d].pc = "read"
    /\ LET c == ChannelOf(d)
           row == Recorded(delivery[d], item[d].result)
       IN  /\ delivery' = [delivery EXCEPT ![d] = row]
           /\ channel' = [channel EXCEPT ![c] = Counted(channel[c], item[d], row.status)]
    /\ item' = [item EXCEPT ![d] = NoItem]
    /\ UNCHANGED <<edit, busy, Histories, used>>

\* Recording fails.  Inside the try of _send_one that is taken for a failure of
\* the request, also of a rate-limited one, and recorded as one; outside it ends
\* the tick, and the other sends go on without it.
RecordFault(d) ==
    /\ item[d].pc \in {"answered", "read"}
    /\ Mishap
    /\ IF item[d].caught
       THEN Answer(d, "error", FALSE) /\ UNCHANGED busy
       ELSE item' = [item EXCEPT ![d] = NoItem] /\ busy' = FALSE
    /\ lost' = [lost EXCEPT ![d] = IF item[d].result = "ok" THEN @ + 1 ELSE @]
    /\ sends' = [sends EXCEPT ![d] = IF item[d].result = "limited" THEN @ + 1 ELSE @]
    /\ UNCHANGED <<delivery, channel, edit, delivered>>

\* dispatch_due: every send of the tick has ended.
TickEnd ==
    /\ busy
    /\ \A d \in Deliveries : item[d].pc = "none"
    /\ busy' = FALSE
    /\ UNCHANGED <<delivery, channel, edit, item, Histories, used>>

\* The process dies and starts again.
Crash ==
    /\ Mishap
    /\ busy' = FALSE
    /\ edit' = NoEdit
    /\ item' = [d \in Deliveries |-> NoItem]
    /\ lost' = [d \in Deliveries |->
                  IF item[d].result = "ok" THEN lost[d] + 1 ELSE lost[d]]
    /\ UNCHANGED <<delivery, channel, delivered, sends>>

-----------------------------------------------------------------------------
SendStep(d) == Send(d) \/ SendRaises(d) \/ RecordRead(d) \/ RecordCommit(d)

Next ==
    \/ \E e \in Events : Enqueue(e)
    \/ \E c \in Channels :
         DeleteChannel(c) \/ EditRead(c) \/ EditCommit(c)
    \/ \E d \in Deliveries :
         \/ Prune(d) \/ Elapse(d) \/ SendStep(d) \/ RecordFault(d)
    \/ Claim \/ TickEnd \/ Crash

Spec == Init /\ [][Next]_vars

\* Time passes, the dispatcher loop runs and every send comes to its end.
Fairness ==
    /\ WF_vars(Claim) /\ WF_vars(TickEnd)
    /\ \A d \in Deliveries : WF_vars(Elapse(d)) /\ WF_vars(SendStep(d))

FairSpec == Spec /\ Fairness

-----------------------------------------------------------------------------
(* Properties *)

\* A receiver accepts a message twice only when the record of the first time
\* was lost: a lost answer, a failing write or a crash.
RepeatsPaidFor == \A d \in Deliveries : delivered[d] <= 1 + lost[d]

\* A message that could be sent is given up only after MaxAttempts requests,
\* whatever recorded rate limits, crashes and reclaimed rows came in between.
GivenUpAfterAllAttempts ==
    [][\A d \in Deliveries :
         (delivery[d].status # "failed" /\ delivery'[d].status = "failed")
            => \/ item[d].result = "permanent"
               \/ sends[d] >= MaxAttempts]_vars

\* The breaker opens only after Threshold deliveries of its channel failed,
\* although concurrent recordings write the counter from stale reads.
BreakerNotEarly ==
    [][\A c \in Channels :
         (channel[c].enabled /\ ~channel'[c].enabled /\ edit' = edit)
            => Threshold <= Cardinality({d \in Deliveries :
                 ChannelOf(d) = c /\ delivery'[d].status = "failed"})]_vars

\* The outbox implements at-least-once delivery, and every message is settled but
\* those of a channel whose URL raises: their rows are claimed, left in SENDING and
\* reclaimed for as long as nobody edits it.
StatusOf(d) == IF delivery[d].status \in {"pending", "sending"} THEN "open"
               ELSE delivery[d].status
Abstract == INSTANCE AtLeastOnce
              WITH Messages <- Deliveries,
                   status <- [d \in Deliveries |-> StatusOf(d)],
                   stuck <- [d \in Deliveries |-> ~channel[ChannelOf(d)].resolves]
ImplementsAtLeastOnce == Abstract!FairSpec

-----------------------------------------------------------------------------
\* Known not to hold.

\* models.py: "Circuit breaker: consecutive permanently-failed deliveries.
\* Reset to 0 on any success; once it crosses the threshold the channel is
\* auto-disabled".  Nothing succeeded and nobody edited the channel:
BreakerTrips ==
    \A c \in Channels :
        LET mine == {d \in Deliveries : ChannelOf(d) = c}
            failed == {d \in mine : delivery[d].status = "failed"}
        IN  (/\ Cardinality(failed) >= Threshold
             /\ \A d \in mine : delivery[d].status # "sent"
             /\ used.changes = 0) => ~channel[c].enabled
=============================================================================
