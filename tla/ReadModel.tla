------------------------------- MODULE ReadModel -------------------------------
(***************************************************************************)
(* read-service: the projection (read/projection.py) that four threads,    *)
(* one per topic, fold the event streams into (read/consumer.py), its      *)
(* rebuild from the streams when the process starts (read/rebuild.py), and *)
(* a console that fetches it and is told of changes (read/app.py).         *)
(*                                                                         *)
(* The streams are one history of entries, numbered in the order they are  *)
(* published; an entry's number is its stream id and its time.  An         *)
(* occurrence of a situation is known by first_seen, the number of its     *)
(* detection.                                                              *)
(***************************************************************************)
EXTENDS Naturals, Sequences, FiniteSets

CONSTANTS
  Situations,    \* ids of situations (signatures: an incident that recurs keeps its id)
  Histories,     \* what the other services may publish, in order
  End,           \* a number after every entry's
  Settings,      \* the settings to check: bus_delivery and read_rebuild_mode
  MaxSituations, \* read_situations_max
  MaxOutcomes,   \* read_outcomes_max
  MaxEntries,    \* read_rebuild_max_entries
  MaxQueue,      \* a subscriber's queue
  MaxComing,     \* bound: events on their way to it
  MaxFaults      \* bound: deaths, lost connections and resets

Topics == {"detected", "diagnosed", "outcomes", "suppressed"}
Results == {"success", "failure", "rolled_back", "escalated", "none"}
Entry == [topic : Topics, sit : Situations, first : Nat, result : Results]

ASSUME ReadAssumption ==
  /\ End \in Nat \ {0}
  /\ \A h \in Histories : h \in Seq(Entry) /\ Len(h) < End
  /\ \A h \in Histories : \A i \in 1 .. Len(h) : h[i].first \in 1 .. i
  /\ Settings \subseteq [delivery : {"at_most_once", "at_least_once"}, rebuild : BOOLEAN]
  /\ MaxSituations \in Nat /\ MaxOutcomes \in Nat /\ MaxEntries \in Nat
  /\ MaxQueue \in Nat \ {0} /\ MaxComing \in Nat /\ MaxFaults \in Nat

Ids == 1 .. End - 1
NoGroup == End
NoCursor == End
None == 0
NoGroups == [t \in Topics |-> NoGroup]
NothingReplayed == [t \in Topics |-> None]

VARIABLES
  settings,   \* fixed at the start
  history,    \* what will be published
  published,  \* entries 1 .. published are on the streams
  group,      \* [Topics -> the group's last delivered id, or NoGroup]
  pending,    \* [Topics -> delivered, not acknowledged]
  stage,      \* of the process: down, replay, offsets, tail
  topic,      \* the index in ReplayOrder the rebuild has come to
  cursor,     \* the last id it read of that topic
  last,       \* [Topics -> the last id it replayed]
  window,     \* history: the window holds the ids after this one
  base,       \* history: the groups as the process found them
  rebuilt,    \* history: the live model came from the rebuild
  cards,      \* _sits: [Situations -> a card, or NoCard]
  outcomes,   \* _outcomes: the ids of outcomes, newest first
  suppressed, \* _suppressed_count
  thread,     \* [Topics -> what the consumer thread is doing, and with which entry]
  applied,    \* history: the entries handed to this process's model
  lost,       \* history: the entries its threads took and lost
  viewer,     \* a console: its state, whether it fetched the latest change (history),
              \* and the events queued for it and on their way
  faults      \* history: faults

model == <<cards, outcomes, suppressed, applied>>
process == <<stage, topic, cursor, last, window, base, rebuilt>>
stream == <<history, published, group, pending>>
vars == <<settings, stream, process, model, thread, lost, viewer, faults>>

Statuses == {"detected", "diagnosed", "resolved", "failed", "needs_attention"}
Card == [first : Ids, status : Statuses, hyps : Ids \cup {None}, outcome : Ids \cup {None},
         activity : Ids]
NoCard == [first |-> None]
Idle == [pc |-> "idle", id |-> None, drained |-> FALSE]
Away == [pc |-> "away", current |-> FALSE, queue |-> 0, coming |-> 0]
Of(t, i) == i \in 1 .. published /\ history[i].topic = t

ReadTypeOK ==
  /\ settings \in Settings /\ history \in Histories /\ published \in 0 .. Len(history)
  /\ group \in [Topics -> 0 .. published \cup {NoGroup}]
  /\ pending \in [Topics -> SUBSET Ids]
  /\ \A t \in Topics : \A i \in pending[t] : Of(t, i) /\ i <= group[t]
  /\ stage \in {"down", "replay", "offsets", "tail"}
  /\ topic \in 1 .. 5 /\ cursor \in 0 .. published \cup {NoCursor}
  /\ last \in [Topics -> Ids \cup {None}]
  /\ window \in 0 .. published
  /\ base \in [Topics -> 0 .. published \cup {NoGroup}] /\ rebuilt \in BOOLEAN
  /\ cards \in [Situations -> Card \cup {NoCard}]
  /\ outcomes \in Seq(Ids) /\ Len(outcomes) <= MaxOutcomes
  /\ suppressed \in Nat /\ applied \subseteq 1 .. published /\ lost \subseteq 1 .. published
  /\ thread \in [Topics -> [pc : {"idle", "apply", "notify", "ack"}, id : Ids \cup {None},
                            drained : BOOLEAN]]
  /\ \A t \in Topics : IF thread[t].pc = "idle" THEN thread[t].id = None
                       ELSE Of(t, thread[t].id) /\ thread[t].id <= group[t] /\ stage = "tail"
  /\ viewer \in [pc : {"away", "stale", "waiting"}, current : BOOLEAN,
                 queue : 0 .. MaxQueue, coming : 0 .. MaxComing]
  /\ faults \in 0 .. MaxFaults

Init ==
  /\ settings \in Settings /\ history \in Histories /\ published = 0
  /\ group = NoGroups /\ pending = [t \in Topics |-> {}]
  /\ stage = "down" /\ topic = 1 /\ cursor = NoCursor /\ last = NothingReplayed
  /\ window = 0 /\ base = NoGroups /\ rebuilt = FALSE
  /\ cards = [s \in Situations |-> NoCard] /\ outcomes = <<>> /\ suppressed = 0
  /\ thread = [t \in Topics |-> Idle]
  /\ applied = {} /\ lost = {} /\ viewer = Away /\ faults = 0

Fault == faults < MaxFaults /\ faults' = faults + 1
AtLeastOnce == settings.delivery = "at_least_once"

(* Another service appends the next entry.                                 *)
Publish ==
  /\ published < Len(history) /\ published' = published + 1
  /\ UNCHANGED <<settings, history, group, pending, process, model, thread, lost, viewer, faults>>

------------------------------------------------------------------------------
(* The projection: what one entry does to it.                              *)

Evictable == {"resolved", "failed", "needs_attention"}
Terminal == {"resolved", "failed"}
Blank(first) == [first |-> first, status |-> "detected", hyps |-> None, outcome |-> None,
                 activity |-> first]

(* _apply_detected: an earlier occurrence is stale; a later one starts     *)
(* clean once the held one is finished; the same one keeps its status.     *)
Stale(e) == cards[e.sit] # NoCard /\ e.first < cards[e.sit].first
Existing(e) ==
  LET c == cards[e.sit] IN
    IF c = NoCard \/ (c # NoCard /\ e.first > c.first /\ c.status \in Evictable)
    THEN Blank(e.first) ELSE c
FoldedReopening(e) == [Existing(e) EXCEPT !.first = e.first, !.status = "detected"]
Folded(e) ==
  LET x == Existing(e) IN
    [x EXCEPT !.first = e.first, !.status = IF x.first = e.first THEN @ ELSE "detected"]

(* _apply_diagnosed: fold the detection in, then the hypotheses.           *)
Diagnosed(e) ==
  [Folded(e) EXCEPT !.hyps = e.first, !.status = IF @ = "detected" THEN "diagnosed" ELSE @]

(* _apply_outcome: whatever card has this id gets the outcome.             *)
StatusOf(result) == CASE result = "success" -> "resolved"
                      [] result = "escalated" -> "needs_attention"
                      [] OTHER -> "failed"
Closed(e, i) == IF cards[e.sit] = NoCard THEN NoCard
                ELSE [cards[e.sit] EXCEPT !.status = StatusOf(e.result), !.activity = i,
                                          !.outcome = e.first]

NewestUncapped(s) == s
Newest(s) == IF Len(s) > MaxOutcomes THEN SubSeq(s, 1, MaxOutcomes) ELSE s

(* False of a stale entry, which changes nothing.                          *)
Applies(i) == history[i].topic \in {"detected", "diagnosed"} => ~Stale(history[i])

Apply(i) ==
  LET e == history[i]
      Put(c) == cards' = [cards EXCEPT ![e.sit] = c] /\ UNCHANGED <<outcomes, suppressed>>
  IN
  /\ applied' = applied \cup {i}
  /\ \/ ~Applies(i) /\ UNCHANGED <<cards, outcomes, suppressed>>
     \/ Applies(i) /\ e.topic = "detected" /\ Put(Folded(e))
     \/ Applies(i) /\ e.topic = "diagnosed" /\ Put(Diagnosed(e))
     \/ /\ e.topic = "outcomes" /\ UNCHANGED suppressed
        /\ cards' = [cards EXCEPT ![e.sit] = Closed(e, i)]
        /\ outcomes' = Newest(<<i>> \o outcomes)
     \/ e.topic = "suppressed" /\ suppressed' = suppressed + 1 /\ UNCHANGED <<cards, outcomes>>

Emptied == /\ cards' = [s \in Situations |-> NoCard]
           /\ outcomes' = <<>> /\ suppressed' = 0 /\ applied' = {}

------------------------------------------------------------------------------
(* The process starts, and rebuilds.  The window starts at a time: between *)
(* any two entries.  Entries are read one at a time; the code reads pages  *)
(* until one is empty, which sees the same entries.                        *)

ReplayOutcomesFirst == <<"outcomes", "detected", "diagnosed", "suppressed">>
ReplayOrder == <<"detected", "diagnosed", "suppressed", "outcomes">>

Start ==
  /\ stage = "down"
  /\ stage' = IF settings.rebuild THEN "replay" ELSE "tail"
  /\ IF settings.rebuild THEN window' \in 0 .. published /\ base' = group
     ELSE UNCHANGED <<window, base>>
  /\ UNCHANGED <<settings, stream, topic, cursor, last, rebuilt, model, thread, lost,
                 viewer, faults>>

Replaying == ReplayOrder[topic]
NextOf(t, i) == {j \in (i + 1) .. published : Of(t, j)}
First(S) == CHOOSE i \in S : \A j \in S : i <= j

(* The cursor starts at the window, or at the group if it is behind it.    *)
FromWindow(t) == window
From(t) == IF group[t] < window THEN group[t] ELSE window
At == IF cursor = NoCursor THEN From(Replaying) ELSE cursor
SeenOf(t) == Cardinality({i \in applied : Of(t, i)})

ColdStart ==
  /\ Emptied /\ stage' = "tail" /\ topic' = 1 /\ cursor' = NoCursor
  /\ last' = NothingReplayed /\ window' = 0 /\ base' = NoGroups /\ UNCHANGED rebuilt

ReplayEntry ==
  /\ stage = "replay" /\ NextOf(Replaying, At) # {}
  /\ LET i == First(NextOf(Replaying, At)) IN
       \/ /\ SeenOf(Replaying) < MaxEntries /\ Apply(i)
          /\ cursor' = i /\ last' = [last EXCEPT ![Replaying] = i]
          /\ UNCHANGED <<stage, topic, window, base, rebuilt>>
       \/ SeenOf(Replaying) >= MaxEntries /\ ColdStart
  /\ UNCHANGED <<settings, stream, thread, lost, viewer, faults>>

ReplayNext ==
  /\ stage = "replay" /\ NextOf(Replaying, At) = {}
  /\ cursor' = NoCursor
  /\ IF topic < Len(ReplayOrder) THEN topic' = topic + 1 /\ UNCHANGED stage
     ELSE topic' = 1 /\ stage' = "offsets"
  /\ UNCHANGED <<settings, stream, last, window, base, rebuilt, model, thread, lost,
                 viewer, faults>>

(* Own the offsets of one topic: make the group, move it forward to what   *)
(* was replayed, and acknowledge what was pending.                         *)
Ensured(t) == IF group[t] = NoGroup THEN 0 ELSE group[t]
Owned(t) == IF last[t] > Ensured(t) THEN last[t] ELSE Ensured(t)
OwnOffsets ==
  /\ stage = "offsets"
  /\ group' = [group EXCEPT ![Replaying] = Owned(Replaying)]
  /\ pending' = [pending EXCEPT ![Replaying] = {}]
  /\ IF topic < Len(ReplayOrder) THEN topic' = topic + 1 /\ UNCHANGED <<stage, rebuilt, last>>
     ELSE topic' = 1 /\ stage' = "tail" /\ rebuilt' = TRUE /\ last' = NothingReplayed
  /\ UNCHANGED <<settings, history, published, cursor, window, base, model, thread, lost,
                 viewer, faults>>

(* Any lost connection on the way gives up on the rebuild, whatever has    *)
(* been done to the offsets.                                               *)
RebuildFails ==
  /\ stage \in {"replay", "offsets"} /\ Fault /\ ColdStart
  /\ \/ UNCHANGED group
     \/ stage = "offsets" /\ group' = [group EXCEPT ![Replaying] = Ensured(Replaying)]
     \/ stage = "offsets" /\ group' = [group EXCEPT ![Replaying] = Owned(Replaying)]
  /\ UNCHANGED <<settings, history, published, pending, thread, lost, viewer>>

------------------------------------------------------------------------------
(* A consumer thread: take an entry, apply it, notify, acknowledge.        *)

EnsureGroup(t) ==
  /\ stage = "tail" /\ group[t] = NoGroup
  /\ group' = [group EXCEPT ![t] = 0]
  /\ UNCHANGED <<settings, history, published, pending, process, model, thread, lost, viewer,
                 faults>>

Reading(t) == stage = "tail" /\ thread[t].pc = "idle" /\ group[t] # NoGroup
ToDrain(t) == IF AtLeastOnce /\ ~thread[t].drained THEN pending[t] ELSE {}
Delivered(t, i) ==
  /\ group' = [group EXCEPT ![t] = i]
  /\ pending' = IF AtLeastOnce THEN [pending EXCEPT ![t] = @ \cup {i}] ELSE pending

ReadPending(t) ==
  /\ Reading(t) /\ ToDrain(t) # {}
  /\ thread' = [thread EXCEPT ![t] = [pc |-> "apply", id |-> First(ToDrain(t)), drained |-> TRUE]]
  /\ UNCHANGED <<settings, stream, process, model, lost, viewer, faults>>

ReadNew(t) ==
  /\ Reading(t) /\ ToDrain(t) = {} /\ NextOf(t, group[t]) # {}
  /\ LET i == First(NextOf(t, group[t])) IN
       /\ Delivered(t, i)
       /\ thread' = [thread EXCEPT ![t] = [pc |-> "apply", id |-> i, drained |-> TRUE]]
  /\ UNCHANGED <<settings, history, published, process, model, lost, viewer, faults>>

(* The reply is lost: the entry is pending, or at most once is gone.       *)
LoseReadReply(t) ==
  /\ Reading(t) /\ ToDrain(t) = {} /\ NextOf(t, group[t]) # {} /\ Fault
  /\ LET i == First(NextOf(t, group[t])) IN
       /\ Delivered(t, i)
       /\ lost' = IF AtLeastOnce THEN lost ELSE lost \cup {i}
  /\ thread' = [thread EXCEPT ![t] = Idle]
  /\ UNCHANGED <<settings, history, published, process, model, viewer>>

(* At most once acknowledged the entry as it was read.                     *)
Handled(t) == IF AtLeastOnce THEN [thread EXCEPT ![t].pc = "ack"]
              ELSE [thread EXCEPT ![t] = [pc |-> "idle", id |-> None, drained |-> TRUE]]

ApplyEntry(t) ==
  /\ thread[t].pc = "apply" /\ Apply(thread[t].id)
  /\ LET changed == Applies(thread[t].id) IN
       /\ thread' = IF changed THEN [thread EXCEPT ![t].pc = "notify"] ELSE Handled(t)
       /\ viewer' = IF changed THEN [viewer EXCEPT !.current = FALSE] ELSE viewer
  /\ UNCHANGED <<settings, stream, process, lost, faults>>

(* publish: every event says the same, that something changed.             *)
Notify(t) ==
  /\ thread[t].pc = "notify" /\ viewer.coming < MaxComing
  /\ thread' = Handled(t)
  /\ viewer' = IF viewer.pc = "away" THEN viewer ELSE [viewer EXCEPT !.coming = @ + 1]
  /\ UNCHANGED <<settings, stream, process, model, lost, faults>>

Acknowledge(t) ==
  /\ thread[t].pc = "ack"
  /\ thread' = [thread EXCEPT ![t] = [pc |-> "idle", id |-> None, drained |-> TRUE]]
  /\ pending' = [pending EXCEPT ![t] = @ \ {thread[t].id}]
  /\ UNCHANGED <<settings, history, published, group, process, model, lost, viewer, faults>>

(* The acknowledgement is lost, on its way there or back.                  *)
LoseAck(t) ==
  /\ thread[t].pc = "ack" /\ Fault
  /\ thread' = [thread EXCEPT ![t] = Idle]
  /\ pending' \in {pending, [pending EXCEPT ![t] = @ \ {thread[t].id}]}
  /\ UNCHANGED <<settings, history, published, group, process, model, lost, viewer>>

RunTopic(t) == EnsureGroup(t) \/ ReadPending(t) \/ ReadNew(t) \/ LoseReadReply(t)
           \/ ApplyEntry(t) \/ Notify(t) \/ Acknowledge(t) \/ LoseAck(t)

(* The process dies, and its model with it.                                *)
ProcessDies ==
  /\ stage # "down" /\ Fault
  /\ Emptied /\ lost' = {} /\ viewer' = Away
  /\ stage' = "down" /\ topic' = 1 /\ cursor' = NoCursor /\ last' = NothingReplayed
  /\ rebuilt' = FALSE /\ window' = 0 /\ base' = NoGroups
  /\ thread' = [t \in Topics |-> Idle]
  /\ UNCHANGED <<settings, stream>>

------------------------------------------------------------------------------
(* The requests of a console.                                              *)

(* situations: age out what finished before a time, then cap the rest, the *)
(* finished ones first and those that need attention last.                 *)
Shown == {s \in Situations : cards[s] # NoCard}
AgedOut(now) == {s \in Shown : cards[s].status \in Terminal /\ cards[s].activity < now}
Sooner(r, s) ==
  LET Late(x) == cards[x].status = "needs_attention" IN
    \/ ~Late(r) /\ Late(s)
    \/ Late(r) = Late(s) /\ cards[r].activity < cards[s].activity
EvictableOf(S) == {s \in S : cards[s].status \in Evictable}
Least(a, b) == IF a <= b THEN a ELSE b
OverCap(S) ==
  IF Cardinality(S) <= MaxSituations THEN {{}}
  ELSE {D \in SUBSET EvictableOf(S) :
          /\ Cardinality(D) = Least(Cardinality(S) - MaxSituations, Cardinality(EvictableOf(S)))
          /\ \A d \in D, s \in EvictableOf(S) \ D : ~Sooner(s, d)}
Without(D) == cards' = [s \in Situations |-> IF s \in D THEN NoCard ELSE cards[s]]

Serving == stage = "tail"
Subscribe ==
  /\ Serving /\ viewer.pc = "away"
  /\ viewer' = [Away EXCEPT !.pc = "stale"]
  /\ UNCHANGED <<settings, stream, process, model, thread, lost, faults>>

GetSituations ==
  /\ Serving /\ viewer.pc = "stale"
  /\ viewer' = [viewer EXCEPT !.pc = "waiting", !.current = TRUE]
  /\ \E now \in 0 .. published :
       \E D \in OverCap(Shown \ AgedOut(now)) : Without(D \cup AgedOut(now))
  /\ UNCHANGED <<settings, stream, process, outcomes, suppressed, applied, thread, lost, faults>>

(* _deliver, on the event loop: a full queue drops its oldest event.       *)
DeliverDroppingBoth ==
  /\ viewer.coming > 0
  /\ viewer' = [viewer EXCEPT !.coming = @ - 1,
                              !.queue = IF @ < MaxQueue THEN @ + 1 ELSE @ - 1]
  /\ UNCHANGED <<settings, stream, process, model, thread, lost, faults>>
Deliver ==
  /\ viewer.coming > 0
  /\ viewer' = [viewer EXCEPT !.coming = @ - 1, !.queue = Least(@ + 1, MaxQueue)]
  /\ UNCHANGED <<settings, stream, process, model, thread, lost, faults>>

TakeEvent ==
  /\ viewer.pc = "waiting" /\ viewer.queue > 0
  /\ viewer' = [viewer EXCEPT !.pc = "stale", !.queue = @ - 1]
  /\ UNCHANGED <<settings, stream, process, model, thread, lost, faults>>

Leave ==
  /\ viewer.pc # "away" /\ viewer' = Away
  /\ UNCHANGED <<settings, stream, process, model, thread, lost, faults>>

(* reset: the entries stay applied, their cards are gone; nobody is told.  *)
Reset ==
  /\ Serving /\ Fault
  /\ cards' = [s \in Situations |-> NoCard] /\ outcomes' = <<>> /\ suppressed' = 0
  /\ UNCHANGED <<settings, stream, process, applied, thread, lost, viewer>>

Rebuild == ReplayEntry \/ ReplayNext \/ OwnOffsets \/ RebuildFails
Console == Subscribe \/ GetSituations \/ Deliver \/ TakeEvent \/ Leave \/ Reset
Next == Publish \/ Start \/ Rebuild \/ (\E t \in Topics : RunTopic(t)) \/ ProcessDies \/ Console
Spec == Init /\ [][Next]_vars

------------------------------------------------------------------------------
(* However the topics are interleaved and whatever is delivered again, a   *)
(* card never goes back to an earlier occurrence, nor to an earlier stage  *)
(* of the same one; and an incident still open leaves the console only by  *)
(* a reset (projection.py:123-140, 295-320).                               *)
Progress(status) == CASE status = "detected" -> 0 [] status = "diagnosed" -> 1 [] OTHER -> 2
AllGone == \A s \in Situations : cards'[s] = NoCard
NeverBackwards ==
  [][\A s \in Shown :
       IF cards'[s] = NoCard THEN (AllGone /\ outcomes' = <<>>) \/ Progress(cards[s].status) = 2
       ELSE /\ cards'[s].first >= cards[s].first
            /\ cards'[s].first = cards[s].first =>
                 Progress(cards'[s].status) >= Progress(cards[s].status)]_vars

(* A rebuilt model misses nothing: an entry of the window, or past where   *)
(* the group stood, was applied, is in a thread's hand, is pending, or is  *)
(* still ahead of the group (rebuild.py:116-119).                          *)
InHand(t) == IF thread[t].id = None THEN {} ELSE {thread[t].id}
Base(t) == IF base[t] = NoGroup THEN window ELSE Least(base[t], window)
NothingMissing ==
  stage = "tail" /\ rebuilt =>
    \A t \in Topics : \A i \in NextOf(t, Base(t)) :
      \/ i \in applied \cup lost \cup InHand(t) \cup pending[t]
      \/ group[t] # NoGroup /\ i > group[t]

(* What was replayed together agrees: an occurrence whose outcome was      *)
(* replayed is not shown open (rebuild.py:14-18).                          *)
ReplayAgrees ==
  stage = "offsets" =>
    \A i \in applied : LET e == history[i] IN
      e.topic = "outcomes" /\ cards[e.sit] # NoCard /\ cards[e.sit].first = e.first =>
        cards[e.sit].status \in Evictable

(* A console that waits has fetched the latest change, or will be told of  *)
(* it, however small its queue is (projection.py:93-115).                  *)
NoMissedChange ==
  viewer.pc = "waiting" =>
    \/ viewer.current \/ viewer.queue > 0 \/ viewer.coming > 0
    \/ \E t \in Topics : thread[t].pc = "notify"

(* An outcome shown on a card is that occurrence's: a new occurrence must  *)
(* "start clean, or the new card inherits the previous run's outcome"      *)
(* (projection.py:134-135).                                                *)
OutcomeIsItsOwn ==
  \A s \in Shown : cards[s].outcome \in {None, cards[s].first}
================================================================================
