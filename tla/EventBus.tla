------------------------------- MODULE EventBus -------------------------------
(***************************************************************************)
(* One topic of the event bus with its consumer group, as every service    *)
(* uses it: RedisBus.publish and RedisBus.consume (common/bus.py), the     *)
(* decode, dead-letter and two-phase idempotency wrapper around them       *)
(* (iter_models in common/envelope.py), the guard behind it                *)
(* (common/idempotency.py) and the supervisor that restarts the consumer   *)
(* thread when anything in it raises (common/supervise.py).                *)
(*                                                                         *)
(* A step is one Redis command, or the part of the loop between two of     *)
(* them, so that a lost connection, an exception or the death of the       *)
(* process can fall between any two commands.                              *)
(***************************************************************************)
EXTENDS Naturals, Sequences, FiniteSets

CONSTANTS
  Delivery,       \* bus_delivery: "at_most_once" or "at_least_once"
  DlqMode,        \* bus_dlq_mode: "off" or "on"
  GuardMode,      \* bus_idempotency_mode: "off", "memory" or "redis"
  MaxAttempts,    \* bus_max_delivery_attempts
  StreamMaxlen,   \* bus_stream_maxlen: 0 keeps every entry
  DrainBatch,     \* _DRAIN_BATCH: how many pending entries one drain reads
  MaxEntries,     \* bound: entries published in a behaviour
  MaxFaults       \* bound: lost connections, crashes and transient errors

ASSUME BusAssumption ==
  /\ Delivery \in {"at_most_once", "at_least_once"}
  /\ DlqMode \in {"off", "on"}
  /\ GuardMode \in {"off", "memory", "redis"}
  /\ MaxAttempts \in Nat \ {0}
  /\ StreamMaxlen \in Nat
  /\ DrainBatch \in Nat \ {0}
  /\ MaxEntries \in Nat
  /\ MaxFaults \in Nat

Entries == 1 .. MaxEntries
AtLeastOnce == Delivery = "at_least_once"

(* What a payload does to this build: its model decodes and the handler    *)
(* copes with it; pydantic rejects it; it decodes and the handler raises   *)
(* on it every time.                                                       *)
Kinds == {"good", "undecodable", "poison"}

(* An entry as the consumer holds it.  A pending entry the stream was      *)
(* trimmed of is served without its fields ("gone").                       *)
Held == [id : Entries, payload : Kinds \cup {"gone"}]
Nothing == [id |-> 0, payload |-> "gone"]

VARIABLES
  stream,     \* Redis: the kind of each entry published so far
  first,      \* Redis: the oldest entry the stream has not been trimmed of
  last,       \* Redis: the group's last-delivered id
  pel,        \* Redis: delivered to this consumer and not acknowledged
  attempts,   \* Redis: the bus:attempts counters
  claim,      \* guard: what it remembers of each event id
  dlq,        \* Redis: <<entry, reason>> on the dead letter stream
  pc,         \* the consumer thread: the command it is about to run
  batch,      \* the consumer thread: entries read and not yet taken
  cur,        \* the consumer thread: the entry in hand
  drained,    \* the consumer thread: its own pending entries were read
  started,    \* history: how often the handler was entered with an entry
  finished,   \* history: how often it returned
  faults      \* history: how many faults happened

redis == <<stream, first, last, pel, attempts, dlq>>
frame == <<pc, batch, cur, drained>>
history == <<started, finished>>
vars == <<redis, claim, frame, history, faults>>

Pcs == {"down", "ensure", "read", "entries", "park", "parkAck", "decode",
        "handle", "mark", "resume"}

TypeOK ==
  /\ stream \in Seq(Kinds) /\ Len(stream) <= MaxEntries
  /\ first \in Nat \ {0}
  /\ last \in 0 .. Len(stream)
  /\ pel \subseteq 1 .. last
  /\ attempts \in [Entries -> Nat]
  /\ claim \in [Entries -> {"none", "claimed", "done"}]
  /\ dlq \subseteq Entries \X {"decode", "attempts"}
  /\ pc \in Pcs
  /\ batch \subseteq Held
  /\ cur \in Held \cup {Nothing}
  /\ drained \in BOOLEAN
  /\ started \in [Entries -> Nat]
  /\ finished \in [Entries -> Nat]
  /\ faults \in 0 .. MaxFaults

Init ==
  /\ stream = <<>>
  /\ first = 1
  /\ last = 0
  /\ pel = {}
  /\ attempts = [e \in Entries |-> 0]
  /\ claim = [e \in Entries |-> "none"]
  /\ dlq = {}
  /\ pc = "ensure"
  /\ batch = {}
  /\ cur = Nothing
  /\ drained = ~AtLeastOnce
  /\ started = [e \in Entries |-> 0]
  /\ finished = [e \in Entries |-> 0]
  /\ faults = 0

------------------------------------------------------------------------------
(* publish: XADD, with MAXLEN ~ N unless the stream is unbounded.  The     *)
(* trimming is approximate: it may leave more than N entries, never fewer. *)
Publish(k) ==
  /\ Len(stream) < MaxEntries
  /\ stream' = Append(stream, k)
  /\ IF StreamMaxlen = 0
     THEN first' = first
     ELSE \E f \in first .. Len(stream) + 1 :
            /\ f > first => Len(stream) + 2 - f >= StreamMaxlen
            /\ first' = f
  /\ UNCHANGED <<last, pel, attempts, dlq, claim, frame, history, faults>>

------------------------------------------------------------------------------
(* The consumer thread.                                                    *)

(* Start over: the loop's except branch (next = "ensure") keeps none of    *)
(* the entries it had read, and an exception that leaves the generator     *)
(* (next = "down") drops its frame.                                        *)
AbandonWithoutDrain(next) ==
  /\ pc' = next
  /\ batch' = {}
  /\ cur' = Nothing
  /\ drained' = TRUE

Abandon(next) ==
  /\ pc' = next
  /\ batch' = {}
  /\ cur' = Nothing
  /\ drained' = ~AtLeastOnce

(* XGROUP CREATE id=0: the group starts before the first entry, and an     *)
(* existing group (BUSYGROUP) keeps its position.                          *)
EnsureGroupFromZero ==
  /\ pc = "ensure"
  /\ pc' = "read"
  /\ last' = 0
  /\ UNCHANGED <<stream, first, pel, attempts, dlq, claim, batch, cur, drained,
                 history, faults>>

EnsureGroup ==
  /\ pc = "ensure"
  /\ pc' = "read"
  /\ UNCHANGED <<redis, claim, batch, cur, drained, history, faults>>

HeldAs(e) == [id |-> e, payload |-> IF e < first THEN "gone" ELSE stream[e]]

(* XREADGROUP from id 0: this consumer's own pending entries, the oldest   *)
(* DrainBatch of them, once per connection.                                *)
ReadPending ==
  /\ pc = "read"
  /\ ~drained
  /\ drained' = TRUE
  /\ batch' = {HeldAs(e) : e \in {p \in pel :
                 Cardinality({q \in pel : q < p}) < DrainBatch}}
  /\ pc' = IF pel = {} THEN "read" ELSE "entries"
  /\ UNCHANGED <<redis, claim, cur, history, faults>>

(* The entry XREADGROUP > would deliver next: trimmed entries are skipped. *)
NextNew(e) ==
  /\ e \in last + 1 .. Len(stream)
  /\ e >= first
  /\ \A d \in last + 1 .. e - 1 : d < first

(* XREADGROUP from id >: one new entry, which becomes pending.             *)
ReadNew ==
  /\ pc = "read"
  /\ drained
  /\ \E e \in Entries :
       /\ NextNew(e)
       /\ last' = e
       /\ pel' = pel \cup {e}
       /\ batch' = {HeldAs(e)}
  /\ pc' = "entries"
  /\ UNCHANGED <<stream, first, attempts, dlq, claim, cur, drained, history,
                 faults>>

(* The entries of a reply are taken in the order of their ids.             *)
Foremost(x) == pc = "entries" /\ x \in batch /\ \A y \in batch : x.id <= y.id

Take(x) ==
  /\ Foremost(x)
  /\ cur' = x
  /\ batch' = batch \ {x}

(* At most once: XACK comes before the entry is yielded.                   *)
AckOnTake(x) ==
  /\ ~AtLeastOnce
  /\ Take(x)
  /\ pel' = pel \ {x.id}
  /\ pc' = "decode"
  /\ UNCHANGED <<stream, first, last, attempts, dlq, claim, drained, history,
                 faults>>

(* At least once: INCR the entry's attempts when the dead letter queue is  *)
(* on, and park what had more than MaxAttempts.                            *)
CountAttemptAckingEarly(x) ==
  /\ AtLeastOnce
  /\ Take(x)
  /\ pel' = pel \ {x.id}
  /\ pc' = "decode"
  /\ UNCHANGED <<stream, first, last, attempts, dlq, claim, drained, history,
                 faults>>

CountAttempt(x) ==
  /\ AtLeastOnce
  /\ Take(x)
  /\ attempts' = IF DlqMode = "on" THEN [attempts EXCEPT ![x.id] = @ + 1]
                                   ELSE attempts
  /\ pc' = IF DlqMode = "on" /\ attempts'[x.id] > MaxAttempts
           THEN "park" ELSE "decode"
  /\ UNCHANGED <<stream, first, last, pel, dlq, claim, drained, history, faults>>

(* send_to_dlq, then XACK and DEL of the counter: a crash between the two  *)
(* parks the entry again.                                                  *)
Park ==
  /\ pc = "park"
  /\ dlq' = dlq \cup {<<cur.id, "attempts">>}
  /\ pc' = "parkAck"
  /\ UNCHANGED <<stream, first, last, pel, attempts, claim, batch, cur, drained,
                 history, faults>>

(* The loop goes on with the rest of the reply, or reads again.            *)
NextEntry ==
  /\ pc' = IF batch = {} THEN "read" ELSE "entries"
  /\ cur' = Nothing
  /\ UNCHANGED <<batch, drained>>

Acknowledge ==
  /\ pel' = pel \ {cur.id}
  /\ attempts' = IF DlqMode = "on" THEN [attempts EXCEPT ![cur.id] = 0]
                                   ELSE attempts
  /\ NextEntry
  /\ UNCHANGED <<stream, first, last, dlq>>

AckParked ==
  /\ pc = "parkAck"
  /\ Acknowledge
  /\ UNCHANGED <<claim, history, faults>>

(* iter_models: a payload its model rejects is parked and skipped when the *)
(* dead letter queue is on.  Off, the ValidationError leaves the loop; a   *)
(* payload that is gone raises KeyError in either case.                    *)
ParkUndecodable ==
  /\ pc = "decode"
  /\ cur.payload = "undecodable"
  /\ DlqMode = "on"
  /\ dlq' = dlq \cup {<<cur.id, "decode">>}
  /\ pc' = "resume"
  /\ UNCHANGED <<stream, first, last, pel, attempts, claim, batch, cur, drained,
                 history, faults>>

RaiseUndecodable ==
  /\ pc = "decode"
  /\ \/ cur.payload = "undecodable" /\ DlqMode = "off"
     \/ cur.payload = "gone"
  /\ Abandon("down")
  /\ UNCHANGED <<redis, claim, history, faults>>

(* The two-phase claim: a taken claim skips the event only when the        *)
(* earlier attempt was marked done; an unfinished one runs again.          *)
Decoded == pc = "decode" /\ cur.payload \in {"good", "poison"}

SkipDone ==
  /\ Decoded
  /\ GuardMode # "off" /\ claim[cur.id] = "done"
  /\ pc' = "resume"
  /\ UNCHANGED <<redis, claim, batch, cur, drained, history, faults>>

StartHandlerAgain ==
  /\ Decoded
  /\ claim' = IF GuardMode # "off" /\ claim[cur.id] = "none"
              THEN [claim EXCEPT ![cur.id] = "claimed"] ELSE claim
  /\ started' = [started EXCEPT ![cur.id] = @ + 1]
  /\ pc' = "handle"
  /\ UNCHANGED <<redis, batch, cur, drained, finished, faults>>

StartHandler ==
  /\ Decoded
  /\ ~(GuardMode # "off" /\ claim[cur.id] = "done")
  /\ claim' = IF GuardMode # "off" /\ claim[cur.id] = "none"
              THEN [claim EXCEPT ![cur.id] = "claimed"] ELSE claim
  /\ started' = [started EXCEPT ![cur.id] = @ + 1]
  /\ pc' = "handle"
  /\ UNCHANGED <<redis, batch, cur, drained, finished, faults>>

HandlerReturns ==
  /\ pc = "handle"
  /\ cur.payload = "good"
  /\ finished' = [finished EXCEPT ![cur.id] = @ + 1]
  /\ pc' = IF GuardMode = "off" THEN "resume" ELSE "mark"
  /\ UNCHANGED <<redis, claim, batch, cur, drained, started, faults>>

HandlerRaises ==
  /\ pc = "handle"
  /\ cur.payload = "poison"
  /\ Abandon("down")
  /\ UNCHANGED <<redis, claim, history, faults>>

MarkDone ==
  /\ pc = "mark"
  /\ claim' = [claim EXCEPT ![cur.id] = "done"]
  /\ pc' = "resume"
  /\ UNCHANGED <<redis, batch, cur, drained, history, faults>>

(* The caller came back for the next entry.  At least once acknowledges    *)
(* now; at most once acknowledged before it yielded.                       *)
Resume ==
  /\ pc = "resume"
  /\ IF AtLeastOnce THEN Acknowledge ELSE NextEntry /\ UNCHANGED redis
  /\ UNCHANGED <<claim, history, faults>>

(* supervise: the thread is started again after a delay.                   *)
RestartNot ==
  /\ pc = "down"
  /\ Abandon("down")
  /\ UNCHANGED <<redis, claim, history, faults>>

Restart ==
  /\ pc = "down"
  /\ Abandon("ensure")
  /\ UNCHANGED <<redis, claim, history, faults>>

------------------------------------------------------------------------------
(* Faults.                                                                 *)
Fault == faults < MaxFaults /\ faults' = faults + 1

(* consume's own commands sit inside its retry.  The command the           *)
(* connection was lost under had no effect ...                             *)
Disconnect ==
  /\ \/ pc \in {"ensure", "read", "entries", "park", "parkAck"}
     \/ pc = "resume" /\ AtLeastOnce
  /\ Fault
  /\ Abandon("ensure")
  /\ UNCHANGED <<redis, claim, history>>

(* ... or it took effect and its reply was lost: an acknowledgement ...    *)
LoseAckReply ==
  /\ \/ pc = "resume" /\ AtLeastOnce
     \/ pc = "parkAck"
  /\ Fault
  /\ pel' = pel \ {cur.id}
  /\ Abandon("ensure")
  /\ UNCHANGED <<stream, first, last, attempts, dlq, claim, history>>

(* ... an attempt that was counted ...                                      *)
LoseCountReply ==
  /\ AtLeastOnce /\ DlqMode = "on"
  /\ Fault
  /\ \E x \in batch :
       /\ Foremost(x)
       /\ attempts' = [attempts EXCEPT ![x.id] = @ + 1]
  /\ Abandon("ensure")
  /\ UNCHANGED <<stream, first, last, pel, dlq, claim, history>>

(* ... or a read, after which the entry is pending and nobody holds it.    *)
LoseReadReply ==
  /\ pc = "read" /\ drained
  /\ Fault
  /\ \E e \in Entries :
       /\ NextNew(e)
       /\ last' = e
       /\ pel' = pel \cup {e}
  /\ Abandon("ensure")
  /\ UNCHANGED <<stream, first, attempts, dlq, claim, history>>

(* A guard or dead letter command of iter_models, or anything in the       *)
(* handler, raises: the generator is closed and the thread ends.           *)
ThreadDies ==
  /\ \/ pc = "handle"
     \/ pc \in {"decode", "mark"} /\ GuardMode = "redis"
     \/ pc = "decode" /\ cur.payload = "undecodable"
  /\ Fault
  /\ Abandon("down")
  /\ UNCHANGED <<redis, claim, history>>

(* The process is killed.  A memory guard forgets everything.              *)
ProcessDies ==
  /\ pc # "down"
  /\ Fault
  /\ Abandon("down")
  /\ claim' = IF GuardMode = "memory" THEN [e \in Entries |-> "none"] ELSE claim
  /\ UNCHANGED <<redis, history>>

------------------------------------------------------------------------------
Consume ==
  \/ EnsureGroup \/ ReadPending \/ ReadNew
  \/ \E x \in batch : AckOnTake(x) \/ CountAttempt(x)
  \/ Park \/ AckParked
  \/ ParkUndecodable \/ RaiseUndecodable
  \/ SkipDone \/ StartHandler \/ HandlerReturns \/ HandlerRaises \/ MarkDone
  \/ Resume \/ Restart

Faulty ==
  \/ Disconnect \/ LoseAckReply \/ LoseCountReply \/ LoseReadReply
  \/ ThreadDies \/ ProcessDies

Next == (\E k \in Kinds : Publish(k)) \/ Consume \/ Faulty

(* The consumer is a supervised thread: it goes on as long as it can.      *)
(* Nobody has to publish, and faults are never owed.                       *)
Spec == Init /\ [][Next]_vars /\ WF_vars(Consume)

------------------------------------------------------------------------------
(* Properties.                                                             *)

Parked(e) == <<e, "decode">> \in dlq \/ <<e, "attempts">> \in dlq
Handled(e) == finished[e] > 0

(* At least once: an entry the group has been given and that is no longer  *)
(* pending was handled to the end or parked.  Nothing is acknowledged on   *)
(* the strength of having been read (bus.py:161-164).                      *)
AckedMeansSettled ==
  \A e \in 1 .. last : e \notin pel => Handled(e) \/ Parked(e)

(* At least once keeps the order of the stream across reconnects and       *)
(* restarts: a handler is entered with an entry only when every earlier    *)
(* entry is settled, because pending entries are drained before the tail   *)
(* is read (bus.py:105-109).                                               *)
InOrder ==
  \A e \in Entries : started[e] > 0 =>
     \A d \in 1 .. e - 1 : Handled(d) \/ Parked(d)

(* With the redis guard, an event marked done never enters its handler     *)
(* again, however often the bus serves it (envelope.py:90-92).             *)
DoneNeverRerun ==
  [][\A e \in Entries : claim[e] = "done" => started'[e] = started[e]]_vars

(* At least once with a dead letter queue: every published entry is        *)
(* settled in the end, poison included.                                    *)
EventuallySettled ==
  \A e \in Entries : Len(stream) >= e ~> Handled(e) \/ Parked(e)

(* At most once never enters a handler twice with one entry, whatever is   *)
(* lost, crashes or reconnects (bus.py:91-93).                             *)
AtMostOnce == \A e \in Entries : started[e] <= 1

(* Every entry reaches the head of the consumer, even after one that kills *)
(* the thread: the supervisor brings it back (supervise.py:3-11).          *)
EventuallyTaken == \A e \in Entries : Len(stream) >= e ~> last >= e

------------------------------------------------------------------------------
(* Refinement of DeliveryPromise: an entry is lost when at most once took  *)
(* it and neither finished nor still holds it.                             *)
InHand(e) == cur.id = e \/ e \in {x.id : x \in batch}

Fate ==
  [e \in Entries |->
     IF e > Len(stream) THEN "unsent"
     ELSE IF Handled(e) THEN "handled"
     ELSE IF Parked(e) THEN "parked"
     ELSE IF e <= last /\ ~AtLeastOnce /\ ~InHand(e) THEN "lost"
     ELSE "waiting"]

Promise == INSTANCE DeliveryPromise WITH fate <- Fate

KeepsPromise == Promise!Spec
=============================================================================
