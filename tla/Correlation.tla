------------------------------ MODULE Correlation ------------------------------
(***************************************************************************)
(* correlation-service (services/correlation): the engine that buffers     *)
(* anomalous events per bucket and collapses a bucket into a Situation,    *)
(* the consumer thread that feeds it from telemetry.raw, the flusher       *)
(* thread that collapses on a timer, and the reset of the detector.        *)
(*                                                                         *)
(* Whether an event is anomalous is the detector's free choice; a          *)
(* signature is the set of series involved, and which signatures are       *)
(* reliably fixed is up to the training store.  The bus is taken as        *)
(* DeliveryPromise describes it, without a dead letter queue.              *)
(***************************************************************************)
EXTENDS Integers, Sequences, FiniteSets, Functions

CONSTANTS
  Series,        \* the monitored series
  Bucket,        \* [Series -> its bucket]: group_by
  Provable,      \* the signatures whose fixes may be found reliable
  Window,        \* correlation_window_seconds
  MinEvents,     \* correlation_min_events
  SuppressMode,  \* suppression_mode: "drop" or "quiet"
  Delivery,      \* bus_delivery: "at_most_once" or "at_least_once"
  GuardMode,     \* bus_idempotency_mode: "off", "memory" or "redis"
  MaxEvents,     \* bound: events in a behaviour, one fewer after each fault
  MaxBacklog,    \* bound: events the bus has yet to serve
  MaxTime,       \* bound: the latest timestamp
  MaxFaults      \* bound: faults and resets in a behaviour

ASSUME CorrelationAssumption ==
  /\ IsFiniteSet(Series) /\ Provable \subseteq SUBSET Series
  /\ Window \in Nat /\ MinEvents \in Nat \ {0}
  /\ SuppressMode \in {"drop", "quiet"}
  /\ Delivery \in {"at_most_once", "at_least_once"}
  /\ GuardMode \in {"off", "memory", "redis"}
  /\ MaxEvents \in Nat /\ MaxBacklog \in Nat /\ MaxTime \in Nat
  /\ MaxFaults \in Nat

AtLeastOnce == Delivery = "at_least_once"
Keys == {Bucket[s] : s \in Series}
Workers == {"consumer", "flusher"}
FaultKinds == {"consumer", "flusher", "process", "stop", "reset"}

VARIABLES
  events,      \* the stream telemetry.raw
  head,        \* the next event the bus serves
  done,        \* guard: the events marked done
  pc,          \* [Workers -> the step the thread is about to take]
  cur,         \* consumer: the event in hand, 0 for none
  hand,        \* [Workers -> the Situations it has yet to publish]
  popped,      \* [Workers -> the suppressed Situation it is reporting, 0 for none]
  buffers,     \* engine: [Keys -> the anomalous events buffered]
  queue,       \* engine: the suppressed Situations not yet reported
  reliable,    \* engine: the signatures that are reliably fixed
  formed,      \* history: every Situation the engine made
  detected,    \* the Situations on situations.detected
  suppressed,  \* the Situations on situations.suppressed
  stopping,    \* the stop event is set
  faults       \* [FaultKinds -> how many happened]

bus == <<events, head, done>>
threads == <<pc, cur, hand, popped>>
engine == <<buffers, queue, reliable, formed>>
topics == <<detected, suppressed>>
bounds == <<stopping, faults>>
vars == <<bus, threads, engine, topics, bounds>>

Events == [series : Series, ts : 0 .. MaxTime]
Situations == [members : Seq(1 .. Len(events)), reliable : BOOLEAN]
Pcs == {"wait", "add", "publish", "drain", "report", "mark", "ack", "ended"}

CorrelationTypeOK ==
  /\ events \in Seq(Events)
  /\ head \in 1 .. Len(events) + 1
  /\ done \subseteq 1 .. Len(events)
  /\ pc \in [Workers -> Pcs]
  /\ pc["flusher"] # "add"
  /\ cur \in 0 .. Len(events)
  /\ pc["consumer"] \in {"wait", "ended"} => cur = 0
  /\ pc["consumer"] \in {"add", "mark", "ack"} => cur # 0
  /\ cur # 0 => head = IF AtLeastOnce THEN cur ELSE cur + 1
  /\ hand \in [Workers -> SUBSET (1 .. Len(formed))]
  /\ popped \in [Workers -> 0 .. Len(formed)]
  /\ \A w \in Workers : /\ hand[w] # {} <=> pc[w] = "publish"
                        /\ popped[w] # 0 <=> pc[w] = "report"
  /\ buffers \in [Keys -> Seq(1 .. Len(events))]
  /\ queue \subseteq 1 .. Len(formed)
  /\ reliable \subseteq Provable
  /\ formed \in Seq(Situations)
  /\ detected \subseteq 1 .. Len(formed)
  /\ suppressed \subseteq 1 .. Len(formed)
  /\ stopping \in BOOLEAN
  /\ faults \in [FaultKinds -> Nat]

Init ==
  /\ events = <<>> /\ head = 1 /\ done = {}
  /\ pc = [w \in Workers |-> "wait"] /\ cur = 0
  /\ hand = [w \in Workers |-> {}]
  /\ popped = [w \in Workers |-> 0]
  /\ buffers = [k \in Keys |-> <<>>]
  /\ queue = {} /\ reliable = {} /\ formed = <<>>
  /\ detected = {} /\ suppressed = {}
  /\ stopping = FALSE
  /\ faults = [k \in FaultKinds |-> 0]

------------------------------------------------------------------------------
(* The engine.  Each operation holds the lock from its start to its end.   *)

Time(i) == events[i].ts
Key(i) == Bucket[events[i].series]
ThinOffByOne(buf) == Len(buf) + 1 < MinEvents
Thin(buf) == Len(buf) < MinEvents
Span(buf) == Time(buf[Len(buf)]) - Time(buf[1])

(* _correlate_buffer: a thin buffer stays until its span fills the window. *)
StaysThin(buf) == buf = <<>> \/ (Thin(buf) /\ Span(buf) < Window)
Remainder(buf) == IF StaysThin(buf) THEN buf ELSE <<>>

Signature(buf) == {events[buf[j]].series : j \in 1 .. Len(buf)}
Situation(buf) == [members |-> buf, reliable |-> Signature(buf) \in reliable]
Emitted(sit) == sit.reliable => SuppressMode = "quiet"

(* Situations are numbered as they are formed.  Those to publish, and the  *)
(* queue of suppressed ones, are worked off in that order.                 *)
Form(sits) == formed' = formed \o sits
New == Len(formed) + 1 .. Len(formed')
Suppress == queue' = queue \cup {n \in New : formed'[n].reliable}
ToPublish == {n \in New : Emitted(formed'[n])}
Foremost(n, ns) == n \in ns /\ \A m \in ns : n <= m

(* flush_all takes the buckets in the order of their first events.         *)
Ripe == {k \in Keys : ~Thin(buffers[k])}
FlushOrders ==
  {f \in [1 .. Cardinality(Ripe) -> Ripe] :
     \A i, j \in DOMAIN f : i < j => buffers[f[i]][1] < buffers[f[j]][1]}

FlushAllKeeping ==
  /\ \E f \in FlushOrders : Form([j \in DOMAIN f |-> Situation(buffers[f[j]])])
  /\ Suppress
  /\ UNCHANGED <<buffers, reliable>>

FlushAllAged ==
  /\ \E f \in FlushOrders :
       Form(SelectSeq([j \in DOMAIN f |-> Situation(buffers[f[j]])],
                      LAMBDA sit : Span(sit.members) >= Window))
  /\ Suppress
  /\ buffers' = [k \in Keys |-> IF buffers[k] # <<>> /\ Span(buffers[k]) >= Window
                                THEN <<>> ELSE buffers[k]]
  /\ UNCHANGED reliable

FlushAll ==
  /\ \E f \in FlushOrders : Form([j \in DOMAIN f |-> Situation(buffers[f[j]])])
  /\ Suppress
  /\ buffers' = [k \in Keys |-> Remainder(buffers[k])]
  /\ UNCHANGED reliable

------------------------------------------------------------------------------
(* What the threads do with what the engine returns.                       *)

(* A thread goes on with Situations to publish, or with the suppressed.    *)
GoPublishFirst(w) ==
  /\ hand' = [hand EXCEPT ![w] = {n \in ToPublish : Foremost(n, ToPublish)}]
  /\ pc' = [pc EXCEPT ![w] = IF ToPublish = {} THEN "drain" ELSE "publish"]

GoPublish(w) ==
  /\ hand' = [hand EXCEPT ![w] = ToPublish]
  /\ pc' = [pc EXCEPT ![w] = IF ToPublish = {} THEN "drain" ELSE "publish"]

Publish(w) ==
  /\ pc[w] = "publish"
  /\ \E n \in hand[w] :
       /\ Foremost(n, hand[w])
       /\ detected' = detected \cup {n}
       /\ hand' = [hand EXCEPT ![w] = @ \ {n}]
       /\ pc' = [pc EXCEPT ![w] = IF hand[w] = {n} THEN "drain" ELSE "publish"]
  /\ UNCHANGED <<bus, cur, popped, engine, suppressed, bounds>>

(* _drain_suppressed: pop under the lock, publish outside it.              *)
PopPeeking(w) ==
  /\ pc[w] = "drain"
  /\ \E n \in queue :
       Foremost(n, queue) /\ popped' = [popped EXCEPT ![w] = n]
  /\ pc' = [pc EXCEPT ![w] = "report"]
  /\ UNCHANGED <<bus, cur, hand, engine, topics, bounds>>

Pop(w) ==
  /\ pc[w] = "drain"
  /\ \E n \in queue :
       /\ Foremost(n, queue)
       /\ queue' = queue \ {n}
       /\ popped' = [popped EXCEPT ![w] = n]
  /\ pc' = [pc EXCEPT ![w] = "report"]
  /\ UNCHANGED <<bus, cur, hand, buffers, reliable, formed, topics, bounds>>

Report(w) ==
  /\ pc[w] = "report"
  /\ suppressed' = suppressed \cup {popped[w]}
  /\ popped' = [popped EXCEPT ![w] = 0]
  /\ pc' = [pc EXCEPT ![w] = "drain"]
  /\ UNCHANGED <<bus, cur, hand, engine, detected, bounds>>

Drained(w) ==
  /\ pc[w] = "drain"
  /\ queue = {}
  /\ pc' = [pc EXCEPT ![w] = IF w = "flusher" THEN "wait" ELSE IF cur = 0 THEN "ended" ELSE "mark"]
  /\ UNCHANGED <<bus, cur, hand, popped, engine, topics, bounds>>

------------------------------------------------------------------------------
(* The consumer thread.                                                    *)

(* iter_models skips what is marked done, before the stop event is seen.   *)
TakeEvent ==
  /\ pc["consumer"] = "wait"
  /\ head <= Len(events)
  /\ stopping => head \in done
  /\ cur' = head
  /\ head' = IF AtLeastOnce THEN head ELSE head + 1
  /\ pc' = [pc EXCEPT !["consumer"] = IF head \in done THEN "ack" ELSE "add"]
  /\ UNCHANGED <<events, done, hand, popped, engine, topics, bounds>>

(* The stop event is looked at when an event comes.  What is buffered is   *)
(* published on the way out; at most once, the event is lost.              *)
StopConsuming ==
  /\ pc["consumer"] = "wait"
  /\ head <= Len(events)
  /\ stopping /\ head \notin done
  /\ head' = IF AtLeastOnce THEN head ELSE head + 1
  /\ FlushAll
  /\ GoPublish("consumer")
  /\ UNCHANGED <<events, done, cur, popped, topics, bounds>>

AddNormal ==
  /\ pc["consumer"] = "add"
  /\ pc' = [pc EXCEPT !["consumer"] = "drain"]
  /\ UNCHANGED <<bus, cur, hand, popped, engine, topics, bounds>>

(* Only the bucket of the event can overflow on it.                        *)
AddComparingLast ==
  /\ pc["consumer"] = "add"
  /\ LET k == Key(cur)
         buf == buffers[k]
         overflows == buf # <<>> /\ Time(cur) - Time(buf[Len(buf)]) > Window
     IN /\ Form(IF overflows /\ ~Thin(buf) THEN <<Situation(buf)>> ELSE <<>>)
        /\ buffers' = [buffers EXCEPT ![k] =
                         Append(IF overflows THEN Remainder(buf) ELSE buf, cur)]
  /\ Suppress
  /\ GoPublish("consumer")
  /\ UNCHANGED <<bus, cur, popped, reliable, topics, bounds>>

AddAnomalous ==
  /\ pc["consumer"] = "add"
  /\ LET k == Key(cur)
         buf == buffers[k]
         overflows == buf # <<>> /\ Time(cur) - Time(buf[1]) > Window
     IN /\ Form(IF overflows /\ ~Thin(buf) THEN <<Situation(buf)>> ELSE <<>>)
        /\ buffers' = [buffers EXCEPT ![k] =
                         Append(IF overflows THEN Remainder(buf) ELSE buf, cur)]
  /\ Suppress
  /\ GoPublish("consumer")
  /\ UNCHANGED <<bus, cur, popped, reliable, topics, bounds>>

(* The event is marked done; asked for the next, the bus acknowledges it.  *)
MarkDone ==
  /\ pc["consumer"] = "mark"
  /\ done' = IF GuardMode = "off" THEN done ELSE done \cup {cur}
  /\ pc' = [pc EXCEPT !["consumer"] = "ack"]
  /\ UNCHANGED <<events, head, cur, hand, popped, engine, topics, bounds>>

Acknowledge ==
  /\ pc["consumer"] = "ack"
  /\ head' = cur + 1
  /\ cur' = 0
  /\ pc' = [pc EXCEPT !["consumer"] = "wait"]
  /\ UNCHANGED <<events, done, hand, popped, engine, topics, bounds>>

------------------------------------------------------------------------------
(* The flusher thread.                                                     *)

Flush ==
  /\ pc["flusher"] = "wait"
  /\ ~stopping
  /\ FlushAll
  /\ GoPublish("flusher")
  /\ UNCHANGED <<bus, cur, popped, topics, bounds>>

(* Before it waits again, it may read the map of reliable signatures anew. *)
Refresh ==
  /\ pc["flusher"] = "wait"
  /\ ~stopping
  /\ reliable' \in SUBSET Provable
  /\ UNCHANGED <<bus, threads, buffers, queue, formed, topics, bounds>>

------------------------------------------------------------------------------
(* Telemetry, faults, and the operator's reset.                            *)

FaultsSoFar == FoldFunction(+, 0, faults)

(* The polls of ingestion come in the order of time, which starts with the *)
(* first.                                                                  *)
Observe(s, ts) ==
  /\ Len(events) + FaultsSoFar < MaxEvents
  /\ Len(events) < head + MaxBacklog - 1
  /\ IF events = <<>> THEN ts = 0 ELSE Time(Len(events)) <= ts
  /\ events' = Append(events, [series |-> s, ts |-> ts])
  /\ UNCHANGED <<head, done, threads, engine, topics, bounds>>

Fault(kind) ==
  /\ FaultsSoFar < MaxFaults
  /\ faults' = [faults EXCEPT ![kind] = @ + 1]

(* The operator forgets the baseline, and with it what is buffered; the    *)
(* map of reliable signatures is carried over.                             *)
Reset ==
  /\ Fault("reset")
  /\ buffers' = [k \in Keys |-> <<>>]
  /\ queue' = {}
  /\ UNCHANGED <<bus, threads, reliable, formed, topics, stopping>>

(* A publication, the guard or the bus raises: the frame is gone, and the  *)
(* supervisor starts the thread again, unless the service stops.  The      *)
(* engine belongs to the process.                                          *)
ThreadDies(w) ==
  /\ pc[w] \notin {"wait", "ended"}
  /\ Fault(w)
  /\ pc' = [pc EXCEPT ![w] = IF stopping THEN "ended" ELSE "wait"]
  /\ hand' = [hand EXCEPT ![w] = {}]
  /\ popped' = [popped EXCEPT ![w] = 0]
  /\ cur' = IF w = "consumer" THEN 0 ELSE cur
  /\ UNCHANGED <<bus, engine, topics, stopping>>

Stop ==
  /\ ~stopping
  /\ Fault("stop")
  /\ stopping' = TRUE
  /\ UNCHANGED <<bus, threads, engine, topics>>

(* The process dies, or ends after a stop; it starts with what the         *)
(* training store says.                                                    *)
ProcessDies ==
  /\ Fault("process")
  /\ pc' = [w \in Workers |-> "wait"] /\ cur' = 0
  /\ hand' = [w \in Workers |-> {}]
  /\ popped' = [w \in Workers |-> 0]
  /\ buffers' = [k \in Keys |-> <<>>]
  /\ queue' = {}
  /\ reliable' \in SUBSET Provable
  /\ done' = IF GuardMode = "memory" THEN {} ELSE done
  /\ stopping' = FALSE
  /\ UNCHANGED <<events, head, formed, topics>>

------------------------------------------------------------------------------
Work(w) == Publish(w) \/ Pop(w) \/ Report(w) \/ Drained(w)
Consume ==
  \/ TakeEvent \/ StopConsuming \/ AddNormal \/ AddAnomalous
  \/ MarkDone \/ Acknowledge \/ Work("consumer")
Tick == Flush \/ Work("flusher")

Next ==
  \/ Consume
  \/ Tick \/ Refresh
  \/ \E s \in Series, ts \in 0 .. MaxTime : Observe(s, ts)
  \/ Reset
  \/ \E w \in Workers : ThreadDies(w)
  \/ Stop \/ ProcessDies

Spec == Init /\ [][Next]_vars /\ WF_vars(Consume) /\ WF_vars(Tick)

------------------------------------------------------------------------------
Members(n) == Range(formed[n].members)
Deaths == faults["consumer"] + faults["process"]
Again == IF AtLeastOnce THEN Deaths ELSE 0
Undisturbed == \A k \in FaultKinds : faults[k] = 0

(* The engine forms no Situation twice from the same anomaly, whoever      *)
(* collapses its bucket: the two threads share the engine under one lock   *)
(* (engine.py:105,134).  A redelivery after a death is a second anomaly.   *)
InOneSituation ==
  \A i \in 1 .. Len(events) :
    Cardinality({n \in 1 .. Len(formed) : i \in Members(n)})
      + Cardinality({k \in Keys : i \in Range(buffers[k])}) <= 1 + Again

(* An incident is sustained (engine.py:67-78): MinEvents different samples *)
(* of one bucket.  A death of the consumer may make one sample count       *)
(* twice, since the redelivered event is added again.                      *)
IncidentIsSustained ==
  \A n \in 1 .. Len(formed) :
    /\ Cardinality(Members(n)) + Again >= MinEvents
    /\ \A i, j \in Members(n) : Key(i) = Key(j)

FitsWindow(m) ==
  /\ \A j \in 1 .. Len(m) - 1 : Time(m[j]) - Time(m[1]) <= Window
  /\ Len(m) > MinEvents => Time(m[Len(m)]) - Time(m[1]) <= Window

(* A Situation covers one window (engine.py:3-5), but for its last event:  *)
(* a thin buffer takes it however late it comes, and then has no room for  *)
(* another (engine.py:114-118,146-160).                                    *)
OneStraggler == \A n \in 1 .. Len(formed) : FitsWindow(formed[n].members)

(* config.py:55: "Minimum anomalous events in a window before it becomes   *)
(* an incident".  All events of a Situation lie in one window.  The code   *)
(* does not keep it (README, section 6); OneStraggler says what it does.   *)
WithinWindow ==
  \A n \in 1 .. Len(formed) :
    LET m == formed[n].members IN Time(m[Len(m)]) - Time(m[1]) <= Window

(* Unless a thread or the process dies, nothing the engine formed is       *)
(* stranded between it and the bus, a shutdown included (consumer.py:31-62,*)
(* app.py:66-69): it is published, in the hands of a thread, or, if it was *)
(* suppressed, queued.  A reset empties that queue.                        *)
NothingStranded ==
  Deaths + faults["flusher"] = 0 =>
    \A n \in 1 .. Len(formed) :
      /\ Emitted(formed[n]) =>
           n \in detected \/ \E w \in Workers : n \in hand[w]
      /\ formed[n].reliable /\ faults["reset"] = 0 =>
           n \in suppressed \cup queue \/ \E w \in Workers : popped[w] = n

(* No Situation is published, or reported as suppressed, twice, although   *)
(* both threads take from the engine (engine.py:134,202): nobody has in    *)
(* hand what another has, or what was told before.                         *)
ReportedOnce ==
  /\ \A w \in Workers : hand[w] \cap detected = {} /\ popped[w] \notin suppressed \cup queue
  /\ queue \cap suppressed = {}
  /\ \A v, w \in Workers :
       v # w => hand[v] \cap hand[w] = {} /\ (popped[v] = popped[w] => popped[v] = 0)

Told(n) ==
  /\ Emitted(formed[n]) => n \in detected
  /\ formed[n].reliable => n \in suppressed

(* A sustained anomaly does not sit in its buffer for ever: the flusher    *)
(* collapses it, though no further event comes (app.py:41-48), and what is *)
(* formed is told on the topics it is due.                                 *)
SustainedIsTold ==
  Ripe # {} ~> \/ Ripe = {} /\ \A n \in 1 .. Len(formed) : Told(n)
               \/ ~Undisturbed
=============================================================================
