--------------------------- MODULE CorrelationProofs ---------------------------
(***************************************************************************)
(* Theorems about Correlation: the type invariant, that no Situation is    *)
(* told twice or stranded, how far a Situation reaches beyond its window,  *)
(* and how often one sample is counted.                                    *)
(***************************************************************************)
EXTENDS Correlation, FiniteSetTheorems, SequenceTheorems, TLAPS

USE CorrelationAssumption

------------------------------------------------------------------------------
(* What the engine's two collapsing operations have in common.             *)

Grows ==
  /\ Len(formed) \in Nat /\ Len(formed') \in Nat /\ Len(formed) <= Len(formed')
  /\ formed' \in Seq(Situations)
  /\ \A n \in 1 .. Len(formed) : formed'[n] = formed[n]
  /\ \A n \in New : \E k \in Keys : /\ ~Thin(buffers[k])
                                    /\ formed'[n] = Situation(buffers[k])
  /\ queue' \subseteq queue \cup New
  /\ ToPublish \subseteq New

LEMMA SituationType ==
  ASSUME NEW buf \in Seq(1 .. Len(events)) PROVE Situation(buf) \in Situations
BY DEF Situation, Situations

LEMMA FormGrows ==
  ASSUME CorrelationTypeOK, NEW sits \in Seq(Situations), Form(sits), Suppress,
         \A j \in 1 .. Len(sits) : \E k \in Keys : /\ ~Thin(buffers[k])
                                                   /\ sits[j] = Situation(buffers[k])
  PROVE  Grows
<1>1. /\ Len(formed) \in Nat /\ Len(sits) \in Nat /\ Len(formed') = Len(formed) + Len(sits)
      /\ formed' \in Seq(Situations)
  BY DEF Form, CorrelationTypeOK
<1>2. \A n \in 1 .. Len(formed) : formed'[n] = formed[n]
  BY <1>1 DEF Form, CorrelationTypeOK
<1>3. \A n \in New : n - Len(formed) \in 1 .. Len(sits) /\ formed'[n] = sits[n - Len(formed)]
  BY <1>1 DEF Form, New, CorrelationTypeOK
<1>4. QED
  BY <1>1, <1>2, <1>3 DEF Grows, Suppress, ToPublish

LEMMA FlushGrows == ASSUME CorrelationTypeOK, FlushAll PROVE Grows
<1>1. PICK f \in FlushOrders : Form([j \in DOMAIN f |-> Situation(buffers[f[j]])])
  BY DEF FlushAll
<1> DEFINE sits == [j \in DOMAIN f |-> Situation(buffers[f[j]])]
<1>2. Cardinality(Ripe) \in Nat
  <2>1. IsFiniteSet(Keys)
    <3> DEFINE g == [s \in Series |-> Bucket[s]]
    <3>1. g \in Surjection(Series, Keys)
      BY DEF Surjection, Keys
    <3>2. QED
      BY <3>1, FS_Surjection
  <2>2. QED
    BY <2>1, FS_Subset, FS_CardinalityType DEF Ripe
<1>3. DOMAIN f = 1 .. Cardinality(Ripe) /\ \A j \in DOMAIN f : f[j] \in Ripe
  BY DEF FlushOrders
<1>4. \A j \in DOMAIN f : f[j] \in Keys /\ ~Thin(buffers[f[j]]) /\ sits[j] \in Situations
  BY <1>3, SituationType DEF Ripe, CorrelationTypeOK
<1>5. sits \in Seq(Situations) /\ Len(sits) = Cardinality(Ripe)
  BY <1>2, <1>3, <1>4
<1>6. QED
  BY <1>1, <1>3, <1>4, <1>5, FormGrows DEF FlushAll

(* The event in hand is on the stream.                                     *)
LEMMA InHand ==
  ASSUME CorrelationTypeOK, pc["consumer"] = "add", cur # 0
  PROVE  cur \in 1 .. Len(events) /\ Len(events) \in Nat /\ Key(cur) \in Keys
<1>1. events \in Seq(Events) /\ Len(events) \in Nat /\ cur \in 1 .. Len(events)
  BY DEF CorrelationTypeOK
<1>2. events[cur] \in Events
  BY <1>1
<1>3. QED
  BY <1>1, <1>2 DEF Key, Keys, Events

LEMMA AddGrows == ASSUME CorrelationTypeOK, cur # 0, AddAnomalous PROVE Grows
<1> DEFINE buf == buffers[Key(cur)]
           closes == buf # <<>> /\ Time(cur) - Time(buf[1]) > Window /\ ~Thin(buf)
           sits == IF closes THEN <<Situation(buf)>> ELSE <<>>
<1>1. Form(sits) /\ Suppress /\ pc["consumer"] = "add"
  BY DEF AddAnomalous
<1>2. Key(cur) \in Keys /\ Situation(buf) \in Situations
  BY <1>1, InHand, SituationType DEF CorrelationTypeOK
<1>3. sits \in Seq(Situations) /\ \A j \in 1 .. Len(sits) : closes /\ sits[j] = Situation(buf)
  BY <1>2
<1>4. QED
  BY <1>1, <1>2, <1>3, FormGrows

LEMMA RemainderType ==
  ASSUME NEW buf \in Seq(1 .. Len(events)) PROVE Remainder(buf) \in Seq(1 .. Len(events))
<1>1. <<>> \in Seq(1 .. Len(events))
  OBVIOUS
<1>2. QED
  BY <1>1 DEF Remainder

LEMMA FlushType ==
  ASSUME CorrelationTypeOK, FlushAll
  PROVE  /\ buffers' \in [Keys -> Seq(1 .. Len(events))]
         /\ reliable' = reliable
<1>1. \A k \in Keys : Remainder(buffers[k]) \in Seq(1 .. Len(events))
  BY RemainderType DEF CorrelationTypeOK
<1>2. QED
  BY <1>1 DEF FlushAll

LEMMA AddType ==
  ASSUME CorrelationTypeOK, cur # 0, AddAnomalous
  PROVE  buffers' \in [Keys -> Seq(1 .. Len(events))]
<1> DEFINE k == Key(cur)
           buf == buffers[k]
           overflows == buf # <<>> /\ Time(cur) - Time(buf[1]) > Window
           base == IF overflows THEN Remainder(buf) ELSE buf
<1>1. pc["consumer"] = "add" /\ buffers' = [buffers EXCEPT ![k] = Append(base, cur)]
  BY DEF AddAnomalous
<1>2. buffers \in [Keys -> Seq(1 .. Len(events))] /\ cur \in 1 .. Len(events) /\ k \in Keys
  BY <1>1, InHand DEF CorrelationTypeOK
<1>3. base \in Seq(1 .. Len(events))
  BY <1>2, RemainderType
<1>4. Append(base, cur) \in Seq(1 .. Len(events))
  BY <1>2, <1>3
<1> HIDE DEF k, base
<1>5. QED
  BY <1>1, <1>2, <1>4

------------------------------------------------------------------------------
LEMMA TypeInit == Init => CorrelationTypeOK
<1> SUFFICES ASSUME Init PROVE CorrelationTypeOK
  OBVIOUS
<1>1. events = <<>> /\ formed = <<>> /\ Len(events) = 0 /\ Len(formed) = 0
  BY DEF Init
<1>2. events \in Seq(Events) /\ formed \in Seq(Situations)
  BY <1>1
<1>3. buffers \in [Keys -> Seq(1 .. Len(events))]
  BY DEF Init
<1>4. /\ pc \in [Workers -> Pcs] /\ hand \in [Workers -> SUBSET (1 .. Len(formed))]
      /\ popped \in [Workers -> 0 .. Len(formed)] /\ faults \in [FaultKinds -> Nat]
  BY <1>1 DEF Init, Pcs
<1>5. \A w \in Workers : pc[w] = "wait" /\ hand[w] = {} /\ popped[w] = 0
  BY DEF Init
<1>6. pc["flusher"] = "wait" /\ pc["consumer"] = "wait"
  BY <1>5 DEF Workers
<1>7. /\ pc["flusher"] # "add" /\ pc["consumer"] \notin {"add", "mark", "ack"}
      /\ \A w \in Workers : /\ hand[w] # {} <=> pc[w] = "publish"
                            /\ popped[w] # 0 <=> pc[w] = "report"
  BY <1>5, <1>6
<1>8. head \in 1 .. Len(events) + 1 /\ cur = 0 /\ cur \in 0 .. Len(events)
  BY <1>1 DEF Init
<1>9. /\ done \subseteq 1 .. Len(events) /\ reliable \subseteq Provable
      /\ queue \subseteq 1 .. Len(formed) /\ detected \subseteq 1 .. Len(formed)
      /\ suppressed \subseteq 1 .. Len(formed) /\ stopping \in BOOLEAN
  BY DEF Init
<1>10. QED
  BY <1>2, <1>3, <1>4, <1>7, <1>8, <1>9 DEF CorrelationTypeOK

(* A step of a thread that forms Situations and goes on to tell them.      *)
LEMMA CollapseType ==
  ASSUME CorrelationTypeOK, Grows, NEW w \in Workers, pc[w] \in {"wait", "add"}, GoPublish(w),
         buffers' \in [Keys -> Seq(1 .. Len(events))],
         head' \in 1 .. Len(events) + 1, cur # 0 => head' = head,
         UNCHANGED <<events, done, cur, popped, reliable, topics, bounds>>
  PROVE  CorrelationTypeOK'
<1>1. New \subseteq 1 .. Len(formed') /\ 1 .. Len(formed) \subseteq 1 .. Len(formed')
  BY DEF Grows, New
<1>2. ToPublish \subseteq 1 .. Len(formed')
  BY <1>1 DEF Grows
<1>3. queue' \subseteq 1 .. Len(formed') /\ detected' \subseteq 1 .. Len(formed')
      /\ suppressed' \subseteq 1 .. Len(formed')
  BY <1>1 DEF Grows, CorrelationTypeOK, topics
<1>4. pc' \in [Workers -> Pcs] /\ pc'["flusher"] # "add"
  BY DEF GoPublish, CorrelationTypeOK, Pcs, Workers
<1>5. hand' \in [Workers -> SUBSET (1 .. Len(formed'))]
  BY <1>1, <1>2 DEF GoPublish, CorrelationTypeOK
<1>6. popped' \in [Workers -> 0 .. Len(formed')]
  BY DEF Grows, CorrelationTypeOK
<1>7. \A v \in Workers : /\ hand'[v] # {} <=> pc'[v] = "publish"
                         /\ popped'[v] # 0 <=> pc'[v] = "report"
  BY DEF GoPublish, CorrelationTypeOK
<1>8. /\ pc'["consumer"] \in {"wait", "ended"} => cur' = 0
      /\ pc'["consumer"] \in {"add", "mark", "ack"} => cur' # 0
  BY DEF GoPublish, CorrelationTypeOK, Workers
<1>9. QED
  BY <1>3, <1>4, <1>5, <1>6, <1>7, <1>8 DEF CorrelationTypeOK, Grows, topics, bounds,
     Situations, Events

LEMMA PublishType ==
  ASSUME CorrelationTypeOK, NEW w \in Workers, Publish(w) PROVE CorrelationTypeOK'
<1>1. PICK n \in hand[w] : /\ detected' = detected \cup {n}
                           /\ hand' = [hand EXCEPT ![w] = @ \ {n}]
                           /\ pc' = [pc EXCEPT ![w] = IF hand[w] = {n} THEN "drain" ELSE "publish"]
  BY DEF Publish
<1>2. UNCHANGED <<bus, cur, popped, engine, suppressed, bounds>> /\ pc[w] = "publish"
  BY DEF Publish
<1>3. n \in 1 .. Len(formed) /\ hand \in [Workers -> SUBSET (1 .. Len(formed))]
  BY DEF CorrelationTypeOK
<1>4. pc' \in [Workers -> Pcs] /\ hand' \in [Workers -> SUBSET (1 .. Len(formed))]
      /\ detected' \subseteq 1 .. Len(formed)
  BY <1>1, <1>3 DEF CorrelationTypeOK, Pcs
<1>5. \A v \in Workers : /\ hand'[v] # {} <=> pc'[v] = "publish"
                         /\ popped'[v] # 0 <=> pc'[v] = "report"
  BY <1>1, <1>2, <1>3 DEF CorrelationTypeOK
<1>6. /\ pc'["flusher"] # "add"
      /\ pc'["consumer"] \in {"wait", "ended", "add", "mark", "ack"} => pc'["consumer"] = pc["consumer"]
  BY <1>1 DEF CorrelationTypeOK, Workers
<1>7. QED
  BY <1>2, <1>4, <1>5, <1>6 DEF CorrelationTypeOK, bus, engine, bounds, Situations, Events

LEMMA PopType ==
  ASSUME CorrelationTypeOK, NEW w \in Workers, Pop(w) PROVE CorrelationTypeOK'
<1>1. PICK n \in queue : queue' = queue \ {n} /\ popped' = [popped EXCEPT ![w] = n]
  BY DEF Pop
<1>2. /\ UNCHANGED <<bus, cur, hand, buffers, reliable, formed, topics, bounds>>
      /\ pc[w] = "drain" /\ pc' = [pc EXCEPT ![w] = "report"]
  BY DEF Pop
<1>3. n \in 1 .. Len(formed) /\ n # 0 /\ queue' \subseteq 1 .. Len(formed)
  BY <1>1 DEF CorrelationTypeOK
<1>4. pc' \in [Workers -> Pcs] /\ popped' \in [Workers -> 0 .. Len(formed)]
  BY <1>1, <1>2, <1>3 DEF CorrelationTypeOK, Pcs
<1>5. \A v \in Workers : /\ hand'[v] # {} <=> pc'[v] = "publish"
                         /\ popped'[v] # 0 <=> pc'[v] = "report"
  BY <1>1, <1>2, <1>3 DEF CorrelationTypeOK
<1>6. /\ pc'["flusher"] # "add"
      /\ pc'["consumer"] \in {"wait", "ended", "add", "mark", "ack"} => pc'["consumer"] = pc["consumer"]
  BY <1>2 DEF CorrelationTypeOK, Workers
<1>7. QED
  BY <1>2, <1>3, <1>4, <1>5, <1>6 DEF CorrelationTypeOK, bus, topics, bounds, Situations, Events

LEMMA ReportType ==
  ASSUME CorrelationTypeOK, NEW w \in Workers, Report(w) PROVE CorrelationTypeOK'
<1>1. /\ pc[w] = "report" /\ pc' = [pc EXCEPT ![w] = "drain"]
      /\ popped' = [popped EXCEPT ![w] = 0] /\ suppressed' = suppressed \cup {popped[w]}
      /\ UNCHANGED <<bus, cur, hand, engine, detected, bounds>>
  BY DEF Report
<1>2. popped[w] \in 0 .. Len(formed) /\ popped[w] # 0 /\ Len(formed) \in Nat
  BY <1>1 DEF CorrelationTypeOK
<1>3. suppressed' \subseteq 1 .. Len(formed)
  <2>1. popped[w] \in 1 .. Len(formed) /\ suppressed \subseteq 1 .. Len(formed)
    BY <1>2 DEF CorrelationTypeOK
  <2>2. QED
    BY <1>1, <2>1
<1>4. pc' \in [Workers -> Pcs] /\ popped' \in [Workers -> 0 .. Len(formed)]
  BY <1>1, <1>2 DEF CorrelationTypeOK, Pcs
<1>5. \A v \in Workers : /\ hand'[v] # {} <=> pc'[v] = "publish"
                         /\ popped'[v] # 0 <=> pc'[v] = "report"
  BY <1>1 DEF CorrelationTypeOK
<1>6. /\ pc'["flusher"] # "add"
      /\ pc'["consumer"] \in {"wait", "ended", "add", "mark", "ack"} => pc'["consumer"] = pc["consumer"]
  BY <1>1 DEF CorrelationTypeOK, Workers
<1>7. QED
  BY <1>1, <1>3, <1>4, <1>5, <1>6 DEF CorrelationTypeOK, bus, engine, bounds, Situations, Events

LEMMA DrainedType ==
  ASSUME CorrelationTypeOK, NEW w \in Workers, Drained(w) PROVE CorrelationTypeOK'
<1>1. /\ pc[w] = "drain"
      /\ pc' = [pc EXCEPT ![w] = IF w = "flusher" THEN "wait"
                                 ELSE IF cur = 0 THEN "ended" ELSE "mark"]
      /\ UNCHANGED <<bus, cur, hand, popped, engine, topics, bounds>>
  BY DEF Drained
<1>2. pc' \in [Workers -> Pcs]
  BY <1>1 DEF CorrelationTypeOK, Pcs
<1>3. \A v \in Workers : /\ hand'[v] # {} <=> pc'[v] = "publish"
                         /\ popped'[v] # 0 <=> pc'[v] = "report"
  BY <1>1 DEF CorrelationTypeOK
<1>4. /\ pc'["flusher"] # "add"
      /\ pc'["consumer"] \in {"wait", "ended"} => cur = 0
      /\ pc'["consumer"] \in {"add", "mark", "ack"} => cur # 0
  BY <1>1 DEF CorrelationTypeOK, Workers
<1>5. QED
  BY <1>1, <1>2, <1>3, <1>4 DEF CorrelationTypeOK, bus, engine, topics, bounds, Situations, Events

(* A step of the consumer that only moves it, and what it holds of the bus. *)
LEMMA MoveType ==
  ASSUME CorrelationTypeOK, UNCHANGED <<events, hand, popped, engine, topics, bounds>>,
         head' \in 1 .. Len(events) + 1, done' \subseteq 1 .. Len(events),
         cur' \in 0 .. Len(events),
         cur' # 0 => head' = IF AtLeastOnce THEN cur' ELSE cur' + 1,
         NEW p \in Pcs, pc' = [pc EXCEPT !["consumer"] = p],
         pc["consumer"] \notin {"publish", "report"}, p \notin {"publish", "report"},
         p \in {"wait", "ended"} => cur' = 0, p \in {"add", "mark", "ack"} => cur' # 0
  PROVE  CorrelationTypeOK'
<1>1. pc' \in [Workers -> Pcs] /\ pc'["flusher"] = pc["flusher"] /\ pc'["consumer"] = p
  BY DEF CorrelationTypeOK, Workers
<1>2. \A v \in Workers : /\ hand'[v] # {} <=> pc'[v] = "publish"
                         /\ popped'[v] # 0 <=> pc'[v] = "report"
  BY <1>1 DEF CorrelationTypeOK, Workers
<1>3. QED
  BY <1>1, <1>2 DEF CorrelationTypeOK, engine, topics, bounds, Situations, Events

LEMMA ConsumerMoves ==
  ASSUME CorrelationTypeOK, TakeEvent \/ AddNormal \/ MarkDone \/ Acknowledge
  PROVE  CorrelationTypeOK'
<1>1. Len(events) \in Nat /\ head \in 1 .. Len(events) + 1 /\ cur \in 0 .. Len(events)
      /\ done \subseteq 1 .. Len(events)
  BY DEF CorrelationTypeOK
<1>2. CASE TakeEvent
  <2>1. head \in 1 .. Len(events) /\ pc["consumer"] = "wait" /\ cur' = head
    BY <1>1, <1>2 DEF TakeEvent
  <2>2. PICK p \in {"ack", "add"} : pc' = [pc EXCEPT !["consumer"] = p]
    BY <1>2 DEF TakeEvent
  <2>3. head' = (IF AtLeastOnce THEN cur' ELSE cur' + 1) /\ done' = done
        /\ UNCHANGED <<events, hand, popped, engine, topics, bounds>>
    BY <1>2 DEF TakeEvent
  <2>4. head' \in 1 .. Len(events) + 1 /\ cur' \in 0 .. Len(events) /\ cur' # 0
    BY <1>1, <2>1, <2>3
  <2>5. p \in Pcs
    BY <2>2 DEF Pcs
  <2>6. QED
    BY <1>1, <2>1, <2>2, <2>3, <2>4, <2>5, MoveType
<1>3. CASE AddNormal
  <2>1. pc["consumer"] = "add" /\ pc' = [pc EXCEPT !["consumer"] = "drain"]
        /\ UNCHANGED <<bus, cur, hand, popped, engine, topics, bounds>>
    BY <1>3 DEF AddNormal
  <2>2. "drain" \in Pcs /\ (cur # 0 => head = IF AtLeastOnce THEN cur ELSE cur + 1)
    BY DEF Pcs, CorrelationTypeOK
  <2>3. UNCHANGED <<events, hand, popped, engine, topics, bounds>>
        /\ head' = head /\ done' = done /\ cur' = cur
    BY <2>1 DEF bus
  <2>4. /\ cur' # 0 => head' = IF AtLeastOnce THEN cur' ELSE cur' + 1
        /\ head' \in 1 .. Len(events) + 1 /\ cur' \in 0 .. Len(events)
        /\ done' \subseteq 1 .. Len(events)
    BY <1>1, <2>2, <2>3
  <2>5. QED
    BY <2>1, <2>2, <2>3, <2>4, MoveType
<1>4. CASE MarkDone
  <2>1. pc["consumer"] = "mark" /\ pc' = [pc EXCEPT !["consumer"] = "ack"]
        /\ done' = (IF GuardMode = "off" THEN done ELSE done \cup {cur})
        /\ head' = head /\ cur' = cur
        /\ UNCHANGED <<events, hand, popped, engine, topics, bounds>>
    BY <1>4 DEF MarkDone
  <2>2. cur # 0 /\ "ack" \in Pcs /\ (cur # 0 => head = IF AtLeastOnce THEN cur ELSE cur + 1)
    BY <2>1 DEF Pcs, CorrelationTypeOK
  <2>3. done' \subseteq 1 .. Len(events)
    BY <1>1, <2>1, <2>2
  <2>4. /\ cur' # 0 /\ head' = IF AtLeastOnce THEN cur' ELSE cur' + 1
        /\ head' \in 1 .. Len(events) + 1 /\ cur' \in 0 .. Len(events)
    BY <1>1, <2>1, <2>2
  <2>5. QED
    BY <2>1, <2>2, <2>3, <2>4, MoveType
<1>5. CASE Acknowledge
  <2>1. pc["consumer"] = "ack" /\ pc' = [pc EXCEPT !["consumer"] = "wait"]
        /\ head' = cur + 1 /\ cur' = 0
        /\ UNCHANGED <<events, done, hand, popped, engine, topics, bounds>>
    BY <1>5 DEF Acknowledge
  <2>2. cur # 0 /\ "wait" \in Pcs
    BY <2>1 DEF Pcs, CorrelationTypeOK
  <2>3. done' \subseteq 1 .. Len(events) /\ head' \in 1 .. Len(events) + 1
    BY <1>1, <2>1, <2>2
  <2>4. cur' \in 0 .. Len(events) /\ ~(cur' # 0)
    BY <1>1, <2>1
  <2>5. QED
    BY <2>1, <2>2, <2>3, <2>4, MoveType
<1>6. QED
  BY <1>2, <1>3, <1>4, <1>5

LEMMA CollapsesType ==
  ASSUME CorrelationTypeOK, StopConsuming \/ AddAnomalous \/ Flush PROVE CorrelationTypeOK'
<1>1. Len(events) \in Nat /\ head \in 1 .. Len(events) + 1
  BY DEF CorrelationTypeOK
<1>2. CASE StopConsuming
  <2>1. /\ pc["consumer"] = "wait" /\ head <= Len(events) /\ FlushAll /\ GoPublish("consumer")
        /\ head' = (IF AtLeastOnce THEN head ELSE head + 1)
        /\ UNCHANGED <<events, done, cur, popped, topics, bounds>>
    BY <1>2 DEF StopConsuming
  <2>2. cur = 0 /\ head' \in 1 .. Len(events) + 1 /\ "consumer" \in Workers
    BY <1>1, <2>1 DEF CorrelationTypeOK, Workers
  <2>3. QED
    BY <2>1, <2>2, FlushGrows, FlushType, CollapseType
<1>3. CASE AddAnomalous
  <2>1. /\ pc["consumer"] = "add" /\ GoPublish("consumer") /\ cur # 0
        /\ UNCHANGED <<bus, cur, popped, reliable, topics, bounds>>
    BY <1>3 DEF AddAnomalous, CorrelationTypeOK
  <2>2. "consumer" \in Workers /\ head' = head /\ UNCHANGED <<events, done>>
    BY <2>1 DEF Workers, bus
  <2>3. QED
    BY <1>1, <1>3, <2>1, <2>2, AddGrows, AddType, CollapseType
<1>4. CASE Flush
  <2>1. /\ pc["flusher"] = "wait" /\ GoPublish("flusher") /\ FlushAll
        /\ UNCHANGED <<bus, cur, popped, topics, bounds>>
    BY <1>4 DEF Flush
  <2>2. "flusher" \in Workers /\ head' = head /\ UNCHANGED <<events, done>>
    BY <2>1 DEF Workers, bus
  <2>3. QED
    BY <1>1, <2>1, <2>2, FlushGrows, FlushType, CollapseType
<1>5. QED
  BY <1>2, <1>3, <1>4

LEMMA ObserveType ==
  ASSUME CorrelationTypeOK, NEW s \in Series, NEW ts \in 0 .. MaxTime, Observe(s, ts)
  PROVE  CorrelationTypeOK'
<1>1. /\ events' = Append(events, [series |-> s, ts |-> ts]) /\ events \in Seq(Events)
      /\ UNCHANGED <<head, done, threads, engine, topics, bounds>>
  BY DEF Observe, CorrelationTypeOK
<1>2. [series |-> s, ts |-> ts] \in Events
  BY DEF Events
<1>3. events' \in Seq(Events) /\ Len(events) \in Nat /\ Len(events') = Len(events) + 1
  BY <1>1, <1>2
<1>4. 1 .. Len(events) \subseteq 1 .. Len(events')
  BY <1>3
<1>5. ASSUME NEW q \in Seq(1 .. Len(events)) PROVE q \in Seq(1 .. Len(events'))
  BY <1>4, SeqMonotonic
<1>6. buffers' \in [Keys -> Seq(1 .. Len(events'))]
  BY <1>1, <1>5 DEF CorrelationTypeOK, engine
<1>7. formed' \in Seq(Situations')
  <2>1. \A sit \in Situations : sit \in Situations'
    BY <1>5 DEF Situations
  <2>2. formed \in Seq(Situations) /\ formed' = formed
    BY <1>1 DEF CorrelationTypeOK, engine
  <2>3. QED
    BY <2>1, <2>2
<1>8. head' \in 1 .. Len(events') + 1 /\ cur' \in 0 .. Len(events')
      /\ done' \subseteq 1 .. Len(events')
  BY <1>1, <1>3, <1>4 DEF CorrelationTypeOK, threads
<1>9. Events' = Events
  BY DEF Events
<1>10. QED
  BY <1>1, <1>3, <1>6, <1>7, <1>8, <1>9 DEF CorrelationTypeOK, threads, engine, topics, bounds

LEMMA FaultType ==
  ASSUME CorrelationTypeOK, NEW kind \in FaultKinds, Fault(kind)
  PROVE  faults' \in [FaultKinds -> Nat]
BY DEF Fault, CorrelationTypeOK

LEMMA ThreadDiesType ==
  ASSUME CorrelationTypeOK, NEW w \in Workers, ThreadDies(w) PROVE CorrelationTypeOK'
<1> DEFINE p == IF stopping THEN "ended" ELSE "wait"
<1>1. /\ pc' = [pc EXCEPT ![w] = p] /\ hand' = [hand EXCEPT ![w] = {}]
      /\ popped' = [popped EXCEPT ![w] = 0] /\ cur' = (IF w = "consumer" THEN 0 ELSE cur)
      /\ UNCHANGED <<bus, engine, topics, stopping>>
  BY DEF ThreadDies
<1>2. faults' \in [FaultKinds -> Nat]
  BY FaultType DEF ThreadDies, Workers, FaultKinds
<1>3. p \in Pcs /\ p \in {"ended", "wait"}
  BY DEF Pcs
<1> HIDE DEF p
<1>4. /\ pc' \in [Workers -> Pcs] /\ hand' \in [Workers -> SUBSET (1 .. Len(formed))]
      /\ popped' \in [Workers -> 0 .. Len(formed)]
  <2>1. Len(formed) \in Nat
    BY DEF CorrelationTypeOK
  <2>2. QED
    BY <1>1, <1>3, <2>1 DEF CorrelationTypeOK
<1>5. \A v \in Workers : /\ hand'[v] # {} <=> pc'[v] = "publish"
                         /\ popped'[v] # 0 <=> pc'[v] = "report"
  BY <1>1, <1>3 DEF CorrelationTypeOK
<1>6. /\ pc'["flusher"] # "add"
      /\ pc'["consumer"] \in {"wait", "ended"} => cur' = 0
      /\ pc'["consumer"] \in {"add", "mark", "ack"} => cur' # 0
      /\ cur' \in 0 .. Len(events)
      /\ cur' # 0 => cur' = cur
  BY <1>1, <1>3 DEF CorrelationTypeOK, Workers
<1>7. /\ events' = events /\ head' = head /\ done' = done /\ buffers' = buffers /\ queue' = queue
      /\ reliable' = reliable /\ formed' = formed /\ detected' = detected
      /\ suppressed' = suppressed /\ stopping' = stopping
  BY <1>1 DEF bus, engine, topics
<1>8. Situations' = Situations /\ Events' = Events
  BY <1>7 DEF Situations, Events
<1>9. cur' # 0 => head' = IF AtLeastOnce THEN cur' ELSE cur' + 1
  <2>1. cur # 0 => head = IF AtLeastOnce THEN cur ELSE cur + 1
    BY DEF CorrelationTypeOK
  <2>2. cur' # 0 => cur' = cur
    BY <1>6
  <2>3. CASE cur' = cur
    BY <1>7, <2>1, <2>3
  <2>4. QED
    BY <2>2, <2>3
<1>10. QED
  BY <1>2, <1>4, <1>5, <1>6, <1>7, <1>8, <1>9 DEF CorrelationTypeOK

LEMMA ProcessDiesType == ASSUME CorrelationTypeOK, ProcessDies PROVE CorrelationTypeOK'
<1>1. /\ pc' = [w \in Workers |-> "wait"] /\ cur' = 0 /\ hand' = [w \in Workers |-> {}]
      /\ popped' = [w \in Workers |-> 0] /\ buffers' = [k \in Keys |-> <<>>]
      /\ queue' = {} /\ reliable' \in SUBSET Provable
      /\ done' = (IF GuardMode = "memory" THEN {} ELSE done) /\ stopping' = FALSE
      /\ UNCHANGED <<events, head, formed, topics>>
  BY DEF ProcessDies
<1>2. faults' \in [FaultKinds -> Nat]
  BY FaultType DEF ProcessDies, FaultKinds
<1>3. /\ pc' \in [Workers -> Pcs] /\ hand' \in [Workers -> SUBSET (1 .. Len(formed))]
      /\ popped' \in [Workers -> 0 .. Len(formed)]
  <2>1. Len(formed) \in Nat /\ "wait" \in Pcs
    BY DEF CorrelationTypeOK, Pcs
  <2>2. QED
    BY <1>1, <2>1
<1>4. \A v \in Workers : /\ hand'[v] # {} <=> pc'[v] = "publish"
                         /\ popped'[v] # 0 <=> pc'[v] = "report"
  BY <1>1
<1>5. pc'["flusher"] = "wait" /\ pc'["consumer"] = "wait"
  BY <1>1 DEF Workers
<1>6. buffers' \in [Keys -> Seq(1 .. Len(events))]
  <2>1. <<>> \in Seq(1 .. Len(events))
    OBVIOUS
  <2>2. QED
    BY <1>1, <2>1
<1>7. done' \subseteq 1 .. Len(events)
  <2>1. done' = {} \/ done' = done
    BY <1>1
  <2>2. QED
    BY <2>1 DEF CorrelationTypeOK
<1>8. queue' \subseteq 1 .. Len(formed) /\ cur' \in 0 .. Len(events) /\ stopping' \in BOOLEAN
  <2>1. queue' \subseteq 1 .. Len(formed) /\ stopping' \in BOOLEAN
    BY <1>1, Zenon
  <2>2. cur' \in 0 .. Len(events)
    BY <1>1 DEF CorrelationTypeOK
  <2>3. QED
    BY <2>1, <2>2
<1>9. QED
  BY <1>1, <1>2, <1>3, <1>4, <1>5, <1>6, <1>7, <1>8 DEF CorrelationTypeOK, topics, Situations, Events

LEMMA OperatorType ==
  ASSUME CorrelationTypeOK, Refresh \/ Reset \/ Stop \/ UNCHANGED vars PROVE CorrelationTypeOK'
<1>1. CASE Refresh
  BY <1>1 DEF Refresh, CorrelationTypeOK, bus, threads, topics, bounds, Situations, Events
<1>2. CASE Reset
  <2>1. /\ buffers' = [k \in Keys |-> <<>>] /\ queue' = {}
        /\ UNCHANGED <<bus, threads, reliable, formed, topics, stopping>>
    BY <1>2 DEF Reset
  <2>2. faults' \in [FaultKinds -> Nat]
    BY <1>2, FaultType DEF Reset, FaultKinds
  <2>3. buffers' \in [Keys -> Seq(1 .. Len(events))]
    <3>1. <<>> \in Seq(1 .. Len(events))
      OBVIOUS
    <3>2. QED
      BY <2>1, <3>1
  <2>4. QED
    BY <2>1, <2>2, <2>3 DEF CorrelationTypeOK, bus, threads, topics, Situations, Events
<1>3. CASE Stop
  <2>1. stopping' = TRUE /\ UNCHANGED <<bus, threads, engine, topics>>
    BY <1>3 DEF Stop
  <2>2. faults' \in [FaultKinds -> Nat]
    BY <1>3, FaultType DEF Stop, FaultKinds
  <2>3. QED
    BY <2>1, <2>2 DEF CorrelationTypeOK, bus, threads, engine, topics, Situations, Events
<1>4. CASE UNCHANGED vars
  BY <1>4 DEF vars, CorrelationTypeOK, bus, threads, engine, topics, bounds, Situations, Events
<1>5. QED
  BY <1>1, <1>2, <1>3, <1>4

LEMMA TypeStep == CorrelationTypeOK /\ [Next]_vars => CorrelationTypeOK'
<1> SUFFICES ASSUME CorrelationTypeOK, [Next]_vars PROVE CorrelationTypeOK'
  OBVIOUS
<1>1. CASE \E w \in Workers : Work(w)
  BY <1>1, PublishType, PopType, ReportType, DrainedType DEF Work
<1>2. CASE TakeEvent \/ AddNormal \/ MarkDone \/ Acknowledge
  BY <1>2, ConsumerMoves
<1>3. CASE StopConsuming \/ AddAnomalous \/ Flush
  BY <1>3, CollapsesType
<1>4. CASE \E s \in Series, ts \in 0 .. MaxTime : Observe(s, ts)
  BY <1>4, ObserveType
<1>5. CASE \E w \in Workers : ThreadDies(w)
  BY <1>5, ThreadDiesType
<1>6. CASE ProcessDies
  BY <1>6, ProcessDiesType
<1>7. CASE Refresh \/ Reset \/ Stop \/ UNCHANGED vars
  BY <1>7, OperatorType
<1>8. QED
  BY <1>1, <1>2, <1>3, <1>4, <1>5, <1>6, <1>7 DEF Next, Consume, Tick, Workers

(* Every variable keeps its type; an event is in hand where the consumer   *)
(* relies on one, and a thread holds Situations exactly when it is telling *)
(* them (consumer.py:49-65, app.py:60-69).                                 *)
THEOREM TypeCorrect == Spec => []CorrelationTypeOK
BY TypeInit, TypeStep, PTL DEF Spec

------------------------------------------------------------------------------
(* ReportedOnce is inductive: what is formed is numbered beyond all that a *)
(* thread, the queue or a topic has.                                       *)

LEMMA CollapseOnce ==
  ASSUME CorrelationTypeOK, ReportedOnce, Grows, NEW w \in Workers, GoPublish(w),
         UNCHANGED <<popped, topics>>
  PROVE  ReportedOnce'
<1>1. \A n \in New : n \notin 1 .. Len(formed) /\ n # 0
  BY DEF Grows, New
<1>2. /\ ToPublish \subseteq New /\ queue' \subseteq queue \cup New
      /\ detected' = detected /\ suppressed' = suppressed /\ popped' = popped
  BY DEF Grows, topics
<1>3. \A v \in Workers : hand'[v] = IF v = w THEN ToPublish ELSE hand[v]
  BY DEF GoPublish, CorrelationTypeOK
<1>4. \A v \in Workers : popped[v] \notin New
  <2>1. \A v \in Workers : popped[v] \in 0 .. Len(formed) /\ Len(formed) \in Nat
    BY DEF CorrelationTypeOK
  <2>2. QED
    BY <1>1, <2>1
<1>5. /\ New \cap detected = {} /\ New \cap suppressed = {}
      /\ \A v \in Workers : hand[v] \cap New = {}
  BY <1>1 DEF CorrelationTypeOK
<1>6. \A v \in Workers : hand'[v] \cap detected' = {} /\ popped'[v] \notin suppressed' \cup queue'
  <2>1. \A v \in Workers : hand[v] \cap detected = {} /\ popped[v] \notin suppressed \cup queue
    BY DEF ReportedOnce
  <2>2. QED
    BY <1>2, <1>3, <1>4, <1>5, <2>1
<1>7. queue' \cap suppressed' = {} /\ \A u, v \in Workers : u # v => hand'[u] \cap hand'[v] = {}
  <2>1. queue \cap suppressed = {} /\ \A u, v \in Workers : u # v => hand[u] \cap hand[v] = {}
    BY DEF ReportedOnce
  <2>2. QED
    BY <1>2, <1>3, <1>5, <2>1
<1>8. QED
  BY <1>2, <1>6, <1>7 DEF ReportedOnce

LEMMA TellOnce ==
  ASSUME CorrelationTypeOK, ReportedOnce, NEW w \in Workers, Work(w) PROVE ReportedOnce'
<1>1. CASE Publish(w)
  <2>1. PICK n \in hand[w] : detected' = detected \cup {n} /\ hand' = [hand EXCEPT ![w] = @ \ {n}]
    BY <1>1 DEF Publish
  <2>2. popped' = popped /\ queue' = queue /\ suppressed' = suppressed
    BY <1>1 DEF Publish, engine
  <2>3. \A v \in Workers : hand'[v] = IF v = w THEN hand[v] \ {n} ELSE hand[v]
    BY <2>1 DEF CorrelationTypeOK
  <2>4. \A v \in Workers : hand'[v] \cap detected' = {}
    <3>1. ASSUME NEW v \in Workers PROVE hand'[v] \cap detected' = {}
      <4>1. hand[v] \cap detected = {} /\ (v # w => n \notin hand[v])
        BY <2>1, <3>1 DEF ReportedOnce
      <4>2. QED
        BY <2>1, <2>3, <4>1
    <3>2. QED
      BY <3>1
  <2>5. \A u, v \in Workers : u # v => hand'[u] \cap hand'[v] = {}
    <3>1. \A v \in Workers : hand'[v] \subseteq hand[v]
      BY <2>3
    <3>2. \A u, v \in Workers : u # v => hand[u] \cap hand[v] = {}
      BY DEF ReportedOnce
    <3>3. QED
      BY <3>1, <3>2
  <2>6. QED
    BY <2>2, <2>4, <2>5 DEF ReportedOnce
<1>2. CASE Pop(w)
  <2>1. PICK n \in queue : queue' = queue \ {n} /\ popped' = [popped EXCEPT ![w] = n]
    BY <1>2 DEF Pop
  <2>2. hand' = hand /\ detected' = detected /\ suppressed' = suppressed
    BY <1>2 DEF Pop, topics
  <2>3. \A v \in Workers : popped'[v] = IF v = w THEN n ELSE popped[v]
    BY <2>1 DEF CorrelationTypeOK
  <2>4. QED
    BY <2>1, <2>2, <2>3 DEF ReportedOnce
<1>3. CASE Report(w)
  <2>1. /\ suppressed' = suppressed \cup {popped[w]} /\ popped' = [popped EXCEPT ![w] = 0]
        /\ hand' = hand /\ detected' = detected /\ queue' = queue /\ popped[w] # 0
    BY <1>3 DEF Report, engine, CorrelationTypeOK
  <2>2. \A v \in Workers : popped'[v] = IF v = w THEN 0 ELSE popped[v]
    BY <2>1 DEF CorrelationTypeOK
  <2>3. 0 \notin suppressed' \cup queue'
    BY <2>1 DEF CorrelationTypeOK
  <2>4. QED
    BY <2>1, <2>2, <2>3 DEF ReportedOnce
<1>4. CASE Drained(w)
  BY <1>4 DEF Drained, ReportedOnce, engine, topics
<1>5. QED
  BY <1>1, <1>2, <1>3, <1>4 DEF Work

LEMMA LoseOnce ==
  ASSUME CorrelationTypeOK, ReportedOnce, queue' \subseteq queue, UNCHANGED topics,
         \A v \in Workers : hand'[v] \in {hand[v], {}} /\ popped'[v] \in {popped[v], 0}
  PROVE  ReportedOnce'
<1>1. 0 \notin suppressed \cup queue /\ detected' = detected /\ suppressed' = suppressed
  BY DEF CorrelationTypeOK, topics
<1>2. QED
  BY <1>1 DEF ReportedOnce

LEMMA OnceStep == CorrelationTypeOK /\ ReportedOnce /\ [Next]_vars => ReportedOnce'
<1> SUFFICES ASSUME CorrelationTypeOK, ReportedOnce, [Next]_vars PROVE ReportedOnce'
  OBVIOUS
<1>1. CASE \E w \in Workers : Work(w)
  BY <1>1, TellOnce
<1>2. CASE StopConsuming
  BY <1>2, FlushGrows, CollapseOnce DEF StopConsuming, Workers
<1>3. CASE AddAnomalous
  <2>1. cur # 0
    BY <1>3 DEF AddAnomalous, CorrelationTypeOK
  <2>2. QED
    BY <1>3, <2>1, AddGrows, CollapseOnce DEF AddAnomalous, Workers
<1>4. CASE Flush
  BY <1>4, FlushGrows, CollapseOnce DEF Flush, Workers
<1>5. CASE \E w \in Workers : ThreadDies(w)
  <2>1. PICK w \in Workers : ThreadDies(w)
    BY <1>5
  <2>2. /\ hand' = [hand EXCEPT ![w] = {}] /\ popped' = [popped EXCEPT ![w] = 0]
        /\ queue' = queue /\ UNCHANGED topics
    BY <2>1 DEF ThreadDies, engine
  <2>3. \A v \in Workers : hand'[v] \in {hand[v], {}} /\ popped'[v] \in {popped[v], 0}
    BY <2>2 DEF CorrelationTypeOK
  <2>4. QED
    BY <2>2, <2>3, LoseOnce
<1>6. CASE ProcessDies
  BY <1>6, LoseOnce DEF ProcessDies
<1>7. CASE Reset
  BY <1>7, LoseOnce DEF Reset, threads
<1>8. CASE TakeEvent \/ AddNormal \/ MarkDone \/ Acknowledge \/ Refresh \/ Stop \/ UNCHANGED vars
  BY <1>8 DEF TakeEvent, AddNormal, MarkDone, Acknowledge, Refresh, Stop, vars, ReportedOnce,
     threads, engine, topics
<1>9. CASE \E s \in Series, ts \in 0 .. MaxTime : Observe(s, ts)
  BY <1>9 DEF Observe, ReportedOnce, threads, engine, topics
<1>10. QED
  BY <1>1, <1>2, <1>3, <1>4, <1>5, <1>6, <1>7, <1>8, <1>9 DEF Next, Consume, Tick, Workers

(* No Situation is told twice, however the consumer and the flusher        *)
(* interleave and whatever dies (engine.py:134,202, app.py:60-69).         *)
THEOREM ToldOnce == Spec => []ReportedOnce
<1>1. Init => ReportedOnce
  BY DEF Init, ReportedOnce
<1>2. QED
  BY <1>1, OnceStep, TypeCorrect, PTL DEF Spec

------------------------------------------------------------------------------
(* OneStraggler needs that time does not run backwards, that a buffer only *)
(* has what was served, and that what is buffered fits already.            *)

Served == IF AtLeastOnce THEN head ELSE head - 1
TimeOrder == \A i, j \in 1 .. Len(events) : i <= j => Time(i) <= Time(j)
OnlyServed == \A k \in Keys : \A j \in 1 .. Len(buffers[k]) : buffers[k][j] <= Served
BuffersFit == \A k \in Keys : FitsWindow(buffers[k])
StragglerInv == TimeOrder /\ OnlyServed /\ BuffersFit /\ OneStraggler

LEMMA EmptyFits == FitsWindow(<<>>)
BY DEF FitsWindow

LEMMA TimesAreInts == CorrelationTypeOK => \A i \in 1 .. Len(events) : Time(i) \in Int
<1> SUFFICES ASSUME CorrelationTypeOK, NEW i \in 1 .. Len(events) PROVE Time(i) \in Int
  OBVIOUS
<1>1. events[i] \in Events
  BY DEF CorrelationTypeOK
<1>2. QED
  BY <1>1 DEF Time, Events

LEMMA SituationsKept ==
  ASSUME BuffersFit, OneStraggler, events' = events, Grows PROVE OneStraggler'
<1> SUFFICES ASSUME NEW n \in 1 .. Len(formed') PROVE FitsWindow(formed'[n].members)
  BY DEF OneStraggler, FitsWindow, Time
<1>1. CASE n \in 1 .. Len(formed)
  BY <1>1 DEF Grows, OneStraggler
<1>2. CASE n \in New
  <2>1. PICK k \in Keys : formed'[n] = Situation(buffers[k])
    BY <1>2 DEF Grows
  <2>2. formed'[n].members = buffers[k]
    BY <2>1 DEF Situation
  <2>3. QED
    BY <2>2 DEF BuffersFit
<1>3. QED
  BY <1>1, <1>2 DEF Grows, New

LEMMA ShrinkFits ==
  ASSUME CorrelationTypeOK, CorrelationTypeOK', StragglerInv, events' = events, head' >= head,
         \A k \in Keys : buffers'[k] \in {buffers[k], <<>>}, Grows \/ formed' = formed
  PROVE  StragglerInv'
<1>1. TimeOrder'
  BY DEF StragglerInv, TimeOrder, Time
<1>2. OnlyServed'
  <2>1. head \in Int /\ head' \in Int
    BY DEF CorrelationTypeOK
  <2>2. ASSUME NEW k \in Keys, NEW j \in 1 .. Len(buffers'[k]) PROVE buffers'[k][j] <= Served'
    <3>1. buffers'[k] = buffers[k] /\ buffers[k][j] \in 1 .. Len(events) /\ Len(events) \in Nat
      BY <2>2 DEF CorrelationTypeOK
    <3>2. buffers[k][j] <= Served
      BY <2>2, <3>1 DEF StragglerInv, OnlyServed
    <3>3. QED
      BY <2>1, <3>1, <3>2 DEF Served
  <2>3. QED
    BY <2>2 DEF OnlyServed
<1>3. BuffersFit'
  BY EmptyFits DEF StragglerInv, BuffersFit, FitsWindow, Time
<1>4. OneStraggler'
  <2>1. CASE formed' = formed
    BY <2>1 DEF StragglerInv, OneStraggler, FitsWindow, Time
  <2>2. QED
    BY <2>1, SituationsKept DEF StragglerInv
<1>5. QED
  BY <1>1, <1>2, <1>3, <1>4 DEF StragglerInv

(* The event in hand is the latest that was served; the buffer it joins    *)
(* fits with it: what overflows is emptied, or stays thin with it.         *)
LEMMA AppendFits ==
  ASSUME CorrelationTypeOK, StragglerInv, pc["consumer"] = "add",
         NEW base, base = (LET buf == buffers[Key(cur)] IN
                             IF buf # <<>> /\ Time(cur) - Time(buf[1]) > Window
                             THEN Remainder(buf) ELSE buf)
  PROVE  FitsWindow(Append(base, cur))
<1> DEFINE buf == buffers[Key(cur)]
<1>1. /\ cur \in 1 .. Len(events) /\ Len(events) \in Nat /\ Key(cur) \in Keys
      /\ cur = Served
  <2>1. cur # 0 /\ cur = Served
    BY DEF CorrelationTypeOK, Served
  <2>2. QED
    BY <2>1, InHand
<1>2. buf \in Seq(1 .. Len(events)) /\ FitsWindow(buf) /\ Len(buf) \in Nat
  BY <1>1 DEF CorrelationTypeOK, StragglerInv, BuffersFit
<1>3. \A j \in 1 .. Len(buf) : buf[j] \in 1 .. Len(events) /\ buf[j] <= cur
  BY <1>1, <1>2 DEF StragglerInv, OnlyServed
<1>4. \A j \in 1 .. Len(buf) : /\ Time(buf[j]) \in Int /\ Time(buf[j]) <= Time(cur)
  BY <1>1, <1>3, TimesAreInts DEF StragglerInv, TimeOrder
<1>5. Time(cur) \in Int /\ Window \in Nat /\ MinEvents \in Nat \ {0}
  BY <1>1, TimesAreInts
<1>6. CASE base = <<>>
  <2>1. Append(<<>>, cur) = <<cur>> /\ Len(Append(<<>>, cur)) = 1
    OBVIOUS
  <2>2. FitsWindow(Append(<<>>, cur))
    BY <1>5, <2>1 DEF FitsWindow
  <2>3. QED
    BY <1>6, <2>2
<1> DEFINE whole == Append(buf, cur)
<1>7. /\ Len(whole) = Len(buf) + 1 /\ whole[Len(buf) + 1] = cur
      /\ \A j \in 1 .. Len(buf) : whole[j] = buf[j]
  BY <1>2
<1>8. CASE base = buf /\ buf # <<>>
  <2>1. 1 \in 1 .. Len(buf) /\ whole[1] = buf[1] /\ Len(buf) \in 1 .. Len(buf)
    BY <1>2, <1>7, <1>8
  <2>2. CASE Time(cur) - Time(buf[1]) <= Window
    <3> HIDE DEF whole, buf
    <3>1. \A j \in 1 .. Len(buf) : Time(whole[j]) - Time(whole[1]) <= Window
      BY <1>4, <1>5, <1>7, <2>1, <2>2
    <3>2. Time(whole[Len(whole)]) - Time(whole[1]) <= Window
      BY <1>7, <2>1, <2>2
    <3>3. FitsWindow(whole)
      BY <1>2, <1>7, <3>1, <3>2 DEF FitsWindow
    <3>4. QED
      BY <1>8, <3>3 DEF whole
  <2>3. CASE Time(cur) - Time(buf[1]) > Window
    <3>1. Remainder(buf) = buf /\ StaysThin(buf)
      BY <1>8, <2>3 DEF Remainder
    <3>2. Len(buf) < MinEvents /\ Time(buf[Len(buf)]) - Time(buf[1]) < Window
      BY <1>8, <3>1 DEF StaysThin, Thin, Span
    <3> HIDE DEF whole, buf
    <3>3. \A j \in 1 .. Len(buf) : Time(buf[j]) - Time(buf[1]) <= Window
      <4>1. Time(buf[Len(buf)]) - Time(buf[1]) <= Window
        BY <1>4, <1>5, <2>1, <3>2
      <4>2. \A j \in 1 .. Len(buf) - 1 : Time(buf[j]) - Time(buf[1]) <= Window
        BY <1>2 DEF FitsWindow
      <4>3. QED
        BY <1>2, <4>1, <4>2
    <3>4. FitsWindow(whole)
      BY <1>2, <1>5, <1>7, <2>1, <3>2, <3>3 DEF FitsWindow
    <3>5. QED
      BY <1>8, <3>4 DEF whole
  <2>4. QED
    BY <1>4, <1>5, <2>1, <2>2, <2>3
<1>9. QED
  BY <1>6, <1>8 DEF Remainder

LEMMA AddFits ==
  ASSUME CorrelationTypeOK, CorrelationTypeOK', StragglerInv, AddAnomalous
  PROVE  StragglerInv'
<1> DEFINE k == Key(cur)
           base == LET buf == buffers[k] IN
                     IF buf # <<>> /\ Time(cur) - Time(buf[1]) > Window
                     THEN Remainder(buf) ELSE buf
<1>1. /\ pc["consumer"] = "add" /\ events' = events /\ head' = head /\ cur # 0
      /\ buffers' = [buffers EXCEPT ![k] = Append(base, cur)]
  BY DEF AddAnomalous, bus, CorrelationTypeOK
<1>2. cur \in 1 .. Len(events) /\ k \in Keys /\ cur = Served /\ Served' = Served
  BY <1>1, InHand DEF CorrelationTypeOK, Served
<1>3. base \in Seq(1 .. Len(events)) /\ base \in {buffers[k], <<>>}
  <2>1. buffers[k] \in Seq(1 .. Len(events))
    BY <1>2 DEF CorrelationTypeOK
  <2>2. base \in {buffers[k], <<>>}
    BY DEF Remainder
  <2>3. <<>> \in Seq(1 .. Len(events))
    OBVIOUS
  <2>4. QED
    BY <2>1, <2>2, <2>3
<1>4. FitsWindow(Append(base, cur))
  BY <1>1, AppendFits
<1>5. \A j \in 1 .. Len(Append(base, cur)) : Append(base, cur)[j] <= Served
  <2>1. \A j \in 1 .. Len(base) : base[j] <= Served
    BY <1>2, <1>3 DEF StragglerInv, OnlyServed
  <2>2. QED
    BY <1>2, <1>3, <2>1
<1> HIDE DEF base, k
<1>6. \A b \in Keys : buffers'[b] = IF b = k THEN Append(base, cur) ELSE buffers[b]
  BY <1>1 DEF CorrelationTypeOK
<1>7. TimeOrder'
  BY <1>1 DEF StragglerInv, TimeOrder, Time
<1>8. OnlyServed'
  BY <1>2, <1>5, <1>6 DEF StragglerInv, OnlyServed
<1>9. BuffersFit'
  <2>1. \A b \in Keys : FitsWindow(buffers'[b])
    BY <1>4, <1>6 DEF StragglerInv, BuffersFit
  <2>2. QED
    BY <1>1, <2>1 DEF BuffersFit, FitsWindow, Time
<1>10. OneStraggler'
  BY <1>1, AddGrows, SituationsKept DEF StragglerInv
<1>11. QED
  BY <1>7, <1>8, <1>9, <1>10 DEF StragglerInv

LEMMA ObserveFits ==
  ASSUME CorrelationTypeOK, CorrelationTypeOK', StragglerInv,
         NEW s \in Series, NEW ts \in 0 .. MaxTime, Observe(s, ts)
  PROVE  StragglerInv'
<1>1. /\ events' = Append(events, [series |-> s, ts |-> ts]) /\ events \in Seq(Events)
      /\ IF events = <<>> THEN ts = 0 ELSE Time(Len(events)) <= ts
      /\ head' = head /\ buffers' = buffers /\ formed' = formed
  BY DEF Observe, CorrelationTypeOK, engine
<1>2. Len(events) \in Nat /\ Len(events') = Len(events) + 1
  BY <1>1
<1>3. /\ \A i \in 1 .. Len(events) : events'[i] = events[i]
      /\ events'[Len(events) + 1] = [series |-> s, ts |-> ts]
  BY <1>1, <1>2
<1>4. \A i \in 1 .. Len(events) : events'[i].ts = Time(i) /\ Time(i) \in Int /\ Time(i) <= ts
  <2>1. \A i \in 1 .. Len(events) : Time(i) \in Int
    BY TimesAreInts
  <2>2. ASSUME NEW i \in 1 .. Len(events) PROVE Time(i) <= ts
    <3>1. events # <<>> /\ Len(events) \in 1 .. Len(events)
      BY <1>1, <1>2
    <3>2. Time(i) <= Time(Len(events)) /\ Time(Len(events)) <= ts
      BY <1>1, <1>2, <3>1 DEF StragglerInv, TimeOrder
    <3>3. QED
      BY <2>1, <3>1, <3>2
  <2>3. QED
    BY <1>3, <2>1, <2>2 DEF Time
<1>5. TimeOrder'
  <2>1. ASSUME NEW i \in 1 .. Len(events'), NEW j \in 1 .. Len(events'), i <= j
        PROVE  events'[i].ts <= events'[j].ts
    <3>1. CASE j \in 1 .. Len(events)
      <4>1. i \in 1 .. Len(events) /\ Time(i) <= Time(j)
        BY <1>2, <2>1, <3>1 DEF StragglerInv, TimeOrder
      <4>2. QED
        BY <1>4, <3>1, <4>1
    <3>2. CASE j = Len(events) + 1 /\ i \in 1 .. Len(events)
      BY <1>3, <1>4, <3>2
    <3>3. CASE i = Len(events) + 1 /\ j = Len(events) + 1
      BY <1>3, <3>3
    <3>4. QED
      BY <1>2, <2>1, <3>1, <3>2, <3>3
  <2>2. QED
    BY <2>1 DEF TimeOrder, Time
<1>6. ASSUME NEW m \in Seq(1 .. Len(events)), FitsWindow(m), Len(m) # 0
      PROVE  /\ \A j \in 1 .. Len(m) - 1 : events'[m[j]].ts - events'[m[1]].ts <= Window
             /\ Len(m) > MinEvents => events'[m[Len(m)]].ts - events'[m[1]].ts <= Window
  <2>1. \A j \in 1 .. Len(m) : m[j] \in 1 .. Len(events)
    BY <1>6
  <2>2. Len(m) \in Nat /\ 1 \in 1 .. Len(m) /\ Len(m) \in 1 .. Len(m)
    BY <1>6
  <2>3. \A j \in 1 .. Len(m) : events'[m[j]].ts = Time(m[j])
    BY <1>4, <2>1
  <2>4. events'[m[1]].ts = Time(m[1]) /\ events'[m[Len(m)]].ts = Time(m[Len(m)])
    BY <2>2, <2>3
  <2>5. ASSUME NEW j \in 1 .. Len(m) - 1 PROVE events'[m[j]].ts - events'[m[1]].ts <= Window
    <3>1. j \in 1 .. Len(m)
      BY <2>2
    <3>2. events'[m[j]].ts = Time(m[j]) /\ Time(m[j]) - Time(m[1]) <= Window
      BY <1>6, <2>3, <3>1 DEF FitsWindow
    <3>3. QED
      BY <2>4, <3>2
  <2>6. Len(m) > MinEvents => events'[m[Len(m)]].ts - events'[m[1]].ts <= Window
    BY <1>6, <2>4 DEF FitsWindow
  <2>7. QED
    BY <2>5, <2>6
<1>7. BuffersFit'
  <2>1. ASSUME NEW k \in Keys PROVE FitsWindow(buffers[k])'
    <3>1. buffers[k] \in Seq(1 .. Len(events)) /\ FitsWindow(buffers[k]) /\ buffers'[k] = buffers[k]
      BY <1>1 DEF CorrelationTypeOK, StragglerInv, BuffersFit
    <3>2. CASE Len(buffers[k]) # 0
      BY <1>6, <3>1, <3>2 DEF FitsWindow, Time
    <3>3. CASE Len(buffers[k]) = 0
      BY <3>1, <3>3 DEF FitsWindow, Time
    <3>4. QED
      BY <3>2, <3>3
  <2>2. QED
    BY <2>1 DEF BuffersFit
<1>8. OneStraggler'
  <2>1. ASSUME NEW n \in 1 .. Len(formed) PROVE FitsWindow(formed[n].members)'
    <3>1. /\ formed[n].members \in Seq(1 .. Len(events)) /\ FitsWindow(formed[n].members)
          /\ formed' = formed
      <4>1. formed[n] \in Situations
        BY DEF CorrelationTypeOK
      <4>2. QED
        BY <1>1, <4>1 DEF Situations, StragglerInv, OneStraggler
    <3>2. CASE Len(formed[n].members) # 0
      BY <1>6, <3>1, <3>2 DEF FitsWindow, Time
    <3>3. CASE Len(formed[n].members) = 0
      BY <3>1, <3>3 DEF FitsWindow, Time
    <3>4. QED
      BY <3>2, <3>3
  <2>2. QED
    BY <1>1, <2>1 DEF OneStraggler
<1>9. OnlyServed'
  BY <1>1 DEF StragglerInv, OnlyServed, Served
<1>10. QED
  BY <1>5, <1>7, <1>8, <1>9 DEF StragglerInv

LEMMA StragglerStep ==
  CorrelationTypeOK /\ CorrelationTypeOK' /\ StragglerInv /\ [Next]_vars => StragglerInv'
<1> SUFFICES ASSUME CorrelationTypeOK, CorrelationTypeOK', StragglerInv, [Next]_vars
             PROVE  StragglerInv'
  OBVIOUS
<1>1. head \in Int /\ head <= head /\ head <= head + 1
  BY DEF CorrelationTypeOK
<1>2. CASE \E w \in Workers : Work(w)
  BY <1>1, <1>2, ShrinkFits DEF Work, Publish, Pop, Report, Drained, bus, engine
<1>3. CASE TakeEvent \/ AddNormal \/ MarkDone \/ Refresh \/ Stop \/ UNCHANGED vars
  BY <1>1, <1>3, ShrinkFits DEF TakeEvent, AddNormal, MarkDone, Refresh, Stop, vars, bus, engine
<1>4. CASE Acknowledge
  <2>1. head' = cur + 1 /\ cur # 0 /\ events' = events /\ buffers' = buffers /\ formed' = formed
    BY <1>4 DEF Acknowledge, engine, CorrelationTypeOK
  <2>2. head' >= head
    BY <1>1, <2>1 DEF CorrelationTypeOK
  <2>3. QED
    BY <2>1, <2>2, ShrinkFits
<1>5. CASE StopConsuming \/ Flush
  <2>1. FlushAll /\ events' = events /\ head' >= head
    BY <1>1, <1>5 DEF StopConsuming, Flush, bus
  <2>2. \A k \in Keys : buffers'[k] \in {buffers[k], <<>>}
    BY <2>1 DEF FlushAll, Remainder
  <2>3. QED
    BY <2>1, <2>2, FlushGrows, ShrinkFits
<1>6. CASE AddAnomalous
  BY <1>6, AddFits
<1>7. CASE \E s \in Series, ts \in 0 .. MaxTime : Observe(s, ts)
  BY <1>7, ObserveFits
<1>8. CASE Reset \/ ProcessDies \/ \E w \in Workers : ThreadDies(w)
  <2>1. events' = events /\ head' = head /\ formed' = formed
        /\ (buffers' = [k \in Keys |-> <<>>] \/ buffers' = buffers)
    BY <1>8 DEF Reset, ProcessDies, ThreadDies, bus, engine
  <2>2. QED
    BY <1>1, <2>1, ShrinkFits
<1>9. QED
  BY <1>2, <1>3, <1>4, <1>5, <1>6, <1>7, <1>8 DEF Next, Consume, Tick, Workers

LEMMA StragglerInit == Init => StragglerInv
<1> SUFFICES ASSUME Init PROVE StragglerInv
  OBVIOUS
<1>1. events = <<>> /\ formed = <<>> /\ \A k \in Keys : buffers[k] = <<>>
  BY DEF Init
<1>2. TimeOrder /\ OnlyServed /\ OneStraggler
  BY <1>1 DEF TimeOrder, OnlyServed, OneStraggler
<1>3. BuffersFit
  BY <1>1, EmptyFits DEF BuffersFit
<1>4. QED
  BY <1>2, <1>3 DEF StragglerInv

(* What a Situation gathers lies in one window but for its last event, and *)
(* that one may lie outside only if the Situation would be too thin        *)
(* without it (engine.py:114-118,146-160).                                 *)
THEOREM NoSecondStraggler == Spec => []OneStraggler
<1>1. StragglerInv => OneStraggler
  BY DEF StragglerInv
<1>2. QED
  BY <1>1, StragglerInit, StragglerStep, TypeCorrect, PTL DEF Spec

------------------------------------------------------------------------------
(* Faults are counted, and never forgotten.                                *)

LEMMA FaultCounted ==
  ASSUME CorrelationTypeOK, NEW kind \in FaultKinds, Fault(kind)
  PROVE  /\ \A k \in FaultKinds : faults[k] \in Nat
         /\ faults'[kind] = faults[kind] + 1
         /\ \A k \in FaultKinds \ {kind} : faults'[k] = faults[k]
BY DEF CorrelationTypeOK, Fault

LEMMA FaultsGrow ==
  ASSUME CorrelationTypeOK, [Next]_vars
  PROVE  \A k \in FaultKinds : faults[k] \in Nat /\ faults'[k] \in Nat /\ faults[k] <= faults'[k]
<1>1. \A k \in FaultKinds : faults[k] \in Nat
  BY DEF CorrelationTypeOK
<1>2. CASE UNCHANGED faults
  BY <1>1, <1>2
<1>3. CASE \E kind \in FaultKinds : Fault(kind)
  BY <1>1, <1>3, FaultCounted
<1>4. UNCHANGED faults \/ \E kind \in FaultKinds : Fault(kind)
  <2>1. \A w \in Workers : w \in FaultKinds
    BY DEF Workers, FaultKinds
  <2>2. CASE Reset \/ Stop \/ ProcessDies \/ \E w \in Workers : ThreadDies(w)
    <3>1. "reset" \in FaultKinds /\ "stop" \in FaultKinds /\ "process" \in FaultKinds
      BY DEF FaultKinds
    <3>2. QED
      BY <2>1, <2>2, <3>1 DEF Reset, Stop, ProcessDies, ThreadDies
  <2>3. CASE ~(Reset \/ Stop \/ ProcessDies \/ \E w \in Workers : ThreadDies(w))
    BY <2>3
    DEF Next, Consume, Tick, Work, Publish, Pop, Report, Drained, TakeEvent, StopConsuming,
        AddNormal, AddAnomalous, MarkDone, Acknowledge, Flush, Refresh, Observe, bounds, vars
  <2>4. QED
    BY <2>2, <2>3
<1>5. QED
  BY <1>2, <1>3, <1>4

------------------------------------------------------------------------------
(* NothingStranded is inductive: what a collapse forms goes to the hands   *)
(* of its thread and to the queue, and from there to its topic.            *)

LEMMA CollapseStrands ==
  ASSUME CorrelationTypeOK, NothingStranded, Grows, Suppress,
         NEW w \in Workers, pc[w] \in {"wait", "add"}, GoPublish(w),
         UNCHANGED <<popped, topics, faults>>
  PROVE  NothingStranded'
<1> SUFFICES ASSUME Deaths + faults["flusher"] = 0, NEW n \in 1 .. Len(formed')
             PROVE  /\ Emitted(formed'[n]) =>
                         n \in detected \/ \E v \in Workers : n \in hand'[v]
                    /\ formed'[n].reliable /\ faults["reset"] = 0 =>
                         n \in suppressed \cup queue' \/ \E v \in Workers : popped[v] = n
  BY DEF NothingStranded, Deaths, Emitted, topics
<1>1. hand[w] = {} /\ hand'[w] = ToPublish /\ \A v \in Workers \ {w} : hand'[v] = hand[v]
  BY DEF GoPublish, CorrelationTypeOK
<1>2. CASE n \in 1 .. Len(formed)
  BY <1>1, <1>2 DEF NothingStranded, Grows, Suppress
<1>3. CASE n \in New
  BY <1>1, <1>3 DEF Suppress, ToPublish
<1>4. QED
  BY <1>2, <1>3 DEF Grows, New

LEMMA TellStrands ==
  ASSUME CorrelationTypeOK, NothingStranded, NEW w \in Workers, Work(w) PROVE NothingStranded'
<1>1. CASE Publish(w)
  <2>1. PICK n \in hand[w] : detected' = detected \cup {n} /\ hand' = [hand EXCEPT ![w] = @ \ {n}]
    BY <1>1 DEF Publish
  <2>2. \A v \in Workers : hand[v] \subseteq hand'[v] \cup detected'
    BY <2>1 DEF CorrelationTypeOK
  <2>3. UNCHANGED <<popped, queue, suppressed, formed, faults>> /\ detected \subseteq detected'
    BY <1>1, <2>1 DEF Publish, engine, bounds
  <2>4. QED
    BY <2>2, <2>3 DEF NothingStranded, Deaths, Emitted
<1>2. CASE Pop(w)
  <2>1. PICK n \in queue : queue' = queue \ {n} /\ popped' = [popped EXCEPT ![w] = n]
    BY <1>2 DEF Pop
  <2>2. /\ popped[w] = 0 /\ popped'[w] = n /\ \A v \in Workers \ {w} : popped'[v] = popped[v]
    BY <1>2, <2>1 DEF Pop, CorrelationTypeOK
  <2>3. UNCHANGED <<hand, detected, suppressed, formed, faults>>
    BY <1>2 DEF Pop, topics, bounds
  <2>4. QED
    BY <2>1, <2>2, <2>3 DEF NothingStranded, Deaths, Emitted
<1>3. CASE Report(w)
  <2>1. /\ suppressed' = suppressed \cup {popped[w]} /\ popped' = [popped EXCEPT ![w] = 0]
        /\ UNCHANGED <<hand, detected, queue, formed, faults>>
    BY <1>3 DEF Report, engine, bounds
  <2>2. \A v \in Workers : popped'[v] = popped[v] \/ popped[v] \in suppressed'
    BY <2>1 DEF CorrelationTypeOK
  <2>3. QED
    BY <2>1, <2>2 DEF NothingStranded, Deaths, Emitted
<1>4. CASE Drained(w)
  BY <1>4 DEF Drained, NothingStranded, Deaths, Emitted, engine, topics, bounds
<1>5. QED
  BY <1>1, <1>2, <1>3, <1>4 DEF Work

LEMMA StrandedStep == CorrelationTypeOK /\ NothingStranded /\ [Next]_vars => NothingStranded'
<1> SUFFICES ASSUME CorrelationTypeOK, NothingStranded, [Next]_vars PROVE NothingStranded'
  OBVIOUS
<1>1. CASE \E w \in Workers : Work(w)
  BY <1>1, TellStrands
<1>2. CASE StopConsuming \/ Flush
  BY <1>2, FlushGrows, CollapseStrands DEF StopConsuming, Flush, FlushAll, Workers, bounds
<1>3. CASE AddAnomalous
  <2>1. cur # 0
    BY <1>3 DEF AddAnomalous, CorrelationTypeOK
  <2>2. QED
    BY <1>3, <2>1, AddGrows, CollapseStrands DEF AddAnomalous, Workers, bounds
<1>4. CASE ProcessDies \/ \E w \in Workers : ThreadDies(w)
  <2>1. PICK kind \in {"consumer", "flusher", "process"} : Fault(kind)
    BY <1>4 DEF ProcessDies, ThreadDies, Workers
  <2>2. faults'[kind] = faults[kind] + 1 /\ faults[kind] \in Nat
    BY <2>1, FaultCounted DEF FaultKinds
  <2>3. \A k \in {"consumer", "flusher", "process"} : faults'[k] \in Nat
    BY FaultsGrow DEF FaultKinds
  <2>4. faults'["consumer"] + faults'["process"] + faults'["flusher"] # 0
    BY <2>2, <2>3
  <2>5. QED
    BY <2>4 DEF NothingStranded, Deaths
<1>5. CASE Reset
  <2>1. faults'["reset"] # 0 /\ \A k \in FaultKinds \ {"reset"} : faults'[k] = faults[k]
    <3>1. Fault("reset") /\ "reset" \in FaultKinds
      BY <1>5 DEF Reset, FaultKinds
    <3>2. QED
      BY <3>1, FaultCounted
  <2>2. Deaths' + faults'["flusher"] = Deaths + faults["flusher"]
    BY <2>1 DEF Deaths, FaultKinds
  <2>3. UNCHANGED <<hand, popped, detected, suppressed, formed>>
    BY <1>5 DEF Reset, threads, topics
  <2>4. QED
    BY <2>1, <2>2, <2>3 DEF NothingStranded, Emitted
<1>6. CASE Stop
  <2>1. \A k \in FaultKinds \ {"stop"} : faults'[k] = faults[k]
    <3>1. Fault("stop") /\ "stop" \in FaultKinds
      BY <1>6 DEF Stop, FaultKinds
    <3>2. QED
      BY <3>1, FaultCounted
  <2>2. Deaths' + faults'["flusher"] = Deaths + faults["flusher"] /\ faults'["reset"] = faults["reset"]
    BY <2>1 DEF Deaths, FaultKinds
  <2>3. UNCHANGED <<threads, engine, topics>>
    BY <1>6 DEF Stop
  <2>4. QED
    BY <2>2, <2>3 DEF NothingStranded, Emitted, threads, engine, topics
<1>7. CASE TakeEvent \/ AddNormal \/ MarkDone \/ Acknowledge \/ Refresh \/ UNCHANGED vars
  BY <1>7 DEF TakeEvent, AddNormal, MarkDone, Acknowledge, Refresh, vars, NothingStranded,
     Emitted, Deaths, threads, engine, topics, bounds
<1>8. CASE \E s \in Series, ts \in 0 .. MaxTime : Observe(s, ts)
  BY <1>8 DEF Observe, NothingStranded, Emitted, Deaths, threads, engine, topics, bounds
<1>9. QED
  BY <1>1, <1>2, <1>3, <1>4, <1>5, <1>6, <1>7, <1>8 DEF Next, Consume, Tick, Workers

(* Unless a thread or the process dies, nothing that was formed is         *)
(* stranded between engine and bus, a shutdown included; what a reset      *)
(* forgets apart (consumer.py:31-62, app.py:66-69).                        *)
THEOREM NothingStrandedHolds == Spec => []NothingStranded
<1>1. Init => NothingStranded
  BY DEF Init, NothingStranded
<1>2. QED
  BY <1>1, StrandedStep, TypeCorrect, PTL DEF Spec

------------------------------------------------------------------------------
(* How often a sample was counted.  Copies(i) is how often event i is in   *)
(* the engine: once, and once more for each death that had it served       *)
(* again.  The event at the head of the stream may be such a one; what     *)
(* comes after it the engine has not seen.                                 *)
InForms(i) == {n \in 1 .. Len(formed) : i \in Members(n)}
InBuffers(i) == {k \in Keys : i \in Range(buffers[k])}
Copies(i) == Cardinality(InForms(i)) + Cardinality(InBuffers(i))
Seen(i) == InForms(i) # {} \/ InBuffers(i) # {}

Waiting == AtLeastOnce /\ pc["consumer"] \in {"wait", "add"}
Redone(i) == IF Waiting /\ i = head /\ Seen(i) THEN 1 ELSE 0
RedoneIn(k) == IF Waiting /\ head \in Range(buffers[k]) THEN 1 ELSE 0

SeenInv ==
  /\ \A i \in Nat : Seen(i) => i <= Served
  /\ ~AtLeastOnce /\ pc["consumer"] = "add" => ~Seen(cur)
KeyInv == \A k \in Keys : \A i \in Range(buffers[k]) : Key(i) = k
CopiesInv == \A i \in Nat : Copies(i) + Redone(i) <= 1 + Again
LengthInv ==
  \A k \in Keys : Len(buffers[k]) + RedoneIn(k) <= Cardinality(Range(buffers[k])) + Again

SampleInv == SeenInv /\ KeyInv /\ CopiesInv /\ LengthInv /\ IncidentIsSustained

LEMMA FiniteUpTo ==
  ASSUME NEW n \in Nat, NEW S, S \subseteq 1 .. n
  PROVE  IsFiniteSet(S) /\ Cardinality(S) \in Nat
<1>1. IsFiniteSet(1 .. n)
  BY FS_Interval
<1>2. IsFiniteSet(S)
  BY <1>1, FS_Subset
<1>3. QED
  BY <1>2, FS_CardinalityType

LEMMA AtMostOne ==
  ASSUME NEW S, NEW c, \A k \in S : k = c
  PROVE  IsFiniteSet(S) /\ Cardinality(S) = IF S = {} THEN 0 ELSE 1
<1>1. S = {} \/ S = {c}
  OBVIOUS
<1>2. CASE S = {}
  BY <1>2, FS_EmptySet
<1>3. CASE S # {}
  <2>1. S = {c}
    BY <1>1, <1>3
  <2>2. IsFiniteSet({c}) /\ Cardinality({c}) = 1
    BY FS_Singleton
  <2>3. QED
    BY <1>3, <2>1, <2>2
<1>4. QED
  BY <1>2, <1>3

LEMMA RangeAppend ==
  ASSUME NEW s \in Seq(Nat), NEW x \in Nat
  PROVE  /\ Range(Append(s, x)) = Range(s) \cup {x} /\ Len(Append(s, x)) = Len(s) + 1
         /\ Len(s) \in Nat
<1>1. /\ Len(s) \in Nat /\ Len(Append(s, x)) = Len(s) + 1
      /\ DOMAIN s = 1 .. Len(s) /\ DOMAIN Append(s, x) = 1 .. Len(s) + 1
      /\ Append(s, x)[Len(s) + 1] = x /\ \A j \in 1 .. Len(s) : Append(s, x)[j] = s[j]
  OBVIOUS
<1>2. Range(s) \cup {x} \subseteq Range(Append(s, x))
  BY <1>1 DEF Range
<1>3. Range(Append(s, x)) \subseteq Range(s) \cup {x}
  BY <1>1 DEF Range
<1>4. QED
  BY <1>1, <1>2, <1>3

LEMMA RangeEmpty == Range(<<>>) = {} /\ Len(<<>>) = 0 /\ Cardinality({}) = 0
BY FS_EmptySet DEF Range

LEMMA RangesType ==
  ASSUME CorrelationTypeOK
  PROVE  /\ Len(events) \in Nat /\ Len(formed) \in Nat /\ head \in Nat /\ cur \in Nat
         /\ \A k \in Keys : /\ buffers[k] \in Seq(Nat) /\ Len(buffers[k]) \in Nat
                            /\ Range(buffers[k]) \subseteq 1 .. Len(events)
                            /\ Cardinality(Range(buffers[k])) \in Nat
                            /\ IsFiniteSet(Range(buffers[k]))
         /\ \A n \in 1 .. Len(formed) : /\ Members(n) \subseteq 1 .. Len(events)
                                        /\ Cardinality(Members(n)) \in Nat
         /\ Again \in Nat /\ Served \in Int
<1>1. Len(events) \in Nat /\ Len(formed) \in Nat /\ head \in Nat /\ cur \in Nat
  BY DEF CorrelationTypeOK
<1>2. ASSUME NEW k \in Keys
      PROVE  /\ buffers[k] \in Seq(Nat) /\ Len(buffers[k]) \in Nat
             /\ Range(buffers[k]) \subseteq 1 .. Len(events)
             /\ Cardinality(Range(buffers[k])) \in Nat /\ IsFiniteSet(Range(buffers[k]))
  <2>1. buffers[k] \in Seq(1 .. Len(events))
    BY DEF CorrelationTypeOK
  <2>2. Range(buffers[k]) \subseteq 1 .. Len(events)
    BY <2>1 DEF Range
  <2>3. QED
    BY <1>1, <2>1, <2>2, FiniteUpTo
<1>3. ASSUME NEW n \in 1 .. Len(formed)
      PROVE  Members(n) \subseteq 1 .. Len(events) /\ Cardinality(Members(n)) \in Nat
  <2>1. formed[n] \in Situations
    BY DEF CorrelationTypeOK
  <2>2. formed[n].members \in Seq(1 .. Len(events))
    BY <2>1 DEF Situations
  <2>3. Members(n) \subseteq 1 .. Len(events)
    BY <2>2 DEF Members, Range
  <2>4. QED
    BY <1>1, <2>3, FiniteUpTo
<1>4. Again \in Nat
  BY DEF Again, Deaths, CorrelationTypeOK, FaultKinds
<1>5. QED
  BY <1>1, <1>2, <1>3, <1>4 DEF Served

LEMMA AgainGrows ==
  ASSUME CorrelationTypeOK, [Next]_vars PROVE Again \in Nat /\ Again' \in Nat /\ Again <= Again'
<1>1. /\ faults["consumer"] \in Nat /\ faults'["consumer"] \in Nat
      /\ faults["process"] \in Nat /\ faults'["process"] \in Nat
      /\ faults["consumer"] <= faults'["consumer"] /\ faults["process"] <= faults'["process"]
  BY FaultsGrow DEF FaultKinds
<1>2. QED
  BY <1>1 DEF Again, Deaths

LEMMA AgainDeath ==
  ASSUME CorrelationTypeOK, AtLeastOnce, ThreadDies("consumer") \/ ProcessDies
  PROVE  Again' = Again + 1
<1>1. PICK kind \in {"consumer", "process"} : Fault(kind)
  BY DEF ThreadDies, ProcessDies
<1>2. /\ faults'[kind] = faults[kind] + 1
      /\ \A k \in {"consumer", "process"} \ {kind} : faults'[k] = faults[k]
      /\ faults["consumer"] \in Nat /\ faults["process"] \in Nat
  BY <1>1, FaultCounted DEF FaultKinds
<1>3. QED
  BY <1>2 DEF Again, Deaths

LEMMA CopiesType ==
  ASSUME CorrelationTypeOK, KeyInv, NEW i
  PROVE  /\ IsFiniteSet(InForms(i)) /\ Cardinality(InForms(i)) \in Nat
         /\ Cardinality(InBuffers(i)) = IF InBuffers(i) = {} THEN 0 ELSE 1
         /\ InForms(i) \subseteq 1 .. Len(formed)
<1>1. Len(formed) \in Nat /\ InForms(i) \subseteq 1 .. Len(formed)
  BY RangesType DEF InForms
<1>2. \A k \in InBuffers(i) : k = Key(i)
  BY DEF InBuffers, KeyInv
<1>3. QED
  BY <1>1, <1>2, FiniteUpTo, AtMostOne

LEMMA CopiesTypeNext ==
  ASSUME CorrelationTypeOK', KeyInv', NEW i
  PROVE  /\ Cardinality(InForms(i)') \in Nat
         /\ Cardinality(InBuffers(i)') = IF InBuffers(i)' = {} THEN 0 ELSE 1
<1>1. Len(formed') \in Nat /\ InForms(i)' \subseteq 1 .. Len(formed')
  BY DEF InForms, CorrelationTypeOK
<1>2. \A k \in InBuffers(i)' : k = Key(i)'
  BY DEF InBuffers, KeyInv
<1>3. QED
  BY <1>1, <1>2, FiniteUpTo, AtMostOne

(* What is formed from buckets of their own has each event of one of them  *)
(* at most once.                                                           *)
LEMMA FormsCount ==
  ASSUME CorrelationTypeOK, KeyInv, Grows, NEW key \in [New -> Keys], NEW i,
         \A n \in New : formed'[n].members = buffers[key[n]],
         \A m, n \in New : key[m] = key[n] => m = n
  PROVE  \/ InForms(i)' = InForms(i) /\ \A n \in New : key[n] \notin InBuffers(i)
         \/ \E n \in New : /\ key[n] \in InBuffers(i)
                           /\ Cardinality(InForms(i)') = Cardinality(InForms(i)) + 1
<1> DEFINE N == {n \in New : key[n] \in InBuffers(i)}
<1>1. InForms(i)' = InForms(i) \cup N
  <2>1. \A n \in 1 .. Len(formed') : n \in 1 .. Len(formed) \/ n \in New
    BY DEF Grows, New
  <2>2. 1 .. Len(formed) \subseteq 1 .. Len(formed') /\ New \subseteq 1 .. Len(formed')
    BY DEF Grows, New
  <2>3. \A n \in 1 .. Len(formed) : Members(n)' = Members(n)
    BY DEF Members, Grows
  <2>4. \A n \in New : i \in Members(n)' <=> key[n] \in InBuffers(i)
    BY DEF Members, InBuffers
  <2>5. \A n \in 1 .. Len(formed') : n \in InForms(i)' <=> n \in InForms(i) \cup N
    <3>1. \A n \in New : n \notin 1 .. Len(formed)
      BY DEF Grows, New
    <3>2. QED
      BY <2>1, <2>3, <2>4, <3>1 DEF InForms
  <2>6. InForms(i)' \subseteq 1 .. Len(formed') /\ InForms(i) \cup N \subseteq 1 .. Len(formed')
    BY <2>2 DEF InForms
  <2>7. QED
    BY <2>5, <2>6
<1>2. CASE N = {}
  BY <1>1, <1>2
<1>3. CASE N # {}
  <2>1. PICK n \in New : key[n] \in InBuffers(i)
    BY <1>3
  <2>2. N = {n}
    BY <2>1 DEF KeyInv, InBuffers
  <2>3. n \notin InForms(i)
    BY <2>1 DEF Grows, New, InForms
  <2>4. Cardinality(InForms(i) \cup {n}) = Cardinality(InForms(i)) + 1
    BY <2>3, CopiesType, FS_AddElement
  <2>5. QED
    BY <1>1, <2>1, <2>2, <2>4
<1>4. QED
  BY <1>2, <1>3

(* flush_all takes each bucket once, and empties those it takes.           *)
LEMMA FlushKeys ==
  ASSUME CorrelationTypeOK, FlushAll
  PROVE  \E key \in [New -> Keys] :
           /\ \A n \in New : formed'[n].members = buffers[key[n]] /\ buffers'[key[n]] = <<>>
           /\ \A m, n \in New : key[m] = key[n] => m = n
<1>1. PICK f \in FlushOrders : Form([j \in DOMAIN f |-> Situation(buffers[f[j]])])
  BY DEF FlushAll
<1> DEFINE sits == [j \in DOMAIN f |-> Situation(buffers[f[j]])]
           c == Cardinality(Ripe)
<1>2. c \in Nat
  <2>1. IsFiniteSet(Keys)
    <3> DEFINE g == [s \in Series |-> Bucket[s]]
    <3>1. g \in Surjection(Series, Keys)
      BY DEF Surjection, Keys
    <3>2. QED
      BY <3>1, FS_Surjection
  <2>2. QED
    BY <2>1, FS_Subset, FS_CardinalityType DEF Ripe
<1> HIDE DEF c
<1>3. /\ DOMAIN f = 1 .. c /\ \A j \in 1 .. c : f[j] \in Ripe /\ f[j] \in Keys
      /\ \A i, j \in 1 .. c : i < j => buffers[f[i]][1] < buffers[f[j]][1]
  BY DEF FlushOrders, Ripe, c
<1>4. \A i, j \in 1 .. c : f[i] = f[j] => i = j
  <2>1. \A j \in 1 .. c : buffers[f[j]][1] \in Int
    <3>1. ASSUME NEW k \in Ripe PROVE buffers[k][1] \in Int
      <4>1. buffers[k] \in Seq(1 .. Len(events)) /\ ~(Len(buffers[k]) < MinEvents)
        BY DEF CorrelationTypeOK, Ripe, Thin
      <4>2. 1 \in 1 .. Len(buffers[k])
        BY <4>1
      <4>3. QED
        BY <4>1, <4>2
    <3>2. QED
      BY <1>3, <3>1
  <2>2. QED
    BY <1>2, <1>3, <2>1
<1>5. /\ sits \in Seq(Situations) /\ Len(sits) = c
      /\ \A j \in 1 .. c : sits[j].members = buffers[f[j]]
  <2>1. \A j \in 1 .. c : sits[j] \in Situations /\ sits[j].members = buffers[f[j]]
    BY <1>3, SituationType DEF CorrelationTypeOK, Situation
  <2>2. DOMAIN sits = 1 .. c
    BY <1>3
  <2>3. QED
    BY <1>2, <2>1, <2>2
<1> HIDE DEF sits
<1>6. /\ Len(formed) \in Nat /\ Len(formed') = Len(formed) + c
      /\ \A n \in New : n - Len(formed) \in 1 .. c /\ formed'[n] = sits[n - Len(formed)]
  <2>1. formed' = formed \o sits
    BY <1>1 DEF Form, sits
  <2>2. QED
    BY <1>2, <1>5, <2>1 DEF New, CorrelationTypeOK
<1> DEFINE key == [n \in New |-> f[n - Len(formed)]]
<1>7. key \in [New -> Keys]
  BY <1>3, <1>6
<1>8. \A n \in New : formed'[n].members = buffers[key[n]]
  BY <1>5, <1>6
<1>9. \A n \in New : buffers'[key[n]] = <<>>
  <2>1. ASSUME NEW k \in Ripe PROVE buffers'[k] = <<>>
    <3>1. Remainder(buffers[k]) = <<>>
      BY DEF Ripe, Remainder, StaysThin
    <3>2. QED
      BY <3>1 DEF FlushAll, Ripe
  <2>2. \A n \in New : key[n] \in Ripe
    BY <1>3, <1>6
  <2>3. QED
    BY <2>1, <2>2
<1>10. \A m, n \in New : key[m] = key[n] => m = n
  <2>1. ASSUME NEW m \in New, NEW n \in New, key[m] = key[n] PROVE m = n
    <3>1. f[m - Len(formed)] = f[n - Len(formed)]
      BY <2>1
    <3>2. m - Len(formed) = n - Len(formed)
      BY <1>4, <1>6, <3>1
    <3>3. m \in Int /\ n \in Int
      BY <1>2, <1>6 DEF New
    <3>4. QED
      BY <1>6, <3>2, <3>3
  <2>2. QED
    BY <2>1
<1>11. QED
  BY <1>7, <1>8, <1>9, <1>10

LEMMA FlushCounts ==
  ASSUME CorrelationTypeOK, CorrelationTypeOK', KeyInv, KeyInv', FlushAll, NEW i
  PROVE  Copies(i)' <= Copies(i) /\ (Seen(i)' => Seen(i))
<1>1. PICK key \in [New -> Keys] :
        /\ \A n \in New : formed'[n].members = buffers[key[n]] /\ buffers'[key[n]] = <<>>
        /\ \A m, n \in New : key[m] = key[n] => m = n
  BY FlushKeys
<1>2. \/ InForms(i)' = InForms(i)
      \/ \E n \in New : /\ key[n] \in InBuffers(i)
                        /\ Cardinality(InForms(i)') = Cardinality(InForms(i)) + 1
  BY <1>1, FlushGrows, FormsCount
<1>3. InBuffers(i)' \subseteq InBuffers(i)
  <2>1. \A k \in Keys : buffers'[k] \in {buffers[k], <<>>}
    BY DEF FlushAll, Remainder
  <2>2. QED
    BY <2>1, RangeEmpty DEF InBuffers
<1>4. /\ Cardinality(InForms(i)) \in Nat /\ Cardinality(InForms(i)') \in Nat
      /\ Cardinality(InBuffers(i)) = IF InBuffers(i) = {} THEN 0 ELSE 1
      /\ Cardinality(InBuffers(i)') = IF InBuffers(i)' = {} THEN 0 ELSE 1
  BY CopiesType, CopiesTypeNext
<1>5. ASSUME NEW n \in New, key[n] \in InBuffers(i) PROVE InBuffers(i)' = {}
  <2>1. key[n] \notin InBuffers(i)'
    BY <1>1, RangeEmpty DEF InBuffers
  <2>2. \A k \in InBuffers(i) : k = key[n]
    BY <1>5 DEF InBuffers, KeyInv
  <2>3. QED
    BY <1>3, <2>1, <2>2
<1>6. CASE InForms(i)' = InForms(i)
  BY <1>3, <1>4, <1>6 DEF Copies, Seen
<1>7. CASE \E n \in New : /\ key[n] \in InBuffers(i)
                          /\ Cardinality(InForms(i)') = Cardinality(InForms(i)) + 1
  BY <1>4, <1>5, <1>7 DEF Copies, Seen
<1>8. QED
  BY <1>2, <1>6, <1>7

(* The stream keeps the events it has, and their buckets.                  *)
StreamGrows ==
  /\ Len(events) <= Len(events')
  /\ \A i \in 1 .. Len(events) : events'[i] = events[i]

LEMMA KeysKept ==
  ASSUME StreamGrows PROVE \A i \in 1 .. Len(events) : Key(i)' = Key(i)
BY DEF StreamGrows, Key

LEMMA KeyShrinks ==
  ASSUME CorrelationTypeOK, KeyInv, StreamGrows,
         \A k \in Keys : buffers'[k] \in {buffers[k], <<>>}
  PROVE  KeyInv'
<1> SUFFICES ASSUME NEW k \in Keys, NEW i \in Range(buffers'[k]) PROVE Key(i)' = k
  BY DEF KeyInv
<1>1. buffers'[k] = buffers[k]
  BY RangeEmpty
<1>2. i \in Range(buffers[k]) /\ i \in 1 .. Len(events)
  BY <1>1, RangesType
<1>3. QED
  BY <1>2, KeysKept DEF KeyInv

(* A step that adds no sample: what has been served stays so, and an event *)
(* is served again only after a death.                                     *)
Calm ==
  /\ \A k \in Keys : buffers'[k] \in {buffers[k], <<>>}
  /\ \A i \in Nat : Copies(i)' <= Copies(i) /\ (Seen(i)' => Seen(i))
  /\ StreamGrows
  /\ Served <= Served'
  /\ \/ Waiting' => Waiting /\ head' = head
     \/ Waiting' => head' > Served
     \/ Waiting' => Again' = Again + 1
  /\ ~AtLeastOnce /\ pc'["consumer"] = "add" =>
       \/ pc["consumer"] = "add" /\ cur' = cur
       \/ cur' > Served

LEMMA CalmSeen ==
  ASSUME CorrelationTypeOK, CorrelationTypeOK', SeenInv, Calm PROVE SeenInv'
<1>1. /\ Served \in Int /\ cur' \in Nat /\ Served' \in Int
      /\ \A i \in Nat : Seen(i) => i <= Served
      /\ ~AtLeastOnce /\ pc["consumer"] = "add" => ~Seen(cur)
      /\ cur \in Nat
  <2>1. cur' \in Nat /\ head' \in Nat
    BY DEF CorrelationTypeOK
  <2>2. Served' \in Int
    BY <2>1 DEF Served
  <2>3. QED
    BY <2>1, <2>2, RangesType DEF SeenInv
<1>2. \A i \in Nat : Seen(i)' => Seen(i)
  BY DEF Calm
<1>3. \A i \in Nat : Seen(i)' => i <= Served'
  BY <1>1, <1>2 DEF Calm
<1>4. ASSUME ~AtLeastOnce, pc'["consumer"] = "add" PROVE ~(Seen(cur)')
  <2>1. PICK c : c = cur'
    OBVIOUS
  <2>2. c \in Nat /\ (Seen(c)' => Seen(c))
    BY <1>1, <1>2, <2>1
  <2>3. ~Seen(c)
    BY <1>1, <1>4, <2>1, <2>2 DEF Calm
  <2>4. QED
    BY <2>1, <2>2, <2>3 DEF Seen, InForms, InBuffers
<1>5. QED
  BY <1>3, <1>4 DEF SeenInv

LEMMA CalmCopies ==
  ASSUME CorrelationTypeOK, CorrelationTypeOK', SeenInv, CopiesInv, Calm, KeyInv, KeyInv',
         Again \in Nat /\ Again' \in Nat /\ Again <= Again'
  PROVE  CopiesInv'
<1> SUFFICES ASSUME NEW i \in Nat PROVE Copies(i)' + Redone(i)' <= 1 + Again'
  BY DEF CopiesInv
<1>1. /\ Copies(i) \in Nat /\ Copies(i)' \in Nat /\ Copies(i)' <= Copies(i)
      /\ (Seen(i)' => Seen(i)) /\ Copies(i) + Redone(i) <= 1 + Again
      /\ Seen(i) => i <= Served
  <2>1. Copies(i) \in Nat /\ Copies(i)' \in Nat
    BY CopiesType, CopiesTypeNext DEF Copies
  <2>2. QED
    BY <2>1 DEF CopiesInv, Calm, SeenInv
<1>2. Redone(i) \in {0, 1} /\ Redone(i)' \in {0, 1}
  BY DEF Redone
<1>3. head' \in Nat /\ Served \in Int
  <2>1. head' \in Nat
    BY DEF CorrelationTypeOK
  <2>2. QED
    BY <2>1, RangesType
<1>4. Redone(i)' = 1 => Waiting' /\ i = head' /\ Seen(i)'
  BY DEF Redone
<1>5. CASE Redone(i)' = 0
  BY <1>1, <1>2, <1>5
<1>6. CASE Redone(i)' = 1 /\ Waiting /\ head' = head
  <2>1. Redone(i) = 1
    BY <1>1, <1>4, <1>6 DEF Redone
  <2>2. QED
    BY <1>1, <1>6, <2>1
<1>7. CASE Redone(i)' = 1 /\ head' > Served
  BY <1>1, <1>3, <1>4, <1>7
<1>8. CASE Redone(i)' = 1 /\ Again' = Again + 1
  BY <1>1, <1>2, <1>8
<1>9. QED
  BY <1>2, <1>4, <1>5, <1>6, <1>7, <1>8 DEF Calm

LEMMA CalmLength ==
  ASSUME CorrelationTypeOK, CorrelationTypeOK', SeenInv, LengthInv, Calm,
         Again \in Nat /\ Again' \in Nat /\ Again <= Again'
  PROVE  LengthInv'
<1> SUFFICES ASSUME NEW k \in Keys
             PROVE  Len(buffers'[k]) + RedoneIn(k)' <= Cardinality(Range(buffers'[k])) + Again'
  BY DEF LengthInv
<1>1. CASE buffers'[k] = <<>>
  <2>1. head' \notin Range(buffers'[k])
    BY <1>1, RangeEmpty
  <2>2. RedoneIn(k)' = 0
    BY <2>1 DEF RedoneIn
  <2>3. Len(buffers'[k]) = 0 /\ Cardinality(Range(buffers'[k])) = 0
    BY <1>1, RangeEmpty
  <2>4. PICK a \in Nat : a = Again'
    OBVIOUS
  <2>5. 0 + 0 <= 0 + a
    BY ONLY a \in Nat
  <2>6. QED
    BY ONLY <2>2, <2>3, <2>4, <2>5
<1>2. CASE buffers'[k] = buffers[k]
  <2>1. /\ Len(buffers[k]) \in Nat /\ Cardinality(Range(buffers[k])) \in Nat
        /\ Len(buffers[k]) + RedoneIn(k) <= Cardinality(Range(buffers[k])) + Again
    BY RangesType DEF LengthInv
  <2>2. RedoneIn(k) \in {0, 1} /\ RedoneIn(k)' \in {0, 1}
    BY DEF RedoneIn
  <2>3. RedoneIn(k)' = 1 => Waiting' /\ head' \in Range(buffers[k])
    BY <1>2 DEF RedoneIn
  <2>4. CASE RedoneIn(k)' = 0
    BY <1>2, <2>1, <2>2, <2>4
  <2>5. CASE RedoneIn(k)' = 1 /\ Waiting /\ head' = head
    <3>1. RedoneIn(k) = 1
      BY <2>3, <2>5 DEF RedoneIn
    <3>2. QED
      BY <1>2, <2>1, <2>5, <3>1
  <2>6. CASE RedoneIn(k)' = 1 /\ head' > Served
    <3>1. PICK i : i = head'
      OBVIOUS
    <3>2. i \in Nat /\ i > Served /\ Served \in Int
      <4>1. head' \in Nat
        BY DEF CorrelationTypeOK
      <4>2. QED
        BY <2>6, <3>1, <4>1, RangesType
    <3>3. k \in InBuffers(i)
      BY <2>3, <2>6, <3>1 DEF InBuffers
    <3>4. Seen(i)
      BY <3>3 DEF Seen
    <3>5. QED
      BY <3>2, <3>4 DEF SeenInv
  <2>7. CASE RedoneIn(k)' = 1 /\ Again' = Again + 1
    BY <1>2, <2>1, <2>2, <2>7
  <2>8. QED
    BY <2>2, <2>3, <2>4, <2>5, <2>6, <2>7 DEF Calm
<1>3. QED
  BY <1>1, <1>2 DEF Calm

(* A Situation that is formed has MinEvents samples, all but those counted *)
(* again different ones.                                                   *)
LEMMA IncidentGrows ==
  ASSUME CorrelationTypeOK, CorrelationTypeOK', KeyInv, LengthInv, IncidentIsSustained,
         StreamGrows, Again \in Nat /\ Again' \in Nat /\ Again <= Again',
         \A n \in 1 .. Len(formed') :
           \/ n \in 1 .. Len(formed) /\ formed'[n] = formed[n]
           \/ \E k \in Keys : ~Thin(buffers[k]) /\ formed'[n].members = buffers[k]
  PROVE  IncidentIsSustained'
<1> SUFFICES ASSUME NEW n \in 1 .. Len(formed')
             PROVE  /\ Cardinality(Members(n)') + Again' >= MinEvents
                    /\ \A i, j \in Members(n)' : Key(i)' = Key(j)'
  BY DEF IncidentIsSustained
<1> USE CorrelationAssumption
<1>1. CASE n \in 1 .. Len(formed) /\ formed'[n] = formed[n]
  <2>1. /\ Members(n)' = Members(n) /\ Members(n) \subseteq 1 .. Len(events)
        /\ Cardinality(Members(n)) \in Nat
    BY <1>1, RangesType DEF Members
  <2>2. /\ Cardinality(Members(n)) + Again >= MinEvents
        /\ \A i, j \in Members(n) : Key(i) = Key(j)
    BY <1>1 DEF IncidentIsSustained
  <2>3. QED
    BY <2>1, <2>2, KeysKept
<1>2. CASE \E k \in Keys : ~Thin(buffers[k]) /\ formed'[n].members = buffers[k]
  <2>1. PICK k \in Keys : ~Thin(buffers[k]) /\ formed'[n].members = buffers[k]
    BY <1>2
  <2>2. Members(n)' = Range(buffers[k]) /\ Len(buffers[k]) >= MinEvents
    BY <2>1, RangesType DEF Members, Thin
  <2>3. /\ Len(buffers[k]) \in Nat /\ Cardinality(Range(buffers[k])) \in Nat
        /\ Len(buffers[k]) + RedoneIn(k) <= Cardinality(Range(buffers[k])) + Again
        /\ RedoneIn(k) \in {0, 1}
    BY RangesType DEF LengthInv, RedoneIn
  <2>4. \A i \in Range(buffers[k]) : Key(i)' = k
    BY RangesType, KeysKept DEF KeyInv
  <2>5. QED
    BY <2>2, <2>3, <2>4
<1>3. QED
  BY <1>1, <1>2

------------------------------------------------------------------------------
(* A sample that is added.                                                 *)

(* What the bucket of cur holds, what is left of it, and what is formed.   *)
LEMMA AddShape ==
  ASSUME CorrelationTypeOK, cur # 0, AddAnomalous
  PROVE  \E k \in Keys, base \in Seq(Nat) :
           /\ k = Key(cur) /\ cur \in 1 .. Len(events)
           /\ base \in {buffers[k], <<>>}
           /\ buffers' = [buffers EXCEPT ![k] = Append(base, cur)]
           /\ \/ New = {} /\ formed' = formed
              \/ /\ New = {Len(formed) + 1} /\ formed'[Len(formed) + 1].members = buffers[k]
                 /\ base = <<>>
<1> DEFINE k == Key(cur)
           buf == buffers[k]
           overflows == buf # <<>> /\ Time(cur) - Time(buf[1]) > Window
           base == IF overflows THEN Remainder(buf) ELSE buf
<1>1. /\ Form(IF overflows /\ ~Thin(buf) THEN <<Situation(buf)>> ELSE <<>>)
      /\ buffers' = [buffers EXCEPT ![k] = Append(base, cur)]
      /\ pc["consumer"] = "add"
  BY DEF AddAnomalous
<1>2. cur \in 1 .. Len(events) /\ k \in Keys
  BY <1>1, InHand DEF CorrelationTypeOK
<1>3. buf \in Seq(1 .. Len(events)) /\ buf \in Seq(Nat) /\ Len(formed) \in Nat
  BY <1>2, RangesType DEF CorrelationTypeOK
<1>4. base \in {buf, <<>>} /\ base \in Seq(Nat)
  <2>1. <<>> \in Seq(Nat)
    OBVIOUS
  <2>2. QED
    BY <1>3, <2>1 DEF Remainder
<1>5. CASE overflows /\ ~Thin(buf)
  <2>1. base = <<>>
    BY <1>5 DEF Remainder, StaysThin
  <2>2. formed' = Append(formed, Situation(buf))
    BY <1>1, <1>5 DEF Form, CorrelationTypeOK
  <2>3. Len(formed') = Len(formed) + 1 /\ formed'[Len(formed) + 1] = Situation(buf)
    BY <2>2, <1>3 DEF CorrelationTypeOK
  <2>4. New = {Len(formed) + 1}
    BY <1>3, <2>3 DEF New
  <2>5. formed'[Len(formed) + 1].members = buf
    BY <2>3 DEF Situation
  <2>6. QED
    BY <1>1, <1>2, <1>4, <2>1, <2>4, <2>5
<1>6. CASE ~(overflows /\ ~Thin(buf))
  <2>1. formed' = formed
    <3>1. formed' = formed \o <<>>
      BY <1>1, <1>6 DEF Form
    <3>2. formed \in Seq(Situations)
      BY DEF CorrelationTypeOK
    <3>3. formed \o <<>> = formed
      BY <3>2
    <3>4. QED
      BY <3>1, <3>3
  <2>2. New = {}
    BY <1>3, <2>1 DEF New
  <2>3. QED
    BY <1>1, <1>2, <1>4, <2>1, <2>2
<1>7. QED
  BY <1>5, <1>6

LEMMA AddStream ==
  ASSUME CorrelationTypeOK, AddAnomalous
  PROVE  /\ cur # 0 /\ cur' = cur /\ head' = head /\ events' = events /\ faults' = faults
         /\ Served = cur /\ Served' = Served /\ Again' = Again /\ StreamGrows
         /\ pc["consumer"] = "add" /\ ~(Waiting') /\ pc'["consumer"] # "add"
<1>1. /\ cur # 0 /\ cur' = cur /\ head' = head /\ events' = events /\ faults' = faults
      /\ pc["consumer"] = "add"
  BY DEF AddAnomalous, CorrelationTypeOK, bus, bounds
<1>2. pc'["consumer"] \in {"drain", "publish"}
  BY DEF AddAnomalous, GoPublish, CorrelationTypeOK, Workers
<1>3. Served = cur /\ Served' = Served
  BY <1>1 DEF Served, CorrelationTypeOK
<1>4. Again' = Again
  BY <1>1 DEF Again, Deaths
<1>5. StreamGrows
  BY <1>1 DEF StreamGrows, CorrelationTypeOK
<1>6. ~(Waiting')
  BY <1>2 DEF Waiting
<1>7. QED
  BY <1>1, <1>2, <1>3, <1>4, <1>5, <1>6

LEMMA AddKeys ==
  ASSUME CorrelationTypeOK, KeyInv, AddAnomalous PROVE KeyInv'
<1>1. PICK k \in Keys, base \in Seq(Nat) :
        /\ k = Key(cur) /\ cur \in 1 .. Len(events)
        /\ base \in {buffers[k], <<>>}
        /\ buffers' = [buffers EXCEPT ![k] = Append(base, cur)]
  BY AddShape, AddStream
<1> SUFFICES ASSUME NEW b \in Keys, NEW i \in Range(buffers'[b]) PROVE Key(i)' = b
  BY DEF KeyInv
<1>2. buffers'[b] = IF b = k THEN Append(base, cur) ELSE buffers[b]
  BY <1>1 DEF CorrelationTypeOK
<1>3. Range(Append(base, cur)) = Range(base) \cup {cur}
  BY <1>1, RangeAppend, RangesType
<1>4. i \in Range(buffers[b]) \/ (b = k /\ i = cur)
  BY <1>1, <1>2, <1>3, RangeEmpty
<1>5. i \in 1 .. Len(events) /\ Key(i) = b
  BY <1>1, <1>4, RangesType DEF KeyInv
<1>6. QED
  BY <1>5, AddStream, KeysKept

LEMMA AddCounts ==
  ASSUME CorrelationTypeOK, CorrelationTypeOK', KeyInv, KeyInv', AddAnomalous, NEW i
  PROVE  IF i = cur THEN Copies(i)' <= Copies(i) + 1
                    ELSE Copies(i)' <= Copies(i) /\ (Seen(i)' => Seen(i))
<1>1. PICK k \in Keys, base \in Seq(Nat) :
        /\ k = Key(cur) /\ cur \in 1 .. Len(events)
        /\ base \in {buffers[k], <<>>}
        /\ buffers' = [buffers EXCEPT ![k] = Append(base, cur)]
        /\ \/ New = {} /\ formed' = formed
           \/ /\ New = {Len(formed) + 1} /\ formed'[Len(formed) + 1].members = buffers[k]
              /\ base = <<>>
  BY AddShape, AddStream
<1>2. /\ Cardinality(InForms(i)) \in Nat /\ Cardinality(InForms(i)') \in Nat
      /\ Cardinality(InBuffers(i)) = IF InBuffers(i) = {} THEN 0 ELSE 1
      /\ Cardinality(InBuffers(i)') = IF InBuffers(i)' = {} THEN 0 ELSE 1
  BY CopiesType, CopiesTypeNext
<1>3. Range(Append(base, cur)) = Range(base) \cup {cur}
  BY <1>1, RangeAppend, RangesType
<1>4. \A b \in Keys : Range(buffers'[b]) = IF b = k THEN Range(base) \cup {cur} ELSE Range(buffers[b])
  BY <1>1, <1>3 DEF CorrelationTypeOK
<1>5. i # cur => InBuffers(i)' \subseteq InBuffers(i)
  BY <1>1, <1>4, RangeEmpty DEF InBuffers
<1>6. CASE New = {} /\ formed' = formed
  <2>1. InForms(i)' = InForms(i)
    BY <1>6 DEF InForms, Members
  <2>2. QED
    BY <1>2, <1>5, <2>1 DEF Copies, Seen
<1>7. CASE /\ New = {Len(formed) + 1} /\ formed'[Len(formed) + 1].members = buffers[k]
           /\ base = <<>>
  <2> DEFINE key == [n \in New |-> k]
  <2>1. key \in [New -> Keys] /\ \A n \in New : key[n] = k
    BY <1>1
  <2>2. /\ \A n \in New : formed'[n].members = buffers[key[n]]
        /\ \A m, n \in New : key[m] = key[n] => m = n
    BY <1>7, <2>1
  <2>3. Grows
    BY AddGrows, AddStream
  <2> HIDE DEF key
  <2>4. \/ InForms(i)' = InForms(i) /\ \A n \in New : key[n] \notin InBuffers(i)
        \/ \E n \in New : /\ key[n] \in InBuffers(i)
                          /\ Cardinality(InForms(i)') = Cardinality(InForms(i)) + 1
    BY <2>1, <2>2, <2>3, FormsCount
  <2>5. CASE InForms(i)' = InForms(i)
    BY <1>2, <1>5, <2>5 DEF Copies, Seen
  <2>6. CASE k \in InBuffers(i) /\ Cardinality(InForms(i)') = Cardinality(InForms(i)) + 1
    <3>1. Cardinality(InBuffers(i)) = 1 /\ Seen(i)
      BY <1>2, <2>6 DEF Seen
    <3>2. i # cur => InBuffers(i)' = {}
      <4>1. \A b \in InBuffers(i) : b = k
        BY <2>6 DEF InBuffers, KeyInv
      <4>2. i # cur => k \notin InBuffers(i)'
        BY <1>4, <1>7, RangeEmpty DEF InBuffers
      <4>3. QED
        BY <1>5, <4>1, <4>2
    <3>3. QED
      BY <1>2, <2>6, <3>1, <3>2 DEF Copies
  <2>7. QED
    BY <2>1, <2>4, <2>5, <2>6
<1>8. QED
  BY <1>1, <1>6, <1>7

LEMMA AddSeen ==
  ASSUME CorrelationTypeOK, CorrelationTypeOK', KeyInv, SeenInv, AddAnomalous
  PROVE  SeenInv'
<1>1. KeyInv'
  BY AddKeys
<1>2. ASSUME NEW i \in Nat, Seen(i)' PROVE i <= Served'
  <2>1. CASE i = cur
    BY <2>1, AddStream, RangesType
  <2>2. CASE i # cur
    BY <1>1, <1>2, <2>2, AddCounts, AddStream DEF SeenInv
  <2>3. QED
    BY <2>1, <2>2
<1>3. QED
  BY <1>2, AddStream DEF SeenInv

LEMMA AddCopies ==
  ASSUME CorrelationTypeOK, CorrelationTypeOK', KeyInv, SeenInv, CopiesInv, AddAnomalous
  PROVE  CopiesInv'
<1> SUFFICES ASSUME NEW i \in Nat PROVE Copies(i)' + Redone(i)' <= 1 + Again'
  BY DEF CopiesInv
<1>1. KeyInv'
  BY AddKeys
<1>2. /\ Copies(i) \in Nat /\ Copies(i)' \in Nat /\ Again \in Nat
      /\ Copies(i) + Redone(i) <= 1 + Again /\ Redone(i) \in {0, 1}
  <2>1. Copies(i) \in Nat /\ Copies(i)' \in Nat
    BY <1>1, CopiesType, CopiesTypeNext DEF Copies
  <2>2. QED
    BY <2>1, RangesType DEF CopiesInv, Redone
<1>3. Redone(i)' = 0 /\ Again' = Again
  BY AddStream DEF Redone
<1>4. CASE i # cur
  BY <1>1, <1>2, <1>3, <1>4, AddCounts
<1>5. CASE i = cur /\ ~Seen(cur)
  <2>1. Copies(i) = 0
    <3>1. InForms(i) = {} /\ InBuffers(i) = {}
      BY <1>5 DEF Seen
    <3>2. Cardinality(InForms(i)) = 0 /\ Cardinality(InBuffers(i)) = 0
      BY <3>1, RangeEmpty
    <3>3. QED
      BY <3>2 DEF Copies
  <2>2. Copies(i)' <= Copies(i) + 1
    BY <1>1, <1>5, AddCounts
  <2>3. QED
    BY <1>2, <1>3, <2>1, <2>2
<1>6. CASE i = cur /\ Seen(cur)
  <2>1. AtLeastOnce
    BY <1>6, AddStream DEF SeenInv
  <2>2. Waiting /\ cur = head
    BY <2>1, AddStream DEF Waiting, Served
  <2>3. Redone(i) = 1
    BY <1>6, <2>2 DEF Redone
  <2>4. Copies(i)' <= Copies(i) + 1
    BY <1>1, <1>6, AddCounts
  <2>5. QED
    BY <1>2, <1>3, <2>3, <2>4
<1>7. QED
  BY <1>4, <1>5, <1>6

LEMMA AddLength ==
  ASSUME CorrelationTypeOK, CorrelationTypeOK', SeenInv, LengthInv, AddAnomalous
  PROVE  LengthInv'
<1> SUFFICES ASSUME NEW b \in Keys
             PROVE  Len(buffers'[b]) + RedoneIn(b)' <= Cardinality(Range(buffers'[b])) + Again'
  BY DEF LengthInv
<1>1. PICK k \in Keys, base \in Seq(Nat) :
        /\ k = Key(cur) /\ cur \in 1 .. Len(events)
        /\ base \in {buffers[k], <<>>}
        /\ buffers' = [buffers EXCEPT ![k] = Append(base, cur)]
  BY AddShape, AddStream
<1>2. RedoneIn(b)' = 0 /\ Again' = Again /\ Again \in Nat
  BY AddStream, RangesType DEF RedoneIn
<1>3. /\ Len(buffers[k]) \in Nat /\ Cardinality(Range(buffers[k])) \in Nat
      /\ IsFiniteSet(Range(buffers[k]))
      /\ Len(buffers[k]) + RedoneIn(k) <= Cardinality(Range(buffers[k])) + Again
      /\ RedoneIn(k) \in {0, 1}
  BY RangesType DEF LengthInv, RedoneIn
<1>4. /\ Range(Append(base, cur)) = Range(base) \cup {cur} /\ Len(Append(base, cur)) = Len(base) + 1
      /\ cur \in Nat
  BY <1>1, RangeAppend, RangesType
<1>5. CASE b # k
  <2>1. buffers'[b] = buffers[b]
    BY <1>1, <1>5 DEF CorrelationTypeOK
  <2>2. /\ Len(buffers[b]) \in Nat /\ Cardinality(Range(buffers[b])) \in Nat
        /\ Len(buffers[b]) + RedoneIn(b) <= Cardinality(Range(buffers[b])) + Again
        /\ RedoneIn(b) \in {0, 1}
    BY RangesType DEF LengthInv, RedoneIn
  <2>3. QED
    BY <1>2, <2>1, <2>2
<1>6. CASE b = k
  <2>1. buffers'[b] = Append(base, cur)
    BY <1>1, <1>6 DEF CorrelationTypeOK
  <2>2. CASE base = <<>>
    <3>1. Range(Append(base, cur)) = {cur} /\ Len(Append(base, cur)) = 1
      BY <1>4, <2>2, RangeEmpty
    <3>2. Cardinality({cur}) = 1
      BY FS_Singleton
    <3>3. QED
      BY <1>2, <2>1, <3>1, <3>2
  <2>3. CASE base = buffers[k] /\ cur \notin Range(buffers[k])
    <3>1. Cardinality(Range(buffers[k]) \cup {cur}) = Cardinality(Range(buffers[k])) + 1
      BY <1>3, <2>3, FS_AddElement
    <3>2. /\ Len(buffers'[b]) = Len(buffers[k]) + 1
          /\ Cardinality(Range(buffers'[b])) = Cardinality(Range(buffers[k])) + 1
      BY <1>4, <2>1, <2>3, <3>1
    <3>3. QED
      BY <1>2, <1>3, <3>2
  <2>4. CASE base = buffers[k] /\ cur \in Range(buffers[k])
    <3>1. Seen(cur)
      BY <2>4 DEF Seen, InBuffers
    <3>2. AtLeastOnce
      BY <3>1, AddStream DEF SeenInv
    <3>3. Waiting /\ cur = head
      BY <3>2, AddStream DEF Waiting, Served
    <3>4. RedoneIn(k) = 1
      BY <2>4, <3>3 DEF RedoneIn
    <3>5. Range(buffers[k]) \cup {cur} = Range(buffers[k])
      BY <2>4
    <3>6. /\ Len(buffers'[b]) = Len(buffers[k]) + 1
          /\ Cardinality(Range(buffers'[b])) = Cardinality(Range(buffers[k]))
      BY <1>4, <2>1, <2>4, <3>5
    <3>7. QED
      BY <1>2, <1>3, <3>4, <3>6
  <2>5. QED
    BY <1>1, <2>2, <2>3, <2>4
<1>7. QED
  BY <1>5, <1>6

(* The other steps are calm.                                               *)
LEMMA SameCounts ==
  ASSUME CorrelationTypeOK, KeyInv, UNCHANGED <<buffers, formed>>
  PROVE  /\ \A k \in Keys : buffers'[k] \in {buffers[k], <<>>}
         /\ \A i \in Nat : Copies(i)' <= Copies(i) /\ (Seen(i)' => Seen(i))
<1>1. ASSUME NEW i \in Nat PROVE Copies(i)' <= Copies(i) /\ (Seen(i)' => Seen(i))
  <2>1. InForms(i)' = InForms(i) /\ InBuffers(i)' = InBuffers(i)
    BY DEF InForms, InBuffers, Members
  <2>2. Copies(i) \in Nat
    BY CopiesType DEF Copies
  <2>3. QED
    BY <2>1, <2>2 DEF Copies, Seen
<1>2. QED
  BY <1>1

LEMMA EmptiedCounts ==
  ASSUME CorrelationTypeOK, CorrelationTypeOK', KeyInv, formed' = formed,
         buffers' = [k \in Keys |-> <<>>]
  PROVE  /\ \A k \in Keys : buffers'[k] \in {buffers[k], <<>>}
         /\ \A i \in Nat : Copies(i)' <= Copies(i) /\ (Seen(i)' => Seen(i))
<1>1. KeyInv'
  BY RangeEmpty DEF KeyInv
<1>2. ASSUME NEW i \in Nat PROVE Copies(i)' <= Copies(i) /\ (Seen(i)' => Seen(i))
  <2>1. InForms(i)' = InForms(i) /\ InBuffers(i)' = {}
    BY RangeEmpty DEF InForms, InBuffers, Members
  <2>2. /\ Cardinality(InForms(i)) \in Nat /\ Cardinality(InBuffers(i)) \in {0, 1}
        /\ Cardinality(InBuffers(i)') = 0
    BY <2>1, CopiesType, RangeEmpty
  <2>3. QED
    BY <2>1, <2>2 DEF Copies, Seen
<1>3. QED
  BY <1>2

LEMMA SameStream ==
  ASSUME CorrelationTypeOK, events' = events PROVE StreamGrows
BY RangesType DEF StreamGrows

LEMMA WorkCalm ==
  ASSUME CorrelationTypeOK, KeyInv, NEW w \in Workers, Work(w) PROVE Calm
<1>1. UNCHANGED <<buffers, formed, events, head, cur>>
  BY DEF Work, Publish, Pop, Report, Drained, bus, engine
<1>2. Served' = Served /\ StreamGrows
  BY <1>1, SameStream DEF Served
<1>3. pc'["consumer"] = pc["consumer"] \/ pc'["consumer"] \notin {"wait", "add"}
  BY DEF Work, Publish, Pop, Report, Drained, CorrelationTypeOK, Workers
<1>4. QED
  BY <1>1, <1>2, <1>3, SameCounts, RangesType DEF Calm, Waiting

LEMMA ConsumerCalm ==
  ASSUME CorrelationTypeOK, CorrelationTypeOK', KeyInv,
         TakeEvent \/ AddNormal \/ MarkDone \/ Refresh \/ Stop \/ Acknowledge \/ UNCHANGED vars
  PROVE  Calm
<1>1. UNCHANGED <<buffers, formed, events>>
  BY DEF TakeEvent, AddNormal, MarkDone, Refresh, Stop, Acknowledge, vars, bus, engine
<1>2. StreamGrows /\ Served \in Int /\ head \in Nat /\ cur \in Nat
  BY <1>1, SameStream, RangesType
<1>3. CASE TakeEvent
  <2>1. /\ pc["consumer"] = "wait" /\ cur' = head
        /\ head' = IF AtLeastOnce THEN head ELSE head + 1
    BY <1>3 DEF TakeEvent
  <2>2. Served <= Served' /\ (~AtLeastOnce => cur' > Served)
    BY <1>2, <2>1 DEF Served
  <2>3. Waiting' => Waiting /\ head' = head
    BY <2>1 DEF Waiting
  <2>4. QED
    BY <1>1, <1>2, <2>2, <2>3, SameCounts DEF Calm
<1>4. CASE Acknowledge
  <2>1. head' = cur + 1 /\ pc'["consumer"] = "wait" /\ cur # 0
        /\ head = IF AtLeastOnce THEN cur ELSE cur + 1
    BY <1>4 DEF Acknowledge, CorrelationTypeOK, Workers
  <2>2. Served <= Served' /\ (AtLeastOnce => head' > Served)
    BY <1>2, <2>1 DEF Served
  <2>3. Waiting' => head' > Served
    BY <2>2 DEF Waiting
  <2>4. pc'["consumer"] # "add"
    BY <2>1
  <2>5. QED
    BY <1>1, <1>2, <2>2, <2>3, <2>4, SameCounts DEF Calm
<1>5. CASE AddNormal \/ MarkDone \/ Refresh \/ Stop \/ UNCHANGED vars
  <2>1. head' = head /\ cur' = cur
    BY <1>5 DEF AddNormal, MarkDone, Refresh, Stop, vars, bus, threads
  <2>2. pc'["consumer"] = pc["consumer"] \/ pc'["consumer"] \notin {"wait", "add"}
    BY <1>5 DEF AddNormal, MarkDone, Refresh, Stop, vars, threads, CorrelationTypeOK, Workers
  <2>3. Served <= Served'
    BY <1>2, <2>1 DEF Served
  <2>4. QED
    BY <1>1, <1>2, <2>1, <2>2, <2>3, SameCounts DEF Calm, Waiting
<1>6. QED
  BY <1>3, <1>4, <1>5

LEMMA FlushKeyInv ==
  ASSUME CorrelationTypeOK, KeyInv, FlushAll, events' = events PROVE KeyInv'
<1>1. \A k \in Keys : buffers'[k] \in {buffers[k], <<>>}
  BY DEF FlushAll, Remainder
<1>2. QED
  BY <1>1, SameStream, KeyShrinks

LEMMA CollapseCalm ==
  ASSUME CorrelationTypeOK, CorrelationTypeOK', KeyInv, StopConsuming \/ Flush
  PROVE  Calm
<1>1. FlushAll /\ events' = events /\ cur' = cur
  BY DEF StopConsuming, Flush, bus
<1>2. KeyInv' /\ StreamGrows /\ \A k \in Keys : buffers'[k] \in {buffers[k], <<>>}
  BY <1>1, FlushKeyInv, SameStream DEF FlushAll, Remainder
<1>3. \A i \in Nat : Copies(i)' <= Copies(i) /\ (Seen(i)' => Seen(i))
  BY <1>1, <1>2, FlushCounts
<1>4. \/ pc'["consumer"] = pc["consumer"] /\ head' = head
      \/ /\ pc'["consumer"] \notin {"wait", "add"}
         /\ head' = IF AtLeastOnce THEN head ELSE head + 1
  BY DEF StopConsuming, Flush, GoPublish, bus, CorrelationTypeOK, Workers
<1>5. Served <= Served'
  BY <1>4, RangesType DEF Served
<1>6. QED
  BY <1>1, <1>2, <1>3, <1>4, <1>5 DEF Calm, Waiting

LEMMA OperatorCalm ==
  ASSUME CorrelationTypeOK, CorrelationTypeOK', KeyInv,
         Reset \/ ProcessDies \/ \E w \in Workers : ThreadDies(w)
  PROVE  Calm
<1>1. formed' = formed /\ events' = events /\ head' = head
  BY DEF Reset, ProcessDies, ThreadDies, bus, engine
<1>2. StreamGrows /\ Served <= Served'
  BY <1>1, SameStream, RangesType DEF Served
<1>3. /\ \A k \in Keys : buffers'[k] \in {buffers[k], <<>>}
      /\ \A i \in Nat : Copies(i)' <= Copies(i) /\ (Seen(i)' => Seen(i))
  <2>1. CASE Reset \/ ProcessDies
    <3>1. buffers' = [k \in Keys |-> <<>>]
      BY <2>1 DEF Reset, ProcessDies
    <3>2. QED
      BY <1>1, <3>1, EmptiedCounts
  <2>2. CASE \E w \in Workers : ThreadDies(w)
    <3>1. buffers' = buffers
      BY <2>2 DEF ThreadDies, engine
    <3>2. QED
      BY <1>1, <3>1, SameCounts
  <2>3. QED
    BY <2>1, <2>2
<1>4. CASE Reset \/ ThreadDies("flusher")
  <2>1. pc'["consumer"] = pc["consumer"] /\ cur' = cur
    BY <1>4 DEF Reset, ThreadDies, threads, CorrelationTypeOK, Workers
  <2>2. QED
    BY <1>1, <1>2, <1>3, <2>1 DEF Calm, Waiting
<1>5. CASE ProcessDies \/ ThreadDies("consumer")
  <2>1. pc'["consumer"] \in {"wait", "ended"}
    BY <1>5 DEF ProcessDies, ThreadDies, CorrelationTypeOK, Workers
  <2>2. Waiting' => Again' = Again + 1
    BY <1>5, AgainDeath DEF Waiting
  <2>3. QED
    BY <1>2, <1>3, <2>1, <2>2 DEF Calm
<1>6. QED
  BY <1>4, <1>5 DEF Workers

LEMMA ObserveCalm ==
  ASSUME CorrelationTypeOK, KeyInv, NEW s \in Series, NEW ts \in 0 .. MaxTime, Observe(s, ts)
  PROVE  Calm
<1>1. UNCHANGED <<buffers, formed, head, cur, pc>> /\ events' = Append(events, [series |-> s, ts |-> ts])
  BY DEF Observe, threads, engine
<1>2. StreamGrows
  BY <1>1 DEF StreamGrows, CorrelationTypeOK
<1>3. Served <= Served'
  BY <1>1, RangesType DEF Served
<1>4. QED
  BY <1>1, <1>2, <1>3, SameCounts DEF Calm, Waiting

(* What a step adds to what is formed comes from a full bucket.            *)
LEMMA FormedFull ==
  ASSUME CorrelationTypeOK, [Next]_vars
  PROVE  \A n \in 1 .. Len(formed') :
           \/ n \in 1 .. Len(formed) /\ formed'[n] = formed[n]
           \/ \E k \in Keys : ~Thin(buffers[k]) /\ formed'[n].members = buffers[k]
<1>1. CASE formed' = formed
  BY <1>1
<1>2. CASE Grows
  <2>1. \A n \in 1 .. Len(formed') : n \in 1 .. Len(formed) \/ n \in New
    BY <1>2 DEF Grows, New
  <2>2. \A n \in New : \E k \in Keys : ~Thin(buffers[k]) /\ formed'[n].members = buffers[k]
    <3> SUFFICES ASSUME NEW n \in New
                 PROVE  \E k \in Keys : ~Thin(buffers[k]) /\ formed'[n].members = buffers[k]
      OBVIOUS
    <3>1. PICK k \in Keys : ~Thin(buffers[k]) /\ formed'[n] = Situation(buffers[k])
      BY <1>2 DEF Grows
    <3>2. Situation(buffers[k]).members = buffers[k]
      BY DEF Situation
    <3>3. QED
      BY <3>1, <3>2
  <2>3. QED
    BY <1>2, <2>1, <2>2 DEF Grows
<1>3. formed' = formed \/ Grows
  <2>1. CASE StopConsuming \/ Flush
    BY <2>1, FlushGrows DEF StopConsuming, Flush
  <2>2. CASE AddAnomalous
    BY <2>2, AddStream, AddGrows
  <2>3. CASE ~(StopConsuming \/ Flush \/ AddAnomalous)
    BY <2>3
    DEF Next, Consume, Tick, Work, Publish, Pop, Report, Drained, TakeEvent, AddNormal, MarkDone,
        Acknowledge, Refresh, Observe, Reset, ThreadDies, Stop, ProcessDies, vars, engine
  <2>4. QED
    BY <2>1, <2>2, <2>3
<1>4. QED
  BY <1>1, <1>2, <1>3

LEMMA SampleStep ==
  CorrelationTypeOK /\ CorrelationTypeOK' /\ SampleInv /\ [Next]_vars => SampleInv'
<1> SUFFICES ASSUME CorrelationTypeOK, CorrelationTypeOK', SampleInv, [Next]_vars
             PROVE  SampleInv'
  OBVIOUS
<1>1. SeenInv /\ KeyInv /\ CopiesInv /\ LengthInv /\ IncidentIsSustained
  BY DEF SampleInv
<1>2. Again \in Nat /\ Again' \in Nat /\ Again <= Again'
  BY AgainGrows
<1>3. AddAnomalous \/ Calm
  <2>1. CASE \E w \in Workers : Work(w)
    BY <1>1, <2>1, WorkCalm
  <2>2. CASE TakeEvent \/ AddNormal \/ MarkDone \/ Refresh \/ Stop \/ Acknowledge \/ UNCHANGED vars
    BY <1>1, <2>2, ConsumerCalm
  <2>3. CASE StopConsuming \/ Flush
    BY <1>1, <2>3, CollapseCalm
  <2>4. CASE Reset \/ ProcessDies \/ \E w \in Workers : ThreadDies(w)
    BY <1>1, <2>4, OperatorCalm
  <2>5. CASE \E s \in Series, ts \in 0 .. MaxTime : Observe(s, ts)
    BY <1>1, <2>5, ObserveCalm
  <2>6. QED
    BY <2>1, <2>2, <2>3, <2>4, <2>5 DEF Next, Consume, Tick, Workers
<1>4. StreamGrows
  BY <1>3, AddStream DEF Calm
<1>5. IncidentIsSustained'
  BY <1>1, <1>2, <1>4, FormedFull, IncidentGrows
<1>6. CASE AddAnomalous
  BY <1>1, <1>5, <1>6, AddKeys, AddSeen, AddCopies, AddLength DEF SampleInv
<1>7. CASE Calm
  <2>1. KeyInv'
    BY <1>1, <1>7, KeyShrinks DEF Calm
  <2>2. SeenInv'
    BY <1>1, <1>7, CalmSeen
  <2>3. CopiesInv'
    BY <1>1, <1>2, <1>7, <2>1, CalmCopies
  <2>4. LengthInv'
    BY <1>1, <1>2, <1>7, CalmLength
  <2>5. QED
    BY <1>5, <2>1, <2>2, <2>3, <2>4 DEF SampleInv
<1>8. QED
  BY <1>3, <1>6, <1>7

LEMMA SampleInit == Init => SampleInv
<1> SUFFICES ASSUME Init PROVE SampleInv
  OBVIOUS
<1>1. events = <<>> /\ formed = <<>> /\ head = 1 /\ pc["consumer"] = "wait"
      /\ \A k \in Keys : buffers[k] = <<>>
  BY DEF Init, Workers
<1>2. \A k \in Keys : Range(buffers[k]) = {} /\ Len(buffers[k]) = 0
  BY <1>1, RangeEmpty
<1>3. ASSUME NEW i PROVE InForms(i) = {} /\ InBuffers(i) = {} /\ ~Seen(i)
  <2>1. 1 .. Len(formed) = {}
    BY <1>1
  <2>2. InForms(i) = {}
    BY <2>1 DEF InForms
  <2>3. InBuffers(i) = {}
    BY <1>2 DEF InBuffers
  <2>4. QED
    BY <2>2, <2>3 DEF Seen
<1>4. Again \in Nat
  BY DEF Init, Again, Deaths, FaultKinds
<1>5. ASSUME NEW i PROVE Copies(i) = 0 /\ Redone(i) = 0
  <2>1. Cardinality(InForms(i)) = 0 /\ Cardinality(InBuffers(i)) = 0
    BY <1>3, RangeEmpty
  <2>2. QED
    BY <1>3, <2>1 DEF Copies, Redone
<1>6. \A k \in Keys : RedoneIn(k) = 0 /\ Cardinality(Range(buffers[k])) = 0
  BY <1>2, RangeEmpty DEF RedoneIn
<1>7. SeenInv /\ KeyInv
  BY <1>1, <1>2, <1>3 DEF SeenInv, KeyInv
<1>8. CopiesInv /\ LengthInv
  BY <1>2, <1>4, <1>5, <1>6 DEF CopiesInv, LengthInv
<1>9. IncidentIsSustained
  BY <1>1 DEF IncidentIsSustained
<1>10. QED
  BY <1>7, <1>8, <1>9 DEF SampleInv

LEMMA SampleHolds == Spec => []SampleInv
<1>1. QED
  BY SampleInit, SampleStep, TypeCorrect, PTL DEF Spec

(* No anomaly is in two Situations, or in one and a buffer, whichever of   *)
(* the two threads collapses its bucket; each death of the consumer lets   *)
(* one more copy in, if the bus redelivers (engine.py:105,134).            *)
THEOREM NoSampleTwice == Spec => []InOneSituation
<1>1. CorrelationTypeOK /\ SampleInv => InOneSituation
  <2> SUFFICES ASSUME CorrelationTypeOK, SampleInv, NEW i \in 1 .. Len(events)
               PROVE  Copies(i) <= 1 + Again
    BY DEF InOneSituation, Copies, InForms, InBuffers
  <2>1. Copies(i) \in Nat /\ Redone(i) \in {0, 1} /\ Again \in Nat /\ i \in Nat
    BY CopiesType, RangesType DEF Copies, Redone, SampleInv
  <2>2. QED
    BY <2>1 DEF SampleInv, CopiesInv
<1>2. QED
  BY <1>1, SampleHolds, TypeCorrect, PTL

(* Every Situation rests on MinEvents different samples of one bucket, but *)
(* for those that deaths of the consumer made count twice                  *)
(* (engine.py:67-78,146-160).                                              *)
THEOREM IncidentsAreSustained == Spec => []IncidentIsSustained
<1>1. SampleInv => IncidentIsSustained
  BY DEF SampleInv
<1>2. QED
  BY <1>1, SampleHolds, PTL
================================================================================
