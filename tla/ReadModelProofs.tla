---------------------------- MODULE ReadModelProofs ----------------------------
(***************************************************************************)
(* Theorems about ReadModel: its type invariant; that a rebuilt model has  *)
(* missed nothing; that what was replayed agrees; that a waiting console   *)
(* has missed no change; and that a card never goes backwards.             *)
(***************************************************************************)
EXTENDS ReadModel, NaturalsInduction, WellFoundedInduction, TLAPS

------------------------------------------------------------------------------
(* The type invariant in parts, with what it leans on: a topic without a   *)
(* group has nothing pending and no entry in hand, nothing was replayed    *)
(* that is not published, and a process that is down or rebuilding has     *)
(* handed nothing on.                                                      *)
Held == [pc : {"idle", "apply", "notify", "ack"}, id : Ids \cup {None}, drained : BOOLEAN]
View == [pc : {"away", "stale", "waiting"}, current : BOOLEAN,
         queue : 0 .. MaxQueue, coming : 0 .. MaxComing]

StreamOK ==
  /\ settings \in Settings /\ history \in Histories /\ published \in 0 .. Len(history)
  /\ group \in [Topics -> 0 .. published \cup {NoGroup}]
  /\ pending \in [Topics -> SUBSET Ids]
  /\ \A t \in Topics : \A i \in pending[t] :
       Of(t, i) /\ group[t] # NoGroup /\ i <= group[t]
ProcessOK ==
  /\ stage \in {"down", "replay", "offsets", "tail"}
  /\ topic \in 1 .. 4 /\ cursor \in 0 .. published \cup {NoCursor}
  /\ last \in [Topics -> 0 .. published]
  /\ window \in 0 .. published
  /\ base \in [Topics -> 0 .. published \cup {NoGroup}]
  /\ rebuilt \in BOOLEAN /\ (stage # "tail" => ~rebuilt)
ModelOK ==
  /\ cards \in [Situations -> Card \cup {NoCard}]
  /\ outcomes \in Seq(Ids) /\ Len(outcomes) <= MaxOutcomes
  /\ suppressed \in Nat /\ applied \subseteq 1 .. published
  /\ stage = "down" => applied = {}
ThreadOK ==
  /\ thread \in [Topics -> Held] /\ lost \subseteq 1 .. published
  /\ \A t \in Topics :
       IF thread[t].pc = "idle" THEN thread[t].id = None
       ELSE /\ Of(t, thread[t].id) /\ group[t] # NoGroup /\ thread[t].id <= group[t]
            /\ stage = "tail" /\ (thread[t].pc \in {"notify", "ack"} => thread[t].id \in applied)
ViewerOK == viewer \in View /\ faults \in 0 .. MaxFaults
TypeInv == StreamOK /\ ProcessOK /\ ModelOK /\ ThreadOK /\ ViewerOK

(* An entry the group has yet to deliver.                                  *)
Ahead(t, i) == group[t] = NoGroup \/ i > group[t]
Done(t) == \E k \in 1 .. topic - 1 : ReplayOrder[k] = t

(* While the topics are replayed the groups stand where they were found,   *)
(* and each topic has been applied up to the last id read of it; when it   *)
(* has been read to its end, what is left is also ahead of its group.      *)
Left(t) == \A i \in NextOf(t, Base(t)) : i \in applied \/ (i > last[t] /\ Ahead(t, i))
ReplayInv ==
  /\ stage = "replay" =>
       /\ group = base
       /\ cursor # NoCursor => cursor = last[Replaying]
       /\ \A t \in Topics : \A i \in NextOf(t, Base(t)) : i \in applied \/ i > last[t]
       /\ \A t \in Topics : Done(t) => Left(t)
  /\ stage = "offsets" =>
       /\ \A t \in Topics : Left(t)
       /\ \A t \in Topics : Done(t) => group[t] # NoGroup
  /\ stage = "down" => cursor = NoCursor /\ last = NothingReplayed /\ topic = 1
  /\ (stage = "tail" /\ rebuilt) => \A t \in Topics : group[t] # NoGroup

(* No outcome is replayed before every topic that opens a card has been.   *)
Agreed(i) ==
  LET e == history[i] IN
    e.topic = "outcomes" /\ cards[e.sit] # NoCard /\ cards[e.sit].first = e.first =>
      cards[e.sit].status \in Evictable
OrderInv ==
  /\ stage = "replay" => \A i \in applied : \E k \in 1 .. topic : ReplayOrder[k] = history[i].topic
  /\ stage \in {"replay", "offsets"} => \A i \in applied : Agreed(i)

------------------------------------------------------------------------------
(* Lemmas about the operators.                                             *)

LEMMA Bounds ==
  /\ End \in Nat \ {0} /\ MaxOutcomes \in Nat /\ MaxQueue \in Nat \ {0}
  /\ MaxComing \in Nat /\ MaxFaults \in Nat
BY ReadAssumption

(* The lowest id of a set of ids.                                          *)
LEMMA FirstIsLeast ==
  ASSUME NEW S \in SUBSET Nat, S # {}
  PROVE  First(S) \in S /\ \A j \in S : First(S) <= j
<1>1. PICK m \in S : \A y \in S : ~ (<<y, m>> \in OpToRel(<, Nat))
  BY NatLessThanWellFounded, WFMin
<1>2. \A y \in S : m <= y
  <2>1. \A y \in S : ~ (y < m)
    BY <1>1 DEF OpToRel
  <2>2. QED
    BY <2>1
<1>3. QED
  BY <1>2 DEF First

(* What is known of an entry that has been published.                      *)
LEMMA Published ==
  ASSUME StreamOK
  PROVE  /\ published \in Nat /\ published < End
         /\ \A i \in 1 .. published :
              /\ i \in Ids /\ history[i] \in Entry
              /\ history[i].first \in Ids /\ history[i].first <= i
<1>1. history \in Seq(Entry) /\ Len(history) \in Nat /\ Len(history) < End
      /\ \A i \in 1 .. Len(history) : history[i].first \in 1 .. i
  BY ReadAssumption DEF StreamOK
<1>2. published \in Nat /\ published <= Len(history)
  BY <1>1 DEF StreamOK
<1>3. QED
  BY <1>1, <1>2, Bounds DEF Ids

LEMMA NextOfType ==
  ASSUME StreamOK, NEW t \in Topics, NEW i \in Nat, NextOf(t, i) # {}
  PROVE  /\ First(NextOf(t, i)) \in 1 .. published /\ Of(t, First(NextOf(t, i)))
         /\ First(NextOf(t, i)) > i
         /\ \A j \in NextOf(t, i) : First(NextOf(t, i)) <= j
<1>1. published \in Nat
  BY Published
<1>2. NextOf(t, i) \in SUBSET Nat /\ \A j \in NextOf(t, i) : j \in 1 .. published /\ j > i /\ Of(t, j)
  BY <1>1 DEF NextOf
<1>3. First(NextOf(t, i)) \in NextOf(t, i) /\ \A j \in NextOf(t, i) : First(NextOf(t, i)) <= j
  BY <1>2, FirstIsLeast
<1>4. QED
  BY <1>2, <1>3

LEMMA ReplayOrderType ==
  ASSUME NEW k \in 1 .. 4
  PROVE  Len(ReplayOrder) = 4 /\ ReplayOrder[k] \in Topics
         /\ (ReplayOrder[k] = "outcomes" <=> k = 4)
BY DEF ReplayOrder, Topics

LEMMA EveryTopic ==
  ASSUME NEW t \in Topics PROVE \E k \in 1 .. 4 : ReplayOrder[k] = t
<1>1. /\ ReplayOrder[1] = "detected" /\ ReplayOrder[2] = "diagnosed"
      /\ ReplayOrder[3] = "suppressed" /\ ReplayOrder[4] = "outcomes"
  BY DEF ReplayOrder
<1>2. t \in {"detected", "diagnosed", "outcomes", "suppressed"}
  BY DEF Topics
<1>3. QED
  BY <1>1, <1>2

(* The cards an entry may leave.                                           *)
LEMMA CardType ==
  ASSUME TypeInv, NEW i \in 1 .. published
  PROVE  LET e == history[i] IN
         /\ e.sit \in Situations /\ e.topic \in Topics /\ e.first \in Ids
         /\ e.topic \in {"detected", "diagnosed"} => Folded(e) \in Card /\ Diagnosed(e) \in Card
         /\ Closed(e, i) \in Card \cup {NoCard}
<1> DEFINE e == history[i]
           c == cards[e.sit]
           x == Existing(e)
<1>1. e \in Entry /\ e.first \in Ids /\ i \in Ids
  BY Published DEF TypeInv
<1>2. e.sit \in Situations /\ e.topic \in Topics /\ e.first \in Ids /\ e.result \in Results
  BY <1>1 DEF Entry
<1>3. c \in Card \cup {NoCard}
  BY <1>2 DEF TypeInv, ModelOK
<1>4. Blank(e.first) \in Card
  BY <1>1 DEF Blank, Card, Statuses
<1>5. x \in Card
  BY <1>3, <1>4 DEF Existing
<1>6. Folded(e) \in Card
  <2> DEFINE st == IF x.first = e.first THEN x.status ELSE "detected"
             y == [x EXCEPT !.first = e.first]
  <2>1. y \in Card /\ y.status = x.status /\ st \in Statuses
    BY <1>1, <1>5 DEF Card, Statuses
  <2>2. Folded(e) = [y EXCEPT !.status = st]
    BY <1>5 DEF Folded, Card
  <2> HIDE DEF y, st
  <2>3. QED
    BY <2>1, <2>2 DEF Card
<1>7. Diagnosed(e) \in Card
  <2> DEFINE f == Folded(e)
             st == IF f.status = "detected" THEN "diagnosed" ELSE f.status
             y == [f EXCEPT !.hyps = e.first]
  <2> HIDE DEF f
  <2>1. y \in Card /\ y.status = f.status /\ st \in Statuses
    BY <1>1, <1>6 DEF Card, Statuses, f
  <2>2. Diagnosed(e) = [y EXCEPT !.status = st]
    BY <1>6 DEF Diagnosed, Card, f
  <2> HIDE DEF y, st
  <2>3. QED
    BY <2>1, <2>2 DEF Card
<1>8. Closed(e, i) \in Card \cup {NoCard}
  <2>1. CASE c = NoCard
    BY <2>1 DEF Closed
  <2>2. CASE c # NoCard
    <3> DEFINE y == [c EXCEPT !.status = StatusOf(e.result)]
               z == [y EXCEPT !.activity = i]
    <3>1. StatusOf(e.result) \in Statuses
      BY DEF StatusOf, Statuses
    <3>2. c \in Card
      BY <1>3, <2>2
    <3>3. y \in Card
      BY <3>1, <3>2 DEF Card
    <3>4. Closed(e, i) = [[[c EXCEPT !.status = StatusOf(e.result)] EXCEPT !.activity = i]
                             EXCEPT !.outcome = e.first]
      BY <2>2 DEF Closed
    <3>5. z \in Card
      <4> HIDE DEF y
      <4>1. QED
        BY <1>1, <3>3 DEF Card
    <3>6. [z EXCEPT !.outcome = e.first] \in Card
      <4> HIDE DEF z
      <4>1. QED
        BY <1>1, <3>5 DEF Card
    <3>7. QED
      BY <3>4, <3>6
  <2>3. QED
    BY <2>1, <2>2
<1>9. QED
  BY <1>2, <1>6, <1>7, <1>8

LEMMA NewestType ==
  ASSUME NEW s \in Seq(Ids)
  PROVE  Newest(s) \in Seq(Ids) /\ Len(Newest(s)) <= MaxOutcomes
<1>1. Len(s) \in Nat /\ MaxOutcomes \in Nat
  BY Bounds
<1>2. CASE Len(s) > MaxOutcomes
  <2>1. SubSeq(s, 1, MaxOutcomes) \in Seq(Ids) /\ Len(SubSeq(s, 1, MaxOutcomes)) = MaxOutcomes
    BY <1>1, <1>2
  <2>2. QED
    BY <1>1, <1>2, <2>1 DEF Newest
<1>3. CASE ~(Len(s) > MaxOutcomes)
  BY <1>1, <1>3 DEF Newest
<1>4. QED
  BY <1>2, <1>3

(* What one entry does to the model: its card, and no other.               *)
LEMMA ApplyEffect ==
  ASSUME TypeInv, NEW i \in 1 .. published, Apply(i)
  PROVE  /\ cards' \in [Situations -> Card \cup {NoCard}]
         /\ outcomes' \in Seq(Ids) /\ Len(outcomes') <= MaxOutcomes /\ suppressed' \in Nat
         /\ applied' = applied \cup {i}
         /\ \A s \in Situations : s # history[i].sit => cards'[s] = cards[s]
         /\ LET e == history[i]
                s == history[i].sit
            IN \/ cards'[s] = cards[s]
               \/ Applies(i) /\ e.topic = "detected" /\ cards'[s] = Folded(e)
               \/ Applies(i) /\ e.topic = "diagnosed" /\ cards'[s] = Diagnosed(e)
               \/ e.topic = "outcomes" /\ cards'[s] = Closed(e, i)
<1> DEFINE e == history[i]
           s == history[i].sit
<1>1. /\ s \in Situations /\ i \in Ids
      /\ e.topic \in {"detected", "diagnosed"} => Folded(e) \in Card /\ Diagnosed(e) \in Card
      /\ Closed(e, i) \in Card \cup {NoCard}
  BY CardType, Published DEF TypeInv
<1>2. /\ cards \in [Situations -> Card \cup {NoCard}] /\ outcomes \in Seq(Ids)
      /\ Len(outcomes) <= MaxOutcomes /\ suppressed \in Nat
  BY DEF TypeInv, ModelOK
<1>3. <<i>> \o outcomes \in Seq(Ids)
  BY <1>1, <1>2
<1>4. Newest(<<i>> \o outcomes) \in Seq(Ids) /\ Len(Newest(<<i>> \o outcomes)) <= MaxOutcomes
  BY <1>3, NewestType
<1>5. applied' = applied \cup {i}
  BY DEF Apply
<1>6. \/ UNCHANGED <<cards, outcomes>> /\ suppressed' \in {suppressed, suppressed + 1}
      \/ /\ Applies(i) /\ e.topic = "detected" /\ UNCHANGED <<outcomes, suppressed>>
         /\ cards' = [cards EXCEPT ![s] = Folded(e)]
      \/ /\ Applies(i) /\ e.topic = "diagnosed" /\ UNCHANGED <<outcomes, suppressed>>
         /\ cards' = [cards EXCEPT ![s] = Diagnosed(e)]
      \/ /\ e.topic = "outcomes" /\ UNCHANGED suppressed
         /\ cards' = [cards EXCEPT ![s] = Closed(e, i)]
         /\ outcomes' = Newest(<<i>> \o outcomes)
  BY DEF Apply
<1> HIDE DEF e, s
<1>7. CASE UNCHANGED <<cards, outcomes>> /\ suppressed' \in {suppressed, suppressed + 1}
  BY <1>2, <1>5, <1>7 DEF s
<1>8. CASE /\ Applies(i) /\ e.topic = "detected" /\ UNCHANGED <<outcomes, suppressed>>
           /\ cards' = [cards EXCEPT ![s] = Folded(e)]
  BY <1>1, <1>2, <1>5, <1>8 DEF e, s
<1>9. CASE /\ Applies(i) /\ e.topic = "diagnosed" /\ UNCHANGED <<outcomes, suppressed>>
           /\ cards' = [cards EXCEPT ![s] = Diagnosed(e)]
  BY <1>1, <1>2, <1>5, <1>9 DEF e, s
<1>10. CASE /\ e.topic = "outcomes" /\ UNCHANGED suppressed
            /\ cards' = [cards EXCEPT ![s] = Closed(e, i)]
            /\ outcomes' = Newest(<<i>> \o outcomes)
  BY <1>1, <1>2, <1>4, <1>5, <1>10 DEF e, s
<1>11. QED
  BY <1>6, <1>7, <1>8, <1>9, <1>10

------------------------------------------------------------------------------
(* The type invariant.                                                     *)

LEMMA TypeInit == Init => TypeInv
<1> SUFFICES ASSUME Init PROVE TypeInv
  OBVIOUS
<1>0. /\ 0 \in 0 .. MaxQueue /\ 0 \in 0 .. MaxComing /\ 0 \in 0 .. MaxFaults
      /\ 0 <= MaxOutcomes /\ End \in Nat
  BY Bounds
<1>1. /\ settings \in Settings /\ history \in Histories /\ published = 0
      /\ Len(history) \in Nat
  BY ReadAssumption DEF Init
<1>2. StreamOK
  <2>1. group = NoGroups /\ pending = [t \in Topics |-> {}]
    BY DEF Init
  <2>2. published \in 0 .. Len(history)
    BY <1>1
  <2>3. group \in [Topics -> 0 .. published \cup {NoGroup}] /\ pending \in [Topics -> SUBSET Ids]
        /\ \A t \in Topics : pending[t] = {}
    BY <2>1 DEF NoGroups
  <2>4. QED
    BY <1>1, <2>2, <2>3 DEF StreamOK
<1>3. ProcessOK
  <2>1. /\ stage = "down" /\ topic = 1 /\ cursor = NoCursor /\ last = [t \in Topics |-> 0]
        /\ window = 0 /\ base = [t \in Topics |-> NoGroup] /\ rebuilt = FALSE
    BY DEF Init, NothingReplayed, NoGroups, None
  <2>2. 0 \in 0 .. published
    BY <1>1
  <2>3. last \in [Topics -> 0 .. published] /\ base \in [Topics -> 0 .. published \cup {NoGroup}]
    BY <2>1, <2>2
  <2>4. topic \in 1 .. 4 /\ window \in 0 .. published
    BY <2>1, <2>2
  <2>5. QED
    BY ONLY <2>1, <2>3, <2>4, Zenon DEF ProcessOK
<1>4. ModelOK
  <2>1. <<>> \in Seq(Ids) /\ Len(<<>>) = 0
    OBVIOUS
  <2>2. cards = [s \in Situations |-> NoCard] /\ outcomes = <<>> /\ suppressed = 0 /\ applied = {}
    BY DEF Init
  <2>3. QED
    BY <1>0, <2>1, <2>2 DEF ModelOK
<1>5. ThreadOK
  <2>1. Idle \in Held
    BY DEF Idle, Held
  <2>2. thread = [t \in Topics |-> Idle] /\ lost = {}
    BY DEF Init
  <2>3. QED
    BY <2>1, <2>2 DEF ThreadOK, Idle
<1>6. ViewerOK
  BY <1>0 DEF Init, ViewerOK, View, Away
<1>7. QED
  BY <1>2, <1>3, <1>4, <1>5, <1>6 DEF TypeInv

LEMMA FaultType == ASSUME TypeInv, Fault \/ UNCHANGED faults PROVE faults' \in 0 .. MaxFaults
BY Bounds DEF Fault, TypeInv, ViewerOK

(* The streams move on: what a step may do to the groups.                  *)
LEMMA TypePublish == ASSUME TypeInv, Publish PROVE TypeInv'
<1> USE DEF Publish, process, model
<1>1. published \in Nat /\ published' = published + 1 /\ published' \in 0 .. Len(history)
  <2>1. Len(history) \in Nat
    BY ReadAssumption DEF TypeInv, StreamOK
  <2>2. QED
    BY <2>1 DEF TypeInv, StreamOK
<1>2. 0 .. published \subseteq 0 .. published' /\ 1 .. published \subseteq 1 .. published'
  BY <1>1
<1>3. \A t, i : Of(t, i) => Of(t, i)'
  BY <1>2 DEF Of
<1>4. StreamOK'
  BY <1>1, <1>2, <1>3 DEF TypeInv, StreamOK
<1>5. ProcessOK'
  BY <1>2 DEF TypeInv, ProcessOK
<1>6. ModelOK'
  BY <1>2 DEF TypeInv, ModelOK
<1>7. ThreadOK'
  BY <1>2, <1>3 DEF TypeInv, ThreadOK
<1>8. QED
  BY <1>4, <1>5, <1>6, <1>7 DEF TypeInv, ViewerOK

LEMMA TypeStart == ASSUME TypeInv, Start PROVE TypeInv'
<1> USE DEF Start, stream, model
<1>1. StreamOK' /\ ModelOK' /\ ViewerOK'
  BY DEF TypeInv, StreamOK, ModelOK, ViewerOK, Of
<1>2. ProcessOK'
  BY DEF TypeInv, ProcessOK, StreamOK
<1>3. ThreadOK'
  BY DEF TypeInv, ThreadOK, Of
<1>4. QED
  BY <1>1, <1>2, <1>3 DEF TypeInv

LEMMA EmptiedType == ASSUME Emptied, UNCHANGED published PROVE ModelOK'
<1>1. <<>> \in Seq(Ids) /\ Len(<<>>) = 0 /\ 0 <= MaxOutcomes
  BY Bounds
<1>2. QED
  BY <1>1 DEF Emptied, ModelOK

LEMMA ColdStartType ==
  ASSUME TypeInv, ColdStart, UNCHANGED published PROVE ProcessOK' /\ ModelOK'
<1>1. 0 \in 0 .. published /\ 1 \in 1 .. 4
  BY Published DEF TypeInv
<1>2. last' \in [Topics -> 0 .. published] /\ base' \in [Topics -> 0 .. published \cup {NoGroup}]
  BY <1>1 DEF ColdStart, NothingReplayed, NoGroups, None
<1>3. ProcessOK'
  BY <1>1, <1>2 DEF ColdStart, TypeInv, ProcessOK
<1>4. ModelOK'
  BY EmptiedType DEF ColdStart
<1>5. QED
  BY <1>3, <1>4

(* Before the threads run, none has an entry in hand.                      *)
LEMMA ThreadsRest ==
  ASSUME TypeInv, stage # "tail", UNCHANGED <<thread, lost>>, published' = published
  PROVE  ThreadOK'
BY DEF TypeInv, ThreadOK

LEMMA StreamRests == ASSUME TypeInv, UNCHANGED <<settings, stream>> PROVE StreamOK'
BY DEF TypeInv, StreamOK, stream, Of

(* The entry the rebuild reads next.                                       *)
LEMMA ReplayNextEntry ==
  ASSUME TypeInv, stage = "replay", NextOf(Replaying, At) # {}
  PROVE  LET i == First(NextOf(Replaying, At)) IN
         /\ i \in 1 .. published /\ Of(Replaying, i) /\ i > At
         /\ \A j \in NextOf(Replaying, At) : i <= j
<1>1. Replaying \in Topics
  BY ReplayOrderType DEF Replaying, TypeInv, ProcessOK
<1>2. published \in Nat
  BY Published DEF TypeInv
<1>3. At \in Nat
  <2>1. cursor # NoCursor => cursor \in Nat
    BY <1>2 DEF TypeInv, ProcessOK
  <2>2. window \in Nat
    BY <1>2 DEF TypeInv, ProcessOK
  <2>3. group[Replaying] \in Nat
    BY <1>1, <1>2, Bounds DEF TypeInv, StreamOK, NoGroup
  <2>4. QED
    BY <2>1, <2>2, <2>3 DEF At, From
<1>4. QED
  BY <1>1, <1>3, NextOfType DEF TypeInv

LEMMA TypeReplayEntry == ASSUME TypeInv, ReplayEntry PROVE TypeInv'
<1> DEFINE i == First(NextOf(Replaying, At))
<1>1. /\ stage = "replay" /\ i \in 1 .. published
      /\ UNCHANGED <<settings, stream, thread, lost, viewer, faults>>
  BY ReplayNextEntry DEF ReplayEntry
<1>2. StreamOK' /\ ThreadOK' /\ ViewerOK'
  BY <1>1, StreamRests, ThreadsRest DEF stream, TypeInv, ViewerOK
<1>3. CASE ColdStart
  BY <1>1, <1>2, <1>3, ColdStartType DEF TypeInv, stream
<1>4. CASE /\ Apply(i) /\ cursor' = i /\ last' = [last EXCEPT ![Replaying] = i]
           /\ UNCHANGED <<stage, topic, window, base, rebuilt>>
  <2> HIDE DEF i
  <2>1. ModelOK'
    BY <1>1, <1>4, ApplyEffect DEF TypeInv, ModelOK, stream
  <2>2. i \in 0 .. published
    BY <1>1, Published DEF TypeInv
  <2>3. ProcessOK'
    BY <1>1, <1>4, <2>2 DEF TypeInv, ProcessOK, stream
  <2>4. QED
    BY <1>2, <2>1, <2>3 DEF TypeInv
<1>5. QED
  BY <1>3, <1>4 DEF ReplayEntry

LEMMA TypeReplayNext == ASSUME TypeInv, ReplayNext PROVE TypeInv'
<1>1. StreamOK' /\ ThreadOK' /\ ViewerOK'
  BY StreamRests, ThreadsRest DEF ReplayNext, stream, TypeInv, ViewerOK
<1>2. ModelOK'
  BY DEF ReplayNext, model, stream, TypeInv, ModelOK
<1>3. topic' \in 1 .. 4 /\ stage' \in {"replay", "offsets"} /\ cursor' = NoCursor
  <2>1. Len(ReplayOrder) = 4
    BY DEF ReplayOrder
  <2>2. QED
    BY <2>1 DEF ReplayNext, TypeInv, ProcessOK
<1>4. ProcessOK'
  BY <1>3 DEF ReplayNext, stream, TypeInv, ProcessOK
<1>5. QED
  BY <1>1, <1>2, <1>4 DEF TypeInv

(* Where a group ends up when the rebuild owns its offset.                 *)
LEMMA OwnedType ==
  ASSUME TypeInv, NEW t \in Topics
  PROVE  /\ Owned(t) \in 0 .. published /\ Ensured(t) \in 0 .. published
         /\ Owned(t) >= last[t]
         /\ group[t] # NoGroup => Owned(t) >= group[t] /\ Ensured(t) = group[t]
<1>1. published \in Nat /\ last[t] \in 0 .. published /\ group[t] \in 0 .. published \cup {NoGroup}
  BY Published DEF TypeInv, ProcessOK, StreamOK
<1>2. QED
  BY <1>1 DEF Owned, Ensured

LEMMA TypeOwnOffsets == ASSUME TypeInv, OwnOffsets PROVE TypeInv'
<1> DEFINE r == Replaying
<1>1. r \in Topics /\ stage = "offsets" /\ UNCHANGED <<settings, history, published, thread, lost>>
  BY ReplayOrderType DEF OwnOffsets, Replaying, TypeInv, ProcessOK
<1>2. group' = [group EXCEPT ![r] = Owned(r)] /\ pending' = [pending EXCEPT ![r] = {}]
  BY DEF OwnOffsets
<1>3. Owned(r) \in 0 .. published
  BY <1>1, OwnedType
<1> HIDE DEF r
<1>4. StreamOK'
  <2>1. group' \in [Topics -> 0 .. published \cup {NoGroup}]
        /\ pending' \in [Topics -> SUBSET Ids]
    BY <1>1, <1>2, <1>3 DEF TypeInv, StreamOK
  <2>2. \A t \in Topics : \A i \in pending'[t] :
          t # r /\ group'[t] = group[t] /\ i \in pending[t] /\ (Of(t, i)' <=> Of(t, i))
    BY <1>1, <1>2 DEF TypeInv, StreamOK, Of
  <2>3. QED
    BY <1>1, <2>1, <2>2 DEF TypeInv, StreamOK
<1>5. ThreadOK' /\ ViewerOK'
  BY <1>1, ThreadsRest DEF OwnOffsets, TypeInv, ViewerOK
<1>6. stage' \in {"offsets", "tail"} /\ topic' \in 1 .. 4
  <2>1. Len(ReplayOrder) = 4
    BY DEF ReplayOrder
  <2>2. QED
    BY <2>1 DEF OwnOffsets, TypeInv, ProcessOK
<1>7. ModelOK'
  BY <1>1, <1>6 DEF OwnOffsets, model, TypeInv, ModelOK
<1>8. last' \in [Topics -> 0 .. published] /\ rebuilt' \in BOOLEAN /\ (stage' # "tail" => ~rebuilt')
  <2>1. 0 \in 0 .. published
    BY Published DEF TypeInv
  <2>2. QED
    BY <1>1, <2>1 DEF OwnOffsets, NothingReplayed, None, TypeInv, ProcessOK
<1>9. ProcessOK'
  BY <1>1, <1>6, <1>8 DEF OwnOffsets, TypeInv, ProcessOK
<1>10. QED
  BY <1>4, <1>5, <1>7, <1>9 DEF TypeInv

LEMMA TypeRebuildFails == ASSUME TypeInv, RebuildFails PROVE TypeInv'
<1> DEFINE r == Replaying
<1>1. r \in Topics /\ stage # "tail"
      /\ UNCHANGED <<settings, history, published, pending, thread, lost, viewer>>
      /\ ColdStart /\ Fault
  BY ReplayOrderType DEF RebuildFails, Replaying, TypeInv, ProcessOK
<1>2. ProcessOK' /\ ModelOK' /\ ThreadOK' /\ ViewerOK'
  BY <1>1, ColdStartType, ThreadsRest, FaultType DEF TypeInv, ViewerOK
<1>3. group' = group \/ group' = [group EXCEPT ![r] = Ensured(r)]
      \/ group' = [group EXCEPT ![r] = Owned(r)]
  BY DEF RebuildFails
<1>4. /\ Owned(r) \in 0 .. published /\ Ensured(r) \in 0 .. published
      /\ group[r] # NoGroup => Owned(r) >= group[r] /\ Ensured(r) = group[r]
      /\ published \in Nat /\ published < End
  BY <1>1, OwnedType, Published DEF TypeInv
<1> HIDE DEF r
<1>5. group' \in [Topics -> 0 .. published \cup {NoGroup}]
  BY <1>1, <1>3, <1>4 DEF TypeInv, StreamOK
<1>6. \A t \in Topics : /\ group[t] \in 0 .. published \cup {NoGroup}
                        /\ group[t] # NoGroup => group'[t] # NoGroup /\ group'[t] >= group[t]
                                                /\ group'[t] \in Nat
  BY <1>1, <1>3, <1>4 DEF TypeInv, StreamOK, NoGroup
<1>7. \A t \in Topics : \A i \in pending[t] :
        Of(t, i)' /\ group'[t] # NoGroup /\ i <= group'[t]
  <2> SUFFICES ASSUME NEW t \in Topics, NEW i \in pending[t]
               PROVE  Of(t, i)' /\ group'[t] # NoGroup /\ i <= group'[t]
    OBVIOUS
  <2>1. Of(t, i) /\ group[t] # NoGroup /\ i <= group[t]
    BY DEF TypeInv, StreamOK
  <2>2. i \in Nat /\ group[t] \in Nat
    BY <1>4, <1>6, <2>1 DEF Of
  <2>3. QED
    BY <1>1, <1>6, <2>1, <2>2 DEF Of
<1>8. StreamOK'
  BY <1>1, <1>5, <1>7 DEF TypeInv, StreamOK
<1>9. QED
  BY <1>2, <1>8 DEF TypeInv

(* A group that moves forward keeps what the threads and the pending lists *)
(* say of it.                                                              *)
LEMMA ThreadMoves ==
  ASSUME TypeInv, NEW t \in Topics, NEW r \in Held, stage = "tail", UNCHANGED stage,
         UNCHANGED <<history, published>>, thread' = [thread EXCEPT ![t] = r],
         lost' \subseteq 1 .. published, applied \subseteq applied',
         \A u \in Topics : u # t => group'[u] = group[u],
         IF r.pc = "idle" THEN r.id = None
         ELSE /\ Of(t, r.id) /\ group'[t] # NoGroup /\ r.id <= group'[t]
              /\ (r.pc \in {"notify", "ack"} => r.id \in applied')
  PROVE  ThreadOK'
<1>1. thread' \in [Topics -> Held] /\ thread'[t] = r
      /\ \A u \in Topics : u # t => thread'[u] = thread[u]
  BY DEF TypeInv, ThreadOK
<1>2. ASSUME NEW u \in Topics
      PROVE  (IF thread[u].pc = "idle" THEN thread[u].id = None
              ELSE /\ Of(u, thread[u].id) /\ group[u] # NoGroup /\ thread[u].id <= group[u]
                   /\ stage = "tail"
                   /\ (thread[u].pc \in {"notify", "ack"} => thread[u].id \in applied))'
  <2>1. CASE u = t
    BY <1>1, <2>1 DEF Of
  <2>2. CASE u # t
    BY <1>1, <2>2 DEF TypeInv, ThreadOK, Of
  <2>3. QED
    BY <2>1, <2>2
<1>3. QED
  BY <1>1, <1>2 DEF ThreadOK

LEMMA TypeEnsureGroup ==
  ASSUME TypeInv, NEW t \in Topics, EnsureGroup(t) PROVE TypeInv'
<1>1. /\ stage = "tail" /\ group[t] = NoGroup /\ group' = [group EXCEPT ![t] = 0]
      /\ UNCHANGED <<settings, history, published, pending, process, model, thread, lost, viewer, faults>>
  BY DEF EnsureGroup
<1>2. StreamOK'
  <2>1. 0 \in 0 .. published
    BY Published DEF TypeInv
  <2>2. group' \in [Topics -> 0 .. published \cup {NoGroup}]
    BY <1>1, <2>1 DEF TypeInv, StreamOK
  <2>3. \A u \in Topics : \A i \in pending[u] : u # t /\ group'[u] = group[u]
    BY <1>1 DEF TypeInv, StreamOK
  <2>4. QED
    BY <1>1, <2>2, <2>3 DEF TypeInv, StreamOK, Of
<1>3. ThreadOK'
  BY <1>1 DEF TypeInv, StreamOK, ThreadOK, Of, process, model
<1>4. QED
  BY <1>1, <1>2, <1>3 DEF TypeInv, ProcessOK, ModelOK, ViewerOK, process, model

LEMMA TypeReadPending ==
  ASSUME TypeInv, NEW t \in Topics, ReadPending(t) PROVE TypeInv'
<1> DEFINE i == First(ToDrain(t))
           r == [pc |-> "apply", id |-> i, drained |-> TRUE]
<1>1. /\ stage = "tail" /\ thread' = [thread EXCEPT ![t] = r]
      /\ UNCHANGED <<settings, stream, process, model, lost, viewer, faults>>
  BY DEF ReadPending, Reading
<1>2. i \in pending[t]
  <2>1. pending[t] \in SUBSET Ids /\ ToDrain(t) # {}
    BY DEF ReadPending, TypeInv, StreamOK
  <2>2. ToDrain(t) \in SUBSET Nat /\ ToDrain(t) \subseteq pending[t]
    BY <2>1, Bounds DEF ToDrain, Ids
  <2>3. QED
    BY <2>1, <2>2, FirstIsLeast
<1>3. i \in Ids /\ Of(t, i) /\ group[t] # NoGroup /\ i <= group[t]
  BY <1>2 DEF TypeInv, StreamOK
<1> HIDE DEF i
<1>4. r \in Held /\ r.pc = "apply" /\ r.id = i
  BY <1>3 DEF Held
<1> HIDE DEF r
<1>5. lost' \subseteq 1 .. published /\ applied' = applied /\ stage' = stage
      /\ UNCHANGED <<history, published, group>>
  BY <1>1 DEF TypeInv, ThreadOK, process, model, stream
<1>6. ThreadOK'
  BY <1>1, <1>3, <1>4, <1>5, ThreadMoves
<1>7. QED
  BY <1>1, <1>6, StreamRests DEF TypeInv, ProcessOK, ModelOK, ViewerOK, process, model, stream

(* The entry a thread reads next, and what its delivery does.              *)
LEMMA DeliveredType ==
  ASSUME TypeInv, NEW t \in Topics, Reading(t), NextOf(t, group[t]) # {},
         Delivered(t, First(NextOf(t, group[t]))), UNCHANGED <<settings, history, published>>
  PROVE  LET i == First(NextOf(t, group[t])) IN
         /\ i \in 1 .. published /\ i \in Ids /\ Of(t, i) /\ i > group[t]
         /\ \A j \in NextOf(t, group[t]) : i <= j
         /\ group'[t] = i /\ group'[t] # NoGroup
         /\ \A u \in Topics : u # t => group'[u] = group[u]
         /\ \A u \in Topics : /\ pending[u] \subseteq pending'[u]
                              /\ AtLeastOnce /\ u = t => i \in pending'[u]
         /\ StreamOK'
<1> DEFINE i == First(NextOf(t, group[t]))
<1>1. published \in Nat /\ published < End /\ group[t] \in 0 .. published /\ group[t] # NoGroup
  BY Published DEF TypeInv, StreamOK, Reading
<1>2. i \in 1 .. published /\ Of(t, i) /\ i > group[t] /\ \A j \in NextOf(t, group[t]) : i <= j
  BY <1>1, NextOfType DEF TypeInv
<1>3. i \in Ids
  BY <1>2, Published DEF TypeInv
<1>4. /\ group' = [group EXCEPT ![t] = i]
      /\ pending' = IF AtLeastOnce THEN [pending EXCEPT ![t] = @ \cup {i}] ELSE pending
  BY DEF Delivered
<1> HIDE DEF i
<1>5. /\ group' \in [Topics -> 0 .. published \cup {NoGroup}] /\ group'[t] = i
      /\ \A u \in Topics : u # t => group'[u] = group[u]
  BY <1>1, <1>2, <1>4 DEF TypeInv, StreamOK
<1>6. i # NoGroup
  BY <1>1, <1>2 DEF NoGroup
<1>7. /\ pending' \in [Topics -> SUBSET Ids]
      /\ \A u \in Topics : /\ pending[u] \subseteq pending'[u]
                           /\ pending'[u] \subseteq (pending[u] \cup (IF u = t THEN {i} ELSE {}))
      /\ AtLeastOnce => i \in pending'[t]
  BY <1>3, <1>4 DEF TypeInv, StreamOK
<1>8. \A u \in Topics : \A j \in pending'[u] :
        Of(u, j)' /\ group'[u] # NoGroup /\ j <= group'[u]
  <2> SUFFICES ASSUME NEW u \in Topics, NEW j \in pending'[u]
               PROVE  Of(u, j)' /\ group'[u] # NoGroup /\ j <= group'[u]
    OBVIOUS
  <2>1. CASE j \in pending[u]
    <3>1. Of(u, j) /\ group[u] # NoGroup /\ j <= group[u] /\ j \in Nat
      BY <1>1, <2>1 DEF TypeInv, StreamOK, Of
    <3>2. QED
      BY <1>1, <1>2, <1>5, <1>6, <3>1 DEF Of
  <2>2. CASE u = t /\ j = i
    BY <1>1, <1>2, <1>5, <1>6, <2>2 DEF Of
  <2>3. QED
    BY <1>7, <2>1, <2>2
<1>9. StreamOK'
  BY <1>5, <1>7, <1>8 DEF TypeInv, StreamOK
<1>10. QED
  BY <1>2, <1>3, <1>5, <1>6, <1>7, <1>9 DEF i

LEMMA TypeReadNew == ASSUME TypeInv, NEW t \in Topics, ReadNew(t) PROVE TypeInv'
<1> DEFINE i == First(NextOf(t, group[t]))
           r == [pc |-> "apply", id |-> i, drained |-> TRUE]
<1>1. /\ Reading(t) /\ NextOf(t, group[t]) # {} /\ Delivered(t, i)
      /\ thread' = [thread EXCEPT ![t] = r]
      /\ UNCHANGED <<settings, history, published, process, model, lost, viewer, faults>>
  BY DEF ReadNew
<1>2. /\ i \in Ids /\ Of(t, i) /\ group'[t] = i /\ group'[t] # NoGroup /\ StreamOK'
      /\ \A u \in Topics : u # t => group'[u] = group[u]
  BY <1>1, DeliveredType
<1> HIDE DEF i
<1>3. r \in Held /\ r.pc = "apply" /\ r.id = i /\ i <= i
  BY <1>2, Bounds DEF Held, Ids
<1> HIDE DEF r
<1>4. ThreadOK'
  BY <1>1, <1>2, <1>3, ThreadMoves DEF TypeInv, ThreadOK, Reading, process, model
<1>5. QED
  BY <1>1, <1>2, <1>4 DEF TypeInv, ProcessOK, ModelOK, ViewerOK, process, model

LEMMA IdleHeld == Idle \in Held /\ Idle.pc = "idle" /\ Idle.id = None
BY DEF Idle, Held

LEMMA TypeLoseReadReply ==
  ASSUME TypeInv, NEW t \in Topics, LoseReadReply(t) PROVE TypeInv'
<1> DEFINE i == First(NextOf(t, group[t]))
<1>1. /\ Reading(t) /\ NextOf(t, group[t]) # {} /\ Delivered(t, i) /\ Fault
      /\ thread' = [thread EXCEPT ![t] = Idle]
      /\ lost' = (IF AtLeastOnce THEN lost ELSE lost \cup {i})
      /\ UNCHANGED <<settings, history, published, process, model, viewer>>
  BY DEF LoseReadReply
<1>2. /\ i \in 1 .. published /\ StreamOK' /\ \A u \in Topics : u # t => group'[u] = group[u]
  BY <1>1, DeliveredType
<1> HIDE DEF i
<1>3. lost' \subseteq 1 .. published
  BY <1>1, <1>2 DEF TypeInv, ThreadOK
<1>4. ThreadOK'
  BY <1>1, <1>2, <1>3, IdleHeld, ThreadMoves DEF Reading, process, model
<1>5. QED
  BY <1>1, <1>2, <1>4, FaultType DEF TypeInv, ProcessOK, ModelOK, ViewerOK, process, model

(* What a thread is left with once its entry is handled.                   *)
LEMMA HandledType ==
  ASSUME TypeInv, NEW t \in Topics, thread[t].pc # "idle", thread' = Handled(t)
  PROVE  \E r \in Held : /\ thread' = [thread EXCEPT ![t] = r]
                         /\ \/ r.pc = "idle" /\ r.id = None /\ ~AtLeastOnce
                            \/ r.pc = "ack" /\ r.id = thread[t].id
<1>1. thread[t] \in Held
  BY DEF TypeInv, ThreadOK
<1>2. CASE AtLeastOnce
  <2> DEFINE r == [thread[t] EXCEPT !.pc = "ack"]
  <2>1. r \in Held /\ r.pc = "ack" /\ r.id = thread[t].id
    BY <1>1 DEF Held
  <2>2. thread' = [thread EXCEPT ![t] = r]
    BY <1>2 DEF Handled
  <2> HIDE DEF r
  <2>3. QED
    BY <2>1, <2>2
<1>3. CASE ~AtLeastOnce
  <2> DEFINE r == [pc |-> "idle", id |-> None, drained |-> TRUE]
  <2>1. r \in Held /\ r.pc = "idle" /\ r.id = None
    BY DEF Held
  <2>2. thread' = [thread EXCEPT ![t] = r]
    BY <1>3 DEF Handled
  <2> HIDE DEF r
  <2>3. QED
    BY <1>3, <2>1, <2>2
<1>4. QED
  BY <1>2, <1>3

(* The entry in a thread's hand.                                           *)
LEMMA HandType ==
  ASSUME TypeInv, NEW t \in Topics, thread[t].pc # "idle"
  PROVE  /\ thread[t] \in Held /\ thread[t].id \in 1 .. published /\ Of(t, thread[t].id)
         /\ group[t] # NoGroup /\ thread[t].id <= group[t] /\ stage = "tail"
         /\ thread[t].pc \in {"notify", "ack"} => thread[t].id \in applied
BY DEF TypeInv, ThreadOK, Of

LEMMA TypeApplyEntry ==
  ASSUME TypeInv, NEW t \in Topics, ApplyEntry(t) PROVE TypeInv'
<1> DEFINE i == thread[t].id
<1>1. /\ thread[t].pc = "apply" /\ Apply(i)
      /\ UNCHANGED <<settings, stream, process, lost, faults>>
      /\ thread' = [thread EXCEPT ![t].pc = "notify"] \/ thread' = Handled(t)
      /\ viewer' = [viewer EXCEPT !.current = FALSE] \/ viewer' = viewer
  BY DEF ApplyEntry
<1>2. /\ thread[t] \in Held /\ i \in 1 .. published /\ Of(t, i) /\ group[t] # NoGroup
      /\ i <= group[t] /\ stage = "tail"
  BY <1>1, HandType
<1>3. ModelOK' /\ applied' = applied \cup {i}
  BY <1>1, <1>2, ApplyEffect DEF TypeInv, ModelOK, stream, process
<1>4. PICK r \in Held : /\ thread' = [thread EXCEPT ![t] = r]
                        /\ IF r.pc = "idle" THEN r.id = None ELSE r.id = i
  <2>1. CASE thread' = Handled(t)
    BY <1>1, <2>1, HandledType
  <2>2. CASE thread' = [thread EXCEPT ![t].pc = "notify"]
    <3> DEFINE r == [thread[t] EXCEPT !.pc = "notify"]
    <3>1. r \in Held /\ r.pc = "notify" /\ r.id = i
      BY <1>2 DEF Held
    <3>2. thread' = [thread EXCEPT ![t] = r]
      BY <2>2
    <3> HIDE DEF r
    <3>3. QED
      BY <3>1, <3>2
  <2>3. QED
    BY <1>1, <2>1, <2>2
<1>5. viewer' \in View
  BY <1>1 DEF TypeInv, ViewerOK, View
<1> HIDE DEF i
<1>6. ThreadOK'
  <2>1. lost' \subseteq 1 .. published /\ UNCHANGED <<stage, history, published, group>>
    BY <1>1 DEF TypeInv, ThreadOK, stream, process
  <2>2. QED
    BY <1>2, <1>3, <1>4, <2>1, ThreadMoves
<1>7. QED
  BY <1>1, <1>3, <1>5, <1>6, StreamRests DEF TypeInv, ProcessOK, ViewerOK, process, stream

LEMMA TypeNotify == ASSUME TypeInv, NEW t \in Topics, Notify(t) PROVE TypeInv'
<1> DEFINE i == thread[t].id
<1>1. /\ thread[t].pc = "notify" /\ thread' = Handled(t) /\ viewer.coming < MaxComing
      /\ UNCHANGED <<settings, stream, process, model, lost, faults>>
      /\ viewer' = [viewer EXCEPT !.coming = @ + 1] \/ viewer' = viewer
  BY DEF Notify
<1>2. /\ i \in 1 .. published /\ Of(t, i) /\ group[t] # NoGroup /\ i <= group[t]
      /\ stage = "tail" /\ i \in applied
  BY <1>1, HandType
<1>3. PICK r \in Held : /\ thread' = [thread EXCEPT ![t] = r]
                        /\ IF r.pc = "idle" THEN r.id = None ELSE r.id = i
  BY <1>1, HandledType
<1>4. viewer' \in View
  BY <1>1, Bounds DEF TypeInv, ViewerOK, View
<1> HIDE DEF i
<1>5. ThreadOK'
  <2>1. lost' \subseteq 1 .. published /\ UNCHANGED <<stage, history, published, group, applied>>
    BY <1>1 DEF TypeInv, ThreadOK, stream, process, model
  <2>2. QED
    BY <1>2, <1>3, <2>1, ThreadMoves
<1>6. QED
  BY <1>1, <1>4, <1>5, StreamRests DEF TypeInv, ProcessOK, ModelOK, ViewerOK, process, stream, model

LEMMA TypeAcknowledge ==
  ASSUME TypeInv, NEW t \in Topics, Acknowledge(t) \/ LoseAck(t) PROVE TypeInv'
<1> DEFINE r == [pc |-> "idle", id |-> None, drained |-> TRUE]
<1>1. /\ thread[t].pc = "ack" /\ (thread' = [thread EXCEPT ![t] = r] \/ thread' = [thread EXCEPT ![t] = Idle])
      /\ pending' \in {pending, [pending EXCEPT ![t] = @ \ {thread[t].id}]}
      /\ UNCHANGED <<settings, history, published, group, process, model, lost, viewer>>
      /\ Fault \/ UNCHANGED faults
  BY DEF Acknowledge, LoseAck
<1>2. r \in Held /\ r.pc = "idle" /\ r.id = None
  BY DEF Held
<1>3. stage = "tail"
  BY <1>1, HandType
<1> HIDE DEF r
<1>4. ThreadOK'
  BY <1>1, <1>2, <1>3, IdleHeld, ThreadMoves DEF TypeInv, ThreadOK, process, model
<1>5. StreamOK'
  <2>1. /\ pending' \in [Topics -> SUBSET Ids]
        /\ \A u \in Topics : pending'[u] \subseteq pending[u]
    BY <1>1 DEF TypeInv, StreamOK
  <2>2. QED
    BY <1>1, <2>1 DEF TypeInv, StreamOK, Of
<1>6. QED
  BY <1>1, <1>4, <1>5, FaultType DEF TypeInv, ProcessOK, ModelOK, ViewerOK, process, model

LEMMA TypeProcessDies == ASSUME TypeInv, ProcessDies PROVE TypeInv'
<1>1. StreamOK' /\ ModelOK'
  BY StreamRests, EmptiedType DEF ProcessDies, stream
<1>2. ProcessOK'
  <2>1. 0 \in 0 .. published /\ 1 \in 1 .. 4
    BY Published DEF TypeInv
  <2>2. last' \in [Topics -> 0 .. published] /\ base' \in [Topics -> 0 .. published \cup {NoGroup}]
    BY <2>1 DEF ProcessDies, NothingReplayed, NoGroups, None
  <2>3. QED
    BY <2>1, <2>2 DEF ProcessDies, ProcessOK, stream
<1>3. ThreadOK'
  BY IdleHeld DEF ProcessDies, ThreadOK
<1>4. ViewerOK'
  <2>1. Away \in View
    BY Bounds DEF Away, View
  <2>2. QED
    BY <2>1, FaultType DEF ProcessDies, ViewerOK
<1>5. QED
  BY <1>1, <1>2, <1>3, <1>4 DEF TypeInv

(* The console reads the model, and now and then removes cards from it.    *)
LEMMA TypeConsole == ASSUME TypeInv, Console PROVE TypeInv'
<1>1. CASE Subscribe \/ Leave
  <2>0. Away \in View /\ [Away EXCEPT !.pc = "stale"] \in View
    <3>1. Away \in View
      BY Bounds DEF Away, View
    <3> HIDE DEF Away
    <3>2. QED
      BY <3>1 DEF View
  <2>1. viewer' \in View
    BY <1>1, <2>0 DEF Subscribe, Leave
  <2>2. QED
    BY <1>1, <2>1, StreamRests DEF Subscribe, Leave, TypeInv, ProcessOK, ModelOK, ThreadOK, ViewerOK,
       Of, process, model, stream
<1>2. CASE Deliver \/ TakeEvent
  <2>0. viewer \in View
    BY DEF TypeInv, ViewerOK
  <2>1. viewer' \in View
    <3>1. CASE Deliver
      <4> DEFINE w == [viewer EXCEPT !.coming = viewer.coming - 1]
      <4>1. w \in View /\ w.queue = viewer.queue
        BY <2>0, <3>1, Bounds DEF Deliver, View
      <4>2. Least(viewer.queue + 1, MaxQueue) \in 0 .. MaxQueue
        BY <2>0, Bounds DEF View, Least
      <4>3. viewer' = [w EXCEPT !.queue = Least(viewer.queue + 1, MaxQueue)]
        BY <3>1 DEF Deliver
      <4> HIDE DEF w
      <4>4. QED
        BY <4>1, <4>2, <4>3 DEF View
    <3>2. CASE TakeEvent
      <4> DEFINE w == [viewer EXCEPT !.pc = "stale"]
      <4>1. w \in View /\ w.queue = viewer.queue
        BY <2>0 DEF View
      <4>2. viewer.queue - 1 \in 0 .. MaxQueue
        BY <2>0, <3>2, Bounds DEF TakeEvent, View
      <4>3. viewer' = [w EXCEPT !.queue = viewer.queue - 1]
        BY <3>2 DEF TakeEvent
      <4> HIDE DEF w
      <4>4. QED
        BY <4>1, <4>2, <4>3 DEF View
    <3>3. QED
      BY <1>2, <3>1, <3>2
  <2>2. QED
    BY <1>2, <2>1, StreamRests DEF Deliver, TakeEvent, TypeInv, ProcessOK, ModelOK, ThreadOK, ViewerOK,
       Of, process, model, stream
<1>3. CASE GetSituations
  <2>1. viewer' \in View
    BY <1>3 DEF GetSituations, TypeInv, ViewerOK, View
  <2>2. PICK D : Without(D)
    BY <1>3 DEF GetSituations
  <2>3. cards' \in [Situations -> Card \cup {NoCard}]
    BY <2>2 DEF Without, TypeInv, ModelOK
  <2>4. QED
    BY <1>3, <2>1, <2>3, StreamRests DEF GetSituations, TypeInv, ProcessOK, ModelOK, ThreadOK, ViewerOK,
       Of, process, stream
<1>4. CASE Reset
  <2>1. <<>> \in Seq(Ids) /\ Len(<<>>) = 0 /\ 0 <= MaxOutcomes
    BY Bounds
  <2>2. ModelOK'
    BY <1>4, <2>1 DEF Reset, TypeInv, ModelOK, process, stream
  <2>3. QED
    BY <1>4, <2>2, StreamRests, FaultType DEF Reset, TypeInv, ProcessOK, ThreadOK, ViewerOK,
       Of, process, stream
<1>5. QED
  BY <1>1, <1>2, <1>3, <1>4 DEF Console

LEMMA TypeStep == TypeInv /\ [Next]_vars => TypeInv'
<1> SUFFICES ASSUME TypeInv, [Next]_vars PROVE TypeInv'
  OBVIOUS
<1>1. CASE Rebuild
  BY <1>1, TypeReplayEntry, TypeReplayNext, TypeOwnOffsets, TypeRebuildFails DEF Rebuild
<1>2. ASSUME NEW t \in Topics, RunTopic(t) PROVE TypeInv'
  BY <1>2, TypeEnsureGroup, TypeReadPending, TypeReadNew, TypeLoseReadReply, TypeApplyEntry,
     TypeNotify, TypeAcknowledge DEF RunTopic
<1>3. CASE UNCHANGED vars
  BY <1>3, StreamRests DEF vars, TypeInv, ProcessOK, ModelOK, ThreadOK, ViewerOK, Of, process, model,
     stream
<1>4. QED
  BY <1>1, <1>2, <1>3, TypePublish, TypeStart, TypeProcessDies, TypeConsole DEF Next

LEMMA TypeKept == Spec => []TypeInv
BY TypeInit, TypeStep, PTL DEF Spec

(* The type invariant, for every history, setting and cap.                 *)
THEOREM TypeCorrect == Spec => []ReadTypeOK
<1>1. TypeInv => ReadTypeOK
  <2> SUFFICES ASSUME TypeInv PROVE ReadTypeOK
    OBVIOUS
  <2>1. published \in Nat /\ published < End
    BY Published DEF TypeInv
  <2>2. last \in [Topics -> Ids \cup {None}]
    BY <2>1, Bounds DEF TypeInv, ProcessOK, Ids, None
  <2>3. topic \in 1 .. 5
    BY DEF TypeInv, ProcessOK
  <2>4. QED
    BY <2>2, <2>3 DEF TypeInv, StreamOK, ProcessOK, ModelOK, ThreadOK, ViewerOK, ReadTypeOK, Held, View
<1>2. QED
  BY <1>1, TypeKept, PTL

------------------------------------------------------------------------------
(* Nothing is missing.                                                     *)

LEMMA BaseType == ASSUME TypeInv, NEW t \in Topics PROVE Base(t) \in Nat
<1>1. window \in Nat /\ base[t] \in 0 .. published \cup {NoGroup} /\ published \in Nat
  BY Published DEF TypeInv, ProcessOK
<1>2. QED
  BY <1>1 DEF Base, Least

(* An entry of the window, or past where its group stood.                  *)
LEMMA Wanted ==
  ASSUME TypeInv, NEW t \in Topics, NEW i \in NextOf(t, Base(t))
  PROVE  i \in 1 .. published /\ i \in Nat \ {0} /\ i > Base(t) /\ Of(t, i)
<1>1. Base(t) \in Nat /\ published \in Nat
  BY BaseType, Published DEF TypeInv
<1>2. QED
  BY <1>1 DEF NextOf

Spared == UNCHANGED <<history, published, stage, topic, cursor, last, window, base, rebuilt>>
Kept(t, i) == i \in applied \cup lost \cup InHand(t) \cup pending[t]
               \/ (group[t] # NoGroup /\ i > group[t])

(* A step that loses hold of no entry.                                     *)
LEMMA MissingFrame ==
  ASSUME TypeInv, NothingMissing, UNCHANGED <<history, published, stage, rebuilt, base, window>>,
         (stage = "tail" /\ rebuilt) =>
           \A t \in Topics : \A i \in 1 .. published : (Of(t, i) /\ Kept(t, i)) => Kept(t, i)'
  PROVE  NothingMissing'
<1> SUFFICES ASSUME stage = "tail", rebuilt, NEW t \in Topics, NEW i \in NextOf(t, Base(t))
             PROVE  Kept(t, i)'
  BY DEF NothingMissing, Kept, NextOf, Of, Base
<1>1. i \in 1 .. published /\ Of(t, i)
  BY Wanted
<1>2. Kept(t, i)
  BY DEF NothingMissing, Kept
<1>3. QED
  BY <1>1, <1>2

LEMMA ReplayFrame ==
  ASSUME ReplayInv, Spared, UNCHANGED <<group, applied>> PROVE ReplayInv'
BY DEF ReplayInv, Spared, Left, Ahead, Done, NextOf, Of, Base, Replaying

LEMMA MissInit == Init => ReplayInv /\ NothingMissing
BY DEF Init, ReplayInv, NothingMissing

LEMMA MissPublish ==
  ASSUME TypeInv, ReplayInv, NothingMissing, Publish PROVE ReplayInv' /\ NothingMissing'
<1>1. /\ published \in Nat /\ published' = published + 1
      /\ UNCHANGED <<history, group, pending, stage, topic, cursor, last, window, base, rebuilt,
                     applied, lost, thread>>
  BY Published DEF Publish, process, model, TypeInv
<1>2. \A t \in Topics : Base(t)' = Base(t) /\ (Done(t)' <=> Done(t)) /\ Replaying' = Replaying
  BY <1>1 DEF Base, Done, Replaying
<1>3. ASSUME NEW t \in Topics, NEW i \in NextOf(t, Base(t))'
      PROVE  i \in NextOf(t, Base(t)) \/ i = published + 1
  BY <1>1, <1>2, <1>3, BaseType DEF NextOf, Of
<1>4. ASSUME NEW t \in Topics
      PROVE  /\ published + 1 > last[t] /\ Ahead(t, published + 1)
             /\ group[t] # NoGroup => published + 1 > group[t]
  <2>1. last[t] \in 0 .. published /\ group[t] \in 0 .. published \cup {NoGroup}
    BY DEF TypeInv, ProcessOK, StreamOK
  <2>2. QED
    BY <1>1, <2>1 DEF Ahead
<1>5. ReplayInv'
  <2>1. ASSUME NEW t \in Topics, Left(t) PROVE Left(t)'
    BY <1>1, <1>3, <1>4, <2>1 DEF Left, Ahead
  <2>2. ASSUME stage = "replay", NEW t \in Topics, NEW i \in NextOf(t, Base(t))'
        PROVE  i \in applied \/ i > last[t]
    BY <1>3, <1>4, <2>2 DEF ReplayInv
  <2>3. ASSUME stage = "replay"
        PROVE  (/\ group = base
                /\ cursor # NoCursor => cursor = last[Replaying]
                /\ \A t \in Topics : \A i \in NextOf(t, Base(t)) : i \in applied \/ i > last[t]
                /\ \A t \in Topics : Done(t) => Left(t))'
    <3>1. (\A t \in Topics : \A i \in NextOf(t, Base(t)) : i \in applied \/ i > last[t])'
      BY <1>1, <2>2, <2>3
    <3>2. (\A t \in Topics : Done(t) => Left(t))'
      BY <1>2, <2>1, <2>3 DEF ReplayInv
    <3>3. (group = base /\ (cursor # NoCursor => cursor = last[Replaying]))'
      BY <1>1, <2>3 DEF ReplayInv, Replaying
    <3>4. QED
      BY <3>1, <3>2, <3>3
  <2>4. ASSUME stage = "offsets"
        PROVE  (/\ \A t \in Topics : Left(t)
                /\ \A t \in Topics : Done(t) => group[t] # NoGroup)'
    BY <1>1, <1>2, <2>1, <2>4 DEF ReplayInv
  <2>5. QED
    BY <1>1, <2>3, <2>4 DEF ReplayInv
<1>6. NothingMissing'
  <2> SUFFICES ASSUME stage = "tail", rebuilt, NEW t \in Topics, NEW i \in NextOf(t, Base(t))'
               PROVE  i \in applied \cup lost \cup InHand(t) \cup pending[t]
                      \/ (group[t] # NoGroup /\ i > group[t])
    BY <1>1 DEF NothingMissing, InHand
  <2>1. CASE i \in NextOf(t, Base(t))
    BY <2>1 DEF NothingMissing
  <2>2. CASE i = published + 1
    BY <1>4, <2>2 DEF ReplayInv
  <2>3. QED
    BY <1>3, <2>1, <2>2
<1>7. QED
  BY <1>5, <1>6

LEMMA MissStart == ASSUME TypeInv, ReplayInv, Start PROVE ReplayInv' /\ NothingMissing'
<1>1. /\ stage = "down" /\ stage' \in {"replay", "tail"} /\ ~rebuilt' /\ topic' = 1
      /\ cursor' = NoCursor /\ last' = NothingReplayed
      /\ stage' = "replay" => base' = group /\ group' = group
  BY DEF Start, stream, ReplayInv, TypeInv, ProcessOK
<1>2. \A t \in Topics : last'[t] = 0
  BY <1>1 DEF NothingReplayed, None
<1>3. ASSUME stage' = "replay", NEW t \in Topics, NEW i \in NextOf(t, Base(t))'
      PROVE  i > last'[t]
  <2>1. TypeInv'
    BY TypeStart
  <2>2. i \in Nat \ {0}
    <3>1. Base(t)' \in Nat /\ published' \in Nat
      <4>1. window' \in Nat /\ base'[t] \in 0 .. published' \cup {NoGroup} /\ published' \in Nat
        BY <2>1, Published DEF Start, stream, TypeInv, ProcessOK
      <4>2. QED
        BY <4>1 DEF Base, Least
    <3>2. QED
      BY <1>3, <3>1 DEF NextOf
  <2>3. QED
    BY <1>2, <2>2
<1>4. \A t \in Topics : ~Done(t)'
  BY <1>1 DEF Done
<1>5. ReplayInv'
  BY <1>1, <1>3, <1>4 DEF ReplayInv
<1>6. NothingMissing'
  BY <1>1 DEF NothingMissing
<1>7. QED
  BY <1>5, <1>6

(* A rebuild given up, and a process that dies, promise nothing.           *)
LEMMA MissColdStart ==
  ASSUME TypeInv, stage \in {"replay", "offsets"}, ColdStart PROVE ReplayInv' /\ NothingMissing'
BY DEF ColdStart, ReplayInv, NothingMissing, TypeInv, ProcessOK

LEMMA MissProcessDies == ASSUME ProcessDies PROVE ReplayInv' /\ NothingMissing'
BY DEF ProcessDies, ReplayInv, NothingMissing

(* Where the replay of a topic stands: after the last id read of it, or at *)
(* the start of what it has to cover.                                      *)
LEMMA AtIs ==
  ASSUME TypeInv, ReplayInv, stage = "replay"
  PROVE  /\ Replaying \in Topics
         /\ At = IF cursor = NoCursor THEN Base(Replaying) ELSE last[Replaying]
         /\ At \in Nat /\ group = base
<1>1. Replaying \in Topics
  BY ReplayOrderType DEF Replaying, TypeInv, ProcessOK
<1>2. /\ group = base /\ (cursor # NoCursor => cursor = last[Replaying])
      /\ published \in Nat /\ published < End /\ window \in 0 .. published
      /\ group[Replaying] \in 0 .. published \cup {NoGroup} /\ last[Replaying] \in 0 .. published
  BY <1>1, Published DEF ReplayInv, TypeInv, ProcessOK, StreamOK
<1>3. From(Replaying) = Base(Replaying)
  BY <1>2, Bounds DEF From, Base, Least, NoGroup
<1>4. Base(Replaying) \in Nat
  BY <1>1, BaseType
<1>5. QED
  BY <1>1, <1>2, <1>3, <1>4 DEF At

LEMMA MissReplayEntry ==
  ASSUME TypeInv, ReplayInv, ReplayEntry PROVE ReplayInv' /\ NothingMissing'
<1> DEFINE r == Replaying
           i == First(NextOf(r, At))
<1>1. /\ stage = "replay" /\ i \in 1 .. published /\ i > At /\ r \in Topics
      /\ \A j \in NextOf(r, At) : i <= j
      /\ UNCHANGED <<settings, stream, thread, lost, viewer, faults>>
  BY ReplayNextEntry, AtIs DEF ReplayEntry
<1>2. CASE ColdStart
  BY <1>1, <1>2, MissColdStart
<1>3. CASE /\ Apply(i) /\ cursor' = i /\ last' = [last EXCEPT ![r] = i]
           /\ UNCHANGED <<stage, topic, window, base, rebuilt>>
  <2>1. applied' = applied \cup {i}
    BY <1>3 DEF Apply
  <2>2. /\ \A t \in Topics : last[t] \in 0 .. published /\ last'[t] = IF t = r THEN i ELSE last[t]
        /\ published \in Nat
    BY <1>1, <1>3, Published DEF TypeInv, ProcessOK
  <2>3. \A t \in Topics : /\ NextOf(t, Base(t))' = NextOf(t, Base(t)) /\ (Done(t)' <=> Done(t))
                          /\ \A j : Ahead(t, j)' <=> Ahead(t, j)
    BY <1>1, <1>3 DEF NextOf, Of, Base, Done, Ahead, stream
  <2>4. ~Done(r)
    <3> SUFFICES ASSUME NEW k \in 1 .. topic - 1, ReplayOrder[k] = ReplayOrder[topic] PROVE FALSE
      BY DEF Done, Replaying
    <3>1. topic \in 1 .. 4 /\ k \in 1 .. 4 /\ k # topic
      BY DEF TypeInv, ProcessOK
    <3>2. QED
      BY <3>1 DEF ReplayOrder
  <2>5. ASSUME NEW t \in Topics, NEW j \in NextOf(t, Base(t)) PROVE j \in applied' \/ j > last'[t]
    <3>1. CASE t # r
      BY <1>1, <2>1, <2>2, <2>5, <3>1 DEF ReplayInv
    <3>2. CASE t = r
      <4>1. j \in 1 .. published /\ j > Base(r) /\ Of(r, j) /\ j \in Nat
        BY <2>5, <3>2, Wanted
      <4>2. CASE j > At
        <5>1. j \in NextOf(r, At)
          BY <2>2, <4>1, <4>2, AtIs, <1>1 DEF NextOf
        <5>2. i <= j
          BY <1>1, <5>1
        <5>3. QED
          BY <1>1, <2>1, <2>2, <3>2, <4>1, <5>2
      <4>3. CASE ~(j > At)
        <5>1. At = last[r]
          BY <1>1, <4>1, <4>3, AtIs
        <5>2. j \in applied
          BY <1>1, <2>5, <3>2, <4>3, <5>1 DEF ReplayInv
        <5>3. QED
          BY <2>1, <5>2
      <4>4. QED
        BY <4>2, <4>3
    <3>3. QED
      BY <3>1, <3>2
  <2>6. ASSUME NEW t \in Topics, Done(t) PROVE Left(t)'
    <3>1. t # r /\ Left(t)
      BY <1>1, <2>4, <2>6 DEF ReplayInv
    <3>2. QED
      BY <2>1, <2>2, <2>3, <3>1 DEF Left
  <2>7. (cursor = last[Replaying])' /\ group' = base'
    BY <1>1, <1>3, <2>2, AtIs DEF Replaying, stream
  <2>8. ReplayInv'
    <3>1. (\A t \in Topics : \A j \in NextOf(t, Base(t)) : j \in applied \/ j > last[t])'
      BY <2>3, <2>5
    <3>2. (\A t \in Topics : Done(t) => Left(t))'
      BY <2>3, <2>6
    <3>3. stage' = "replay"
      BY <1>1, <1>3
    <3>4. QED
      BY <2>7, <3>1, <3>2, <3>3 DEF ReplayInv
  <2>9. NothingMissing'
    BY <1>1, <1>3 DEF NothingMissing
  <2>10. QED
    BY <2>8, <2>9
<1>4. QED
  BY <1>2, <1>3 DEF ReplayEntry

LEMMA MissReplayNext ==
  ASSUME TypeInv, ReplayInv, ReplayNext PROVE ReplayInv' /\ NothingMissing'
<1> DEFINE r == Replaying
<1>1. /\ stage = "replay" /\ NextOf(r, At) = {} /\ cursor' = NoCursor /\ r \in Topics
      /\ UNCHANGED <<history, published, group, last, window, base, rebuilt, applied>>
      /\ \/ topic < 4 /\ topic' = topic + 1 /\ stage' = "replay"
         \/ topic = 4 /\ topic' = 1 /\ stage' = "offsets"
  <2>1. Len(ReplayOrder) = 4 /\ topic \in 1 .. 4
    BY DEF ReplayOrder, TypeInv, ProcessOK
  <2>2. QED
    BY <2>1, AtIs DEF ReplayNext, stream, model
<1>2. \A t \in Topics : /\ NextOf(t, Base(t))' = NextOf(t, Base(t))
                        /\ \A j : Ahead(t, j)' <=> Ahead(t, j)
                        /\ Left(t)' <=> Left(t)
  BY <1>1 DEF NextOf, Of, Base, Ahead, Left
<1>3. Left(r)
  <2> SUFFICES ASSUME NEW j \in NextOf(r, Base(r)) PROVE j \in applied
    BY DEF Left
  <2>1. j \in 1 .. published /\ j > Base(r) /\ Of(r, j) /\ j \in Nat
    BY <1>1, Wanted
  <2>2. ~(j > At)
    BY <1>1, <2>1, AtIs, Published DEF NextOf, TypeInv
  <2>3. At = last[r]
    BY <1>1, <2>1, <2>2, AtIs
  <2>4. QED
    BY <1>1, <2>2, <2>3 DEF ReplayInv
<1>4. CASE topic < 4 /\ topic' = topic + 1 /\ stage' = "replay"
  <2>1. topic \in 1 .. 4
    BY DEF TypeInv, ProcessOK
  <2>2. ASSUME NEW t \in Topics, Done(t)' PROVE Done(t) \/ t = r
    <3>1. PICK k \in 1 .. topic : ReplayOrder[k] = t
      BY <1>4, <2>1, <2>2 DEF Done
    <3>2. QED
      BY <2>1, <3>1 DEF Done, Replaying
  <2>3. (\A t \in Topics : Done(t) => Left(t))'
    BY <1>1, <1>2, <1>3, <2>2 DEF ReplayInv
  <2>4. (\A t \in Topics : \A j \in NextOf(t, Base(t)) : j \in applied \/ j > last[t])'
    BY <1>1, <1>2 DEF ReplayInv
  <2>5. QED
    BY <1>1, <1>4, <2>3, <2>4, AtIs DEF ReplayInv, NothingMissing
<1>5. CASE topic = 4 /\ topic' = 1 /\ stage' = "offsets"
  <2>1. ASSUME NEW t \in Topics PROVE Left(t)'
    <3>1. PICK k \in 1 .. 4 : ReplayOrder[k] = t
      BY EveryTopic
    <3>2. Done(t) \/ t = r
      BY <1>5, <3>1 DEF Done, Replaying
    <3>3. QED
      BY <1>1, <1>2, <1>3, <3>2 DEF ReplayInv
  <2>2. \A t \in Topics : ~Done(t)'
    BY <1>5 DEF Done
  <2>3. QED
    BY <1>5, <2>1, <2>2 DEF ReplayInv, NothingMissing
<1>6. QED
  BY <1>1, <1>4, <1>5

LEMMA MissOwnOffsets ==
  ASSUME TypeInv, ReplayInv, OwnOffsets PROVE ReplayInv' /\ NothingMissing'
<1> DEFINE r == Replaying
<1>1. /\ stage = "offsets" /\ r \in Topics
      /\ group' = [group EXCEPT ![r] = Owned(r)] /\ pending' = [pending EXCEPT ![r] = {}]
      /\ UNCHANGED <<history, published, window, base, applied, lost, thread>>
      /\ \/ topic < 4 /\ topic' = topic + 1 /\ UNCHANGED <<stage, rebuilt, last>>
         \/ topic = 4 /\ stage' = "tail" /\ rebuilt' = TRUE
  <2>1. Len(ReplayOrder) = 4 /\ topic \in 1 .. 4
    BY DEF ReplayOrder, TypeInv, ProcessOK
  <2>2. Replaying \in Topics
    BY <2>1, ReplayOrderType DEF Replaying
  <2>3. QED
    BY <2>1, <2>2 DEF OwnOffsets, model
<1>2. /\ published \in Nat /\ published < End
      /\ \A t \in Topics : group[t] \in 0 .. published \cup {NoGroup} /\ last[t] \in 0 .. published
  BY Published DEF TypeInv, StreamOK, ProcessOK
<1>3. Owned(r) \in 0 .. published /\ Owned(r) # NoGroup
  BY <1>1, <1>2, OwnedType DEF NoGroup
<1>4. \A t \in Topics : /\ t # r => group'[t] = group[t]
                        /\ group'[r] = Owned(r)
  BY <1>1, <1>2 DEF TypeInv, StreamOK
<1> HIDE DEF r
<1>5. \A t \in Topics : NextOf(t, Base(t))' = NextOf(t, Base(t))
  BY <1>1 DEF NextOf, Of, Base
<1>6. ASSUME NEW t \in Topics, NEW j \in NextOf(t, Base(t)), j \notin applied
      PROVE  j > last[t] /\ (group'[t] # NoGroup => j > group'[t])
  <2>1. j > last[t] /\ Ahead(t, j) /\ j \in Nat \ {0}
    BY <1>1, <1>6, Wanted DEF ReplayInv, Left
  <2>2. CASE t # r
    BY <1>4, <2>1, <2>2 DEF Ahead
  <2>3. CASE t = r
    <3>1. j > Owned(r)
      BY <1>1, <1>2, <2>1, <2>3 DEF Ahead, Owned, Ensured
    <3>2. QED
      BY <1>4, <2>1, <2>3, <3>1
  <2>4. QED
    BY <2>2, <2>3
<1>7. CASE topic < 4 /\ topic' = topic + 1 /\ UNCHANGED <<stage, rebuilt, last>>
  <2>1. topic \in 1 .. 4
    BY DEF TypeInv, ProcessOK
  <2>2. (\A t \in Topics : Left(t))'
    BY <1>1, <1>5, <1>6, <1>7 DEF Left, Ahead
  <2>3. ASSUME NEW t \in Topics, Done(t)' PROVE group'[t] # NoGroup
    <3>1. PICK k \in 1 .. topic : ReplayOrder[k] = t
      BY <1>7, <2>1, <2>3 DEF Done
    <3>2. Done(t) \/ t = r
      BY <2>1, <3>1 DEF Done, Replaying, r
    <3>3. QED
      BY <1>1, <1>3, <1>4, <3>2 DEF ReplayInv
  <2>4. QED
    BY <1>1, <1>7, <2>2, <2>3 DEF ReplayInv, NothingMissing
<1>8. CASE topic = 4 /\ stage' = "tail" /\ rebuilt' = TRUE
  <2>1. ASSUME NEW t \in Topics PROVE group'[t] # NoGroup
    <3>1. PICK k \in 1 .. 4 : ReplayOrder[k] = t
      BY EveryTopic
    <3>2. Done(t) \/ t = r
      BY <1>8, <3>1 DEF Done, Replaying, r
    <3>3. QED
      BY <1>1, <1>3, <1>4, <3>2 DEF ReplayInv
  <2>2. NothingMissing'
    BY <1>1, <1>5, <1>6, <2>1 DEF NothingMissing
  <2>3. QED
    BY <1>8, <2>1, <2>2 DEF ReplayInv
<1>9. QED
  BY <1>1, <1>7, <1>8

LEMMA MissRebuildFails ==
  ASSUME TypeInv, RebuildFails PROVE ReplayInv' /\ NothingMissing'
BY MissColdStart DEF RebuildFails

(* What a thread's step leaves kept: it hands what it holds to the model,  *)
(* and drops nothing that has not been applied.                            *)
LEMMA StillKept ==
  ASSUME TypeInv, NEW t \in Topics, NEW u \in Topics, NEW j \in 1 .. published, Kept(u, j),
         group[u] # NoGroup, applied \subseteq applied', lost \subseteq lost',
         pending[u] \ applied' \subseteq pending'[u],
         \A v \in Topics : v # t => thread'[v] = thread[v],
         thread[t].id # None => thread[t].id \in applied',
         group'[u] = group[u] \/ j <= group[u]
  PROVE  Kept(u, j)'
<1>1. CASE j \in applied \cup lost \cup pending[u]
  BY <1>1 DEF Kept
<1>2. CASE j \in InHand(u)
  BY <1>2 DEF Kept, InHand
<1>3. CASE j > group[u]
  <2>1. group[u] \in Nat /\ j \in Nat
    BY Published DEF TypeInv, StreamOK
  <2>2. QED
    BY <1>3, <2>1 DEF Kept
<1>4. QED
  BY <1>1, <1>2, <1>3 DEF Kept

(* A step of a thread, as far as what is missing goes.                     *)
LEMMA TailFrame ==
  ASSUME TypeInv, ReplayInv, NothingMissing, stage = "tail",
         UNCHANGED <<history, published, process>>,
         \A u \in Topics : group[u] # NoGroup => group'[u] # NoGroup,
         \A u \in Topics : \A j \in 1 .. published :
           (group[u] # NoGroup /\ Of(u, j) /\ Kept(u, j)) => Kept(u, j)'
  PROVE  ReplayInv' /\ NothingMissing'
<1>1. rebuilt => \A u \in Topics : group[u] # NoGroup
  BY DEF ReplayInv
<1>2. NothingMissing'
  BY <1>1, MissingFrame DEF process
<1>3. ReplayInv'
  BY <1>1 DEF ReplayInv, process
<1>4. QED
  BY <1>2, <1>3

LEMMA MissEnsureGroup ==
  ASSUME TypeInv, ReplayInv, NothingMissing, NEW t \in Topics, EnsureGroup(t)
  PROVE  ReplayInv' /\ NothingMissing'
<1>1. /\ stage = "tail" /\ group[t] = NoGroup /\ group' = [group EXCEPT ![t] = 0]
      /\ UNCHANGED <<history, published, pending, process, applied, thread, lost>>
  BY DEF EnsureGroup, model
<1>2. \A u \in Topics : group[u] # NoGroup => group'[u] = group[u]
  BY <1>1 DEF TypeInv, StreamOK
<1>3. \A u \in Topics : \A j \in 1 .. published :
        (group[u] # NoGroup /\ Of(u, j) /\ Kept(u, j)) => Kept(u, j)'
  BY <1>1, <1>2 DEF Kept, InHand
<1>4. QED
  BY <1>1, <1>2, <1>3, TailFrame

LEMMA MissReadPending ==
  ASSUME TypeInv, ReplayInv, NothingMissing, NEW t \in Topics, ReadPending(t)
  PROVE  ReplayInv' /\ NothingMissing'
<1>1. /\ stage = "tail" /\ thread[t].pc = "idle"
      /\ UNCHANGED <<history, published, group, pending, process, applied, lost>>
      /\ \A v \in Topics : v # t => thread'[v] = thread[v]
  BY DEF ReadPending, Reading, stream, model, TypeInv, ThreadOK
<1>2. thread[t].id = None
  BY <1>1 DEF TypeInv, ThreadOK
<1>3. ASSUME NEW u \in Topics, NEW j \in 1 .. published, group[u] # NoGroup, Kept(u, j)
      PROVE  Kept(u, j)'
  BY <1>1, <1>2, <1>3, StillKept
<1>4. QED
  BY <1>1, <1>3, TailFrame

(* The delivered entry leaves what was ahead of the group: it is in hand,  *)
(* pending or, its reply lost, known to be lost.                           *)
LEMMA MissDelivered ==
  ASSUME TypeInv, ReplayInv, NothingMissing, NEW t \in Topics, ReadNew(t) \/ LoseReadReply(t)
  PROVE  ReplayInv' /\ NothingMissing'
<1> DEFINE i == First(NextOf(t, group[t]))
<1>1. /\ Reading(t) /\ NextOf(t, group[t]) # {} /\ Delivered(t, i)
      /\ UNCHANGED <<settings, history, published, process, applied>>
      /\ \A v \in Topics : v # t => thread'[v] = thread[v]
  BY DEF ReadNew, LoseReadReply, model, TypeInv, ThreadOK
<1>2. /\ i \in 1 .. published /\ i > group[t]
      /\ \A j \in NextOf(t, group[t]) : i <= j
      /\ group'[t] = i /\ group'[t] # NoGroup
      /\ \A u \in Topics : u # t => group'[u] = group[u]
      /\ \A u \in Topics : /\ pending[u] \subseteq pending'[u]
                           /\ AtLeastOnce /\ u = t => i \in pending'[u]
  BY <1>1, DeliveredType
<1>3. thread[t] \in Held /\ thread[t].id = None /\ stage = "tail"
  BY <1>1 DEF Reading, TypeInv, ThreadOK
<1>4. i \in InHand(t)' \cup pending'[t] \cup lost' /\ lost \subseteq lost'
  <2>1. CASE ReadNew(t)
    <3>1. thread'[t].id = i /\ lost' = lost
      BY <2>1 DEF ReadNew, TypeInv, ThreadOK
    <3>2. i # None
      BY <1>2, Published DEF None, TypeInv
    <3>3. QED
      BY <3>1, <3>2 DEF InHand
  <2>2. CASE LoseReadReply(t)
    BY <1>2, <2>2 DEF LoseReadReply
  <2>3. QED
    BY <2>1, <2>2
<1> HIDE DEF i
<1>5. ASSUME NEW u \in Topics, NEW j \in 1 .. published, group[u] # NoGroup, Of(u, j), Kept(u, j)
      PROVE  Kept(u, j)'
  <2>0. published \in Nat /\ group[u] \in Nat /\ j \in Nat
    BY <1>5, Published DEF TypeInv, StreamOK
  <2>1. CASE u # t \/ j <= group[u]
    BY <1>1, <1>2, <1>3, <1>4, <1>5, <2>0, <2>1, StillKept
  <2>2. CASE u = t /\ j > group[t]
    <3>1. j \in NextOf(t, group[t])
      BY <1>5, <2>0, <2>2 DEF NextOf
    <3>2. j = i \/ j > i
      BY <1>2, <2>0, <3>1
    <3>3. QED
      BY <1>2, <1>4, <2>2, <3>2 DEF Kept
  <2>3. QED
    BY <2>0, <2>1, <2>2
<1>6. QED
  BY <1>1, <1>2, <1>3, <1>5, TailFrame

LEMMA MissHandled ==
  ASSUME TypeInv, ReplayInv, NothingMissing, NEW t \in Topics,
         ApplyEntry(t) \/ Notify(t) \/ Acknowledge(t) \/ LoseAck(t)
  PROVE  ReplayInv' /\ NothingMissing'
<1>1. /\ thread[t].pc # "idle"
      /\ UNCHANGED <<history, published, group, process, lost>>
      /\ \A v \in Topics : v # t => thread'[v] = thread[v] /\ pending'[v] = pending[v]
      /\ pending[t] \ {thread[t].id} \subseteq pending'[t]
      /\ ~ApplyEntry(t) => UNCHANGED applied /\ thread[t].pc \in {"notify", "ack"}
      /\ ApplyEntry(t) => UNCHANGED pending /\ applied' = applied \cup {thread[t].id}
  <2>1. CASE ApplyEntry(t)
    BY <2>1 DEF ApplyEntry, Apply, Handled, stream, TypeInv, ThreadOK
  <2>2. CASE ~ApplyEntry(t) /\ Notify(t)
    BY <2>2 DEF Notify, Handled, stream, model, TypeInv, ThreadOK
  <2>3. CASE ~ApplyEntry(t) /\ (Acknowledge(t) \/ LoseAck(t))
    BY <2>3 DEF Acknowledge, LoseAck, model, TypeInv, ThreadOK, StreamOK
  <2>4. QED
    BY <2>1, <2>2, <2>3
<1>2. thread[t].id \in applied' /\ applied \subseteq applied' /\ stage = "tail"
  BY <1>1, HandType
<1>3. ASSUME NEW u \in Topics, NEW j \in 1 .. published, group[u] # NoGroup, Kept(u, j)
      PROVE  Kept(u, j)'
  BY <1>1, <1>2, <1>3, StillKept
<1>4. QED
  BY <1>1, <1>2, <1>3, TailFrame

(* A console takes no entry from anyone.                                   *)
LEMMA ConsoleRests ==
  ASSUME Console
  PROVE  UNCHANGED <<settings, stream, process, applied, thread, lost>>
BY DEF Console, Subscribe, GetSituations, Deliver, TakeEvent, Leave, Reset, model

LEMMA MissRests ==
  ASSUME ReplayInv, NothingMissing, UNCHANGED <<stream, process, applied, thread, lost>>
  PROVE  ReplayInv' /\ NothingMissing'
<1>1. UNCHANGED <<history, published, group, pending, stage, topic, cursor, last, window, base,
                  rebuilt, applied, thread, lost>>
  BY DEF stream, process
<1>2. ReplayInv'
  BY <1>1, ReplayFrame DEF Spared
<1>3. NothingMissing'
  BY <1>1 DEF NothingMissing, NextOf, Of, Base, InHand
<1>4. QED
  BY <1>2, <1>3

LEMMA MissStep ==
  TypeInv /\ ReplayInv /\ NothingMissing /\ [Next]_vars => ReplayInv' /\ NothingMissing'
<1> SUFFICES ASSUME TypeInv, ReplayInv, NothingMissing, [Next]_vars
             PROVE  ReplayInv' /\ NothingMissing'
  OBVIOUS
<1>1. CASE Rebuild
  BY <1>1, MissReplayEntry, MissReplayNext, MissOwnOffsets, MissRebuildFails DEF Rebuild
<1>2. ASSUME NEW t \in Topics, RunTopic(t) PROVE ReplayInv' /\ NothingMissing'
  BY <1>2, MissEnsureGroup, MissReadPending, MissDelivered, MissHandled DEF RunTopic
<1>3. CASE Console \/ UNCHANGED vars
  BY <1>3, ConsoleRests, MissRests DEF vars, model
<1>4. QED
  BY <1>1, <1>2, <1>3, MissPublish, MissStart, MissProcessDies DEF Next

(* A rebuilt model misses nothing: whatever lost connections, lost replies *)
(* and deaths the threads meet, an entry of the window, or past where its  *)
(* group stood, was applied, is in a thread's hand, pending or ahead of    *)
(* the group (rebuild.py:116-119).                                         *)
THEOREM RebuildMissesNothing == Spec => []NothingMissing
BY TypeKept, MissInit, MissStep, PTL DEF Spec

------------------------------------------------------------------------------
(* What was replayed agrees.                                               *)

LEMMA OrderInit == Init => OrderInv
BY DEF Init, OrderInv

LEMMA OrderReplayEntry ==
  ASSUME TypeInv, OrderInv, ReplayEntry PROVE OrderInv'
<1> DEFINE r == Replaying
           i == First(NextOf(r, At))
           e == history[i]
           s == history[i].sit
<1>1. stage = "replay" /\ i \in 1 .. published /\ Of(r, i) /\ UNCHANGED <<history, published>>
  BY ReplayNextEntry DEF ReplayEntry, stream
<1>2. CASE ColdStart
  BY <1>2 DEF ColdStart, OrderInv
<1>3. CASE Apply(i) /\ UNCHANGED <<stage, topic>>
  <2>1. /\ applied' = applied \cup {i} /\ applied \subseteq 1 .. published
        /\ \A u \in Situations : u # s => cards'[u] = cards[u]
        /\ \A j \in applied' : history[j].sit \in Situations
        /\ s \in Situations
    <3>1. applied' = applied \cup {i} /\ \A u \in Situations : u # s => cards'[u] = cards[u]
      BY <1>1, <1>3, ApplyEffect
    <3>2. applied \subseteq 1 .. published
      BY DEF TypeInv, ModelOK
    <3>3. \A j \in 1 .. published : history[j].sit \in Situations
      BY CardType
    <3>4. QED
      BY <1>1, <3>1, <3>2, <3>3
  <2>2. e.topic = ReplayOrder[topic] /\ topic \in 1 .. 4
    BY <1>1 DEF Of, Replaying, TypeInv, ProcessOK
  <2>3. \A j \in applied' : \E k \in 1 .. topic : ReplayOrder[k] = history[j].topic
    <3> SUFFICES ASSUME NEW j \in applied'
                 PROVE  \E k \in 1 .. topic : ReplayOrder[k] = history[j].topic
      OBVIOUS
    <3>1. CASE j \in applied
      BY <1>1, <3>1 DEF OrderInv
    <3>2. CASE j = i
      BY <2>2, <3>2
    <3>3. QED
      BY <2>1, <3>1, <3>2
  <2>4. CASE topic # 4
    <3>1. \A j \in applied' : history[j].topic # "outcomes"
      BY <2>2, <2>3, <2>4, ReplayOrderType
    <3>2. QED
      BY <1>1, <1>3, <2>3, <3>1 DEF OrderInv, Agreed
  <2>5. CASE topic = 4
    <3>1. e.topic = "outcomes"
      BY <2>2, <2>5, ReplayOrderType
    <3>2. cards' = [cards EXCEPT ![s] = Closed(e, i)]
      BY <1>3, <3>1 DEF Apply, Applies
    <3>3. cards'[s] = Closed(e, i)
      BY <2>1, <3>2 DEF TypeInv, ModelOK
    <3>4. cards'[s] = NoCard \/ cards'[s].status \in Evictable
      <4>1. CASE cards[s] = NoCard
        BY <3>3, <4>1 DEF Closed
      <4>2. CASE cards[s] # NoCard
        <5>1. cards[s] \in Card
          BY <2>1, <4>2 DEF TypeInv, ModelOK
        <5>2. Closed(e, i) = [[[cards[s] EXCEPT !.status = StatusOf(e.result)] EXCEPT !.activity = i]
                                EXCEPT !.outcome = e.first]
          BY <4>2 DEF Closed
        <5>3. Closed(e, i).status = StatusOf(e.result)
          BY <5>1, <5>2 DEF Card
        <5>4. QED
          BY <3>3, <5>3 DEF StatusOf, Evictable
      <4>3. QED
        BY <4>1, <4>2
    <3>5. ASSUME NEW j \in applied' PROVE Agreed(j)'
      <4>1. CASE history[j].sit = s
        BY <1>1, <3>4, <4>1 DEF Agreed
      <4>2. CASE history[j].sit # s
        <5>1. j \in applied /\ cards'[history[j].sit] = cards[history[j].sit]
          BY <2>1, <3>5, <4>2
        <5>2. QED
          BY <1>1, <5>1 DEF OrderInv, Agreed
      <4>3. QED
        BY <4>1, <4>2
    <3>6. QED
      BY <1>1, <1>3, <2>3, <3>5 DEF OrderInv
  <2>6. QED
    BY <2>4, <2>5
<1>4. QED
  BY <1>2, <1>3 DEF ReplayEntry

LEMMA OrderRests ==
  ASSUME TypeInv, TypeInv', OrderInv, UNCHANGED <<history, cards, applied>>,
         stage' = "replay" => stage = "replay" /\ topic' >= topic,
         stage' = "offsets" => stage \in {"replay", "offsets"}
  PROVE  OrderInv'
<1>1. stage' = "replay" => 1 .. topic \subseteq 1 .. topic'
  BY DEF TypeInv, ProcessOK
<1>2. QED
  BY <1>1 DEF OrderInv, Agreed

LEMMA OrderStep == TypeInv /\ TypeInv' /\ OrderInv /\ [Next]_vars => OrderInv'
<1> SUFFICES ASSUME TypeInv, TypeInv', OrderInv, [Next]_vars PROVE OrderInv'
  OBVIOUS
<1>0. topic \in 1 .. 4 /\ topic' \in 1 .. 4
  BY DEF TypeInv, ProcessOK
<1>1. CASE Start
  BY <1>1 DEF Start, TypeInv, ModelOK, OrderInv, model
<1>2. CASE ReplayNext
  BY <1>0, <1>2, OrderRests DEF ReplayNext, stream, model
<1>3. CASE OwnOffsets
  BY <1>0, <1>3, OrderRests DEF OwnOffsets, model
<1>4. CASE RebuildFails \/ ProcessDies
  BY <1>4 DEF RebuildFails, ColdStart, ProcessDies, OrderInv
<1>5. ASSUME NEW t \in Topics, RunTopic(t) PROVE OrderInv'
  <2>1. stage = "tail"
    BY <1>5, HandType DEF RunTopic, EnsureGroup, ReadPending, ReadNew, LoseReadReply, Reading,
       ApplyEntry, Notify, Acknowledge, LoseAck
  <2>2. stage' = stage
    BY <1>5 DEF RunTopic, EnsureGroup, ReadPending, ReadNew, LoseReadReply,
       ApplyEntry, Notify, Acknowledge, LoseAck, process
  <2>3. QED
    BY <2>1, <2>2 DEF OrderInv
<1>6. CASE GetSituations \/ Reset
  BY <1>6 DEF GetSituations, Reset, Serving, process, OrderInv
<1>7. CASE Publish \/ Subscribe \/ Deliver \/ TakeEvent \/ Leave \/ UNCHANGED vars
  BY <1>0, <1>7, OrderRests DEF Publish, Subscribe, Deliver, TakeEvent, Leave, vars, process, model,
     stream
<1>8. QED
  BY <1>1, <1>2, <1>3, <1>4, <1>5, <1>6, <1>7, OrderReplayEntry DEF Next, Rebuild, Console

(* What was replayed together agrees: when every topic has been read, an   *)
(* occurrence whose outcome was replayed is not shown open, for the topics *)
(* are replayed with the outcomes last (rebuild.py:14-18).                 *)
THEOREM ReplayIsConsistent == Spec => []ReplayAgrees
<1>1. OrderInv => ReplayAgrees
  BY DEF OrderInv, ReplayAgrees, Agreed
<1>2. QED
  BY <1>1, TypeKept, OrderInit, OrderStep, PTL DEF Spec

------------------------------------------------------------------------------
(* A waiting console has missed no change.                                 *)

LEMMA ChangeInit == Init => NoMissedChange
BY DEF Init, NoMissedChange, Away

(* A thread that has no change to tell of leaves the others theirs.        *)
LEMMA OthersNotify ==
  ASSUME NoMissedChange, NEW t \in Topics, thread[t].pc # "notify", UNCHANGED viewer,
         \A v \in Topics : v # t => thread'[v] = thread[v]
  PROVE  NoMissedChange'
BY DEF NoMissedChange

LEMMA ChangeRunTopic ==
  ASSUME TypeInv, NoMissedChange, NEW t \in Topics, RunTopic(t) PROVE NoMissedChange'
<1>0. thread \in [Topics -> Held] /\ viewer \in View
  BY DEF TypeInv, ThreadOK, ViewerOK
<1>1. CASE EnsureGroup(t)
  BY <1>1 DEF EnsureGroup, NoMissedChange
<1>2. CASE ReadPending(t) \/ ReadNew(t) \/ LoseReadReply(t) \/ Acknowledge(t) \/ LoseAck(t)
  <2>1. /\ thread[t].pc \in {"idle", "ack"} /\ UNCHANGED viewer
        /\ \A v \in Topics : v # t => thread'[v] = thread[v]
    BY <1>0, <1>2 DEF ReadPending, ReadNew, LoseReadReply, Acknowledge, LoseAck, Reading
  <2>2. QED
    BY <2>1, OthersNotify
<1>3. CASE ApplyEntry(t)
  <2>1. CASE Applies(thread[t].id)
    <3>1. thread' = [thread EXCEPT ![t].pc = "notify"]
      BY <1>3, <2>1 DEF ApplyEntry
    <3>2. thread'[t].pc = "notify"
      BY <1>0, <3>1 DEF Held
    <3>3. QED
      BY <3>2 DEF NoMissedChange
  <2>2. CASE ~Applies(thread[t].id)
    <3>1. thread[t].pc = "apply" /\ thread' = Handled(t) /\ UNCHANGED viewer
      BY <1>3, <2>2 DEF ApplyEntry
    <3>2. \A v \in Topics : v # t => thread'[v] = thread[v]
      BY <1>0, <3>1, HandledType
    <3>3. QED
      BY <3>1, <3>2, OthersNotify
  <2>3. QED
    BY <2>1, <2>2
<1>4. CASE Notify(t)
  <2>1. CASE viewer.pc = "away"
    BY <1>4, <2>1 DEF Notify, NoMissedChange
  <2>2. CASE viewer.pc # "away"
    <3>1. viewer' = [viewer EXCEPT !.coming = viewer.coming + 1]
      BY <1>4, <2>2 DEF Notify
    <3>2. viewer'.coming > 0
      BY <1>0, <3>1, Bounds DEF View
    <3>3. QED
      BY <3>2 DEF NoMissedChange
  <2>3. QED
    BY <2>1, <2>2
<1>5. QED
  BY <1>1, <1>2, <1>3, <1>4 DEF RunTopic

LEMMA ChangeConsole == ASSUME TypeInv, NoMissedChange, Console PROVE NoMissedChange'
<1>0. viewer \in View
  BY DEF TypeInv, ViewerOK
<1>1. CASE Subscribe \/ Leave
  BY <1>1 DEF Subscribe, Leave, Away, NoMissedChange
<1>2. CASE GetSituations
  <2>1. viewer'.current
    BY <1>0, <1>2 DEF GetSituations, View
  <2>2. QED
    BY <2>1 DEF NoMissedChange
<1>3. CASE Deliver
  <2> DEFINE w == [viewer EXCEPT !.coming = viewer.coming - 1]
  <2>1. w \in [pc : {"away", "stale", "waiting"}, current : BOOLEAN, queue : 0 .. MaxQueue, coming : Int]
        /\ w.queue = viewer.queue
    BY <1>0, Bounds DEF View
  <2>2. viewer' = [w EXCEPT !.queue = Least(viewer.queue + 1, MaxQueue)]
    BY <1>3 DEF Deliver
  <2>3. Least(viewer.queue + 1, MaxQueue) > 0
    BY <1>0, Bounds DEF View, Least
  <2> HIDE DEF w
  <2>4. viewer'.queue > 0
    BY <2>1, <2>2, <2>3
  <2>5. QED
    BY <2>4 DEF NoMissedChange
<1>4. CASE TakeEvent
  <2> DEFINE w == [viewer EXCEPT !.pc = "stale"]
  <2>1. w \in View /\ w.pc = "stale"
    BY <1>0 DEF View
  <2>2. viewer' = [w EXCEPT !.queue = viewer.queue - 1]
    BY <1>4 DEF TakeEvent
  <2> HIDE DEF w
  <2>3. viewer'.pc = "stale"
    BY <2>1, <2>2 DEF View
  <2>4. QED
    BY <2>3 DEF NoMissedChange
<1>5. CASE Reset
  BY <1>5 DEF Reset, NoMissedChange
<1>6. QED
  BY <1>1, <1>2, <1>3, <1>4, <1>5 DEF Console

LEMMA ChangeStep == TypeInv /\ NoMissedChange /\ [Next]_vars => NoMissedChange'
<1> SUFFICES ASSUME TypeInv, NoMissedChange, [Next]_vars PROVE NoMissedChange'
  OBVIOUS
<1>1. CASE Publish \/ Start \/ Rebuild \/ UNCHANGED vars
  <2>1. UNCHANGED <<viewer, thread>>
    BY <1>1 DEF Publish, Start, Rebuild, ReplayEntry, ReplayNext, OwnOffsets, RebuildFails, vars
  <2>2. QED
    BY <2>1 DEF NoMissedChange
<1>2. CASE ProcessDies
  BY <1>2 DEF ProcessDies, Away, NoMissedChange
<1>3. QED
  BY <1>1, <1>2, ChangeRunTopic, ChangeConsole DEF Next

(* A console that waits has fetched the latest change, or will be told of  *)
(* it, for every queue that holds at least one event: a full queue drops   *)
(* its oldest event and takes the new one (projection.py:93-115).          *)
THEOREM NoChangeMissed == Spec => []NoMissedChange
BY TypeKept, ChangeInit, ChangeStep, PTL DEF Spec

------------------------------------------------------------------------------
(* A card never goes backwards.                                            *)

LEMMA ProgressType ==
  ASSUME NEW status \in Statuses
  PROVE  /\ Progress(status) \in 0 .. 2
         /\ status \in Evictable <=> Progress(status) = 2
         /\ status = "diagnosed" => Progress(status) = 1
         /\ status = "detected" => Progress(status) = 0
BY DEF Progress, Statuses, Evictable

(* What is folded into a card that is shown: the same occurrence keeps its *)
(* status, and only a later one starts again.                              *)
LEMMA FoldedForward ==
  ASSUME NEW e, e.first \in Ids, NEW c \in Card, cards[e.sit] = c, ~Stale(e)
  PROVE  /\ Folded(e) \in Card /\ Folded(e).first = e.first /\ e.first >= c.first
         /\ e.first = c.first => Folded(e).status = c.status
<1>1. c.first \in Ids /\ c # NoCard /\ c.status \in Statuses
  <2>1. c.first \in Ids /\ c.status \in Statuses
    BY DEF Card
  <2>2. QED
    BY <2>1, Bounds DEF NoCard, None, Ids
<1>2. e.first >= c.first
  BY <1>1, Bounds DEF Stale, Ids
<1>3. e.first = c.first => Existing(e) = c
  BY <1>1, Bounds DEF Existing, Ids
<1> DEFINE x == Existing(e)
           st == IF x.first = e.first THEN x.status ELSE "detected"
           y == [x EXCEPT !.first = e.first]
<1>4. x \in Card
  <2>1. Blank(e.first) \in Card
    BY DEF Blank, Card, Statuses
  <2>2. QED
    BY <2>1 DEF Existing
<1>5. y \in Card /\ st \in Statuses /\ y.first = e.first
  BY <1>4 DEF Card, Statuses
<1>6. Folded(e) = [y EXCEPT !.status = st]
  BY <1>4 DEF Folded, Card
<1>7. e.first = c.first => st = c.status
  BY <1>3
<1> HIDE DEF y, st
<1>8. Folded(e) \in Card /\ Folded(e).first = e.first /\ Folded(e).status = st
  BY <1>5, <1>6 DEF Card
<1>9. QED
  BY <1>2, <1>7, <1>8

LEMMA DiagnosedForward ==
  ASSUME NEW e, e.first \in Ids, NEW c \in Card, cards[e.sit] = c, ~Stale(e)
  PROVE  /\ Diagnosed(e) \in Card /\ Diagnosed(e).first = e.first /\ e.first >= c.first
         /\ e.first = c.first => Progress(Diagnosed(e).status) >= Progress(c.status)
<1> DEFINE f == Folded(e)
           st == IF f.status = "detected" THEN "diagnosed" ELSE f.status
           y == [f EXCEPT !.hyps = e.first]
<1>1. /\ f \in Card /\ f.first = e.first /\ e.first >= c.first
      /\ e.first = c.first => f.status = c.status
  BY FoldedForward
<1>2. Diagnosed(e) = [y EXCEPT !.status = st]
  <2> HIDE DEF f
  <2>1. Diagnosed(e) = [[f EXCEPT !.hyps = e.first] EXCEPT !.status = st]
    BY <1>1 DEF Diagnosed, Card, f
  <2>2. QED
    BY <2>1
<1> HIDE DEF f
<1>3. y \in Card /\ y.first = f.first /\ st \in Statuses /\ f.status \in Statuses
  BY <1>1 DEF Card, Statuses
<1>4. Progress(st) >= Progress(f.status)
  BY <1>3, ProgressType DEF Statuses
<1> HIDE DEF y, st
<1>5. Diagnosed(e) \in Card /\ Diagnosed(e).first = e.first /\ Diagnosed(e).status = st
  BY <1>1, <1>2, <1>3 DEF Card
<1>6. QED
  BY <1>1, <1>4, <1>5

(* What a step may do to a card that is shown.                             *)
Forward(s) ==
  IF cards'[s] = NoCard THEN (AllGone /\ outcomes' = <<>>) \/ Progress(cards[s].status) = 2
  ELSE /\ cards'[s].first >= cards[s].first
       /\ cards'[s].first = cards[s].first =>
            Progress(cards'[s].status) >= Progress(cards[s].status)

LEMMA ShownCard ==
  ASSUME TypeInv, NEW s \in Shown
  PROVE  /\ s \in Situations /\ cards[s] \in Card /\ cards[s].first \in Nat
         /\ cards[s].status \in Statuses /\ cards[s] # NoCard
<1>1. s \in Situations /\ cards[s] \in Card
  BY DEF Shown, TypeInv, ModelOK
<1>2. QED
  BY <1>1, Bounds DEF Shown, Card, Ids

LEMMA CardRests ==
  ASSUME TypeInv, NEW s \in Shown, cards'[s] = cards[s] PROVE Forward(s)
<1>1. cards[s] # NoCard /\ cards[s].first \in Nat /\ cards[s].status \in Statuses
  BY ShownCard
<1>2. Progress(cards[s].status) \in Nat
  BY <1>1, ProgressType
<1> HIDE DEF Progress
<1>3. QED
  BY <1>1, <1>2 DEF Forward

LEMMA CardIsCard == ASSUME NEW c \in Card PROVE c # NoCard
BY Bounds DEF Card, NoCard, Ids, None

LEMMA ForwardApply ==
  ASSUME TypeInv, NEW i \in 1 .. published, Apply(i), NEW s \in Shown PROVE Forward(s)
<1> DEFINE e == history[i]
           c == cards[s]
<1>1. c \in Card /\ c.first \in Nat /\ c.status \in Statuses /\ e.first \in Ids /\ s \in Situations
      /\ c # NoCard
  BY ShownCard, CardType
<1>2. Progress(c.status) \in 0 .. 2
  BY <1>1, ProgressType
<1>3. \/ cards'[s] = cards[s]
      \/ e.sit = s /\ Applies(i) /\ e.topic = "detected" /\ cards'[s] = Folded(e)
      \/ e.sit = s /\ Applies(i) /\ e.topic = "diagnosed" /\ cards'[s] = Diagnosed(e)
      \/ e.sit = s /\ e.topic = "outcomes" /\ cards'[s] = Closed(e, i)
  BY <1>1, ApplyEffect
<1> HIDE DEF e, c
<1>4. CASE e.sit = s /\ Applies(i) /\ e.topic = "detected" /\ cards'[s] = Folded(e)
  <2>1. ~Stale(e) /\ cards[e.sit] = c
    BY <1>4 DEF Applies, e, c
  <2>2. /\ Folded(e) \in Card /\ Folded(e).first = e.first /\ e.first >= c.first
        /\ e.first = c.first => Folded(e).status = c.status
    BY <1>1, <2>1, FoldedForward
  <2>3. cards'[s] # NoCard
    BY <1>4, <2>2, CardIsCard
  <2>4. QED
    BY <1>2, <1>4, <2>2, <2>3 DEF Forward, c
<1>5. CASE e.sit = s /\ Applies(i) /\ e.topic = "diagnosed" /\ cards'[s] = Diagnosed(e)
  <2>1. ~Stale(e) /\ cards[e.sit] = c
    BY <1>5 DEF Applies, e, c
  <2>2. /\ Diagnosed(e) \in Card /\ Diagnosed(e).first = e.first /\ e.first >= c.first
        /\ e.first = c.first => Progress(Diagnosed(e).status) >= Progress(c.status)
    BY <1>1, <2>1, DiagnosedForward
  <2>3. cards'[s] # NoCard
    BY <1>5, <2>2, CardIsCard
  <2>4. QED
    BY <1>5, <2>2, <2>3 DEF Forward, c
<1>6. CASE e.sit = s /\ e.topic = "outcomes" /\ cards'[s] = Closed(e, i)
  <2>1. Closed(e, i) = [[[c EXCEPT !.status = StatusOf(e.result)] EXCEPT !.activity = i]
                          EXCEPT !.outcome = e.first]
    BY <1>1, <1>6 DEF Closed, c
  <2>2. Closed(e, i).status = StatusOf(e.result) /\ Closed(e, i).first = c.first
    BY <1>1, <2>1 DEF Card
  <2>3. StatusOf(e.result) \in Statuses /\ StatusOf(e.result) \in Evictable
    BY DEF StatusOf, Statuses, Evictable
  <2>4. Progress(Closed(e, i).status) = 2
    BY <2>2, <2>3, ProgressType
  <2>5. cards'[s] # NoCard
    <3>1. Closed(e, i).first # 0
      BY <1>1, <2>2, Bounds DEF Card, Ids
    <3>2. QED
      BY <1>6, <3>1 DEF NoCard, None
  <2>6. QED
    BY <1>1, <1>2, <1>6, <2>2, <2>4, <2>5 DEF Forward, c
<1>7. QED
  BY <1>3, <1>4, <1>5, <1>6, CardRests

LEMMA ForwardEmptied == ASSUME NEW s \in Shown, Emptied PROVE Forward(s)
BY DEF Emptied, Forward, AllGone, Shown

LEMMA ForwardGetSituations ==
  ASSUME TypeInv, GetSituations, NEW s \in Shown PROVE Forward(s)
<1>0. PICK now \in 0 .. published :
        \E D \in OverCap(Shown \ AgedOut(now)) : Without(D \cup AgedOut(now))
  BY DEF GetSituations
<1>1. PICK D \in OverCap(Shown \ AgedOut(now)) : Without(D \cup AgedOut(now))
  BY <1>0
<1>2. s \in Situations /\ cards[s].status \in Statuses /\ cards[s] # NoCard
  BY ShownCard
<1>3. cards'[s] = IF s \in D \cup AgedOut(now) THEN NoCard ELSE cards[s]
  BY <1>1, <1>2 DEF Without
<1>4. CASE s \in D
  <2>1. D \subseteq EvictableOf(Shown \ AgedOut(now))
    BY <1>1 DEF OverCap
  <2>2. cards[s].status \in Evictable
    BY <1>4, <2>1 DEF EvictableOf
  <2>3. QED
    BY <1>2, <1>3, <1>4, <2>2, ProgressType DEF Forward
<1>5. CASE s \in AgedOut(now)
  <2>1. cards[s].status \in Evictable
    BY <1>5 DEF AgedOut, Terminal, Evictable
  <2>2. QED
    BY <1>2, <1>3, <1>5, <2>1, ProgressType DEF Forward
<1>6. CASE s \notin D \cup AgedOut(now)
  BY <1>3, <1>6, CardRests
<1>7. QED
  BY <1>4, <1>5, <1>6

LEMMA ForwardStep ==
  ASSUME TypeInv, [Next]_vars, NEW s \in Shown PROVE Forward(s)
<1>1. CASE UNCHANGED cards
  BY <1>1, CardRests
<1>2. CASE ReplayEntry
  <2>1. CASE ColdStart
    BY <2>1, ForwardEmptied DEF ColdStart
  <2>2. CASE ~ColdStart
    <3>1. First(NextOf(Replaying, At)) \in 1 .. published
      BY <1>2, ReplayNextEntry DEF ReplayEntry
    <3>2. Apply(First(NextOf(Replaying, At)))
      BY <1>2, <2>2 DEF ReplayEntry
    <3>3. QED
      BY <3>1, <3>2, ForwardApply
  <2>3. QED
    BY <2>1, <2>2
<1>3. CASE RebuildFails \/ ProcessDies
  BY <1>3, ForwardEmptied DEF RebuildFails, ColdStart, ProcessDies
<1>4. CASE Reset
  BY <1>4 DEF Reset, Forward, AllGone, Shown
<1>5. ASSUME NEW t \in Topics, ApplyEntry(t) PROVE Forward(s)
  BY <1>5, HandType, ForwardApply DEF ApplyEntry
<1>6. CASE \/ Publish \/ Start \/ ReplayNext \/ OwnOffsets
           \/ Subscribe \/ Deliver \/ TakeEvent \/ Leave \/ UNCHANGED vars
  BY <1>1, <1>6 DEF Publish, Start, ReplayNext, OwnOffsets, Subscribe, Deliver, TakeEvent, Leave,
     vars, model
<1>7. ASSUME NEW t \in Topics,
             \/ EnsureGroup(t) \/ ReadPending(t) \/ ReadNew(t) \/ LoseReadReply(t)
             \/ Notify(t) \/ Acknowledge(t) \/ LoseAck(t)
      PROVE  Forward(s)
  BY <1>1, <1>7 DEF EnsureGroup, ReadPending, ReadNew, LoseReadReply, Notify, Acknowledge, LoseAck,
     model
<1>8. QED
  BY <1>2, <1>3, <1>4, <1>5, <1>6, <1>7, ForwardGetSituations DEF Next, Rebuild, RunTopic, Console

(* However the topics are interleaved and whatever is delivered again, a   *)
(* card never goes back to an earlier occurrence or an earlier stage of    *)
(* the same one, and an incident still open leaves only when everything is *)
(* dropped (projection.py:123-140, 295-320).                               *)
THEOREM NoCardGoesBack == Spec => NeverBackwards
<1>1. TypeInv /\ [Next]_vars =>
        [\A s \in Shown :
           IF cards'[s] = NoCard
           THEN (AllGone /\ outcomes' = <<>>) \/ Progress(cards[s].status) = 2
           ELSE /\ cards'[s].first >= cards[s].first
                /\ cards'[s].first = cards[s].first =>
                     Progress(cards'[s].status) >= Progress(cards[s].status)]_vars
  BY ForwardStep DEF Forward
<1>2. QED
  BY <1>1, TypeKept, PTL DEF Spec, NeverBackwards

================================================================================
