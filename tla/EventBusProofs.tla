---------------------------- MODULE EventBusProofs ----------------------------
(***************************************************************************)
(* What EventBus promises for every bound, every number of attempts, every *)
(* drain batch and every guard.                                            *)
(***************************************************************************)
EXTENDS EventBus, FiniteSetTheorems, TLAPS

USE BusAssumption DEF Entries

(* The consumer is between taking an entry and coming back for the next.   *)
Busy == {"park", "parkAck", "decode", "handle", "mark", "resume"}

------------------------------------------------------------------------------
(* Types.  An entry really is in hand while the consumer is busy with one. *)
TypeInv == TypeOK /\ (pc \in Busy => cur \in Held)

(* Reading one entry, or the pending ones, yields entries as they are held. *)
LEMMA HeldAsIsHeld ==
  ASSUME TypeOK, NEW e \in 1 .. Len(stream)
  PROVE  HeldAs(e) \in Held
BY SMTT(20) DEF TypeOK, HeldAs, Held, Kinds

(* Counting one more of an entry.                                          *)
LEMMA OneMore ==
  ASSUME NEW f \in [Entries -> Nat], NEW e \in Entries
  PROVE  [f EXCEPT ![e] = @ + 1] \in [Entries -> Nat]
OBVIOUS

LEMMA TypeInit == Init => TypeInv
BY DEF Init, TypeInv, TypeOK, Busy, Nothing, Pcs, Kinds, AtLeastOnce

LEMMA TypeStep == TypeInv /\ [Next]_vars => TypeInv'
<1> SUFFICES ASSUME TypeInv, [Next]_vars PROVE TypeInv'
    OBVIOUS
<1> USE DEF TypeInv
<1>1. CASE UNCHANGED vars
  BY <1>1 DEF vars, redis, frame, history, TypeOK, Busy
<1>2. ASSUME NEW k \in Kinds, Publish(k) PROVE TypeInv'
  <2>1. first' \in Nat \ {0}
    BY <1>2 DEF Publish, TypeOK
  <2>2. stream' \in Seq(Kinds) /\ Len(stream') = Len(stream) + 1
    BY <1>2 DEF Publish, TypeOK
  <2>3. last' \in 0 .. Len(stream') /\ Len(stream') <= MaxEntries
    BY <1>2, <2>2 DEF Publish, TypeOK
  <2>4. QED BY <1>2, <2>1, <2>2, <2>3 DEF Publish, TypeOK, Busy, frame, history
<1>3. CASE EnsureGroup
  BY <1>3 DEF EnsureGroup, TypeOK, Busy, Pcs, redis, history
<1>4. CASE ReadPending
  <2>1. batch' \subseteq Held
    <3>1. \A e \in pel : e \in 1 .. Len(stream)
      BY DEF TypeOK
    <3>2. QED BY <1>4, <3>1, HeldAsIsHeld DEF ReadPending
  <2>2. QED BY <1>4, <2>1 DEF ReadPending, TypeOK, Busy, Pcs, redis, history
<1>5. CASE ReadNew
  <2>1. PICK e \in Entries : NextNew(e) /\ last' = e /\ pel' = pel \cup {e}
                             /\ batch' = {HeldAs(e)}
    BY <1>5 DEF ReadNew
  <2>2. e \in 1 .. Len(stream) /\ last < e
    BY <2>1 DEF NextNew, TypeOK
  <2>3. batch' \subseteq Held
    BY <2>1, <2>2, HeldAsIsHeld
  <2>4. last' \in 0 .. Len(stream) /\ pel' \subseteq 1 .. last'
    BY <2>1, <2>2, SMTT(20) DEF TypeOK
  <2>5. /\ pc' = "entries"
        /\ UNCHANGED <<stream, first, attempts, dlq, claim, cur, drained, history,
                       faults>>
    BY <1>5 DEF ReadNew
  <2>6. QED BY <2>3, <2>4, <2>5 DEF TypeOK, Busy, Pcs, history
<1>6. ASSUME NEW x \in batch, AckOnTake(x) PROVE TypeInv'
  BY <1>6 DEF AckOnTake, Take, Foremost, TypeOK, Busy, Pcs, history
<1>7. ASSUME NEW x \in batch, CountAttempt(x) PROVE TypeInv'
  <2>1. x \in Held /\ x.id \in Entries
    BY <1>7 DEF TypeOK, Held
  <2>2. attempts' \in [Entries -> Nat]
    <3>1. attempts \in [Entries -> Nat]
      BY DEF TypeOK
    <3>2. \/ attempts' = attempts
          \/ attempts' = [attempts EXCEPT ![x.id] = @ + 1]
      BY <1>7 DEF CountAttempt
    <3>3. [attempts EXCEPT ![x.id] = @ + 1] \in [Entries -> Nat]
      BY <2>1, <3>1, OneMore
    <3>4. QED BY <3>1, <3>2, <3>3
  <2>3. /\ pc' \in {"park", "decode"} /\ cur' = x /\ batch' \subseteq batch
        /\ UNCHANGED <<stream, first, last, pel, dlq, claim, drained, history, faults>>
    BY <1>7 DEF CountAttempt, Take
  <2>4. QED BY <2>1, <2>2, <2>3 DEF TypeOK, Busy, Pcs, history
<1>8. CASE Park
  <2>1. cur.id \in Entries
    BY <1>8 DEF Park, Busy, Held
  <2>2. dlq' \subseteq Entries \X {"decode", "attempts"}
    BY <1>8, <2>1 DEF Park, TypeOK
  <2>3. QED BY <1>8, <2>1, <2>2 DEF Park, TypeOK, Busy, Pcs, history
<1>9. ASSUME pc \in {"parkAck", "resume"}, Acknowledge,
             UNCHANGED <<claim, history, faults>>
      PROVE  TypeInv'
  <2>1. cur.id \in Entries
    BY <1>9 DEF Busy, Held
  <2>2. QED BY <1>9, <2>1 DEF Acknowledge, NextEntry, TypeOK, Busy, Pcs, history
<1>10. CASE ParkUndecodable
  <2>1. cur.id \in Entries
    BY <1>10 DEF ParkUndecodable, Busy, Held
  <2>2. dlq' \subseteq Entries \X {"decode", "attempts"}
    BY <1>10, <2>1 DEF ParkUndecodable, TypeOK
  <2>3. QED BY <1>10, <2>1, <2>2 DEF ParkUndecodable, TypeOK, Busy, Pcs, history
<1>11. CASE RaiseUndecodable \/ HandlerRaises
  BY <1>11
  DEF RaiseUndecodable, HandlerRaises, TypeOK, Abandon, AtLeastOnce, Busy, Pcs,
      redis, history
<1>12. CASE SkipDone
  BY <1>12 DEF SkipDone, Decoded, TypeOK, Busy, Pcs, redis, history
<1>13. CASE StartHandler
  <2>1. cur.id \in Entries
    BY <1>13 DEF StartHandler, Decoded, Busy, Held
  <2>2. started' \in [Entries -> Nat]
    <3>1. started' = [started EXCEPT ![cur.id] = @ + 1]
      BY <1>13 DEF StartHandler
    <3>2. started \in [Entries -> Nat]
      BY DEF TypeOK
    <3>3. QED BY <2>1, <3>1, <3>2, OneMore
  <2>3. claim' \in [Entries -> {"none", "claimed", "done"}]
    <3>1. claim \in [Entries -> {"none", "claimed", "done"}]
      BY DEF TypeOK
    <3>2. \/ claim' = claim
          \/ claim' = [claim EXCEPT ![cur.id] = "claimed"]
      BY <1>13 DEF StartHandler
    <3>3. QED BY <2>1, <3>1, <3>2
  <2>4. QED BY <1>13, <2>2, <2>3 DEF StartHandler, Decoded, TypeOK, Busy, Pcs, redis
<1>14. CASE HandlerReturns
  <2>1. cur.id \in Entries
    BY <1>14 DEF HandlerReturns, Busy, Held
  <2>2. finished' \in [Entries -> Nat]
    <3>1. finished' = [finished EXCEPT ![cur.id] = @ + 1]
      BY <1>14 DEF HandlerReturns
    <3>2. finished \in [Entries -> Nat]
      BY DEF TypeOK
    <3>3. QED BY <2>1, <3>1, <3>2, OneMore
  <2>3. QED BY <1>14, <2>2 DEF HandlerReturns, TypeOK, Busy, Pcs, redis
<1>15. CASE MarkDone
  <2>1. cur.id \in Entries
    BY <1>15 DEF MarkDone, Busy, Held
  <2>2. QED BY <1>15, <2>1 DEF MarkDone, TypeOK, Busy, Pcs, redis, history
<1>16. CASE Resume
  <2>1. CASE AtLeastOnce
    BY <1>9, <1>16, <2>1 DEF Resume
  <2>2. CASE ~AtLeastOnce
    BY <1>16, <2>2 DEF Resume, NextEntry, TypeOK, Busy, Pcs, redis, history
  <2>3. QED BY <2>1, <2>2
<1>17. CASE Restart
  BY <1>17
  DEF Restart, TypeOK, Abandon, AtLeastOnce, Busy, Pcs, redis, history
<1>18. CASE Disconnect \/ ThreadDies
  <2>1. faults' \in 0 .. MaxFaults
    BY <1>18 DEF Disconnect, ThreadDies, Fault, TypeOK
  <2>2. \E next \in {"down", "ensure"} : Abandon(next)
    BY <1>18 DEF Disconnect, ThreadDies
  <2>3. UNCHANGED <<redis, claim, history>>
    BY <1>18 DEF Disconnect, ThreadDies
  <2>4. QED
    BY <2>1, <2>2, <2>3 DEF TypeOK, Abandon, AtLeastOnce, Busy, Pcs, redis, history
<1>19. CASE LoseAckReply
  <2>1. faults' \in 0 .. MaxFaults
    BY <1>19 DEF LoseAckReply, Fault, TypeOK
  <2>2. QED
    BY <1>19, <2>1
    DEF LoseAckReply, TypeOK, Abandon, AtLeastOnce, Busy, Pcs, history
<1>22. CASE LoseCountReply
  <2>1. PICK x \in batch : attempts' = [attempts EXCEPT ![x.id] = @ + 1]
    BY <1>22 DEF LoseCountReply
  <2>2. x.id \in Entries
    BY <2>1 DEF TypeOK, Held
  <2>3. attempts' \in [Entries -> Nat]
    <3>1. attempts \in [Entries -> Nat]
      BY DEF TypeOK
    <3>2. [attempts EXCEPT ![x.id] = @ + 1] \in [Entries -> Nat]
      BY <2>2, <3>1, OneMore
    <3>3. QED BY <2>1, <3>2
  <2>4. faults' \in 0 .. MaxFaults
    BY <1>22 DEF LoseCountReply, Fault, TypeOK
  <2>5. QED
    BY <1>22, <2>3, <2>4
    DEF LoseCountReply, TypeOK, Abandon, AtLeastOnce, Busy, Pcs, history
<1>20. CASE LoseReadReply
  <2>1. PICK e \in Entries : NextNew(e) /\ last' = e /\ pel' = pel \cup {e}
    BY <1>20 DEF LoseReadReply
  <2>2. last' \in 0 .. Len(stream) /\ pel' \subseteq 1 .. last'
    <3>1. e \in 1 .. Len(stream) /\ last < e
      BY <2>1 DEF NextNew, TypeOK
    <3>2. pel \subseteq 1 .. e
      BY <3>1 DEF TypeOK
    <3>3. QED BY <2>1, <3>1, <3>2
  <2>3. faults' \in 0 .. MaxFaults
    BY <1>20 DEF LoseReadReply, Fault, TypeOK
  <2>4. QED
    BY <1>20, <2>2, <2>3
    DEF LoseReadReply, TypeOK, Abandon, AtLeastOnce, Busy, Pcs, history
<1>21. CASE ProcessDies
  <2>1. faults' \in 0 .. MaxFaults
    BY <1>21 DEF ProcessDies, Fault, TypeOK
  <2>2. claim' \in [Entries -> {"none", "claimed", "done"}]
    BY <1>21 DEF ProcessDies, TypeOK
  <2>3. pc' = "down" /\ batch' = {} /\ cur' = Nothing /\ drained' = ~AtLeastOnce
    BY <1>21 DEF ProcessDies, Abandon
  <2>4. UNCHANGED <<redis, history>>
    BY <1>21 DEF ProcessDies
  <2>5. QED
    BY <2>1, <2>2, <2>3, <2>4 DEF TypeOK, AtLeastOnce, Busy, Pcs, redis, history
<1>23. QED
  BY <1>1, <1>2, <1>3, <1>4, <1>5, <1>6, <1>7, <1>8, <1>9, <1>10, <1>11, <1>12,
     <1>13, <1>14, <1>15, <1>16, <1>17, <1>18, <1>19, <1>20, <1>21, <1>22
  DEF Next, Consume, Faulty, AckParked

(* Type correctness, whatever the configuration.                           *)
THEOREM TypeCorrect == Spec => []TypeInv
<1>1. QED BY TypeInit, TypeStep, PTL DEF Spec

------------------------------------------------------------------------------
(* At most once.  What has been read and not yet given to the handler was  *)
(* never given to it before, and there is at most one such entry.          *)
Unhandled(e) == started[e] = 0

AmoInv ==
  /\ drained = TRUE
  /\ \A e \in Entries : started[e] <= 1
  /\ \A e \in Entries : e > last => Unhandled(e)
  /\ pc = "entries" => \E x \in Held : batch = {x} /\ x.id <= last /\ Unhandled(x.id)
  /\ pc \in Busy => batch = {} /\ cur.id <= last
  /\ pc = "decode" => Unhandled(cur.id)

LEMMA AmoInit == ASSUME Delivery = "at_most_once" PROVE Init => AmoInv
<1> SUFFICES ASSUME Init PROVE AmoInv
    OBVIOUS
<1>1. drained = TRUE
  BY DEF Init, AtLeastOnce
<1>2. pc = "ensure" /\ \A e \in Entries : started[e] = 0
  BY DEF Init
<1>3. QED BY <1>1, <1>2 DEF AmoInv, Unhandled, Busy

LEMMA AmoStep ==
  ASSUME Delivery = "at_most_once", TypeInv, AmoInv, [Next]_vars
  PROVE  AmoInv'
<1> USE DEF AtLeastOnce
<1>1. CASE UNCHANGED vars
  BY <1>1 DEF vars, redis, frame, history, AmoInv, Unhandled
<1>2. ASSUME NEW k \in Kinds, Publish(k) PROVE AmoInv'
  BY <1>2 DEF Publish, frame, history, AmoInv, Unhandled
<1>3. CASE EnsureGroup \/ SkipDone
  BY <1>3 DEF EnsureGroup, SkipDone, Decoded, redis, history, AmoInv, Unhandled, Busy
<1>4. CASE ReadPending
  BY <1>4 DEF ReadPending, AmoInv
<1>5. CASE ReadNew
  <2>1. PICK e \in Entries : NextNew(e) /\ last' = e /\ batch' = {HeldAs(e)}
    BY <1>5 DEF ReadNew
  <2>2. e \in 1 .. Len(stream) /\ last < e
    BY <2>1 DEF NextNew, TypeInv, TypeOK
  <2>3. HeldAs(e) \in Held /\ HeldAs(e).id = e
    BY <2>2, HeldAsIsHeld DEF HeldAs, TypeInv
  <2>4. Unhandled(e)
    BY <2>1, <2>2 DEF AmoInv
  <2>5. \A d \in Entries : d > last' => Unhandled(d)
    BY <2>1, <2>2 DEF AmoInv, TypeInv, TypeOK
  <2>6. QED
    BY <1>5, <2>1, <2>3, <2>4, <2>5 DEF ReadNew, history, AmoInv, Unhandled, Busy
<1>6. ASSUME NEW x \in batch, AckOnTake(x) PROVE AmoInv'
  <2>1. batch = {x} /\ x.id <= last /\ Unhandled(x.id)
    BY <1>6 DEF AckOnTake, Take, Foremost, AmoInv
  <2>2. batch' = {} /\ cur' = x /\ pc' = "decode"
    BY <1>6, <2>1 DEF AckOnTake, Take, Foremost
  <2>3. QED
    BY <1>6, <2>1, <2>2 DEF AckOnTake, history, AmoInv, Unhandled, Busy
<1>7. CASE \E x \in batch : CountAttempt(x)
  BY <1>7 DEF CountAttempt
<1>8. CASE Park \/ ParkUndecodable \/ HandlerReturns \/ MarkDone
  BY <1>8
  DEF Park, ParkUndecodable, HandlerReturns, MarkDone, redis, history, AmoInv,
      Unhandled, Busy
<1>9. CASE AckParked \/ Resume
  <2>1. /\ batch' = {} /\ pc' = "read" /\ UNCHANGED <<last, drained, started>>
    BY <1>9
    DEF AckParked, Resume, Acknowledge, NextEntry, redis, history, AmoInv, Busy
  <2>2. QED BY <2>1 DEF AmoInv, Unhandled, Busy
<1>10. CASE StartHandler
  <2>1. cur.id \in Entries /\ Unhandled(cur.id) /\ cur.id <= last
    BY <1>10 DEF StartHandler, Decoded, AmoInv, TypeInv, Busy, Held
  <2>2. /\ started' = [started EXCEPT ![cur.id] = @ + 1]
        /\ pc = "decode" /\ pc' = "handle"
        /\ UNCHANGED <<last, batch, cur, drained>>
    BY <1>10 DEF StartHandler, Decoded, redis
  <2>3. started \in [Entries -> Nat] /\ started[cur.id] = 0
    BY <2>1 DEF TypeInv, TypeOK, Unhandled
  <2>4. /\ started'[cur.id] = 1
        /\ \A e \in Entries \ {cur.id} : started'[e] = started[e]
    BY <2>1, <2>2, <2>3
  <2>5. \A e \in Entries : started'[e] <= 1
    BY <2>4 DEF AmoInv
  <2>6. \A e \in Entries : e > last' => started'[e] = 0
    BY <2>1, <2>2, <2>4, SMTT(20) DEF AmoInv, Unhandled, TypeInv, TypeOK
  <2>7. QED
    BY <2>1, <2>2, <2>5, <2>6 DEF AmoInv, Unhandled, Busy
<1>11. CASE RaiseUndecodable \/ HandlerRaises \/ Restart \/ Faulty
  <2>1. \E next \in {"down", "ensure"} : Abandon(next)
    BY <1>11
    DEF RaiseUndecodable, HandlerRaises, Restart, Faulty, Disconnect, ThreadDies,
        LoseAckReply, LoseCountReply, LoseReadReply, ProcessDies
  <2>2. UNCHANGED started
    BY <1>11
    DEF RaiseUndecodable, HandlerRaises, Restart, Faulty, Disconnect, ThreadDies,
        LoseAckReply, LoseCountReply, LoseReadReply, ProcessDies, history
  <2>3. last' >= last
    <3>1. CASE LoseReadReply
      BY <3>1 DEF LoseReadReply, NextNew, TypeInv, TypeOK
    <3>2. CASE ~LoseReadReply
      BY <1>11, <3>2
      DEF RaiseUndecodable, HandlerRaises, Restart, Faulty, Disconnect, ThreadDies,
          LoseAckReply, LoseCountReply, ProcessDies, redis, TypeInv, TypeOK
    <3>3. QED BY <3>1, <3>2
  <2>4. last' \in Nat /\ last \in Nat
    <3>1. TypeInv'
      BY TypeStep
    <3>2. QED BY <3>1 DEF TypeInv, TypeOK
  <2>5. pc' \notin Busy \cup {"entries"} /\ drained' = TRUE
    BY <2>1 DEF Abandon, Busy
  <2>6. \A e \in Entries : e > last' => Unhandled(e)'
    BY <2>2, <2>3, <2>4 DEF AmoInv, Unhandled
  <2>7. QED
    BY <2>2, <2>5, <2>6 DEF AmoInv, Busy
<1>12. QED
  BY <1>1, <1>2, <1>3, <1>4, <1>5, <1>6, <1>7, <1>8, <1>9, <1>10, <1>11
  DEF Next, Consume

(* At most once delivery never gives one entry to its handler twice,       *)
(* whatever is lost, crashes or reconnects.                                *)
THEOREM AtMostOnceHolds ==
  ASSUME Delivery = "at_most_once" PROVE Spec => []AtMostOnce
<1>1. AmoInv => AtMostOnce
  BY DEF AmoInv, AtMostOnce
<1>2. QED BY TypeInit, TypeStep, AmoInit, AmoStep, <1>1, PTL DEF Spec

------------------------------------------------------------------------------
(* At least once over a stream that keeps its entries.  The last entry     *)
(* given to the group is the only one that can be pending: the tail is     *)
(* read only when nothing is, and whoever starts over reads what is        *)
(* pending before the tail.                                                *)
SettledEntry(e) == Handled(e) \/ Parked(e)

AloInv ==
  /\ first = 1
  /\ pel \subseteq {last}
  /\ \A e \in 1 .. last : e \notin pel => SettledEntry(e)
  /\ pc = "read" /\ drained = TRUE => pel = {}
  /\ pc \in {"down", "ensure"} => drained = FALSE
  /\ pc = "entries" => \E x \in Held : batch = {x} /\ x.id = last
  /\ pc \in Busy => batch = {} /\ cur.id = last
  /\ pc = "parkAck" => Parked(cur.id)
  /\ pc = "mark" => Handled(cur.id)
  /\ pc = "resume" => SettledEntry(cur.id)
  /\ \A e \in Entries : claim[e] = "done" => Handled(e)
  /\ \A e \in Entries : started[e] > 0 => e <= last

LEMMA AloInit ==
  ASSUME Delivery = "at_least_once", StreamMaxlen = 0 PROVE Init => AloInv
<1> SUFFICES ASSUME Init PROVE AloInv
    OBVIOUS
<1>1. drained = FALSE
  BY DEF Init, AtLeastOnce
<1>2. /\ first = 1 /\ last = 0 /\ pel = {} /\ pc = "ensure"
      /\ \A e \in Entries : started[e] = 0 /\ claim[e] = "none"
  BY DEF Init
<1>3. QED BY <1>1, <1>2 DEF AloInv, Busy

(* What is settled stays settled.                                          *)
LEMMA SettledStays ==
  ASSUME TypeInv, [Next]_vars, NEW e \in Entries
  PROVE  (Handled(e) => Handled(e)') /\ (Parked(e) => Parked(e)')
<1>1. finished' = finished \/ \E d \in Entries :
                                finished' = [finished EXCEPT ![d] = @ + 1]
  <2>1. CASE HandlerReturns
    BY <2>1 DEF HandlerReturns, TypeInv, Busy, Held
  <2>2. CASE ~HandlerReturns
    BY <2>2
    DEF Next, vars, Consume, Faulty, Publish, EnsureGroup, ReadPending, ReadNew,
        AckOnTake, CountAttempt, Park, AckParked, ParkUndecodable,
        RaiseUndecodable, SkipDone, StartHandler, HandlerRaises, MarkDone, Resume,
        Restart, Disconnect, LoseAckReply, LoseCountReply, LoseReadReply, ThreadDies, ProcessDies,
        history
  <2>3. QED BY <2>1, <2>2
<1>2. dlq \subseteq dlq'
  BY DEF Next, vars, Consume, Faulty, Publish, EnsureGroup, ReadPending, ReadNew,
         AckOnTake, CountAttempt, Park, AckParked, ParkUndecodable,
         RaiseUndecodable, SkipDone, StartHandler, HandlerReturns, HandlerRaises,
         MarkDone, Resume, Acknowledge, Restart, Disconnect, LoseAckReply, LoseCountReply,
         LoseReadReply, ThreadDies, ProcessDies, redis
<1>3. Handled(e) => Handled(e)'
  <2>1. finished \in [Entries -> Nat]
    BY DEF TypeInv, TypeOK
  <2>2. CASE finished' = finished
    BY <2>2 DEF Handled
  <2>3. ASSUME NEW d \in Entries, finished' = [finished EXCEPT ![d] = @ + 1]
        PROVE  Handled(e) => Handled(e)'
    BY <2>1, <2>3 DEF Handled
  <2>4. QED BY <1>1, <2>2, <2>3
<1>4. QED BY <1>2, <1>3 DEF Parked

LEMMA AloStep ==
  ASSUME Delivery = "at_least_once", StreamMaxlen = 0, TypeInv, AloInv, [Next]_vars
  PROVE  AloInv'
<1> USE DEF AtLeastOnce
<1>a. last \in Nat /\ Len(stream) \in Nat /\ last <= Len(stream)
      /\ Len(stream) <= MaxEntries
  BY DEF TypeInv, TypeOK
<1>b. \A e \in Entries : SettledEntry(e) => SettledEntry(e)'
  BY SettledStays DEF SettledEntry
<1>c. \A e \in Entries : Handled(e) => Handled(e)'
  BY SettledStays
<1>d. 1 .. last \subseteq Entries
  BY <1>a
<1>1. CASE UNCHANGED vars
  BY <1>1
  DEF vars, redis, frame, history, AloInv, Busy, SettledEntry, Handled, Parked
<1>2. ASSUME NEW k \in Kinds, Publish(k) PROVE AloInv'
  BY <1>2
  DEF Publish, frame, history, AloInv, Busy, SettledEntry, Handled, Parked
<1>3. CASE EnsureGroup
  BY <1>3
  DEF EnsureGroup, redis, history, AloInv, Busy, SettledEntry, Handled, Parked
<1>4. CASE ReadPending
  <2>1. UNCHANGED <<redis, claim, history>> /\ pc = "read" /\ drained' = TRUE
    BY <1>4 DEF ReadPending
  <2>2. CASE pel = {}
    <3>1. pc' = "read"
      BY <1>4, <2>2 DEF ReadPending
    <3>2. QED
      BY <2>1, <2>2, <3>1
      DEF redis, history, AloInv, Busy, SettledEntry, Handled, Parked
  <2>3. CASE pel # {}
    <3>1. pel = {last} /\ last \in 1 .. Len(stream) /\ pc' = "entries"
      <4>1. pc' = "entries" /\ pc = "read" /\ ~drained
        BY <1>4, <2>3 DEF ReadPending
      <4>2. pel = {last}
        BY <2>3 DEF AloInv
      <4>3. last \in 1 .. Len(stream)
        BY <4>2 DEF TypeInv, TypeOK
      <4>4. QED BY <4>1, <4>2, <4>3
    <3>2. Cardinality({q \in pel : q < last}) = 0
      <4>1. {q \in pel : q < last} = {}
        BY <1>a, <3>1
      <4>2. QED BY <4>1, FS_EmptySet
    <3>3. batch' = {HeldAs(last)}
      <4> DEFINE Older(p) == Cardinality({q \in pel : q < p})
      <4>a. Older(last) < DrainBatch
        BY <3>2, BusAssumption
      <4>b. {p \in pel : Older(p) < DrainBatch} = {last}
        <5> HIDE DEF Older
        <5> QED BY <3>1, <4>a
      <4>1. {p \in pel : Cardinality({q \in pel : q < p}) < DrainBatch} = {last}
        BY <4>b
      <4>2. QED BY <1>4, <4>1 DEF ReadPending
    <3>4. HeldAs(last) \in Held /\ HeldAs(last).id = last
      BY <3>1, HeldAsIsHeld DEF HeldAs, TypeInv
    <3>5. QED
      BY <2>1, <3>1, <3>3, <3>4
      DEF redis, history, AloInv, Busy, SettledEntry, Handled, Parked
  <2>4. QED BY <2>2, <2>3
<1>5. ASSUME NEW e \in Entries, NextNew(e), last' = e, pel' = pel \cup {e},
             pc = "read", drained = TRUE,
             UNCHANGED <<first, dlq, claim, history>>
      PROVE  /\ e = last + 1 /\ e <= Len(stream)
             /\ first' = 1 /\ pel' = {last'}
             /\ \A d \in 1 .. last' : d \notin pel' => SettledEntry(d)'
             /\ \A d \in Entries : claim'[d] = "done" => Handled(d)'
             /\ \A d \in Entries : started'[d] > 0 => d <= last'
  <2>1. e = last + 1 /\ e <= Len(stream)
    BY <1>5, <1>a DEF NextNew, AloInv
  <2>2. first' = 1 /\ pel' = {last'}
    BY <1>5 DEF AloInv
  <2>3. \A d \in 1 .. last' : d \notin pel' => SettledEntry(d)'
    BY <1>5, <1>a, <1>b, <1>d, <2>1, <2>2 DEF AloInv
  <2>4. \A d \in Entries : claim'[d] = "done" => Handled(d)'
    BY <1>5, <1>c DEF AloInv
  <2>5. \A d \in Entries : started'[d] > 0 => d <= last'
    BY <1>5, <1>a, <2>1 DEF AloInv, history, TypeInv, TypeOK
  <2>6. QED BY <2>1, <2>2, <2>3, <2>4, <2>5
<1>6. CASE ReadNew
  <2>1. PICK e \in Entries : NextNew(e) /\ last' = e /\ pel' = pel \cup {e}
                             /\ batch' = {HeldAs(e)}
    BY <1>6 DEF ReadNew
  <2>2. /\ pc = "read" /\ drained = TRUE /\ pc' = "entries"
        /\ UNCHANGED <<first, dlq, claim, history>>
    BY <1>6 DEF ReadNew, TypeInv, TypeOK
  <2>3. HeldAs(e) \in Held /\ HeldAs(e).id = last'
    BY <1>a, <1>5, <2>1, <2>2, HeldAsIsHeld DEF HeldAs, TypeInv
  <2>4. QED BY <1>5, <2>1, <2>2, <2>3 DEF AloInv, Busy
<1>7. CASE LoseReadReply
  <2>1. PICK e \in Entries : NextNew(e) /\ last' = e /\ pel' = pel \cup {e}
    BY <1>7 DEF LoseReadReply
  <2>2. /\ pc = "read" /\ drained = TRUE /\ pc' = "ensure" /\ drained' = FALSE
        /\ UNCHANGED <<first, dlq, claim, history>>
    BY <1>7 DEF LoseReadReply, Abandon, TypeInv, TypeOK
  <2>3. QED BY <1>5, <2>1, <2>2 DEF AloInv, Busy
<1>8. CASE \E x \in batch : AckOnTake(x)
  BY <1>8 DEF AckOnTake
<1>9. ASSUME NEW x \in batch, CountAttempt(x) PROVE AloInv'
  <2>1. batch' = {} /\ cur'.id = last /\ pc' \in {"park", "decode"}
    BY <1>9 DEF CountAttempt, Take, Foremost, AloInv
  <2>2. QED
    BY <1>9, <2>1
    DEF CountAttempt, history, AloInv, Busy, SettledEntry, Handled, Parked
<1>10. CASE Park \/ ParkUndecodable
  <2>1. /\ pc \in Busy /\ pc' \in {"parkAck", "resume"} /\ Parked(cur.id)'
        /\ UNCHANGED <<first, last, pel, claim, batch, cur, drained, history>>
    BY <1>10 DEF Park, ParkUndecodable, Busy, Parked
  <2>2. QED
    BY <1>a, <1>b, <1>c, <1>d, <2>1 DEF AloInv, Busy, SettledEntry, history
<1>11. ASSUME pc \in {"parkAck", "resume"}, pel' = pel \ {cur.id},
              pc' \in {"read", "ensure"}, pc' = "ensure" => drained' = FALSE,
              UNCHANGED <<first, last, claim, history>>
       PROVE  AloInv'
  <2>1. SettledEntry(cur.id) /\ cur.id = last
    BY <1>11 DEF AloInv, SettledEntry, Busy
  <2>2. \A e \in 1 .. last : SettledEntry(e)'
    BY <1>b, <1>d, <2>1 DEF AloInv
  <2>3. pel' = {}
    BY <1>11, <2>1 DEF AloInv
  <2>4. QED BY <1>11, <1>c, <2>2, <2>3 DEF AloInv, Busy, history
<1>12. CASE AckParked \/ Resume
  <2>1. /\ pc \in {"parkAck", "resume"} /\ pel' = pel \ {cur.id} /\ pc' = "read"
        /\ UNCHANGED <<first, last, claim, history>>
    BY <1>12 DEF AckParked, Resume, Acknowledge, NextEntry, AloInv, Busy
  <2>2. QED BY <1>11, <2>1
<1>13. CASE LoseAckReply
  BY <1>11, <1>13 DEF LoseAckReply, Abandon
<1>14. CASE SkipDone
  <2>1. /\ pc = "decode" /\ pc' = "resume" /\ Handled(cur.id)
        /\ UNCHANGED <<redis, claim, batch, cur, drained, history>>
    BY <1>14 DEF SkipDone, Decoded, AloInv, TypeInv, Busy, Held
  <2>2. QED
    BY <2>1
    DEF redis, history, AloInv, Busy, SettledEntry, Handled, Parked
<1>15. CASE StartHandler
  <2>1. /\ cur.id \in Entries /\ cur.id = last /\ pc = "decode" /\ pc' = "handle"
        /\ UNCHANGED <<redis, batch, cur, drained, finished>>
    BY <1>15 DEF StartHandler, Decoded, AloInv, TypeInv, Busy, Held
  <2>2. \A e \in Entries : claim'[e] = "done" => claim[e] = "done"
    BY <1>15, <2>1 DEF StartHandler, TypeInv, TypeOK
  <2>3. \A e \in Entries : started'[e] > 0 => e <= last
    BY <1>15, <1>a, <2>1 DEF StartHandler, AloInv, TypeInv, TypeOK
  <2>4. QED
    BY <2>1, <2>2, <2>3
    DEF redis, AloInv, Busy, SettledEntry, Handled, Parked
<1>16. CASE HandlerReturns
  <2>1. /\ cur.id \in Entries /\ pc = "handle" /\ pc' \in {"resume", "mark"}
        /\ UNCHANGED <<redis, claim, batch, cur, drained, started>>
    BY <1>16 DEF HandlerReturns, TypeInv, Busy, Held
  <2>2. Handled(cur.id)'
    <3>1. finished' = [finished EXCEPT ![cur.id] = @ + 1]
      BY <1>16 DEF HandlerReturns
    <3>2. finished \in [Entries -> Nat]
      BY DEF TypeInv, TypeOK
    <3>3. QED BY <2>1, <3>1, <3>2 DEF Handled
  <2>3. QED
    BY <1>b, <1>c, <1>d, <2>1, <2>2 DEF redis, AloInv, Busy, SettledEntry
<1>17. CASE MarkDone
  <2>1. /\ cur.id \in Entries /\ pc = "mark" /\ pc' = "resume" /\ Handled(cur.id)
        /\ UNCHANGED <<redis, batch, cur, drained, history>>
    BY <1>17 DEF MarkDone, AloInv, TypeInv, Busy, Held
  <2>2. \A e \in Entries : claim'[e] = "done" => Handled(e)
    BY <1>17, <2>1 DEF MarkDone, AloInv, TypeInv, TypeOK
  <2>3. QED
    BY <2>1, <2>2
    DEF redis, history, AloInv, Busy, SettledEntry, Handled, Parked
<1>18. CASE RaiseUndecodable \/ HandlerRaises \/ Restart \/ Disconnect
             \/ ThreadDies \/ ProcessDies
  <2>1. \E next \in {"down", "ensure"} : Abandon(next)
    BY <1>18
    DEF RaiseUndecodable, HandlerRaises, Restart, Disconnect, ThreadDies, ProcessDies
  <2>2. UNCHANGED <<redis, history>>
    BY <1>18
    DEF RaiseUndecodable, HandlerRaises, Restart, Disconnect, ThreadDies, ProcessDies
  <2>3. \A e \in Entries : claim'[e] = "done" => claim[e] = "done"
    BY <1>18
    DEF RaiseUndecodable, HandlerRaises, Restart, Disconnect, ThreadDies, ProcessDies
  <2>4. pc' \in {"down", "ensure"} /\ drained' = FALSE
    BY <2>1 DEF Abandon
  <2>5. QED
    BY <2>2, <2>3, <2>4
    DEF redis, history, AloInv, Busy, SettledEntry, Handled, Parked
<1>19. CASE LoseCountReply
  <2>1. /\ pc' = "ensure" /\ drained' = FALSE
        /\ UNCHANGED <<first, last, pel, dlq, claim, history>>
    BY <1>19 DEF LoseCountReply, Abandon
  <2>2. QED
    BY <2>1 DEF history, AloInv, Busy, SettledEntry, Handled, Parked
<1>20. QED
  BY <1>1, <1>2, <1>3, <1>4, <1>6, <1>7, <1>8, <1>9, <1>10, <1>12, <1>13, <1>14,
     <1>15, <1>16, <1>17, <1>18, <1>19
  DEF Next, Consume, Faulty

(* At least once delivery over an untrimmed stream acknowledges only what  *)
(* was handled to the end or parked.                                       *)
THEOREM AckedMeansSettledHolds ==
  ASSUME Delivery = "at_least_once", StreamMaxlen = 0
  PROVE  Spec => []AckedMeansSettled
<1>1. AloInv => AckedMeansSettled
  BY DEF AloInv, AckedMeansSettled, SettledEntry
<1>2. QED BY TypeInit, TypeStep, AloInit, AloStep, <1>1, PTL DEF Spec

(* ... and enters a handler with an entry only after every earlier entry   *)
(* was settled.                                                            *)
THEOREM InOrderHolds ==
  ASSUME Delivery = "at_least_once", StreamMaxlen = 0
  PROVE  Spec => []InOrder
<1>1. TypeInv /\ AloInv => InOrder
  BY DEF TypeInv, TypeOK, AloInv, InOrder, SettledEntry
<1>2. QED BY TypeInit, TypeStep, AloInit, AloStep, <1>1, PTL DEF Spec

------------------------------------------------------------------------------
(* The guard.  Switched off it remembers nothing.                          *)
GuardInv ==
  GuardMode = "off" => pc # "mark" /\ \A e \in Entries : claim[e] = "none"

LEMMA GuardInit == Init => GuardInv
BY DEF Init, GuardInv

LEMMA GuardStep == ASSUME GuardInv, [Next]_vars PROVE GuardInv'
<1>1. CASE pc # "mark" /\ GuardMode = "off"
  <2>1. UNCHANGED claim
    BY <1>1
    DEF Next, vars, Consume, Faulty, Publish, EnsureGroup, ReadPending, ReadNew,
        AckOnTake, CountAttempt, Park, AckParked, ParkUndecodable,
        RaiseUndecodable, SkipDone, StartHandler, HandlerReturns, HandlerRaises,
        MarkDone, Resume, Restart, Disconnect, LoseAckReply, LoseCountReply, LoseReadReply,
        ThreadDies, ProcessDies
  <2>2. pc' # "mark"
    BY <1>1
    DEF Next, vars, frame, Consume, Faulty, Publish, EnsureGroup, ReadPending,
        ReadNew, AckOnTake, CountAttempt, Park, AckParked, Acknowledge, NextEntry,
        ParkUndecodable, RaiseUndecodable, SkipDone, StartHandler, HandlerReturns,
        HandlerRaises, MarkDone, Resume, Restart, Disconnect, LoseAckReply, LoseCountReply,
        LoseReadReply, ThreadDies, ProcessDies, Abandon
  <2>3. QED BY <2>1, <2>2 DEF GuardInv
<1>2. CASE GuardMode # "off"
  BY <1>2 DEF GuardInv
<1>3. QED BY <1>1, <1>2 DEF GuardInv

(* An event the guard remembers as done never enters its handler again.    *)
THEOREM DoneNeverRerunHolds == Spec => DoneNeverRerun
<1>1. ASSUME TypeInv, GuardInv, [Next]_vars
      PROVE  [\A e \in Entries : claim[e] = "done" => started'[e] = started[e]]_vars
  <2>1. CASE StartHandler
    <3>1. claim[cur.id] # "done"
      BY <1>1, <2>1 DEF StartHandler, Decoded, GuardInv, TypeInv, Busy, Held
    <3>2. started' = [started EXCEPT ![cur.id] = @ + 1]
      BY <2>1 DEF StartHandler
    <3>3. QED BY <3>1, <3>2 DEF TypeInv, TypeOK
  <2>2. CASE ~StartHandler
    <3>1. UNCHANGED started
      BY <1>1, <2>2
      DEF Next, vars, Consume, Faulty, Publish, EnsureGroup, ReadPending, ReadNew,
          AckOnTake, CountAttempt, Park, AckParked, ParkUndecodable,
          RaiseUndecodable, SkipDone, HandlerReturns, HandlerRaises, MarkDone,
          Resume, Restart, Disconnect, LoseAckReply, LoseCountReply, LoseReadReply, ThreadDies,
          ProcessDies, history
    <3>2. QED BY <3>1
  <2>3. QED BY <2>1, <2>2
<1>2. QED
  BY TypeInit, TypeStep, GuardInit, GuardStep, <1>1, PTL DEF Spec, DoneNeverRerun

------------------------------------------------------------------------------
(* The promise, over a stream that keeps its entries and in both delivery  *)
(* modes.  What the consumer holds is the last entry the group was given,  *)
(* as the stream has it ...                                                *)
HoldInv ==
  /\ first = 1
  /\ pc \in Busy => batch = {} /\ cur.id = last /\ cur.payload = stream[last]
  /\ pc \notin Busy => cur = Nothing
  /\ pc = "entries" => \E x \in Held : batch = {x} /\ x.id = last /\ x.payload = stream[last]
  /\ pc \notin Busy \cup {"entries"} => batch = {}

(* ... and what is parked stays so: it never decodes, or it had too many   *)
(* attempts and only an acknowledgement takes them back.                   *)
ParkInv ==
  /\ \A e \in Entries : <<e, "decode">> \in dlq => e <= last /\ stream[e] = "undecodable"
  /\ \A e \in Entries : <<e, "attempts">> \in dlq =>
       /\ AtLeastOnce /\ DlqMode = "on" /\ e <= last
       /\ e \in pel => attempts[e] > MaxAttempts
  /\ pc \in {"park", "parkAck"} => AtLeastOnce /\ DlqMode = "on" /\ attempts[cur.id] > MaxAttempts
  /\ pc = "entries" /\ AtLeastOnce => last \in pel
  /\ pc \in {"decode", "handle"} => <<cur.id, "attempts">> \notin dlq

ModeInv == (AtLeastOnce => AloInv) /\ (~AtLeastOnce => AmoInv)

LEMMA ModeInit == ASSUME StreamMaxlen = 0 PROVE Init => ModeInv
BY AloInit, AmoInit DEF ModeInv, AtLeastOnce

LEMMA ModeStep ==
  ASSUME StreamMaxlen = 0, TypeInv, ModeInv, [Next]_vars PROVE ModeInv'
<1>1. CASE AtLeastOnce
  <2>1. AloInv'
    BY <1>1, AloStep DEF AtLeastOnce, ModeInv
  <2>2. QED BY <1>1, <2>1 DEF ModeInv, AtLeastOnce
<1>2. CASE ~AtLeastOnce
  <2>1. AmoInv'
    BY <1>2, AmoStep DEF AtLeastOnce, ModeInv
  <2>2. QED BY <1>2, <2>1 DEF ModeInv, AtLeastOnce
<1>3. QED BY <1>1, <1>2

LEMMA HoldInit == Init => HoldInv /\ ParkInv
BY DEF Init, HoldInv, ParkInv, Busy

(* A consumer that starts over holds nothing.                              *)
LEMMA StartsOver ==
  ASSUME HoldInv, \E next \in {"down", "ensure"} : Abandon(next), first' = first
  PROVE  HoldInv'
BY DEF HoldInv, Abandon, Busy

LEMMA HoldStep ==
  ASSUME StreamMaxlen = 0, TypeInv, ModeInv, HoldInv, [Next]_vars
  PROVE  HoldInv'
<1>a. last \in Nat /\ stream \in Seq(Kinds) /\ last <= Len(stream)
  BY DEF TypeInv, TypeOK
<1>b. pc \in Busy => last \in 1 .. Len(stream)
  BY <1>a DEF HoldInv, TypeInv, Held
<1>1. CASE UNCHANGED vars
  BY <1>1 DEF vars, redis, frame, HoldInv
<1>2. ASSUME NEW k \in Kinds, Publish(k) PROVE HoldInv'
  <2>1. first' = first /\ stream' = Append(stream, k) /\ UNCHANGED <<last, frame>>
    BY <1>2 DEF Publish
  <2>2. \A d \in 1 .. Len(stream) : stream'[d] = stream[d]
    BY <1>a, <2>1
  <2>3. pc = "entries" => last \in 1 .. Len(stream)
    BY <1>a DEF HoldInv, Held
  <2>4. QED BY <1>b, <2>1, <2>2, <2>3 DEF HoldInv, frame
<1>3. CASE EnsureGroup
  BY <1>3 DEF EnsureGroup, redis, HoldInv, Busy
<1>4. CASE ReadPending
  <2>1. /\ UNCHANGED <<redis, cur>> /\ pc = "read" /\ ~drained
        /\ pc' = IF pel = {} THEN "read" ELSE "entries"
        /\ batch' \subseteq {HeldAs(e) : e \in pel}
    BY <1>4 DEF ReadPending
  <2>2. AtLeastOnce
    BY <2>1 DEF ModeInv, AmoInv
  <2>3. pel \subseteq {last}
    BY <2>2 DEF ModeInv, AloInv
  <2>4. CASE pel = {}
    BY <2>1, <2>4 DEF HoldInv, Busy, redis
  <2>5. CASE pel # {}
    <3>1. pc' = "entries" /\ last \in 1 .. Len(stream)
      <4>1. pel = {last} /\ pel \subseteq 1 .. last
        BY <2>3, <2>5 DEF TypeInv, TypeOK
      <4>2. QED BY <1>a, <2>1, <4>1
    <3>2. ModeInv'
      BY ModeStep
    <3>3. PICK x \in Held : batch' = {x} /\ x.id = last'
      BY <2>2, <3>1, <3>2 DEF ModeInv, AloInv, AtLeastOnce
    <3>4. x = HeldAs(last) /\ last' = last /\ first = 1
      BY <2>1, <2>3, <3>3 DEF redis, HoldInv
    <3>5. x.payload = stream[last]
      BY <3>1, <3>4 DEF HeldAs
    <3>6. QED BY <2>1, <3>1, <3>3, <3>4, <3>5 DEF HoldInv, Busy, redis
  <2>6. QED BY <2>4, <2>5
<1>5. CASE ReadNew
  <2>1. PICK e \in Entries : NextNew(e) /\ last' = e /\ batch' = {HeldAs(e)}
    BY <1>5 DEF ReadNew
  <2>2. e \in 1 .. Len(stream)
    BY <1>a, <2>1 DEF NextNew
  <2>3. HeldAs(e) \in Held /\ HeldAs(e).id = e /\ HeldAs(e).payload = stream[e]
    BY <2>2, HeldAsIsHeld DEF HeldAs, HoldInv, TypeInv
  <2>4. pc = "read" /\ pc' = "entries" /\ UNCHANGED <<stream, first, cur>>
    BY <1>5 DEF ReadNew
  <2>5. QED BY <2>1, <2>3, <2>4 DEF HoldInv, Busy
<1>6. ASSUME NEW x \in batch, AckOnTake(x) \/ CountAttempt(x) PROVE HoldInv'
  <2>1. pc = "entries" /\ cur' = x /\ batch' = batch \ {x} /\ pc' \in {"park", "decode"}
        /\ UNCHANGED <<stream, first, last>>
    BY <1>6 DEF AckOnTake, CountAttempt, Take, Foremost
  <2>2. batch = {x} /\ x.id = last /\ x.payload = stream[last]
    BY <2>1 DEF HoldInv
  <2>3. QED BY <2>1, <2>2 DEF HoldInv, Busy
<1>7. CASE Park \/ ParkUndecodable \/ SkipDone \/ StartHandler \/ HandlerReturns \/ MarkDone
  <2>1. pc \in Busy /\ pc' \in Busy /\ UNCHANGED <<stream, first, last, batch, cur>>
    BY <1>7
    DEF Park, ParkUndecodable, SkipDone, StartHandler, HandlerReturns, MarkDone, Decoded,
        Busy, redis
  <2>2. QED BY <2>1 DEF HoldInv, Busy
<1>8. CASE AckParked \/ Resume
  <2>1. pc \in Busy /\ NextEntry /\ UNCHANGED <<stream, first, last>>
    BY <1>8 DEF AckParked, Resume, Acknowledge, Busy, redis
  <2>2. QED BY <2>1 DEF HoldInv, NextEntry, Busy
<1>9. CASE RaiseUndecodable \/ HandlerRaises \/ Restart \/ Faulty
  <2>1. \E next \in {"down", "ensure"} : Abandon(next)
    BY <1>9
    DEF RaiseUndecodable, HandlerRaises, Restart, Faulty, Disconnect, ThreadDies,
        LoseAckReply, LoseCountReply, LoseReadReply, ProcessDies
  <2>2. first' = first
    BY <1>9
    DEF RaiseUndecodable, HandlerRaises, Restart, Faulty, Disconnect, ThreadDies,
        LoseAckReply, LoseCountReply, LoseReadReply, ProcessDies, redis
  <2>3. QED BY <2>1, <2>2, StartsOver
<1>10. QED
  BY <1>1, <1>2, <1>3, <1>4, <1>5, <1>6, <1>7, <1>8, <1>9 DEF Next, Consume

(* A consumer that starts over parks nothing, and has counted no less.     *)
LEMMA StartsOverParked ==
  ASSUME StreamMaxlen = 0, TypeInv, ParkInv, \E next \in {"down", "ensure"} : Abandon(next),
         UNCHANGED <<stream, dlq>>, last <= last', last' \in Nat,
         \A e \in Entries : e <= last /\ e \in pel' => e \in pel /\ attempts'[e] >= attempts[e],
         attempts' \in [Entries -> Nat]
  PROVE  ParkInv'
<1>1. pc' \in {"down", "ensure"}
  BY DEF Abandon
<1>2. last \in Nat /\ attempts \in [Entries -> Nat]
  BY DEF TypeInv, TypeOK
<1>3. ASSUME NEW e \in Entries, <<e, "decode">> \in dlq
      PROVE  e <= last' /\ stream[e] = "undecodable"
  BY <1>2, <1>3 DEF ParkInv
<1>4. ASSUME NEW e \in Entries, <<e, "attempts">> \in dlq
      PROVE  /\ AtLeastOnce /\ DlqMode = "on" /\ e <= last'
             /\ e \in pel' => attempts'[e] > MaxAttempts
  <2>1. /\ AtLeastOnce /\ DlqMode = "on" /\ e <= last
        /\ e \in pel => attempts[e] > MaxAttempts
    BY <1>4 DEF ParkInv
  <2>2. e \in pel' => attempts'[e] >= attempts[e] /\ attempts[e] > MaxAttempts
    BY <2>1
  <2>3. attempts[e] \in Nat /\ attempts'[e] \in Nat /\ MaxAttempts \in Nat
    BY <1>2
  <2>4. QED BY <1>2, <2>1, <2>2, <2>3
<1>5. QED BY <1>1, <1>3, <1>4 DEF ParkInv, AtLeastOnce

LEMMA ParkStep ==
  ASSUME StreamMaxlen = 0, TypeInv, ModeInv, HoldInv, ParkInv, [Next]_vars
  PROVE  ParkInv'
<1>a. /\ last \in Nat /\ stream \in Seq(Kinds) /\ last <= Len(stream)
      /\ attempts \in [Entries -> Nat] /\ pel \subseteq 1 .. last
  BY DEF TypeInv, TypeOK
<1>b. pc \in Busy => last \in 1 .. Len(stream) /\ last \in Entries /\ cur.id = last
  BY <1>a DEF HoldInv, TypeInv, Held
<1>c. MaxAttempts \in Nat
  OBVIOUS
<1>1. CASE UNCHANGED vars
  BY <1>1 DEF vars, redis, frame, ParkInv, AtLeastOnce
<1>2. ASSUME NEW k \in Kinds, Publish(k) PROVE ParkInv'
  <2>1. stream' = Append(stream, k) /\ UNCHANGED <<last, pel, attempts, dlq, frame>>
    BY <1>2 DEF Publish
  <2>2. \A d \in 1 .. Len(stream) : stream'[d] = stream[d]
    BY <1>a, <2>1
  <2>3. \A e \in Entries : e <= last => stream'[e] = stream[e]
    BY <1>a, <2>2
  <2>4. QED BY <2>1, <2>3 DEF ParkInv, frame, AtLeastOnce
<1>3. CASE EnsureGroup \/ SkipDone \/ MarkDone
  BY <1>3 DEF EnsureGroup, SkipDone, MarkDone, redis, ParkInv, AtLeastOnce
<1>4. CASE ReadPending
  <2>1. UNCHANGED redis /\ ~drained /\ pc' = IF pel = {} THEN "read" ELSE "entries"
    BY <1>4 DEF ReadPending
  <2>2. pel \subseteq {last}
    BY <2>1 DEF ModeInv, AmoInv, AloInv
  <2>3. QED BY <2>1, <2>2 DEF ParkInv, AtLeastOnce, redis
<1>5. CASE ReadNew
  <2>1. PICK e \in Entries : NextNew(e) /\ last' = e /\ pel' = pel \cup {e}
    BY <1>5 DEF ReadNew
  <2>2. e > last
    BY <1>a, <2>1 DEF NextNew
  <2>3. pc' = "entries" /\ UNCHANGED <<stream, attempts, dlq>>
    BY <1>5 DEF ReadNew
  <2>4. ASSUME NEW d \in Entries, <<d, "decode">> \in dlq
        PROVE  d <= last' /\ stream[d] = "undecodable"
    BY <1>a, <2>1, <2>2, <2>4 DEF ParkInv
  <2>5. ASSUME NEW d \in Entries, <<d, "attempts">> \in dlq
        PROVE  /\ AtLeastOnce /\ DlqMode = "on" /\ d <= last'
               /\ d \in pel' => attempts[d] > MaxAttempts
    BY <1>a, <2>1, <2>2, <2>5 DEF ParkInv
  <2>6. QED BY <2>1, <2>3, <2>4, <2>5 DEF ParkInv, AtLeastOnce
<1>6. ASSUME NEW x \in batch, AckOnTake(x) PROVE ParkInv'
  <2>1. /\ ~AtLeastOnce /\ pc' = "decode" /\ UNCHANGED <<stream, last, attempts, dlq>>
    BY <1>6 DEF AckOnTake
  <2>2. x.id \in Entries /\ cur' = x
    BY <1>6 DEF AckOnTake, Take, TypeInv, TypeOK, Held
  <2>3. \A e \in Entries : <<e, "attempts">> \notin dlq
    BY <2>1 DEF ParkInv
  <2>4. QED BY <2>1, <2>2, <2>3 DEF ParkInv, AtLeastOnce
<1>7. ASSUME NEW x \in batch, CountAttempt(x) PROVE ParkInv'
  <2>1. /\ AtLeastOnce /\ pc = "entries" /\ UNCHANGED <<stream, last, pel, dlq>> /\ cur' = x
        /\ attempts' = IF DlqMode = "on" THEN [attempts EXCEPT ![x.id] = @ + 1] ELSE attempts
        /\ pc' = IF DlqMode = "on" /\ attempts'[x.id] > MaxAttempts THEN "park" ELSE "decode"
    BY <1>7 DEF CountAttempt, Take, Foremost
  <2>2. x.id = last /\ last \in pel /\ last \in Entries
    <3>1. x.id = last /\ last \in pel
      BY <2>1 DEF HoldInv, ParkInv
    <3>2. x.id \in Entries
      BY <1>7 DEF TypeInv, TypeOK, Held
    <3>3. QED BY <3>1, <3>2
  <2>3. \A e \in Entries : attempts'[e] >= attempts[e] /\ attempts'[e] \in Nat
    BY <1>a, <2>1
  <2>4. ASSUME NEW e \in Entries, <<e, "attempts">> \in dlq
        PROVE  /\ DlqMode = "on" /\ e <= last
               /\ e \in pel => attempts'[e] > MaxAttempts
    <3>1. DlqMode = "on" /\ e <= last /\ (e \in pel => attempts[e] > MaxAttempts)
      BY <2>4 DEF ParkInv
    <3>2. attempts'[e] >= attempts[e] /\ attempts'[e] \in Nat /\ attempts[e] \in Nat
      BY <1>a, <2>3
    <3>3. QED BY <1>c, <3>1, <3>2
  <2>5. pc' = "decode" => <<last, "attempts">> \notin dlq
    BY <2>1, <2>2, <2>4
  <2>6. pc' = "park" => DlqMode = "on" /\ attempts'[last] > MaxAttempts
    BY <2>1, <2>2
  <2>7. \A e \in Entries : <<e, "decode">> \in dlq => e <= last /\ stream[e] = "undecodable"
    BY DEF ParkInv
  <2>8. \A e \in Entries : <<e, "attempts">> \in dlq =>
          /\ DlqMode = "on" /\ e <= last
          /\ e \in pel => attempts'[e] > MaxAttempts
    BY <2>4
  <2>9. QED BY <2>1, <2>2, <2>5, <2>6, <2>7, <2>8 DEF ParkInv, AtLeastOnce
<1>8. CASE Park
  <2>1. /\ pc = "park" /\ pc' = "parkAck" /\ dlq' = dlq \cup {<<last, "attempts">>}
        /\ UNCHANGED <<stream, last, pel, attempts, cur>>
    BY <1>8, <1>b DEF Park, Busy
  <2>2. /\ AtLeastOnce /\ DlqMode = "on" /\ attempts[last] > MaxAttempts
    BY <1>b, <2>1 DEF ParkInv, Busy
  <2>3. QED BY <1>a, <2>1, <2>2 DEF ParkInv, AtLeastOnce
<1>9. CASE ParkUndecodable
  <2>1. /\ pc = "decode" /\ pc' = "resume" /\ dlq' = dlq \cup {<<last, "decode">>}
        /\ stream[last] = "undecodable" /\ UNCHANGED <<stream, last, pel, attempts, cur>>
    BY <1>9, <1>b DEF ParkUndecodable, Busy, HoldInv
  <2>2. QED BY <1>a, <2>1 DEF ParkInv, AtLeastOnce
<1>10. CASE StartHandler \/ HandlerReturns
  <2>1. /\ pc \in {"decode", "handle"} /\ pc' \in {"handle", "resume", "mark"}
        /\ UNCHANGED <<stream, last, pel, attempts, dlq, cur>>
    BY <1>10 DEF StartHandler, HandlerReturns, Decoded, redis
  <2>2. QED BY <2>1 DEF ParkInv, AtLeastOnce
<1>11. ASSUME pc \in {"parkAck", "resume"}, Acknowledge PROVE ParkInv'
  <2>1. /\ pel' = pel \ {last} /\ pc' = "read" /\ UNCHANGED <<stream, last, dlq>>
        /\ attempts' = IF DlqMode = "on" THEN [attempts EXCEPT ![last] = 0] ELSE attempts
    BY <1>11, <1>b DEF Acknowledge, NextEntry, HoldInv, Busy
  <2>2. \A e \in Entries : e \in pel' => e \in pel /\ attempts'[e] = attempts[e]
    BY <1>a, <2>1
  <2>3. QED BY <2>1, <2>2 DEF ParkInv, AtLeastOnce
<1>12. CASE AckParked \/ Resume
  <2>1. CASE Acknowledge
    BY <1>11, <1>12, <2>1 DEF AckParked, Resume
  <2>2. CASE ~Acknowledge
    <3>1. /\ NextEntry /\ UNCHANGED redis /\ pc = "resume"
      BY <1>12, <2>2 DEF AckParked, Resume
    <3>2. pc' = "read"
      BY <3>1 DEF NextEntry, HoldInv, Busy
    <3>3. QED BY <3>1, <3>2 DEF ParkInv, AtLeastOnce, redis
  <2>3. QED BY <2>1, <2>2
<1>13. CASE RaiseUndecodable \/ HandlerRaises \/ Restart \/ Disconnect \/ ThreadDies
            \/ ProcessDies
  <2>1. \E next \in {"down", "ensure"} : Abandon(next)
    BY <1>13
    DEF RaiseUndecodable, HandlerRaises, Restart, Disconnect, ThreadDies, ProcessDies
  <2>2. UNCHANGED redis
    BY <1>13
    DEF RaiseUndecodable, HandlerRaises, Restart, Disconnect, ThreadDies, ProcessDies
  <2>3. QED BY <1>a, <2>1, <2>2, StartsOverParked DEF redis
<1>14. CASE LoseAckReply
  <2>1. Abandon("ensure") /\ pel' = pel \ {cur.id} /\ UNCHANGED <<stream, last, attempts, dlq>>
    BY <1>14 DEF LoseAckReply
  <2>2. QED BY <1>a, <2>1, StartsOverParked
<1>15. CASE LoseCountReply
  <2>1. PICK x \in batch : attempts' = [attempts EXCEPT ![x.id] = @ + 1]
    BY <1>15 DEF LoseCountReply
  <2>2. Abandon("ensure") /\ UNCHANGED <<stream, last, pel, dlq>>
    BY <1>15 DEF LoseCountReply
  <2>3. x.id \in Entries
    BY <2>1 DEF TypeInv, TypeOK, Held
  <2>4. attempts' \in [Entries -> Nat] /\ \A e \in Entries : attempts'[e] >= attempts[e]
    BY <1>a, <2>1, <2>3
  <2>5. QED BY <1>a, <2>2, <2>4, StartsOverParked
<1>16. CASE LoseReadReply
  <2>1. PICK e \in Entries : NextNew(e) /\ last' = e /\ pel' = pel \cup {e}
    BY <1>16 DEF LoseReadReply
  <2>2. e > last
    BY <1>a, <2>1 DEF NextNew
  <2>3. Abandon("ensure") /\ UNCHANGED <<stream, attempts, dlq>>
    BY <1>16 DEF LoseReadReply
  <2>4. \A d \in Entries : d <= last /\ d \in pel' => d \in pel /\ attempts'[d] >= attempts[d]
    BY <1>a, <2>1, <2>2, <2>3
  <2>5. QED BY <1>a, <2>1, <2>2, <2>3, <2>4, StartsOverParked
<1>17. QED
  BY <1>1, <1>2, <1>3, <1>4, <1>5, <1>6, <1>7, <1>8, <1>9, <1>10, <1>12, <1>13, <1>14,
     <1>15, <1>16
  DEF Next, Consume, Faulty

(* A step that moves one entry's fate, or none, is a step of the promise.  *)
LEMMA FateIsSame ==
  ASSUME \A d \in Entries : Fate'[d] = Fate[d] PROVE Fate' = Fate
<1>1. Fate = [d \in Entries |-> Fate[d]] /\ Fate' = [d \in Entries |-> Fate'[d]]
  BY DEF Fate
<1>2. QED BY <1>1

LEMMA FateMoves ==
  ASSUME NEW e \in Entries, NEW f, Fate'[e] = f, \A d \in Entries \ {e} : Fate'[d] = Fate[d]
  PROVE  Fate' = [Fate EXCEPT ![e] = f]
<1>1. Fate = [d \in Entries |-> Fate[d]] /\ Fate' = [d \in Entries |-> Fate'[d]]
  BY DEF Fate
<1>2. QED BY <1>1

LEMMA SettleIsNext ==
  ASSUME NEW e \in Entries, NEW f \in {"handled", "parked", "lost"},
         f = "lost" => ~AtLeastOnce, Fate[e] = "waiting", Fate'[e] = f,
         \A d \in Entries : d < e => Fate[d] \in {"handled", "parked", "lost"},
         \A d \in Entries \ {e} : Fate'[d] = Fate[d]
  PROVE  Promise!Next
<1>1. Fate' = [Fate EXCEPT ![e] = f]
  BY FateMoves
<1>2. f = "lost" => Delivery = "at_most_once"
  BY DEF AtLeastOnce
<1>3. Promise!Settle(e)
  BY <1>1, <1>2 DEF Promise!Settle, Promise!Settled
<1>4. QED BY <1>3 DEF Promise!Next

(* Whatever comes before the last entry given to the group is settled.     *)
LEMMA BeforeLast ==
  ASSUME TypeInv, ModeInv, HoldInv, NEW d \in Entries, d <= last,
         d = last => pc = "read" /\ ~AtLeastOnce
  PROVE  Fate[d] \in {"handled", "parked", "lost"}
<1>1. last \in Nat /\ Len(stream) \in Nat /\ last <= Len(stream)
  BY DEF TypeInv, TypeOK
<1>2. ~(d > Len(stream))
  BY <1>1
<1>3. CASE AtLeastOnce
  <2>1. d \notin pel /\ d \in 1 .. last
    BY <1>1, <1>3 DEF ModeInv, AloInv
  <2>2. Handled(d) \/ Parked(d)
    BY <1>3, <2>1 DEF ModeInv, AloInv, SettledEntry
  <2>3. QED BY <1>2, <2>2 DEF Fate
<1>4. CASE ~AtLeastOnce
  <2>1. cur.id # d
    BY DEF HoldInv, Nothing, Busy
  <2>2. \A x \in batch : x.id # d
    BY DEF HoldInv, Busy
  <2>3. ~InHand(d)
    BY <2>1, <2>2 DEF InHand
  <2>4. QED BY <1>2, <1>4, <2>3 DEF Fate
<1>5. QED BY <1>3, <1>4

(* A step that says nothing of any other entry than the last, and takes    *)
(* back nothing of that one.                                               *)
LEMMA LastMoves ==
  ASSUME TypeInv, ModeInv, HoldInv, UNCHANGED <<stream, last>>,
         \A d \in Entries \ {last} : Handled(d)' = Handled(d) /\ Parked(d)' = Parked(d),
         cur'.id \in {0, last}, \A x \in batch' : x.id = last,
         last \in Entries => /\ Handled(last) => Handled(last)'
                             /\ ~Handled(last) /\ Parked(last) => ~Handled(last)' /\ Parked(last)'
                             /\ ~AtLeastOnce /\ ~InHand(last) =>
                                  Handled(last)' = Handled(last) /\ Parked(last)' = Parked(last)
                                  /\ ~InHand(last)'
  PROVE  Promise!Next \/ Fate' = Fate
<1>1. last \in Nat /\ Len(stream) \in Nat /\ last <= Len(stream)
  BY DEF TypeInv, TypeOK
<1>2. \A d \in Entries \ {last} : ~InHand(d) /\ ~InHand(d)'
  BY DEF InHand, HoldInv, Nothing, Busy
<1>3. \A d \in Entries \ {last} : Fate'[d] = Fate[d]
  BY <1>2 DEF Fate, AtLeastOnce
<1>4. CASE last \notin Entries
  <2>1. \A d \in Entries : Fate'[d] = Fate[d]
    BY <1>3, <1>4
  <2>2. QED BY <2>1, FateIsSame
<1>5. CASE last \in Entries
  <2>1. ~(last > Len(stream)) /\ ~(last > Len(stream'))
    BY <1>1
  <2>2. Fate[last] = IF Handled(last) THEN "handled" ELSE IF Parked(last) THEN "parked"
                     ELSE IF ~AtLeastOnce /\ ~InHand(last) THEN "lost" ELSE "waiting"
    BY <1>1, <1>5, <2>1 DEF Fate
  <2>3. Fate'[last] = IF Handled(last)' THEN "handled" ELSE IF Parked(last)' THEN "parked"
                      ELSE IF ~AtLeastOnce /\ ~InHand(last)' THEN "lost" ELSE "waiting"
    BY <1>1, <1>5, <2>1 DEF Fate, AtLeastOnce
  <2>4. CASE Fate[last] = "waiting"
    <3>1. CASE Fate'[last] = "waiting"
      <4>1. \A d \in Entries : Fate'[d] = Fate[d]
        BY <1>3, <2>4, <3>1
      <4>2. QED BY <4>1, FateIsSame
    <3>2. CASE Fate'[last] # "waiting"
      <4>1. PICK f \in {"handled", "parked", "lost"} :
              Fate'[last] = f /\ (f = "lost" => ~AtLeastOnce)
        BY <2>3, <3>2
      <4>2. \A d \in Entries : d < last => Fate[d] \in {"handled", "parked", "lost"}
        BY <1>1, BeforeLast
      <4>3. QED BY <1>3, <1>5, <2>4, <4>1, <4>2, SettleIsNext
    <3>3. QED BY <3>1, <3>2
  <2>5. CASE Fate[last] # "waiting"
    <3>1. Fate'[last] = Fate[last]
      BY <1>5, <2>2, <2>3, <2>5
    <3>2. \A d \in Entries : Fate'[d] = Fate[d]
      BY <1>3, <3>1
    <3>3. QED BY <3>2, FateIsSame
  <2>6. QED BY <2>4, <2>5
<1>6. QED BY <1>4, <1>5

(* Nothing is handled that the group was not given.                        *)
GivenInv == \A e \in Entries : Handled(e) => e <= last

LEMMA GivenStep ==
  ASSUME StreamMaxlen = 0, TypeInv, ModeInv, HoldInv, GivenInv, [Next]_vars PROVE GivenInv'
<1>1. last \in Nat /\ finished \in [Entries -> Nat]
  BY DEF TypeInv, TypeOK
<1>2. last' \in Nat /\ last <= last'
  <2>1. CASE ReadNew \/ LoseReadReply
    BY <1>1, <2>1 DEF ReadNew, LoseReadReply, NextNew
  <2>2. CASE ~(ReadNew \/ LoseReadReply)
    <3>1. last' = last
      BY <2>2
      DEF Next, vars, Consume, Faulty, Publish, EnsureGroup, ReadPending, AckOnTake,
          CountAttempt, Park, AckParked, ParkUndecodable, RaiseUndecodable, SkipDone,
          StartHandler, HandlerReturns, HandlerRaises, MarkDone, Resume, Acknowledge, Restart,
          Disconnect, LoseAckReply, LoseCountReply, ThreadDies, ProcessDies, redis
    <3>2. QED BY <1>1, <3>1
  <2>3. QED BY <2>1, <2>2
<1>3. ASSUME NEW e \in Entries, Handled(e)' PROVE e <= last'
  <2>1. CASE Handled(e)
    BY <1>1, <1>2, <2>1 DEF GivenInv
  <2>2. CASE ~Handled(e)
    <3>1. HandlerReturns
      BY <1>3, <2>2
      DEF Handled, Next, vars, Consume, Faulty, Publish, EnsureGroup, ReadPending, ReadNew,
          AckOnTake, CountAttempt, Park, AckParked, ParkUndecodable, RaiseUndecodable,
          SkipDone, StartHandler, HandlerRaises, MarkDone, Resume, Restart, Disconnect,
          LoseAckReply, LoseCountReply, LoseReadReply, ThreadDies, ProcessDies, history
    <3>2. finished' = [finished EXCEPT ![cur.id] = @ + 1] /\ cur.id = last
      BY <3>1 DEF HandlerReturns, HoldInv, Busy
    <3>3. e = last
      BY <1>1, <1>3, <2>2, <3>2 DEF Handled
    <3>4. QED BY <1>1, <1>2, <3>3
  <2>3. QED BY <2>1, <2>2
<1>4. QED BY <1>3 DEF GivenInv

LEMMA PromiseInit == Init => Promise!Init
<1> SUFFICES ASSUME Init PROVE Promise!Init
    OBVIOUS
<1>1. Len(stream) = 0
  BY DEF Init
<1>2. \A e \in Entries : Fate[e] = "unsent"
  BY <1>1 DEF Fate
<1>3. Fate = [e \in Entries |-> "unsent"]
  BY <1>2 DEF Fate
<1>4. QED BY <1>3 DEF Promise!Init

LEMMA SendStep ==
  ASSUME TypeInv, ParkInv, GivenInv, NEW k \in Kinds, Publish(k)
  PROVE  Promise!Next
<1>1. /\ stream \in Seq(Kinds) /\ Len(stream) \in Nat /\ last \in Nat /\ last <= Len(stream)
      /\ Len(stream) < MaxEntries
  BY DEF TypeInv, TypeOK, Publish
<1>2. /\ stream' = Append(stream, k) /\ Len(stream') = Len(stream) + 1
      /\ UNCHANGED <<last, dlq, finished, cur, batch>>
  BY <1>1 DEF Publish, frame, history
<1>e. PICK e : e = Len(stream) + 1
  OBVIOUS
<1>3. e \in Entries
  BY <1>1, <1>e
<1>4. Fate[e] = "unsent"
  BY <1>1, <1>3, <1>e DEF Fate
<1>5. \A d \in Entries : d < e => Fate[d] # "unsent"
  BY <1>1, <1>e DEF Fate
<1>6. \A d \in Entries \ {e} : Fate'[d] = Fate[d]
  BY <1>1, <1>2, <1>e DEF Fate, Handled, Parked, InHand, AtLeastOnce
<1>7. Fate'[e] = "waiting"
  <2>1. ~Handled(e)' /\ ~Parked(e)'
    <3>1. ~(e <= last)
      BY <1>1, <1>e
    <3>2. ~Handled(e)
      BY <1>3, <3>1 DEF GivenInv
    <3>3. ~Parked(e)
      BY <1>3, <3>1 DEF Parked, ParkInv
    <3>4. QED BY <1>2, <3>2, <3>3 DEF Handled, Parked
  <2>2. ~(e > Len(stream')) /\ ~(e <= last')
    BY <1>1, <1>2, <1>e
  <2>3. QED BY <1>3, <2>1, <2>2 DEF Fate
<1>8. Fate' = [Fate EXCEPT ![e] = "waiting"]
  BY <1>3, <1>6, <1>7, FateMoves
<1>9. Promise!Send(e)
  BY <1>4, <1>5, <1>8 DEF Promise!Send
<1>10. QED BY <1>3, <1>9 DEF Promise!Next

LEMMA PromiseStep ==
  ASSUME StreamMaxlen = 0, TypeInv, ModeInv, HoldInv, ParkInv, GivenInv, [Next]_vars
  PROVE  Promise!Next \/ Fate' = Fate
<1>a. last \in Nat /\ Len(stream) \in Nat /\ last <= Len(stream)
  BY DEF TypeInv, TypeOK
<1>b. pc \in Busy => cur.id = last /\ batch = {} /\ last \in Entries
  BY DEF HoldInv, TypeInv, Held
<1>c. HoldInv'
  BY HoldStep
<1>1. ASSUME UNCHANGED <<stream, last, finished, dlq>>,
             AtLeastOnce \/ \A e \in Entries : InHand(e)' = InHand(e)
      PROVE  Fate' = Fate
  <2>1. \A e \in Entries : Fate'[e] = Fate[e]
    BY <1>1 DEF Fate, Handled, Parked, AtLeastOnce
  <2>2. QED BY <2>1, FateIsSame
<1>2. CASE UNCHANGED vars \/ EnsureGroup \/ SkipDone \/ StartHandler \/ MarkDone
  <2>1. UNCHANGED <<stream, last, finished, dlq, cur, batch>>
    BY <1>2
    DEF vars, frame, EnsureGroup, SkipDone, StartHandler, MarkDone, redis, history
  <2>2. QED BY <1>1, <2>1 DEF InHand
<1>3. CASE \E k \in Kinds : Publish(k)
  BY <1>3, SendStep
<1>4. CASE ReadPending
  <2>1. AtLeastOnce /\ UNCHANGED <<stream, last, finished, dlq>>
    BY <1>4 DEF ReadPending, ModeInv, AmoInv, redis, history
  <2>2. QED BY <1>1, <2>1
<1>5. CASE \E x \in batch : AckOnTake(x) \/ CountAttempt(x)
  <2>1. PICK x \in batch : AckOnTake(x) \/ CountAttempt(x)
    BY <1>5
  <2>2. /\ pc = "entries" /\ cur' = x /\ batch' = batch \ {x}
        /\ UNCHANGED <<stream, last, finished, dlq>>
    BY <2>1 DEF AckOnTake, CountAttempt, Take, Foremost, history
  <2>3. batch = {x} /\ cur = Nothing
    BY <2>2 DEF HoldInv, Busy
  <2>4. \A e \in Entries : InHand(e)' = InHand(e)
    BY <2>2, <2>3 DEF InHand, Nothing
  <2>5. QED BY <1>1, <2>2, <2>4
<1>6. ASSUME NEW e \in Entries, NextNew(e), last' = e, pc = "read",
             UNCHANGED <<stream, finished, dlq>>
      PROVE  /\ e <= Len(stream) /\ ~(e <= last) /\ \A d \in Entries \ {e} : d <= e <=> d <= last
             /\ \A d \in Entries : Handled(d)' = Handled(d) /\ Parked(d)' = Parked(d) /\ ~InHand(d)
             /\ ~Handled(e) /\ ~Parked(e)
  <2>1. e = last + 1 /\ e <= Len(stream)
    BY <1>6, <1>a DEF NextNew, HoldInv
  <2>2. ~(e <= last) /\ \A d \in Entries \ {e} : d <= e <=> d <= last
    BY <1>a, <2>1
  <2>3. \A d \in Entries : Handled(d)' = Handled(d) /\ Parked(d)' = Parked(d)
    BY <1>6 DEF Handled, Parked
  <2>4. \A d \in Entries : ~InHand(d)
    BY <1>6 DEF InHand, HoldInv, Busy, Nothing
  <2>5. ~Handled(e) /\ ~Parked(e)
    BY <2>2 DEF GivenInv, ParkInv, Parked
  <2>6. QED BY <2>1, <2>2, <2>3, <2>4, <2>5
<1>7. CASE ReadNew
  <2>1. PICK e \in Entries : NextNew(e) /\ last' = e /\ batch' = {HeldAs(e)}
    BY <1>7 DEF ReadNew
  <2>2. pc = "read" /\ UNCHANGED <<stream, finished, dlq, cur>>
    BY <1>7 DEF ReadNew, history
  <2>3. \A d \in Entries : InHand(d)' <=> d = e
    BY <2>1, <2>2 DEF InHand, HeldAs, HoldInv, Busy, Nothing
  <2>4. \A d \in Entries : Fate'[d] = Fate[d]
    BY <1>a, <1>6, <2>1, <2>2, <2>3 DEF Fate, AtLeastOnce
  <2>5. QED BY <2>4, FateIsSame
<1>8. CASE LoseReadReply
  <2>1. PICK e \in Entries : NextNew(e) /\ last' = e
    BY <1>8 DEF LoseReadReply
  <2>2. /\ pc = "read" /\ UNCHANGED <<stream, finished, dlq>>
        /\ cur' = Nothing /\ batch' = {}
    BY <1>8 DEF LoseReadReply, history, Abandon
  <2>3. \A d \in Entries : ~InHand(d)'
    BY <2>2 DEF InHand, Nothing
  <2>4. \A d \in Entries \ {e} : Fate'[d] = Fate[d]
    BY <1>a, <1>6, <2>1, <2>2, <2>3 DEF Fate, AtLeastOnce
  <2>5. Fate[e] = "waiting" /\ Fate'[e] = IF AtLeastOnce THEN "waiting" ELSE "lost"
    BY <1>a, <1>6, <2>1, <2>2, <2>3 DEF Fate, AtLeastOnce
  <2>6. CASE AtLeastOnce
    <3>1. \A d \in Entries : Fate'[d] = Fate[d]
      BY <2>4, <2>5, <2>6
    <3>2. QED BY <3>1, FateIsSame
  <2>7. CASE ~AtLeastOnce
    <3>1. ASSUME NEW d \in Entries, d < e PROVE Fate[d] \in {"handled", "parked", "lost"}
      <4>1. d <= last
        BY <1>a, <1>6, <2>1, <2>2, <3>1
      <4>2. QED BY <2>2, <2>7, <4>1, BeforeLast
    <3>2. QED BY <2>4, <2>5, <2>7, <3>1, SettleIsNext
  <2>8. QED BY <2>6, <2>7
<1>9. CASE HandlerReturns
  <2>1. /\ pc = "handle" /\ cur.payload = "good"
        /\ finished' = [finished EXCEPT ![last] = @ + 1]
        /\ UNCHANGED <<stream, last, dlq, cur, batch>>
    BY <1>9, <1>b DEF HandlerReturns, redis, Busy
  <2>2. cur.id = last /\ batch = {} /\ last \in Entries /\ InHand(last) /\ stream[last] = "good"
    BY <1>b, <2>1 DEF Busy, InHand, HoldInv
  <2>3. ~Parked(last)
    BY <2>1, <2>2 DEF Parked, ParkInv
  <2>4. finished \in [Entries -> Nat]
    BY DEF TypeInv, TypeOK
  <2>5. \A d \in Entries \ {last} : Handled(d)' = Handled(d) /\ Parked(d)' = Parked(d)
    BY <2>1, <2>2, <2>4 DEF Handled, Parked
  <2>6. Handled(last)'
    BY <2>1, <2>2, <2>4 DEF Handled
  <2>7. QED BY <2>1, <2>2, <2>3, <2>5, <2>6, LastMoves
<1>10. CASE Park \/ ParkUndecodable
  <2>1. /\ pc \in Busy /\ UNCHANGED <<stream, last, finished, cur, batch>>
        /\ \E why \in {"decode", "attempts"} : dlq' = dlq \cup {<<last, why>>}
    BY <1>10, <1>b DEF Park, ParkUndecodable, history, Busy
  <2>2. cur.id = last /\ batch = {} /\ last \in Entries /\ InHand(last)
    BY <1>b, <2>1 DEF InHand
  <2>3. \A d \in Entries \ {last} : Handled(d)' = Handled(d) /\ Parked(d)' = Parked(d)
    BY <2>1 DEF Handled, Parked
  <2>4. Handled(last)' = Handled(last) /\ Parked(last)'
    BY <2>1 DEF Handled, Parked
  <2>5. QED BY <2>1, <2>2, <2>3, <2>4, LastMoves
<1>11. ASSUME UNCHANGED <<stream, last, finished, dlq>>, cur' = Nothing, batch' = {}
       PROVE  Promise!Next \/ Fate' = Fate
  <2>1. \A d \in Entries : Handled(d)' = Handled(d) /\ Parked(d)' = Parked(d) /\ ~InHand(d)'
    BY <1>11 DEF Handled, Parked, InHand, Nothing
  <2>2. cur'.id \in {0, last} /\ \A x \in batch' : x.id = last
    BY <1>11 DEF Nothing
  <2>3. last \in Entries => Handled(last)' = Handled(last) /\ Parked(last)' = Parked(last)
                            /\ ~InHand(last)'
    <3> SUFFICES ASSUME last \in Entries
                 PROVE  /\ Handled(last)' = Handled(last) /\ Parked(last)' = Parked(last)
                        /\ ~InHand(last)'
        OBVIOUS
    <3>1. last' = last
      BY <1>11
    <3>2. Handled(last)' = Handled(last) /\ Parked(last)' = Parked(last)
      BY <1>11 DEF Handled, Parked
    <3>3. ~InHand(last)'
      BY <1>11 DEF InHand, Nothing
    <3>4. QED BY <3>2, <3>3
  <2>4. QED BY <1>11, <2>1, <2>2, <2>3, LastMoves
<1>12. CASE AckParked \/ Resume
  <2>1. pc \in Busy /\ NextEntry /\ UNCHANGED <<stream, last, finished, dlq>>
    BY <1>12 DEF AckParked, Resume, Acknowledge, redis, history, Busy
  <2>2. cur' = Nothing /\ batch' = {}
    BY <1>b, <2>1 DEF NextEntry
  <2>3. QED BY <1>11, <2>1, <2>2
<1>13. CASE RaiseUndecodable \/ HandlerRaises \/ Restart \/ Disconnect \/ LoseAckReply
            \/ LoseCountReply \/ ThreadDies \/ ProcessDies
  <2>1. \E next \in {"down", "ensure"} : Abandon(next)
    BY <1>13
    DEF RaiseUndecodable, HandlerRaises, Restart, Disconnect, LoseAckReply,
        LoseCountReply, ThreadDies, ProcessDies
  <2>2. UNCHANGED <<stream, last, finished, dlq>>
    BY <1>13
    DEF RaiseUndecodable, HandlerRaises, Restart, Disconnect, LoseAckReply,
        LoseCountReply, ThreadDies, ProcessDies, redis, history
  <2>3. QED BY <1>11, <2>1, <2>2 DEF Abandon
<1>14. QED
  BY <1>2, <1>3, <1>4, <1>5, <1>7, <1>8, <1>9, <1>10, <1>12, <1>13
  DEF Next, Consume, Faulty

(* The bus keeps what it promises, in both delivery modes, with and        *)
(* without a dead letter queue or a guard: over a stream that keeps its    *)
(* entries, every step of publisher, consumer, supervisor and fault leaves *)
(* every entry's fate as it was, or settles one entry after all before it, *)
(* or appends one.  No fate is taken back, and at least once loses none.   *)
THEOREM KeepsPromiseSafely ==
  ASSUME StreamMaxlen = 0
  PROVE  Spec => Promise!Init /\ [][Promise!Next]_Fate
<1> DEFINE BusInv == TypeInv /\ ModeInv /\ HoldInv /\ ParkInv /\ GivenInv
<1>1. Init => BusInv
  <2>1. Init => GivenInv
    BY DEF Init, GivenInv, Handled
  <2>2. QED BY <2>1, TypeInit, ModeInit, HoldInit
<1>2. BusInv /\ [Next]_vars => BusInv'
  <2> SUFFICES ASSUME BusInv, [Next]_vars PROVE BusInv'
      OBVIOUS
  <2>1. TypeInv'
    BY TypeStep
  <2>2. ModeInv'
    BY ModeStep
  <2>3. HoldInv'
    BY HoldStep
  <2>4. ParkInv'
    BY ParkStep
  <2>5. GivenInv'
    BY GivenStep
  <2>6. QED BY <2>1, <2>2, <2>3, <2>4, <2>5
<1>3. BusInv /\ [Next]_vars => [Promise!Next]_Fate
  BY PromiseStep
<1> HIDE DEF BusInv
<1>4. QED
  BY <1>1, <1>2, <1>3, PromiseInit, PTL DEF Spec
================================================================================
