---------------------------- MODULE AuthoringProofs ----------------------------
(***************************************************************************)
(* Theorems about Authoring: the type invariant, with what a step of the   *)
(* worker, a stream or a writer leaves for the next, and that the author's *)
(* memory of its draft is honest.                                          *)
(***************************************************************************)
EXTENDS Authoring, FiniteSetTheorems, WellFoundedInduction, TLAPS

USE AuthoringAssumption

------------------------------------------------------------------------------
(* The largest of some numbers up to a bound.                              *)
LEMMA LargestOf ==
  ASSUME NEW n \in Nat, NEW S \in SUBSET (1 .. n)
  PROVE  /\ Largest(S) \in 0 .. n
         /\ S # {} => Largest(S) \in S
         /\ \A k \in S : k <= Largest(S)
<1>1. CASE S = {}
  BY <1>1 DEF Largest
<1>2. CASE S # {}
  <2> DEFINE T == {m \in Nat : n - m \in S}
  <2>1. T \subseteq Nat
    OBVIOUS
  <2>2. T # {}
    <3>1. PICK k \in S : TRUE
      BY <1>2
    <3>2. k \in 1 .. n /\ n - k \in Nat /\ n - (n - k) = k
      BY <3>1
    <3>3. n - k \in T
      BY <3>1, <3>2
    <3>4. QED
      BY <3>3
  <2>3. PICK m \in T : \A y \in T : ~ (<<y, m>> \in OpToRel(<, Nat))
    <3> HIDE DEF T
    <3>1. QED
      BY <2>1, <2>2, NatLessThanWellFounded, WFMin
  <2>4. \A y \in T : ~ (y < m)
    BY <2>3 DEF OpToRel
  <2>5. n - m \in S /\ \A k \in S : k <= n - m
    <3>1. SUFFICES ASSUME NEW k \in S PROVE k <= n - m
      OBVIOUS
    <3>2. n - k \in T
      OBVIOUS
    <3>3. ~ (n - k < m) /\ m \in Nat /\ k \in Nat
      BY <2>4, <3>2
    <3>4. QED
      BY <3>3
  <2>6. Largest(S) \in S /\ \A k \in S : k <= Largest(S)
    BY <1>2, <2>5 DEF Largest
  <2> HIDE DEF T
  <2>7. Largest(S) \in 1 .. n
    BY <2>6
  <2>8. QED
    BY <2>6, <2>7
<1>3. QED
  BY <1>1, <1>2

(* A sequence of steps remains one when another step is traced.            *)
LEMMA StepsGrow ==
  ASSUME NEW n \in Nat, NEW m \in Nat, n <= m, NEW s \in Seq(1 .. n)
  PROVE  s \in Seq(1 .. m)
<1>1. Len(s) \in Nat /\ s \in [1 .. Len(s) -> 1 .. n]
  OBVIOUS
<1>2. s \in [1 .. Len(s) -> 1 .. m]
  BY <1>1
<1>3. QED
  BY <1>1, <1>2

------------------------------------------------------------------------------
(* The type invariant, with what it rests on: what the worker has in hand  *)
(* while it hands a step to the sink, and what a writer of the row has     *)
(* between its read and its write.                                         *)

Workers == [pc : {"idle", "model", "calls", "publish", "append", "drafted", "audit",
                       "record", "finish", "mark", "over"},
                 after : {"none", "calls", "drafted", "finish"},
                 round : 1 .. MaxRounds, attempt : 1 .. MaxAttempts, left : Seq(Calls),
                 outcome : {"none", "gave_up", "failed", "succeeded"}, closed : BOOLEAN]

Sinking == worker.pc \in {"publish", "append"}
WorkerFits ==
  Sinking => worker.after # "none" /\ seq >= 1 /\ seq \notin stored \cup unstored

ValueOf(w) == IF w = "disposition" THEN {"accepted", "rejected"} ELSE {"worked", "failed"}
UpdateFits ==
  \A w \in Writers :
    /\ update[w].pc # "rest" => update[w].value \in ValueOf(w)
    /\ update[w].pc = "read" => update[w].seen \in Fields /\ row # NoRow

Concluding ==
  \/ worker.pc \in {"drafted", "audit", "record", "finish"}
  \/ Sinking /\ worker.after \in {"drafted", "finish"}
OutcomeFits == Concluding => worker.outcome # "none"

TypeInv == AuthoringTypeOK /\ WorkerFits /\ OutcomeFits /\ UpdateFits

LEMMA InitType == Init => TypeInv
<1> SUFFICES ASSUME Init PROVE TypeInv
  OBVIOUS
<1>1. <<>> \in Seq(Calls) /\ <<>> \in Seq(Steps)
  OBVIOUS
<1>2. Cardinality(results) = 0 /\ settings.outcomes \in Nat
  BY FS_EmptySet DEF Init
<1>3. AuthoringTypeOK
  <2>1. 1 \in 1 .. MaxRounds /\ 1 \in 1 .. MaxAttempts /\ 0 \in 0 .. settings.views
    BY DEF Init
  <2>2. worker \in Workers
    BY <1>1, <2>1 DEF Init, Workers
  <2>3. viewer = Away /\ Away.queue = <<>> /\ Len(<<>>) = 0
    BY DEF Init, Away
  <2>4. /\ viewer \in [pc : {"away", "subscribed", "replayed", "live", "finished", "cut"},
                 sent : SUBSET Steps, max : 0 .. seq, queue : Seq(Steps), excused : SUBSET Steps]
        /\ Len(viewer.queue) <= MaxQueue
    BY <1>1, <2>3 DEF Init, Away
  <2>5. update \in [Writers -> [pc : {"rest", "due", "read"}, seen : Fields \cup {<<>>},
                             value : {"none", "accepted", "rejected", "worked", "failed"}]]
    BY DEF Init, Resting
  <2>6. /\ seq \in Nat /\ stored \subseteq Steps /\ unstored \subseteq Steps
        /\ stored \cap unstored = {} /\ coming \in Seq(Steps) /\ results \subseteq Results
        /\ Cardinality(results) <= settings.outcomes /\ views \in 0 .. settings.views
    BY <1>1, <1>2, <2>1 DEF Init
  <2>7. /\ settings \in Settings /\ ended \in BOOLEAN
        /\ header \in {"absent", "running", "gave_up", "failed", "succeeded"}
        /\ proposal \in {"none", "proposed", "accepted", "rejected"}
        /\ row \in [columns : Fields, payload : Fields] \cup {NoRow}
        /\ faults \subseteq {"store", "finalize", "decide", "death"}
    BY DEF Init
  <2>8. QED
    BY <2>2, <2>4, <2>5, <2>6, <2>7 DEF AuthoringTypeOK, Workers
<1>4. WorkerFits /\ OutcomeFits /\ UpdateFits
  BY DEF Init, WorkerFits, OutcomeFits, Concluding, Sinking, UpdateFits, Writers, Resting
<1>5. QED
  BY <1>3, <1>4 DEF TypeInv

(* What most steps of the worker do to the trace: nothing, or a step more. *)
Silent == seq' = seq /\ ~Sinking' /\ (worker'.closed = worker.closed)
Traces == /\ seq' = seq + 1 /\ worker'.pc = "publish" /\ worker'.after # "none"
          /\ worker'.closed = (worker'.after = "finish")
Moves ==
  /\ ~Sinking /\ worker' \in Workers /\ (Silent \/ Traces)
  /\ stored' = stored /\ unstored' = unstored /\ coming' = coming /\ viewer' = viewer
  /\ views' = views /\ settings' = settings /\ ended' \in BOOLEAN

LEMMA EmitMoves ==
  ASSUME NEW after \in {"calls", "drafted", "finish"}, NEW w \in Workers, Emit(after, w)
  PROVE  /\ worker' \in Workers
         /\ \/ settings.traced /\ Traces
            \/ ~settings.traced /\ seq' = seq /\ worker' = [w EXCEPT !.pc = after]
<1>1. CASE settings.traced
  <2> DEFINE b == after = "finish"
  <2>1. /\ worker' = [w EXCEPT !.pc = "publish", !.after = after, !.closed = b]
        /\ seq' = seq + 1
    BY <1>1 DEF Emit
  <2>2. b \in BOOLEAN
    OBVIOUS
  <2> HIDE DEF b
  <2>3. worker' \in Workers /\ worker'.pc = "publish" /\ worker'.after = after /\ worker'.closed = b
    BY <2>1, <2>2 DEF Workers
  <2>4. QED
    BY <1>1, <2>1, <2>3 DEF Traces, b
<1>2. CASE ~settings.traced
  BY <1>2 DEF Emit, Workers
<1>3. QED
  BY <1>1, <1>2

(* What the worker is when it is left for another place.                   *)
LEMMA Placed ==
  ASSUME NEW w \in Workers, NEW p \in {"model", "calls", "drafted", "audit", "record", "finish", "mark", "over"},
         worker' = [w EXCEPT !.pc = p]
  PROVE  worker' \in Workers /\ ~Sinking' /\ worker'.closed = w.closed
BY DEF Workers, Sinking

LEMMA PlainMoves ==
  ASSUME AuthoringTypeOK,
         \/ DraftAsync \/ Propose \/ AddProposal \/ AuditProposal \/ FinishRun \/ MarkEnded
  PROVE  Moves
<1>0. worker \in Workers /\ ended \in BOOLEAN
  BY DEF AuthoringTypeOK, Workers
<1>1. PICK p \in {"model", "audit", "record", "mark", "over"} : worker' = [worker EXCEPT !.pc = p]
  BY DEF DraftAsync, Propose, AddProposal, AuditProposal, FinishRun, MarkEnded, Escapes, Go
<1>2. worker' \in Workers /\ ~Sinking' /\ worker'.closed = worker.closed
  BY <1>0, <1>1, Placed
<1>3. ~Sinking /\ ended' \in BOOLEAN
  BY <1>0 DEF DraftAsync, Propose, AddProposal, AuditProposal, FinishRun, MarkEnded, Sinking
<1>4. QED
  BY <1>2, <1>3 DEF DraftAsync, Propose, AddProposal, AuditProposal, FinishRun, MarkEnded, stream,
     Moves, Silent

LEMMA DraftedMoves ==
  ASSUME NEW o \in {"none", "gave_up", "failed", "succeeded"}, NEW w \in Workers, Drafted(o, w)
  PROVE  worker' \in Workers /\ ~Sinking' /\ worker'.closed = w.closed
BY DEF Drafted, Workers, Sinking

LEMMA AgainMoves ==
  ASSUME worker \in Workers, worker.pc = "model", ~LastAttempt, Again
  PROVE  worker' \in Workers /\ ~Sinking' /\ worker'.closed = worker.closed
<1>1. worker.attempt + 1 \in 1 .. MaxAttempts
  BY DEF LastAttempt, Workers
<1>2. QED
  BY <1>1 DEF Again, Workers, Sinking

LEMMA ModelMoves ==
  ASSUME AuthoringTypeOK,
         NullDraft \/ RateLimited \/ Terminal \/ AttemptDraft \/ DraftRaises \/ NextRound
  PROVE  Moves
<1>0. worker \in Workers /\ ended \in BOOLEAN
  BY DEF AuthoringTypeOK, Workers
<1>1. worker' \in Workers /\ ~Sinking' /\ worker'.closed = worker.closed
  <2>1. CASE NextRound /\ worker.round # MaxRounds
    <3>1. worker.round + 1 \in 1 .. MaxRounds /\ 1 \in 1 .. MaxAttempts
      BY <1>0, <2>1 DEF Workers
    <3>2. worker' = [worker EXCEPT !.pc = "model", !.round = @ + 1, !.attempt = 1]
      BY <2>1 DEF NextRound
    <3>3. QED
      BY <1>0, <3>1, <3>2 DEF Workers, Sinking
  <2>2. CASE worker.pc = "model" /\ ~LastAttempt /\ Again
    BY <1>0, <2>2, AgainMoves
  <2>3. CASE \E o \in {"gave_up", "failed", "succeeded"} : Drafted(o, worker)
    BY <1>0, <2>3, DraftedMoves
  <2>4. QED
    BY <2>1, <2>2, <2>3 DEF NullDraft, RateLimited, Terminal, AttemptDraft, DraftRaises, NextRound
<1>2. ~Sinking
  BY DEF NullDraft, RateLimited, Terminal, AttemptDraft, DraftRaises, NextRound, Sinking
<1>3. NoTrace
  BY DEF NullDraft, RateLimited, Terminal, AttemptDraft, DraftRaises, NextRound
<1>4. QED
  BY <1>0, <1>1, <1>2, <1>3 DEF NoTrace, stream, Moves, Silent

LEMMA TraceMoves ==
  ASSUME AuthoringTypeOK,
         CallModel \/ AnswerToolCall \/ SubmitRunbook \/ NoDraft \/ RecordDecision
  PROVE  Moves
<1>0. worker \in Workers /\ ended \in BOOLEAN /\ <<>> \in Seq(Calls)
  BY DEF AuthoringTypeOK, Workers
<1>1. ~Sinking
  BY DEF CallModel, AnswerToolCall, SubmitRunbook, NoDraft, RecordDecision, Sinking
<1>2. /\ stored' = stored /\ unstored' = unstored /\ coming' = coming /\ viewer' = viewer
      /\ views' = views /\ settings' = settings /\ ended' = ended
  BY DEF CallModel, AnswerToolCall, SubmitRunbook, NoDraft, RecordDecision, stream
<1>3. SUFFICES worker' \in Workers /\ (Silent \/ Traces)
  BY <1>0, <1>1, <1>2 DEF Moves
<1>4. ASSUME NEW after \in {"calls", "drafted", "finish"}, NEW w \in Workers, w.closed = worker.closed,
             Emit(after, w)
      PROVE  worker' \in Workers /\ (Silent \/ Traces)
  <2>1. CASE Traces
    BY <1>4, <2>1, EmitMoves
  <2>2. CASE seq' = seq /\ worker' = [w EXCEPT !.pc = after]
    BY <1>4, <2>2, Placed DEF Silent
  <2>3. QED
    BY <1>4, <2>1, <2>2, EmitMoves
<1>5. CASE CallModel
  <2>1. PICK m \in Messages :
          LET w == [worker EXCEPT !.pc = "calls", !.left = m.calls]
          IN IF m.content THEN Emit("calls", w) ELSE worker' = w /\ seq' = seq
    BY <1>5 DEF CallModel
  <2> DEFINE w == [worker EXCEPT !.pc = "calls", !.left = m.calls]
  <2>2. w \in Workers /\ w.closed = worker.closed /\ w.pc = "calls"
    BY <1>0 DEF Workers
  <2>3. Emit("calls", w) \/ (worker' = w /\ seq' = seq)
    BY <2>1
  <2> HIDE DEF w
  <2>4. CASE worker' = w /\ seq' = seq
    BY <2>2, <2>4 DEF Silent, Sinking
  <2>5. QED
    BY <1>4, <2>2, <2>3, <2>4
<1>6. CASE AnswerToolCall
  <2> DEFINE w == [worker EXCEPT !.left = Tail(@)]
  <2>0. Tail(worker.left) \in Seq(Calls)
    <3>1. worker.left \in Seq(Calls) /\ worker.left # <<>>
      BY <1>0, <1>6 DEF AnswerToolCall, Workers
    <3>2. QED
      BY <3>1
  <2>1. w \in Workers /\ w.closed = worker.closed
    BY <1>0, <2>0 DEF Workers
  <2>2. Emit("calls", w)
    BY <1>6 DEF AnswerToolCall
  <2> HIDE DEF w
  <2>3. QED
    BY <1>4, <2>1, <2>2
<1>7. CASE SubmitRunbook
  <2> DEFINE w == [worker EXCEPT !.left = <<>>, !.outcome = "succeeded"]
  <2>1. w \in Workers /\ w.closed = worker.closed
    BY <1>0 DEF Workers
  <2>2. Emit("drafted", w)
    BY <1>7 DEF SubmitRunbook
  <2> HIDE DEF w
  <2>3. QED
    BY <1>4, <2>1, <2>2
<1>8. CASE NoDraft \/ RecordDecision
  <2>1. Emit("finish", worker) \/ (Go("over") /\ seq' = seq)
    BY <1>8 DEF NoDraft, RecordDecision
  <2>2. CASE Go("over") /\ seq' = seq
    <3>1. worker' = [worker EXCEPT !.pc = "over"]
      BY <2>2 DEF Go
    <3>2. worker' \in Workers /\ ~Sinking' /\ worker'.closed = worker.closed
      BY <1>0, <3>1, Placed
    <3>3. QED
      BY <2>2, <3>2 DEF Silent
  <2>3. QED
    BY <1>0, <1>4, <2>1, <2>2
<1>9. QED
  BY <1>5, <1>6, <1>7, <1>8

WorkType ==
  /\ worker \in Workers /\ seq \in Nat /\ stored \subseteq Steps /\ unstored \subseteq Steps
  /\ header \in {"absent", "running", "gave_up", "failed", "succeeded"}
  /\ stored \cap unstored = {} /\ ended \in BOOLEAN
Viewers == [pc : {"away", "subscribed", "replayed", "live", "finished", "cut"},
            sent : SUBSET Steps, max : 0 .. seq, queue : Seq(Steps), excused : SUBSET Steps]
StreamType ==
  /\ coming \in Seq(Steps) /\ viewer \in Viewers /\ Len(viewer.queue) <= MaxQueue
  /\ views \in 0 .. settings.views
Updates == [pc : {"rest", "due", "read"}, seen : Fields \cup {<<>>},
            value : {"none", "accepted", "rejected", "worked", "failed"}]
MemoryType ==
  /\ settings \in Settings /\ proposal \in {"none", "proposed", "accepted", "rejected"}
  /\ row \in [columns : Fields, payload : Fields] \cup {NoRow}
  /\ update \in [Writers -> Updates]
  /\ results \subseteq Results /\ Cardinality(results) <= settings.outcomes
  /\ faults \subseteq {"store", "finalize", "decide", "death"}

LEMMA TypeParts == AuthoringTypeOK <=> WorkType /\ StreamType /\ MemoryType
BY DEF AuthoringTypeOK, WorkType, StreamType, MemoryType, Workers, Viewers, Updates

(* The steps of the worker.                                                *)
WorkerMoves ==
  \/ DraftAsync \/ Propose \/ NullDraft \/ RateLimited \/ Terminal \/ AttemptDraft \/ DraftRaises
  \/ CallModel \/ AnswerToolCall \/ SubmitRunbook \/ NextRound \/ NoDraft
  \/ AddProposal \/ AuditProposal \/ RecordDecision \/ FinishRun \/ MarkEnded

LEMMA AllMove == AuthoringTypeOK /\ WorkerMoves => Moves
BY PlainMoves, ModelMoves, TraceMoves DEF WorkerMoves

LEMMA MoveHeader ==
  ASSUME WorkType, OutcomeFits, WorkerMoves
  PROVE  header' \in {"absent", "running", "gave_up", "failed", "succeeded"}
<1>1. CASE FinishRun
  <2>1. worker.outcome \in {"gave_up", "failed", "succeeded"}
    BY <1>1 DEF FinishRun, OutcomeFits, Concluding, WorkType, Workers
  <2>2. QED
    BY <1>1, <2>1 DEF FinishRun, Finished, WorkType
<1>2. CASE DraftAsync
  BY <1>2 DEF DraftAsync, WorkType
<1>3. CASE ~FinishRun /\ ~DraftAsync
  <2>1. header' = header
    BY <1>3 DEF WorkerMoves, Propose, NullDraft, RateLimited, Terminal, AttemptDraft, DraftRaises,
       CallModel, AnswerToolCall, SubmitRunbook, NextRound, NoTrace, NoDraft, AddProposal,
       AuditProposal, RecordDecision, MarkEnded
  <2>2. QED
    BY <2>1 DEF WorkType
<1>4. QED
  BY <1>1, <1>2, <1>3

LEMMA MoveWork ==
  ASSUME WorkType, OutcomeFits, WorkerMoves, Moves
  PROVE  WorkType' /\ WorkerFits'
<1>1. seq' \in Nat /\ seq' \in {seq, seq + 1} /\ (Sinking' => seq' = seq + 1 /\ worker'.after # "none")
  BY DEF Moves, Silent, Traces, WorkType
<1>2. seq \in Nat /\ stored \subseteq 1 .. seq /\ unstored \subseteq 1 .. seq
  BY DEF WorkType, Steps
<1>3. stored' \subseteq 1 .. seq' /\ unstored' \subseteq 1 .. seq'
  BY <1>1, <1>2 DEF Moves
<1>4. WorkType'
  BY <1>1, <1>3, MoveHeader DEF WorkType, Steps, Moves
<1>5. WorkerFits'
  BY <1>1, <1>2 DEF WorkerFits, Moves
<1>6. QED
  BY <1>4, <1>5

LEMMA EmitSays ==
  ASSUME NEW after \in {"calls", "drafted", "finish"}, NEW w \in Workers, Emit(after, w)
  PROVE  /\ worker'.outcome = w.outcome
         /\ \/ worker'.pc = after
            \/ worker'.pc = "publish" /\ worker'.after = after
<1>1. CASE settings.traced
  <2> DEFINE b == after = "finish"
  <2>1. worker' = [w EXCEPT !.pc = "publish", !.after = after, !.closed = b]
    BY <1>1 DEF Emit
  <2> HIDE DEF b
  <2>2. QED
    BY <2>1 DEF Workers
<1>2. CASE ~settings.traced
  <2>1. worker' = [w EXCEPT !.pc = after]
    BY <1>2 DEF Emit
  <2>2. worker'.pc = after /\ worker'.outcome = w.outcome
    BY <2>1 DEF Workers
  <2>3. QED
    BY <2>2
<1>3. QED
  BY <1>1, <1>2

LEMMA MoveOutcome ==
  ASSUME WorkType, OutcomeFits, WorkerMoves
  PROVE  OutcomeFits'
<1> USE DEF OutcomeFits, Concluding, Sinking
<1>0. worker \in Workers
  BY DEF WorkType
<1>1. CASE DraftAsync \/ Propose \/ AddProposal \/ AuditProposal \/ FinishRun \/ MarkEnded
  BY <1>0, <1>1 DEF DraftAsync, Propose, AddProposal, AuditProposal, FinishRun, MarkEnded, Escapes,
     Go, Workers
<1>2. CASE NullDraft \/ RateLimited \/ Terminal \/ AttemptDraft \/ DraftRaises \/ NextRound
  <2>1. \/ \E o \in {"gave_up", "failed", "succeeded"} : worker' = [worker EXCEPT !.pc = "drafted", !.outcome = o]
        \/ worker.pc = "model" /\ worker' = [worker EXCEPT !.attempt = @ + 1]
        \/ worker' = [worker EXCEPT !.pc = "model", !.round = @ + 1, !.attempt = 1]
    BY <1>2 DEF NullDraft, RateLimited, Terminal, AttemptDraft, DraftRaises, NextRound, Drafted, Again
  <2>2. QED
    BY <1>0, <2>1 DEF Workers
<1>3. CASE CallModel
  <2>1. PICK m \in Messages :
          LET w == [worker EXCEPT !.pc = "calls", !.left = m.calls]
          IN IF m.content THEN Emit("calls", w) ELSE worker' = w /\ seq' = seq
    BY <1>3 DEF CallModel
  <2>2. [worker EXCEPT !.pc = "calls", !.left = m.calls] \in Workers
    BY <1>0 DEF Workers
  <2>3. CASE m.content
    BY <2>1, <2>2, <2>3, EmitSays
  <2>4. CASE ~m.content
    BY <1>0, <2>1, <2>4 DEF Workers
  <2>5. QED
    BY <2>3, <2>4
<1>4. CASE AnswerToolCall
  <2>0. Tail(worker.left) \in Seq(Calls)
    BY <1>0, <1>4 DEF AnswerToolCall, Workers
  <2>1. [worker EXCEPT !.left = Tail(@)] \in Workers
    BY <1>0, <2>0 DEF Workers
  <2>2. QED
    BY <1>4, <2>1, EmitSays DEF AnswerToolCall
<1>5. CASE SubmitRunbook
  BY <1>0, <1>5 DEF SubmitRunbook, Workers, Emit
<1>6. CASE NoDraft \/ RecordDecision
  BY <1>0, <1>6 DEF NoDraft, RecordDecision, Go, Workers, Emit
<1>7. QED
  BY <1>1, <1>2, <1>3, <1>4, <1>5, <1>6 DEF WorkerMoves

(* What a step more leaves of the stream's types.                          *)
LEMMA MoveStream ==
  ASSUME WorkType, StreamType, seq' \in Nat, seq <= seq',
         coming' = coming, viewer' = viewer, views' = views, settings' = settings
  PROVE  StreamType'
<1>1. seq \in Nat /\ 1 .. seq \subseteq 1 .. seq' /\ 0 .. seq \subseteq 0 .. seq'
  BY DEF WorkType
<1>2. coming \in Seq(1 .. seq') /\ viewer.queue \in Seq(1 .. seq')
  BY <1>1, StepsGrow DEF StreamType, Viewers, Steps
<1>3. viewer \in Viewers'
  BY <1>1, <1>2 DEF StreamType, Viewers, Steps
<1>4. QED
  BY <1>2, <1>3 DEF StreamType, Steps

LEMMA FaultType ==
  ASSUME MemoryType, NEW k \in {"store", "finalize", "decide", "death"}, Fault(k)
  PROVE  faults' \subseteq {"store", "finalize", "decide", "death"}
BY DEF MemoryType, Fault

LEMMA MoveMemory ==
  ASSUME MemoryType, UpdateFits, WorkerMoves
  PROVE  MemoryType' /\ UpdateFits'
<1>1. settings' = settings /\ update' = update /\ results' = results
  BY DEF WorkerMoves, DraftAsync, Propose, NullDraft, RateLimited, Terminal, AttemptDraft,
     DraftRaises, CallModel, AnswerToolCall, SubmitRunbook, NextRound, NoTrace, NoDraft, AddProposal,
     AuditProposal, RecordDecision, FinishRun, MarkEnded, memory
<1>2. faults' = faults \/ Fault("store") \/ Fault("finalize")
  BY DEF WorkerMoves, DraftAsync, Propose, NullDraft, RateLimited, Terminal, AttemptDraft,
     DraftRaises, CallModel, AnswerToolCall, SubmitRunbook, NextRound, NoTrace, NoDraft, AddProposal,
     AuditProposal, RecordDecision, FinishRun, MarkEnded, Escapes
<1>3. faults' \subseteq {"store", "finalize", "decide", "death"}
  BY <1>2, FaultType DEF MemoryType
<1>4. proposal' \in {proposal, "proposed"}
  BY DEF WorkerMoves, DraftAsync, Propose, NullDraft, RateLimited, Terminal, AttemptDraft,
     DraftRaises, CallModel, AnswerToolCall, SubmitRunbook, NextRound, NoTrace, NoDraft, AddProposal,
     AuditProposal, RecordDecision, FinishRun, MarkEnded, memory
<1>5. row' = row \/ row' = [columns |-> NewFields, payload |-> NewFields]
  BY DEF WorkerMoves, DraftAsync, Propose, NullDraft, RateLimited, Terminal, AttemptDraft,
     DraftRaises, CallModel, AnswerToolCall, SubmitRunbook, NextRound, NoTrace, NoDraft, AddProposal,
     AuditProposal, RecordDecision, FinishRun, MarkEnded, memory
<1>6. NewFields \in Fields /\ [columns |-> NewFields, payload |-> NewFields] # NoRow
  BY DEF NewFields, Fields, NoRow
<1>7. row' \in [columns : Fields, payload : Fields] \cup {NoRow} /\ (row # NoRow => row' # NoRow)
  BY <1>5, <1>6 DEF MemoryType
<1>8. MemoryType'
  BY <1>1, <1>3, <1>4, <1>7 DEF MemoryType
<1>9. UpdateFits'
  BY <1>1, <1>7 DEF UpdateFits
<1>10. QED
  BY <1>8, <1>9

LEMMA WorkerType == ASSUME TypeInv, WorkerMoves PROVE TypeInv'
<1>1. WorkType /\ StreamType /\ MemoryType /\ Moves
  BY TypeParts, AllMove DEF TypeInv
<1>2. WorkType' /\ WorkerFits' /\ OutcomeFits' /\ MemoryType' /\ UpdateFits'
  BY <1>1, MoveWork, MoveOutcome, MoveMemory DEF TypeInv
<1>3. StreamType'
  <2>1. seq' \in Nat /\ seq <= seq'
    BY <1>1 DEF Moves, Silent, Traces, WorkType
  <2>2. QED
    BY <1>1, <2>1, MoveStream DEF Moves
<1>4. AuthoringTypeOK'
  BY <1>2, <1>3 DEF AuthoringTypeOK, WorkType, StreamType, MemoryType, Workers, Viewers, Updates
<1>5. QED
  BY <1>2, <1>4 DEF TypeInv

(* The sink.                                                               *)
LEMMA SinkType == ASSUME TypeInv, HubPublish \/ AppendStep PROVE TypeInv'
<1>0. WorkType /\ StreamType /\ MemoryType /\ WorkerFits /\ OutcomeFits /\ UpdateFits
  BY TypeParts DEF TypeInv
<1>1. /\ settings' = settings /\ seq' = seq /\ header' = header /\ ended' = ended
      /\ viewer' = viewer /\ views' = views
      /\ proposal' = proposal /\ row' = row /\ update' = update /\ results' = results
  BY DEF HubPublish, AppendStep, stream, memory
<1>2. Sinking /\ seq \in 1 .. seq /\ seq \notin stored \cup unstored
  BY <1>0 DEF HubPublish, AppendStep, Sinking, WorkerFits, WorkType
<1>3. worker' \in Workers /\ WorkerFits' /\ OutcomeFits'
  <2>1. CASE HubPublish
    BY <1>0, <1>1, <2>1 DEF HubPublish, Go, Workers, WorkType, WorkerFits, Sinking, OutcomeFits,
       Concluding
  <2>2. CASE AppendStep
    <3>1. worker.after \in {"calls", "drafted", "finish"}
      BY <1>0, <1>2 DEF WorkType, Workers, WorkerFits
    <3>2. worker' \in Workers /\ worker'.pc = worker.after /\ worker'.outcome = worker.outcome
      BY <1>0, <2>2, <3>1 DEF AppendStep, Workers, WorkType
    <3>3. WorkerFits'
      BY <3>1, <3>2 DEF WorkerFits, Sinking
    <3>4. OutcomeFits'
      BY <1>0, <1>2, <3>1, <3>2 DEF OutcomeFits, Concluding, Sinking
    <3>5. QED
      BY <3>2, <3>3, <3>4
  <2>3. QED
    BY <2>1, <2>2
<1>4. /\ stored' \subseteq 1 .. seq /\ unstored' \subseteq 1 .. seq /\ stored' \cap unstored' = {}
  BY <1>0, <1>2 DEF HubPublish, AppendStep, WorkType, Steps
<1>5. WorkType'
  BY <1>0, <1>1, <1>3, <1>4 DEF WorkType, Steps
<1>6. coming' \in Seq(1 .. seq)
  <2>1. coming' = coming \/ coming' = Append(coming, seq)
    BY DEF HubPublish, AppendStep, stream
  <2>2. coming \in Seq(1 .. seq)
    BY <1>0 DEF StreamType, Steps
  <2>3. QED
    BY <1>2, <2>1, <2>2
<1>7. StreamType'
  BY <1>0, <1>1, <1>6 DEF StreamType, Viewers, Steps
<1>8. faults' \subseteq {"store", "finalize", "decide", "death"}
  BY <1>0, FaultType DEF HubPublish, AppendStep, MemoryType
<1>9. MemoryType' /\ UpdateFits'
  BY <1>0, <1>1, <1>8 DEF MemoryType, UpdateFits
<1>10. QED
  BY <1>3, <1>5, <1>7, <1>9
     DEF TypeInv, AuthoringTypeOK, WorkType, StreamType, MemoryType, Workers, Viewers, Updates

LEMMA AwayType ==
  ASSUME seq \in Nat
  PROVE  Away \in Viewers /\ Len(Away.queue) = 0 /\ MaxQueue \in Nat
<1>1. <<>> \in Seq(Steps) /\ Len(<<>>) = 0
  OBVIOUS
<1>2. QED
  BY <1>1 DEF Away, Viewers

LEMMA DeathType == ASSUME TypeInv, ProcessDies PROVE TypeInv'
<1>0. WorkType /\ StreamType /\ MemoryType /\ WorkerFits /\ OutcomeFits /\ UpdateFits
  BY TypeParts DEF TypeInv
<1>1. /\ settings' = settings /\ seq' = seq /\ header' = header /\ stored' = stored
      /\ views' = views /\ proposal' = proposal /\ row' = row /\ results' = results
      /\ coming' = <<>> /\ viewer' = Away /\ ended' = FALSE
  BY DEF ProcessDies
<1>2. worker' \in Workers /\ WorkerFits' /\ OutcomeFits'
  BY <1>0 DEF ProcessDies, Go, Workers, WorkType, WorkerFits, Sinking, OutcomeFits, Concluding
<1>3. WorkType'
  BY <1>0, <1>1, <1>2 DEF ProcessDies, WorkType, Steps
<1>4. StreamType'
  <2>1. seq \in Nat /\ <<>> \in Seq(1 .. seq)
    BY <1>0 DEF WorkType
  <2>2. /\ Away \in Viewers' /\ Len(Away.queue) = 0 /\ MaxQueue \in Nat
    BY <1>1, <2>1, AwayType DEF Viewers, Steps
  <2>3. QED
    BY <1>0, <1>1, <2>1, <2>2 DEF StreamType, Steps
<1>5. update' \in [Writers -> Updates] /\ UpdateFits'
  <2>1. /\ update' \in [Writers -> Updates]
        /\ update'["disposition"] = Resting
        /\ \/ update'["outcome"] = update["outcome"]
           \/ update'["outcome"] = [update["outcome"] EXCEPT !.pc = "due", !.seen = <<>>]
    <3> DEFINE o == update["outcome"]
               again == [o EXCEPT !.pc = "due", !.seen = <<>>]
               next == IF o.pc = "read" THEN again ELSE o
    <3>1. update' = [update EXCEPT !["disposition"] = Resting, !["outcome"] = next]
      BY DEF ProcessDies
    <3>2. update \in [Writers -> Updates] /\ o \in Updates /\ again \in Updates
      BY <1>0 DEF MemoryType, Writers, Updates
    <3>3. Resting \in Updates
      BY DEF Updates, Resting
    <3>4. next \in {o, again}
      OBVIOUS
    <3> HIDE DEF next, again
    <3>5. update' \in [Writers -> Updates] /\ update'["disposition"] = Resting /\ update'["outcome"] = next
      BY <3>1, <3>2, <3>3, <3>4 DEF Writers
    <3>6. QED
      BY <3>4, <3>5 DEF again
  <2>2. /\ update["outcome"] \in Updates
        /\ update["outcome"].pc # "rest" => update["outcome"].value \in {"worked", "failed"}
        /\ update["outcome"].pc = "read" => update["outcome"].seen \in Fields /\ row # NoRow
    BY <1>0 DEF UpdateFits, Writers, ValueOf, MemoryType
  <2>3. /\ Resting.pc = "rest"
        /\ update'["outcome"].pc # "rest" => update'["outcome"].value \in {"worked", "failed"}
        /\ update'["outcome"].pc = "read" => update'["outcome"].seen \in Fields
    <3>1. CASE update["outcome"].pc = "read"
      BY <2>1, <2>2, <3>1 DEF Updates, Resting
    <3>2. CASE update["outcome"].pc # "read"
      <4>1. update'["outcome"] = update["outcome"]
        BY <1>0, <3>2 DEF ProcessDies, MemoryType, Writers
      <4>2. QED
        BY <2>2, <4>1 DEF Resting
    <3>3. QED
      BY <3>1, <3>2
  <2>4. UpdateFits'
    <3>1. ASSUME NEW w \in Writers
          PROVE  /\ update'[w].pc # "rest" => update'[w].value \in ValueOf(w)
                 /\ update'[w].pc = "read" => update'[w].seen \in Fields /\ row' # NoRow
      <4>1. CASE w = "disposition"
        BY <2>1, <2>3, <4>1
      <4>2. CASE w = "outcome"
        <5>1. update["outcome"].pc # "read" => update'["outcome"] = update["outcome"]
          BY <1>0 DEF ProcessDies, MemoryType, Writers
        <5>2. update["outcome"].pc = "read" => update'["outcome"].pc = "due"
          BY <1>0, <2>2 DEF ProcessDies, MemoryType, Writers, Updates
        <5>3. update'["outcome"].pc = "read" => row # NoRow
          BY <2>2, <5>1, <5>2
        <5>4. QED
          BY <1>1, <2>3, <4>2, <5>3 DEF ValueOf
      <4>3. QED
        BY <4>1, <4>2 DEF Writers
    <3>2. QED
      BY <3>1 DEF UpdateFits
  <2>5. QED
    BY <2>1, <2>4
<1>6. faults' \subseteq {"store", "finalize", "decide", "death"}
  BY <1>0, FaultType DEF ProcessDies
<1>7. MemoryType'
  BY <1>0, <1>1, <1>5, <1>6 DEF MemoryType
<1>8. QED
  BY <1>2, <1>3, <1>4, <1>5, <1>7
     DEF TypeInv, AuthoringTypeOK, WorkType, StreamType, MemoryType, Workers, Viewers, Updates

(* The console on the stream.                                              *)
LEMMA QueuedType ==
  ASSUME seq \in Nat, viewer \in Viewers, Len(viewer.queue) <= MaxQueue, NEW n \in Steps
  PROVE  Queued(n) \in Viewers /\ Len(Queued(n).queue) <= MaxQueue
<1> DEFINE q == viewer.queue
<1>1. q \in Seq(Steps) /\ Len(q) \in Nat /\ MaxQueue \in Nat \ {0}
  BY DEF Viewers
<1>2. CASE Len(q) < MaxQueue
  <2>1. Append(q, n) \in Seq(Steps) /\ Len(Append(q, n)) <= MaxQueue
    BY <1>1, <1>2
  <2>2. Queued(n) = [viewer EXCEPT !.queue = Append(q, n)]
    BY <1>2 DEF Queued
  <2> HIDE DEF q
  <2>3. QED
    BY <2>1, <2>2 DEF Viewers
<1>3. CASE ~(Len(q) < MaxQueue)
  <2>1. Len(q) = MaxQueue /\ q # <<>> /\ Head(q) \in Steps
    BY <1>1, <1>3
  <2>2. Append(Tail(q), n) \in Seq(Steps) /\ Len(Append(Tail(q), n)) <= MaxQueue
    BY <1>1, <2>1
  <2>3. Queued(n) = [viewer EXCEPT !.queue = Append(Tail(q), n), !.excused = @ \cup {Head(q)}]
    BY <1>3 DEF Queued
  <2>4. viewer.excused \cup {Head(q)} \in SUBSET Steps
    BY <2>1 DEF Viewers
  <2> HIDE DEF q
  <2>5. QED
    BY <2>2, <2>3, <2>4 DEF Viewers
<1>4. QED
  BY <1>2, <1>3

ViewerMoves == Subscribe \/ Replay \/ CheckEnded \/ Deliver \/ TakeStep \/ Leave

LEMMA TakeStepType ==
  ASSUME seq \in Nat, viewer \in Viewers, Len(viewer.queue) <= MaxQueue, TakeStep
  PROVE  viewer' \in Viewers /\ Len(viewer'.queue) <= MaxQueue
<1> DEFINE q == viewer.queue
           n == Head(q)
           taken == [viewer EXCEPT !.queue = Tail(q)]
           sent == [taken EXCEPT !.sent = @ \cup {n}, !.max = n]
<1>1. q \in Seq(Steps) /\ q # <<>> /\ MaxQueue \in Nat \ {0}
  BY DEF Viewers, TakeStep
<1>2. n \in Steps /\ n \in 0 .. seq /\ Tail(q) \in Seq(Steps) /\ Len(Tail(q)) <= MaxQueue
  <2>1. Len(q) <= MaxQueue /\ Len(q) \in Nat
    BY <1>1
  <2> HIDE DEF q
  <2>2. n \in Steps /\ Tail(q) \in Seq(Steps) /\ Len(Tail(q)) = Len(q) - 1
    BY <1>1
  <2> HIDE DEF n
  <2>3. QED
    BY <1>1, <2>1, <2>2 DEF Steps
<1>3. <<>> \in Seq(Steps) /\ Len(<<>>) <= MaxQueue
  BY <1>1
<1>4. viewer' \in {taken, sent, [sent EXCEPT !.pc = "finished", !.queue = <<>>]}
  BY DEF TakeStep
<1> HIDE DEF q, n
<1>5. taken \in Viewers /\ taken.queue = Tail(q)
  BY <1>2 DEF Viewers
<1>6. sent \in Viewers /\ sent.queue = Tail(q)
  BY <1>2, <1>5 DEF Viewers
<1> HIDE DEF taken, sent
<1>7. [sent EXCEPT !.pc = "finished", !.queue = <<>>] \in Viewers
      /\ [sent EXCEPT !.pc = "finished", !.queue = <<>>].queue = <<>>
  BY <1>3, <1>6 DEF Viewers
<1>8. QED
  BY <1>2, <1>3, <1>4, <1>5, <1>6, <1>7

LEMMA ViewerStep ==
  ASSUME WorkType, WorkerFits, StreamType, ViewerMoves
  PROVE  viewer' \in Viewers /\ Len(viewer'.queue) <= MaxQueue /\ coming' \in Seq(Steps)
<1>0. /\ seq \in Nat /\ viewer \in Viewers /\ Len(viewer.queue) <= MaxQueue
      /\ coming \in Seq(Steps) /\ MaxQueue \in Nat
  BY DEF WorkType, StreamType
<1>1. <<>> \in Seq(Steps) /\ Len(<<>>) <= MaxQueue
  BY <1>0
<1>2. CASE Subscribe
  <2>1. Away \in Viewers /\ Away.queue = <<>>
    BY <1>0, AwayType DEF Away
  <2>2. PICK x \in SUBSET Steps : viewer' = [Away EXCEPT !.pc = "subscribed", !.excused = x]
    <3>1. worker.pc = "append" => seq \in Steps
      BY DEF WorkerFits, Sinking, WorkType, Steps
    <3>2. QED
      BY <1>2, <3>1 DEF Subscribe
  <2>3. viewer' \in Viewers /\ viewer'.queue = <<>>
    BY <2>1, <2>2 DEF Viewers
  <2>4. QED
    BY <1>1, <1>2, <2>3 DEF Subscribe
<1>3. CASE Replay
  <2>1. Largest(stored) \in 0 .. seq /\ stored \in SUBSET Steps
    BY <1>0, LargestOf DEF WorkType, Steps
  <2>2. viewer' \in Viewers /\ viewer'.queue = viewer.queue
    <3>1. \/ viewer' = [viewer EXCEPT !.pc = "replayed", !.sent = stored, !.max = Largest(stored)]
          \/ viewer' = [viewer EXCEPT !.pc = "replayed", !.excused = @ \cup stored]
      BY <1>3 DEF Replay
    <3>2. viewer.excused \cup stored \in SUBSET Steps
      BY <1>0, <2>1 DEF Viewers
    <3>3. QED
      BY <1>0, <2>1, <3>1, <3>2 DEF Viewers
  <2>3. QED
    BY <1>0, <1>3, <2>2 DEF Replay
<1>4. CASE CheckEnded
  <2>1. viewer' = [viewer EXCEPT !.pc = "cut", !.queue = <<>>] \/ viewer' = [viewer EXCEPT !.pc = "live"]
    BY <1>4 DEF CheckEnded, Closed
  <2>2. viewer' \in Viewers /\ viewer'.queue \in {viewer.queue, <<>>}
    BY <1>0, <1>1, <2>1 DEF Viewers
  <2>3. coming' \in {coming, <<>>}
    BY <1>4 DEF CheckEnded
  <2>4. QED
    BY <1>0, <1>1, <2>2, <2>3
<1>5. CASE Deliver
  <2>1. Head(coming) \in Steps /\ Tail(coming) \in Seq(Steps)
    BY <1>0, <1>5 DEF Deliver
  <2>2. QED
    BY <1>0, <1>5, <2>1, QueuedType DEF Deliver
<1>6. CASE TakeStep
  <2>1. coming' \in {coming, <<>>}
    BY <1>6 DEF TakeStep
  <2>2. QED
    BY <1>0, <1>1, <1>6, <2>1, TakeStepType
<1>7. CASE Leave
  BY <1>0, <1>1, <1>7, AwayType DEF Leave, Away
<1>8. QED
  BY <1>2, <1>3, <1>4, <1>5, <1>6, <1>7 DEF ViewerMoves

LEMMA ViewerType == ASSUME TypeInv, ViewerMoves PROVE TypeInv'
<1>0. WorkType /\ StreamType /\ MemoryType /\ WorkerFits /\ OutcomeFits /\ UpdateFits
  BY TypeParts DEF TypeInv
<1>1. /\ settings' = settings /\ worker' = worker /\ seq' = seq /\ header' = header
      /\ stored' = stored /\ unstored' = unstored /\ ended' = ended
      /\ proposal' = proposal /\ row' = row /\ update' = update /\ results' = results
  BY DEF ViewerMoves, Subscribe, Replay, CheckEnded, Deliver, TakeStep, Leave, run, memory
<1>2. faults' \subseteq {"store", "finalize", "decide", "death"}
  BY <1>0, FaultType DEF ViewerMoves, Subscribe, Replay, CheckEnded, Deliver, TakeStep, Leave, MemoryType
<1>3. views' \in 0 .. settings.views
  <2>1. settings.views \in Nat
    BY <1>0 DEF MemoryType
  <2>2. QED
    BY <1>0, <2>1 DEF ViewerMoves, Subscribe, Replay, CheckEnded, Deliver, TakeStep, Leave, StreamType
<1>4. WorkType' /\ WorkerFits' /\ OutcomeFits'
  BY <1>0, <1>1 DEF WorkType, WorkerFits, OutcomeFits, Concluding, Sinking, Steps
<1>5. StreamType'
  BY <1>0, <1>1, <1>3, ViewerStep DEF StreamType, Viewers, Steps
<1>6. MemoryType' /\ UpdateFits'
  BY <1>0, <1>1, <1>2 DEF MemoryType, UpdateFits
<1>7. QED
  BY <1>4, <1>5, <1>6
     DEF TypeInv, AuthoringTypeOK, WorkType, StreamType, MemoryType, Workers, Viewers, Updates

(* The decision and the outcomes.                                          *)
MemoryMoves == Decide \/ OutcomeArrives \/ \E w \in Writers : ReadRow(w) \/ WriteRow(w)

LEMMA WrittenType ==
  ASSUME NEW w \in Writers, update[w].seen \in Fields, update[w].value \in ValueOf(w),
         row \in [columns : Fields, payload : Fields]
  PROVE  Written(w) \in [columns : Fields, payload : Fields]
<1>1. CASE w = "disposition"
  BY <1>1 DEF Written, ValueOf, Fields
<1>2. CASE w = "outcome"
  BY <1>2 DEF Written, ValueOf, Fields
<1>3. QED
  BY <1>1, <1>2 DEF Writers

(* What each of them does to the writers and the row.                      *)
LEMMA MemoryEffect ==
  ASSUME MemoryType, UpdateFits, MemoryMoves
  PROVE  /\ settings' = settings
         /\ proposal' \in {proposal, "accepted", "rejected"}
         /\ results \subseteq results' /\ results' \subseteq Results
         /\ Cardinality(results') <= settings.outcomes
         /\ faults' \subseteq {"store", "finalize", "decide", "death"}
         /\ row' = row \/ \E w \in Writers : row' = Written(w) /\ update[w].pc = "read"
         /\ update' \in [Writers -> Updates]
         /\ \A w \in Writers :
              \/ update'[w] = update[w]
              \/ update'[w] = Resting
              \/ /\ update'[w].pc = "due" /\ update'[w].value \in ValueOf(w)
              \/ /\ update'[w].pc = "read" /\ update'[w].value = update[w].value
                 /\ update[w].pc = "due" /\ row # NoRow /\ update'[w].seen = row.payload
<1>0. update \in [Writers -> Updates] /\ Resting \in Updates
  BY DEF MemoryType, Updates, Resting
<1>1. CASE Decide
  <2>1. /\ settings' = settings /\ row' = row /\ results' = results
        /\ proposal' \in {"accepted", "rejected"}
    BY <1>1 DEF Decide, run
  <2>2. faults' \subseteq {"store", "finalize", "decide", "death"}
    BY <1>1, FaultType DEF Decide, MemoryType
  <2>3. CASE UNCHANGED update
    BY <1>0, <2>1, <2>2, <2>3 DEF MemoryType
  <2>4. CASE update' = [update EXCEPT !["disposition"].pc = "due", !["disposition"].value = proposal']
    <3>1. /\ update' \in [Writers -> Updates]
          /\ update'["disposition"].pc = "due" /\ update'["disposition"].value = proposal'
          /\ update'["outcome"] = update["outcome"]
      BY <1>0, <2>1, <2>4 DEF Updates, Writers
    <3>2. QED
      BY <2>1, <2>2, <3>1 DEF Writers, ValueOf, MemoryType
  <2>5. QED
    BY <1>1, <2>3, <2>4 DEF Decide
<1>2. CASE OutcomeArrives
  <2>1. /\ settings' = settings /\ row' = row /\ proposal' = proposal /\ faults' = faults
    BY <1>2 DEF OutcomeArrives, run
  <2>2. PICK r \in Results \ results :
          /\ results' = results \cup {r}
          /\ update' = IF Skipped(r) THEN update
                       ELSE [update EXCEPT !["outcome"].pc = "due", !["outcome"].value = Label(r)]
    BY <1>2 DEF OutcomeArrives
  <2>3. results' \subseteq Results /\ Cardinality(results') <= settings.outcomes
    <3>1. IsFiniteSet(Results)
      <4>1. Results = (({"success"} \cup {"failure"}) \cup {"rolled_back"}) \cup {"escalated"}
        BY DEF Results
      <4>2. QED
        BY <4>1, FS_Singleton, FS_Union
    <3>2. IsFiniteSet(results)
      BY <3>1, FS_Subset DEF MemoryType
    <3>3. Cardinality(results') = Cardinality(results) + 1 /\ Cardinality(results) \in Nat
      BY <2>2, <3>2, FS_AddElement, FS_CardinalityType
    <3>4. Cardinality(results) < settings.outcomes /\ settings.outcomes \in Nat
      BY <1>2 DEF OutcomeArrives, MemoryType
    <3>5. QED
      BY <2>2, <3>3, <3>4 DEF MemoryType
  <2>4. /\ update' \in [Writers -> Updates]
        /\ update'["disposition"] = update["disposition"]
        /\ \/ update'["outcome"] = update["outcome"]
           \/ update'["outcome"].pc = "due" /\ update'["outcome"].value \in {"worked", "failed"}
    BY <1>0, <2>2 DEF Updates, Writers, Label
  <2>5. \A w \in Writers : \/ update'[w] = update[w]
                           \/ update'[w].pc = "due" /\ update'[w].value \in ValueOf(w)
    BY <2>4 DEF Writers, ValueOf
  <2>6. QED
    BY <2>1, <2>2, <2>3, <2>4, <2>5 DEF MemoryType
<1>3. ASSUME NEW w \in Writers, ReadRow(w)
      PROVE  /\ settings' = settings /\ proposal' = proposal /\ row' = row /\ results' = results
             /\ faults' \subseteq {"store", "finalize", "decide", "death"}
             /\ update' \in [Writers -> Updates]
             /\ \A v \in Writers :
                  \/ update'[v] = update[v]
                  \/ update'[v] = Resting
                  \/ /\ update'[v].pc = "read" /\ update'[v].value = update[v].value
                     /\ update[v].pc = "due" /\ row # NoRow /\ update'[v].seen = row.payload
  <2>1. /\ settings' = settings /\ row' = row /\ proposal' = proposal /\ results' = results
    BY <1>3 DEF ReadRow, run
  <2>2. faults' \subseteq {"store", "finalize", "decide", "death"}
    BY <1>3, FaultType DEF ReadRow, MemoryType
  <2>3. CASE update' = [update EXCEPT ![w] = Resting]
    BY <1>0, <2>1, <2>2, <2>3 DEF Writers
  <2>4. CASE row # NoRow /\ update' = [update EXCEPT ![w].pc = "read", ![w].seen = row.payload]
    <3>1. row.payload \in Fields
      BY <2>4 DEF MemoryType
    <3>2. update[w] \in Updates /\ update[w].pc = "due"
      BY <1>0, <1>3 DEF ReadRow
    <3>3. /\ update' \in [Writers -> Updates]
          /\ update'[w].pc = "read" /\ update'[w].value = update[w].value
          /\ update'[w].seen = row.payload
          /\ \A v \in Writers : v # w => update'[v] = update[v]
      BY <1>0, <2>4, <3>1, <3>2 DEF Updates
    <3>4. QED
      BY <2>1, <2>2, <2>4, <3>2, <3>3
  <2>5. QED
    BY <1>3, <2>3, <2>4 DEF ReadRow
<1>4. ASSUME NEW w \in Writers, WriteRow(w)
      PROVE  /\ settings' = settings /\ proposal' = proposal /\ results' = results /\ faults' = faults
             /\ row' = Written(w) /\ update[w].pc = "read"
             /\ update' \in [Writers -> Updates]
             /\ \A v \in Writers : update'[v] = update[v] \/ update'[v] = Resting
  BY <1>0, <1>4 DEF WriteRow, run
<1>5. results \subseteq Results /\ Cardinality(results) <= settings.outcomes
      /\ faults \subseteq {"store", "finalize", "decide", "death"}
  BY DEF MemoryType
<1>6. CASE \E w \in Writers : ReadRow(w)
  <2>1. PICK w \in Writers : ReadRow(w)
    BY <1>6
  <2>2. QED
    BY <1>3, <1>5, <2>1
<1>7. CASE \E w \in Writers : WriteRow(w)
  <2>1. PICK w \in Writers : WriteRow(w)
    BY <1>7
  <2>2. QED
    BY <1>4, <1>5, <2>1
<1>8. QED
  BY <1>1, <1>2, <1>6, <1>7 DEF MemoryMoves

LEMMA MemoryStep == ASSUME MemoryType, UpdateFits, MemoryMoves PROVE MemoryType' /\ UpdateFits'
<1>1. row' \in [columns : Fields, payload : Fields] \cup {NoRow} /\ (row # NoRow => row' # NoRow)
  <2>1. CASE row' = row
    BY <2>1 DEF MemoryType
  <2>2. ASSUME NEW w \in Writers, row' = Written(w), update[w].pc = "read"
        PROVE  row' \in [columns : Fields, payload : Fields] /\ row' # NoRow
    <3>1. update[w].seen \in Fields /\ update[w].value \in ValueOf(w)
      BY <2>2 DEF UpdateFits
    <3>2. row \in [columns : Fields, payload : Fields]
      BY <2>2 DEF UpdateFits, MemoryType
    <3>3. row' \in [columns : Fields, payload : Fields]
      BY <2>2, <3>1, <3>2, WrittenType
    <3>4. NoRow.columns = <<>> /\ <<>> \notin Fields
      BY DEF NoRow, Fields
    <3>5. QED
      BY <3>3, <3>4
  <2>3. QED
    BY <2>1, <2>2, MemoryEffect
<1>2. MemoryType'
  BY <1>1, MemoryEffect DEF MemoryType
<1>3. ASSUME NEW w \in Writers
      PROVE  /\ update'[w].pc # "rest" => update'[w].value \in ValueOf(w)
             /\ update'[w].pc = "read" => update'[w].seen \in Fields /\ row' # NoRow
  <2>1. /\ update[w].pc # "rest" => update[w].value \in ValueOf(w)
        /\ update[w].pc = "read" => update[w].seen \in Fields /\ row # NoRow
    BY DEF UpdateFits
  <2>2. row # NoRow => row.payload \in Fields
    BY DEF MemoryType
  <2>3. Resting.pc = "rest"
    BY DEF Resting
  <2>4. QED
    BY <1>1, <2>1, <2>2, <2>3, MemoryEffect
<1>4. QED
  BY <1>2, <1>3 DEF UpdateFits

LEMMA RememberType == ASSUME TypeInv, MemoryMoves PROVE TypeInv'
<1>0. WorkType /\ StreamType /\ MemoryType /\ WorkerFits /\ OutcomeFits /\ UpdateFits
  BY TypeParts DEF TypeInv
<1>1. /\ settings' = settings /\ worker' = worker /\ seq' = seq /\ header' = header
      /\ stored' = stored /\ unstored' = unstored /\ ended' = ended
      /\ coming' = coming /\ viewer' = viewer /\ views' = views
  BY DEF MemoryMoves, Decide, OutcomeArrives, ReadRow, WriteRow, run, stream
<1>2. WorkType' /\ WorkerFits' /\ OutcomeFits' /\ StreamType'
  BY <1>0, <1>1 DEF WorkType, WorkerFits, OutcomeFits, Concluding, Sinking, Steps, StreamType, Viewers
<1>3. MemoryType' /\ UpdateFits'
  BY <1>0, MemoryStep
<1>4. QED
  BY <1>2, <1>3
     DEF TypeInv, AuthoringTypeOK, WorkType, StreamType, MemoryType, Workers, Viewers, Updates

LEMMA NextCases ==
  Next <=> WorkerMoves \/ HubPublish \/ AppendStep \/ ProcessDies \/ ViewerMoves \/ MemoryMoves
BY DEF Next, Work, Watch, Remember, WorkerMoves, ViewerMoves, MemoryMoves

LEMMA StutterType == ASSUME TypeInv, UNCHANGED vars PROVE TypeInv'
<1>1. /\ settings' = settings /\ worker' = worker /\ seq' = seq /\ header' = header
      /\ stored' = stored /\ unstored' = unstored /\ ended' = ended
      /\ coming' = coming /\ viewer' = viewer /\ views' = views /\ proposal' = proposal
      /\ row' = row /\ update' = update /\ results' = results /\ faults' = faults
  BY DEF vars, run, stream, memory
<1>2. Steps' = Steps
  BY <1>1 DEF Steps
<1>3. AuthoringTypeOK'
  BY <1>1, <1>2 DEF TypeInv, AuthoringTypeOK
<1>4. WorkerFits' /\ OutcomeFits' /\ UpdateFits'
  BY <1>1 DEF TypeInv, WorkerFits, OutcomeFits, Concluding, Sinking, UpdateFits
<1>5. QED
  BY <1>3, <1>4 DEF TypeInv

LEMMA NextType == TypeInv /\ [Next]_vars => TypeInv'
BY NextCases, WorkerType, SinkType, DeathType, ViewerType, RememberType, StutterType

(* The type invariant of the run, the stream and the memory.               *)
THEOREM TypeCorrect == Spec => []TypeInv
BY InitType, NextType, PTL DEF Spec

(* In particular the component's own: attempts and rounds stay within      *)
(* their budgets, a queue within its size, the store within the trace.     *)
THEOREM RunTyped == Spec => []AuthoringTypeOK
BY TypeCorrect, PTL DEF TypeInv

------------------------------------------------------------------------------
(* The author's memory.  A proposal is made once, by a worker that has a   *)
(* draft; what a writer of the row means to write, and what it read, is as *)
(* honest as the row.                                                      *)

HonestOutcome(o) ==
  o = "unknown" \/ \E r \in results \ {"escalated"} : o = "worked" <=> r = "success"
Honest(f) == f.disposition \in {"pending", proposal} /\ HonestOutcome(f.outcome)

ProposalOnce ==
  proposal # "none" =>
    \/ worker.pc \in {"audit", "record", "finish", "mark", "over"}
    \/ Sinking /\ worker.after = "finish"
WritersHonest ==
  /\ update["disposition"].pc # "rest" => update["disposition"].value = proposal
  /\ update["outcome"].pc # "rest" => HonestOutcome(update["outcome"].value)
  /\ \A w \in Writers : update[w].pc = "read" => Honest(update[w].seen)
RowHonest == row # NoRow => Honest(row.columns) /\ Honest(row.payload)

MemoryInv == ProposalOnce /\ WritersHonest /\ RowHonest

LEMMA HonestRow == MemoryInv => MemoryIsHonest
BY DEF MemoryInv, RowHonest, Honest, HonestOutcome, MemoryIsHonest

LEMMA InitMemory == Init => MemoryInv
BY DEF Init, MemoryInv, ProposalOnce, WritersHonest, RowHonest, Writers, Resting

(* What was honest stays so: results only grow, and a proposal that is     *)
(* decided was pending on the row.                                         *)
LEMMA StaysHonest ==
  ASSUME MemoryInv, NEW f \in Fields, Honest(f), results \subseteq results',
         proposal' = proposal \/ proposal \in {"none", "proposed"}
  PROVE  Honest(f)'
BY DEF Honest, HonestOutcome, Fields

LEMMA OutcomeStays ==
  ASSUME NEW o, HonestOutcome(o), results \subseteq results'
  PROVE  HonestOutcome(o)'
BY DEF HonestOutcome

(* A worker's step that leaves the proposal and the writers alone.         *)
LEMMA ProposalStays ==
  ASSUME WorkType, WorkerFits, ProposalOnce, proposal' = proposal,
         WorkerMoves \/ HubPublish \/ AppendStep \/ ProcessDies
  PROVE  ProposalOnce'
<1> USE DEF ProposalOnce, Sinking
<1>0. worker \in Workers
  BY DEF WorkType
<1>1. CASE DraftAsync \/ Propose \/ AddProposal \/ AuditProposal \/ FinishRun \/ MarkEnded \/ ProcessDies
  BY <1>0, <1>1 DEF DraftAsync, Propose, AddProposal, AuditProposal, FinishRun, MarkEnded, Escapes,
     ProcessDies, Go, Workers
<1>2. CASE worker.pc \in {"idle", "model", "calls"}
  <2>1. proposal = "none"
    BY <1>2
  <2>2. QED
    BY <2>1
<1>3. CASE NoDraft \/ RecordDecision
  BY <1>0, <1>3 DEF NoDraft, RecordDecision, Go, Workers, Emit
<1>4. CASE HubPublish
  BY <1>0, <1>4 DEF HubPublish, Go, Workers
<1>5. CASE AppendStep
  BY <1>0, <1>5 DEF AppendStep, Workers
<1>6. QED
  BY <1>1, <1>2, <1>3, <1>4, <1>5 DEF WorkerMoves, NullDraft, RateLimited, Terminal, AttemptDraft,
     DraftRaises, CallModel, AnswerToolCall, SubmitRunbook, NextRound

LEMMA WritersStay ==
  ASSUME MemoryType, UpdateFits, MemoryInv, results \subseteq results',
         proposal' = proposal \/ proposal = "none",
         update' = update, row' = row
  PROVE  WritersHonest' /\ RowHonest'
<1>1. \A w \in Writers : update[w].pc = "read" => update[w].seen \in Fields
  BY DEF UpdateFits
<1>2. row # NoRow => row.columns \in Fields /\ row.payload \in Fields
  BY DEF MemoryType
<1>3. RowHonest'
  BY <1>2, StaysHonest DEF RowHonest, MemoryInv
<1>4. \A w \in Writers : update[w].pc = "read" => Honest(update[w].seen)'
  BY <1>1, StaysHonest DEF WritersHonest, MemoryInv
<1>5. update["outcome"].pc # "rest" => HonestOutcome(update["outcome"].value)'
  BY OutcomeStays DEF WritersHonest, MemoryInv
<1>6. update["disposition"].pc # "rest" => proposal' = proposal
  BY DEF UpdateFits, ValueOf, Writers, WritersHonest, MemoryInv
<1>7. QED
  BY <1>3, <1>4, <1>5, <1>6 DEF WritersHonest, MemoryInv

LEMMA WorkerMemory ==
  ASSUME TypeInv, MemoryInv, WorkerMoves \/ HubPublish \/ AppendStep
  PROVE  MemoryInv'
<1>0. WorkType /\ MemoryType /\ WorkerFits /\ UpdateFits /\ ProposalOnce
  BY TypeParts DEF TypeInv, MemoryInv
<1>1. CASE AddProposal
  <2>1. proposal = "none" /\ row' = row /\ update' = update /\ results' = results
    BY <1>0, <1>1 DEF AddProposal, ProposalOnce, Sinking
  <2>2. ProposalOnce'
    BY <1>0, <1>1, <2>1 DEF AddProposal, Escapes, Go, ProposalOnce, WorkType, Workers
  <2>3. QED
    BY <1>0, <2>1, <2>2, WritersStay DEF MemoryInv
<1>2. CASE RecordDecision
  <2>1. proposal' = proposal /\ update' = update /\ results' = results
    BY <1>2 DEF RecordDecision
  <2>2. ProposalOnce'
    BY <1>0, <1>2, <2>1, ProposalStays DEF WorkerMoves
  <2>3. CASE row' = row
    BY <1>0, <2>1, <2>2, <2>3, WritersStay DEF MemoryInv
  <2>4. CASE row' = [columns |-> NewFields, payload |-> NewFields]
    <3>1. RowHonest'
      BY <2>4 DEF RowHonest, Honest, HonestOutcome, NewFields
    <3>2. WritersHonest'
      BY <2>1 DEF MemoryInv, WritersHonest, Honest, HonestOutcome
    <3>3. QED
      BY <2>2, <3>1, <3>2 DEF MemoryInv
  <2>5. QED
    BY <1>2, <2>3, <2>4 DEF RecordDecision
<1>3. CASE ~AddProposal /\ ~RecordDecision
  <2>1. proposal' = proposal /\ update' = update /\ results' = results /\ row' = row
    BY <1>3 DEF WorkerMoves, HubPublish, AppendStep, DraftAsync, Propose, NullDraft, RateLimited,
       Terminal, AttemptDraft, DraftRaises, CallModel, AnswerToolCall, SubmitRunbook, NextRound,
       NoTrace, NoDraft, AuditProposal, FinishRun, MarkEnded, memory
  <2>2. ProposalOnce'
    BY <1>0, <2>1, ProposalStays
  <2>3. QED
    BY <1>0, <2>1, <2>2, WritersStay DEF MemoryInv
<1>4. QED
  BY <1>1, <1>2, <1>3

LEMMA DeathMemory == ASSUME TypeInv, MemoryInv, ProcessDies PROVE MemoryInv'
<1>0. WorkType /\ MemoryType /\ WorkerFits /\ UpdateFits /\ ProposalOnce
  BY TypeParts DEF TypeInv, MemoryInv
<1>1. proposal' = proposal /\ row' = row /\ results' = results
  BY DEF ProcessDies
<1>2. ProposalOnce'
  BY <1>0, <1>1, ProposalStays
<1>3. RowHonest'
  BY <1>1 DEF MemoryInv, RowHonest, Honest, HonestOutcome
<1>4. /\ update'["disposition"] = Resting /\ update'["outcome"].value = update["outcome"].value
      /\ update'["outcome"].pc # "read"
      /\ update'["outcome"].pc # "rest" => update["outcome"].pc # "rest"
  <2>1. update["outcome"] \in Updates /\ "outcome" \in Writers /\ "disposition" \in Writers
    BY <1>0 DEF MemoryType, Writers
  <2>2. /\ update'["disposition"] = Resting
        /\ update'["outcome"] = IF update["outcome"].pc = "read"
                                THEN [update["outcome"] EXCEPT !.pc = "due", !.seen = <<>>]
                                ELSE update["outcome"]
    BY <1>0 DEF ProcessDies, MemoryType, Writers
  <2>3. QED
    BY <2>1, <2>2 DEF Updates
<1>5. WritersHonest'
  <2>1. Resting.pc = "rest"
    BY DEF Resting
  <2>2. (update["outcome"].pc # "rest" => HonestOutcome(update["outcome"].value))'
    BY <1>1, <1>4 DEF MemoryInv, WritersHonest, HonestOutcome
  <2>3. \A w \in Writers : update'[w].pc # "read"
    BY <1>4, <2>1 DEF Writers
  <2>4. QED
    BY <1>4, <2>1, <2>2, <2>3 DEF WritersHonest
<1>6. QED
  BY <1>2, <1>3, <1>5 DEF MemoryInv

LEMMA ViewerMemory == ASSUME MemoryInv, ViewerMoves \/ UNCHANGED vars PROVE MemoryInv'
<1>1. worker' = worker /\ proposal' = proposal /\ row' = row /\ update' = update /\ results' = results
  BY DEF ViewerMoves, Subscribe, Replay, CheckEnded, Deliver, TakeStep, Leave, run, memory, vars
<1>2. QED
  BY <1>1 DEF MemoryInv, ProposalOnce, Sinking, WritersHonest, RowHonest, Honest, HonestOutcome

LEMMA DecideMemory == ASSUME TypeInv, MemoryInv, Decide PROVE MemoryInv'
<1>0. MemoryType /\ UpdateFits
  BY TypeParts DEF TypeInv
<1>1. /\ worker' = worker /\ row' = row /\ results' = results /\ proposal = "proposed"
      /\ proposal' \in {"accepted", "rejected"}
  BY DEF Decide, run
<1>2. update["disposition"].pc = "rest"
  BY <1>0, <1>1 DEF MemoryInv, WritersHonest, UpdateFits, ValueOf, Writers
<1>3. ProposalOnce'
  BY <1>1 DEF MemoryInv, ProposalOnce, Sinking
<1>4. \A f \in Fields : Honest(f) => Honest(f)'
  BY <1>1, StaysHonest
<1>5. RowHonest'
  BY <1>0, <1>1, <1>4 DEF MemoryInv, RowHonest, MemoryType
<1>6. /\ update'["outcome"] = update["outcome"]
      /\ \/ update'["disposition"] = update["disposition"]
         \/ update'["disposition"].pc = "due" /\ update'["disposition"].value = proposal'
  <2>1. update["disposition"] \in Updates /\ update \in [Writers -> Updates]
    BY <1>0 DEF MemoryType, Writers
  <2>2. QED
    BY <2>1 DEF Decide, Updates, Writers
<1>7. (\A w \in Writers : update[w].pc = "read" => Honest(update[w].seen))'
  <2>1. update'["disposition"].pc # "read"
    BY <1>2, <1>6
  <2>2. update["outcome"].pc = "read" => update["outcome"].seen \in Fields /\ Honest(update["outcome"].seen)
    BY <1>0 DEF UpdateFits, MemoryInv, WritersHonest, Writers
  <2>3. (update["outcome"].pc = "read" => Honest(update["outcome"].seen))'
    <3>1. SUFFICES ASSUME update["outcome"].pc = "read" PROVE Honest(update["outcome"].seen)'
      BY <1>6
    <3>2. PICK f \in Fields : f = update["outcome"].seen /\ Honest(f)
      BY <2>2, <3>1
    <3>3. Honest(f)' /\ f = update'["outcome"].seen
      BY <1>4, <1>6, <3>2
    <3>4. QED
      BY <3>3 DEF Honest, HonestOutcome
  <2>4. QED
    BY <2>1, <2>3 DEF Writers
<1>8. (update["outcome"].pc # "rest" => HonestOutcome(update["outcome"].value))'
  BY <1>1, <1>6 DEF MemoryInv, WritersHonest, HonestOutcome
<1>9. update'["disposition"].pc # "rest" => update'["disposition"].value = proposal'
  BY <1>2, <1>6
<1>10. QED
  BY <1>3, <1>5, <1>7, <1>8, <1>9 DEF MemoryInv, WritersHonest

LEMMA WrittenHonest ==
  ASSUME NEW w \in Writers, update[w].pc = "read", row \in [columns : Fields, payload : Fields],
         update[w].seen \in Fields, WritersHonest, Honest(row.columns)
  PROVE  Honest(Written(w).columns) /\ Honest(Written(w).payload)
<1>1. Honest(update[w].seen)
  BY DEF WritersHonest
<1>2. CASE w = "disposition"
  BY <1>1, <1>2 DEF Written, Honest, Fields, WritersHonest
<1>3. CASE w = "outcome"
  BY <1>1, <1>3 DEF Written, Honest, Fields, WritersHonest
<1>4. QED
  BY <1>2, <1>3 DEF Writers

LEMMA OutcomeMemory == ASSUME TypeInv, MemoryInv, OutcomeArrives PROVE MemoryInv'
<1>0. MemoryType /\ UpdateFits /\ update \in [Writers -> Updates]
  BY TypeParts DEF TypeInv, MemoryType
<1>1. /\ worker' = worker /\ row' = row /\ proposal' = proposal
  BY DEF OutcomeArrives, run
<1>2. PICK r \in Results \ results :
        /\ results' = results \cup {r}
        /\ update' = IF Skipped(r) THEN update
                     ELSE [update EXCEPT !["outcome"].pc = "due", !["outcome"].value = Label(r)]
  BY DEF OutcomeArrives
<1>3. results \subseteq results'
  BY <1>2
<1>4. ProposalOnce'
  BY <1>1 DEF MemoryInv, ProposalOnce, Sinking
<1>5. CASE update' = update
  BY <1>0, <1>1, <1>3, <1>4, <1>5, WritersStay DEF MemoryInv
<1>6. CASE ~Skipped(r) /\ update' = [update EXCEPT !["outcome"].pc = "due", !["outcome"].value = Label(r)]
  <2>1. /\ update'["outcome"].pc = "due" /\ update'["outcome"].value = Label(r)
        /\ update'["disposition"] = update["disposition"]
    BY <1>0, <1>6 DEF Updates, Writers
  <2>2. r \in results' \ {"escalated"} /\ (Label(r) = "worked" <=> r = "success")
    BY <1>2, <1>6 DEF Skipped, Label
  <2>3. HonestOutcome(update["outcome"].value)'
    BY <2>1, <2>2 DEF HonestOutcome
  <2>4. RowHonest'
    BY <1>0, <1>1, <1>3 DEF MemoryInv, RowHonest, Honest, HonestOutcome
  <2>5. (update["disposition"].pc = "read" => Honest(update["disposition"].seen))'
    BY <1>1, <1>3, <2>1 DEF MemoryInv, WritersHonest, Honest, HonestOutcome, Writers
  <2>6. QED
    BY <1>1, <1>4, <2>1, <2>3, <2>4, <2>5 DEF MemoryInv, WritersHonest, Writers
<1>7. QED
  BY <1>2, <1>5, <1>6

LEMMA RowMemory ==
  ASSUME TypeInv, MemoryInv, NEW w \in Writers, ReadRow(w) \/ WriteRow(w)
  PROVE  MemoryInv'
<1>0. MemoryType /\ UpdateFits /\ update \in [Writers -> Updates] /\ update[w] \in Updates
  BY TypeParts DEF TypeInv, MemoryType
<1>1. worker' = worker /\ proposal' = proposal /\ results' = results
  BY DEF ReadRow, WriteRow, run
<1>2. ProposalOnce'
  BY <1>1 DEF MemoryInv, ProposalOnce, Sinking
<1>3. \A v \in Writers : v # w => update'[v] = update[v]
  BY <1>0 DEF ReadRow, WriteRow
<1>4. \/ update'[w] = Resting
      \/ /\ update'[w].pc = "read" /\ update'[w].value = update[w].value
         /\ update[w].pc = "due" /\ row # NoRow /\ update'[w].seen = row.payload
  BY <1>0 DEF ReadRow, WriteRow, Updates
<1>5. ASSUME NEW v \in Writers
      PROVE  /\ update'[v].pc # "rest" => update[v].pc # "rest" /\ update'[v].value = update[v].value
             /\ update'[v].pc = "read" => Honest(update'[v].seen)
  <2>1. Resting.pc = "rest"
    BY DEF Resting
  <2>2. row # NoRow => Honest(row.payload)
    BY DEF MemoryInv, RowHonest
  <2>3. update[v].pc = "read" => Honest(update[v].seen)
    BY DEF MemoryInv, WritersHonest
  <2>4. QED
    BY <1>3, <1>4, <2>1, <2>2, <2>3
<1>6. WritersHonest'
  <2>1. (\A v \in Writers : update[v].pc = "read" => Honest(update[v].seen))'
    BY <1>1, <1>5 DEF Honest, HonestOutcome
  <2>2. (update["outcome"].pc # "rest" => HonestOutcome(update["outcome"].value))'
    BY <1>1, <1>5 DEF MemoryInv, WritersHonest, HonestOutcome, Writers
  <2>3. update'["disposition"].pc # "rest" => update'["disposition"].value = proposal'
    BY <1>1, <1>5 DEF MemoryInv, WritersHonest, Writers
  <2>4. QED
    BY <2>1, <2>2, <2>3 DEF WritersHonest
<1>7. RowHonest'
  <2>1. CASE row' = row
    BY <1>1, <2>1 DEF MemoryInv, RowHonest, Honest, HonestOutcome
  <2>2. CASE row' = Written(w) /\ update[w].pc = "read"
    <3>1. row \in [columns : Fields, payload : Fields] /\ update[w].seen \in Fields /\ row # NoRow
      BY <1>0, <2>2 DEF UpdateFits, MemoryType
    <3>2. Honest(row'.columns) /\ Honest(row'.payload)
      BY <2>2, <3>1, WrittenHonest DEF MemoryInv, RowHonest
    <3>3. QED
      BY <1>1, <3>2 DEF RowHonest, Honest, HonestOutcome
  <2>3. QED
    BY <2>1, <2>2 DEF ReadRow, WriteRow
<1>8. QED
  BY <1>2, <1>6, <1>7 DEF MemoryInv

LEMMA NextMemory == TypeInv /\ MemoryInv /\ [Next]_vars => MemoryInv'
BY NextCases, WorkerMemory, DeathMemory, ViewerMemory, DecideMemory, OutcomeMemory, RowMemory
   DEF MemoryMoves

(* The author's memory of its draft says only what was decided and only an *)
(* outcome that came, however the two writers of the row, redeliveries and *)
(* deaths of the process interleave (author_decision_store.py).            *)
THEOREM MemoryIsHonestHolds == Spec => []MemoryIsHonest
BY TypeCorrect, InitMemory, NextMemory, HonestRow, PTL DEF Spec
------------------------------------------------------------------------------
(* The stream.  What is on its way to the console comes in order, and is   *)
(* later than nothing published; a step is written, or failed to be, unless*)
(* it is being handed over; and the outcome is the last step.              *)
OnWay == viewer.queue \o coming
Ordered(s) == \A i, j \in DOMAIN s : i < j => s[i] < s[j]
Covered(n) == n \in viewer.sent \cup viewer.excused \cup unstored
              \/ (n \in Among(OnWay) /\ n > viewer.max)

WriteInv == \A n \in Steps : n \in stored \cup unstored \/ (n = seq /\ Sinking)
CloseInv ==
  worker.closed => (Sinking /\ worker.after = "finish") \/ worker.pc \in {"finish", "mark", "over"}
WayInv ==
  /\ ~Subscribed => coming = <<>> /\ viewer.queue = <<>>
  /\ Ordered(OnWay) /\ Among(OnWay) \subseteq 1 .. Published
  /\ viewer.max <= Published
ReachInv ==
  /\ viewer.pc = "subscribed" =>
       /\ viewer.max = 0 /\ viewer.sent = {}
       /\ worker.pc = "append" => seq \in viewer.excused \cup Among(OnWay)
  /\ viewer.pc \in {"replayed", "live"} => \A n \in 1 .. Published : Covered(n)
  /\ viewer.pc = "finished" =>
       /\ worker.closed /\ worker.pc # "publish"
       /\ \A n \in 1 .. seq : n \in viewer.sent \cup viewer.excused \cup unstored
ArriveInv == WriteInv /\ CloseInv /\ WayInv /\ ReachInv

(* Sequences of steps, joined, shortened and extended.                     *)
LEMMA OrderedTail ==
  ASSUME NEW s \in Seq(Nat), s # <<>>, Ordered(s)
  PROVE  /\ Ordered(Tail(s)) /\ Among(s) = {Head(s)} \cup Among(Tail(s))
         /\ \A m \in Among(Tail(s)) : m > Head(s)
<1>1. Len(s) \in Nat /\ Len(s) >= 1 /\ Len(Tail(s)) = Len(s) - 1 /\ Head(s) = s[1]
      /\ DOMAIN s = 1 .. Len(s) /\ DOMAIN Tail(s) = 1 .. Len(s) - 1
      /\ \A i \in 1 .. Len(s) - 1 : Tail(s)[i] = s[i + 1]
  OBVIOUS
<1>2. Ordered(Tail(s))
  <2> SUFFICES ASSUME NEW i \in 1 .. Len(s) - 1, NEW j \in 1 .. Len(s) - 1, i < j
               PROVE  Tail(s)[i] < Tail(s)[j]
    BY <1>1 DEF Ordered
  <2>1. i + 1 \in DOMAIN s /\ j + 1 \in DOMAIN s /\ i + 1 < j + 1
    BY <1>1
  <2>2. s[i + 1] < s[j + 1]
    BY <2>1 DEF Ordered
  <2>3. QED
    BY <1>1, <2>2
<1>3. Among(s) = {Head(s)} \cup Among(Tail(s))
  <2>1. ASSUME NEW i \in 1 .. Len(s) PROVE s[i] \in {Head(s)} \cup Among(Tail(s))
    <3>1. CASE i = 1
      BY <1>1, <3>1
    <3>2. CASE i # 1
      <4>1. i - 1 \in DOMAIN Tail(s) /\ Tail(s)[i - 1] = s[i]
        BY <1>1, <3>2
      <4>2. QED
        BY <4>1 DEF Among
    <3>3. QED
      BY <3>1, <3>2
  <2>2. ASSUME NEW i \in 1 .. Len(s) - 1 PROVE Tail(s)[i] \in Among(s)
    <3>1. i + 1 \in DOMAIN s /\ Tail(s)[i] = s[i + 1]
      BY <1>1
    <3>2. QED
      BY <3>1 DEF Among
  <2>3. Head(s) \in Among(s)
    BY <1>1 DEF Among
  <2>4. /\ Among(s) = {s[i] : i \in 1 .. Len(s)}
        /\ Among(Tail(s)) = {Tail(s)[i] : i \in 1 .. Len(s) - 1}
    BY <1>1 DEF Among
  <2>5. QED
    BY <2>1, <2>2, <2>3, <2>4
<1>4. ASSUME NEW i \in 1 .. Len(s) - 1 PROVE Tail(s)[i] > Head(s)
  <2>1. 1 \in DOMAIN s /\ i + 1 \in DOMAIN s /\ 1 < i + 1 /\ s[1] \in Nat /\ s[i + 1] \in Nat
    BY <1>1
  <2>2. s[1] < s[i + 1]
    BY <2>1 DEF Ordered
  <2>3. QED
    BY <1>1, <2>1, <2>2
<1>5. QED
  BY <1>1, <1>2, <1>3, <1>4 DEF Among

LEMMA OrderedAppend ==
  ASSUME NEW s \in Seq(Nat), NEW n \in Nat, Ordered(s), \A m \in Among(s) : m < n
  PROVE  Ordered(Append(s, n)) /\ Among(Append(s, n)) = Among(s) \cup {n}
<1>1. /\ Len(s) \in Nat /\ DOMAIN s = 1 .. Len(s)
      /\ DOMAIN Append(s, n) = 1 .. Len(s) + 1 /\ Append(s, n)[Len(s) + 1] = n
      /\ \A i \in 1 .. Len(s) : Append(s, n)[i] = s[i]
  OBVIOUS
<1>2. Ordered(Append(s, n))
  <2> SUFFICES ASSUME NEW i \in 1 .. Len(s) + 1, NEW j \in 1 .. Len(s) + 1, i < j
               PROVE  Append(s, n)[i] < Append(s, n)[j]
    BY <1>1 DEF Ordered
  <2>1. i \in 1 .. Len(s) /\ Append(s, n)[i] = s[i]
    BY <1>1
  <2>2. CASE j = Len(s) + 1
    BY <1>1, <2>1, <2>2 DEF Among
  <2>3. CASE j # Len(s) + 1
    <3>1. j \in 1 .. Len(s)
      BY <1>1, <2>3
    <3>2. QED
      BY <1>1, <2>1, <3>1 DEF Ordered
  <2>4. QED
    BY <2>2, <2>3
<1>3. Among(Append(s, n)) = Among(s) \cup {n}
  <2>1. \A i \in 1 .. Len(s) + 1 : i = Len(s) + 1 \/ i \in 1 .. Len(s)
    BY <1>1
  <2>2. Among(Append(s, n)) \subseteq Among(s) \cup {n}
    BY <1>1, <2>1 DEF Among
  <2>3. n \in Among(Append(s, n))
    <3>1. Len(s) + 1 \in DOMAIN Append(s, n)
      BY <1>1
    <3>2. QED
      BY <1>1, <3>1 DEF Among
  <2>4. \A i \in 1 .. Len(s) : i \in DOMAIN Append(s, n)
    BY <1>1
  <2>5. Among(s) \subseteq Among(Append(s, n))
    BY <1>1, <2>4 DEF Among
  <2>6. QED
    BY <2>2, <2>3, <2>5
<1>4. QED
  BY <1>2, <1>3

LEMMA Join ==
  ASSUME NEW q \in Seq(Nat), NEW c \in Seq(Nat)
  PROVE  /\ q \o c \in Seq(Nat)
         /\ Among(q \o c) = Among(q) \cup Among(c)
         /\ q # <<>> => q \o c # <<>> /\ Head(q \o c) = Head(q) /\ Tail(q \o c) = Tail(q) \o c
         /\ c # <<>> => Append(q, Head(c)) \o Tail(c) = q \o c
         /\ \A n \in Nat : q \o Append(c, n) = Append(q \o c, n)
<1>1. /\ Len(q) \in Nat /\ Len(c) \in Nat /\ Len(q \o c) = Len(q) + Len(c)
      /\ DOMAIN q = 1 .. Len(q) /\ DOMAIN c = 1 .. Len(c) /\ q \o c \in Seq(Nat)
      /\ DOMAIN (q \o c) = 1 .. Len(q) + Len(c)
      /\ \A i \in 1 .. Len(q) + Len(c) : (q \o c)[i] = IF i <= Len(q) THEN q[i] ELSE c[i - Len(q)]
  OBVIOUS
<1>2. Among(q \o c) = Among(q) \cup Among(c)
  <2>1. ASSUME NEW i \in 1 .. Len(q) + Len(c) PROVE (q \o c)[i] \in Among(q) \cup Among(c)
    <3>1. CASE i <= Len(q)
      <4>1. i \in DOMAIN q /\ (q \o c)[i] = q[i]
        BY <1>1, <3>1
      <4>2. QED
        BY <4>1 DEF Among
    <3>2. CASE ~(i <= Len(q))
      <4>1. i - Len(q) \in DOMAIN c /\ (q \o c)[i] = c[i - Len(q)]
        BY <1>1, <3>2
      <4>2. QED
        BY <4>1 DEF Among
    <3>3. QED
      BY <3>1, <3>2
  <2>2. ASSUME NEW i \in 1 .. Len(q) PROVE q[i] \in Among(q \o c)
    <3>1. i \in DOMAIN (q \o c) /\ (q \o c)[i] = q[i]
      BY <1>1
    <3>2. QED
      BY <3>1 DEF Among
  <2>3. ASSUME NEW i \in 1 .. Len(c) PROVE c[i] \in Among(q \o c)
    <3>1. i + Len(q) \in DOMAIN (q \o c) /\ (q \o c)[i + Len(q)] = c[i]
      BY <1>1
    <3>2. QED
      BY <3>1 DEF Among
  <2>4. Among(q \o c) \subseteq Among(q) \cup Among(c)
    BY <1>1, <2>1 DEF Among
  <2>5. Among(q) \subseteq Among(q \o c) /\ Among(c) \subseteq Among(q \o c)
    <3>1. Among(q) = {q[i] : i \in 1 .. Len(q)} /\ Among(c) = {c[i] : i \in 1 .. Len(c)}
      BY <1>1 DEF Among
    <3>2. QED
      BY <2>2, <2>3, <3>1
  <2>6. QED
    BY <2>4, <2>5
<1>3. ASSUME q # <<>>
      PROVE  q \o c # <<>> /\ Head(q \o c) = Head(q) /\ Tail(q \o c) = Tail(q) \o c
  <2>1. Len(q) >= 1
    BY <1>1, <1>3
  <2>2. q \o c # <<>> /\ Head(q \o c) = Head(q)
    BY <1>1, <2>1
  <2>3. Tail(q \o c) = Tail(q) \o c
    BY <1>1, <1>3, <2>1
  <2>4. QED
    BY <2>2, <2>3
<1>4. ASSUME c # <<>> PROVE Append(q, Head(c)) \o Tail(c) = q \o c
  <2> DEFINE l == Append(q, Head(c)) \o Tail(c)
  <2>1. Len(c) >= 1 /\ Append(q, Head(c)) \in Seq(Nat) /\ Tail(c) \in Seq(Nat)
    BY <1>1, <1>4
  <2>2. l \in Seq(Nat) /\ Len(l) = Len(q) + Len(c)
    BY <1>1, <2>1
  <2>3. \A i \in 1 .. Len(q) + Len(c) : l[i] = (q \o c)[i]
    BY <1>1, <2>1
  <2>4. QED
    BY <1>1, <2>2, <2>3
<1>5. ASSUME NEW n \in Nat PROVE q \o Append(c, n) = Append(q \o c, n)
  OBVIOUS
<1>6. QED
  BY <1>1, <1>2, <1>3, <1>4, <1>5

LEMMA PublishedType ==
  ASSUME TypeInv
  PROVE  /\ seq \in Nat /\ Published \in Nat /\ Published <= seq
         /\ coming \in Seq(Nat) /\ viewer.queue \in Seq(Nat) /\ OnWay \in Seq(Nat)
         /\ viewer \in Viewers /\ viewer.max \in Nat /\ worker \in Workers
         /\ stored \subseteq 1 .. seq /\ (Sinking => seq >= 1 /\ seq \notin stored)
<1>1. WorkType /\ StreamType /\ WorkerFits
  BY TypeParts DEF TypeInv
<1>2. /\ seq \in Nat /\ coming \in Seq(1 .. seq) /\ viewer \in Viewers /\ viewer.queue \in Seq(1 .. seq)
      /\ viewer.max \in 0 .. seq /\ worker \in Workers /\ stored \subseteq 1 .. seq
  BY <1>1 DEF WorkType, StreamType, Viewers, Steps
<1>3. coming \in Seq(Nat) /\ viewer.queue \in Seq(Nat)
  <2>1. ASSUME NEW q \in Seq(1 .. seq) PROVE q \in Seq(Nat)
    BY <1>2
  <2>2. QED
    BY <1>2, <2>1
<1>4. Sinking => seq >= 1 /\ seq \notin stored
  BY <1>1 DEF WorkerFits
<1>5. OnWay \in Seq(Nat)
  BY <1>3 DEF OnWay
<1>6. Published \in Nat /\ Published <= seq
  BY <1>2, <1>4 DEF Published, Sinking
<1>7. QED
  BY <1>2, <1>3, <1>4, <1>5, <1>6

LEMMA EmptyWay == <<>> \o <<>> = <<>> /\ Among(<<>>) = {} /\ Ordered(<<>>)
BY DEF Among, Ordered

LEMMA InitArrive == Init => ArriveInv
<1> SUFFICES ASSUME Init PROVE ArriveInv
  OBVIOUS
<1>1. /\ worker.pc = "idle" /\ ~worker.closed /\ seq = 0 /\ coming = <<>>
      /\ viewer.pc = "away" /\ viewer.queue = <<>> /\ viewer.max = 0
  BY DEF Init, Away
<1>2. OnWay = <<>> /\ Published = 0
  BY <1>1, EmptyWay DEF OnWay, Published
<1>3. WriteInv /\ CloseInv /\ ReachInv
  BY <1>1 DEF WriteInv, CloseInv, ReachInv, Steps
<1>4. WayInv
  BY <1>1, <1>2, EmptyWay DEF WayInv
<1>5. QED
  BY <1>3, <1>4 DEF ArriveInv

(* Once the outcome is handed to the sink the worker only winds up.        *)
LEMMA WindsUp ==
  ASSUME WorkerMoves, worker \in Workers, worker.pc \in {"finish", "mark", "over"}
  PROVE  worker'.pc \in {"mark", "over"} /\ worker'.closed = worker.closed /\ Silent
<1>1. FinishRun \/ MarkEnded
  BY DEF WorkerMoves, DraftAsync, Propose, NullDraft, RateLimited, Terminal, AttemptDraft,
     DraftRaises, CallModel, AnswerToolCall, SubmitRunbook, NextRound, NoDraft, AddProposal,
     AuditProposal, RecordDecision
<1>2. PICK p \in {"mark", "over"} : worker' = [worker EXCEPT !.pc = p]
  BY <1>1 DEF FinishRun, MarkEnded, Go
<1>3. worker'.pc \in {"mark", "over"} /\ worker'.closed = worker.closed /\ ~Sinking'
  BY <1>2 DEF Workers, Sinking
<1>4. seq' = seq
  BY <1>1 DEF FinishRun, MarkEnded
<1>5. QED
  BY <1>3, <1>4 DEF Silent

LEMMA WorkerArrive == ASSUME TypeInv, ArriveInv, WorkerMoves PROVE ArriveInv'
<1>1. Moves /\ worker \in Workers /\ seq \in Nat
  BY AllMove, PublishedType DEF TypeInv
<1>2. /\ ~Sinking /\ UNCHANGED <<stored, unstored, coming, viewer>> /\ (Silent \/ Traces)
      /\ worker' \in Workers
  BY <1>1 DEF Moves
<1>3. Published = seq /\ Published' = Published /\ worker'.pc # "append"
  BY <1>1, <1>2 DEF Published, Silent, Traces, Sinking
<1>4. worker.closed =>
        Silent /\ worker'.pc \in {"mark", "over"} /\ worker'.closed = worker.closed
  BY <1>1, <1>2, WindsUp DEF ArriveInv, CloseInv
<1>5. WriteInv'
  <2>1. \A n \in 1 .. seq : n \in stored \cup unstored
    BY <1>2 DEF ArriveInv, WriteInv, Steps
  <2>2. CASE Silent
    BY <1>2, <2>1, <2>2 DEF Silent, WriteInv, Steps
  <2>3. CASE Traces
    BY <1>1, <1>2, <2>1, <2>3 DEF Traces, WriteInv, Steps, Sinking
  <2>4. QED
    BY <1>2, <2>2, <2>3
<1>6. CloseInv'
  BY <1>2, <1>4 DEF CloseInv, Silent, Traces, Sinking, Workers
<1>7. WayInv'
  BY <1>2, <1>3 DEF ArriveInv, WayInv, Subscribed, OnWay
<1>8. ReachInv'
  <2>1. viewer.pc = "finished" =>
          /\ worker'.closed /\ worker'.pc # "publish" /\ seq' = seq
          /\ \A n \in 1 .. seq : n \in viewer.sent \cup viewer.excused \cup unstored
    BY <1>4 DEF ArriveInv, ReachInv, Silent
  <2>2. viewer.pc = "subscribed" => viewer.max = 0 /\ viewer.sent = {}
    BY DEF ArriveInv, ReachInv
  <2>3. viewer.pc \in {"replayed", "live"} => \A n \in 1 .. Published : Covered(n)
    BY DEF ArriveInv, ReachInv
  <2>4. QED
    BY <1>2, <1>3, <2>1, <2>2, <2>3 DEF ReachInv, Covered, OnWay
<1>9. QED
  BY <1>5, <1>6, <1>7, <1>8 DEF ArriveInv

LEMMA HubArrive == ASSUME TypeInv, ArriveInv, HubPublish PROVE ArriveInv'
<1>1. /\ worker.pc = "publish" /\ worker' = [worker EXCEPT !.pc = "append"]
      /\ UNCHANGED <<seq, stored, unstored, viewer>>
      /\ coming' = IF Subscribed THEN Append(coming, seq) ELSE coming
  BY DEF HubPublish, Go
<1>2. /\ seq \in Nat /\ seq >= 1 /\ viewer.max \in Nat /\ OnWay \in Seq(Nat)
      /\ coming \in Seq(Nat) /\ viewer.queue \in Seq(Nat)
      /\ worker \in Workers
  BY <1>1, PublishedType DEF Sinking
<1>3. worker'.pc = "append" /\ worker'.after = worker.after /\ worker'.closed = worker.closed
  BY <1>1, <1>2 DEF Workers
<1>4. Published = seq - 1 /\ Published' = seq
  BY <1>1, <1>3 DEF Published
<1>5. WriteInv' /\ CloseInv'
  BY <1>1, <1>3 DEF ArriveInv, WriteInv, CloseInv, Steps, Sinking
<1>6. viewer.pc # "finished"
  BY <1>1 DEF ArriveInv, ReachInv
<1>7. Ordered(OnWay) /\ Among(OnWay) \subseteq 1 .. seq - 1 /\ viewer.max <= seq - 1
  BY <1>4 DEF ArriveInv, WayInv
<1>8. CASE Subscribed
  <2>1. OnWay' = Append(OnWay, seq)
    <3>1. \A k \in Nat :
            viewer.queue \o Append(coming, k) = Append(viewer.queue \o coming, k)
      BY ONLY <1>2, Join
    <3>2. viewer'.queue = viewer.queue /\ coming' = Append(coming, seq)
      BY <1>1, <1>8
    <3>3. QED
      BY <1>2, <3>1, <3>2 DEF OnWay
  <2>2. Ordered(OnWay') /\ Among(OnWay') = Among(OnWay) \cup {seq}
    BY <1>2, <1>7, <2>1, OrderedAppend
  <2>3. WayInv'
    <3>1. Among(OnWay') \subseteq 1 .. seq
      BY <1>2, <1>7, <2>2
    <3>2. QED
      BY <1>1, <1>2, <1>4, <1>7, <1>8, <2>2, <3>1 DEF WayInv, Subscribed
  <2>4. ReachInv'
    <3>1. ASSUME viewer.pc \in {"replayed", "live"}, NEW n \in 1 .. seq PROVE Covered(n)'
      <4>1. CASE n = seq
        BY <1>1, <1>2, <1>7, <2>2, <4>1 DEF Covered
      <4>2. CASE n # seq
        <5>1. Covered(n)
          BY <1>2, <1>4, <3>1, <4>2 DEF ArriveInv, ReachInv
        <5>2. QED
          BY <1>1, <2>2, <5>1 DEF Covered
      <4>3. QED
        BY <4>1, <4>2
    <3>2. viewer.pc = "subscribed" => viewer.max = 0 /\ viewer.sent = {}
      BY DEF ArriveInv, ReachInv
    <3>3. QED
      BY <1>1, <1>4, <1>6, <2>2, <3>1, <3>2 DEF ReachInv
  <2>5. QED
    BY <1>5, <2>3, <2>4 DEF ArriveInv
<1>9. CASE ~Subscribed
  <2>1. OnWay' = OnWay
    BY <1>1, <1>9 DEF OnWay
  <2>2. WayInv'
    <3>1. Among(OnWay) \subseteq 1 .. seq
      BY <1>2, <1>7
    <3>2. QED
      BY <1>1, <1>2, <1>4, <1>7, <1>9, <2>1, <3>1 DEF ArriveInv, WayInv, Subscribed
  <2>3. ReachInv'
    BY <1>1, <1>6, <1>9 DEF ReachInv, Subscribed
  <2>4. QED
    BY <1>5, <2>2, <2>3 DEF ArriveInv
<1>10. QED
  BY <1>8, <1>9

LEMMA AppendArrive == ASSUME TypeInv, ArriveInv, AppendStep PROVE ArriveInv'
<1>1. /\ worker.pc = "append" /\ worker' = [worker EXCEPT !.pc = worker.after, !.after = "none"]
      /\ UNCHANGED <<seq, coming, viewer>>
      /\ stored \subseteq stored' /\ unstored \subseteq unstored' /\ seq \in stored' \cup unstored'
  BY DEF AppendStep, stream
<1>2. worker \in Workers /\ worker.after \in {"calls", "drafted", "finish"} /\ seq \in Nat
  BY <1>1, PublishedType DEF Workers, TypeInv, WorkerFits, Sinking
<1>3. worker'.pc = worker.after /\ worker'.closed = worker.closed
  BY <1>1, <1>2 DEF Workers
<1>4. Published = seq /\ Published' = seq
  BY <1>1, <1>2, <1>3 DEF Published
<1>5. WriteInv' /\ CloseInv'
  BY <1>1, <1>2, <1>3 DEF ArriveInv, WriteInv, CloseInv, Steps, Sinking
<1>6. WayInv'
  BY <1>1, <1>4 DEF ArriveInv, WayInv, OnWay, Subscribed
<1>7. ReachInv'
  BY <1>1, <1>2, <1>3, <1>4 DEF ArriveInv, ReachInv, OnWay, Covered
<1>8. QED
  BY <1>5, <1>6, <1>7 DEF ArriveInv

LEMMA DeathArrive == ASSUME TypeInv, ArriveInv, ProcessDies PROVE ArriveInv'
<1>1. /\ worker' = [worker EXCEPT !.pc = "over"] /\ coming' = <<>> /\ viewer' = Away
      /\ UNCHANGED <<seq, stored>> /\ unstored' = unstored \cup (Steps \ stored)
  BY DEF ProcessDies, Go
<1>2. worker'.pc = "over" /\ seq \in Nat
  BY <1>1, PublishedType DEF Workers
<1>3. WriteInv' /\ CloseInv' /\ ReachInv'
  BY <1>1, <1>2 DEF WriteInv, CloseInv, ReachInv, Steps, Away
<1>4. OnWay' = <<>> /\ Published' = seq
  BY <1>1, <1>2, EmptyWay DEF OnWay, Away, Published
<1>5. WayInv'
  BY <1>1, <1>2, <1>4, EmptyWay DEF WayInv, Away
<1>6. QED
  BY <1>3, <1>5 DEF ArriveInv

LEMMA RestArrive ==
  ASSUME ArriveInv, UNCHANGED <<worker, seq, stored, unstored, coming, viewer>> PROVE ArriveInv'
BY DEF ArriveInv, WriteInv, CloseInv, WayInv, ReachInv, OnWay, Covered, Published, Sinking, Steps,
   Subscribed

(* A step of the console: the worker and the store stand still.            *)
LEMMA StillWorks ==
  ASSUME ArriveInv, UNCHANGED run
  PROVE  /\ UNCHANGED <<worker, seq, stored, unstored>> /\ Published' = Published
         /\ WriteInv' /\ CloseInv'
<1>1. UNCHANGED <<worker, seq, stored, unstored>>
  BY DEF run
<1>2. QED
  BY <1>1 DEF ArriveInv, WriteInv, CloseInv, Published, Sinking, Steps

(* A console that comes, and one that leaves or is cut off.                *)
LEMMA ComeAndGo ==
  ASSUME TypeInv, ArriveInv, UNCHANGED run, viewer'.queue = <<>>, coming' = <<>>,
         \/ viewer'.pc \in {"away", "cut"} /\ viewer'.max <= Published
         \/ /\ viewer'.pc = "subscribed" /\ viewer'.max = 0 /\ viewer'.sent = {}
            /\ worker.pc = "append" => seq \in viewer'.excused
  PROVE  ArriveInv'
<1>1. OnWay' = <<>>
  BY EmptyWay DEF OnWay
<1>2. WayInv'
  BY <1>1, EmptyWay, StillWorks, PublishedType DEF WayInv
<1>3. ReachInv'
  BY StillWorks DEF ReachInv
<1>4. QED
  BY <1>2, <1>3, StillWorks DEF ArriveInv

LEMMA ReplayArrive == ASSUME TypeInv, ArriveInv, Replay PROVE ArriveInv'
<1>1. /\ viewer.pc = "subscribed" /\ UNCHANGED run /\ coming' = coming
      /\ \/ viewer' = [viewer EXCEPT !.pc = "replayed", !.sent = stored, !.max = Largest(stored)]
         \/ viewer' = [viewer EXCEPT !.pc = "replayed", !.excused = @ \cup stored]
  BY DEF Replay
<1>2. viewer \in Viewers /\ seq \in Nat /\ stored \in SUBSET (1 .. seq) /\ Published \in Nat
      /\ Published <= seq
  BY PublishedType
<1>3. /\ viewer.max = 0 /\ viewer.sent = {}
      /\ worker.pc = "append" => seq \in viewer.excused \cup Among(OnWay)
  BY <1>1 DEF ArriveInv, ReachInv
<1>4. /\ viewer'.pc = "replayed" /\ viewer'.queue = viewer.queue
      /\ \/ viewer'.sent = stored /\ viewer'.max = Largest(stored) /\ viewer'.excused = viewer.excused
         \/ viewer'.sent = {} /\ viewer'.max = 0 /\ viewer'.excused = viewer.excused \cup stored
  BY <1>1, <1>2, <1>3 DEF Viewers
<1>5. OnWay' = OnWay
  BY <1>1, <1>4 DEF OnWay
<1>6. Largest(stored) \in 0 .. seq /\ \A k \in stored : k <= Largest(stored)
      /\ (stored # {} => Largest(stored) \in stored)
  BY <1>2, LargestOf
<1>7. viewer'.max \in Nat /\ viewer'.max <= Published /\ (Sinking => viewer'.max < seq)
  <2>1. Sinking => Largest(stored) # seq
    <3>1. stored = {} => Largest(stored) = 0
      BY DEF Largest
    <3>2. Sinking => seq >= 1 /\ seq \notin stored
      BY PublishedType
    <3>3. QED
      BY <1>6, <3>1, <3>2
  <2>2. Published = seq \/ (Sinking /\ Published = seq - 1)
    BY DEF Published, Sinking
  <2>3. QED
    BY <1>2, <1>4, <1>6, <2>1, <2>2, PublishedType
<1>8. WayInv'
  BY <1>1, <1>4, <1>5, <1>7, StillWorks DEF ArriveInv, WayInv, Subscribed
<1>9. ASSUME NEW n \in 1 .. Published PROVE Covered(n)'
  <2>1. n \in stored \cup unstored \/ (n = seq /\ worker.pc = "append")
    <3>1. n \in Steps
      BY <1>2 DEF Steps
    <3>2. worker.pc = "publish" => n # seq
      BY <1>2 DEF Published
    <3>3. QED
      BY <3>1, <3>2 DEF ArriveInv, WriteInv, Sinking
  <2>2. unstored' = unstored
    BY <1>1, StillWorks
  <2>3. CASE n \in stored \cup unstored
    BY <1>4, <2>2, <2>3 DEF Covered
  <2>4. CASE n = seq /\ worker.pc = "append"
    BY <1>3, <1>4, <1>5, <1>7, <2>4 DEF Covered, Sinking
  <2>5. QED
    BY <2>1, <2>3, <2>4
<1>10. ReachInv'
  BY <1>1, <1>4, <1>9, StillWorks DEF ReachInv
<1>11. QED
  BY <1>1, <1>8, <1>10, StillWorks DEF ArriveInv

LEMMA CheckArrive == ASSUME TypeInv, ArriveInv, CheckEnded PROVE ArriveInv'
<1>1. viewer \in Viewers
  BY PublishedType
<1>2. viewer.pc = "replayed" /\ UNCHANGED run
  BY DEF CheckEnded
<1>3. CASE ended
  <2>1. viewer' = [viewer EXCEPT !.pc = "cut", !.queue = <<>>] /\ coming' = <<>>
    BY <1>3 DEF CheckEnded, Closed
  <2>2. viewer'.pc = "cut" /\ viewer'.queue = <<>> /\ viewer'.max = viewer.max
    BY <1>1, <2>1 DEF Viewers
  <2>3. QED
    BY <1>2, <2>1, <2>2, ComeAndGo DEF ArriveInv, WayInv
<1>4. CASE ~ended
  <2>1. viewer' = [viewer EXCEPT !.pc = "live"] /\ coming' = coming
    BY <1>4 DEF CheckEnded
  <2>2. /\ viewer'.pc = "live" /\ viewer'.queue = viewer.queue /\ viewer'.max = viewer.max
        /\ viewer'.sent = viewer.sent /\ viewer'.excused = viewer.excused
    BY <1>1, <2>1 DEF Viewers
  <2>3. WayInv' /\ ReachInv'
    BY <1>2, <2>1, <2>2, StillWorks DEF ArriveInv, WayInv, ReachInv, Subscribed, OnWay, Covered
  <2>4. QED
    BY <1>2, <2>3, StillWorks DEF ArriveInv
<1>5. QED
  BY <1>3, <1>4

(* A full queue drops its oldest step; what is on the way keeps its order. *)
LEMMA DeliverArrive == ASSUME TypeInv, ArriveInv, Deliver PROVE ArriveInv'
<1> DEFINE q == viewer.queue
           n == Head(coming)
<1>0. /\ viewer \in Viewers /\ q \in Seq(Nat) /\ coming \in Seq(Nat) /\ OnWay \in Seq(Nat)
      /\ Published \in Nat /\ viewer.max \in Nat
  BY PublishedType
<1>1. coming # <<>> /\ coming' = Tail(coming) /\ viewer' = Queued(n) /\ UNCHANGED run
  BY DEF Deliver
<1>2. Subscribed
  BY <1>1 DEF ArriveInv, WayInv
<1>3. n \in Nat /\ Append(q, n) \in Seq(Nat) /\ Tail(coming) \in Seq(Nat)
  BY <1>0, <1>1
<1>4. /\ viewer'.pc = viewer.pc /\ viewer'.max = viewer.max /\ viewer'.sent = viewer.sent
      /\ viewer.excused \subseteq viewer'.excused
      /\ Ordered(OnWay') /\ Among(OnWay') \subseteq Among(OnWay)
      /\ Among(OnWay) \subseteq Among(OnWay') \cup viewer'.excused
  <2>1. CASE Len(q) < MaxQueue
    <3>1. viewer' = [viewer EXCEPT !.queue = Append(q, n)]
      BY <1>1, <2>1 DEF Queued
    <3>2. /\ viewer'.pc = viewer.pc /\ viewer'.max = viewer.max /\ viewer'.sent = viewer.sent
          /\ viewer'.excused = viewer.excused /\ viewer'.queue = Append(q, n)
      BY <1>0, <3>1 DEF Viewers
    <3>3. OnWay' = OnWay
      <4>1. Append(q, Head(coming)) \o Tail(coming) = q \o coming
        BY <1>0, <1>1, Join
      <4>2. QED
        BY <1>1, <3>2, <4>1 DEF OnWay
    <3>4. QED
      BY <3>2, <3>3 DEF ArriveInv, WayInv
  <2>2. CASE ~(Len(q) < MaxQueue)
    <3>1. viewer' = [viewer EXCEPT !.queue = Append(Tail(q), n), !.excused = @ \cup {Head(q)}]
      BY <1>1, <2>2 DEF Queued
    <3>2. q # <<>> /\ Tail(q) \in Seq(Nat)
      BY <1>0, <2>2
    <3>3. /\ viewer'.pc = viewer.pc /\ viewer'.max = viewer.max /\ viewer'.sent = viewer.sent
          /\ viewer'.excused = viewer.excused \cup {Head(q)} /\ viewer'.queue = Append(Tail(q), n)
      BY <1>0, <3>1 DEF Viewers
    <3>4. OnWay' = Tail(q) \o coming
      <4>1. Append(Tail(q), Head(coming)) \o Tail(coming) = Tail(q) \o coming
        BY <1>0, <1>1, <3>2, Join
      <4>2. QED
        BY <1>1, <3>3, <4>1 DEF OnWay
    <3>5. OnWay # <<>> /\ Head(OnWay) = Head(q) /\ Tail(OnWay) = Tail(q) \o coming
      BY <1>0, <3>2, Join DEF OnWay
    <3>6. /\ Ordered(Tail(OnWay)) /\ Among(OnWay) = {Head(OnWay)} \cup Among(Tail(OnWay))
      BY <1>0, <3>5, OrderedTail DEF ArriveInv, WayInv
    <3>7. QED
      BY <3>3, <3>4, <3>5, <3>6
  <2>3. QED
    BY <2>1, <2>2
<1>5. WayInv'
  BY <1>1, <1>2, <1>4, StillWorks DEF ArriveInv, WayInv, Subscribed
<1>6. \A m \in 1 .. Published : Covered(m) => Covered(m)'
  BY <1>1, <1>4, StillWorks DEF Covered
<1>7. ReachInv'
  BY <1>1, <1>2, <1>4, <1>6, StillWorks DEF ArriveInv, ReachInv, Subscribed
<1>8. QED
  BY <1>1, <1>5, <1>7, StillWorks DEF ArriveInv

LEMMA TakeArrive == ASSUME TypeInv, ArriveInv, TakeStep PROVE ArriveInv'
<1> DEFINE q == viewer.queue
           n == Head(q)
           taken == [viewer EXCEPT !.queue = Tail(q)]
           sent == [taken EXCEPT !.sent = @ \cup {n}, !.max = n]
           done == [sent EXCEPT !.pc = "finished", !.queue = <<>>]
<1>0. /\ viewer \in Viewers /\ q \in Seq(Nat) /\ coming \in Seq(Nat) /\ OnWay \in Seq(Nat)
      /\ Published \in Nat /\ viewer.max \in Nat /\ seq \in Nat /\ Published <= seq
  BY PublishedType
<1>1. /\ viewer.pc = "live" /\ q # <<>> /\ UNCHANGED run
      /\ viewer' = (IF n <= viewer.max THEN taken ELSE IF IsOutcome(n) THEN done ELSE sent)
      /\ coming' = IF viewer'.pc = "finished" THEN <<>> ELSE coming
  BY DEF TakeStep
<1>2. OnWay # <<>> /\ Head(OnWay) = n /\ Tail(OnWay) = Tail(q) \o coming
  BY <1>0, <1>1, Join DEF OnWay
<1>3. /\ Ordered(Tail(OnWay)) /\ Among(OnWay) = {n} \cup Among(Tail(OnWay))
      /\ \A m \in Among(Tail(OnWay)) : m > n
  BY <1>0, <1>2, OrderedTail DEF ArriveInv, WayInv
<1>4. Among(OnWay) \subseteq 1 .. Published /\ viewer.max <= Published
  BY DEF ArriveInv, WayInv
<1>5. n \in 1 .. Published /\ Among(Tail(OnWay)) \subseteq 1 .. Published
  BY <1>3, <1>4
<1>6. \A m \in 1 .. Published : Covered(m)
  BY <1>1 DEF ArriveInv, ReachInv
<1> HIDE DEF q, n
<1>7. /\ taken.pc = "live" /\ taken.queue = Tail(q) /\ taken.max = viewer.max
      /\ taken.sent = viewer.sent /\ taken.excused = viewer.excused
      /\ DOMAIN taken = DOMAIN viewer
  BY <1>0, <1>1 DEF Viewers
<1>8. /\ sent.pc = "live" /\ sent.queue = Tail(q) /\ sent.max = n
      /\ sent.sent = viewer.sent \cup {n} /\ sent.excused = viewer.excused
      /\ DOMAIN sent = DOMAIN viewer
  <2> HIDE DEF taken
  <2>1. DOMAIN taken = {"pc", "sent", "max", "queue", "excused"}
    BY <1>0, <1>7 DEF Viewers
  <2>2. QED
    BY <1>7, <2>1
<1> HIDE DEF taken
<1>9. CASE n <= viewer.max
  <2>1. viewer' = taken /\ coming' = coming /\ OnWay' = Tail(OnWay)
    BY <1>1, <1>2, <1>7, <1>9 DEF OnWay
  <2>2. WayInv'
    BY <1>1, <1>3, <1>4, <1>5, <1>7, <2>1, StillWorks DEF WayInv, Subscribed
  <2>3. ASSUME NEW m \in 1 .. Published PROVE Covered(m)'
    <3>1. /\ viewer'.sent = viewer.sent /\ viewer'.excused = viewer.excused
          /\ viewer'.max = viewer.max /\ unstored' = unstored
      BY <1>1, <1>7, <2>1, StillWorks
    <3>2. m \in Among(OnWay) /\ m > viewer.max => m \in Among(OnWay')
      BY <1>0, <1>3, <1>5, <1>9, <2>1
    <3>3. Covered(m)
      BY <1>6
    <3>4. QED
      BY <3>1, <3>2, <3>3 DEF Covered
  <2>4. ReachInv'
    BY <1>1, <1>7, <2>1, <2>3, StillWorks DEF ReachInv
  <2>5. QED
    BY <1>1, <2>2, <2>4, StillWorks DEF ArriveInv
<1> HIDE DEF sent
<1>10. CASE ~(n <= viewer.max) /\ ~IsOutcome(n)
  <2>1. viewer' = sent /\ coming' = coming /\ OnWay' = Tail(OnWay)
    BY <1>1, <1>2, <1>8, <1>10 DEF OnWay
  <2>2. WayInv'
    BY <1>1, <1>3, <1>5, <1>8, <2>1, StillWorks DEF WayInv, Subscribed
  <2>3. \A m \in 1 .. Published : Covered(m)'
    BY <1>1, <1>3, <1>6, <1>8, <2>1, StillWorks DEF Covered
  <2>4. ReachInv'
    BY <1>1, <1>8, <2>1, <2>3, StillWorks DEF ReachInv
  <2>5. QED
    BY <1>1, <2>2, <2>4, StillWorks DEF ArriveInv
<1>11. CASE ~(n <= viewer.max) /\ IsOutcome(n)
  <2>1. viewer' = [sent EXCEPT !.pc = "finished", !.queue = <<>>]
    BY <1>1, <1>11
  <2>2. /\ viewer'.pc = "finished" /\ viewer'.queue = <<>> /\ viewer'.max = n
        /\ viewer'.sent = viewer.sent \cup {n} /\ viewer'.excused = viewer.excused
    <3>1. DOMAIN sent = {"pc", "sent", "max", "queue", "excused"}
      BY <1>0, <1>8 DEF Viewers
    <3>2. QED
      BY <1>8, <2>1, <3>1
  <2>3. coming' = <<>> /\ OnWay' = <<>>
    BY <1>1, <2>2, EmptyWay DEF OnWay
  <2>4. n = seq /\ worker.closed
    BY <1>11 DEF IsOutcome
  <2>5. worker.pc # "publish" /\ Published = seq
    BY <1>0, <1>5, <2>4 DEF Published
  <2>6. \A m \in 1 .. seq : m \in viewer'.sent \cup viewer'.excused \cup unstored
    <3> SUFFICES ASSUME NEW m \in 1 .. seq PROVE m \in viewer'.sent \cup viewer'.excused \cup unstored
      OBVIOUS
    <3>1. Covered(m)
      BY <1>6, <2>5
    <3>2. m \in Among(Tail(OnWay)) => FALSE
      BY <1>0, <1>3, <2>4
    <3>3. QED
      BY <1>3, <2>2, <3>1, <3>2 DEF Covered
  <2>7. WayInv'
    BY <1>1, <1>5, <2>2, <2>3, EmptyWay, StillWorks DEF WayInv
  <2>8. ReachInv'
    BY <1>1, <2>2, <2>4, <2>5, <2>6, StillWorks DEF ReachInv
  <2>9. QED
    BY <1>1, <2>7, <2>8, StillWorks DEF ArriveInv
<1>12. QED
  BY <1>9, <1>10, <1>11

LEMMA ViewerArrive == ASSUME TypeInv, ArriveInv, ViewerMoves PROVE ArriveInv'
<1>1. CASE Subscribe
  <2>1. UNCHANGED run /\ coming' = <<>>
        /\ viewer' = [Away EXCEPT !.pc = "subscribed",
                        !.excused = IF worker.pc = "append" THEN {seq} ELSE {}]
    BY <1>1 DEF Subscribe
  <2>2. /\ viewer'.pc = "subscribed" /\ viewer'.queue = <<>> /\ viewer'.max = 0 /\ viewer'.sent = {}
        /\ viewer'.excused = IF worker.pc = "append" THEN {seq} ELSE {}
    BY <2>1 DEF Away
  <2>3. QED
    BY <2>1, <2>2, ComeAndGo
<1>2. CASE Leave
  <2>1. UNCHANGED run /\ coming' = <<>> /\ viewer' = Away
    BY <1>2 DEF Leave
  <2>2. QED
    BY <2>1, ComeAndGo, PublishedType DEF Away
<1>3. QED
  BY <1>1, <1>2, ReplayArrive, CheckArrive, DeliverArrive, TakeArrive DEF ViewerMoves

LEMMA NextArrive == TypeInv /\ ArriveInv /\ [Next]_vars => ArriveInv'
<1> SUFFICES ASSUME TypeInv, ArriveInv, [Next]_vars PROVE ArriveInv'
  OBVIOUS
<1>1. CASE MemoryMoves \/ UNCHANGED vars
  <2>1. UNCHANGED <<worker, seq, stored, unstored, coming, viewer>>
    BY <1>1 DEF MemoryMoves, Decide, OutcomeArrives, ReadRow, WriteRow, vars, run, stream
  <2>2. QED
    BY <2>1, RestArrive
<1>2. QED
  BY <1>1, NextCases, WorkerArrive, HubArrive, AppendArrive, DeathArrive, ViewerArrive

(* A console on the stream is sent, or will be, every step published but   *)
(* those the code gives up, whatever the worker, the event loop, the store *)
(* and other visits of the console do in between (app.py:602-619).         *)
THEOREM LaterStepsArriveHolds == Spec => []LaterStepsArrive
<1>1. TypeInv /\ ArriveInv => LaterStepsArrive
  <2> SUFFICES ASSUME TypeInv, ArriveInv, viewer.pc \in {"live", "finished"}, NEW n \in 1 .. Published
               PROVE  \/ n \in viewer.sent \cup viewer.excused \cup unstored
                      \/ n \in Among(viewer.queue) \cup Among(coming) /\ n > viewer.max
    BY DEF LaterStepsArrive
  <2>1. Among(OnWay) = Among(viewer.queue) \cup Among(coming)
    BY PublishedType, Join DEF OnWay
  <2>2. CASE viewer.pc = "live"
    BY <2>1, <2>2 DEF ArriveInv, ReachInv, Covered
  <2>3. CASE viewer.pc = "finished"
    BY <2>3, PublishedType DEF ArriveInv, ReachInv
  <2>4. QED
    BY <2>2, <2>3
<1>2. QED
  BY <1>1, TypeCorrect, InitArrive, NextArrive, PTL DEF Spec
================================================================================
