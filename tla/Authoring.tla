------------------------------- MODULE Authoring -------------------------------
(***************************************************************************)
(* governance-service: one run of the AI runbook author.  A worker drafts  *)
(* a runbook (adapters/runbook_author.py), traces its steps to a hub and   *)
(* to a store, and turns a draft into a proposal (governance/app.py,       *)
(* _run_draft_async).  A console streams the run (stream_agent_run), a     *)
(* human decides the proposal, and the author's memory of its draft is     *)
(* told of the decision and of the outcomes (author_decision_store.py).    *)
(*                                                                         *)
(* Steps are numbered from 1; what a model writes is abstracted to whether *)
(* it has content, and which of its tool calls are valid submissions.      *)
(***************************************************************************)
EXTENDS Naturals, Sequences, FiniteSets

CONSTANTS
  Settings,    \* the settings to check: which author, whether the run is async; and, bounds,
               \* the times a console opens its stream and the outcomes of its playbook
  Messages,    \* what the model may answer: [content : BOOLEAN, calls : Seq(Calls)]
  MaxRounds,   \* max_rounds of the agent
  MaxAttempts, \* max_attempts: of a draft (single-shot), of a round (agent)
  MaxQueue,    \* a subscriber's queue
  MaxFaults    \* bound: faults, each of another kind

Calls == {"read", "rejected", "submitted"}
Results == {"success", "failure", "rolled_back", "escalated"}

ASSUME AuthoringAssumption ==
  /\ Settings \subseteq [author : {"null", "single", "agent"}, traced : BOOLEAN, views : Nat,
                   outcomes : Nat]
  /\ \A m \in Messages : m.content \in BOOLEAN /\ m.calls \in Seq(Calls)
  /\ MaxRounds \in Nat \ {0} /\ MaxAttempts \in Nat \ {0} /\ MaxQueue \in Nat \ {0}
  /\ MaxFaults \in Nat

VARIABLES
  settings, \* fixed at the start
  worker,   \* the thread or the request that drafts
  seq,      \* the collector's count of steps
  header,   \* the run's header in the trace store: its status, or absent
  stored,   \* the steps in the trace store
  unstored, \* history: the steps whose write failed
  ended,    \* the hub's mark
  coming,   \* steps on their way to the subscriber's queue
  viewer,   \* a console on the stream, and what it was sent
  views,    \* history: times it was opened
  proposal, \* the proposal's status, or none
  row,      \* the decision's row: promoted columns and payload
  update,   \* the two writers of the row: between their read and their write
  results,  \* history: the outcomes that came
  faults    \* history: the kinds of faults so far

run == <<worker, seq, header, stored, unstored, ended>>
stream == <<coming, viewer, views>>
memory == <<proposal, row, update, results>>
vars == <<settings, run, stream, memory, faults>>

Writers == {"disposition", "outcome"}
Fields == [disposition : {"pending", "accepted", "rejected"},
           outcome : {"unknown", "worked", "failed"}]
NewFields == [disposition |-> "pending", outcome |-> "unknown"]
NoRow == [columns |-> <<>>, payload |-> <<>>]
Resting == [pc |-> "rest", value |-> "none", seen |-> <<>>]
Away == [pc |-> "away", sent |-> {}, max |-> 0, queue |-> <<>>, excused |-> {}]
Steps == 1 .. seq
Among(s) == {s[i] : i \in DOMAIN s}

AuthoringTypeOK ==
  /\ settings \in Settings
  /\ worker \in [pc : {"idle", "model", "calls", "publish", "append", "drafted", "audit",
                       "record", "finish", "mark", "over"},
                 after : {"none", "calls", "drafted", "finish"},
                 round : 1 .. MaxRounds, attempt : 1 .. MaxAttempts, left : Seq(Calls),
                 outcome : {"none", "gave_up", "failed", "succeeded"}, closed : BOOLEAN]
  /\ seq \in Nat /\ header \in {"absent", "running", "gave_up", "failed", "succeeded"}
  /\ stored \subseteq Steps /\ unstored \subseteq Steps /\ stored \cap unstored = {}
  /\ ended \in BOOLEAN /\ coming \in Seq(Steps)
  /\ viewer \in [pc : {"away", "subscribed", "replayed", "live", "finished", "cut"},
                 sent : SUBSET Steps, max : 0 .. seq, queue : Seq(Steps), excused : SUBSET Steps]
  /\ Len(viewer.queue) <= MaxQueue /\ views \in 0 .. settings.views
  /\ proposal \in {"none", "proposed", "accepted", "rejected"}
  /\ row \in [columns : Fields, payload : Fields] \cup {NoRow}
  /\ update \in [Writers -> [pc : {"rest", "due", "read"}, seen : Fields \cup {<<>>},
                             value : {"none", "accepted", "rejected", "worked", "failed"}]]
  /\ results \subseteq Results /\ Cardinality(results) <= settings.outcomes
  /\ faults \subseteq {"store", "finalize", "decide", "death"}

Init ==
  /\ settings \in Settings
  /\ worker = [pc |-> "idle", after |-> "none", round |-> 1, attempt |-> 1, left |-> <<>>,
               outcome |-> "none", closed |-> FALSE]
  /\ seq = 0 /\ header = "absent" /\ stored = {} /\ unstored = {} /\ ended = FALSE
  /\ coming = <<>> /\ viewer = Away /\ views = 0
  /\ proposal = "none" /\ row = NoRow /\ update = [w \in Writers |-> Resting] /\ results = {}
  /\ faults = {}

(* A fault of kind k: a store that raises, a store that _finalize_proposal *)
(* does not guard, the audit of a decision, the death of the process.      *)
Fault(k) ==
  /\ k \notin faults /\ Cardinality(faults) < MaxFaults
  /\ faults' = faults \cup {k}

(* What the worker goes on with.                                           *)
Go(pc) == worker' = [worker EXCEPT !.pc = pc]

(* Tracing a step: it is counted, then handed to the sink, whose halves    *)
(* are steps of their own; without a trace there is nothing to do.         *)
Emit(after, w) ==
  IF settings.traced
  THEN /\ worker' = [w EXCEPT !.pc = "publish", !.after = after, !.closed = after = "finish"]
       /\ seq' = seq + 1
  ELSE worker' = [w EXCEPT !.pc = after] /\ seq' = seq

------------------------------------------------------------------------------
(* POST /playbooks/draft-async, POST /playbooks/proposed.                  *)

DraftAsync ==
  /\ worker.pc = "idle" /\ settings.traced /\ Go("model")
  /\ \/ header' = "running" /\ UNCHANGED faults
     \/ Fault("store") /\ UNCHANGED header
  /\ UNCHANGED <<settings, seq, stored, unstored, ended, stream, memory>>

Propose ==
  /\ worker.pc = "idle" /\ ~settings.traced /\ Go("model")
  /\ UNCHANGED <<settings, seq, header, stored, unstored, ended, stream, memory, faults>>

------------------------------------------------------------------------------
(* The authors.  Drafted(o, w): the draft is over with outcome o.          *)

Drafted(o, w) == worker' = [w EXCEPT !.pc = "drafted", !.outcome = o]
NoTrace == UNCHANGED <<settings, seq, header, stored, unstored, ended, stream, memory, faults>>
(* A mutant of LastAttempt: one attempt too many.                          *)
LastAttemptLate == worker.attempt > MaxAttempts
LastAttempt == worker.attempt >= MaxAttempts
Again == worker' = [worker EXCEPT !.attempt = @ + 1]

NullDraft ==
  /\ worker.pc = "model" /\ settings.author = "null"
  /\ Drafted("gave_up", worker) /\ NoTrace

(* The endpoint's answers: ok, rate_limited (a 429) or terminal.  A 429 is *)
(* tried again, after a wait, within the budget; the single-shot author    *)
(* also tries a draft again that does not validate.                        *)
RateLimited ==
  /\ worker.pc = "model" /\ settings.author # "null"
  /\ IF LastAttempt THEN Drafted("gave_up", worker) ELSE Again
  /\ NoTrace

Terminal ==
  /\ worker.pc = "model" /\ settings.author # "null"
  /\ Drafted("gave_up", worker) /\ NoTrace

AttemptDraft ==
  /\ worker.pc = "model" /\ settings.author = "single"
  /\ \/ Drafted("succeeded", worker)
     \/ IF LastAttempt THEN Drafted("gave_up", worker) ELSE Again
  /\ NoTrace

(* What _attempt_draft does not catch leaves draft().                      *)
DraftRaises ==
  /\ worker.pc = "model" /\ settings.author = "single"
  /\ Drafted("failed", worker) /\ NoTrace

(* One round of the agent: the message, its content traced, ...            *)
CallModel ==
  /\ worker.pc = "model" /\ settings.author = "agent"
  /\ \E m \in Messages :
       LET w == [worker EXCEPT !.pc = "calls", !.left = m.calls]
       IN IF m.content THEN Emit("calls", w) ELSE worker' = w /\ seq' = seq
  /\ UNCHANGED <<settings, header, stored, unstored, ended, stream, memory, faults>>

(* ... then its tool calls in order: a read, or a submission that does not *)
(* validate, is answered and traced, whatever the tool did; a valid        *)
(* submission ends the draft, and the calls after it are not run.          *)
AnswerToolCall ==
  /\ worker.pc = "calls" /\ worker.left # <<>> /\ Head(worker.left) # "submitted"
  /\ Emit("calls", [worker EXCEPT !.left = Tail(@)])
  /\ UNCHANGED <<settings, header, stored, unstored, ended, stream, memory, faults>>

SubmitRunbook ==
  /\ worker.pc = "calls" /\ worker.left # <<>> /\ Head(worker.left) = "submitted"
  /\ Emit("drafted", [worker EXCEPT !.left = <<>>, !.outcome = "succeeded"])
  /\ UNCHANGED <<settings, header, stored, unstored, ended, stream, memory, faults>>

NextRound ==
  /\ worker.pc = "calls" /\ worker.left = <<>>
  /\ IF worker.round = MaxRounds THEN Drafted("gave_up", worker)
     ELSE worker' = [worker EXCEPT !.pc = "model", !.round = @ + 1, !.attempt = 1]
  /\ NoTrace

------------------------------------------------------------------------------
(* The sink: the hub, then the store, each best-effort.                    *)

(* A mutant of Subscribed: the stored steps are read first.                *)
SubscribedAfterReplay == viewer.pc \in {"replayed", "live"}
Subscribed == viewer.pc \in {"subscribed", "replayed", "live"}

HubPublish ==
  /\ worker.pc = "publish" /\ Go("append")
  /\ coming' = IF Subscribed THEN Append(coming, seq) ELSE coming
  /\ UNCHANGED <<settings, seq, header, stored, unstored, ended, viewer, views, memory, faults>>

AppendStep ==
  /\ worker.pc = "append" /\ worker' = [worker EXCEPT !.pc = worker.after, !.after = "none"]
  /\ \/ stored' = stored \cup {seq} /\ UNCHANGED <<unstored, faults>>
     \/ Fault("store") /\ unstored' = unstored \cup {seq} /\ UNCHANGED stored
  /\ UNCHANGED <<settings, seq, header, ended, stream, memory>>

------------------------------------------------------------------------------
(* The draft is over: _run_draft_async, or propose_playbook.               *)

(* A run without a draft traces its outcome; a request answers 422 or 500. *)
NoDraft ==
  /\ worker.pc = "drafted" /\ worker.outcome # "succeeded"
  /\ IF settings.traced THEN Emit("finish", worker) ELSE Go("over") /\ seq' = seq
  /\ UNCHANGED <<settings, header, stored, unstored, ended, stream, memory, faults>>

(* An exception of _finalize_proposal leaves the run or the request: no    *)
(* outcome and no finish_run, only the finally of the run.                 *)
Escapes == Fault("finalize") /\ Go(IF settings.traced THEN "mark" ELSE "over")

AddProposal ==
  /\ worker.pc = "drafted" /\ worker.outcome = "succeeded"
  /\ \/ Go("audit") /\ proposal' = "proposed" /\ UNCHANGED faults
     \/ Escapes /\ UNCHANGED proposal
  /\ UNCHANGED <<settings, seq, header, stored, unstored, ended, stream, row, update, results>>

AuditProposal ==
  /\ worker.pc = "audit"
  /\ \/ Go("record") /\ UNCHANGED faults
     \/ Escapes
  /\ UNCHANGED <<settings, seq, header, stored, unstored, ended, stream, memory>>

RecordDecision ==
  /\ worker.pc = "record"
  /\ \/ row' = [columns |-> NewFields, payload |-> NewFields] /\ UNCHANGED faults
     \/ Fault("store") /\ UNCHANGED row
  /\ IF settings.traced THEN Emit("finish", worker) ELSE Go("over") /\ seq' = seq
  /\ UNCHANGED <<settings, header, stored, unstored, ended, stream, proposal, update, results>>

(* finish_run writes the status on a header that start_run has written.    *)
(* A mutant of Finished closes only the runs that made a proposal.         *)
FinishedWithProposal == IF worker.outcome = "succeeded" THEN worker.outcome ELSE header
Finished == IF header = "absent" THEN header ELSE worker.outcome

FinishRun ==
  /\ worker.pc = "finish" /\ Go("mark")
  /\ \/ header' = Finished /\ UNCHANGED faults
     \/ Fault("store") /\ UNCHANGED header
  /\ UNCHANGED <<settings, seq, stored, unstored, ended, stream, memory>>

MarkEnded ==
  /\ worker.pc = "mark" /\ Go("over") /\ ended' = TRUE
  /\ UNCHANGED <<settings, seq, header, stored, unstored, stream, memory, faults>>

(* The process dies, and starts: the worker, the hub, the streams and the  *)
(* handlers are gone; an outcome not acknowledged comes again.             *)
ProcessDies ==
  /\ Fault("death") /\ Go("over") /\ ended' = FALSE
  /\ coming' = <<>> /\ viewer' = Away
  /\ unstored' = unstored \cup (Steps \ stored)
  /\ update' = [update EXCEPT !["disposition"] = Resting,
                  !["outcome"] = IF @.pc = "read" THEN [@ EXCEPT !.pc = "due", !.seen = <<>>] ELSE @]
  /\ UNCHANGED <<settings, seq, header, stored, views, proposal, row, results>>

------------------------------------------------------------------------------
(* GET /agent-runs/{run_id}/stream.  The outcome is the last step traced.  *)

IsOutcome(n) == n = seq /\ worker.closed
Published == IF worker.pc = "publish" THEN seq - 1 ELSE seq
Largest(S) == IF S = {} THEN 0 ELSE CHOOSE n \in S : \A k \in S : k <= n

(* History: a step between its halves is excused: it went to the hub       *)
(* before, and may reach the store after the replay.                       *)
Subscribe ==
  /\ ~Subscribed /\ settings.traced /\ worker.pc # "idle"
  /\ views < settings.views /\ views' = views + 1
  /\ viewer' = [Away EXCEPT !.pc = "subscribed",
                  !.excused = IF worker.pc = "append" THEN {seq} ELSE {}]
  /\ coming' = <<>>
  /\ UNCHANGED <<settings, run, memory, faults>>

Replay ==
  /\ viewer.pc = "subscribed"
  /\ \/ /\ viewer' = [viewer EXCEPT !.pc = "replayed", !.sent = stored, !.max = Largest(stored)]
        /\ UNCHANGED faults
     \/ /\ Fault("store")
        /\ viewer' = [viewer EXCEPT !.pc = "replayed", !.excused = @ \cup stored]
  /\ UNCHANGED <<settings, run, coming, views, memory>>

(* Closing the stream unsubscribes; what is still queued is never sent.    *)
Closed(how) == [viewer EXCEPT !.pc = how, !.queue = <<>>]

CheckEnded ==
  /\ viewer.pc = "replayed"
  /\ IF ended THEN viewer' = Closed("cut") /\ coming' = <<>>
     ELSE viewer' = [viewer EXCEPT !.pc = "live"] /\ coming' = coming
  /\ UNCHANGED <<settings, run, views, memory, faults>>

(* A full queue drops its oldest step (history: which is excused); a       *)
(* mutant drops the new one.                                               *)
QueuedUnlessFull(n) ==
  IF Len(viewer.queue) < MaxQueue THEN [viewer EXCEPT !.queue = Append(@, n)]
  ELSE [viewer EXCEPT !.excused = @ \cup {n}]
Queued(n) ==
  IF Len(viewer.queue) < MaxQueue THEN [viewer EXCEPT !.queue = Append(@, n)]
  ELSE [viewer EXCEPT !.queue = Append(Tail(@), n), !.excused = @ \cup {Head(viewer.queue)}]

Deliver ==
  /\ coming # <<>> /\ coming' = Tail(coming) /\ viewer' = Queued(Head(coming))
  /\ UNCHANGED <<settings, run, views, memory, faults>>

TakeStep ==
  /\ viewer.pc = "live" /\ viewer.queue # <<>>
  /\ LET n == Head(viewer.queue)
         taken == [viewer EXCEPT !.queue = Tail(@)]
         sent == [taken EXCEPT !.sent = @ \cup {n}, !.max = n]
     IN viewer' = IF n <= viewer.max THEN taken
                  ELSE IF IsOutcome(n) THEN [sent EXCEPT !.pc = "finished", !.queue = <<>>]
                  ELSE sent
  /\ coming' = IF viewer'.pc = "finished" THEN <<>> ELSE coming
  /\ UNCHANGED <<settings, run, views, memory, faults>>

Leave ==
  /\ Subscribed /\ viewer' = Away /\ coming' = <<>>
  /\ UNCHANGED <<settings, run, views, memory, faults>>

------------------------------------------------------------------------------
(* The proposal is decided, the playbook it registers has outcomes, and    *)
(* both are written on the decision's row: a read, then a write.           *)

Decide ==
  /\ proposal = "proposed" /\ settings.outcomes > 0 /\ proposal' \in {"accepted", "rejected"}
  /\ \/ /\ update' = [update EXCEPT !["disposition"].pc = "due", !["disposition"].value = proposal']
        /\ UNCHANGED faults
     \/ Fault("decide") /\ UNCHANGED update  \* the audit write raises: a 500
  /\ UNCHANGED <<settings, run, stream, row, results>>

(* remediation.outcomes: an escalation never ran, and is skipped; a mutant *)
(* takes it for a failure.                                                 *)
SkippedNever(r) == FALSE
Skipped(r) == r = "escalated"
Label(r) == IF r = "success" THEN "worked" ELSE "failed"

OutcomeArrives ==
  /\ proposal = "accepted" /\ update["outcome"].pc = "rest" /\ Cardinality(results) < settings.outcomes
  /\ \E r \in Results \ results :
       /\ results' = results \cup {r}
       /\ update' = IF Skipped(r) THEN update
                    ELSE [update EXCEPT !["outcome"].pc = "due", !["outcome"].value = Label(r)]
  /\ UNCHANGED <<settings, run, stream, proposal, row, faults>>

ReadRow(w) ==
  /\ update[w].pc = "due"
  /\ \/ /\ row # NoRow /\ UNCHANGED faults
        /\ update' = [update EXCEPT ![w].pc = "read", ![w].seen = row.payload]
     \/ /\ row = NoRow /\ UNCHANGED faults
        /\ update' = [update EXCEPT ![w] = Resting]
     \/ Fault("store") /\ update' = [update EXCEPT ![w] = Resting]
  /\ UNCHANGED <<settings, run, stream, proposal, row, results>>

(* One column, and the whole payload that was read.                        *)
Written(w) ==
  [columns |-> [row.columns EXCEPT ![w] = update[w].value],
   payload |-> [update[w].seen EXCEPT ![w] = update[w].value]]

WriteRow(w) ==
  /\ update[w].pc = "read"
  /\ row' = Written(w) /\ update' = [update EXCEPT ![w] = Resting]
  /\ UNCHANGED <<settings, run, stream, proposal, results, faults>>

------------------------------------------------------------------------------
Work ==
  \/ NullDraft \/ RateLimited \/ Terminal \/ AttemptDraft \/ DraftRaises \/ CallModel
  \/ AnswerToolCall \/ SubmitRunbook \/ NextRound \/ HubPublish \/ AppendStep \/ NoDraft
  \/ AddProposal \/ AuditProposal \/ RecordDecision \/ FinishRun \/ MarkEnded
Watch == Replay \/ CheckEnded \/ Deliver \/ TakeStep
Remember == Decide \/ OutcomeArrives \/ \E w \in Writers : ReadRow(w) \/ WriteRow(w)

Next == DraftAsync \/ Propose \/ Work \/ ProcessDies \/ Subscribe \/ Watch \/ Leave \/ Remember

(* The worker's thread and the event loop go on; people need not.          *)
Spec == Init /\ [][Next]_vars /\ WF_vars(Work) /\ WF_vars(Watch)

------------------------------------------------------------------------------
(* A console that is on the stream is sent, or will be sent, every step    *)
(* published so far, except one that was between the hub and the store     *)
(* when it subscribed, those a full queue dropped, and those the store     *)
(* failed to write or to read (app.py:602-619, "a step published in the    *)
(* gap between those two calls would be lost").                            *)
LaterStepsArrive ==
  viewer.pc \in {"live", "finished"} =>
    \A n \in 1 .. Published :
      \/ n \in viewer.sent \cup viewer.excused \cup unstored
      \/ n \in Among(viewer.queue) \cup Among(coming) /\ n > viewer.max

(* The row says only what was decided, and only an outcome that came       *)
(* (author_decision_store.py:4, "never wrong signal").                     *)
MemoryIsHonest ==
  row # NoRow =>
    \A f \in {row.columns, row.payload} :
      /\ f.disposition \in {"pending", proposal}
      /\ f.outcome = "unknown"
         \/ \E r \in results \ {"escalated"} : f.outcome = "worked" <=> r = "success"

(* A run that was started is closed in the store, whatever the author did, *)
(* unless a store failed, finalizing raised, or the process died           *)
(* (app.py:498-521).                                                       *)
RunCloses == header = "running" ~> header # "running" \/ faults # {}

(* A stream that waits for steps before the outcome is traced is closed:   *)
(* the outcome reaches it, even through a full queue, unless finalizing    *)
(* raised or the process died (app.py:633-651, agent_run_hub.py:67-76).    *)
Unserved == faults \cap {"finalize", "death"} # {}
LiveStreamCloses == viewer.pc = "live" /\ ~worker.closed ~> ~Subscribed \/ Unserved

(* Every stream is closed, with the hub's mark as the backstop "for a      *)
(* subscriber that connects after the run already ended"                   *)
(* (agent_run_hub.py:79, app.py:625-631).                                  *)
StreamCloses == Subscribed ~> ~Subscribed \/ Unserved
==============================================================================
