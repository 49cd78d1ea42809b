------------------------------- MODULE Replay -------------------------------
(***************************************************************************)
(* The replay engine (cua/replay): one run of a capability against a       *)
(* surface, with interstitial dismissal, failure classification and human  *)
(* handoff.  One action per surface call or decision of the engine; the    *)
(* surface answers each call with any page of Pages or with one of the     *)
(* errors its port declares, and the operator answers a handoff with any   *)
(* resolution.  A step is identified by its position in Steps.  An operator *)
(* named for a mistake (NoCeiling, ExpireNever...) stands before the one    *)
(* it would be a mistake for; only mutation runs use it.                    *)
(***************************************************************************)
EXTENDS Naturals, Sequences

CONSTANTS
  Steps,             \* the capability's steps, in order
  Business,          \* its business outcomes, in declaration order
  Success,           \* its success outcome
  Checkpoint,        \* its checkpoint predicate
  Inputs,            \* names of its declared inputs
  Required,          \* those that must be supplied
  Outputs,           \* names of its declared outputs
  Interstitials,     \* the app profile's interstitials, in order
  AllowedLocations,  \* the locations the profile lets automation act at
  Pages,             \* what an observation can be: where it is, which predicates
                     \* hold on it, which targets resolve on it to one node
  Locations, Predicates, Targets,
  Asks,              \* the input a predicate compares a control's value with, or NoInput
  NoTarget, NoLocation, NoPage, NoInput, NoOutput, NoFailure, NoResult,
  Runs,              \* the ways a caller may start the run
  MaxInterventions   \* bound: the operator aborts at this many handoffs

MAX_DISMISSALS == 2

FailureKinds == {"session_expired", "approval_required", "interstitial_persisted",
                 "timeout", "permission_denied", "target_drift",
                 "checkpoint_failed", "surface_error", "policy_denied"}
ESCALATES == {"session_expired", "approval_required", "interstitial_persisted",
              "timeout", "permission_denied"}
TERMINAL == {"target_drift", "checkpoint_failed", "surface_error", "policy_denied"}

N == Len(Steps)
Risky == {i \in 1 .. N : Steps[i].risky}

Step == [target : Targets \cup {NoTarget}, kind : {"navigate", "read", "other"},
         goes : Locations \cup {NoLocation}, value : Inputs \cup {NoInput},
         bind_to : Outputs \cup {NoOutput}, risky : BOOLEAN, post : Predicates]
Outcome == [name : STRING, detector : Predicates, binds : SUBSET Outputs]
Interstitial == [name : STRING, detector : Predicates, failure_kind : FailureKinds,
                 dismiss : Targets \cup {NoTarget}]
Page == [location : Locations, shows : SUBSET Predicates, finds : SUBSET Targets]
Run == [supplied : SUBSET (Inputs \cup {"undeclared"}), approve_risky : BOOLEAN,
        escalator : BOOLEAN, evidence : BOOLEAN]

Exceptions == {"InterstitialDetected", "PostconditionTimeout", "TargetUnresolved",
               "CheckpointFailed", "PolicyDenied", "ApprovalRequired",
               "SurfaceNotReady", "StaleNode", "ActionNotApplicable"}
Resolution == [kind : {"abort", "approve"}, resume_from : {0}]
                \cup [kind : {"retry"}, resume_from : 0 .. N]

Failure == [exc : Exceptions, step : 1 .. N, attempts : 0 .. MAX_DISMISSALS,
            kind : FailureKinds]
Intervention == [step : 1 .. N, kind : FailureKinds, resolution : Resolution]

ASSUME CapabilityAssumption ==
  /\ Steps \in Seq(Step) /\ N > 0
  /\ \A i \in DOMAIN Steps : Steps[i].kind = "read" => Steps[i].bind_to \in Outputs
  /\ Business \in Seq(Outcome) /\ Success \in Outcome
  /\ Checkpoint \in Predicates /\ Required \subseteq Inputs
  /\ Asks \in [Predicates -> Inputs \cup {NoInput}]

\* The compiler refuses a value_equals that would name an outcome.
ASSUME DetectorAssumption ==
  /\ \A b \in DOMAIN Business : Asks[Business[b].detector] = NoInput
  /\ Asks[Success.detector] = NoInput /\ Asks[Checkpoint] = NoInput
  /\ \A i \in DOMAIN Interstitials : Asks[Interstitials[i].detector] = NoInput

ASSUME ProfileAssumption ==
  /\ Interstitials \in Seq(Interstitial)
  /\ AllowedLocations \subseteq Locations
  /\ NoLocation \notin Locations

ASSUME EnvironmentAssumption ==
  /\ Pages \subseteq Page /\ NoPage \notin Pages
  /\ Runs \subseteq Run
  /\ MaxInterventions \in Nat
  /\ NoFailure \notin Failure \cup FailureKinds /\ NoResult \notin Resolution

VARIABLES
  pc,             \* where the engine is
  run,            \* how the caller started it
  index,          \* the step in progress (session.step_id)
  recoveries,     \* dismissals made in this run of the step
  observation,    \* the observation the next decision reads
  location,       \* session._location: where the last observation was
  late,           \* the clock has passed the deadline of the current wait
  approved,       \* session._approved
  holder,         \* who holds the control token
  outputs,        \* run.outputs; a text is known by the pass that read it, 0 is unread
  traces,         \* run.traces, each known by its step
  interventions,  \* run.interventions
  failure,        \* the classified failure being handled
  resolution,     \* the operator's answer being handled
  files,          \* failure and result files in the run's evidence directory
  result,         \* what replay() returned
  raised,         \* what replay() raised, "none" if nothing
  tries,          \* ghost: how often this run of the step reached surface.act
  charged,        \* ghost: how often each risky step did, over all passes
  proved          \* ghost: leading steps proved, counted back on every resume

engine == <<run, index, recoveries, observation, location, late, tries>>
human == <<approved, holder, interventions, resolution>>
record == <<outputs, traces, files, charged, proved>>
vars == <<pc, run, index, recoveries, observation, location, late, approved, holder,
          outputs, traces, interventions, failure, resolution, files, result, raised,
          tries, charged, proved>>

(***************************************************************************)
(* Pure operators: predicates, screening, classification, policy           *)
(***************************************************************************)
holds(predicate, page) == predicate \in page.shows
resolves(target, page) == target = NoTarget \/ target \in page.finds

Firing(detectors, page) ==
  {i \in DOMAIN detectors : holds(detectors[i].detector, page)}
First(indices) == CHOOSE i \in indices : \A j \in indices : i <= j

\* An interstitial is in front of the page; which one is the first declared.
blocked(page) == Firing(Interstitials, page) # {}
screen(page) == Interstitials[First(Firing(Interstitials, page))]

EscalatesAnyButDenial(kind) == kind # "policy_denied"
escalates(kind) == kind \in ESCALATES

\* The kind an exception is classified as; an interstitial carries the one it reports.
KindOf(exc, reported) ==
  IF exc = "InterstitialDetected" THEN reported
  ELSE IF exc \in {"SurfaceNotReady", "StaleNode", "ActionNotApplicable"} THEN "surface_error"
  ELSE [PostconditionTimeout |-> "timeout", TargetUnresolved |-> "target_drift",
        CheckpointFailed |-> "checkpoint_failed", PolicyDenied |-> "policy_denied",
        ApprovalRequired |-> "approval_required"][exc]
to_failure(exc, reported, attempts) ==
  [exc |-> exc, step |-> index, attempts |-> attempts, kind |-> KindOf(exc, reported)]

\* The chokepoint's verdict on an action: the token first, then where the action
\* goes or happens, then its risk.
check(where, risky) ==
  IF holder # "automation" THEN "ControlHeld"
  ELSE IF where \notin AllowedLocations THEN "PolicyDenied"
  ELSE IF risky /\ ~run.approve_risky /\ index \notin approved THEN "ApprovalRequired"
  ELSE "pass"

(***************************************************************************)
(* How an action ends                                                      *)
(***************************************************************************)
Goto(next) == pc' = next /\ UNCHANGED <<failure, raised, result>>
Raise(exc) == pc' = "raised" /\ raised' = exc /\ UNCHANGED <<failure, result>>
Fail(exc, reported, attempts) ==
  /\ pc' = "failed" /\ failure' = to_failure(exc, reported, attempts)
  /\ UNCHANGED <<raised, result>>
FailAs(exc) == Fail(exc, "surface_error", 0)

Finish(status, outcome, returned) ==
  /\ pc' = "finished"
  /\ result' = [status |-> status, outcome |-> outcome, outputs |-> returned]
  /\ files' = IF run.evidence THEN files \cup {"result.json"} ELSE files
  /\ UNCHANGED <<failure, raised>>

\* _result of a declared outcome: an output it binds and no step read fails the run.
Conclude(status, outcome) ==
  IF \A name \in outcome.binds : outputs[name] # 0
  THEN Finish(status, outcome.name, [name \in outcome.binds |-> outputs[name]])
  ELSE FailAs("CheckpointFailed") /\ UNCHANGED files

See(page) == location' = page.location

\* evidence.snapshot: observe, then capture.  Either may find the surface not ready,
\* which is "nothing to record"; a capture may also find a masked node gone.
SnapshotTaken == \E page \in Pages : See(page)
SnapshotUnready == UNCHANGED location \/ SnapshotTaken
SnapshotStale == SnapshotTaken /\ Raise("StaleNode")

(***************************************************************************)
(* _check_params, then one attempt at a step                               *)
(***************************************************************************)
Init ==
  /\ pc = "start" /\ run \in Runs /\ index = 1 /\ recoveries = 0
  /\ observation = NoPage /\ location = NoLocation /\ late = FALSE
  /\ approved = {} /\ holder = "automation" /\ outputs = [name \in Outputs |-> 0]
  /\ traces = <<>> /\ interventions = <<>> /\ failure = NoFailure
  /\ resolution = NoResult /\ files = {} /\ result = NoResult /\ raised = "none"
  /\ tries = 0 /\ charged = [i \in Risky |-> 0] /\ proved = 0

CheckParams ==
  /\ pc = "start"
  /\ IF Required \subseteq run.supplied /\ run.supplied \subseteq Inputs
     THEN Goto("observe") ELSE Raise("MissingParameter")
  /\ UNCHANGED <<engine, human, record>>

AttemptObserves(page) ==
  /\ pc = "observe" /\ See(page)
  /\ \/ blocked(page) /\ Goto("blocked") /\ observation' = page
     \/ /\ ~blocked(page) /\ resolves(Steps[index].target, page)
        /\ Goto("act") /\ UNCHANGED observation
     \/ /\ ~blocked(page) /\ ~resolves(Steps[index].target, page)
        /\ FailAs("TargetUnresolved") /\ UNCHANGED observation
  /\ UNCHANGED <<run, index, recoveries, late, tries, human, record>>

\* Nothing between surface.observe and _replay catches this one.
AttemptNotReady ==
  /\ pc = "observe" /\ FailAs("SurfaceNotReady")
  /\ UNCHANGED <<engine, human, record>>

ActsAt == IF Steps[index].kind = "navigate" THEN Steps[index].goes ELSE location
ValueKnown == Steps[index].value \in run.supplied \cup {NoInput}
Verdict == check(ActsAt, Steps[index].risky)

\* session.value raises KeyError for an optional input that was not supplied.
ActionHasNoValue ==
  /\ pc = "act" /\ ~ValueKnown /\ Raise("KeyError")
  /\ UNCHANGED <<engine, human, record>>

ActionRefused ==
  /\ pc = "act" /\ ValueKnown
  /\ \/ Verdict = "ControlHeld" /\ Raise("ControlHeld")
     \/ Verdict \in {"PolicyDenied", "ApprovalRequired"} /\ FailAs(Verdict)
  /\ UNCHANGED <<engine, human, record>>

\* A ReadText step binds what it read over whatever an earlier pass bound.
BoundOnce ==
  IF Steps[index].kind = "read" /\ outputs[Steps[index].bind_to] = 0
  THEN [outputs EXCEPT ![Steps[index].bind_to] = Len(interventions) + 1] ELSE outputs
Bound ==
  IF Steps[index].kind = "read"
  THEN [outputs EXCEPT ![Steps[index].bind_to] = Len(interventions) + 1] ELSE outputs

\* surface.act was called: it may complete or raise, and what it did stands.
ActionDispatched ==
  /\ pc = "act" /\ ValueKnown /\ Verdict = "pass"
  /\ tries' = tries + 1
  /\ charged' = IF index \in Risky THEN [charged EXCEPT ![index] = @ + 1] ELSE charged
  /\ \/ /\ Goto("await")
        /\ outputs' = Bound
     \/ \E exc \in {"StaleNode", "ActionNotApplicable"} : FailAs(exc) /\ UNCHANGED outputs
  /\ late' = FALSE
  /\ UNCHANGED <<run, index, recoveries, observation, location, human, traces, files, proved>>

(***************************************************************************)
(* await_predicate: poll until the postcondition holds or the deadline     *)
(***************************************************************************)
DeadlinePasses ==
  /\ pc = "await" /\ ~late /\ late' = TRUE
  /\ UNCHANGED <<pc, failure, raised, result, run, index, recoveries, observation, location,
                 tries, human, record>>

\* A postcondition about a value asks for it once its control is found.
Comparable == Asks[Steps[index].post] \in run.supplied \cup {NoInput}

PollHasNoValue(page) ==
  /\ pc = "await" /\ ~blocked(page) /\ ~Comparable /\ See(page) /\ Raise("KeyError")
  /\ UNCHANGED <<run, index, recoveries, observation, late, tries, human, record>>

PollHoldsObservingAgain(page) ==
  /\ pc = "await" /\ ~blocked(page) /\ Comparable /\ holds(Steps[index].post, page)
  /\ See(page) /\ observation' \in Pages /\ proved' = index
  /\ traces' = Append(traces, index)
  /\ Goto(IF run.evidence THEN "record" ELSE "outcomes")
  /\ UNCHANGED <<run, index, recoveries, late, tries, human, outputs, files, charged>>

PollHolds(page) ==
  /\ pc = "await" /\ ~blocked(page) /\ Comparable /\ holds(Steps[index].post, page)
  /\ See(page) /\ observation' = page /\ proved' = index
  /\ traces' = Append(traces, index)
  /\ Goto(IF run.evidence THEN "record" ELSE "outcomes")
  /\ UNCHANGED <<run, index, recoveries, late, tries, human, outputs, files, charged>>

PollBlocked(page) ==
  /\ pc = "await" /\ blocked(page) /\ See(page) /\ observation' = page /\ Goto("blocked")
  /\ UNCHANGED <<run, index, recoveries, late, tries, human, record>>

ExpireNever == Goto("await")
Expire == IF late THEN FailAs("PostconditionTimeout") ELSE Goto("await")

PollNotYet(page) ==
  /\ pc = "await" /\ ~blocked(page) /\ ~holds(Steps[index].post, page)
  /\ See(page) /\ Expire
  /\ UNCHANGED <<run, index, recoveries, observation, late, tries, human, record>>

PollNotReady ==
  /\ pc = "await" /\ Expire
  /\ UNCHANGED <<engine, human, record>>

(***************************************************************************)
(* _run_step: dismiss and re-run, or record the finished step              *)
(***************************************************************************)
NoCeiling == screen(observation).dismiss = NoTarget \/ recoveries > MAX_DISMISSALS
NotDismissable ==
  screen(observation).dismiss = NoTarget \/ recoveries >= MAX_DISMISSALS

GiveUp ==
  /\ pc = "blocked" /\ NotDismissable
  /\ Fail("InterstitialDetected", screen(observation).failure_kind, recoveries)
  /\ observation' = NoPage
  /\ UNCHANGED <<run, index, recoveries, location, late, tries, human, record>>

DismissRefused ==
  /\ pc = "blocked" /\ ~NotDismissable
  /\ IF ~resolves(screen(observation).dismiss, observation)
     THEN FailAs("TargetUnresolved")
     ELSE \/ check(location, FALSE) = "ControlHeld" /\ Raise("ControlHeld")
          \/ check(location, FALSE) = "PolicyDenied" /\ FailAs("PolicyDenied")
          \/ /\ check(location, FALSE) = "pass"
             /\ \E exc \in {"StaleNode", "ActionNotApplicable"} : FailAs(exc)
  /\ observation' = NoPage
  /\ UNCHANGED <<run, index, recoveries, location, late, tries, human, record>>

Dismiss ==
  /\ pc = "blocked" /\ ~NotDismissable
  /\ resolves(screen(observation).dismiss, observation) /\ check(location, FALSE) = "pass"
  /\ recoveries' = recoveries + 1 /\ observation' = NoPage /\ Goto("observe")
  /\ UNCHANGED <<run, index, location, late, tries, human, record>>

\* evidence.step captures the page now; the step's trace is already written.
CaptureStep ==
  /\ pc = "record"
  /\ \/ Goto("outcomes") /\ UNCHANGED observation
     \/ \E exc \in {"SurfaceNotReady", "StaleNode"} : FailAs(exc) /\ observation' = NoPage
  /\ UNCHANGED <<run, index, recoveries, location, late, tries, human, record>>

(***************************************************************************)
(* _execute: business outcomes after a step, success after the last        *)
(***************************************************************************)
BusinessOutcome ==
  /\ pc = "outcomes" /\ Firing(Business, observation) # {}
  /\ Conclude("business_outcome", Business[First(Firing(Business, observation))])
  /\ UNCHANGED <<engine, human, outputs, traces, charged, proved>>

NextStep ==
  /\ pc = "outcomes" /\ Firing(Business, observation) = {}
  /\ recoveries' = 0 /\ tries' = 0 /\ late' = FALSE /\ observation' = NoPage
  /\ IF index < N THEN index' = index + 1 /\ Goto("observe")
                  ELSE index' = index /\ Goto("final")
  /\ UNCHANGED <<run, location, human, record>>

FinalObserves(page) ==
  /\ pc = "final" /\ See(page)
  /\ \/ /\ blocked(page) /\ Fail("InterstitialDetected", screen(page).failure_kind, 0)
        /\ UNCHANGED <<observation, files>>
     \/ /\ ~blocked(page) /\ ~(holds(Checkpoint, page) /\ holds(Success.detector, page))
        /\ FailAs("CheckpointFailed") /\ UNCHANGED <<observation, files>>
     \/ /\ ~blocked(page) /\ holds(Checkpoint, page) /\ holds(Success.detector, page)
        /\ observation' = page /\ Conclude("success", Success)
  /\ UNCHANGED <<run, index, recoveries, late, tries, human, outputs, traces, charged, proved>>

FinalNotReady ==
  /\ pc = "final" /\ FailAs("SurfaceNotReady")
  /\ UNCHANGED <<engine, human, record>>

(***************************************************************************)
(* _replay: a failure is recorded, then handed to a human or returned      *)
(***************************************************************************)
RecordFailure ==
  /\ pc = "failed"
  /\ \/ ~run.evidence /\ Goto("triage") /\ UNCHANGED <<location, files>>
     \/ /\ run.evidence /\ SnapshotTaken /\ Goto("triage")
        /\ files' = files \cup {"failure.json"}
     \/ /\ run.evidence /\ SnapshotUnready /\ Goto("triage")
        /\ files' = files \cup {"failure.unobservable"}
     \/ run.evidence /\ SnapshotStale /\ UNCHANGED files
  /\ UNCHANGED <<run, index, recoveries, observation, late, tries, human, outputs, traces, charged, proved>>

ReturnFailure ==
  /\ pc = "triage" /\ (~run.escalator \/ ~escalates(failure.kind))
  /\ Finish("failed", "none", <<>>)
  /\ UNCHANGED <<engine, human, outputs, traces, charged, proved>>

HandToHuman ==
  /\ pc = "triage" /\ run.escalator /\ escalates(failure.kind)
  /\ \/ /\ SnapshotUnready
        /\ IF holder = "automation" THEN holder' = "human" /\ Goto("human")
                                    ELSE UNCHANGED holder /\ Raise("ControlHeld")
     \/ SnapshotStale /\ UNCHANGED holder
  /\ UNCHANGED <<run, index, recoveries, observation, late, tries, approved, interventions, resolution, record>>

OperatorAnswersOnly(answer) ==
  /\ pc = "human" /\ (answer.kind = "abort" \/ Len(interventions) + 1 < MaxInterventions)
  /\ resolution' = answer /\ Goto("answered")
  /\ UNCHANGED <<engine, approved, holder, interventions, record>>

\* The operator may answer anything the console accepts; abort is all that is left
\* at the bound.
OperatorAnswers(answer) ==
  /\ pc = "human" /\ (answer.kind = "abort" \/ Len(interventions) + 1 < MaxInterventions)
  /\ resolution' = answer /\ holder' = "automation" /\ Goto("answered")
  /\ UNCHANGED <<engine, approved, interventions, record>>

EscalatorFails ==
  /\ pc = "human" /\ holder' = "automation" /\ Raise("EscalationError")
  /\ UNCHANGED <<engine, approved, interventions, resolution, record>>

SnapshotAfter ==
  /\ pc = "answered"
  /\ \/ SnapshotUnready /\ Goto("resume")
     \/ SnapshotStale
  /\ UNCHANGED <<run, index, recoveries, observation, late, tries, human, record>>

Intervene ==
  interventions' = Append(interventions, [step |-> failure.step, kind |-> failure.kind,
                                          resolution |-> resolution])
ResumeAfter(i) ==
  /\ index' = (IF i < N THEN i + 1 ELSE i) /\ proved' = i - 1 /\ recoveries' = 0
  /\ tries' = 0 /\ late' = FALSE
  /\ resolution' = NoResult /\ failure' = NoFailure /\ pc' = "observe"
  /\ UNCHANGED <<raised, result, files>>
ResumeFrom(i) ==
  /\ index' = i /\ proved' = i - 1 /\ recoveries' = 0 /\ tries' = 0 /\ late' = FALSE
  /\ resolution' = NoResult /\ failure' = NoFailure /\ pc' = "observe"
  /\ UNCHANGED <<raised, result, files>>

\* _resume_index; a resume_from outside the request's resumable steps, or an approval
\* of what was not waiting for one, is an EscalationError and leaves no record.
Abort ==
  /\ pc = "resume" /\ resolution.kind = "abort"
  /\ Intervene /\ Finish("failed", "none", <<>>)
  /\ UNCHANGED <<engine, approved, holder, resolution, outputs, traces, charged, proved>>

ApproveAnything ==
  /\ pc = "resume" /\ resolution.kind = "approve"
  /\ approved' = approved \cup {failure.step}
  /\ Intervene /\ ResumeFrom(failure.step)
  /\ UNCHANGED <<run, observation, location, holder, outputs, traces, charged>>

Approve ==
  /\ pc = "resume" /\ resolution.kind = "approve" /\ failure.kind = "approval_required"
  /\ approved' = approved \cup {failure.step}
  /\ Intervene /\ ResumeFrom(failure.step)
  /\ UNCHANGED <<run, observation, location, holder, outputs, traces, charged>>

RetryAnywhere ==
  /\ pc = "resume" /\ resolution.kind = "retry" /\ resolution.resume_from \in 1 .. N
  /\ Intervene /\ ResumeFrom(resolution.resume_from)
  /\ UNCHANGED <<run, observation, location, approved, holder, outputs, traces, charged>>

Retry ==
  /\ pc = "resume" /\ resolution.kind = "retry" /\ resolution.resume_from \in 1 .. failure.step
  /\ Intervene /\ ResumeFrom(resolution.resume_from)
  /\ UNCHANGED <<run, observation, location, approved, holder, outputs, traces, charged>>

AnswerRejected ==
  /\ pc = "resume"
  /\ \/ resolution.kind = "approve" /\ failure.kind # "approval_required"
     \/ resolution.kind = "retry" /\ resolution.resume_from \notin 1 .. failure.step
  /\ Raise("EscalationError")
  /\ UNCHANGED <<engine, human, record>>

Over == pc \in {"finished", "raised"} /\ UNCHANGED vars

EngineStep ==
  \/ CheckParams \/ AttemptNotReady \/ ActionHasNoValue \/ ActionRefused \/ ActionDispatched
  \/ PollNotReady \/ GiveUp \/ DismissRefused \/ Dismiss \/ CaptureStep
  \/ BusinessOutcome \/ NextStep \/ FinalNotReady
  \/ RecordFailure \/ ReturnFailure \/ HandToHuman \/ SnapshotAfter
  \/ Abort \/ Approve \/ Retry \/ AnswerRejected
  \/ \E page \in Pages :
       \/ AttemptObserves(page) \/ FinalObserves(page)
       \/ PollHolds(page) \/ PollHasNoValue(page) \/ PollBlocked(page) \/ PollNotYet(page)

OperatorStep == EscalatorFails \/ \E answer \in Resolution : OperatorAnswers(answer)

Next == EngineStep \/ DeadlinePasses \/ OperatorStep \/ Over

Spec == Init /\ [][Next]_vars

\* The engine's thread runs, the clock moves, and whoever holds the request answers
\* it or the connection breaks.
Fairness == WF_vars(EngineStep) /\ WF_vars(DeadlinePasses) /\ WF_vars(OperatorStep)
FairSpec == Spec /\ Fairness

(***************************************************************************)
(* Properties                                                              *)
(***************************************************************************)
\* Every variable of the engine stays in the range the code gives it.
TypeOK ==
  /\ pc \in {"start", "observe", "act", "await", "blocked", "record", "outcomes", "final",
             "failed", "triage", "human", "answered", "resume", "finished", "raised"}
  /\ run \in Runs /\ index \in 1 .. N /\ recoveries \in 0 .. MAX_DISMISSALS
  /\ observation \in Pages \cup {NoPage} /\ location \in Locations \cup {NoLocation}
  /\ late \in BOOLEAN /\ approved \subseteq 1 .. N /\ holder \in {"automation", "human"}
  /\ outputs \in [Outputs -> Nat] /\ traces \in Seq(1 .. N)
  /\ interventions \in Seq(Intervention)
  /\ failure \in Failure \cup {NoFailure} /\ resolution \in Resolution \cup {NoResult}
  /\ files \subseteq {"failure.json", "failure.unobservable", "result.json"}
  /\ tries \in Nat /\ charged \in [Risky -> Nat] /\ proved \in 0 .. N

Approvals(i) == {n \in DOMAIN interventions :
                   /\ interventions[n].step = i
                   /\ interventions[n].resolution.kind = "approve"
                   /\ interventions[n].kind = "approval_required"}

\* The step a run last resumed from: 1, or where the last record sends it.
ResumedAt ==
  IF interventions = <<>> THEN 1
  ELSE LET last == interventions[Len(interventions)]
       IN IF last.resolution.kind = "retry" THEN last.resolution.resume_from ELSE last.step

\* Session.act: a risky step reaches the surface only in a run that approved risky
\* steps at the start, or after an operator approved this very step when it was the
\* one waiting for approval; no resume, re-run or later handoff opens another way.
RiskyOnlyWhenApproved ==
  [][\A i \in Risky : charged'[i] > charged[i] =>
        run.approve_risky \/ Approvals(i) # {}]_vars

\* ControlToken: nothing acts on the surface, and no second handoff starts, while a
\* human holds the token, whatever way the handoff ended.
TokenNeverContested == raised # "ControlHeld" /\ (holder = "human" <=> pc = "human")

\* _replay and _execute: a success was earned.  The last pass ran every step from
\* where it resumed to the end, in order, and each step before that had completed.
SuccessWalksEveryStep ==
  result # NoResult /\ result.status = "success" =>
    LET pass == N + 1 - ResumedAt IN
    /\ Len(traces) >= pass
    /\ \A k \in 1 .. pass : traces[Len(traces) - pass + k] = ResumedAt + k - 1
    /\ \A i \in 1 .. N : \E n \in DOMAIN traces : traces[n] = i

\* run.outputs outlives a handoff: what success returns was read, and in the last
\* pass whenever that pass covers the only steps that bind it, so no answer mixes in
\* text from before the operator changed the page that the pass read again.
ReturnedOutputsAreFresh ==
  result # NoResult /\ result.status = "success" =>
    \A name \in Success.binds :
      LET readers == {i \in 1 .. N : Steps[i].kind = "read" /\ Steps[i].bind_to = name}
      IN /\ readers # {} /\ result.outputs[name] \in 1 .. Len(interventions) + 1
         /\ (\E i \in readers : i >= ResumedAt) =>
               result.outputs[name] = Len(interventions) + 1

\* _run_step: dismissals never let one run of a step act more than MAX_DISMISSALS + 1
\* times, whether the notice came before the action or after it.
ReRunsHaveACeiling == tries <= MAX_DISMISSALS + 1

\* _replay: a failed run reports the failure that stopped it.  If the last word was
\* an operator's abort that is the failure the operator was shown; no approval or
\* retry is the last word.  A terminal kind never went to a human.
FailedRunReportsWhatStoppedIt ==
  result # NoResult /\ result.status = "failed" =>
    /\ failure # NoFailure /\ failure.step = index
    /\ (pc = "finished" /\ resolution # NoResult) =>
         /\ resolution.kind = "abort"
         /\ interventions[Len(interventions)] =
              [step |-> failure.step, kind |-> failure.kind, resolution |-> resolution]
    /\ run.escalator /\ failure.kind \in ESCALATES => resolution # NoResult
    /\ \A n \in DOMAIN interventions : interventions[n].kind \notin TERMINAL

\* _execute: a business outcome is read off the page that satisfied the postcondition
\* of the step just run, never off an interstitial or the page from before the action.
OutcomeSeenOnProvedPage ==
  result # NoResult /\ result.status = "business_outcome" =>
    /\ tries > 0 /\ proved = index /\ traces[Len(traces)] = index
    /\ holds(Steps[index].post, observation) /\ ~blocked(observation)
    /\ \E b \in DOMAIN Business : /\ holds(Business[b].detector, observation)
                                  /\ Business[b].name = result.outcome

\* The engine implements ReplayContract.
phase == IF pc \in {"human", "answered", "resume"} THEN "human"
         ELSE IF pc = "finished" THEN result.status
         ELSE IF pc = "raised" THEN "raised" ELSE "automation"
cause == IF failure = NoFailure THEN NoFailure ELSE failure.kind

Contract == INSTANCE ReplayContract
              WITH Escalating <- ESCALATES, Terminal <- TERMINAL, None <- NoFailure

\* replay() keeps the promise of ReplayContract whatever the surface and the operator
\* do: what is proved, who has the run and why it stopped only change the way it says.
KeepsContract == Contract!Spec

\* replay() ends: every wait has a deadline, every re-run a ceiling, and a handoff is
\* answered or its connection breaks (up to MaxInterventions handoffs).
RunEnds == <>(pc \in {"finished", "raised"})
=============================================================================
