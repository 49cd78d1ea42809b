# A TLA+ model of computer-use-automation-system

The program automates legacy web applications in three stages. **Discovery** lets a
language model drive a live page once, one checked turn at a time, and writes a
transcript. The **compiler** turns transcripts into a *capability*: steps with
postconditions, a success outcome, business outcomes ("no such member"). **Replay** runs
a capability without any model, and hands over to a human through an operator console
when it meets something a human can do something about. This directory models those
three stages, the console and the browser adapter they drive pages through in TLA+, checks
them with TLC and proves most of their safety with TLAPS.

Every module is translated from the code under `src/`; `PROJECT.json` maps each
definition to its lines, each run to what it checks, each property to a mutant of the
model that breaks it, and each hazard of the code to the properties that watch it.

## The system

| Part | State it keeps | Operations | Interacts with |
|---|---|---|---|
| replay engine (`replay/engine.py`, `wait.py`, `classify.py`) | outputs, traces, interventions, the step in progress | start, attempt a step, dismiss a notice, wait, conclude, fail, resume | session, surface, handoff, evidence |
| session, policy, token (`session.py`, `policy/`, `token.py`) | last location, approvals, who holds control | observe, act (the chokepoint), capture, approve | engine, discovery, surface |
| handoff (`replay/handoff.py`) | none of its own | snapshot, request, snapshot, resume index | engine, escalator |
| console (`console/server.py`) and client (`escalation/escalator.py`) | pending requests, an event each, under one lock | submit, await, list, resolve | engine by HTTP, operators by browser |
| resolver (`surface/resolver.py`), derivation (`discovery/derive.py`) | none | descriptor to node, node to descriptor | replay, discovery |
| discovery (`loop.py`, `execute.py`) | history, outputs, dead ends, the transcript | observe, ask, refuse a repeat, act, await, finish | model, surface, session, transcript |
| compiler (`compiler/`) | none | steps, ids, outcomes, prefix rule, discrimination | transcripts in, capability out |
| transcript model (`discovery/transcript_model.py`) | the recorded turns, a cursor | next turn, bind it again | discovery, resolver |
| tenant overlay (`replay/overlay.py`) | none | rewrite the strings of an artifact | resolver, replay |
| Playwright adapter (`surface/playwright_web.py`) | pending navigations, handles, observation number | observe, act, capture | browser |
| demo application (`app/`) | members, armed faults | pages, fault control | the browser, a test harness |
| redaction, masks, diff, schema, CLI, prompt, provider | (almost) none | pure or I/O | everything |

What is hard in it: the page changes under whoever drives it (loads, notices, expiring
sessions, a human who had control); an action is only known to have worked by a
postcondition that must hold before a deadline; a run goes back and forth between an
engine and operators over HTTP threads; node ids and observations go stale; what the browser
did is heard of later, in pieces; and an artifact compiled from one run must mean the same on
another day, with other inputs and for another tenant.

## Modules

**`Replay`** is one `replay()` call. `pc` says where the engine is; there is one action per
surface call or decision: `CheckParams`; `AttemptObserves`, `AttemptNotReady`;
`ActionHasNoValue`, `ActionRefused`, `ActionDispatched`; `PollHolds`, `PollHasNoValue`,
`PollBlocked`, `PollNotYet`, `PollNotReady` and the clock's `DeadlinePasses`; `GiveUp`, `Dismiss`,
`DismissRefused`; `CaptureStep`, `BusinessOutcome`, `NextStep`; `FinalObserves`,
`FinalNotReady`; `RecordFailure`, `ReturnFailure`, `HandToHuman`, `OperatorAnswers`,
`EscalatorFails`, `SnapshotAfter`; `Abort`, `Approve`, `Retry`, `AnswerRejected`. The
surface answers each observation with *any* page of `Pages`: a page is its location, the
predicates that hold on it and the targets that resolve on it. A postcondition may ask for an
input (`Asks`), and raises once its control is found if the run supplied none; a control that is
not there, or has another value, is one page to the model. The variables are the
engine's: `outputs`, `traces`, `interventions`, `session._approved` (`approved`), the token
(`holder`), the failure in hand, the evidence files, the result or the exception. An
output is known by the number of the pass that read it, which is how freshness can be
said at all. `tries`, `charged` and `proved` are ghosts.

**`ReplayContract`** is what a replay promises: steps proved one after the other, a human
asked only about escalating failures, a run that goes back and never forward, a success
with every step proved. `Replay` implements it with `phase`, `proved` and `cause`.

**`ReplayClaims`** states what the docs and tests say of a replay and the code does not
keep.

**`Escalation`** is any number of paused runs (`ConsoleClient.request`), operators with
pages that do not follow their item, and the console: a dictionary under a lock, one
thread per exchange, an event per item, nothing on disk. `Decide` stores the answer under
the lock and `Wake` sets the event outside it, as the code does; `Crash` drops every
exchange and item. Two runs may draw the same run id. **`HandoffContract`** is what it
promises: one decision per request, and a run is given that decision or none.

**`Discovery`** is one `discover()` call against a model that may answer any prompt with any
turn of a set. `Observe`, `Answer`, `RefuseRepeat`, `ActIsWrong`, `ActIsRisky`, `ActFails`,
`Dispatch`, `Await`, `AwaitExpires`, `Finish`, `GiveUp` are the code's branches, in its order;
`Record` is the whole end of a turn: the transcript entry, the dead ends, and how it
ends the run. Here the application is a transition relation (`App`) and may move by itself
(`Drift`) between any two steps of the loop. A node id carries the turn whose page it was
read on.

**`Compile`** composes the three stages: a success run and at most one business run are
recorded on an application that answers by `World` (the inputs of the run), compiled by
`compile`, an operator written from `compiler/`, and the artifact is replayed in any
world. Recording and replay keep the parts of `Discovery` and `Replay` that decide what an
artifact means: dead ends that moved the page, pages seen before and after a load,
detectors, binds. `steady` records whether any page turned into another by itself.

**`Resolver`** is a whole page of nodes, `describe` (which signals are recorded) and `resolve`
(how they find a node again, strictly or tolerantly), and pages that change after the
recording. A node's `order` starts anew in each frame, and frames titled alike share a path, so
two nodes may tie: `place`, the position in the observation, is what Python's stable `sorted`
keeps between them. Texts are compared as the code does: a name to the letter, a label
normalized (`alike`), and a nearby text as a normalized part of what is near (`inside`), where a
container's text is what is inside it, joined. What is part of what is the constant `Contains`.

**`Overlay`** extends it with tenants: `overlaid` is what `apply_overlay` does to a descriptor,
whole strings only; `renamed` is the page in the tenant's words, where a longer text reads otherwise
without an overlay entry of its own (`said`); `valid` is what the overlay's validator refuses, and
`holds` the predicates about a target. `KeptApart(o, d)` asks of a tenant and a descriptor that
each rewritten signal is found in the tenant's texts exactly where the recorded one was found in
the base's, by the resolver's own comparisons, and `Names(o, d)` only that overlay and tenant agree on what was
recorded. Nothing in the code checks either. The first depends on what was recorded: for tenant B of
`app/labels.py` a nearby "Search" is also part of "Member search" on the base page, while "Find" is
no part of "Member lookup", so a descriptor with that nearby text is not kept apart, and one that
rests on the label "Member ID" is.

**`TranscriptModel`** extends `Discovery` with a second run. When a run has ended with an
outcome, `Again` starts another one in which `next_turn` answers in place of the model: the
recorded turn at the cursor, bound to this run's nodes through the recorded descriptors
(`_rebind`); `Diverges` is `TranscriptDiverged` and `TranscriptExhausted`. `steady` records
whether the application did anything it had not done before.

**`Surface`** is the adapter between a caller, who may call anything with any node it was ever
given, and a browser with a page and an iframe that navigates whenever it likes. What the
browser does (`PageNavigates`, `Commit`, `Fails`, `EndsUnheard`, `Parses`) becomes `events`,
which the listeners hear one by one while a call waits (`Listen`). `observe` is `_settle`'s
loop (`SettleTests`, `SettleWakes`, `SettleExpires`), the frame tree (`TreeAsked`,
`WalkStarts`), one accessibility tree per frame (`ReadFrame`, `WalkBreaks`) and the new
handles (`WalkEnds`); a click and a capture locate each node (`Locate`) and then act
(`Lands`, `Shoots`). CDP does not answer while a navigation is outstanding. A node keeps the
observation and the document it was read in, which is how staleness can be said.

**`FaultRegister`** is the register of `app/faults.py` with the requests, a thread each, that
pass through `inject_faults`: `Hold`, `Wait`, `FaceExpiry`, `FaceNotice`; and the harness that
arms, clears, and clears all, one kind after the other. **`SurfaceUnderFaults`** composes it
with `Surface`: each navigation is a request, and a document comes when it is answered.

`MC*` modules give the constants of the runs. A definition named for a mistake
(`NoCeiling`, `pick_first`, `TooLateIfGone`) stands before the one it would be a mistake for:
only the mutants of `PROJECT.json` use it.

## Runs

| Run | Instance | What it shows |
|---|---|---|
| `replay` | 3 steps (navigate, read, risky), 2 business outcomes, 2 interstitials (one dismissable), 6 pages, 7 ways to start, up to 3 handoffs | safety of a run, the contract, termination |
| `escalation` | 2 runs with one run id, 2 operators, 2 answers, 2 handoffs, 1 crash | no answer lost, overwritten or announced early; the contract; an answered run goes on |
| `discovery` | 4 pages, 11 turns the model may say, 4 turns of budget, stuck after 2; a run and its re-run from the transcript | what reaches the surface, the transcript and the result agree, a re-run reproduces the run, termination |
| `compile` | 3 worlds, 4 pages, 3 acts, success runs of 5 turns, business runs of 3 | an undisturbed artifact replays as recorded; step ids |
| `resolver` | 6 controls, every choice of name, label and container of 3 of them, or 3 buttons in two frames of one title; one change; 3 tenants; texts that are part of others | a recorded target is found again, for a tenant too; never one of several, nor another one for a tenant whose words collide |
| `surface` | 2 frames, 3 navigations, 2 observations, any calls in between | what an observation waited for; what a click or a screenshot is of |
| `surface_faults` | 2 frames, 3 navigations, armings and observations together, 3 armings to choose from | a once-armed fault answers one request; the surface is ready again |

The bounds, and why they are enough: in `replay` two dismissals and a third notice reach
the ceiling, and three handoffs are enough for an approval, a retry and an abort in any
order that makes sense; the number of handoffs (`MaxInterventions`) is the one bound the
code does not have, and the operator only aborts at it. Evidence is written in the runs
without an operator, where it multiplies fewer states; the handoff takes the same
snapshots in both cases. In `escalation` two runs that collide, two
operators on one item and one crash show every race of the dictionary; `MaxHandoffs` and
`MaxCrashes` are bounds. In `discovery` `MAX_TURNS` and `MAX_REPEATS` are the code's own
limits (20 and 3) made small, with the budget two above the repeats so that a run can be
stuck, and can say the same turn again later. In `compile` five turns hold a dead end, two
acts, a read and a finish, or four acts that compete for names and a finish. In `resolver` `NEARBY_WINDOW` (15) is 2 on a page of five nodes, so
that a node can be out of the window, some pages hold a second frame of the same title whose
orders tie with the first's, and one change is one renamed, relabelled, moved or
removed control. A heading may say a text that holds another's, and a label may differ by
a colon only. The tenants are one with words of its own, for that longer text too; one that swaps two words; and one
that renames onto words it keeps, one of them a part of a longer text, where many descriptors are not
`KeptApart` and `OverlayNeverMisleads` says what is left. In `surface`
three navigations are one pending, one that overtakes it and one in the other frame
(`MaxNavigations`), and with two observations (`MaxObservations`) there are stale nodes;
`KeepKnew` keeps the ghost that `SettledMeansAnswered` reads, which nothing in `surface_faults`
does. There, `MaxArms` and `MaxTrouble` bound what the harness arms and the page navigates, and
leave room for an observation after the last of it. Only a run that nothing disturbed is
re-run in `discovery`, since nothing is said of the others.

The deadlock check is off in `escalation`, where a run whose handoffs are used up or whose
connection broke has nothing more to do and nobody need answer, and in `surface_faults`, where
a page that has navigated as often as the bound lets it, before a caller with no observation
left, is at rest.

Fairness. `replay`: the engine's thread runs, the clock moves, and whoever holds a request
answers it or the connection breaks. Without the last, a handoff may wait for good, and
the code means it to: there is no timeout on the held GET. `escalation`: threads of a live
console are scheduled and the network delivers; no operator need answer, and the console
need not stay up. `discovery`: the one thread runs, and the provider, or the transcript,
answers or fails. `surface_faults`: the caller observes again and again, as replay's wait
does (strongly fair, since an observation may fail and be tried again), what was told is
heard as long as somebody waits, a wait times out, and browser and server run; the harness
owes nothing, and `ReadyInTheEnd` is about the executions in which the timeout is cleared
for good and no navigation ends without an event the adapter listens to. Nothing asks a page
to settle. `compile`, `resolver` and `surface` state no liveness.

### Where docs and code differ

Each of these runs checks one sentence of the repository against the model and finds
it broken; the finding in `PROJECT.json` quotes it.

* `claim_ApprovalIsForOneExecution`: an approval outlives the execution it was given for.
* `claim_FailuresComeBackClassified`: an exception while recording a failure, or an
  optional input that was not supplied, leaves `replay()` unclassified.
* `claim_MistakesAreDeadEnds`: a node id of an earlier page in an expectation raises
  out of `discover()`.
* `claim_PrefixWalksTheBusinessPage`: a dead end that moved the page is not part of the
  prefix that is compared.
* `claim_CDPIsLeftAlone`: a click or a capture made while a navigation is pending goes to CDP
  without looking at the pending navigations; only an observation settles first.

More disagreements and gaps, which no run is about; the hazards of `PROJECT.json` tell where:

* a surface not ready before the action ends the run without its deadline (`engine.py:222`),
  and the recoveries of a step that fails are lost (`engine.py:213`);
* a dropped connection is no `EscalationError` (`escalator.py:46`);
* node ids are new on every observation, so an identical act on an unchanged page is not seen
  to repeat (`execute.py:220`, against `docs/decisions.md:427`);
* the pages on which outcomes are told apart are later than those replay looks at
  (`outcomes.py:105`);
* a renamed target whose old name another control carries is discarded, and the other control
  may be acted on (`resolver.py:117`, against `docs/decisions.md:135`);
* a transcript whose finish expects a value of a node raises `KeyError` in a re-run
  (`transcript_model.py:65`): the node is not bound again;
* an overlay may rename a string onto one the tenant keeps, or onto a part of one
  (`schema/overlay.py:34`): a control is then ambiguous, or, where an ordinal counts the
  controls, may be another one.

## Proofs

`tlapm` checks eight modules, for every value of the constants that satisfies the named
assumptions of the module they extend (what is in a capability and a profile; that
place holders such as `NoPage` are not pages; that an observation is finite and its nodes have
each a place of their own in it; that the variants
`unique` tries, a name with a number after it, differ from the name and from each other).

* `ReplayProofs`: `TypeCorrect`, `TokenIsNeverContested`, `RiskyNeedsApproval`, and
  `ReplayKeepsContract`, the refinement of `ReplayContract`. The token's invariant is not
  inductive alone: it needs `holder = "human"` exactly at `pc = "human"`, which every way out
  of a handoff restores. The risky property needs that each approved step has an
  intervention that approved it. The refinement needs how many steps are proved at each
  `pc`, and that a failure in hand belongs to the step in progress.
* `ReplayResultProofs`: the properties of what a replay returns. `CeilingHolds`: a step has acted
  at most once per dismissal and once more (`CeilingInv`). `OutcomeOnProvedPage`: from the poll
  that proves a step to the outcome nothing observes again (`OutcomeInv`). `FailedRunReports`: an
  answer is in hand only between its arrival and the resumption (`FailedInv`). `SuccessWalks`
  and `OutputsAreFresh` share `WalkInv`: the end of the trace is the steps from where the run
  last resumed to the last one proved, each step before was completed by an earlier pass,
  and what the steps of this pass read carries the number of this pass.
* `EscalationProofs`: `TypeCorrect`, `AssertionHolds` (the `assert` in `await_resolution`),
  `NoWakeupIsLost`, `AnswerStands`, and `EscalationKeepsHandoff`, the refinement of
  `HandoffContract`, for any number of runs, operators, crashes and colliding ids. The
  inductive invariant ties the operator who is between `Decide` and `Wake` to the item it
  answered: an item with an answer and no event has such an operator.
* `DiscoveryProofs`: seven theorems about a first run and its re-run, for any contract,
  application, model and budget. A step of either run is one of five kinds (quiet, a repeat
  refused, a dispatch, a turn judged, a turn proved), and the model's answer is any turn of
  `Emitted`, so what the transcript says is one more answer. `LoopInv` joins the types, what reached
  the surface (`ReachedInv`), what was read (`ReadInv`) and that a run which goes on has survived
  each turn (`FailureInv`). Beside it, `BothInv` says that the ids of a first run are of its own
  observations and that a re-run answers with such entries; `Again` establishes both afresh.
* `ReRunProofs`: `TranscriptReproduces`, about two runs of any length. The invariant of a first run
  that nothing disturbed (`FirstInv`) says of each entry how it had to end (`Made`): whether it was a
  repeat, whether it passed the checks, what had been read, and what its expectation was on the page of
  the next entry, so the entry's `ok` follows from the transcript alone. `RecordedInv` carries this
  over to the transcript that answers, in which moreover no turn fails once more after `MAX_REPEATS`
  times running, and only the last is a finish that held. `ReRunBody` then ties the re-run to its place in it. A turn is not always said as it was: an id
  that cannot be bound is shifted out of every page (`Said`), so a turn repeated with a stale id may be a repeat
  in one run and a wrong node in the other (`SaidRepeats`). Either way it is a dead end, and different turns
  are never taken for repeats (`SaidApart`), so the refusals do not add up to a stuck run.
* `SurfaceProofs`: `TypeCorrect`, `SettledIsAnswered`, `DrivenWhereSeen`, for any number of
  navigations and observations. What a listener may still be told is true by then (`Fact`): the
  request was sent, and what is reported to have failed is over. `KnewInv`: what the call knew to be
  outstanding stays pending until it is over or a commit of its frame is heard, so `_settle` lets
  pass only when it is over. `NodeInv`: handles are of the latest observation there was, the walk in
  progress is of a newer one, and a call that acts is about handles.
  In front of the application: `AdapterIsTheSame` (the composition implements `Surface`, so the
  theorems above hold in front of the application), `BothTypesCorrect` and `SpentOnce`. A request
  that is about to wait finds the timeout armed or its Event set (`HoldingInv`), and a fault that
  is still armed once has answered nothing (`SpentInv`).
* `ResolverProofs`: `TypeCorrect`, `ProvedTarget`, `NeverSettled`, `ToleranceKeeps`,
  for any page, signals, relation of texts and number of changes. The argument is one lemma,
  `TolerantIsStrict`: while some node has every recorded signal, no tier is skipped, so both
  readings are left with the same nodes. And about overlays, `TenantAlwaysFindsTheSame`: where the
  rewritten signals are found as the recorded ones were (`KeptApart`), each signal holds of a
  renamed node as it held of the node; every tier keeps the same candidates, and since the nodes of an observation have each a place of their own (`InPlace`, part
  of `IInv`), no two have as many before them (`BeforeIsItsOwn`), so the same one is picked by ordinal.
  `NeverMisled` is about all tenants that name what was recorded (`Names`): the recorded node keeps every rewritten signal
  (`TargetKeepsItsSignals`), so no tier leaves it out, and without an ordinal the answer is that
  node or that there are several.
* `CompileProofs`: `TypeCorrect`, `IdsAreUnique`, `SuccessReplays` and `BusinessReplays`, for any
  application, contract and number of turns. The compiler's two recursive functions (`kept_acts`,
  `step_ids`) are shown to exist and to be what one more turn makes of them, by a least
  counterexample (`Least`) in place of an induction rule. `unique` finds a free variant because it looks at one more
  than there are names in use (the pigeonhole of `UniqueIsNew`). `RecordInv`: only the last turn
  of a run is a finish that held, and only the last run goes on. `PathInv` holds while something is
  recorded: if no dead end moved the page, the pages before the kept acts are a path the application
  answers from `Start` to where the run is, each expectation holding where its act led, and those pages are
  `settled_pages`. So a replay in the same world is, after `at` steps, where the run was after
  `at` kept acts (`SuccessInv`, `BusinessInv`): no target is missing and nothing times out. A success replay
  meets no business detector because compilation has compared them with just those pages; a
  business replay cannot go past its last kept act, because the page there is the one the detector was
  declared on.

Only model-checked: liveness (`RunEnds` of both runs, `AnswerReleasesRun`, `ReadyInTheEnd`), since
fairness is out of the prover's reach.

## Not modelled

Texts: names, values, patterns, redaction, masks of rendered text and rendering are data here, or
absent; a predicate about text is the set of pages it holds on. Of the adapter, the walk within
one accessibility tree (`ax.py`) is absent, and an error of the driver itself is a call that
returns. Of the overlay, substrings in `text_present` and the report of unused entries are
absent. The check that a profile and a capability are of one application, malformed transcript files
and file system errors are absent, and the demo application's pages are constants. Compilation
from several business runs is modelled with one, so the comparison of two of them with each
other is not. `PROJECT.json` gives the reason for each part.
