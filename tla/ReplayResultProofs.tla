-------------------------- MODULE ReplayResultProofs -------------------------
(***************************************************************************)
(* Proofs about what a replay returns: which page a business outcome was   *)
(* read off, which failure a failed run reports, what a success walked,    *)
(* and how often a step may act on the way.                                *)
(***************************************************************************)
EXTENDS ReplayProofs

(***************************************************************************)
(* The ceiling on re-runs                                                  *)
(***************************************************************************)
\* A run of a step has acted once per dismissal, and once more past its action: a notice
\* that came before the action leaves the count behind the dismissals.
CeilingInv ==
  /\ tries <= recoveries + 1
  /\ pc \in {"start", "observe", "act"} => tries <= recoveries

LEMMA CeilingNext == TypeInv /\ CeilingInv /\ [Next]_vars => CeilingInv'
<1> SUFFICES ASSUME TypeInv, CeilingInv, [Next]_vars PROVE CeilingInv'
  OBVIOUS
<1> USE DEF TypeInv, TypeOK, CeilingInv, engine, MAX_DISMISSALS
<1>1. CASE CheckParams \/ ActionHasNoValue \/ ActionRefused \/ DeadlinePasses
  BY <1>1 DEF CheckParams, ActionHasNoValue, ActionRefused, DeadlinePasses, Goto, Raise, FailAs, Fail
<1>2. CASE AttemptNotReady \/ FinalNotReady \/ PollNotReady
  BY <1>2 DEF AttemptNotReady, FinalNotReady, PollNotReady, Expire, Goto, FailAs, Fail
<1>3. CASE \E page \in Pages : AttemptObserves(page) \/ FinalObserves(page)
  BY <1>3 DEF AttemptObserves, FinalObserves, Goto, FailAs, Fail, Conclude, Finish
<1>4. CASE ActionDispatched
  BY <1>4 DEF ActionDispatched, Goto, FailAs, Fail
<1>5. CASE \E page \in Pages : PollHolds(page) \/ PollHasNoValue(page) \/ PollBlocked(page) \/ PollNotYet(page)
  BY <1>5 DEF PollHolds, PollHasNoValue, PollBlocked, PollNotYet, Expire, Goto, Raise, FailAs, Fail
<1>6. CASE GiveUp \/ DismissRefused
  BY <1>6 DEF GiveUp, DismissRefused, Fail, FailAs, Raise
<1>7. CASE Dismiss
  BY <1>7 DEF Dismiss, NotDismissable
<1>8. CASE CaptureStep \/ BusinessOutcome \/ NextStep
  BY <1>8 DEF CaptureStep, BusinessOutcome, NextStep, Conclude, Finish, Goto, FailAs, Fail
<1>9. CASE RecordFailure \/ ReturnFailure \/ HandToHuman \/ SnapshotAfter
  BY <1>9 DEF RecordFailure, ReturnFailure, HandToHuman, SnapshotAfter, SnapshotStale, Goto, Raise, Finish
<1>10. CASE OperatorStep \/ AnswerRejected \/ Abort
  BY <1>10 DEF OperatorStep, EscalatorFails, OperatorAnswers, AnswerRejected, Abort, Goto, Raise, Finish
<1>11. CASE Approve \/ Retry
  BY <1>11 DEF Approve, Retry, ResumeFrom
<1>12. CASE Over \/ UNCHANGED vars
  BY <1>12 DEF Over, vars
<1> QED BY <1>1, <1>2, <1>3, <1>4, <1>5, <1>6, <1>7, <1>8, <1>9, <1>10, <1>11, <1>12
           DEF Next, EngineStep

\* Notices that keep coming re-run a step, its action included, at most MAX_DISMISSALS
\* times, whatever the surface shows and when.
THEOREM CeilingHolds == Spec => []ReRunsHaveACeiling
<1>1. Init => CeilingInv
  BY DEF Init, CeilingInv
<1>2. TypeInv /\ CeilingInv => ReRunsHaveACeiling
  BY DEF TypeInv, TypeOK, CeilingInv, ReRunsHaveACeiling, MAX_DISMISSALS
<1> QED BY TypeInit, TypeNext, CeilingNext, <1>1, <1>2, PTL DEF Spec

(***************************************************************************)
(* The page of a business outcome                                          *)
(***************************************************************************)
\* A step past its postcondition still has in hand the page it was seen to hold on, and
\* there is a result only when the run is over.
ProvedOn ==
  /\ proved = index /\ traces # <<>> /\ traces[Len(traces)] = index
  /\ holds(Steps[index].post, observation) /\ ~blocked(observation)
OutcomeInv ==
  /\ pc # "finished" => result = NoResult
  /\ pc = "await" => tries > 0
  /\ pc \in {"record", "outcomes"} => tries > 0 /\ ProvedOn
  /\ OutcomeSeenOnProvedPage

LEMMA OutcomeNext == TypeInv /\ OutcomeInv /\ [Next]_vars => OutcomeInv'
<1> SUFFICES ASSUME TypeInv, OutcomeInv, [Next]_vars PROVE OutcomeInv'
  OBVIOUS
<1> USE DEF TypeInv, TypeOK, OutcomeInv, engine, human, record
<1>0. ASSUME result' = NoResult, pc' \notin {"await", "record", "outcomes", "finished"} PROVE OutcomeInv'
  BY <1>0 DEF OutcomeSeenOnProvedPage
<1>1. CASE CheckParams \/ ActionHasNoValue \/ ActionRefused
  BY <1>0, <1>1 DEF CheckParams, ActionHasNoValue, ActionRefused, Goto, Raise, FailAs, Fail
<1>2. CASE AttemptNotReady \/ FinalNotReady
  BY <1>0, <1>2 DEF AttemptNotReady, FinalNotReady, FailAs, Fail
<1>3. CASE \E page \in Pages : AttemptObserves(page)
  BY <1>0, <1>3 DEF AttemptObserves, Goto, FailAs, Fail
<1>4. CASE ActionDispatched
  BY <1>0, <1>4 DEF ActionDispatched, Goto, FailAs, Fail, OutcomeSeenOnProvedPage
<1>5. CASE DeadlinePasses
  BY <1>5 DEF DeadlinePasses, OutcomeSeenOnProvedPage
<1>6. CASE \E page \in Pages : PollHasNoValue(page) \/ PollBlocked(page) \/ PollNotYet(page)
  BY <1>0, <1>6 DEF PollHasNoValue, Raise, PollBlocked, PollNotYet, Expire, Goto, FailAs, Fail, OutcomeSeenOnProvedPage
<1>7. CASE PollNotReady
  BY <1>0, <1>7 DEF PollNotReady, Expire, Goto, FailAs, Fail, OutcomeSeenOnProvedPage
<1>8. CASE \E page \in Pages : PollHolds(page)
  <2>1. traces' # <<>> /\ traces'[Len(traces')] = index'
    <3>1. traces' = Append(traces, index) /\ index' = index /\ traces \in Seq(1 .. N) /\ index \in 1 .. N
      BY <1>8 DEF PollHolds
    <3>2. Len(traces') = Len(traces) + 1 /\ Len(traces) \in Nat /\ traces'[Len(traces) + 1] = index
      BY <3>1, AppendProperties, LenProperties
    <3>3. traces' # <<>>
      BY <3>2
    <3> QED BY <3>1, <3>2, <3>3
  <2> QED BY <1>8, <2>1 DEF PollHolds, Goto, ProvedOn, OutcomeSeenOnProvedPage
<1>9. CASE GiveUp \/ DismissRefused \/ Dismiss
  BY <1>0, <1>9 DEF GiveUp, DismissRefused, Dismiss, Goto, Fail, FailAs, Raise
<1>10. CASE CaptureStep
  BY <1>0, <1>10 DEF CaptureStep, Goto, FailAs, Fail, ProvedOn, OutcomeSeenOnProvedPage
<1>11. CASE BusinessOutcome
  <2> DEFINE first == First(Firing(Business, observation))
  <2>1. first \in DOMAIN Business /\ holds(Business[first].detector, observation)
    <3>1. DOMAIN Business \subseteq Nat
      BY CapabilityAssumption, LenProperties
    <3> QED BY <1>11, <3>1, FirstIsMember DEF BusinessOutcome, Firing
  <2>2. CASE Finish("business_outcome", Business[first].name,
                    [name \in Business[first].binds |-> outputs[name]])
    <3>1. tries' > 0 /\ ProvedOn' /\ result'.outcome = Business[first].name
      BY <1>11, <2>2 DEF BusinessOutcome, Finish, ProvedOn
    <3> HIDE DEF first
    <3>2. observation' = observation /\ pc' = "finished"
      BY <1>11, <2>2 DEF BusinessOutcome, Finish
    <3> QED BY <2>1, <3>1, <3>2 DEF OutcomeSeenOnProvedPage, ProvedOn
  <2>3. CASE FailAs("CheckpointFailed")
    BY <1>0, <1>11, <2>3 DEF BusinessOutcome, FailAs, Fail
  <2> QED BY <1>11, <2>2, <2>3 DEF BusinessOutcome, Conclude
<1>12. CASE NextStep
  BY <1>0, <1>12 DEF NextStep, Goto
<1>13. CASE \E page \in Pages : FinalObserves(page)
  <2> PICK page \in Pages : FinalObserves(page)
    BY <1>13
  <2>1. CASE pc' = "failed" /\ UNCHANGED result
    BY <1>0, <2>1 DEF FinalObserves
  <2>2. CASE pc' = "finished" /\ result'.status = "success"
    BY <2>2 DEF OutcomeSeenOnProvedPage
  <2> QED BY <2>1, <2>2 DEF FinalObserves, Conclude, Finish, FailAs, Fail
<1>14. CASE RecordFailure \/ HandToHuman \/ SnapshotAfter
  BY <1>0, <1>14 DEF RecordFailure, HandToHuman, SnapshotAfter, SnapshotStale, Goto, Raise
<1>15. CASE ReturnFailure \/ Abort
  <2>1. pc' = "finished" /\ result'.status = "failed"
    BY <1>15 DEF ReturnFailure, Abort, Finish
  <2> QED BY <2>1 DEF OutcomeSeenOnProvedPage
<1>16. CASE OperatorStep \/ AnswerRejected
  BY <1>0, <1>16 DEF OperatorStep, EscalatorFails, OperatorAnswers, AnswerRejected, Goto, Raise
<1>17. CASE Approve \/ Retry
  BY <1>0, <1>17 DEF Approve, Retry, ResumeFrom
<1>18. CASE Over \/ UNCHANGED vars
  BY <1>18 DEF Over, vars, OutcomeSeenOnProvedPage, ProvedOn
<1> QED BY <1>1, <1>2, <1>3, <1>4, <1>5, <1>6, <1>7, <1>8, <1>9, <1>10, <1>11, <1>12, <1>13,
           <1>14, <1>15, <1>16, <1>17, <1>18 DEF Next, EngineStep

\* A business outcome is read off the page that proved the step just run, whatever the
\* surface did between.
THEOREM OutcomeOnProvedPage == Spec => []OutcomeSeenOnProvedPage
<1>1. Init => OutcomeInv
  BY DEF Init, OutcomeInv, OutcomeSeenOnProvedPage
<1>2. OutcomeInv => OutcomeSeenOnProvedPage
  BY DEF OutcomeInv
<1> QED BY TypeInit, TypeNext, OutcomeNext, <1>1, <1>2, PTL DEF Spec

(***************************************************************************)
(* The failure a failed run reports                                        *)
(***************************************************************************)
\* An answer is in hand only between its arrival and the resumption, and every record of
\* one is of a failure a human can do something about.
FailedInv ==
  /\ pc \notin {"answered", "resume", "finished", "raised"} => resolution = NoResult
  /\ \A n \in DOMAIN interventions : interventions[n].kind \notin TERMINAL
  /\ FailedRunReportsWhatStoppedIt

LEMMA Intervened ==
  ASSUME TypeInv, ProgressInv, FailedInv, pc = "resume", Intervene
  PROVE  /\ interventions'[Len(interventions')] =
              [step |-> failure.step, kind |-> failure.kind, resolution |-> resolution]
         /\ \A n \in DOMAIN interventions' : interventions'[n].kind \notin TERMINAL
<1> DEFINE entry == [step |-> failure.step, kind |-> failure.kind, resolution |-> resolution]
<1>1. entry \in Intervention /\ interventions \in Seq(Intervention) /\ interventions' = Append(interventions, entry)
  BY DEF Intervene, TypeInv, TypeOK, Shape, Failing, Intervention, Failure
<1>2. entry.kind \notin TERMINAL
  BY DEF ProgressInv, ESCALATES, TERMINAL
<1> HIDE DEF entry
<1>3. /\ interventions' \in Seq(Intervention)
      /\ Len(interventions') = Len(interventions) + 1 /\ Len(interventions) \in Nat
      /\ interventions'[Len(interventions) + 1] = entry
      /\ \A n \in 1 .. Len(interventions) : interventions'[n] = interventions[n]
  BY <1>1, AppendProperties, LenProperties
<1>4. DOMAIN interventions' = 1 .. Len(interventions') /\ DOMAIN interventions = 1 .. Len(interventions)
  BY <1>1, <1>3, LenProperties
<1>5. \A n \in DOMAIN interventions' : interventions'[n].kind \notin TERMINAL
  BY <1>2, <1>3, <1>4 DEF FailedInv
<1> QED BY <1>3, <1>5 DEF entry

LEMMA FailedNext ==
  TypeInv /\ ProgressInv /\ OutcomeInv /\ FailedInv /\ [Next]_vars => FailedInv'
<1> SUFFICES ASSUME TypeInv, ProgressInv, OutcomeInv, FailedInv, [Next]_vars PROVE FailedInv'
  OBVIOUS
<1> USE DEF engine, human, record
<1>0. ASSUME UNCHANGED <<interventions, resolution>>, result' = NoResult,
             pc' \in {"answered", "resume", "finished", "raised"}
               \/ pc \notin {"answered", "resume", "finished", "raised"}
      PROVE  FailedInv'
  BY <1>0 DEF FailedInv, FailedRunReportsWhatStoppedIt
<1>00. pc # "finished" => result = NoResult
  BY DEF OutcomeInv
<1>1. CASE CheckParams \/ AttemptNotReady \/ ActionHasNoValue \/ ActionRefused \/ ActionDispatched
  BY <1>0, <1>00, <1>1 DEF CheckParams, AttemptNotReady, ActionHasNoValue, ActionRefused,
     ActionDispatched, Goto, Raise, FailAs, Fail
<1>2. CASE DeadlinePasses \/ PollNotReady \/ FinalNotReady \/ NextStep \/ CaptureStep
  BY <1>0, <1>00, <1>2 DEF DeadlinePasses, PollNotReady, FinalNotReady, NextStep, CaptureStep,
     Expire, Goto, FailAs, Fail
<1>3. CASE \E page \in Pages : AttemptObserves(page) \/ PollHolds(page) \/ PollHasNoValue(page) \/ PollBlocked(page) \/ PollNotYet(page)
  BY <1>0, <1>00, <1>3 DEF AttemptObserves, PollHolds, PollHasNoValue, PollBlocked, PollNotYet, Expire, Goto, Raise, FailAs, Fail
<1>4. CASE GiveUp \/ DismissRefused \/ Dismiss
  BY <1>0, <1>00, <1>4 DEF GiveUp, DismissRefused, Dismiss, Goto, Fail, FailAs, Raise
<1>5. CASE RecordFailure \/ HandToHuman \/ SnapshotAfter \/ AnswerRejected
  BY <1>0, <1>00, <1>5 DEF RecordFailure, HandToHuman, SnapshotAfter, AnswerRejected, SnapshotStale, Goto, Raise
<1>6. CASE OperatorStep
  <2>1. UNCHANGED interventions /\ result' = NoResult /\ pc' \in {"answered", "raised"}
    BY <1>00, <1>6 DEF OperatorStep, EscalatorFails, OperatorAnswers, Goto, Raise
  <2> QED BY <2>1 DEF FailedInv, FailedRunReportsWhatStoppedIt
<1>7. CASE BusinessOutcome \/ \E page \in Pages : FinalObserves(page)
  <2>1. /\ UNCHANGED <<interventions, resolution>> /\ pc \notin {"answered", "resume", "finished", "raised"}
        /\ result' # NoResult => result' = NoResult \/ result'.status \in {"business_outcome", "success"}
    BY <1>00, <1>7 DEF BusinessOutcome, FinalObserves, Conclude, Finish, FailAs, Fail
  <2> QED BY <2>1 DEF FailedInv, FailedRunReportsWhatStoppedIt
<1>8. CASE ReturnFailure
  <2>1. failure' # NoFailure /\ failure'.step = index'
    BY <1>8, EnvironmentAssumption DEF ReturnFailure, Finish, TypeInv, Shape, Failing
  <2>2. resolution' = NoResult /\ UNCHANGED <<interventions, resolution>> /\ pc' = "finished"
    BY <1>8 DEF ReturnFailure, Finish, FailedInv
  <2>3. ~(run'.escalator /\ failure'.kind \in ESCALATES)
    BY <1>8 DEF ReturnFailure, Finish, escalates
  <2> QED BY <2>1, <2>2, <2>3 DEF FailedInv, FailedRunReportsWhatStoppedIt
<1>9. CASE Abort
  <2>1. failure' # NoFailure /\ failure'.step = index'
    BY <1>9, EnvironmentAssumption DEF Abort, Finish, TypeInv, Shape, Failing
  <2>2. resolution' = resolution /\ failure' = failure /\ pc' = "finished" /\ resolution # NoResult
        /\ resolution.kind = "abort"
    BY <1>9, EnvironmentAssumption DEF Abort, Finish, TypeInv, Shape
  <2> QED BY <1>9, <2>1, <2>2, Intervened DEF Abort, FailedInv, FailedRunReportsWhatStoppedIt
<1>10. CASE Approve \/ Retry
  <2>1. resolution' = NoResult /\ result' = NoResult /\ pc = "resume" /\ Intervene
    BY <1>00, <1>10 DEF Approve, Retry, ResumeFrom
  <2> QED BY <2>1, Intervened DEF FailedInv, FailedRunReportsWhatStoppedIt
<1>11. CASE Over \/ UNCHANGED vars
  BY <1>11 DEF Over, vars, FailedInv, FailedRunReportsWhatStoppedIt
<1> QED BY <1>1, <1>2, <1>3, <1>4, <1>5, <1>6, <1>7, <1>8, <1>9, <1>10, <1>11 DEF Next, EngineStep

\* A failed run names the failure that stopped it, through any number of handoffs: the one
\* the operator aborted, or one nobody could be asked about.
THEOREM FailedRunReports == Spec => []FailedRunReportsWhatStoppedIt
<1>1. Init => ProgressInv /\ OutcomeInv /\ FailedInv
  BY DEF Init, ProgressInv, Working, Failing, OutcomeInv, OutcomeSeenOnProvedPage, FailedInv,
         FailedRunReportsWhatStoppedIt
<1>2. FailedInv => FailedRunReportsWhatStoppedIt
  BY DEF FailedInv
<1> QED BY TypeInit, TypeNext, ProgressNext, OutcomeNext, FailedNext, <1>1, <1>2, PTL DEF Spec

(***************************************************************************)
(* What a success walked, and what it returns                              *)
(***************************************************************************)
\* The traces end with the steps proved since the run last resumed, in order, and every
\* step proved has one.
Passed == proved + 1 - ResumedAt
Walk ==
  /\ ResumedAt \in 1 .. proved + 1 /\ Len(traces) >= Passed
  /\ \A k \in 1 .. Passed : traces[Len(traces) - Passed + k] = ResumedAt + k - 1
  /\ \A i \in 1 .. proved : \E n \in DOMAIN traces : traces[n] = i

Reads(i, name) == Steps[i].kind = "read" /\ Steps[i].bind_to = name

\* A text read since the run last resumed is of this pass, and of no later one.
Fresh ==
  /\ \A name \in Outputs : /\ outputs[name] <= Len(interventions) + 1
                           /\ outputs[name] # 0 => \E i \in 1 .. N : Reads(i, name)
  /\ \A i \in 1 .. N, name \in Outputs :
       /\ Reads(i, name)
       /\ i \in ResumedAt .. proved \/ (pc = "await" /\ i = index)
       => outputs[name] = Len(interventions) + 1

WalkInv ==
  /\ pc # "finished" => Walk /\ Fresh
  /\ SuccessWalksEveryStep /\ ReturnedOutputsAreFresh

\* A resumption begins a pass with no trace yet, at a step reached before.
LEMMA ResumptionWalks ==
  ASSUME TypeInv, ProgressInv, pc = "resume", Walk, Fresh, Intervene, TypeInv',
         NEW i \in 1 .. failure.step, ResumeFrom(i), UNCHANGED <<traces, outputs>>,
         i = IF resolution.kind = "retry" THEN resolution.resume_from ELSE failure.step
  PROVE  Walk' /\ Fresh'
<1> DEFINE entry == [step |-> failure.step, kind |-> failure.kind, resolution |-> resolution]
<1>1. entry \in Intervention /\ interventions \in Seq(Intervention) /\ interventions' = Append(interventions, entry)
  BY DEF Intervene, TypeInv, TypeOK, Shape, Failing, Intervention, Failure
<1>2. /\ Len(interventions') = Len(interventions) + 1 /\ Len(interventions) \in Nat
      /\ interventions'[Len(interventions')] = entry /\ interventions' # <<>>
  <2> HIDE DEF entry
  <2>1. Len(interventions') = Len(interventions) + 1 /\ Len(interventions) \in Nat
        /\ interventions'[Len(interventions) + 1] = entry
    BY <1>1, AppendProperties, LenProperties
  <2>2. interventions' # <<>>
    BY <2>1
  <2> QED BY <2>1, <2>2
<1>3. ResumedAt' = i
  BY <1>2 DEF ResumedAt
<1>4. proved' = i - 1 /\ index' = i /\ pc' = "observe" /\ i \in 1 .. N /\ proved \in Nat /\ i - 1 <= proved
  BY Constants DEF ResumeFrom, TypeInv, TypeOK, Shape, Failing, ProgressInv
<1>5. Walk'
  <2>1. Passed' = 0
    BY <1>3, <1>4 DEF Passed
  <2>2. Len(traces) \in Nat
    BY LenProperties DEF TypeInv, TypeOK
  <2> QED BY <1>3, <1>4, <2>1, <2>2 DEF Walk
<1>6. Fresh'
  <2>1. ResumedAt' .. proved' = {}
    BY <1>3, <1>4
  <2> QED BY <1>2, <1>4, <2>1 DEF Fresh, Reads, TypeInv, TypeOK
<1> QED BY <1>5, <1>6

LEMMA WalkNext ==
  TypeInv /\ ProgressInv /\ OutcomeInv /\ WalkInv /\ [Next]_vars => WalkInv'
<1> SUFFICES ASSUME TypeInv, ProgressInv, OutcomeInv, WalkInv, [Next]_vars PROVE WalkInv'
  OBVIOUS
<1> USE DEF engine, human, record
<1>t. TypeInv'
  BY TypeNext
<1>r. pc # "finished" => result = NoResult
  BY DEF OutcomeInv
<1>0. ASSUME UNCHANGED <<interventions, traces, proved, outputs>>, pc # "finished",
             pc' = "await" => pc = "await" /\ index' = index, result' = NoResult
      PROVE  WalkInv'
  <2>1. Walk' /\ Fresh'
    <3>1. ResumedAt' = ResumedAt /\ Passed' = Passed
      BY <1>0 DEF ResumedAt, Passed
    <3>2. Walk'
      BY <1>0, <3>1 DEF WalkInv, Walk
    <3>3. Fresh'
      BY <1>0, <3>1 DEF WalkInv, Fresh, Reads
    <3> QED BY <3>2, <3>3
  <2> QED BY <1>0, <2>1 DEF WalkInv, SuccessWalksEveryStep, ReturnedOutputsAreFresh
<1>1. CASE CheckParams \/ AttemptNotReady \/ ActionHasNoValue \/ ActionRefused
  BY <1>0, <1>r, <1>1 DEF CheckParams, AttemptNotReady, ActionHasNoValue, ActionRefused, Goto, Raise, FailAs, Fail
<1>2. CASE DeadlinePasses \/ PollNotReady \/ FinalNotReady \/ NextStep \/ CaptureStep
  BY <1>0, <1>r, <1>2 DEF DeadlinePasses, PollNotReady, FinalNotReady, NextStep, CaptureStep,
     Expire, Goto, FailAs, Fail
<1>3. CASE \E page \in Pages : AttemptObserves(page) \/ PollHasNoValue(page) \/ PollBlocked(page) \/ PollNotYet(page)
  BY <1>0, <1>r, <1>3 DEF AttemptObserves, PollHasNoValue, Raise, PollBlocked, PollNotYet, Expire, Goto, FailAs, Fail
<1>4. CASE GiveUp \/ DismissRefused \/ Dismiss
  BY <1>0, <1>r, <1>4 DEF GiveUp, DismissRefused, Dismiss, Goto, Fail, FailAs, Raise
<1>5. CASE RecordFailure \/ HandToHuman \/ SnapshotAfter \/ AnswerRejected \/ OperatorStep
  BY <1>0, <1>r, <1>5 DEF RecordFailure, HandToHuman, SnapshotAfter, AnswerRejected, SnapshotStale,
     OperatorStep, EscalatorFails, OperatorAnswers, Goto, Raise
<1>6. CASE ActionDispatched
  <2>1. CASE \E exc : FailAs(exc) /\ UNCHANGED outputs
    BY <1>0, <1>r, <1>6, <2>1 DEF ActionDispatched, FailAs, Fail
  <2>2. CASE Goto("await") /\ outputs' = Bound
    <3>1. pc = "act" /\ pc' = "await" /\ result' = NoResult
          /\ UNCHANGED <<interventions, traces, proved, index>>
      BY <1>r, <1>6, <2>2 DEF ActionDispatched, Goto
    <3>2. Walk'
      BY <3>1 DEF WalkInv, Walk, Passed, ResumedAt
    <3>3. /\ Len(interventions) \in Nat /\ index \in 1 .. N /\ outputs \in [Outputs -> Nat]
          /\ Steps[index].kind = "read" => Steps[index].bind_to \in Outputs
      BY LenProperties, Constants DEF TypeInv, TypeOK
    <3>4. \A name \in Outputs :
            outputs'[name] = IF Reads(index, name) THEN Len(interventions) + 1 ELSE outputs[name]
      BY <2>2, <3>3 DEF Bound, Reads
    <3>5. Fresh'
      BY <3>1, <3>3, <3>4 DEF WalkInv, Fresh, ResumedAt, Reads
    <3> QED BY <3>1, <3>2, <3>5 DEF WalkInv, SuccessWalksEveryStep, ReturnedOutputsAreFresh
  <2> QED BY <1>6, <2>1, <2>2 DEF ActionDispatched
<1>7. CASE \E page \in Pages : PollHolds(page)
  <2>1. /\ pc = "await" /\ pc' \in {"record", "outcomes"} /\ result' = NoResult
        /\ proved' = index /\ traces' = Append(traces, index) /\ proved = index - 1
        /\ UNCHANGED <<interventions, outputs, index>>
    BY <1>r, <1>7 DEF PollHolds, Goto, ProgressInv, Working
  <2>2. index \in 1 .. N /\ N \in Nat /\ traces \in Seq(1 .. N) /\ Len(traces) \in Nat
    BY Constants, LenProperties DEF TypeInv, TypeOK
  <2>3. /\ traces' \in Seq(1 .. N) /\ Len(traces') = Len(traces) + 1 /\ traces'[Len(traces) + 1] = index
        /\ \A n \in 1 .. Len(traces) : traces'[n] = traces[n]
    BY <2>1, <2>2, AppendProperties
  <2>4. DOMAIN traces = 1 .. Len(traces) /\ DOMAIN traces' = 1 .. Len(traces')
    BY <2>2, <2>3, LenProperties
  <2>5. ResumedAt' = ResumedAt /\ ResumedAt \in 1 .. index /\ Passed' = Passed + 1 /\ Passed \in Nat
        /\ Passed = index - ResumedAt /\ Len(traces) >= Passed
    BY <2>1, <2>2 DEF WalkInv, Walk, Passed, ResumedAt
  <2>6. ASSUME NEW k \in 1 .. Passed + 1
        PROVE  traces'[Len(traces') - Passed' + k] = ResumedAt + k - 1
    <3>1. CASE k = Passed + 1
      BY <2>2, <2>3, <2>5, <3>1
    <3>2. CASE k \in 1 .. Passed
      <4>1. traces[Len(traces) - Passed + k] = ResumedAt + k - 1
        BY <2>1, <3>2 DEF WalkInv, Walk
      <4>2. Len(traces') - Passed' + k = Len(traces) - Passed + k
        BY <2>2, <2>3, <2>5
      <4>3. Len(traces) - Passed + k \in 1 .. Len(traces)
        BY <2>2, <2>5, <3>2
      <4> QED BY <2>3, <4>1, <4>2, <4>3
    <3> QED BY <2>5, <3>1, <3>2
  <2>7. ASSUME NEW i \in 1 .. index PROVE \E n \in DOMAIN traces' : traces'[n] = i
    <3>1. CASE i = index
      <4>1. Len(traces) + 1 \in DOMAIN traces'
        BY <2>2, <2>3, <2>4
      <4> QED BY <2>3, <3>1, <4>1
    <3>2. CASE i \in 1 .. proved
      <4>1. PICK n \in DOMAIN traces : traces[n] = i
        BY <2>1, <3>2 DEF WalkInv, Walk
      <4> QED BY <2>2, <2>3, <2>4, <4>1
    <3> QED BY <2>1, <2>2, <3>1, <3>2
  <2>8. Walk'
    <3>1. ResumedAt' \in 1 .. proved' + 1 /\ Len(traces') >= Passed'
      BY <2>1, <2>2, <2>3, <2>5
    <3>2. \A k \in 1 .. Passed' : traces'[Len(traces') - Passed' + k] = ResumedAt' + k - 1
      BY <2>5, <2>6
    <3> QED BY <2>1, <2>7, <3>1, <3>2 DEF Walk
  <2>9. Fresh'
    <3>1. \A i \in ResumedAt .. index : i \in ResumedAt .. proved \/ i = index
      BY <2>1, <2>2, <2>5
    <3> QED BY <2>1, <2>5, <3>1 DEF WalkInv, Fresh, Reads
  <2> QED BY <2>1, <2>8, <2>9 DEF WalkInv, SuccessWalksEveryStep, ReturnedOutputsAreFresh
<1>8. CASE \E page \in Pages : FinalObserves(page)
  <2> PICK page \in Pages : FinalObserves(page)
    BY <1>8
  <2>1. CASE pc' = "failed" /\ UNCHANGED result
    BY <1>0, <1>r, <2>1 DEF FinalObserves
  <2>2. CASE /\ \A name \in Success.binds : outputs[name] # 0
             /\ Finish("success", Success.name, [name \in Success.binds |-> outputs[name]])
    <3>1. /\ pc' = "finished" /\ result'.outputs = [name \in Success.binds |-> outputs[name]]
          /\ UNCHANGED <<interventions, traces, outputs>> /\ proved = N /\ N \in Nat
      BY <2>2, Constants DEF FinalObserves, Finish, ProgressInv
    <3>2. Walk /\ Fresh
      BY DEF FinalObserves, WalkInv
    <3>3. SuccessWalksEveryStep'
      BY <3>1, <3>2 DEF Walk, Passed, SuccessWalksEveryStep, ResumedAt
    <3>4. ASSUME NEW name \in Success.binds
          PROVE  LET readers == {i \in 1 .. N : Steps[i].kind = "read" /\ Steps[i].bind_to = name}
                 IN /\ readers # {} /\ outputs[name] \in 1 .. Len(interventions) + 1
                    /\ (\E i \in readers : i >= ResumedAt) => outputs[name] = Len(interventions) + 1
      <4>1. name \in Outputs /\ outputs[name] \in Nat /\ outputs[name] # 0 /\ Len(interventions) \in Nat
        BY <2>2, CapabilityAssumption, LenProperties DEF Outcome, TypeInv, TypeOK
      <4>2. \E i \in 1 .. N : Reads(i, name)
        BY <3>2, <4>1 DEF Fresh
      <4>3. ASSUME NEW i \in 1 .. N, Reads(i, name), i >= ResumedAt
            PROVE  outputs[name] = Len(interventions) + 1
        <5>1. i \in ResumedAt .. proved
          BY <3>1, <3>2, <4>3 DEF Walk
        <5> QED BY <3>2, <4>1, <4>3, <5>1 DEF Fresh
      <4>4. outputs[name] <= Len(interventions) + 1
        BY <3>2, <4>1 DEF Fresh
      <4> QED BY <4>1, <4>2, <4>3, <4>4 DEF Reads
    <3>5. ReturnedOutputsAreFresh'
      BY <3>1, <3>4 DEF ReturnedOutputsAreFresh, ResumedAt
    <3> QED BY <3>1, <3>3, <3>5 DEF WalkInv
  <2> QED BY <2>1, <2>2 DEF FinalObserves, Conclude, FailAs, Fail
<1>9. CASE BusinessOutcome \/ ReturnFailure \/ Abort
  <2>1. CASE BusinessOutcome /\ pc' = "failed" /\ UNCHANGED result
    BY <1>0, <1>r, <2>1 DEF BusinessOutcome
  <2>2. CASE pc' = "finished" /\ result'.status \in {"business_outcome", "failed"}
    BY <2>2 DEF WalkInv, SuccessWalksEveryStep, ReturnedOutputsAreFresh
  <2> QED BY <1>9, <2>1, <2>2 DEF BusinessOutcome, ReturnFailure, Abort, Conclude, Finish, FailAs, Fail
<1>10. CASE Approve \/ Retry
  <2>1. pc = "resume" /\ pc' = "observe" /\ result' = NoResult /\ Intervene /\ UNCHANGED <<traces, outputs>>
    BY <1>r, <1>10 DEF Approve, Retry, ResumeFrom
  <2>2. Walk /\ Fresh
    BY <2>1 DEF WalkInv
  <2>3. PICK i \in 1 .. failure.step :
          /\ ResumeFrom(i) /\ i = IF resolution.kind = "retry" THEN resolution.resume_from ELSE failure.step
    <3>1. failure.step \in 1 .. N
      BY <2>1 DEF TypeInv, Shape, Failing, Failure
    <3> QED BY <1>10, <3>1, Constants DEF Approve, Retry
  <2>4. Walk' /\ Fresh'
    BY <1>t, <2>1, <2>2, <2>3, ResumptionWalks
  <2> QED BY <2>1, <2>4 DEF WalkInv, SuccessWalksEveryStep, ReturnedOutputsAreFresh
<1>11. CASE Over \/ UNCHANGED vars
  BY <1>11 DEF Over, vars, WalkInv, Walk, Passed, ResumedAt, Fresh, Reads, SuccessWalksEveryStep,
     ReturnedOutputsAreFresh
<1> QED BY <1>1, <1>2, <1>3, <1>4, <1>5, <1>6, <1>7, <1>8, <1>9, <1>10, <1>11 DEF Next, EngineStep

LEMMA WalkInit == Init => WalkInv
<1> SUFFICES ASSUME Init PROVE WalkInv
  OBVIOUS
<1>1. ResumedAt = 1 /\ Passed = 0 /\ Len(traces) = 0 /\ Len(interventions) = 0 /\ proved = 0 /\ pc = "start"
  BY DEF Init, ResumedAt, Passed
<1>2. Walk /\ Fresh
  BY <1>1 DEF Init, Walk, Fresh
<1> QED BY <1>2 DEF Init, WalkInv, SuccessWalksEveryStep, ReturnedOutputsAreFresh

LEMMA WalkAlways == Spec => []WalkInv
<1>1. Init => ProgressInv /\ OutcomeInv
  BY DEF Init, ProgressInv, Working, Failing, OutcomeInv, OutcomeSeenOnProvedPage
<1> QED BY TypeInit, TypeNext, ProgressNext, OutcomeNext, WalkInit, WalkNext, <1>1, PTL DEF Spec

\* A success walked every step: in the last pass each of them from where the operator sent
\* the run, in order, and before that each of the others; for any number of handoffs.
THEOREM SuccessWalks == Spec => []SuccessWalksEveryStep
<1>1. WalkInv => SuccessWalksEveryStep
  BY DEF WalkInv
<1> QED BY WalkAlways, <1>1, PTL

\* What a success returns was read, and in the last pass if that pass read it at all.
THEOREM OutputsAreFresh == Spec => []ReturnedOutputsAreFresh
<1>1. WalkInv => ReturnedOutputsAreFresh
  BY DEF WalkInv
<1> QED BY WalkAlways, <1>1, PTL
=============================================================================
