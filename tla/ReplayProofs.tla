---------------------------- MODULE ReplayProofs ----------------------------
(***************************************************************************)
(* Proofs about the replay engine, for every capability, profile, surface  *)
(* and number of handoffs.                                                 *)
(***************************************************************************)
EXTENDS Replay, WellFoundedInduction, SequenceTheorems, TLAPS

\* `screen` and the business outcomes take the first of the detectors that fire:
\* when any fires, there is a first one.
LEMMA FirstIsMember ==
  ASSUME NEW D, D \subseteq Nat, D # {}
  PROVE  First(D) \in D /\ \A j \in D : First(D) <= j
<1>1. \E i \in D : \A j \in D : ~ (<<j, i>> \in OpToRel(<, Nat))
  BY NatLessThanWellFounded, WFMin
<1>2. PICK i \in D : \A j \in D : ~ (<<j, i>> \in OpToRel(<, Nat))
  BY <1>1
<1>3. \A j \in D : i <= j
  <2>1. TAKE j \in D
  <2>2. ~ (j < i)
    BY <1>2 DEF OpToRel
  <2> QED BY <2>2
<1> QED BY <1>3 DEF First

\* What the constants are, in the form the provers use.
LEMMA Constants ==
  /\ N \in Nat /\ N > 0 /\ DOMAIN Steps = 1 .. N
  /\ \A i \in 1 .. N : Steps[i] \in Step /\ (Steps[i].kind = "read" => Steps[i].bind_to \in Outputs)
  /\ Risky \subseteq 1 .. N
  /\ \A page \in Pages : page \in Page /\ page.location \in Locations
<1>1. /\ Steps \in Seq(Step) /\ N > 0
      /\ \A i \in DOMAIN Steps : Steps[i].kind = "read" => Steps[i].bind_to \in Outputs
  BY CapabilityAssumption
<1>2. N \in Nat /\ DOMAIN Steps = 1 .. N
  BY <1>1, LenProperties DEF N
<1>3. \A i \in 1 .. N : Steps[i] \in Step
  BY <1>1, <1>2
<1>4. \A page \in Pages : page \in Page /\ page.location \in Locations
  BY EnvironmentAssumption DEF Page
<1> QED BY <1>1, <1>2, <1>3, <1>4 DEF Risky

\* The interstitial in front of a page is one of the profile's.
LEMMA ScreenIsDeclared ==
  ASSUME NEW page \in Pages, blocked(page)
  PROVE  screen(page) \in Interstitial
<1>1. Firing(Interstitials, page) \subseteq DOMAIN Interstitials
  BY DEF Firing
<1>2. DOMAIN Interstitials = 1 .. Len(Interstitials) /\ Len(Interstitials) \in Nat
  BY ProfileAssumption, LenProperties
<1>3. First(Firing(Interstitials, page)) \in 1 .. Len(Interstitials)
  BY <1>1, <1>2, FirstIsMember DEF blocked
<1> QED BY <1>3, ProfileAssumption, ElementOfSeq DEF screen

\* Every exception on the step in progress becomes a failure of that step.
LEMMA FailureIsTyped ==
  ASSUME index \in 1 .. N, NEW exc \in Exceptions, NEW reported \in FailureKinds,
         NEW attempts \in 0 .. MAX_DISMISSALS
  PROVE  to_failure(exc, reported, attempts) \in Failure
         /\ to_failure(exc, reported, attempts).step = index
         /\ to_failure(exc, reported, attempts) # NoFailure
<1>1. KindOf(exc, reported) \in FailureKinds
  <2>1. CASE exc \in {"InterstitialDetected", "SurfaceNotReady", "StaleNode", "ActionNotApplicable"}
    BY <2>1 DEF KindOf, FailureKinds
  <2>2. CASE exc = "PostconditionTimeout"
    BY <2>2 DEF KindOf, FailureKinds
  <2>3. CASE exc = "TargetUnresolved"
    BY <2>3 DEF KindOf, FailureKinds
  <2>4. CASE exc = "CheckpointFailed"
    BY <2>4 DEF KindOf, FailureKinds
  <2>5. CASE exc \in {"PolicyDenied", "ApprovalRequired"}
    BY <2>5 DEF KindOf, FailureKinds
  <2> QED BY <2>1, <2>2, <2>3, <2>4, <2>5 DEF Exceptions
<1> QED BY <1>1, EnvironmentAssumption DEF to_failure, Failure

LEMMA FailAsIsTyped ==
  ASSUME index \in 1 .. N, NEW exc \in Exceptions, FailAs(exc)
  PROVE  /\ pc' = "failed" /\ failure' \in Failure /\ failure'.step = index
         /\ failure' # NoFailure /\ UNCHANGED <<raised, result>>
BY FailureIsTyped DEF FailAs, Fail, FailureKinds, MAX_DISMISSALS

(***************************************************************************)
(* Types, with what each program counter knows of the data it works on     *)
(***************************************************************************)
Failing == {"failed", "triage", "human", "answered", "resume"}

Shape ==
  /\ pc = "blocked" => observation \in Pages /\ blocked(observation)
  /\ pc \in {"record", "outcomes"} => observation \in Pages
  /\ pc \in Failing => failure \in Failure /\ failure.step = index
  /\ pc \in {"answered", "resume"} => resolution \in Resolution
  /\ pc \notin Failing \cup {"finished", "raised"} => failure = NoFailure

TypeInv == TypeOK /\ Shape

LEMMA TypeInit == Init => TypeInv
<1> SUFFICES ASSUME Init PROVE TypeInv
  OBVIOUS
<1>1. TypeOK
  <2>1. index \in 1 .. N /\ recoveries \in 0 .. MAX_DISMISSALS /\ proved \in 0 .. N
    BY Constants DEF Init, MAX_DISMISSALS
  <2>2. traces \in Seq(1 .. N) /\ interventions \in Seq(Intervention)
    BY DEF Init
  <2> QED BY <2>1, <2>2 DEF Init, TypeOK
<1>2. Shape
  BY DEF Init, Shape, Failing
<1> QED BY <1>1, <1>2 DEF TypeInv

LEMMA TypeNext == TypeInv /\ [Next]_vars => TypeInv'
<1> SUFFICES ASSUME TypeInv, [Next]_vars PROVE TypeInv'
  OBVIOUS
<1> USE Constants DEF TypeInv, TypeOK, Shape, Failing, engine, human, record, Goto
<1>1. CASE CheckParams
  BY <1>1 DEF CheckParams, Raise
<1>2. CASE AttemptNotReady
  <2>1. FailAs("SurfaceNotReady")
    BY <1>2 DEF AttemptNotReady
  <2> QED BY <1>2, <2>1, FailAsIsTyped DEF AttemptNotReady, Exceptions
<1>3. CASE \E page \in Pages : AttemptObserves(page)
  <2> PICK page \in Pages : AttemptObserves(page)
    BY <1>3
  <2> USE DEF AttemptObserves, See
  <2>1. CASE blocked(page)
    BY <2>1
  <2>2. CASE ~blocked(page) /\ resolves(Steps[index].target, page)
    BY <2>2
  <2>3. CASE ~blocked(page) /\ ~resolves(Steps[index].target, page)
    <3>1. FailAs("TargetUnresolved")
      BY <2>3
    <3> QED BY <2>3, <3>1, FailAsIsTyped DEF Exceptions
  <2> QED BY <2>1, <2>2, <2>3
<1>4. CASE ActionHasNoValue
  BY <1>4 DEF ActionHasNoValue, Raise
<1>5. CASE ActionRefused
  <2>1. CASE Verdict = "ControlHeld" /\ Raise("ControlHeld")
    BY <1>5, <2>1 DEF ActionRefused, Raise
  <2>2. CASE Verdict \in {"PolicyDenied", "ApprovalRequired"} /\ FailAs(Verdict)
    BY <1>5, <2>2, FailAsIsTyped DEF ActionRefused, Exceptions
  <2> QED BY <1>5, <2>1, <2>2 DEF ActionRefused
<1>6. CASE ActionDispatched
  <2>1. charged' \in [Risky -> Nat] /\ tries' \in Nat
    BY <1>6 DEF ActionDispatched
  <2>2. CASE Goto("await") /\ outputs' = Bound
    <3>1. outputs' \in [Outputs -> Nat]
      BY <2>2, LenProperties DEF Bound
    <3> QED BY <1>6, <2>1, <2>2, <3>1 DEF ActionDispatched
  <2>3. CASE \E exc \in {"StaleNode", "ActionNotApplicable"} : FailAs(exc) /\ UNCHANGED outputs
    BY <1>6, <2>1, <2>3, FailAsIsTyped DEF ActionDispatched, Exceptions
  <2> QED BY <1>6, <2>2, <2>3 DEF ActionDispatched
<1>7. CASE DeadlinePasses
  BY <1>7 DEF DeadlinePasses
<1>8. CASE \E page \in Pages : PollHolds(page)
  BY <1>8, AppendProperties DEF PollHolds, See
<1>32. CASE \E page \in Pages : PollHasNoValue(page)
  BY <1>32 DEF PollHasNoValue, See, Raise
<1>9. CASE \E page \in Pages : PollBlocked(page)
  BY <1>9 DEF PollBlocked, See
<1>10. CASE \E page \in Pages : PollNotYet(page)
  BY <1>10, FailAsIsTyped DEF PollNotYet, See, Expire, Exceptions
<1>11. CASE PollNotReady
  BY <1>11, FailAsIsTyped DEF PollNotReady, Expire, Exceptions
<1>12. CASE GiveUp
  <2>1. screen(observation).failure_kind \in FailureKinds
    BY <1>12, ScreenIsDeclared DEF GiveUp, Interstitial
  <2>2. to_failure("InterstitialDetected", screen(observation).failure_kind, recoveries) \in Failure
    BY <2>1, FailureIsTyped DEF Exceptions
  <2> QED BY <1>12, <2>1, <2>2, FailureIsTyped DEF GiveUp, Fail, Exceptions
<1>13. CASE DismissRefused
  <2>1. CASE Raise("ControlHeld")
    BY <1>13, <2>1 DEF DismissRefused, Raise
  <2>2. CASE \E exc \in {"TargetUnresolved", "PolicyDenied", "StaleNode", "ActionNotApplicable"} : FailAs(exc)
    BY <1>13, <2>2, FailAsIsTyped DEF DismissRefused, Exceptions
  <2> QED BY <1>13, <2>1, <2>2 DEF DismissRefused
<1>14. CASE Dismiss
  BY <1>14 DEF Dismiss, NotDismissable, MAX_DISMISSALS
<1>15. CASE CaptureStep
  BY <1>15, FailAsIsTyped DEF CaptureStep, Exceptions
<1>16. CASE BusinessOutcome
  BY <1>16, FailAsIsTyped DEF BusinessOutcome, Conclude, Finish, Exceptions
<1>17. CASE NextStep
  <2>1. index' \in 1 .. N /\ recoveries' \in 0 .. MAX_DISMISSALS /\ tries' \in Nat
    BY <1>17 DEF NextStep, MAX_DISMISSALS
  <2>2. pc' \in {"observe", "final"} /\ UNCHANGED <<failure, raised, result>>
    BY <1>17 DEF NextStep
  <2> QED BY <1>17, <2>1, <2>2 DEF NextStep
<1>18. CASE \E page \in Pages : FinalObserves(page)
  <2> PICK page \in Pages : FinalObserves(page)
    BY <1>18
  <2>1. CASE blocked(page)
    <3>1. screen(page).failure_kind \in FailureKinds
      BY <2>1, ScreenIsDeclared DEF Interstitial
    <3>2. 0 \in 0 .. MAX_DISMISSALS
      BY DEF MAX_DISMISSALS
    <3>3. to_failure("InterstitialDetected", screen(page).failure_kind, 0) \in Failure
      BY <3>1, <3>2, FailureIsTyped DEF Exceptions
    <3>4. /\ pc' = "failed" /\ location' \in Locations
          /\ failure' = to_failure("InterstitialDetected", screen(page).failure_kind, 0)
          /\ UNCHANGED <<run, index, recoveries, observation, late, tries, human, record>>
      BY <2>1 DEF FinalObserves, See, Fail
    <3>5. failure'.step = index /\ failure' # NoFailure
      BY <3>3, <3>4, EnvironmentAssumption DEF to_failure
    <3> HIDE DEF to_failure
    <3> QED BY <3>3, <3>4, <3>5
  <2>2. CASE ~blocked(page)
    BY <2>2, FailAsIsTyped DEF FinalObserves, See, Conclude, Finish, Exceptions
  <2> QED BY <2>1, <2>2
<1>19. CASE FinalNotReady
  BY <1>19, FailAsIsTyped DEF FinalNotReady, Exceptions
<1>20. CASE RecordFailure
  BY <1>20 DEF RecordFailure, SnapshotTaken, SnapshotUnready, SnapshotStale, See, Raise
<1>21. CASE ReturnFailure
  BY <1>21 DEF ReturnFailure, Finish
<1>22. CASE HandToHuman
  BY <1>22 DEF HandToHuman, SnapshotTaken, SnapshotUnready, SnapshotStale, See, Raise
<1>23. CASE \E answer \in Resolution : OperatorAnswers(answer)
  BY <1>23 DEF OperatorAnswers
<1>24. CASE EscalatorFails
  BY <1>24 DEF EscalatorFails, Raise
<1>25. CASE SnapshotAfter
  BY <1>25 DEF SnapshotAfter, SnapshotTaken, SnapshotUnready, SnapshotStale, See, Raise
<1>26. ASSUME Intervene, pc = "resume" PROVE interventions' \in Seq(Intervention)
  BY <1>26, AppendProperties DEF Intervene, Intervention, Failure
<1>27. CASE Abort
  BY <1>26, <1>27 DEF Abort, Finish
<1>28. CASE Approve
  <2>1. failure.step \in 1 .. N
    BY <1>28 DEF Approve, Failure
  <2>2. index' \in 1 .. N /\ proved' \in 0 .. N
    BY <1>28, <2>1 DEF Approve, ResumeFrom
  <2>4. approved' \subseteq 1 .. N
    BY <1>28, <2>1 DEF Approve
  <2>3. recoveries' \in 0 .. MAX_DISMISSALS /\ tries' \in Nat
    BY <1>28 DEF Approve, ResumeFrom, MAX_DISMISSALS
  <2> QED BY <1>26, <1>28, <2>2, <2>3, <2>4 DEF Approve, ResumeFrom
<1>29. CASE Retry
  <2>1. failure.step \in 1 .. N /\ resolution.resume_from \in 1 .. failure.step
    BY <1>29 DEF Retry, Failure
  <2>2. index' \in 1 .. N /\ proved' \in 0 .. N
    BY <1>29, <2>1 DEF Retry, ResumeFrom
  <2>3. recoveries' \in 0 .. MAX_DISMISSALS /\ tries' \in Nat
    BY <1>29 DEF Retry, ResumeFrom, MAX_DISMISSALS
  <2> QED BY <1>26, <1>29, <2>2, <2>3 DEF Retry, ResumeFrom
<1>30. CASE AnswerRejected
  BY <1>30 DEF AnswerRejected, Raise
<1>31. CASE Over \/ UNCHANGED vars
  BY <1>31 DEF Over, vars
<1> QED
  BY <1>1, <1>2, <1>3, <1>4, <1>5, <1>6, <1>7, <1>8, <1>9, <1>10, <1>11, <1>12, <1>13,
     <1>14, <1>15, <1>16, <1>17, <1>18, <1>19, <1>20, <1>21, <1>22, <1>23, <1>24, <1>25,
     <1>27, <1>28, <1>29, <1>30, <1>31, <1>32 DEF Next, EngineStep, OperatorStep

\* Every variable keeps the range the code gives it, in every run of every capability.
THEOREM TypeCorrect == Spec => []TypeOK
<1>1. TypeInv => TypeOK
  BY DEF TypeInv
<1> QED BY TypeInit, TypeNext, <1>1, PTL DEF Spec

(***************************************************************************)
(* The control token and the operator's approvals                          *)
(***************************************************************************)
\* The token leaves automation exactly while the engine waits for the operator, so no
\* call of require_automation or hand_to_human can find it taken.
TokenInv == (holder = "human" <=> pc = "human") /\ raised # "ControlHeld"

\* A handoff that ends, however it ends, has given the token back.
THEOREM TokenIsNeverContested == Spec => []TokenNeverContested
<1>1. Init => TokenInv
  BY DEF Init, TokenInv
<1>2. TypeInv /\ TokenInv /\ [Next]_vars => TokenInv'
  <2> SUFFICES ASSUME TypeInv, TokenInv, [Next]_vars PROVE TokenInv'
    OBVIOUS
  <2> USE DEF TypeInv, TypeOK, TokenInv, engine, human, record, Goto, Raise, FailAs, Fail
  <2>1. CASE CheckParams \/ AttemptNotReady \/ ActionHasNoValue \/ ActionDispatched \/ DeadlinePasses
    BY <2>1 DEF CheckParams, AttemptNotReady, ActionHasNoValue, ActionDispatched, DeadlinePasses
  <2>2. CASE ActionRefused
    <3>1. pc = "act" /\ Verdict # "ControlHeld"
      BY <2>2 DEF ActionRefused, Verdict, check
    <3> QED BY <2>2, <3>1 DEF ActionRefused
  <2>3. CASE \E page \in Pages : \/ AttemptObserves(page) \/ FinalObserves(page)
                                 \/ PollHolds(page) \/ PollHasNoValue(page)
                                 \/ PollBlocked(page) \/ PollNotYet(page)
    BY <2>3 DEF AttemptObserves, FinalObserves, PollHolds, PollHasNoValue, PollBlocked, PollNotYet, Expire,
                Conclude, Finish
  <2>4. CASE PollNotReady \/ GiveUp \/ Dismiss \/ CaptureStep \/ NextStep \/ FinalNotReady
    BY <2>4 DEF PollNotReady, Expire, GiveUp, Dismiss, CaptureStep, NextStep, FinalNotReady
  <2>5. CASE DismissRefused
    <3>1. pc = "blocked" /\ check(location, FALSE) # "ControlHeld"
      BY <2>5 DEF DismissRefused, check
    <3> QED BY <2>5, <3>1 DEF DismissRefused
  <2>6. CASE BusinessOutcome \/ ReturnFailure
    BY <2>6 DEF BusinessOutcome, ReturnFailure, Conclude, Finish
  <2>7. CASE RecordFailure \/ HandToHuman \/ SnapshotAfter
    BY <2>7 DEF RecordFailure, HandToHuman, SnapshotAfter, SnapshotStale
  <2>8. CASE OperatorStep
    BY <2>8 DEF OperatorStep, EscalatorFails, OperatorAnswers
  <2>9. CASE Abort \/ Approve \/ Retry \/ AnswerRejected
    BY <2>9 DEF Abort, Approve, Retry, AnswerRejected, ResumeFrom, Finish
  <2>10. CASE Over \/ UNCHANGED vars
    BY <2>10 DEF Over, vars
  <2> QED BY <2>1, <2>2, <2>3, <2>4, <2>5, <2>6, <2>7, <2>8, <2>9, <2>10 DEF Next, EngineStep
<1>3. TokenInv => TokenNeverContested
  BY DEF TokenInv, TokenNeverContested
<1> QED BY TypeInit, TypeNext, <1>1, <1>2, <1>3, PTL DEF Spec

\* Every step in session._approved is there for a record an operator approved.
ApprovedInv == \A i \in approved : Approvals(i) # {}

LEMMA RecordsAreKept ==
  ASSUME TypeInv, pc = "resume", Intervene, NEW i
  PROVE  Approvals(i) # {} => Approvals(i)' # {}
<1> SUFFICES ASSUME NEW n \in Approvals(i) PROVE n \in Approvals(i)'
  OBVIOUS
<1>1. /\ Len(interventions') = Len(interventions) + 1
      /\ \A k \in 1 .. Len(interventions) : interventions'[k] = interventions[k]
  BY AppendProperties DEF Intervene, TypeInv, TypeOK, Shape, Failing, Intervention, Failure
<1>2. interventions \in Seq(Intervention) /\ interventions' \in Seq(Intervention)
  BY AppendProperties DEF Intervene, TypeInv, TypeOK, Shape, Failing, Intervention, Failure
<1>3. DOMAIN interventions = 1 .. Len(interventions) /\ DOMAIN interventions' = 1 .. Len(interventions')
      /\ Len(interventions) \in Nat
  BY <1>2, LenProperties
<1> QED BY <1>1, <1>3 DEF Approvals

LEMMA ApprovedNext == TypeInv /\ ApprovedInv /\ [Next]_vars => ApprovedInv'
<1> SUFFICES ASSUME TypeInv, ApprovedInv, [Next]_vars PROVE ApprovedInv'
  OBVIOUS
<1>1. CASE Approve
  <2>1. \A i \in approved : Approvals(i)' # {}
    BY <1>1, RecordsAreKept DEF Approve, ApprovedInv
  <2>2. /\ Len(interventions') = Len(interventions) + 1 /\ Len(interventions) \in Nat
        /\ interventions'[Len(interventions')] =
             [step |-> failure.step, kind |-> failure.kind, resolution |-> resolution]
        /\ DOMAIN interventions' = 1 .. Len(interventions')
    BY <1>1, AppendProperties, LenProperties
       DEF Approve, Intervene, TypeInv, TypeOK, Shape, Failing, Intervention, Failure
  <2>3. ASSUME NEW i, i = failure.step PROVE Approvals(i)' # {}
    <3>1. Len(interventions') \in Approvals(i)'
      BY <1>1, <2>2, <2>3 DEF Approve, Approvals
    <3> QED BY <3>1
  <2> QED BY <1>1, <2>1, <2>3 DEF Approve, ApprovedInv
<1>2. CASE Abort \/ Retry
  BY <1>2, RecordsAreKept DEF Abort, Retry, ApprovedInv
<1>3. CASE UNCHANGED <<approved, interventions>>
  BY <1>3 DEF ApprovedInv, Approvals
<1>4. ASSUME ~Approve, ~Abort, ~Retry PROVE UNCHANGED <<approved, interventions>>
  BY <1>4 DEF Next, EngineStep, OperatorStep, vars, engine, human, record,
     CheckParams, AttemptNotReady, ActionHasNoValue, ActionRefused, ActionDispatched,
     PollNotReady, GiveUp, DismissRefused, Dismiss, CaptureStep, BusinessOutcome, NextStep,
     FinalNotReady, RecordFailure, ReturnFailure, HandToHuman, SnapshotAfter, AnswerRejected,
     AttemptObserves, FinalObserves, PollHolds, PollHasNoValue, PollBlocked, PollNotYet, EscalatorFails,
     OperatorAnswers, DeadlinePasses, Over
<1> QED BY <1>1, <1>2, <1>3, <1>4

\* A risky step reaches the surface only approved at the start of the run or, for this
\* very step, by an operator: whatever the capability and however many handoffs.
THEOREM RiskyNeedsApproval == Spec => RiskyOnlyWhenApproved
<1> DEFINE Authorised == \A i \in Risky : charged'[i] > charged[i] =>
                           run.approve_risky \/ Approvals(i) # {}
<1>1. Init => ApprovedInv
  BY DEF Init, ApprovedInv
<1>2. TypeInv /\ ApprovedInv /\ [Next]_vars => [Authorised]_vars
  <2> SUFFICES ASSUME TypeInv, ApprovedInv, Next PROVE Authorised
    OBVIOUS
  <2>1. CASE ActionDispatched
    <3> SUFFICES ASSUME NEW i \in Risky, charged'[i] > charged[i]
                 PROVE  run.approve_risky \/ Approvals(i) # {}
      OBVIOUS
    <3>1. charged \in [Risky -> Nat]
      BY DEF TypeInv, TypeOK
    <3>2. i = index
      BY <2>1, <3>1 DEF ActionDispatched
    <3>3. run.approve_risky \/ index \in approved
      BY <2>1, <3>2 DEF ActionDispatched, Verdict, check, Risky
    <3> QED BY <3>2, <3>3 DEF ApprovedInv
  <2>2. CASE ~ActionDispatched
    <3>1. charged' = charged
      BY <2>2 DEF Next, EngineStep, OperatorStep, vars, engine, human, record,
       CheckParams, AttemptNotReady, ActionHasNoValue, ActionRefused, PollNotReady, GiveUp,
       DismissRefused, Dismiss, CaptureStep, BusinessOutcome, NextStep, FinalNotReady,
       RecordFailure, ReturnFailure, HandToHuman, SnapshotAfter, AnswerRejected, Abort,
       Approve, Retry, AttemptObserves, FinalObserves, PollHolds, PollHasNoValue, PollBlocked, PollNotYet,
       EscalatorFails, OperatorAnswers, DeadlinePasses, Over
    <3>2. \A i \in Risky : charged[i] \in Nat
      BY DEF TypeInv, TypeOK
    <3> QED BY <3>1, <3>2
  <2> QED BY <2>1, <2>2
<1> QED BY TypeInit, TypeNext, ApprovedNext, <1>1, <1>2, PTL DEF Spec, RiskyOnlyWhenApproved

(***************************************************************************)
(* The engine implements ReplayContract                                    *)
(***************************************************************************)
Working == {"start", "observe", "act", "await", "blocked"}

\* How far the run has come at each program counter, and that only a failure a human
\* can do something about waits for one.
ProgressInv ==
  /\ pc \in Working => proved = index - 1
  /\ pc \in {"record", "outcomes"} => proved = index
  /\ pc = "final" => proved = N /\ index = N
  /\ pc \in Failing => proved \in {index - 1, index}
  /\ pc \in {"human", "answered", "resume"} => failure.kind \in ESCALATES

LEMMA ProgressNext == TypeInv /\ ProgressInv /\ [Next]_vars => ProgressInv'
<1> SUFFICES ASSUME TypeInv, ProgressInv, [Next]_vars PROVE ProgressInv'
  OBVIOUS
<1> USE Constants DEF TypeInv, TypeOK, Shape, ProgressInv, Working, Failing, engine, human, record,
                      Goto, Raise, Finish
<1>1. CASE CheckParams \/ ActionHasNoValue \/ DeadlinePasses \/ AnswerRejected
  BY <1>1 DEF CheckParams, ActionHasNoValue, DeadlinePasses, AnswerRejected
<1>2. ASSUME NEW exc, FailAs(exc), UNCHANGED <<index, proved>>,
             pc \in Working \cup {"record", "outcomes", "final"}
      PROVE  ProgressInv'
  BY <1>2 DEF FailAs, Fail
<1>3. CASE AttemptNotReady \/ ActionRefused \/ FinalNotReady \/ PollNotReady
  BY <1>2, <1>3 DEF AttemptNotReady, ActionRefused, FinalNotReady, PollNotReady, Expire
<1>4. CASE ActionDispatched
  BY <1>2, <1>4 DEF ActionDispatched
<1>5. CASE \E page \in Pages : AttemptObserves(page) \/ PollBlocked(page) \/ PollNotYet(page)
  BY <1>2, <1>5 DEF AttemptObserves, PollBlocked, PollNotYet, Expire
<1>6. CASE \E page \in Pages : PollHolds(page) \/ PollHasNoValue(page)
  BY <1>6 DEF PollHolds, PollHasNoValue
<1>7. CASE GiveUp
  BY <1>7 DEF GiveUp, Fail
<1>8. CASE DismissRefused
  BY <1>2, <1>8 DEF DismissRefused
<1>9. CASE Dismiss
  BY <1>9 DEF Dismiss
<1>10. CASE CaptureStep
  BY <1>2, <1>10 DEF CaptureStep
<1>11. CASE BusinessOutcome
  BY <1>2, <1>11 DEF BusinessOutcome, Conclude
<1>12. CASE NextStep
  <2>1. CASE index < N
    BY <1>12, <2>1 DEF NextStep
  <2>2. CASE ~(index < N)
    <3>1. index' = N /\ proved' = N /\ pc' = "final"
      BY <1>12, <2>2 DEF NextStep
    <3> QED BY <3>1
  <2> QED BY <2>1, <2>2
<1>13. CASE \E page \in Pages : FinalObserves(page)
  <2> PICK page \in Pages : FinalObserves(page)
    BY <1>13
  <2>1. CASE blocked(page)
    BY <2>1 DEF FinalObserves, Fail
  <2>2. CASE ~blocked(page)
    BY <1>2, <2>2 DEF FinalObserves, Conclude
  <2> QED BY <2>1, <2>2
<1>14. CASE RecordFailure \/ SnapshotAfter
  BY <1>14 DEF RecordFailure, SnapshotAfter, SnapshotStale
<1>15. CASE HandToHuman
  BY <1>15 DEF HandToHuman, SnapshotStale, escalates
<1>16. CASE ReturnFailure \/ Abort
  BY <1>16 DEF ReturnFailure, Abort
<1>17. CASE OperatorStep
  BY <1>17 DEF OperatorStep, OperatorAnswers, EscalatorFails
<1>18. CASE Approve \/ Retry
  BY <1>18 DEF Approve, Retry, ResumeFrom
<1>19. CASE Over \/ UNCHANGED vars
  BY <1>19 DEF Over, vars
<1> QED BY <1>1, <1>3, <1>4, <1>5, <1>6, <1>7, <1>8, <1>9, <1>10, <1>11, <1>12, <1>13, <1>14,
           <1>15, <1>16, <1>17, <1>18, <1>19 DEF Next, EngineStep

\* Every step of the engine is a step of the contract or leaves it alone.
LEMMA StepKeepsContract ==
  ASSUME TypeInv, ProgressInv, [Next]_vars
  PROVE  [Contract!Next]_<<phase, proved, cause>>
<1> USE DEF phase, cause, Failing, Goto, Raise, FailAs, Fail, engine, human, record
<1> DEFINE Sim == Contract!Next \/ UNCHANGED <<phase, proved, cause>>
<1>a. pc \in Failing => failure # NoFailure /\ failure.kind \in ESCALATES \cup TERMINAL
                        /\ failure.kind # NoFailure
  BY EnvironmentAssumption DEF TypeInv, Shape, Failure, FailureKinds, ESCALATES, TERMINAL
<1>b. index \in 1 .. N /\ proved \in 0 .. N
  BY DEF TypeInv, TypeOK
<1>c. pc \notin Failing \cup {"finished", "raised"} => failure = NoFailure
  BY DEF TypeInv, Shape
<1>1. ASSUME NEW exc, FailAs(exc) \/ (\E r, n : Fail("InterstitialDetected", r, n)), TypeInv',
             UNCHANGED proved, pc \in Working \cup {"record", "outcomes", "final"}
      PROVE  Sim
  <2>1. phase = "automation" /\ phase' = "automation" /\ cause = NoFailure
    BY <1>1, <1>c DEF Working
  <2>2. cause' \in ESCALATES \cup TERMINAL
    BY <1>1, EnvironmentAssumption DEF TypeInv, Shape, Failure, FailureKinds, ESCALATES, TERMINAL
  <2> QED BY <1>1, <2>1, <2>2 DEF Contract!Next, Contract!Break
<1>2. ASSUME NEW exc, Raise(exc), UNCHANGED proved, pc \notin {"finished", "raised"}
      PROVE  Sim
  BY <1>2 DEF Contract!Next, Contract!GiveWay
<1>3. ASSUME NEW next \in Working \cup {"record", "outcomes", "final"}, Goto(next), UNCHANGED proved,
             pc \in Working \cup {"record", "outcomes", "final"}
      PROVE  Sim
  BY <1>3 DEF Working
<1>4. TypeInv'
  BY TypeNext
<1>5. CASE CheckParams \/ ActionHasNoValue
  BY <1>2, <1>3, <1>5 DEF CheckParams, ActionHasNoValue, Working
<1>6. CASE AttemptNotReady \/ ActionRefused \/ FinalNotReady \/ PollNotReady
  BY <1>1, <1>2, <1>3, <1>4, <1>6
     DEF AttemptNotReady, ActionRefused, FinalNotReady, PollNotReady, Expire, Working
<1>7. CASE ActionDispatched
  BY <1>1, <1>3, <1>4, <1>7 DEF ActionDispatched, Working
<1>8. CASE \E page \in Pages : AttemptObserves(page) \/ PollBlocked(page) \/ PollNotYet(page)
  BY <1>1, <1>3, <1>4, <1>8 DEF AttemptObserves, PollBlocked, PollNotYet, Expire, Working
<1>9. CASE \E page \in Pages : PollHolds(page)
  <2>1. proved = index - 1 /\ proved' = index
    BY <1>9 DEF PollHolds, ProgressInv, Working
  <2>2. proved < N /\ proved' = proved + 1
    BY <2>1, <1>b, Constants
  <2>3. phase = "automation" /\ phase' = "automation" /\ cause = NoFailure /\ cause' = NoFailure
    BY <1>9, <1>c DEF PollHolds
  <2> QED BY <2>2, <2>3 DEF Contract!Next, Contract!Prove
<1>20. CASE \E page \in Pages : PollHasNoValue(page)
  BY <1>2, <1>20 DEF PollHasNoValue
<1>10. CASE GiveUp \/ DismissRefused \/ Dismiss \/ CaptureStep \/ NextStep \/ DeadlinePasses
  BY <1>1, <1>2, <1>3, <1>4, <1>10
     DEF GiveUp, DismissRefused, Dismiss, CaptureStep, NextStep, DeadlinePasses, Working
<1>11. CASE BusinessOutcome
  <2>1. CASE \E exc : FailAs(exc)
    BY <1>1, <1>4, <1>11, <2>1 DEF BusinessOutcome
  <2>2. CASE \E o : Finish("business_outcome", o.name, [name \in o.binds |-> outputs[name]])
    <3>1. phase = "automation" /\ phase' = "business_outcome" /\ cause = NoFailure
          /\ UNCHANGED <<cause, proved>>
      BY <1>11, <2>2, <1>c DEF BusinessOutcome, Finish
    <3>2. proved > 0
      BY <1>11, <1>b DEF BusinessOutcome, ProgressInv
    <3> QED BY <3>1, <3>2 DEF Contract!Next, Contract!Answer
  <2> QED BY <1>11, <2>1, <2>2 DEF BusinessOutcome, Conclude
<1>12. CASE \E page \in Pages : FinalObserves(page)
  <2> PICK page \in Pages : FinalObserves(page)
    BY <1>12
  <2>1. CASE \E exc : FailAs(exc) \/ (\E r, n : Fail("InterstitialDetected", r, n))
    BY <1>1, <1>4, <2>1 DEF FinalObserves
  <2>2. CASE Finish("success", Success.name, [name \in Success.binds |-> outputs[name]])
    <3>1. phase = "automation" /\ phase' = "success" /\ cause = NoFailure
          /\ UNCHANGED <<cause, proved>> /\ proved = N
      BY <2>2, <1>c DEF FinalObserves, Finish, ProgressInv
    <3> QED BY <3>1 DEF Contract!Next, Contract!Succeed
  <2> QED BY <2>1, <2>2 DEF FinalObserves, Conclude
<1>13. CASE RecordFailure \/ SnapshotAfter
  BY <1>2, <1>13 DEF RecordFailure, SnapshotAfter, SnapshotStale
<1>14. CASE HandToHuman
  <2>1. CASE \E exc : Raise(exc)
    BY <1>2, <1>14, <2>1 DEF HandToHuman
  <2>2. CASE Goto("human")
    <3>1. phase = "automation" /\ phase' = "human" /\ cause \in ESCALATES /\ UNCHANGED <<proved, cause>>
      BY <1>14, <2>2, <1>a DEF HandToHuman, escalates
    <3> QED BY <3>1 DEF Contract!Next, Contract!Escalate
  <2> QED BY <1>14, <2>1, <2>2 DEF HandToHuman, SnapshotStale
<1>15. CASE ReturnFailure \/ Abort
  <2>1. phase \in {"automation", "human"} /\ phase' = "failed" /\ UNCHANGED <<proved, cause>>
    BY <1>15 DEF ReturnFailure, Abort, Finish
  <2>2. cause # NoFailure /\ (phase = "human" => cause \in ESCALATES)
    BY <1>15, <1>a DEF ReturnFailure, Abort, ProgressInv
  <2> QED BY <2>1, <2>2 DEF Contract!Next, Contract!Stop
<1>16. CASE OperatorStep
  <2>1. CASE EscalatorFails
    BY <1>2, <2>1 DEF EscalatorFails
  <2>2. CASE \E answer \in Resolution : OperatorAnswers(answer)
    BY <2>2 DEF OperatorAnswers
  <2> QED BY <1>16, <2>1, <2>2 DEF OperatorStep
<1>17. CASE Approve \/ Retry
  <2>1. phase = "human" /\ phase' = "automation" /\ cause' = NoFailure
    BY <1>17 DEF Approve, Retry, ResumeFrom
  <2>2. proved \in {index - 1, index} /\ failure.step = index
    BY <1>17 DEF Approve, Retry, ProgressInv, TypeInv, Shape
  <2>3. PICK i \in 1 .. index : proved' = i - 1
    BY <1>17, <2>2, <1>b, Constants DEF Approve, Retry, ResumeFrom
  <2>4. proved' \in {k \in 0 .. proved : k < N}
    BY <2>2, <2>3, <1>b, Constants
  <2> QED BY <2>1, <2>4 DEF Contract!Next, Contract!Resume
<1>18. CASE AnswerRejected
  BY <1>2, <1>18 DEF AnswerRejected
<1>19. CASE Over \/ UNCHANGED vars
  BY <1>19 DEF Over, vars
<1> QED BY <1>5, <1>6, <1>7, <1>8, <1>9, <1>10, <1>11, <1>12, <1>13, <1>14, <1>15, <1>16, <1>17,
           <1>18, <1>19, <1>20 DEF Next, EngineStep

\* The engine keeps its promise to the caller: only proved steps make a success, only
\* a failure a human can help with reaches one, and a resume never skips a step.
THEOREM ReplayKeepsContract == Spec => KeepsContract
<1>1. Init => ProgressInv /\ Contract!Init
  BY DEF Init, ProgressInv, Working, Failing, Contract!Init, phase, cause
<1>2. TypeInv /\ ProgressInv /\ [Next]_vars => [Contract!Next]_(Contract!contract)
  BY StepKeepsContract DEF Contract!contract
<1> QED BY TypeInit, TypeNext, ProgressNext, <1>1, <1>2, PTL DEF Spec, KeepsContract, Contract!Spec
=============================================================================
