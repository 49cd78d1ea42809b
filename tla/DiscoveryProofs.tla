--------------------------- MODULE DiscoveryProofs ---------------------------
(***************************************************************************)
(* Proofs about the discovery loop, for every contract, application, model *)
(* and budget, in a first run and in its re-run from the transcript.       *)
(***************************************************************************)
EXTENDS TranscriptModel, WellFoundedInduction, SequenceTheorems, FiniteSetTheorems, TLAPS

(***************************************************************************)
(* One step of a run, whoever answers                                      *)
(***************************************************************************)
AnyAnswer ==
  /\ phase = "ask" /\ turn' \in Emitted /\ phase' = "judge"
  /\ UNCHANGED <<page, before, outputs, transcript, dead_ends, finished, raised, reached>>

RunStep == LoopStep \/ AnyAnswer \/ ModelFails \/ Drift \/ UNCHANGED vars

LEMMA ContractFacts ==
  /\ MAX_TURNS \in Nat /\ MAX_TURNS > 0 /\ MAX_REPEATS \in Nat /\ MAX_REPEATS > 0
  /\ \A say \in Turns : say \in Turn
  /\ \A p \in Pages : p \in Page
  /\ NoTurn \notin Emitted /\ NoFinish \notin Finishes /\ NoPage \notin Pages
BY ContractAssumption, ApplicationAssumption

\* A record more, as the prover needs it.
LEMMA Appended ==
  ASSUME NEW s \in Seq(Entry), NEW e \in Entry
  PROVE  /\ Append(s, e) \in Seq(Entry) /\ Len(s) \in Nat /\ Len(Append(s, e)) = Len(s) + 1
         /\ Append(s, e)[Len(s) + 1] = e /\ \A i \in 1 .. Len(s) : Append(s, e)[i] = s[i]
         /\ \A i \in 1 .. Len(s) : s[i] \in Entry
BY AppendProperties, LenProperties, ElementOfSeq

(***************************************************************************)
(* Types                                                                   *)
(***************************************************************************)
Told(problem) == [turn |-> turn, page |-> before, ok |-> problem = "none", problem |-> problem]

LEMMA Tells ==
  ASSUME NEW problem
  PROVE  /\ Told(problem).ok = (problem = "none") /\ Told(problem).turn = turn
         /\ Told(problem).problem = problem
BY DEF Told

\* What recording a turn does to the run.
LEMMA Recorded ==
  ASSUME TypeOK, phase \in {"judge", "await"}, NEW problem \in Problem, Record(problem),
         reached' \subseteq 0 .. MAX_TURNS - 1, outputs' \subseteq Outputs, page' \in Pages
  PROVE  /\ TypeOK' /\ phase' \in {"observe", "done"} /\ Told(problem) \in Entry
         /\ transcript' = Append(transcript, Told(problem))
         /\ index \in Nat /\ index < MAX_TURNS /\ index' = index + 1
         /\ transcript'[index + 1] = Told(problem)
         /\ \A i \in 1 .. index : transcript'[i] = transcript[i] /\ transcript[i] \in Entry
<1>1. /\ turn \in Emitted /\ before \in Pages /\ transcript \in Seq(Entry) /\ finished = NoFinish
      /\ raised = "none" /\ Len(transcript) < MAX_TURNS
  BY DEF TypeOK, index
<1>2. Told(problem) \in Entry
  BY <1>1 DEF Told, Entry
<1>3. transcript' = Append(transcript, Told(problem))
  BY DEF Record, Told
<1>4. /\ transcript' \in Seq(Entry) /\ index \in Nat /\ index' = index + 1
      /\ transcript'[index + 1] = Told(problem)
      /\ \A i \in 1 .. index : transcript'[i] = transcript[i] /\ transcript[i] \in Entry
  BY <1>1, <1>2, <1>3, Appended DEF index
<1>5. dead_ends' \in 0 .. index + 1
  BY <1>4 DEF Record, TypeOK, index
<1>6. /\ phase' \in {"observe", "done"} /\ finished' \in Finishes \cup {NoFinish}
      /\ phase' # "done" => index + 1 < MAX_TURNS /\ finished' = NoFinish
  <2>1. \A kind \in DiscoveryFailureKind, at \in 0 .. MAX_TURNS : Finished("failed", kind, at) \in Finishes
    BY DEF Finished, Finishes
  <2>2. index \in 0 .. MAX_TURNS /\ MAX_TURNS \in 0 .. MAX_TURNS /\ index + 1 <= MAX_TURNS
    BY <1>1, <1>4, ContractFacts DEF index
  <2>3. CASE problem \notin {"none", "dead_end"}
    BY <2>1, <2>2, <2>3 DEF Record, Failed, Problem, DiscoveryFailureKind
  <2>4. CASE problem \in {"none", "dead_end"}
    BY <1>1, <2>1, <2>2, <2>4, ContractFacts DEF Record, Failed, Finished, Finishes, DiscoveryFailureKind
  <2> QED BY <2>3, <2>4
<1>7. before' = NoPage /\ turn' = NoTurn /\ raised' = "none"
  BY <1>1 DEF Record
<1>8. TypeOK'
  BY <1>1, <1>4, <1>5, <1>6, <1>7, ContractFacts DEF TypeOK, index
<1> QED BY <1>1, <1>2, <1>3, <1>4, <1>6, <1>8 DEF index

LEMMA TypeStep == TypeOK /\ RunStep => TypeOK'
<1> SUFFICES ASSUME TypeOK, RunStep PROVE TypeOK'
  OBVIOUS
<1>1. ASSUME NEW problem \in Problem, Record(problem), phase \in {"judge", "await"},
             UNCHANGED <<outputs, reached>>, page' \in Pages
      PROVE  TypeOK'
  BY <1>1, Recorded DEF TypeOK
<1>2. ASSUME Escape, phase \in {"judge", "await"}, UNCHANGED <<outputs, reached, page>>
      PROVE  TypeOK'
  BY <1>2 DEF Escape, TypeOK, index
<1>3. ASSUME NEW kind \in DiscoveryFailureKind, Failed(kind, index), phase \in {"observe", "ask"},
             UNCHANGED <<page, before, turn, outputs, transcript, dead_ends, raised, reached>>
      PROVE  TypeOK'
  <2>1. Len(transcript) \in 0 .. MAX_TURNS
    BY LenProperties, ContractFacts DEF TypeOK
  <2>2. finished' \in Finishes
    BY <1>3, <2>1 DEF Failed, Finished, Finishes, index
  <2> QED BY <1>3, <2>2 DEF Failed, TypeOK, index
<1>4. CASE Observe
  BY <1>3, <1>4 DEF Observe, TypeOK, index, DiscoveryFailureKind
<1>5. CASE ObserveFails \/ ModelFails
  BY <1>3, <1>5 DEF ObserveFails, ModelFails, DiscoveryFailureKind
<1>6. CASE RefuseRepeat \/ GiveUp \/ ActIsWrong \/ ActIsRisky
  BY <1>1, <1>6 DEF RefuseRepeat, GiveUp, ActIsWrong, ActIsRisky, Accepted, Problem, TypeOK
<1>7. ASSUME Allowed
      PROVE  /\ Does \in Pages \X (Nodes \cup Locations) /\ App[Does] \subseteq Pages
             /\ phase = "judge" /\ turn \in Emitted
             /\ turn.say.does = "read" => turn.say.bind_to \in Outputs
  <2>1. turn.say \in Turn /\ page \in Pages /\ before \in Pages /\ before \in Page
    BY <1>7, ContractFacts DEF Allowed, Accepted, TypeOK, Emitted
  <2>2. Does \in Pages \X (Nodes \cup Locations)
    <3>1. CASE turn.say.does = "navigate"
      BY <2>1, <3>1 DEF Does, Turn
    <3>2. CASE turn.say.does # "navigate"
      BY <1>7, <2>1, <3>2 DEF Does, Allowed, Picked, Page
    <3> QED BY <3>1, <3>2
  <2> QED BY <1>7, <2>2, ApplicationAssumption DEF Allowed, Accepted, Named, TypeOK
<1>8. CASE ActFails
  BY <1>1, <1>7, <1>8 DEF ActFails, Problem, TypeOK
<1>9. CASE Dispatch
  <2>1. /\ page' \in Pages /\ outputs' \subseteq Outputs /\ reached' \subseteq 0 .. MAX_TURNS - 1
        /\ phase = "judge" /\ turn \in Emitted
    <3>1. index \in 0 .. MAX_TURNS - 1
      BY <1>7, <1>9, LenProperties, ContractFacts DEF Dispatch, TypeOK, index
    <3> QED BY <1>7, <1>9, <3>1 DEF Dispatch, TypeOK
  <2>2. CASE Record("dead_end")
    BY <2>1, <2>2, Recorded DEF Problem
  <2>3. CASE phase' = "await" /\ UNCHANGED <<before, turn, transcript, dead_ends, finished, raised>>
    BY <2>1, <2>3 DEF TypeOK, index
  <2> QED BY <1>9, <2>2, <2>3 DEF Dispatch
<1>10. CASE Await \/ AwaitExpires \/ Finish
  BY <1>1, <1>2, <1>10 DEF Await, AwaitExpires, Finish, Accepted, Problem, TypeOK
<1>11. CASE AnyAnswer
  BY <1>11 DEF AnyAnswer, TypeOK, index
<1>12. CASE Drift
  BY <1>12, ApplicationAssumption DEF Drift, TypeOK, index
<1>13. CASE UNCHANGED vars
  BY <1>13 DEF vars, TypeOK, index
<1> QED BY <1>4, <1>5, <1>6, <1>8, <1>9, <1>10, <1>11, <1>12, <1>13 DEF RunStep, LoopStep

(***************************************************************************)
(* The steps, by what they do to the record of the run                     *)
(***************************************************************************)
\* Nothing is recorded: what was asked for, answered or failed outside of a turn, and the
\* exception nothing catches.
Quiet ==
  /\ UNCHANGED <<outputs, transcript, dead_ends, reached>>
  /\ phase \in {"observe", "ask"} => phase' \in {"observe", "ask", "judge", "done"}
  /\ phase \in {"judge", "await"} => UNCHANGED <<turn, before>> /\ phase' \in {phase, "done"}
  /\ phase = "done" => phase' = "done" /\ UNCHANGED <<turn, before>>
  /\ \/ UNCHANGED finished
     \/ /\ phase \in {"observe", "ask"} /\ phase' = "done"
        /\ \E kind \in {"interstitial", "surface_error", "model_error"} :
             finished' = Finished("failed", kind, index)

Refused == RefuseRepeat

\* A turn that ends where it is judged.
Judged(problem) ==
  /\ phase = "judge" /\ repeated = 0 /\ Record(problem) /\ UNCHANGED <<outputs, reached>>
  /\ problem \in {"none", "dead_end", "approval_required"}
  /\ problem = "none" => turn.say.kind \in {"give_up", "finish"}
  /\ turn.say.kind = "give_up" => problem = "none"
  /\ turn.say.kind = "finish" /\ problem = "none" => Bindable

Proved(problem) ==
  /\ phase = "await" /\ problem \in {"none", "dead_end", "interstitial"}
  /\ Record(problem) /\ UNCHANGED <<outputs, reached>>

LEMMA StepsOfARun ==
  ASSUME TypeOK, RunStep
  PROVE  Quiet \/ Refused \/ Dispatch \/ \E problem \in Problem : Judged(problem) \/ Proved(problem)
<1>1. turn \in Emitted /\ phase \in {"judge", "await"} => turn.say.kind \in {"act", "finish", "give_up"}
  BY DEF Emitted, Turn
<1>2. CASE Observe \/ ObserveFails \/ ModelFails \/ AnyAnswer
  BY <1>2 DEF Observe, ObserveFails, ModelFails, AnyAnswer, Failed, Quiet
<1>3. CASE Drift \/ UNCHANGED vars
  BY <1>3 DEF Drift, vars, Quiet, TypeOK
<1>4. CASE RefuseRepeat
  BY <1>4 DEF Refused
<1>5. CASE GiveUp
  <2>1. Judged("none")
    BY <1>5 DEF GiveUp, Accepted, Judged
  <2> QED BY <2>1 DEF Problem
<1>6. CASE ActIsWrong \/ ActFails
  <2>1. Judged("dead_end")
    BY <1>6 DEF ActIsWrong, ActFails, Allowed, Accepted, Judged
  <2> QED BY <2>1 DEF Problem
<1>7. CASE ActIsRisky
  <2>1. Judged("approval_required")
    BY <1>7 DEF ActIsRisky, Accepted, Judged
  <2> QED BY <2>1 DEF Problem
<1>8. CASE Finish
  <2>1. CASE Record("dead_end")
    <3>1. Judged("dead_end")
      BY <1>8, <2>1 DEF Finish, Accepted, Judged
    <3> QED BY <3>1 DEF Problem
  <2>2. CASE Record("none") /\ Bindable
    <3>1. Judged("none")
      BY <1>8, <2>2 DEF Finish, Accepted, Judged
    <3> QED BY <3>1 DEF Problem
  <2>3. CASE Escape
    BY <1>8, <2>3 DEF Finish, Accepted, Escape, Quiet
  <2> QED BY <1>8, <2>1, <2>2, <2>3 DEF Finish
<1>9. CASE Await
  <2>1. CASE Escape
    BY <1>9, <2>1 DEF Await, Escape, Quiet
  <2>2. CASE \E problem \in {"none", "dead_end", "interstitial"} : Record(problem)
    BY <1>9, <2>2 DEF Await, Proved, Problem
  <2> QED BY <1>9, <2>1, <2>2 DEF Await
<1>10. CASE AwaitExpires
  <2>1. Proved("dead_end")
    BY <1>10 DEF AwaitExpires, Proved
  <2> QED BY <2>1 DEF Problem
<1> QED BY <1>2, <1>3, <1>4, <1>5, <1>6, <1>7, <1>8, <1>9, <1>10 DEF RunStep, LoopStep

\* What a recording step leaves of the turns there were.
Kept(problem) ==
  /\ index \in Nat /\ index < MAX_TURNS /\ index' = index + 1 /\ phase' \in {"observe", "done"}
  /\ transcript'[index + 1] = Told(problem)
  /\ \A i \in 1 .. index : transcript'[i] = transcript[i]
  /\ \A i \in 0 .. index : TurnOf(i)' = TurnOf(i) /\ PageOf(i)' = PageOf(i)

LEMMA RecordKeeps ==
  ASSUME TypeOK, TypeOK', phase \in {"judge", "await"}, NEW problem \in Problem, Record(problem)
  PROVE  Kept(problem)
<1>1. /\ index \in Nat /\ index < MAX_TURNS /\ index' = index + 1 /\ phase' \in {"observe", "done"}
      /\ transcript'[index + 1] = Told(problem)
      /\ \A i \in 1 .. index : transcript'[i] = transcript[i]
  BY Recorded DEF TypeOK
<1>2. ASSUME NEW i \in 0 .. index PROVE TurnOf(i)' = TurnOf(i) /\ PageOf(i)' = PageOf(i)
  <2>1. CASE i = index
    BY <1>1, <2>1 DEF TurnOf, PageOf, Told
  <2>2. CASE i < index
    BY <1>1, <2>2 DEF TurnOf, PageOf
  <2> QED BY <1>1, <2>1, <2>2
<1> QED BY <1>1, <1>2 DEF Kept

(***************************************************************************)
(* Refused turns                                                           *)
(***************************************************************************)
\* `repeated` is how many turns before this one were this very turn, failed.
LEMMA RepeatedCounts ==
  ASSUME index \in Nat
  PROVE  /\ repeated \in 0 .. index /\ FailedAlike(repeated)
         /\ repeated < index => ~FailedAlike(repeated + 1)
<1> DEFINE Stops == {n \in 0 .. index : n < index => ~FailedAlike(n + 1)}
<1>1. index \in Stops /\ Stops \subseteq Nat
  OBVIOUS
<1>2. PICK n \in Stops : \A m \in Stops : ~ (<<m, n>> \in OpToRel(<, Nat))
  BY <1>1, NatLessThanWellFounded, WFMin
<1>3. \A m \in Stops : ~ (m < n)
  BY <1>1, <1>2 DEF OpToRel
<1>4. FailedAlike(n)
  <2>1. CASE n = 0
    BY <2>1 DEF FailedAlike
  <2>2. CASE n > 0
    <3>1. n - 1 \in 0 .. index /\ n - 1 < n /\ n - 1 < index /\ (n - 1) + 1 = n
      BY <1>1, <2>2
    <3>2. n - 1 \notin Stops
      BY <1>3, <3>1
    <3> QED BY <3>1, <3>2
  <2> QED BY <1>1, <2>1, <2>2
<1>5. n \in 0 .. index /\ (n < index => ~FailedAlike(n + 1))
  OBVIOUS
<1> HIDE DEF Stops
<1> QED BY <1>4, <1>5 DEF repeated

LEMMA NotRepeated ==
  ASSUME index \in Nat, repeated = 0, index > 0
  PROVE  ~(transcript[index].turn = turn /\ ~transcript[index].ok)
<1>1. ~FailedAlike(1)
  BY RepeatedCounts
<1>2. index - 1 + 1 = index /\ index .. index = {index}
  OBVIOUS
<1> QED BY <1>1, <1>2 DEF FailedAlike

LEMMA RepeatedReaches ==
  ASSUME index \in Nat, NEW n \in Nat \ {0}
  PROVE  repeated >= n <=> n <= index /\ FailedAlike(n)
<1>1. /\ repeated \in 0 .. index /\ FailedAlike(repeated)
      /\ repeated < index => ~FailedAlike(repeated + 1)
  BY RepeatedCounts
<1> HIDE DEF repeated
<1>2. ASSUME repeated >= n PROVE n <= index /\ FailedAlike(n)
  <2>1. (index - n + 1) .. index \subseteq (index - repeated + 1) .. index
    BY <1>1, <1>2
  <2> QED BY <1>1, <1>2, <2>1 DEF FailedAlike
<1>3. ASSUME n <= index, FailedAlike(n), repeated < n PROVE FALSE
  <2>1. (index - (repeated + 1) + 1) .. index \subseteq (index - n + 1) .. index
    BY <1>1, <1>3
  <2>2. FailedAlike(repeated + 1)
    BY <1>3, <2>1 DEF FailedAlike
  <2> QED BY <1>1, <1>3, <2>2
<1> QED BY <1>1, <1>2, <1>3

(***************************************************************************)
(* What reaches the surface                                                *)
(***************************************************************************)
\* A turn's action reached the surface when the turn was recorded, or is the one in hand.
ReachedInv ==
  /\ reached \subseteq 0 .. index
  /\ phase \in {"observe", "ask", "judge"} => index \notin reached
  /\ phase = "await" => index \in reached /\ turn.say.kind = "act"
  /\ OnlyCheckedTurnsReachTheSurface /\ FailedTurnIsNotRunAgain

\* What a quiet step leaves of the turns that reached the surface.
LEMMA QuietKeepsReached ==
  ASSUME TypeOK, TypeOK', ReachedInv, Quiet
  PROVE  /\ index' = index /\ reached' = reached /\ transcript' = transcript /\ index \in Nat
         /\ \A i \in reached : TurnOf(i)' = TurnOf(i) /\ PageOf(i)' = PageOf(i)
<1>1. index' = index /\ reached' = reached /\ transcript' = transcript /\ index \in Nat
  BY LenProperties DEF Quiet, index, TypeOK
<1>2. phase \in {"observe", "ask", "judge", "await", "done"}
  BY DEF TypeOK
<1>3. ASSUME NEW i \in reached PROVE TurnOf(i)' = TurnOf(i) /\ PageOf(i)' = PageOf(i)
  <2>1. CASE i < index
    BY <1>1, <2>1 DEF TurnOf, PageOf
  <2>2. CASE i = index
    <3>1. UNCHANGED <<turn, before>>
      BY <1>2, <1>3, <2>2 DEF ReachedInv, Quiet
    <3> QED BY <1>1, <3>1 DEF TurnOf, PageOf
  <2>3. reached \subseteq 0 .. index
    BY DEF ReachedInv
  <2>4. i < index \/ i = index
    BY <1>1, <2>3
  <2> QED BY <2>1, <2>2, <2>4
<1> QED BY <1>1, <1>3

LEMMA ReachedStep == TypeOK /\ TypeOK' /\ ReachedInv /\ RunStep => ReachedInv'
<1> SUFFICES ASSUME TypeOK, TypeOK', ReachedInv, RunStep PROVE ReachedInv'
  OBVIOUS
<1>1. CASE Quiet
  <2>1. /\ index' = index /\ reached' = reached /\ transcript' = transcript /\ index \in Nat
        /\ \A i \in reached : TurnOf(i)' = TurnOf(i) /\ PageOf(i)' = PageOf(i)
    BY <1>1, QuietKeepsReached
  <2>2. OnlyCheckedTurnsReachTheSurface' /\ FailedTurnIsNotRunAgain'
    BY <2>1 DEF ReachedInv, OnlyCheckedTurnsReachTheSurface, FailedTurnIsNotRunAgain
  <2>3. /\ phase' \in {"observe", "ask", "judge"} => index' \notin reached'
        /\ phase' = "await" => index' \in reached' /\ turn'.say.kind = "act"
    BY <1>1, <2>1 DEF ReachedInv, Quiet, TypeOK
  <2> QED BY <2>1, <2>2, <2>3 DEF ReachedInv
<1>2. ASSUME NEW problem \in Problem, phase \in {"judge", "await"}, Record(problem), UNCHANGED reached
      PROVE  ReachedInv'
  <2>1. Kept(problem)
    BY <1>2, RecordKeeps
  <2>2. reached' \subseteq 0 .. index
    BY <1>2 DEF ReachedInv
  <2>3. OnlyCheckedTurnsReachTheSurface'
    BY <1>2, <2>1, <2>2 DEF Kept, ReachedInv, OnlyCheckedTurnsReachTheSurface
  <2>4. FailedTurnIsNotRunAgain'
    <3>0. index \in Nat /\ reached' = reached
      BY <1>2, <2>1 DEF Kept
    <3>1. \A i \in reached \ {0} : i \in 1 .. index
      BY <2>2, <3>0
    <3> QED BY <1>2, <2>1, <2>2, <3>1 DEF Kept, ReachedInv, FailedTurnIsNotRunAgain
  <2> QED BY <2>1, <2>2, <2>3, <2>4 DEF Kept, ReachedInv
<1>3. CASE Dispatch
  <2>1. /\ phase = "judge" /\ repeated = 0 /\ turn.say.kind = "act" /\ turn \in Emitted
        /\ before \in Pages /\ ~before.notice /\ Picked /\ InBounds /\ ~turn.say.risky
        /\ reached' = reached \cup {index} /\ index \in Nat /\ index \notin reached
    BY <1>3, LenProperties DEF Dispatch, Allowed, Accepted, TypeOK, ReachedInv, index
  <2>2. TurnOf(index) = turn /\ PageOf(index) = before
    BY <2>1 DEF TurnOf, PageOf
  <2>3. /\ ~turn.say.risky /\ ~before.notice
        /\ turn.say.does = "navigate" => turn.say.goes \in AllowedLocations
        /\ turn.say.does # "navigate" => /\ turn.seen = index /\ turn.say.node \in before.finds
                                          /\ before.location \in AllowedLocations
    BY <2>1 DEF Picked, InBounds
  <2>4. index > 0 => ~(transcript[index].turn = turn /\ ~transcript[index].ok)
    BY <2>1, NotRepeated
  <2>5. CASE phase' = "await" /\ UNCHANGED <<before, turn, transcript, dead_ends, finished, raised>>
    <3>1. index' = index /\ \A i : TurnOf(i)' = TurnOf(i) /\ PageOf(i)' = PageOf(i)
      BY <2>5 DEF index, TurnOf, PageOf
    <3>2. OnlyCheckedTurnsReachTheSurface'
      BY <2>1, <2>2, <2>3, <3>1 DEF ReachedInv, OnlyCheckedTurnsReachTheSurface
    <3>3. FailedTurnIsNotRunAgain'
      BY <2>1, <2>2, <2>4, <2>5, <3>1 DEF ReachedInv, FailedTurnIsNotRunAgain
    <3> QED BY <2>1, <2>5, <3>1, <3>2, <3>3 DEF ReachedInv
  <2>6. CASE Record("dead_end")
    <3>1. Kept("dead_end")
      BY <2>1, <2>6, RecordKeeps DEF Problem
    <3>2. reached' \subseteq 0 .. index
      BY <2>1 DEF ReachedInv
    <3>3. OnlyCheckedTurnsReachTheSurface'
      <4> SUFFICES ASSUME NEW i \in reached'
                   PROVE  LET say == TurnOf(i)'.say IN
                          /\ ~say.risky /\ ~PageOf(i)'.notice
                          /\ say.does = "navigate" => say.goes \in AllowedLocations
                          /\ say.does # "navigate" =>
                               /\ TurnOf(i)'.seen = i /\ say.node \in PageOf(i)'.finds
                               /\ PageOf(i)'.location \in AllowedLocations
        BY DEF OnlyCheckedTurnsReachTheSurface
      <4>1. TurnOf(i)' = TurnOf(i) /\ PageOf(i)' = PageOf(i)
        BY <3>1, <3>2 DEF Kept
      <4>2. CASE i = index
        BY <2>2, <2>3, <4>1, <4>2
      <4>3. CASE i \in reached
        BY <4>1, <4>3 DEF ReachedInv, OnlyCheckedTurnsReachTheSurface
      <4> QED BY <2>1, <4>2, <4>3
    <3>4. FailedTurnIsNotRunAgain'
      <4> SUFFICES ASSUME NEW i \in reached' \ {0}
                   PROVE  ~(transcript'[i].turn = TurnOf(i)' /\ ~transcript'[i].ok)
        BY DEF FailedTurnIsNotRunAgain
      <4>1. TurnOf(i)' = TurnOf(i) /\ transcript'[i] = transcript[i] /\ i > 0
        BY <2>1, <3>1, <3>2 DEF Kept
      <4>2. CASE i = index
        BY <2>2, <2>4, <4>1, <4>2
      <4>3. CASE i \in reached
        BY <4>1, <4>3 DEF ReachedInv, FailedTurnIsNotRunAgain
      <4> QED BY <2>1, <4>2, <4>3
    <3> QED BY <2>1, <3>1, <3>2, <3>3, <3>4 DEF Kept, ReachedInv
  <2> QED BY <1>3, <2>5, <2>6 DEF Dispatch
<1>4. CASE RefuseRepeat
  BY <1>2, <1>4 DEF RefuseRepeat, Problem
<1> QED BY <1>1, <1>2, <1>3, <1>4, StepsOfARun DEF Refused, Judged, Proved

(***************************************************************************)
(* The end of a stuck run                                                  *)
(***************************************************************************)
AllBefore(i) ==
  /\ i > MAX_REPEATS
  /\ \A k \in 1 .. MAX_REPEATS : transcript[i - k].turn = transcript[i].turn /\ ~transcript[i - k].ok

LEMMA StuckStep ==
  TypeOK /\ TypeOK' /\ ReachedInv /\ StuckAfterThreeRefusals /\ RunStep => StuckAfterThreeRefusals'
<1> SUFFICES ASSUME TypeOK, TypeOK', ReachedInv, StuckAfterThreeRefusals, RunStep
             PROVE  StuckAfterThreeRefusals'
  OBVIOUS
<1>1. ASSUME NEW problem \in Problem, Kept(problem),
             problem = "stuck" <=> MAX_REPEATS <= index /\ FailedAlike(MAX_REPEATS)
      PROVE  StuckAfterThreeRefusals'
  <2> SUFFICES ASSUME NEW i \in 1 .. index + 1
               PROVE  transcript'[i].problem = "stuck" <=> AllBefore(i)'
    BY <1>1 DEF Kept, StuckAfterThreeRefusals, AllBefore
  <2>1. CASE i \in 1 .. index
    <3>1. transcript'[i] = transcript[i] /\ \A k \in 1 .. MAX_REPEATS : i > MAX_REPEATS =>
            transcript'[i - k] = transcript[i - k]
      BY <1>1, <2>1, ContractFacts DEF Kept
    <3>2. transcript[i].problem = "stuck" <=> AllBefore(i)
      BY <2>1 DEF StuckAfterThreeRefusals, AllBefore
    <3> QED BY <3>1, <3>2 DEF AllBefore
  <2>2. CASE i = index + 1
    <3>1. transcript'[i].problem = problem /\ transcript'[i].turn = turn
      BY <1>1, <2>2 DEF Kept, Told
    <3>2. ASSUME MAX_REPEATS <= index PROVE AllBefore(i)' <=> FailedAlike(MAX_REPEATS)
      <4>1. \A k \in 1 .. MAX_REPEATS : /\ transcript'[i - k] = transcript[i - k]
                                        /\ i - k \in (index - MAX_REPEATS + 1) .. index
        BY <1>1, <2>2, <3>2, ContractFacts DEF Kept
      <4>2. \A j \in (index - MAX_REPEATS + 1) .. index : i - j \in 1 .. MAX_REPEATS /\ i - (i - j) = j
        BY <1>1, <2>2, <3>2, ContractFacts DEF Kept
      <4>3. i > MAX_REPEATS
        BY <1>1, <2>2, <3>2, ContractFacts DEF Kept
      <4>4. ASSUME AllBefore(i)', NEW j \in (index - MAX_REPEATS + 1) .. index
            PROVE  transcript[j].turn = turn /\ ~transcript[j].ok
        <5>1. i - j \in 1 .. MAX_REPEATS /\ i - (i - j) = j
          BY <4>2
        <5> QED BY <3>1, <4>1, <4>4, <5>1 DEF AllBefore
      <4>5. ASSUME FailedAlike(MAX_REPEATS) PROVE AllBefore(i)'
        BY <3>1, <4>1, <4>3, <4>5 DEF AllBefore, FailedAlike
      <4> QED BY <4>4, <4>5 DEF FailedAlike
    <3>3. ASSUME ~(MAX_REPEATS <= index) PROVE ~AllBefore(i)'
      BY <1>1, <2>2, <3>3, ContractFacts DEF AllBefore, Kept
    <3> QED BY <1>1, <3>1, <3>2, <3>3
  <2> QED BY <1>1, <2>1, <2>2 DEF Kept
<1>2. CASE Quiet
  BY <1>2 DEF Quiet, StuckAfterThreeRefusals, index
<1>3. CASE RefuseRepeat
  <2>1. PICK problem \in {"stuck", "dead_end"} :
          /\ Record(problem) /\ phase = "judge" /\ (problem = "stuck" <=> repeated >= MAX_REPEATS)
    BY <1>3 DEF RefuseRepeat
  <2>2. Kept(problem)
    BY <2>1, RecordKeeps DEF Problem
  <2>3. repeated >= MAX_REPEATS <=> MAX_REPEATS <= index /\ FailedAlike(MAX_REPEATS)
    BY <2>2, ContractFacts, RepeatedReaches DEF Kept
  <2> QED BY <1>1, <2>1, <2>2, <2>3 DEF Problem
<1>4. ASSUME NEW problem \in Problem \ {"stuck"}, Record(problem), phase \in {"judge", "await"},
             index > 0 => ~(transcript[index].turn = turn /\ ~transcript[index].ok)
      PROVE  StuckAfterThreeRefusals'
  <2>1. Kept(problem)
    BY <1>4, RecordKeeps
  <2>2. ~(MAX_REPEATS <= index /\ FailedAlike(MAX_REPEATS))
    BY <1>4, <2>1, ContractFacts DEF Kept, FailedAlike
  <2> QED BY <1>1, <2>1, <2>2
<1>5. ASSUME phase = "judge", repeated = 0, index > 0
      PROVE  ~(transcript[index].turn = turn /\ ~transcript[index].ok)
  BY <1>5, NotRepeated, LenProperties DEF TypeOK, index
<1>6. CASE \E problem \in Problem : Judged(problem)
  BY <1>4, <1>5, <1>6 DEF Judged
<1>7. CASE \E problem \in Problem : Proved(problem)
  <2>1. phase = "await" /\ index \in reached /\ TurnOf(index) = turn /\ index \in Nat
    BY <1>7, LenProperties DEF Proved, ReachedInv, TurnOf, TypeOK, index
  <2>2. index > 0 => ~(transcript[index].turn = turn /\ ~transcript[index].ok)
    BY <2>1 DEF ReachedInv, FailedTurnIsNotRunAgain
  <2> QED BY <1>4, <1>7, <2>2 DEF Proved
<1>8. CASE Dispatch
  <2>1. phase = "judge" /\ repeated = 0
    BY <1>8 DEF Dispatch, Allowed, Accepted
  <2>2. CASE Record("dead_end")
    BY <1>4, <1>5, <2>1, <2>2 DEF Problem
  <2>3. CASE UNCHANGED transcript
    BY <2>3 DEF StuckAfterThreeRefusals, index
  <2> QED BY <1>8, <2>2, <2>3 DEF Dispatch
<1> QED BY <1>2, <1>3, <1>6, <1>7, <1>8, StepsOfARun DEF Refused

(***************************************************************************)
(* The outcome of a run                                                    *)
(***************************************************************************)
OkFinishes == {i \in 1 .. index : transcript[i].ok /\ transcript[i].turn.say.kind = "finish"}

LEMMA OutcomeStep ==
  TypeOK /\ TypeOK' /\ ReachedInv /\ OutcomeIsTheOneOkFinish /\ RunStep => OutcomeIsTheOneOkFinish'
<1> SUFFICES ASSUME TypeOK, TypeOK', ReachedInv, OutcomeIsTheOneOkFinish, RunStep
             PROVE  OutcomeIsTheOneOkFinish'
  OBVIOUS
<1>0. phase # "done" => OkFinishes = {}
  BY DEF TypeOK, OutcomeIsTheOneOkFinish, OkFinishes
<1>1. CASE Quiet
  <2>1. OkFinishes' = OkFinishes /\ index' = index
    BY <1>1 DEF Quiet, OkFinishes, index
  <2>2. CASE UNCHANGED finished
    BY <2>1, <2>2 DEF OutcomeIsTheOneOkFinish, OkFinishes
  <2>3. CASE ~UNCHANGED finished
    BY <1>0, <1>1, <2>1, <2>3 DEF Quiet, Finished, OutcomeIsTheOneOkFinish, OkFinishes
  <2> QED BY <2>2, <2>3
<1>2. ASSUME NEW problem \in Problem, Record(problem), phase \in {"judge", "await"}
      PROVE  OutcomeIsTheOneOkFinish'
  <2>1. Kept(problem) /\ finished = NoFinish
    BY <1>2, RecordKeeps DEF TypeOK
  <2>2. \A i \in OkFinishes' : i = index + 1 /\ problem = "none" /\ turn.say.kind = "finish"
    <3>1. \A i \in OkFinishes' : i \in 1 .. index => i \in OkFinishes
      BY <2>1 DEF Kept, OkFinishes
    <3>2. \A i \in OkFinishes' : i = index + 1
      BY <1>0, <1>2, <2>1, <3>1 DEF Kept, OkFinishes
    <3>3. transcript'[index + 1].ok = (problem = "none") /\ transcript'[index + 1].turn = turn
      BY <2>1, Tells DEF Kept
    <3> QED BY <3>2, <3>3 DEF OkFinishes
  <2>3. CASE problem = "none" /\ turn.say.kind = "finish"
    <3>1. OkFinishes' = {index'} /\ index' - 1 = index
      <4>1. index' = index + 1 /\ index \in Nat
        BY <2>1 DEF Kept
      <4>2. transcript'[index + 1].ok = (problem = "none") /\ transcript'[index + 1].turn = turn
        BY <2>1, Tells DEF Kept
      <4>3. index + 1 \in 1 .. index' /\ index' - 1 = index
        BY <4>1
      <4>4. index + 1 \in OkFinishes'
        BY <2>3, <4>2, <4>3 DEF OkFinishes
      <4> QED BY <2>2, <4>1, <4>3, <4>4
    <3>2. finished'.status # "failed" /\ finished' # NoFinish /\ finished'.turn = index
      <4>1. finished' = Finished(IF turn.say.success THEN "success" ELSE "business_outcome", "none", index)
        BY <1>2, <2>3 DEF Record
      <4>2. finished' \in Finishes
        BY <2>1, <4>1, ContractFacts DEF Kept, Finished, Finishes
      <4> QED BY <4>1, <4>2, ContractFacts DEF Finished
    <3> QED BY <3>1, <3>2 DEF OutcomeIsTheOneOkFinish, OkFinishes
  <2>4. CASE ~(problem = "none" /\ turn.say.kind = "finish")
    <3>1. OkFinishes' = {}
      BY <2>2, <2>4
    <3>2. finished' = NoFinish \/ finished'.status = "failed"
      BY <1>2, <2>1, <2>4 DEF Record, Failed, Finished
    <3> QED BY <3>1, <3>2 DEF OutcomeIsTheOneOkFinish, OkFinishes
  <2> QED BY <2>3, <2>4
<1>3. CASE Dispatch
  <2>1. CASE Record("dead_end")
    BY <1>2, <1>3, <2>1 DEF Dispatch, Allowed, Accepted, Problem
  <2>2. CASE UNCHANGED <<transcript, finished>>
    BY <2>2 DEF OutcomeIsTheOneOkFinish, index
  <2> QED BY <1>3, <2>1, <2>2 DEF Dispatch
<1>4. CASE RefuseRepeat
  BY <1>2, <1>4 DEF RefuseRepeat, Problem
<1> QED BY <1>1, <1>2, <1>3, <1>4, StepsOfARun DEF Refused, Judged, Proved

\* What is in run.outputs was read by a turn whose action reached the surface.
Reads(say, name) == say.does = "read" /\ say.bind_to = name
ReadInv ==
  /\ \A name \in outputs : \E i \in reached : Reads(TurnOf(i).say, name)
  /\ finished # NoFinish /\ finished.status = "success" => Outputs \subseteq outputs

LEMMA ReadStep == TypeOK /\ TypeOK' /\ ReachedInv /\ ReadInv /\ RunStep => ReadInv'
<1> SUFFICES ASSUME TypeOK, TypeOK', ReachedInv, ReadInv, RunStep PROVE ReadInv'
  OBVIOUS
<1>1. CASE Quiet
  <2>1. \A i \in reached : TurnOf(i)' = TurnOf(i)
    BY <1>1, QuietKeepsReached
  <2>2. finished' = finished \/ finished'.status = "failed"
    BY <1>1 DEF Quiet, Finished
  <2> QED BY <1>1, <2>1, <2>2 DEF Quiet, ReadInv
<1>2. ASSUME NEW problem \in Problem, Record(problem), phase \in {"judge", "await"},
             UNCHANGED <<outputs, reached>>, turn.say.kind = "finish" /\ problem = "none" => Bindable
      PROVE  ReadInv'
  <2>1. Kept(problem) /\ reached \subseteq 0 .. index /\ finished = NoFinish
    BY <1>2, RecordKeeps DEF ReachedInv, TypeOK
  <2>2. \A i \in reached : TurnOf(i)' = TurnOf(i)
    BY <2>1 DEF Kept
  <2>3. ASSUME finished' # NoFinish, finished'.status = "success" PROVE Outputs \subseteq outputs
    <3>1. turn.say.kind = "finish" /\ turn.say.success /\ problem = "none"
      BY <1>2, <2>1, <2>3 DEF Record, Failed, Finished
    <3> QED BY <1>2, <3>1 DEF Bindable
  <2> QED BY <1>2, <2>2, <2>3 DEF ReadInv
<1>3. CASE RefuseRepeat
  BY <1>2, <1>3 DEF RefuseRepeat, Problem
<1>4. CASE \E problem \in Problem : Judged(problem) \/ Proved(problem)
  BY <1>2, <1>4 DEF Judged, Proved, ReachedInv
<1>5. CASE Dispatch
  <2>1. /\ phase = "judge" /\ reached' = reached \cup {index} /\ TurnOf(index) = turn
        /\ outputs' = IF turn.say.does = "read" THEN outputs \cup {turn.say.bind_to} ELSE outputs
        /\ finished = NoFinish /\ index \in Nat /\ reached \subseteq 0 .. index
    BY <1>5, LenProperties DEF Dispatch, Allowed, Accepted, TurnOf, TypeOK, index, ReachedInv
  <2>2. \A name \in outputs' : \E i \in reached' : Reads(TurnOf(i).say, name)
    BY <2>1 DEF ReadInv, Reads
  <2>3. CASE Record("dead_end")
    <3>1. Kept("dead_end")
      BY <2>1, <2>3, RecordKeeps DEF Problem
    <3>2. \A i \in reached' : TurnOf(i)' = TurnOf(i)
      BY <2>1, <3>1 DEF Kept
    <3>3. finished' = NoFinish \/ finished'.status # "success"
      BY <2>1, <2>3 DEF Record, Failed, Finished
    <3> QED BY <2>2, <3>2, <3>3 DEF ReadInv
  <2>4. CASE UNCHANGED <<turn, transcript, finished>>
    BY <2>1, <2>2, <2>4 DEF ReadInv, TurnOf, index
  <2> QED BY <1>5, <2>3, <2>4 DEF Dispatch
<1> QED BY <1>1, <1>3, <1>4, <1>5, StepsOfARun DEF Refused

\* Until a run is over its turns are those it survived, and none of them gave up.
DeadEnds == {i \in 1 .. index : transcript[i].problem = "dead_end"}
Survived ==
  \A i \in 1 .. index : transcript[i].problem \in {"none", "dead_end"} /\ transcript[i].turn.say.kind # "give_up"
FailureInv == FailureNamesItsTurn /\ (phase # "done" => Survived)

LEMMA DeadEndsCount ==
  ASSUME index \in Nat, NEW problem \in Problem, Kept(problem), dead_ends = Cardinality(DeadEnds),
         dead_ends' = IF problem = "dead_end" THEN dead_ends + 1 ELSE dead_ends
  PROVE  dead_ends' = Cardinality(DeadEnds')
<1>1. IsFiniteSet(1 .. index) /\ DeadEnds \subseteq 1 .. index
  BY FS_Interval DEF DeadEnds
<1>2. IsFiniteSet(DeadEnds)
  BY <1>1, FS_Subset
<1>3. CASE problem = "dead_end"
  <2>1. DeadEnds' = DeadEnds \cup {index + 1} /\ index + 1 \notin DeadEnds
    BY <1>3 DEF Kept, Told, DeadEnds
  <2> QED BY <1>2, <1>3, <2>1, FS_AddElement
<1>4. CASE problem # "dead_end"
  <2>1. DeadEnds' = DeadEnds
    BY <1>4 DEF Kept, Told, DeadEnds
  <2> QED BY <1>4, <2>1
<1> QED BY <1>3, <1>4

LEMMA FailureStep ==
  TypeOK /\ TypeOK' /\ ReachedInv /\ FailureInv /\ RunStep => FailureInv'
<1> SUFFICES ASSUME TypeOK, TypeOK', ReachedInv, FailureInv, RunStep PROVE FailureInv'
  OBVIOUS
<1>1. CASE Quiet
  <2>1. index' = index /\ transcript' = transcript /\ dead_ends' = dead_ends /\ Survived' = Survived
    BY <1>1 DEF Quiet, index, Survived
  <2>2. CASE UNCHANGED finished
    BY <1>1, <2>1, <2>2 DEF Quiet, TypeOK, FailureInv, FailureNamesItsTurn
  <2>3. CASE ~UNCHANGED finished
    <3>1. PICK kind \in {"interstitial", "surface_error", "model_error"} :
            finished' = [status |-> "failed", kind |-> kind, turn |-> index]
      BY <1>1, <2>3 DEF Quiet, Finished
    <3>2. phase # "done" /\ phase' = "done" /\ Survived
      BY <1>1, <2>3 DEF Quiet, FailureInv
    <3> QED BY <2>1, <3>1, <3>2 DEF FailureInv, FailureNamesItsTurn, Survived
  <2> QED BY <2>2, <2>3
<1>2. ASSUME NEW problem \in Problem, Record(problem), phase \in {"judge", "await"},
             turn.say.kind = "give_up" => problem = "none"
      PROVE  FailureInv'
  <2>1. Kept(problem) /\ finished = NoFinish /\ Survived /\ index \in Nat
    BY <1>2, RecordKeeps DEF TypeOK, FailureInv, Kept
  <2>2. dead_ends' = Cardinality(DeadEnds')
    BY <1>2, <2>1, DeadEndsCount DEF FailureInv, FailureNamesItsTurn, DeadEnds, Record
  <2>3. transcript'[index'] = Told(problem) /\ index' = index + 1 /\ index' - 1 = index
    BY <2>1 DEF Kept
  <2>4. CASE problem \notin {"none", "dead_end"}
    <3>1. /\ finished' = [status |-> "failed", kind |-> problem, turn |-> index] /\ phase' = "done"
          /\ problem \in {"stuck", "approval_required", "interstitial"}
      BY <1>2, <2>4 DEF Record, Failed, Finished, Problem
    <3> QED BY <2>2, <2>3, <3>1 DEF FailureInv, FailureNamesItsTurn, DeadEnds, Told
  <2>5. CASE problem \in {"none", "dead_end"} /\ turn.say.kind = "give_up"
    <3>1. finished' = [status |-> "failed", kind |-> "gave_up", turn |-> index] /\ phase' = "done"
      BY <1>2, <2>5 DEF Record, Failed, Finished
    <3>2. transcript'[index'].ok = (problem = "none") /\ transcript'[index'].turn = turn
      BY <2>3, Tells
    <3>3. transcript'[index'].ok /\ transcript'[index'].turn.say.kind = "give_up"
      BY <1>2, <2>5, <3>2
    <3> QED BY <2>2, <2>3, <3>1, <3>3 DEF FailureInv, FailureNamesItsTurn, DeadEnds
  <2>6. CASE problem \in {"none", "dead_end"} /\ turn.say.kind # "give_up"
    <3>1. Survived'
      BY <2>1, <2>3, <2>6 DEF Kept, Survived, Told
    <3>2. \/ finished' = NoFinish \/ finished'.status # "failed"
          \/ finished' = [status |-> "failed", kind |-> "budget_exhausted", turn |-> MAX_TURNS]
             /\ index + 1 = MAX_TURNS
      BY <1>2, <2>1, <2>6 DEF Record, Failed, Finished
    <3> QED BY <2>2, <2>3, <3>1, <3>2 DEF FailureInv, FailureNamesItsTurn, DeadEnds
  <2> QED BY <2>4, <2>5, <2>6
<1>3. CASE RefuseRepeat
  <2>1. phase = "judge" /\ repeated > 0 /\ index \in Nat /\ Survived
    BY <1>3, LenProperties DEF RefuseRepeat, FailureInv, TypeOK, index
  <2>2. 1 <= index /\ FailedAlike(1)
    <3>1. repeated \in 0 .. index
      BY <2>1, RepeatedCounts
    <3>2. repeated >= 1
      BY <2>1, <3>1
    <3> QED BY <2>1, <3>2, RepeatedReaches
  <2>3. transcript[index].turn = turn
    BY <2>1, <2>2 DEF FailedAlike
  <2>4. turn.say.kind # "give_up"
    BY <2>1, <2>2, <2>3 DEF Survived
  <2> QED BY <1>2, <1>3, <2>1, <2>4 DEF RefuseRepeat, Problem
<1>4. CASE \E problem \in Problem : Judged(problem) \/ Proved(problem)
  BY <1>2, <1>4 DEF Judged, Proved, ReachedInv
<1>5. CASE Dispatch
  <2>1. phase = "judge" /\ turn.say.kind = "act"
    BY <1>5 DEF Dispatch, Allowed, Accepted
  <2>2. CASE Record("dead_end")
    BY <1>2, <2>1, <2>2 DEF Problem
  <2>3. CASE phase' = "await" /\ UNCHANGED <<transcript, dead_ends, finished>>
    BY <2>1, <2>3 DEF FailureInv, FailureNamesItsTurn, Survived, index
  <2> QED BY <1>5, <2>2, <2>3 DEF Dispatch
<1> QED BY <1>1, <1>3, <1>4, <1>5, StepsOfARun DEF Refused

(***************************************************************************)
(* A run and its re-run                                                    *)
(***************************************************************************)
\* The ids of a first run are of its own observations, and a re-run answers with the
\* entries of such a run.
OwnEntry(entry) == entry \in Entry /\ entry.turn.seen < MAX_TURNS
BothInv ==
  /\ Live => /\ phase \in {"judge", "await"} => turn.seen < MAX_TURNS
             /\ \A i \in 1 .. index : transcript[i].turn.seen < MAX_TURNS
  /\ ~Live => /\ recorded.turns \in Seq(Entry)
              /\ \A i \in 1 .. Len(recorded.turns) : OwnEntry(recorded.turns[i])

LoopInv ==
  /\ TypeOK /\ ReachedInv /\ StuckAfterThreeRefusals /\ OutcomeIsTheOneOkFinish /\ ReadInv /\ FailureInv

LEMMA AnswerIsTyped ==
  ASSUME TypeOK, NEW say \in Turns, Answer(say)
  PROVE  AnyAnswer /\ ((\A i \in 1 .. index : transcript[i].turn.seen < MAX_TURNS) => turn'.seen < MAX_TURNS)
<1>1. /\ index \in Nat /\ index < MAX_TURNS /\ MAX_TURNS \in Nat /\ say \in Turn
      /\ \A i \in 1 .. index : transcript[i].turn \in Emitted
  <2>1. \A i \in 1 .. Len(transcript) : transcript[i] \in Entry
    BY ElementOfSeq DEF TypeOK
  <2> QED BY <2>1, ContractFacts, LenProperties DEF Answer, TypeOK, index, Entry
<1>2. PICK seen \in {index} \cup {transcript[i].turn.seen : i \in {index} \ {0}} \cup {0} :
        turn' = [say |-> say, seen |-> seen]
  BY DEF Answer
<1>3. seen \in 0 .. 2 * MAX_TURNS - 1
  <2>1. CASE seen \in {0, index}
    BY <1>1, <2>1
  <2>2. CASE index > 0 /\ seen = transcript[index].turn.seen
    BY <1>1, <2>2 DEF Emitted
  <2> QED BY <1>1, <1>2, <2>1, <2>2
<1>4. turn' \in Emitted
  BY <1>1, <1>2, <1>3 DEF Emitted
<1>5. (\A i \in 1 .. index : transcript[i].turn.seen < MAX_TURNS) => seen < MAX_TURNS
  BY <1>1, <1>2
<1> QED BY <1>2, <1>4, <1>5 DEF Answer, AnyAnswer

LEMMA ReboundIsTyped ==
  ASSUME TypeOK, BothInv, ~Live, next_turn
  PROVE  AnyAnswer
<1> DEFINE entry == Next_record
<1>1. /\ OwnEntry(entry) /\ index \in Nat /\ index < MAX_TURNS /\ MAX_TURNS \in Nat
      /\ before \in Page /\ turn' \in _rebind(entry, index)
  <2>1. index \in Nat /\ index < MAX_TURNS /\ before \in Page
    BY ContractFacts, LenProperties DEF next_turn, TypeOK, index
  <2>2. index + 1 \in 1 .. Len(recorded.turns)
    <3>1. Len(recorded.turns) \in Nat
      BY LenProperties DEF BothInv
    <3> QED BY <2>1, <3>1 DEF next_turn, Exhausted
  <2> QED BY <2>1, <2>2, ContractFacts DEF BothInv, Next_record, next_turn
<1> HIDE DEF entry
<1>2. /\ entry.turn \in Emitted /\ entry.turn.say \in Turn /\ entry.turn.say.expect \in Expect
      /\ entry.turn.seen \in 0 .. MAX_TURNS - 1
  BY <1>1 DEF OwnEntry, Entry, Emitted, Turn
<1>3. as_recorded(entry) \in Emitted
  <2>1. MAX_TURNS + entry.turn.seen \in 0 .. 2 * MAX_TURNS - 1
    BY <1>1, <1>2
  <2> QED BY <1>2, <2>1 DEF as_recorded, Emitted
<1>4. ASSUME NEW node \in Nodes, NEW expected \in Nodes \cup {NoNode}
      PROVE  Bound(entry, index, node, expected) \in Emitted
  <2> DEFINE expect == [entry.turn.say.expect EXCEPT
                          !.node = IF entry.turn.say.expect.of = "value" THEN expected ELSE @]
  <2>1. expect \in Expect
    BY <1>2 DEF Expect
  <2>2. Bound(entry, index, node, expected).say = [entry.turn.say EXCEPT !.node = node, !.expect = expect]
    BY <1>2 DEF Bound, Turn
  <2> HIDE DEF expect
  <2>3. [entry.turn.say EXCEPT !.node = node, !.expect = expect] \in Turn
    BY <1>2, <2>1 DEF Turn
  <2>4. index \in 0 .. 2 * MAX_TURNS - 1
    BY <1>1
  <2> QED BY <2>2, <2>3, <2>4 DEF Bound, Emitted
<1>5. CASE target(entry, index) # NoNode
  <2> DEFINE nodes == wanted(entry, index)
             expected == entry.turn.say.expect.node
  <2>1. PICK live \in locate(nodes) :
          turn' = Bound(entry, index, live[target(entry, index)],
                        IF expected \in nodes THEN live[expected] ELSE NoNode)
    BY <1>1, <1>5 DEF _rebind
  <2>2. target(entry, index) \in nodes
    BY <1>5 DEF wanted
  <2> HIDE DEF nodes
  <2>3. live \in [nodes -> Nodes]
    BY <1>1, <2>1 DEF locate, Page
  <2>4. turn' \in Emitted
    BY <1>4, <2>1, <2>2, <2>3
  <2> QED BY <2>4 DEF next_turn, AnyAnswer
<1>6. CASE target(entry, index) = NoNode
  BY <1>1, <1>3, <1>6 DEF _rebind, next_turn, AnyAnswer
<1> QED BY <1>5, <1>6

\* A step of either run is one of a run, or begins the re-run.
LEMMA StepOfEither == TypeOK /\ BothInv /\ NextBoth => RunStep \/ Again
<1> SUFFICES ASSUME TypeOK, BothInv, NextBoth PROVE RunStep \/ Again
  OBVIOUS
<1>1. CASE Regular \/ Irregular
  BY <1>1 DEF Regular, Irregular, RunStep, LoopStep
<1>2. CASE Asked
  BY <1>2, AnswerIsTyped, ReboundIsTyped DEF Asked, ModelStep, Diverges, RunStep
<1>3. CASE Drift \/ Over
  BY <1>3 DEF Over, RunStep
<1> QED BY <1>1, <1>2, <1>3 DEF NextBoth, Run

\* Every run begins with nothing recorded.
LEMMA Begins ==
  Init => LoopInv
<1> SUFFICES ASSUME Init PROVE LoopInv
  OBVIOUS
<1>1. index = 0
  BY DEF Init, index
<1>2. 1 .. index = {} /\ Cardinality({}) = 0
  BY <1>1, FS_EmptySet
<1>3. TypeOK
  BY <1>1, ApplicationAssumption, ContractFacts DEF Init, TypeOK, index
<1>4. ReachedInv /\ StuckAfterThreeRefusals /\ ReadInv
  BY <1>2 DEF Init, ReachedInv, OnlyCheckedTurnsReachTheSurface, FailedTurnIsNotRunAgain,
     StuckAfterThreeRefusals, ReadInv
<1>5. OutcomeIsTheOneOkFinish /\ FailureInv
  BY <1>2 DEF Init, OutcomeIsTheOneOkFinish, FailureInv, FailureNamesItsTurn, Survived
<1> QED BY <1>3, <1>4, <1>5 DEF LoopInv

LEMMA AgainBegins == Again => Init'
BY DEF Again, Init

LEMMA LoopNext == LoopInv /\ BothInv /\ [NextBoth]_allVars => LoopInv'
<1> SUFFICES ASSUME LoopInv, BothInv, [NextBoth]_allVars PROVE LoopInv'
  OBVIOUS
<1>1. CASE RunStep
  BY <1>1, TypeStep, ReachedStep, StuckStep, OutcomeStep, ReadStep, FailureStep DEF LoopInv
<1>2. CASE Again
  <2>1. Init'
    BY <1>2, AgainBegins
  <2> QED BY <2>1, Begins, PTL
<1>3. CASE UNCHANGED allVars
  BY <1>1, <1>3 DEF allVars, RunStep
<1> QED BY <1>1, <1>2, <1>3, StepOfEither DEF LoopInv

LEMMA BothNext == LoopInv /\ BothInv /\ [NextBoth]_allVars => BothInv'
<1> SUFFICES ASSUME LoopInv, BothInv, [NextBoth]_allVars PROVE BothInv'
  OBVIOUS
<1>t. TypeOK /\ TypeOK' /\ \A i \in 1 .. index : transcript[i] \in Entry
  BY LoopNext, ElementOfSeq DEF LoopInv, TypeOK, index
<1>1. CASE Again
  <2>1. recorded'.turns = transcript /\ index' = 0 /\ phase' = "observe" /\ Live
    BY <1>1 DEF Again, index
  <2>2. \A i \in 1 .. index : OwnEntry(transcript[i])
    BY <1>t, <2>1 DEF BothInv, OwnEntry
  <2>3. 1 .. index' = {}
    BY <2>1
  <2> QED BY <1>t, <2>1, <2>2, <2>3 DEF BothInv, OwnEntry, Live, index, TypeOK
<1>2. CASE UNCHANGED recorded /\ ~Live
  BY <1>2 DEF BothInv, Live, OwnEntry
<1>3. ASSUME UNCHANGED recorded, Live, RunStep,
             AnyAnswer => turn'.seen < MAX_TURNS
      PROVE  BothInv'
  <2>1. \A i \in 1 .. index : transcript[i].turn.seen < MAX_TURNS
    BY <1>3 DEF BothInv
  <2>2. CASE \E problem \in Problem : Record(problem) /\ phase \in {"judge", "await"}
    <3>1. PICK problem \in Problem : Record(problem) /\ phase \in {"judge", "await"}
      BY <2>2
    <3>2. Kept(problem)
      BY <1>t, <3>1, RecordKeeps
    <3>3. \A i \in 1 .. index' : transcript'[i].turn.seen < MAX_TURNS
      <4> SUFFICES ASSUME NEW i \in 1 .. index + 1 PROVE transcript'[i].turn.seen < MAX_TURNS
        BY <3>2 DEF Kept
      <4>1. CASE i \in 1 .. index
        BY <2>1, <3>2, <4>1 DEF Kept
      <4>2. CASE i = index + 1
        BY <1>3, <3>1, <3>2, <4>2, Tells DEF Kept, BothInv
      <4> QED BY <3>2, <4>1, <4>2 DEF Kept
    <3> QED BY <1>3, <3>2, <3>3 DEF BothInv, Live, Kept
  <2>3. CASE UNCHANGED <<transcript, turn>> /\ (phase' \in {"judge", "await"} => phase \in {"judge", "await"})
    BY <1>3, <2>3 DEF BothInv, Live, index
  <2>4. CASE AnyAnswer
    BY <1>3, <2>1, <2>4 DEF AnyAnswer, BothInv, Live, index
  <2>5. CASE phase' \notin {"judge", "await"} /\ UNCHANGED transcript
    BY <1>3, <2>1, <2>5 DEF BothInv, Live, index
  <2>6. RunStep => \/ \E problem \in Problem : Record(problem) /\ phase \in {"judge", "await"}
                   \/ UNCHANGED <<transcript, turn>> /\ (phase' \in {"judge", "await"} => phase \in {"judge", "await"})
                   \/ AnyAnswer \/ (phase' \notin {"judge", "await"} /\ UNCHANGED transcript)
    <3>1. CASE LoopStep
      BY <3>1 DEF LoopStep, Observe, ObserveFails, RefuseRepeat, GiveUp, ActIsWrong, ActIsRisky,
         ActFails, Dispatch, Await, AwaitExpires, Finish, Allowed, Accepted, Failed, Escape, Problem
    <3>2. CASE ModelFails \/ Drift \/ UNCHANGED vars
      BY <3>2 DEF ModelFails, Failed, Drift, vars
    <3> QED BY <3>1, <3>2 DEF RunStep
  <2> QED BY <1>3, <2>2, <2>3, <2>4, <2>5, <2>6
<1>4. ASSUME Live, NextBoth, ~Again
      PROVE  UNCHANGED recorded /\ RunStep /\ (AnyAnswer => turn'.seen < MAX_TURNS)
  <2>1. UNCHANGED recorded /\ RunStep
    BY <1>t, <1>4, StepOfEither DEF NextBoth, Run
  <2>2. ASSUME AnyAnswer PROVE turn'.seen < MAX_TURNS
    <3>1. phase = "ask" /\ phase' = "judge"
      BY <2>2 DEF AnyAnswer
    <3>2. \E say \in Turns : Answer(say)
      BY <1>4, <3>1 DEF NextBoth, Run, Regular, Irregular, Asked, ModelStep, ModelFails, Failed, Drift,
         Over, Observe, ObserveFails, RefuseRepeat, GiveUp, ActIsWrong, ActIsRisky, ActFails, Dispatch,
         Await, AwaitExpires, Finish, Allowed, Accepted, vars
    <3> QED BY <1>4, <1>t, <3>2, AnswerIsTyped DEF BothInv
  <2> QED BY <2>1, <2>2
<1>5. CASE UNCHANGED allVars
  BY <1>5 DEF allVars, vars, BothInv, Live, OwnEntry, index
<1>6. CASE NextBoth /\ ~Live /\ ~Again
  <2>1. UNCHANGED recorded
    BY <1>6 DEF NextBoth, Run
  <2> QED BY <1>2, <1>6, <2>1
<1> QED BY <1>1, <1>3, <1>4, <1>5, <1>6

LEMMA LoopAlways == SpecBoth => []LoopInv
<1>1. InitBoth => LoopInv
  BY Begins DEF InitBoth
<1>2. InitBoth => BothInv
  <2> SUFFICES ASSUME InitBoth PROVE BothInv
    OBVIOUS
  <2>1. index = 0 /\ 1 .. 0 = {} /\ Live /\ phase = "observe"
    BY DEF InitBoth, Init, index, Live
  <2> QED BY <2>1 DEF BothInv
<1> QED BY <1>1, <1>2, LoopNext, BothNext, PTL DEF SpecBoth

\* Every variable of the loop keeps its range, whatever the model and the application do,
\* and whatever a transcript answers.
THEOREM TypeCorrect == SpecBoth => []TypeOK
<1>1. LoopInv => TypeOK
  BY DEF LoopInv
<1> QED BY LoopAlways, <1>1, PTL

\* No action of an unapproved risk, off the allowlist, behind a notice or on a node of an
\* earlier page reaches the surface, for any model and any application.
THEOREM OnlyCheckedTurns == SpecBoth => []OnlyCheckedTurnsReachTheSurface
<1>1. LoopInv => OnlyCheckedTurnsReachTheSurface
  BY DEF LoopInv, ReachedInv
<1> QED BY LoopAlways, <1>1, PTL

\* A turn that failed is not executed again when the model repeats it.
THEOREM RepeatsAreRefused == SpecBoth => []FailedTurnIsNotRunAgain
<1>1. LoopInv => FailedTurnIsNotRunAgain
  BY DEF LoopInv, ReachedInv
<1> QED BY LoopAlways, <1>1, PTL

\* A run is stuck exactly after MAX_REPEATS failures of one turn in a row, for any limit.
THEOREM StuckWhenRepeating == SpecBoth => []StuckAfterThreeRefusals
<1>1. LoopInv => StuckAfterThreeRefusals
  BY DEF LoopInv
<1> QED BY LoopAlways, <1>1, PTL

\* The compiler finds one ok finish turn in the transcript of a run with an outcome, the
\* last, and none in any other.
THEOREM OneOkFinish == SpecBoth => []OutcomeIsTheOneOkFinish
<1>1. LoopInv => OutcomeIsTheOneOkFinish
  BY DEF LoopInv
<1> QED BY LoopAlways, <1>1, PTL

\* A success has read each declared output by an action that reached the surface.
THEOREM SuccessReads == SpecBoth => []SuccessReadEveryOutput
<1>1. LoopInv => SuccessReadEveryOutput
  BY DEF LoopInv, ReadInv, Reads, SuccessReadEveryOutput
<1> QED BY LoopAlways, <1>1, PTL

\* The result and the transcript agree on the dead ends and on the turn a failure ended at.
THEOREM FailureNamesTurn == SpecBoth => []FailureNamesItsTurn
<1>1. LoopInv => FailureNamesItsTurn
  BY DEF LoopInv, FailureInv
<1> QED BY LoopAlways, <1>1, PTL
=============================================================================
