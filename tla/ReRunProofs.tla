----------------------------- MODULE ReRunProofs -----------------------------
(***************************************************************************)
(* A proof that a transcript can be re-run: for every contract, model,     *)
(* application and budget, a run that ended with an outcome and was not    *)
(* disturbed is reproduced turn by turn by its own transcript.             *)
(***************************************************************************)
EXTENDS DiscoveryProofs

(***************************************************************************)
(* What a transcript tells of each of its turns                            *)
(***************************************************************************)
\* The checks of an act and the verdict on an expectation, of a turn asked for on page b as
\* the one at this place.
Right(said, b, at) ==
  /\ IF said.say.does = "navigate" THEN ~names_node(said.say) ELSE said.seen = at /\ said.say.node \in b.finds
  /\ said.say.does = "read" => said.say.bind_to \in Outputs
  /\ said.say.value \in Inputs \cup {"none"}
  /\ (IF said.say.does = "navigate" THEN said.say.goes ELSE b.location) \in AllowedLocations

Known(said, b, at) == said.seen = at /\ said.say.expect.node \in b.finds \cup b.vague
Verdict(said, b, at, after) ==
  LET expect == said.say.expect
  IN IF expect.of = "value" /\ ~Known(said, b, at) THEN "KeyError"
     ELSE IF (expect.of = "value" /\ expect.node \in b.vague) \/ expect \in after.many THEN "unclear"
     ELSE IF expect \notin after.shows THEN "not yet"
     ELSE IF expect.of = "value" /\ expect.input \notin Inputs \cup {"none"} THEN "KeyError"
     ELSE "holds"

Repeats(T, i) == i > 1 /\ T[i - 1].turn = T[i].turn /\ ~T[i - 1].ok
Ran(T, i) == T[i].turn.say.kind = "act" /\ ~Repeats(T, i) /\ Right(T[i].turn, T[i].page, i - 1)

\* The outputs the first i turns read.
ReadBy(T, i) == {T[j].turn.say.bind_to : j \in {k \in 1 .. i : Ran(T, k) /\ T[k].turn.say.does = "read"}}

FinishFits(say, read) ==
  /\ say.binds \subseteq Outputs \cap read /\ (say.success => Outputs \subseteq say.binds)
  /\ ~Inlined(say.expect, read)

\* The i-th turn ended as it had to, on the page after if it was an act that reached the surface.
Proven(said, b, at, after, ok) ==
  /\ Verdict(said, b, at, after) # "KeyError" /\ (ok <=> Verdict(said, b, at, after) = "holds")
Made(T, i, after) ==
  LET e == T[i]
      say == e.turn.say
  IN /\ e.problem \in {"none", "dead_end"} /\ say.kind # "give_up" /\ ~e.page.notice /\ e.turn.seen < i
     /\ ~Ran(T, i) => after = e.page
     /\ Repeats(T, i) => ~e.ok
     /\ say.kind = "act" /\ ~Ran(T, i) => ~e.ok
     /\ Ran(T, i) => /\ ~say.risky
                     /\ IF Inlined(say.expect, ReadBy(T, i)) THEN ~e.ok
                        ELSE ~after.notice /\ Proven(e.turn, e.page, i - 1, after, e.ok)
     /\ say.kind = "finish" /\ ~Repeats(T, i) =>
          IF FinishFits(say, ReadBy(T, i)) THEN Proven(e.turn, e.page, i - 1, e.page, e.ok) ELSE ~e.ok

(***************************************************************************)
(* The first run                                                           *)
(***************************************************************************)
\* The page the turn to come was, or will be, asked for on.
Here == IF phase \in {"ask", "judge", "await"} THEN before ELSE page
Next_page(i) == IF i < index THEN transcript[i + 1].page ELSE Here

RepeatsNow == index > 0 /\ transcript[index].turn = turn /\ ~transcript[index].ok

GoesOn == phase # "done" \/ (finished # NoFinish /\ finished.status # "failed")

\* The entries so far are made as they must be, the run has read what they tell, and an act
\* that awaits its proof passed every check.
FirstBody ==
  /\ \A i \in 1 .. index : Made(transcript, i, Next_page(i))
  /\ phase \in {"ask", "judge"} => page = before
  /\ phase \in {"judge", "await"} => turn.seen <= index
  /\ outputs = ReadBy(transcript, index) \cup
                 (IF phase = "await" /\ turn.say.does = "read" THEN {turn.say.bind_to} ELSE {})
  /\ phase = "await" => /\ ~RepeatsNow /\ Right(turn, before, index) /\ turn.say.kind = "act"
                        /\ ~turn.say.risky /\ ~Inlined(turn.say.expect, outputs)

\* An outcome is the last entry's: a finish that held.
FirstEnd ==
  /\ index > 0 /\ transcript[index].ok /\ transcript[index].turn.say.kind = "finish"
  /\ finished = Finished(IF transcript[index].turn.say.success THEN "success" ELSE "business_outcome",
                         "none", index - 1)

\* Of a run nothing disturbed, while it may still end with an outcome, and when it has.
FirstInv == Live /\ steady /\ GoesOn => FirstBody /\ (phase = "done" => FirstEnd)

(***************************************************************************)
(* The transcript that answers                                             *)
(***************************************************************************)
\* The i-th turn was refused once too often.
AlikeBefore(T, i) ==
  i > MAX_REPEATS /\ \A k \in 1 .. MAX_REPEATS : T[i - k].turn = T[i].turn /\ ~T[i - k].ok

Then(T, i) == IF i < Len(T) THEN T[i + 1].page ELSE T[i].page

\* What the transcript of such a run is.
Reproducible(T) ==
  /\ T \in Seq(Entry) /\ Len(T) \in 1 .. MAX_TURNS
  /\ \A i \in 1 .. Len(T) : /\ Made(T, i, Then(T, i)) /\ ~AlikeBefore(T, i)
                            /\ T[i].ok /\ T[i].turn.say.kind = "finish" <=> i = Len(T)
Outcome(T) == Finished(IF T[Len(T)].turn.say.success THEN "success" ELSE "business_outcome", "none", Len(T) - 1)

RecordedInv ==
  ~Live => /\ Reproducible(recorded.turns) /\ recorded.outputs = ReadBy(recorded.turns, Len(recorded.turns))
           /\ recorded.finished = Outcome(recorded.turns)

\* What is said again for the i-th turn, when its nodes can be bound.
Said(T, i) == IF target(T[i], i - 1) = NoNode THEN as_recorded(T[i]) ELSE T[i].turn

Turns_recorded == recorded.turns
Recorded_length == Len(Turns_recorded)

\* The re-run is where the recorded run was before its next turn, on the same page with the
\* same outputs, and has said and ended every turn before it as recorded.
ReRunBody ==
  /\ index <= Recorded_length
  /\ \A i \in 1 .. index : /\ transcript[i].turn = Said(Turns_recorded, i)
                           /\ transcript[i].ok = Turns_recorded[i].ok
  /\ outputs = ReadBy(Turns_recorded, IF phase = "await" THEN index + 1 ELSE index)
  /\ phase # "done" => index < Recorded_length /\ Here = Turns_recorded[index + 1].page
  /\ phase \in {"ask", "judge"} => page = before
  /\ phase \in {"judge", "await"} => turn = Said(Turns_recorded, index + 1)
  /\ phase = "await" => /\ Ran(Turns_recorded, index + 1) /\ page = Then(Turns_recorded, index + 1)
                        /\ ~Inlined(Turns_recorded[index + 1].turn.say.expect, outputs)
  /\ phase = "done" => index = Recorded_length /\ finished = recorded.finished

Bindables(T) == \A i \in DOMAIN T : ~Unbindable(T[i], i - 1)

ReRunInv == ~Live /\ steady /\ Bindables(Turns_recorded) => ReRunBody

(***************************************************************************)
(* The turn in hand                                                        *)
(***************************************************************************)
LEMMA TurnInHand ==
  ASSUME index \in Nat
  PROVE  /\ \A after : Judge(turn.say.expect, after) = Verdict(turn, before, index, after)
         /\ Picked /\ Named /\ InBounds <=> Right(turn, before, index)
         /\ Bindable /\ ~Inlined(turn.say.expect, outputs) <=> FinishFits(turn.say, outputs)
         /\ repeated \in Nat /\ (repeated > 0 <=> RepeatsNow)
<1>1. \A after : Judge(turn.say.expect, after) = Verdict(turn, before, index, after)
  BY DEF Judge, Verdict, OnPage, Known
<1>2. Picked /\ Named /\ InBounds <=> Right(turn, before, index)
  BY DEF Picked, Named, InBounds, Right
<1>3. Bindable /\ ~Inlined(turn.say.expect, outputs) <=> FinishFits(turn.say, outputs)
  BY DEF Bindable, FinishFits
<1>4. repeated \in Nat /\ (repeated > 0 <=> RepeatsNow)
  <2>1. repeated \in Nat /\ (repeated >= 1 <=> 1 <= index /\ FailedAlike(1))
    BY RepeatedCounts, RepeatedReaches
  <2>2. index > 0 => (index - 1 + 1) .. index = {index}
    OBVIOUS
  <2>3. FailedAlike(1) <=> \A i \in (index - 1 + 1) .. index : transcript[i].turn = turn /\ ~transcript[i].ok
    BY DEF FailedAlike
  <2>4. index > 0 => (FailedAlike(1) <=> transcript[index].turn = turn /\ ~transcript[index].ok)
    BY <2>2, <2>3
  <2> HIDE DEF repeated
  <2>5. repeated > 0 <=> repeated >= 1
    BY <2>1
  <2> QED BY <2>1, <2>4, <2>5 DEF RepeatsNow
<1> QED BY <1>1, <1>2, <1>3, <1>4

(***************************************************************************)
(* Transcripts that agree                                                  *)
(***************************************************************************)
AgreeTo(T, U, n) == \A k \in 1 .. n : U[k] = T[k]

LEMMA RanAlike ==
  ASSUME NEW T, NEW U, NEW n \in Nat, AgreeTo(T, U, n), NEW i \in 1 .. n
  PROVE  (Repeats(T, i) <=> Repeats(U, i)) /\ (Ran(T, i) <=> Ran(U, i)) /\ U[i] = T[i]
<1>1. U[i] = T[i] /\ (i > 1 => U[i - 1] = T[i - 1])
  <2>1. i > 1 => i - 1 \in 1 .. n
    OBVIOUS
  <2> QED BY <2>1 DEF AgreeTo
<1> QED BY <1>1 DEF Repeats, Ran

LEMMA ReadAlike ==
  ASSUME NEW T, NEW U, NEW n \in Nat, AgreeTo(T, U, n), NEW i \in 0 .. n
  PROVE  ReadBy(T, i) = ReadBy(U, i)
<1>1. \A k \in 1 .. i : k \in 1 .. n
  OBVIOUS
<1>2. \A k \in 1 .. i : (Ran(T, k) <=> Ran(U, k)) /\ U[k] = T[k]
  BY <1>1, RanAlike
<1> QED BY <1>2 DEF ReadBy

LEMMA MadeAlike ==
  ASSUME NEW T, NEW U, NEW n \in Nat, AgreeTo(T, U, n), NEW i \in 1 .. n, NEW after
  PROVE  Made(T, i, after) <=> Made(U, i, after)
<1>1. (Repeats(T, i) <=> Repeats(U, i)) /\ (Ran(T, i) <=> Ran(U, i)) /\ U[i] = T[i]
  BY RanAlike
<1>2. ReadBy(T, i) = ReadBy(U, i)
  BY ReadAlike
<1> QED BY <1>1, <1>2 DEF Made

LEMMA ReadMore ==
  ASSUME NEW T, NEW n \in Nat
  PROVE  /\ ReadBy(T, 0) = {}
         /\ ReadBy(T, n + 1) = ReadBy(T, n) \cup (IF Ran(T, n + 1) /\ T[n + 1].turn.say.does = "read"
                                                  THEN {T[n + 1].turn.say.bind_to} ELSE {})
<1>1. 1 .. n + 1 = (1 .. n) \cup {n + 1} /\ 1 .. 0 = {}
  OBVIOUS
<1>2. ReadBy(T, 0) = {}
  BY <1>1 DEF ReadBy
<1>3. ReadBy(T, n + 1) = ReadBy(T, n) \cup (IF Ran(T, n + 1) /\ T[n + 1].turn.say.does = "read"
                                            THEN {T[n + 1].turn.say.bind_to} ELSE {})
  <2>1. {k \in 1 .. n + 1 : Ran(T, k) /\ T[k].turn.say.does = "read"} =
          {k \in 1 .. n : Ran(T, k) /\ T[k].turn.say.does = "read"} \cup
            (IF Ran(T, n + 1) /\ T[n + 1].turn.say.does = "read" THEN {n + 1} ELSE {})
    BY <1>1
  <2> QED BY <2>1 DEF ReadBy
<1> QED BY <1>2, <1>3

(***************************************************************************)
(* The first run                                                           *)
(***************************************************************************)
\* What the turn in hand becomes in the transcript.
LEMMA NewEntry ==
  ASSUME NEW problem \in Problem, Kept(problem)
  PROVE  /\ AgreeTo(transcript, transcript', index) /\ index \in Nat
         /\ transcript'[index + 1].turn = turn /\ transcript'[index + 1].page = before
         /\ transcript'[index + 1].ok = (problem = "none") /\ transcript'[index + 1].problem = problem
         /\ Repeats(transcript', index + 1) <=> RepeatsNow
         /\ Ran(transcript', index + 1) <=> /\ turn.say.kind = "act" /\ ~RepeatsNow
                                            /\ Right(turn, before, index)
         /\ ReadBy(transcript', index + 1) =
              ReadBy(transcript, index) \cup
                (IF Ran(transcript', index + 1) /\ turn.say.does = "read" THEN {turn.say.bind_to} ELSE {})
<1>1. /\ index \in Nat /\ transcript'[index + 1] = Told(problem)
      /\ AgreeTo(transcript, transcript', index)
  BY DEF Kept, AgreeTo
<1>2. Told(problem).turn = turn /\ Told(problem).page = before /\ Told(problem).ok = (problem = "none")
      /\ Told(problem).problem = problem
  BY DEF Told
<1>3. (index + 1) - 1 = index /\ (index + 1 > 1 <=> index > 0) /\ (index > 0 => index \in 1 .. index)
  BY <1>1
<1>4. Repeats(transcript', index + 1) <=> RepeatsNow
  <2>1. index > 0 => transcript'[index] = transcript[index]
    BY <1>1, <1>3 DEF AgreeTo
  <2> QED BY <1>1, <1>2, <1>3, <2>1 DEF Repeats, RepeatsNow
<1>5. Ran(transcript', index + 1) <=> /\ turn.say.kind = "act" /\ ~RepeatsNow /\ Right(turn, before, index)
  BY <1>1, <1>2, <1>3, <1>4 DEF Ran
<1>6. ReadBy(transcript', index) = ReadBy(transcript, index)
  <2>1. index \in 0 .. index
    BY <1>1
  <2> QED BY <1>1, <2>1, ReadAlike
<1> QED BY <1>1, <1>2, <1>4, <1>5, <1>6, ReadMore

\* What recording does to a run that goes on: the next observation, or an outcome.
LEMMA RunGoesOn ==
  ASSUME TypeOK, phase \in {"judge", "await"}, NEW problem \in Problem, Record(problem), GoesOn', turn.say.kind \in {"act", "finish", "give_up"}
  PROVE  /\ problem \in {"none", "dead_end"} /\ turn.say.kind # "give_up"
         /\ IF turn.say.kind = "finish" /\ problem = "none"
            THEN /\ phase' = "done"
                 /\ finished' = Finished(IF turn.say.success THEN "success" ELSE "business_outcome", "none", index)
            ELSE phase' = "observe" /\ index + 1 # MAX_TURNS
<1>1. finished = NoFinish
  BY DEF TypeOK
<1>2. \A kind, at : Failed(kind, at) => ~GoesOn'
  BY DEF Failed, Finished, GoesOn
<1> QED BY <1>1, <1>2 DEF Record

RanNow == turn.say.kind = "act" /\ ~RepeatsNow /\ Right(turn, before, index)

\* What the turn in hand must end in, the run's outputs being read and its page after.
EndsAsItMust(problem, after, read) ==
  /\ ~RanNow => after = before
  /\ RepeatsNow => problem # "none"
  /\ turn.say.kind = "act" /\ ~RanNow => problem # "none"
  /\ RanNow => /\ ~turn.say.risky
               /\ IF Inlined(turn.say.expect, read) THEN problem # "none"
                  ELSE ~after.notice /\ Proven(turn, before, index, after, problem = "none")
  /\ turn.say.kind = "finish" /\ ~RepeatsNow =>
       IF FinishFits(turn.say, read) THEN Proven(turn, before, index, before, problem = "none")
       ELSE problem # "none"

\* The conditions on the turn in hand that make its entry.
LEMMA EntryMade ==
  ASSUME NEW problem \in Problem, Kept(problem), NEW after, problem \in {"none", "dead_end"},
         turn.say.kind # "give_up", ~before.notice, turn.seen <= index, turn.seen \in Nat,
         EndsAsItMust(problem, after, ReadBy(transcript', index + 1))
  PROVE  Made(transcript', index + 1, after)
<1>1. /\ transcript'[index + 1].turn = turn /\ transcript'[index + 1].page = before
      /\ transcript'[index + 1].ok = (problem = "none") /\ transcript'[index + 1].problem = problem
      /\ Repeats(transcript', index + 1) <=> RepeatsNow
      /\ Ran(transcript', index + 1) <=> /\ turn.say.kind = "act" /\ ~RepeatsNow /\ Right(turn, before, index)
      /\ index \in Nat
  BY NewEntry
<1>2. (index + 1) - 1 = index /\ turn.seen < index + 1
  BY <1>1
<1> QED BY <1>1, <1>2 DEF Made, EndsAsItMust, RanNow

LEMMA FirstRecords ==
  ASSUME TypeOK, TypeOK', FirstBody, phase \in {"judge", "await"}, NEW problem \in Problem, Record(problem), GoesOn',
         turn.say.kind \in {"act", "finish", "give_up"},
         Made(transcript', index + 1, page'), outputs' = ReadBy(transcript', index + 1)
  PROVE  FirstBody' /\ (phase' = "done" => FirstEnd')
<1>1. Kept(problem) /\ phase' \in {"observe", "done"}
  BY RecordKeeps DEF Kept
<1>2. /\ AgreeTo(transcript, transcript', index) /\ index \in Nat /\ index' = index + 1
      /\ transcript'[index + 1].turn = turn /\ transcript'[index + 1].page = before
      /\ transcript'[index + 1].ok = (problem = "none")
  BY <1>1, NewEntry DEF Kept
<1>3. \A i \in 1 .. index : Next_page(i)' = Next_page(i)
  <2> SUFFICES ASSUME NEW i \in 1 .. index PROVE Next_page(i)' = Next_page(i)
    OBVIOUS
  <2>1. CASE i < index
    <3>1. i + 1 \in 1 .. index /\ i < index + 1
      BY <1>2, <2>1
    <3> QED BY <1>2, <2>1, <3>1 DEF AgreeTo, Next_page
  <2>2. CASE i = index
    BY <1>2, <2>2 DEF Next_page, Here
  <2> QED BY <1>2, <2>1, <2>2
<1>4. ASSUME NEW i \in 1 .. index + 1, i = index + 1 PROVE Next_page(i)' = page'
  BY <1>1, <1>2, <1>4 DEF Next_page, Here
<1>5. \A i \in 1 .. index' : Made(transcript', i, Next_page(i)')
  <2> SUFFICES ASSUME NEW i \in 1 .. index + 1 PROVE Made(transcript', i, Next_page(i)')
    BY <1>2
  <2>1. CASE i \in 1 .. index
    <3>1. Made(transcript, i, Next_page(i))
      BY <2>1 DEF FirstBody
    <3> QED BY <1>2, <1>3, <2>1, <3>1, MadeAlike
  <2>2. CASE i = index + 1
    BY <1>4, <2>2
  <2> QED BY <1>2, <2>1, <2>2
<1>6. FirstBody'
  BY <1>1, <1>2, <1>5 DEF FirstBody
<1>7. phase' = "done" =>
        /\ turn.say.kind = "finish" /\ problem = "none"
        /\ finished' = Finished(IF turn.say.success THEN "success" ELSE "business_outcome", "none", index)
  BY RunGoesOn
<1>8. index' > 0 /\ index' - 1 = index
  BY <1>2
<1> QED BY <1>2, <1>6, <1>7, <1>8 DEF FirstEnd

LEMMA FirstRecording ==
  ASSUME TypeOK, TypeOK', FirstBody, phase \in {"judge", "await"}, NEW problem \in Problem, Record(problem),
         GoesOn', turn.say.kind # "give_up" /\ problem \in {"none", "dead_end"} => EndsAsItMust(problem, page', outputs'),
         outputs' = ReadBy(transcript, index) \cup
                      (IF RanNow /\ turn.say.does = "read" THEN {turn.say.bind_to} ELSE {})
  PROVE  FirstBody' /\ (phase' = "done" => FirstEnd')
<1>1. turn \in Emitted /\ turn.seen \in Nat /\ turn.say.kind \in {"act", "finish", "give_up"} /\ ~before.notice
  BY ContractFacts DEF TypeOK, Emitted, Turn
<1>2. Kept(problem)
  BY RecordKeeps
<1>3. problem \in {"none", "dead_end"} /\ turn.say.kind # "give_up"
  BY <1>1, RunGoesOn
<1>4. turn.seen <= index
  BY DEF FirstBody
<1>5. outputs' = ReadBy(transcript', index + 1)
  BY <1>2, NewEntry DEF RanNow
<1>6. EndsAsItMust(problem, page', ReadBy(transcript', index + 1))
  BY <1>3, <1>5
<1>7. Made(transcript', index + 1, page')
  BY <1>1, <1>2, <1>3, <1>4, <1>6, EntryMade
<1> QED BY <1>1, <1>5, <1>7, FirstRecords

\* A step that records nothing keeps what was made.
LEMMA FirstWaits ==
  ASSUME FirstBody, UNCHANGED transcript, Here' = Here
  PROVE  \A i \in 1 .. index' : Made(transcript', i, Next_page(i)')
<1>1. index' = index
  BY DEF index
<1>2. \A i \in 1 .. index : Next_page(i)' = Next_page(i)
  BY <1>1 DEF Next_page
<1> QED BY <1>1, <1>2 DEF FirstBody

LEMMA FirstAsks ==
  ASSUME TypeOK, TypeOK', FirstBody, GoesOn', Observe \/ ObserveFails \/ ModelFails \/ \E say \in Turns : Answer(say)
  PROVE  FirstBody' /\ phase' # "done"
<1>1. \A kind, at : Failed(kind, at) => ~GoesOn'
  BY DEF Failed, Finished, GoesOn
<1>2. CASE Observe
  <2>1. /\ phase' = "ask" /\ before' = page /\ UNCHANGED <<page, outputs, transcript>> /\ phase = "observe"
    BY <1>1, <1>2 DEF Observe
  <2>2. Here' = Here /\ ReadBy(transcript, index)' = ReadBy(transcript, index)
    BY <2>1 DEF Here, index
  <2>3. \A i \in 1 .. index' : Made(transcript', i, Next_page(i)')
    BY <2>1, <2>2, FirstWaits
  <2> QED BY <2>1, <2>2, <2>3 DEF FirstBody
<1>3. ~ObserveFails /\ ~ModelFails
  BY <1>1 DEF ObserveFails, ModelFails
<1>4. ASSUME NEW say \in Turns, Answer(say) PROVE FirstBody' /\ phase' # "done"
  <2>1. /\ phase = "ask" /\ phase' = "judge" /\ UNCHANGED <<page, before, outputs, transcript>>
    BY <1>4 DEF Answer
  <2>2. Here' = Here /\ ReadBy(transcript, index)' = ReadBy(transcript, index) /\ index' = index
    BY <2>1 DEF Here, index
  <2>3. \A i \in 1 .. index' : Made(transcript', i, Next_page(i)')
    BY <2>1, <2>2, FirstWaits
  <2>4. index \in Nat
    BY LenProperties DEF TypeOK, index
  <2>5. index > 0 => transcript[index].turn.seen < index
    BY <2>4 DEF FirstBody, Made
  <2>6. turn'.seen <= index
    <3>1. PICK seen \in {index} \cup {transcript[i].turn.seen : i \in {index} \ {0}} \cup {0} :
            turn' = [say |-> say, seen |-> seen]
      BY <1>4 DEF Answer
    <3>2. seen \in {index, 0} \/ (index # 0 /\ seen = transcript[index].turn.seen)
      BY <3>1
    <3>3. turn' \in Emitted /\ turn'.seen \in Nat
      BY <2>1, ContractFacts DEF TypeOK, Emitted
    <3> QED BY <2>4, <2>5, <3>1, <3>2, <3>3
  <2> QED BY <2>1, <2>2, <2>3, <2>6 DEF FirstBody
<1> QED BY <1>2, <1>3, <1>4

\* The turns judged at once: said again, wrong, risky, given up, or done.
LEMMA FirstJudges ==
  ASSUME TypeOK, TypeOK', FirstBody, GoesOn',
         RefuseRepeat \/ GiveUp \/ ActIsWrong \/ ActIsRisky \/ Finish
  PROVE  FirstBody' /\ (phase' = "done" => FirstEnd')
<1>0. index \in Nat
  BY LenProperties DEF TypeOK, index
<1>1. /\ \A after : Judge(turn.say.expect, after) = Verdict(turn, before, index, after)
      /\ Picked /\ Named /\ InBounds <=> Right(turn, before, index)
      /\ Bindable /\ ~Inlined(turn.say.expect, outputs) <=> FinishFits(turn.say, outputs)
      /\ repeated \in Nat /\ (repeated > 0 <=> RepeatsNow)
  BY <1>0, TurnInHand
<1> HIDE DEF repeated
<1>2. phase = "judge" /\ UNCHANGED <<page, outputs>> /\ page = before
  BY DEF RefuseRepeat, GiveUp, ActIsWrong, ActIsRisky, Finish, Accepted, FirstBody
<1>3. outputs = ReadBy(transcript, index)
  BY <1>2 DEF FirstBody
<1>4. ASSUME NEW problem \in Problem, Record(problem), ~RanNow \/ problem = "approval_required",
             turn.say.kind # "give_up" /\ problem \in {"none", "dead_end"} => EndsAsItMust(problem, page', outputs')
      PROVE  FirstBody' /\ (phase' = "done" => FirstEnd')
  <2>1. CASE ~RanNow
    <3>1. outputs' = ReadBy(transcript, index) \cup
                       (IF RanNow /\ turn.say.does = "read" THEN {turn.say.bind_to} ELSE {})
      BY <1>2, <1>3, <2>1
    <3> QED BY <1>2, <1>4, <3>1, FirstRecording
  <2>2. CASE problem = "approval_required"
    <3>1. turn \in Emitted /\ turn.say.kind \in {"act", "finish", "give_up"}
      BY <1>2 DEF TypeOK, Emitted, Turn
    <3>2. problem \in {"none", "dead_end"}
      BY <1>2, <1>4, <3>1, RunGoesOn
    <3> QED BY <2>2, <3>2
  <2> QED BY <1>4, <2>1, <2>2
<1>5. CASE RefuseRepeat
  <2>1. PICK problem \in {"stuck", "dead_end"} : Record(problem)
    BY <1>5 DEF RefuseRepeat
  <2>2. RepeatsNow
    BY <1>1, <1>5 DEF RefuseRepeat
  <2>3. ~RanNow /\ problem \in Problem
    BY <2>2 DEF RanNow, Problem
  <2>4. EndsAsItMust(problem, page', outputs')
    BY <1>2, <2>1, <2>2, <2>3 DEF EndsAsItMust
  <2> QED BY <1>4, <2>1, <2>3, <2>4
<1>6. CASE GiveUp
  <2>1. Record("none") /\ turn.say.kind = "give_up" /\ "none" \in Problem
    BY <1>6 DEF GiveUp, Accepted, Problem
  <2> QED BY <1>4, <2>1 DEF RanNow
<1>7. CASE ActIsWrong
  <2>1. Record("dead_end") /\ ~Right(turn, before, index) /\ "dead_end" \in Problem /\ turn.say.kind = "act"
    BY <1>1, <1>7 DEF ActIsWrong, Accepted, Problem
  <2>2. EndsAsItMust("dead_end", page', outputs')
    BY <1>2, <2>1 DEF EndsAsItMust, RanNow
  <2> QED BY <1>4, <2>1, <2>2 DEF RanNow
<1>8. CASE ActIsRisky
  <2>1. Record("approval_required") /\ "approval_required" \in Problem
    BY <1>8 DEF ActIsRisky, Problem
  <2> QED BY <1>4, <2>1
<1>9. CASE Finish
  <2>1. turn.say.kind = "finish" /\ ~RepeatsNow /\ ~RanNow /\ finished = NoFinish
    <3>1. turn.say.kind = "finish" /\ ~RepeatsNow
      <4>1. turn.say.kind = "finish" /\ repeated = 0
        BY <1>9 DEF Finish, Accepted
      <4> QED BY <1>1, <4>1
    <3>2. finished = NoFinish
      BY <1>2 DEF TypeOK
    <3> QED BY <3>1, <3>2 DEF RanNow
  <2>2. ~Escape
    BY <2>1 DEF Escape, GoesOn
  <2>3. PICK problem \in {"none", "dead_end"} :
          /\ Record(problem)
          /\ IF FinishFits(turn.say, outputs)
             THEN /\ Verdict(turn, before, index, before) \in {"holds", "unclear", "not yet"}
                  /\ problem = "none" <=> Verdict(turn, before, index, before) = "holds"
             ELSE problem # "none"
    BY <1>1, <1>9, <2>2 DEF Finish
  <2>4. EndsAsItMust(problem, page', outputs') /\ problem \in Problem
    BY <1>2, <2>1, <2>3 DEF EndsAsItMust, Proven, Problem
  <2> QED BY <1>4, <2>1, <2>3, <2>4
<1> QED BY <1>5, <1>6, <1>7, <1>8, <1>9

\* The turns that reach the surface.
LEMMA FirstDispatches ==
  ASSUME TypeOK, TypeOK', FirstBody, GoesOn', Dispatch
  PROVE  FirstBody' /\ (phase' = "done" => FirstEnd')
<1>0. index \in Nat
  BY LenProperties DEF TypeOK, index
<1>1. /\ Picked /\ Named /\ InBounds <=> Right(turn, before, index)
      /\ repeated \in Nat /\ (repeated > 0 <=> RepeatsNow)
  BY <1>0, TurnInHand
<1> HIDE DEF repeated
<1>2. /\ phase = "judge" /\ turn.say.kind = "act" /\ ~turn.say.risky
      /\ Right(turn, before, index) /\ ~RepeatsNow
      /\ outputs' = outputs \cup (IF turn.say.does = "read" THEN {turn.say.bind_to} ELSE {})
      /\ IF Inlined(turn.say.expect, outputs') THEN Record("dead_end")
         ELSE phase' = "await" /\ UNCHANGED <<before, turn, transcript>>
  BY <1>1 DEF Dispatch, Allowed, Accepted
<1>3. outputs = ReadBy(transcript, index)
  BY <1>2 DEF FirstBody
<1>4. RanNow /\ outputs' = ReadBy(transcript, index) \cup
                             (IF RanNow /\ turn.say.does = "read" THEN {turn.say.bind_to} ELSE {})
  BY <1>2, <1>3 DEF RanNow
<1>5. CASE Inlined(turn.say.expect, outputs')
  <2>1. Record("dead_end") /\ "dead_end" \in Problem
    BY <1>2, <1>5 DEF Problem
  <2>2. EndsAsItMust("dead_end", page', outputs')
    BY <1>2, <1>4, <1>5 DEF EndsAsItMust
  <2> QED BY <1>2, <1>4, <2>1, <2>2, FirstRecording
<1>6. CASE ~Inlined(turn.say.expect, outputs')
  <2>1. phase' = "await" /\ UNCHANGED <<before, turn, transcript>> /\ index' = index
    BY <1>2, <1>6 DEF index
  <2>2. Here' = Here /\ RepeatsNow' = RepeatsNow /\ Right(turn, before, index)' = Right(turn, before, index)
    BY <1>2, <2>1 DEF Here, RepeatsNow
  <2>3. \A i \in 1 .. index' : Made(transcript', i, Next_page(i)')
    BY <2>1, <2>2, FirstWaits
  <2>4. turn'.seen <= index'
    BY <1>2, <2>1 DEF FirstBody
  <2>5. outputs' = ReadBy(transcript', index') \cup
                     (IF phase' = "await" /\ turn'.say.does = "read" THEN {turn'.say.bind_to} ELSE {})
    BY <1>2, <1>3, <2>1
  <2>6. ~Inlined(turn'.say.expect, outputs')
    BY <1>6, <2>1
  <2> QED BY <1>2, <2>1, <2>2, <2>3, <2>4, <2>5, <2>6 DEF FirstBody
<1> QED BY <1>5, <1>6

LEMMA FirstAwaits ==
  ASSUME TypeOK, TypeOK', FirstBody, GoesOn',
         Await \/ (AwaitExpires /\ ~page.notice /\ Judge(turn.say.expect, page) = "not yet")
  PROVE  FirstBody' /\ (phase' = "done" => FirstEnd')
<1>0. index \in Nat
  BY LenProperties DEF TypeOK, index
<1>1. \A after : Judge(turn.say.expect, after) = Verdict(turn, before, index, after)
  BY <1>0, TurnInHand
<1>2. phase = "await" /\ UNCHANGED <<page, outputs>> /\ finished = NoFinish
  BY DEF Await, AwaitExpires, TypeOK
<1>3. RanNow /\ ~turn.say.risky /\ turn.say.kind = "act" /\ ~Inlined(turn.say.expect, outputs)
  BY <1>2 DEF FirstBody, RanNow
<1>4. outputs' = ReadBy(transcript, index) \cup
                   (IF RanNow /\ turn.say.does = "read" THEN {turn.say.bind_to} ELSE {})
  BY <1>2, <1>3 DEF FirstBody
<1>5. ~Escape
  BY <1>2 DEF Escape, GoesOn
<1>6. PICK problem \in {"none", "dead_end", "interstitial"} :
        /\ Record(problem)
        /\ problem # "interstitial" =>
             /\ ~page.notice /\ Verdict(turn, before, index, page) \in {"holds", "unclear", "not yet"}
             /\ problem = "none" <=> Verdict(turn, before, index, page) = "holds"
  BY <1>1, <1>5 DEF Await, AwaitExpires
<1>7. problem \in {"none", "dead_end"} => EndsAsItMust(problem, page', outputs')
  BY <1>2, <1>3, <1>6 DEF EndsAsItMust, Proven, RanNow
<1>8. problem \in Problem
  BY DEF Problem
<1> QED BY <1>2, <1>4, <1>6, <1>7, <1>8, FirstRecording

LEMMA FirstNext ==
  ASSUME LoopInv, LoopInv', FirstInv, [NextBoth]_allVars
  PROVE  FirstInv'
<1> SUFFICES ASSUME Live', steady', GoesOn' PROVE FirstBody' /\ (phase' = "done" => FirstEnd')
  BY DEF FirstInv
<1>1. TypeOK /\ TypeOK'
  BY DEF LoopInv
<1>2. CASE Again
  <2>1. /\ phase' = "observe" /\ outputs' = {} /\ transcript' = <<>> /\ index' = 0
    BY <1>2 DEF Again, index
  <2>2. ReadBy(transcript', 0) = {} /\ 1 .. 0 = {}
    BY ReadMore
  <2> QED BY <2>1, <2>2 DEF FirstBody
<1>3. CASE UNCHANGED allVars
  <2>1. /\ UNCHANGED <<phase, page, before, turn, outputs, transcript, finished, recorded, steady>>
        /\ index' = index
    BY <1>3 DEF allVars, vars, index
  <2>2. GoesOn /\ Live /\ steady
    BY <2>1 DEF GoesOn, Live
  <2>3. RepeatsNow' = RepeatsNow /\ \A i \in 1 .. index : Next_page(i)' = Next_page(i)
    BY <2>1 DEF RepeatsNow, Next_page, Here
  <2>4. FirstBody => FirstBody'
    BY <2>1, <2>3 DEF FirstBody
  <2>5. FirstEnd => FirstEnd'
    BY <2>1 DEF FirstEnd
  <2> QED BY <2>1, <2>2, <2>4, <2>5 DEF FirstInv
<1>4. CASE Run /\ phase # "done"
  <2>1. Live /\ steady /\ (Regular \/ ModelStep)
    BY <1>4 DEF Run, Live, Asked
  <2>2. FirstBody
    BY <1>4, <2>1 DEF FirstInv, GoesOn
  <2>3. CASE Observe \/ ModelStep
    BY <1>1, <2>2, <2>3, FirstAsks DEF ModelStep
  <2>4. CASE RefuseRepeat \/ GiveUp \/ ActIsWrong \/ ActIsRisky \/ Finish
    BY <1>1, <2>2, <2>4, FirstJudges
  <2>5. CASE Dispatch
    BY <1>1, <2>2, <2>5, FirstDispatches
  <2>6. CASE Await \/ (AwaitExpires /\ ~page.notice /\ Judge(turn.say.expect, page) = "not yet")
    BY <1>1, <2>2, <2>6, FirstAwaits
  <2> QED BY <2>1, <2>3, <2>4, <2>5, <2>6 DEF Regular
<1>5. Run => phase # "done"
  BY DEF Run, Regular, Irregular, Asked, Observe, ObserveFails, RefuseRepeat, GiveUp, ActIsWrong, ActIsRisky,
         ActFails, Allowed, Accepted, Dispatch, Await, AwaitExpires, Finish, ModelStep, ModelFails, Answer,
         next_turn, Diverges
<1>6. CASE Over /\ UNCHANGED <<recorded, steady>>
  BY <1>3, <1>6 DEF Over, allVars
<1> QED BY <1>2, <1>3, <1>4, <1>5, <1>6 DEF NextBoth

(***************************************************************************)
(* The transcript of a run that is over                                    *)
(***************************************************************************)
LEMMA OutcomeIsReproducible ==
  ASSUME LoopInv, FirstInv, Live, steady, phase = "done", finished # NoFinish, finished.status # "failed"
  PROVE  Reproducible(transcript) /\ outputs = ReadBy(transcript, index) /\ finished = Outcome(transcript)
<1>1. FirstBody /\ FirstEnd
  BY DEF FirstInv, GoesOn
<1>2. TypeOK /\ StuckAfterThreeRefusals /\ OutcomeIsTheOneOkFinish
  BY DEF LoopInv
<1>3. transcript \in Seq(Entry) /\ index \in 1 .. MAX_TURNS
  BY <1>1, <1>2, LenProperties, ContractFacts DEF TypeOK, FirstEnd, index
<1>4. \A i \in 1 .. index : (transcript[i].ok /\ transcript[i].turn.say.kind = "finish") <=> i = index
  BY <1>2, <1>3 DEF OutcomeIsTheOneOkFinish
<1>5. ASSUME NEW i \in 1 .. index PROVE Made(transcript, i, Then(transcript, i))
  <2>1. Made(transcript, i, Next_page(i))
    BY <1>1 DEF FirstBody
  <2>2. CASE i < index
    BY <2>1, <2>2 DEF Then, Next_page, index
  <2>3. CASE i = index
    <3>1. ~Ran(transcript, i)
      BY <1>4, <2>3 DEF Ran
    <3>2. Next_page(i) = transcript[i].page
      BY <2>1, <3>1 DEF Made
    <3>3. Then(transcript, i) = transcript[i].page
      BY <1>3, <2>3 DEF Then, index
    <3> QED BY <2>1, <3>2, <3>3
  <2> QED BY <1>3, <2>2, <2>3
<1>6. ASSUME NEW i \in 1 .. index PROVE ~AlikeBefore(transcript, i)
  <2>1. transcript[i].problem # "stuck"
    BY <1>1 DEF FirstBody, Made
  <2> QED BY <1>2, <2>1 DEF StuckAfterThreeRefusals, AlikeBefore
<1>7. outputs = ReadBy(transcript, index)
  BY <1>1 DEF FirstBody
<1>8. finished = Outcome(transcript)
  BY <1>1 DEF FirstEnd, Outcome, index
<1>9. Reproducible(transcript)
  BY <1>3, <1>4, <1>5, <1>6 DEF Reproducible, index
<1> QED BY <1>7, <1>8, <1>9

LEMMA RecordedNext ==
  ASSUME LoopInv, FirstInv, RecordedInv, [NextBoth]_allVars
  PROVE  RecordedInv'
<1>1. CASE Again
  <2>1. /\ Live /\ steady /\ phase = "done" /\ finished # NoFinish /\ finished.status # "failed"
        /\ recorded'.turns = transcript /\ recorded'.outputs = outputs /\ recorded'.finished = finished
    BY <1>1 DEF Again
  <2>2. Reproducible(transcript) /\ outputs = ReadBy(transcript, index) /\ finished = Outcome(transcript)
    BY <2>1, OutcomeIsReproducible
  <2> QED BY <2>1, <2>2 DEF RecordedInv, index
<1>2. CASE recorded' = recorded
  BY <1>2 DEF RecordedInv, Live
<1> QED BY <1>1, <1>2 DEF NextBoth, Run, allVars

(***************************************************************************)
(* What is said again                                                      *)
(***************************************************************************)
LEMMA EntryFacts ==
  ASSUME NEW T, Reproducible(T), NEW i \in 1 .. Len(T)
  PROVE  /\ Len(T) \in Nat /\ Len(T) <= MAX_TURNS /\ i \in DOMAIN T /\ T[i] \in Entry
         /\ T[i].turn \in Emitted /\ T[i].turn.say \in Turn /\ T[i].turn.seen \in Nat /\ T[i].turn.seen < i
         /\ T[i].page \in Pages /\ T[i].page.finds \subseteq Nodes /\ T[i].page.vague \subseteq Nodes
         /\ NoNode \notin Nodes /\ T[i].ok \in BOOLEAN
<1>1. T \in Seq(Entry) /\ Len(T) \in 1 .. MAX_TURNS
  BY DEF Reproducible
<1>2. T[i] \in Entry /\ i \in DOMAIN T /\ Len(T) \in Nat /\ Len(T) <= MAX_TURNS
  BY <1>1, ElementOfSeq, LenProperties
<1>3. T[i].turn \in Emitted /\ T[i].page \in Pages /\ T[i].ok \in BOOLEAN
  BY <1>2 DEF Entry
<1>4. T[i].turn.say \in Turn /\ T[i].turn.seen \in Nat
  BY <1>3, ContractFacts DEF Emitted
<1>5. T[i].page \in Page
  BY <1>3, ContractFacts
<1>6. T[i].turn.seen < i
  BY DEF Reproducible, Made
<1> QED BY <1>2, <1>3, <1>4, <1>5, <1>6, ApplicationAssumption DEF Page

LEMMA SaidAlike ==
  ASSUME NEW T, Reproducible(T), NEW i \in 1 .. Len(T), ~Unbindable(T[i], i - 1)
  PROVE  /\ Said(T, i).say = T[i].turn.say
         /\ T[i].turn.say.kind = "act" =>
              (Right(Said(T, i), T[i].page, i - 1) <=> Right(T[i].turn, T[i].page, i - 1))
         /\ \A after : Verdict(T[i].turn, T[i].page, i - 1, after) # "KeyError" =>
              Verdict(Said(T, i), T[i].page, i - 1, after) = Verdict(T[i].turn, T[i].page, i - 1, after)
<1> DEFINE t == T[i].turn
           b == T[i].page
           s == Said(T, i)
<1>1. /\ t \in Emitted /\ t.say \in Turn /\ t.seen \in Nat /\ t.seen < i /\ i <= MAX_TURNS
      /\ b.finds \subseteq Nodes /\ b.vague \subseteq Nodes /\ NoNode \notin Nodes /\ MAX_TURNS \in Nat
  BY EntryFacts, ContractFacts
<1>2. CASE target(T[i], i - 1) # NoNode
  BY <1>2 DEF Said
<1>3. CASE target(T[i], i - 1) = NoNode
  <2>1. s = as_recorded(T[i])
    BY <1>3 DEF Said
  <2>2. s.say = t.say /\ (s.seen = t.seen \/ s.seen = MAX_TURNS + t.seen)
    BY <1>1, <2>1 DEF as_recorded, Emitted
  <2>3. s.seen = i - 1 => t.seen = i - 1
    BY <1>1, <2>2
  <2>4. t.say.kind = "act" /\ t.say.does # "navigate" => ~(t.seen = i - 1 /\ t.say.node \in b.finds)
    BY <1>1, <1>3 DEF target
  <2>5. t.say.kind = "act" => (Right(s, b, i - 1) <=> Right(t, b, i - 1))
    BY <2>2, <2>3, <2>4 DEF Right
  <2>6. ASSUME NEW after, Verdict(t, b, i - 1, after) # "KeyError"
        PROVE  Verdict(s, b, i - 1, after) = Verdict(t, b, i - 1, after)
    <3>1. t.say.expect.of = "value" => Known(t, b, i - 1)
      BY <2>6 DEF Verdict
    <3>2. t.say.expect.of # "value"
      <4> SUFFICES ASSUME t.say.expect.of = "value" PROVE FALSE
        OBVIOUS
      <4>1. t.seen = i - 1 /\ t.say.expect.node \in Nodes
        BY <1>1, <3>1 DEF Known
      <4>2. t.say.expect.node \in {NoNode} \cup wanted(T[i], i - 1)
        BY <1>3, <4>1 DEF Unbindable
      <4> QED BY <1>1, <1>3, <4>1, <4>2 DEF wanted
    <3> QED BY <2>2, <3>2 DEF Verdict
  <2> QED BY <2>2, <2>5, <2>6
<1> QED BY <1>2, <1>3

\* Two turns are said alike only if they were recorded alike.
LEMMA SaidApart ==
  ASSUME NEW T, Reproducible(T), NEW i \in 1 .. Len(T), NEW k \in 1 .. Len(T), Said(T, i) = Said(T, k)
  PROVE  T[i].turn = T[k].turn
<1>1. /\ T[i].turn \in Emitted /\ T[i].turn.seen \in Nat /\ T[i].turn.seen < MAX_TURNS
      /\ T[k].turn \in Emitted /\ T[k].turn.seen \in Nat /\ T[k].turn.seen < MAX_TURNS /\ MAX_TURNS \in Nat
  <2>1. Len(T) \in Nat /\ Len(T) <= MAX_TURNS
    BY EntryFacts
  <2>2. T[i].turn \in Emitted /\ T[i].turn.seen \in Nat /\ T[i].turn.seen < i
    BY EntryFacts
  <2>3. T[k].turn \in Emitted /\ T[k].turn.seen \in Nat /\ T[k].turn.seen < k
    BY EntryFacts
  <2> QED BY <2>1, <2>2, <2>3, ContractFacts
<1>2. ASSUME NEW j \in {i, k}
      PROVE  /\ Said(T, j).say = T[j].turn.say
             /\ Said(T, j).seen = T[j].turn.seen \/ Said(T, j).seen = MAX_TURNS + T[j].turn.seen
  <2>1. T[j].turn \in Emitted
    BY <1>1
  <2> QED BY <2>1 DEF Said, as_recorded, Emitted
<1>3. T[i].turn.say = T[k].turn.say
  BY <1>2
<1>4. T[i].turn.seen = T[k].turn.seen
  BY <1>1, <1>2, <1>3
<1> QED BY <1>1, <1>3, <1>4 DEF Emitted

\* A turn recorded twice running is said alike, or names a page that is gone.
LEMMA SaidRepeats ==
  ASSUME NEW T, Reproducible(T), NEW i \in 2 .. Len(T), T[i - 1].turn = T[i].turn, Said(T, i - 1) # Said(T, i)
  PROVE  T[i].turn.say.kind = "act" /\ ~Right(T[i].turn, T[i].page, i - 1)
<1>1. i \in 1 .. Len(T) /\ i - 1 \in 1 .. Len(T)
  <2>1. Len(T) \in Nat
    BY DEF Reproducible
  <2> QED BY <2>1
<1>2. T[i - 1].turn.seen \in Nat /\ T[i - 1].turn.seen < i - 1
  BY <1>1, EntryFacts
<1>3. T[i].turn.seen # i - 1
  BY <1>2
<1>4. target(T[i], i - 1) = NoNode
  BY <1>3 DEF target
<1>5. as_recorded(T[i]) = as_recorded(T[i - 1])
  BY DEF as_recorded
<1>6. target(T[i - 1], (i - 1) - 1) # NoNode
  BY <1>4, <1>5 DEF Said
<1>7. T[i].turn.say.kind = "act" /\ T[i].turn.say.does # "navigate"
  BY <1>6 DEF target
<1> QED BY <1>3, <1>7 DEF Right

\* Every node to be found again is on the page the turn was recorded on.
LEMMA WantedIsThere ==
  ASSUME NEW T, Reproducible(T), NEW i \in 1 .. Len(T), ~Unbindable(T[i], i - 1), target(T[i], i - 1) # NoNode
  PROVE  /\ target(T[i], i - 1) = T[i].turn.say.node /\ T[i].turn.seen = i - 1
         /\ wanted(T[i], i - 1) \subseteq T[i].page.finds /\ target(T[i], i - 1) \in wanted(T[i], i - 1)
         /\ T[i].turn.say.expect.of = "value" => T[i].turn.say.expect.node \in wanted(T[i], i - 1)
<1> DEFINE t == T[i].turn
<1>1. /\ target(T[i], i - 1) = t.say.node /\ t.seen = i - 1 /\ t.say.node \in T[i].page.finds
      /\ t.say.kind = "act"
  BY DEF target
<1>2. target(T[i], i - 1) \in wanted(T[i], i - 1)
  BY DEF wanted
<1>3. t.say.expect.of = "value" => t.say.expect.node \in wanted(T[i], i - 1)
  BY <1>1, <1>2 DEF Unbindable
<1>4. ASSUME t.say.expect.of = "value", T[i].ok PROVE t.say.expect.node \in T[i].page.finds
  <2>1. Made(T, i, Then(T, i))
    BY DEF Reproducible
  <2>2. Ran(T, i) /\ ~Inlined(t.say.expect, ReadBy(T, i))
    BY <1>1, <1>4, <2>1 DEF Made
  <2>3. Verdict(t, T[i].page, i - 1, Then(T, i)) = "holds"
    BY <1>4, <2>1, <2>2 DEF Made, Proven
  <2> QED BY <1>4, <2>3 DEF Verdict, Known
<1>5. wanted(T[i], i - 1) \subseteq T[i].page.finds
  BY <1>1, <1>4 DEF wanted
<1> QED BY <1>1, <1>2, <1>3, <1>5

LEMMA BoundIsItself ==
  ASSUME NEW T, Reproducible(T), NEW i \in 1 .. Len(T), ~Unbindable(T[i], i - 1), target(T[i], i - 1) # NoNode
  PROVE  Bound(T[i], i - 1, T[i].turn.say.node, T[i].turn.say.expect.node) = T[i].turn
<1> DEFINE t == T[i].turn
<1>1. t.seen = i - 1 /\ t \in Emitted /\ t.say \in Turn
  BY WantedIsThere, EntryFacts
<1>2. t.say.expect \in Expect
  BY <1>1 DEF Turn
<1>3. [t.say.expect EXCEPT !.node = t.say.expect.node] = t.say.expect
  BY <1>2 DEF Expect
<1>4. [t.say EXCEPT !.node = t.say.node, !.expect.node = IF t.say.expect.of = "value" THEN t.say.expect.node ELSE @] = t.say
  BY <1>1, <1>3 DEF Turn
<1>5. t = [say |-> t.say, seen |-> t.seen]
  BY <1>1 DEF Emitted
<1> QED BY <1>1, <1>4, <1>5 DEF Bound

\* The transcript answers on the page it was recorded on: its nodes are found, and are said
\* again.
LEMMA AnswersAsSaid ==
  ASSUME Reproducible(Turns_recorded), index \in Nat, index < Recorded_length,
         ~Unbindable(Turns_recorded[index + 1], index), before = Turns_recorded[index + 1].page
  PROVE  ~Diverges /\ (next_turn => turn' = Said(Turns_recorded, index + 1))
<1> DEFINE T == Turns_recorded
           i == index + 1
           entry == T[i]
<1>1. i \in 1 .. Len(T) /\ i - 1 = index /\ Next_record = entry /\ ~Exhausted
  <2>1. Len(T) \in Nat
    BY DEF Reproducible
  <2> QED BY <2>1 DEF Recorded_length, Next_record, Exhausted, Turns_recorded
<1>2. wanted(entry, index) \subseteq before.finds
  <2>1. CASE target(entry, index) = NoNode
    BY <2>1 DEF wanted
  <2>2. CASE target(entry, index) # NoNode
    BY <1>1, <2>2, WantedIsThere
  <2> QED BY <2>1, <2>2
<1>3. ~Diverges
  BY <1>1, <1>2 DEF Diverges, Elsewhere
<1>4. ASSUME next_turn PROVE turn' = Said(T, i)
  <2>1. turn' \in _rebind(entry, index)
    BY <1>1, <1>4 DEF next_turn
  <2>2. CASE target(entry, index) = NoNode
    BY <1>1, <2>1, <2>2 DEF _rebind, Said
  <2>3. CASE target(entry, index) # NoNode
    <3>1. /\ target(entry, index) = entry.turn.say.node /\ target(entry, index) \in wanted(entry, index)
          /\ entry.turn.say.expect.of = "value" => entry.turn.say.expect.node \in wanted(entry, index)
      BY <1>1, <2>3, WantedIsThere
    <3>2. PICK live \in locate(wanted(entry, index)) :
            turn' = Bound(entry, index, live[target(entry, index)],
                          IF entry.turn.say.expect.node \in wanted(entry, index)
                          THEN live[entry.turn.say.expect.node] ELSE NoNode)
      BY <2>1, <2>3 DEF _rebind
    <3>3. \A n \in wanted(entry, index) : live[n] = n
      BY <1>2, <3>2 DEF locate
    <3>4. live[target(entry, index)] = entry.turn.say.node
      BY <3>1, <3>3
    <3>5. turn' = Bound(entry, index, entry.turn.say.node, entry.turn.say.expect.node)
      <4>1. CASE entry.turn.say.expect.of = "value"
        BY <3>1, <3>2, <3>3, <3>4, <4>1
      <4>2. CASE entry.turn.say.expect.of # "value"
        BY <3>2, <3>4, <4>2 DEF Bound
      <4> QED BY <4>1, <4>2
    <3>6. Bound(entry, index, entry.turn.say.node, entry.turn.say.expect.node) = entry.turn
      BY <1>1, <2>3, BoundIsItself
    <3> QED BY <1>1, <2>3, <3>5, <3>6 DEF Said
  <2> QED BY <2>2, <2>3
<1> QED BY <1>3, <1>4

(***************************************************************************)
(* The re-run                                                              *)
(***************************************************************************)
\* The turn in hand, against the record it was said from.
LEMMA SaidAgain ==
  ASSUME TypeOK, Reproducible(Turns_recorded), Bindables(Turns_recorded), ReRunBody, phase \in {"judge", "await"}
  PROVE  /\ index \in Nat /\ index + 1 \in 1 .. Recorded_length /\ (index + 1) - 1 = index
         /\ turn.say = Turns_recorded[index + 1].turn.say /\ before = Turns_recorded[index + 1].page
         /\ RepeatsNow => Repeats(Turns_recorded, index + 1)
         /\ Repeats(Turns_recorded, index + 1) => RepeatsNow \/ turn.say.kind = "act"
         /\ RanNow <=> Ran(Turns_recorded, index + 1)
         /\ repeated < MAX_REPEATS
         /\ \A after : Verdict(Turns_recorded[index + 1].turn, before, index, after) # "KeyError" =>
              Judge(turn.say.expect, after) = Verdict(Turns_recorded[index + 1].turn, before, index, after)
<1> DEFINE T == Turns_recorded
           i == index + 1
<1>1. /\ index \in Nat /\ Len(T) \in Nat /\ i \in 1 .. Len(T) /\ i - 1 = index /\ Recorded_length = Len(T)
      /\ before = T[i].page /\ turn = Said(T, i)
  <2>1. index \in Nat /\ Len(T) \in Nat
    BY LenProperties DEF TypeOK, index, Reproducible
  <2>2. Recorded_length = Len(T) /\ index < Recorded_length /\ Here = before
    BY DEF ReRunBody, Recorded_length, Here
  <2> QED BY <2>1, <2>2 DEF ReRunBody
<1>2. ~Unbindable(T[i], i - 1)
  <2>1. i \in DOMAIN T
    BY <1>1, EntryFacts
  <2> QED BY <2>1 DEF Bindables
<1>3. /\ turn.say = T[i].turn.say
      /\ T[i].turn.say.kind = "act" => (Right(turn, before, index) <=> Right(T[i].turn, before, index))
      /\ \A after : Verdict(T[i].turn, before, index, after) # "KeyError" =>
           Verdict(turn, before, index, after) = Verdict(T[i].turn, before, index, after)
  BY <1>1, <1>2, SaidAlike
<1>4. \A after : Judge(turn.say.expect, after) = Verdict(turn, before, index, after)
  BY <1>1, TurnInHand
<1>5. ASSUME NEW k \in 1 .. index
      PROVE  /\ k \in 1 .. Len(T) /\ transcript[k].ok = T[k].ok
             /\ transcript[k].turn = turn => T[k].turn = T[i].turn
  <2>1. k \in 1 .. Len(T)
    BY <1>1
  <2>2. transcript[k].turn = Said(T, k) /\ transcript[k].ok = T[k].ok
    BY DEF ReRunBody
  <2> QED BY <1>1, <2>1, <2>2, SaidApart
<1>6. index > 0 => index \in 1 .. index
  BY <1>1
<1>7. RepeatsNow => Repeats(T, i)
  BY <1>1, <1>5, <1>6 DEF RepeatsNow, Repeats
<1>8. Repeats(T, i) /\ ~RepeatsNow => turn.say.kind = "act" /\ ~Right(turn, before, index)
  <2> SUFFICES ASSUME Repeats(T, i), ~RepeatsNow PROVE turn.say.kind = "act" /\ ~Right(turn, before, index)
    OBVIOUS
  <2>1. index > 0 /\ T[index].turn = T[i].turn /\ ~T[index].ok /\ i \in 2 .. Len(T)
    BY <1>1 DEF Repeats
  <2>2. transcript[index].turn = Said(T, index) /\ transcript[index].ok = T[index].ok
    BY <1>6, <2>1 DEF ReRunBody
  <2>3. Said(T, i - 1) # Said(T, i)
    BY <1>1, <2>1, <2>2 DEF RepeatsNow
  <2> QED BY <1>1, <1>3, <2>1, <2>3, SaidRepeats
<1>9. RanNow <=> Ran(T, i)
  BY <1>1, <1>3, <1>7, <1>8 DEF RanNow, Ran
<1>10. repeated < MAX_REPEATS
  <2>1. MAX_REPEATS \in Nat \ {0} /\ repeated \in Nat
    BY <1>1, ContractFacts, TurnInHand
  <2>2. repeated >= MAX_REPEATS => MAX_REPEATS <= index /\ FailedAlike(MAX_REPEATS)
    BY <1>1, <2>1, RepeatedReaches
  <2>3. MAX_REPEATS <= index /\ FailedAlike(MAX_REPEATS) => AlikeBefore(T, i)
    <3> SUFFICES ASSUME MAX_REPEATS <= index, FailedAlike(MAX_REPEATS),
                        NEW k \in 1 .. MAX_REPEATS
                 PROVE  i > MAX_REPEATS /\ T[i - k].turn = T[i].turn /\ ~T[i - k].ok
      BY <1>1, <2>1 DEF AlikeBefore
    <3>1. i - k \in (index - MAX_REPEATS + 1) .. index /\ i - k \in 1 .. index /\ i > MAX_REPEATS
      BY <1>1, <2>1
    <3>2. transcript[i - k].turn = turn /\ ~transcript[i - k].ok
      BY <3>1 DEF FailedAlike
    <3> QED BY <1>5, <3>1, <3>2
  <2>4. ~AlikeBefore(T, i)
    BY <1>1 DEF Reproducible
  <2> HIDE DEF repeated
  <2> QED BY <2>1, <2>2, <2>3, <2>4
<1> QED BY <1>1, <1>3, <1>4, <1>7, <1>8, <1>9, <1>10

LEMMA ReRunRecords ==
  ASSUME TypeOK, TypeOK', Reproducible(Turns_recorded), Bindables(Turns_recorded), ReRunBody,
         recorded.finished = Outcome(Turns_recorded), recorded' = recorded, phase \in {"judge", "await"},
         NEW problem \in {"none", "dead_end"}, Record(problem), problem = "none" <=> Turns_recorded[index + 1].ok,
         index + 1 < Recorded_length => page' = Then(Turns_recorded, index + 1),
         outputs' = ReadBy(Turns_recorded, index + 1)
  PROVE  ReRunBody'
<1> DEFINE T == Turns_recorded
           i == index + 1
<1>1. /\ index \in Nat /\ i \in 1 .. Recorded_length /\ turn = Said(T, i) /\ turn.say = T[i].turn.say
      /\ Recorded_length = Len(T) /\ Len(T) \in Nat /\ Len(T) <= MAX_TURNS /\ MAX_TURNS \in Nat
  <2>1. index \in Nat /\ i \in 1 .. Recorded_length /\ turn.say = T[i].turn.say /\ turn = Said(T, i)
    BY SaidAgain DEF ReRunBody
  <2>2. Recorded_length = Len(T)
    BY DEF Recorded_length
  <2> QED BY <2>1, <2>2, EntryFacts, ContractFacts
<1>2. T' = T /\ Recorded_length' = Recorded_length
  BY DEF Turns_recorded, Recorded_length
<1>3. Kept(problem) /\ problem \in Problem
  <2>1. problem \in Problem
    BY DEF Problem
  <2> QED BY <2>1, RecordKeeps
<1>4. /\ index' = i /\ transcript'[i].turn = turn /\ transcript'[i].ok = (problem = "none")
      /\ \A k \in 1 .. index : transcript'[k] = transcript[k]
  BY <1>3, NewEntry DEF Kept
<1>5. T[i].ok \in BOOLEAN /\ turn.say.kind # "give_up" /\ (T[i].ok /\ turn.say.kind = "finish" <=> i = Len(T))
  <2>1. T[i].ok \in BOOLEAN
    BY <1>1, EntryFacts
  <2>2. Made(T, i, Then(T, i)) /\ ((T[i].ok /\ T[i].turn.say.kind = "finish") <=> i = Len(T))
    BY <1>1 DEF Reproducible
  <2> QED BY <1>1, <2>1, <2>2 DEF Made
<1>6. ASSUME NEW k \in 1 .. i PROVE transcript'[k].turn = Said(T, k) /\ transcript'[k].ok = T[k].ok
  <2>1. CASE k = i
    BY <1>1, <1>4, <1>5, <2>1
  <2>2. CASE k # i
    <3>1. k \in 1 .. index
      BY <1>1, <2>2
    <3> QED BY <1>4, <3>1 DEF ReRunBody
  <2> QED BY <2>1, <2>2
<1>7. CASE i = Len(T)
  <2>1. phase' = "done" /\ finished' = Outcome(T)
    <3>1. turn.say.kind = "finish" /\ problem = "none"
      BY <1>5, <1>7
    <3>2. phase' = "done" /\ finished' = Finished(IF turn.say.success THEN "success" ELSE "business_outcome", "none", index)
      BY <3>1 DEF Record
    <3>3. Len(T) - 1 = index
      BY <1>1, <1>7
    <3> QED BY <1>1, <1>7, <3>2, <3>3 DEF Outcome
  <2> QED BY <1>1, <1>2, <1>4, <1>6, <1>7, <2>1 DEF ReRunBody
<1>8. CASE i # Len(T)
  <2>1. i < Len(T) /\ i # MAX_TURNS
    BY <1>1, <1>8
  <2>2. phase' = "observe"
    BY <1>5, <1>8, <2>1 DEF Record
  <2>3. Here' = T[i + 1].page
    BY <1>1, <2>1, <2>2 DEF Here, Then
  <2> QED BY <1>1, <1>2, <1>4, <1>6, <2>1, <2>2, <2>3 DEF ReRunBody
<1> QED BY <1>7, <1>8

\* What the record of the turn in hand says it must end in.
LEMMA AsRecorded ==
  ASSUME TypeOK, Reproducible(Turns_recorded), Bindables(Turns_recorded), ReRunBody, phase = "judge",
         NEW e, e = Turns_recorded[index + 1]
  PROVE  /\ turn.say = e.turn.say /\ before = e.page /\ page = before /\ e.ok \in BOOLEAN /\ ~e.page.notice
         /\ turn.say.kind \in {"act", "finish"}
         /\ e.ok /\ turn.say.kind = "finish" <=> index + 1 = Recorded_length
         /\ outputs = ReadBy(Turns_recorded, index)
         /\ ReadBy(Turns_recorded, index + 1) = outputs \cup (IF RanNow /\ turn.say.does = "read"
                                                             THEN {turn.say.bind_to} ELSE {})
         /\ RepeatsNow => ~e.ok
         /\ turn.say.kind = "act" /\ ~RanNow => ~e.ok
         /\ ~RanNow => Then(Turns_recorded, index + 1) = before
         /\ RanNow => ~turn.say.risky /\ (Inlined(turn.say.expect, ReadBy(Turns_recorded, index + 1)) => ~e.ok)
         /\ turn.say.kind = "finish" /\ ~RepeatsNow =>
              IF FinishFits(turn.say, outputs)
              THEN /\ Judge(turn.say.expect, before) # "KeyError"
                   /\ e.ok <=> Judge(turn.say.expect, before) = "holds"
              ELSE ~e.ok
<1> DEFINE T == Turns_recorded
           i == index + 1
<1>1. /\ index \in Nat /\ i \in 1 .. Len(T) /\ i - 1 = index /\ Recorded_length = Len(T)
      /\ turn.say = e.turn.say /\ before = e.page
      /\ RepeatsNow => Repeats(T, i)
      /\ Repeats(T, i) => RepeatsNow \/ turn.say.kind = "act"
      /\ RanNow <=> Ran(T, i)
      /\ \A after : Verdict(e.turn, before, index, after) # "KeyError" =>
           Judge(turn.say.expect, after) = Verdict(e.turn, before, index, after)
  BY SaidAgain DEF Recorded_length
<1>2. e \in Entry /\ e.ok \in BOOLEAN /\ e.turn.say \in Turn
  BY <1>1, EntryFacts
<1>3. Made(T, i, Then(T, i)) /\ ((e.ok /\ e.turn.say.kind = "finish") <=> i = Len(T))
  BY <1>1 DEF Reproducible
<1>4. turn.say.kind \in {"act", "finish"}
  BY <1>1, <1>2, <1>3 DEF Made, Turn
<1>5. page = before /\ outputs = ReadBy(T, index)
  BY DEF ReRunBody
<1>6. ReadBy(T, i) = ReadBy(T, index) \cup (IF RanNow /\ turn.say.does = "read" THEN {turn.say.bind_to} ELSE {})
  BY <1>1, ReadMore
<1>7. /\ ~e.page.notice
      /\ RepeatsNow => ~e.ok
      /\ turn.say.kind = "act" /\ ~RanNow => ~e.ok
      /\ ~RanNow => Then(T, i) = before
      /\ RanNow => ~turn.say.risky /\ (Inlined(turn.say.expect, ReadBy(T, i)) => ~e.ok)
  BY <1>1, <1>3 DEF Made
<1>8. ASSUME turn.say.kind = "finish", ~RepeatsNow
      PROVE  IF FinishFits(turn.say, outputs)
             THEN /\ Judge(turn.say.expect, before) # "KeyError"
                  /\ e.ok <=> Judge(turn.say.expect, before) = "holds"
             ELSE ~e.ok
  <2>1. ~Repeats(T, i) /\ ~RanNow
    BY <1>1, <1>8 DEF RanNow
  <2>2. ReadBy(T, i) = outputs
    BY <1>5, <1>6, <2>1
  <2>3. IF FinishFits(turn.say, outputs) THEN Proven(e.turn, before, index, before, e.ok) ELSE ~e.ok
    BY <1>1, <1>3, <1>8, <2>1, <2>2 DEF Made
  <2> QED BY <1>1, <2>3 DEF Proven
<1> QED BY <1>1, <1>2, <1>3, <1>4, <1>5, <1>6, <1>7, <1>8

LEMMA ReRunJudges ==
  ASSUME TypeOK, TypeOK', Reproducible(Turns_recorded), Bindables(Turns_recorded), ReRunBody,
         recorded.finished = Outcome(Turns_recorded), recorded' = recorded,
         RefuseRepeat \/ GiveUp \/ ActIsWrong \/ ActIsRisky \/ Finish
  PROVE  ReRunBody'
<1> DEFINE e == Turns_recorded[index + 1]
<1>1. phase = "judge" /\ UNCHANGED <<page, outputs>>
  BY DEF RefuseRepeat, GiveUp, ActIsWrong, ActIsRisky, Finish, Accepted
<1>2. /\ index \in Nat /\ repeated \in Nat /\ (repeated > 0 <=> RepeatsNow) /\ repeated < MAX_REPEATS
      /\ Picked /\ Named /\ InBounds <=> Right(turn, before, index)
      /\ Bindable /\ ~Inlined(turn.say.expect, outputs) <=> FinishFits(turn.say, outputs)
  <2>1. index \in Nat /\ repeated < MAX_REPEATS
    BY <1>1, SaidAgain
  <2> QED BY <2>1, TurnInHand
<1>3. /\ page = before /\ e.ok \in BOOLEAN /\ turn.say.kind \in {"act", "finish"}
      /\ ReadBy(Turns_recorded, index + 1) = outputs \cup (IF RanNow /\ turn.say.does = "read"
                                                          THEN {turn.say.bind_to} ELSE {})
      /\ RepeatsNow => ~e.ok
      /\ turn.say.kind = "act" /\ ~RanNow => ~e.ok
      /\ ~RanNow => Then(Turns_recorded, index + 1) = before
      /\ RanNow => ~turn.say.risky
      /\ turn.say.kind = "finish" /\ ~RepeatsNow =>
           IF FinishFits(turn.say, outputs)
           THEN /\ Judge(turn.say.expect, before) # "KeyError"
                /\ e.ok <=> Judge(turn.say.expect, before) = "holds"
           ELSE ~e.ok
  BY <1>1, AsRecorded
<1> HIDE DEF repeated
<1>4. ASSUME NEW problem \in {"none", "dead_end"}, Record(problem), problem = "none" <=> e.ok, ~RanNow
      PROVE  ReRunBody'
  <2>1. page' = Then(Turns_recorded, index + 1) /\ outputs' = ReadBy(Turns_recorded, index + 1)
    BY <1>1, <1>3, <1>4
  <2> QED BY <1>1, <1>4, <2>1, ReRunRecords
<1>5. CASE RefuseRepeat
  <2>1. RepeatsNow /\ Record("dead_end")
    <3>1. repeated > 0 /\ Record(IF repeated >= MAX_REPEATS THEN "stuck" ELSE "dead_end")
      BY <1>5 DEF RefuseRepeat
    <3>2. ~(repeated >= MAX_REPEATS)
      BY <1>2, ContractFacts
    <3> QED BY <1>2, <3>1, <3>2
  <2>2. ~RanNow /\ ~e.ok
    BY <1>3, <2>1 DEF RanNow
  <2> QED BY <1>4, <2>1, <2>2
<1>6. CASE GiveUp
  BY <1>3, <1>6 DEF GiveUp, Accepted
<1>7. CASE ActIsWrong
  <2>1. turn.say.kind = "act" /\ Record("dead_end") /\ ~Right(turn, before, index)
    BY <1>2, <1>7 DEF ActIsWrong, Accepted
  <2>2. ~RanNow /\ ~e.ok
    BY <1>3, <2>1 DEF RanNow
  <2> QED BY <1>4, <2>1, <2>2
<1>8. CASE ActIsRisky
  <2>1. turn.say.kind = "act" /\ turn.say.risky /\ repeated = 0 /\ Right(turn, before, index)
    BY <1>2, <1>8 DEF ActIsRisky, Accepted
  <2>2. ~RepeatsNow
    BY <1>2, <2>1
  <2> QED BY <1>3, <2>1, <2>2 DEF RanNow
<1>9. CASE Finish
  <2>1. turn.say.kind = "finish" /\ repeated = 0
    BY <1>9 DEF Finish, Accepted
  <2>2. ~RepeatsNow /\ ~RanNow
    BY <1>2, <2>1 DEF RanNow
  <2>3. CASE ~FinishFits(turn.say, outputs)
    <3>1. Record("dead_end") /\ ~e.ok
      BY <1>2, <1>3, <1>9, <2>1, <2>2, <2>3 DEF Finish
    <3> QED BY <1>4, <2>2, <3>1
  <2>4. CASE FinishFits(turn.say, outputs)
    <3>1. /\ Judge(turn.say.expect, before) # "KeyError"
          /\ e.ok <=> Judge(turn.say.expect, before) = "holds"
      BY <1>3, <2>1, <2>2, <2>4
    <3>2. PICK problem \in {"none", "dead_end"} :
            Record(problem) /\ (problem = "none" <=> Judge(turn.say.expect, before) = "holds")
      BY <1>2, <1>9, <2>4, <3>1 DEF Finish
    <3> QED BY <1>4, <2>2, <3>1, <3>2
  <2> QED BY <2>3, <2>4
<1> QED BY <1>5, <1>6, <1>7, <1>8, <1>9

LEMMA ReRunDispatches ==
  ASSUME TypeOK, TypeOK', Reproducible(Turns_recorded), Bindables(Turns_recorded), ReRunBody,
         recorded.finished = Outcome(Turns_recorded), recorded' = recorded, ~Live,
         Dispatch, Answers_as_before
  PROVE  ReRunBody'
<1> DEFINE T == Turns_recorded
           i == index + 1
           e == T[i]
<1>1. phase = "judge" /\ turn.say.kind = "act" /\ repeated = 0 /\ Picked /\ Named /\ InBounds
  BY DEF Dispatch, Allowed, Accepted
<1>2. /\ index \in Nat /\ i \in 1 .. Recorded_length /\ Recorded_length \in Nat
      /\ turn = Said(T, i) /\ turn.say = e.turn.say /\ before = e.page
      /\ RanNow <=> Ran(T, i)
  <2>1. Recorded_length \in Nat
    BY LenProperties DEF Recorded_length, Reproducible
  <2> QED BY <1>1, <2>1, SaidAgain DEF ReRunBody
<1>3. ~RepeatsNow /\ Right(turn, before, index)
  BY <1>1, <1>2, TurnInHand
<1>4. RanNow /\ Ran(T, i)
  BY <1>1, <1>2, <1>3 DEF RanNow
<1>5. /\ e.ok \in BOOLEAN /\ i # Recorded_length
      /\ ReadBy(T, i) = outputs \cup (IF turn.say.does = "read" THEN {turn.say.bind_to} ELSE {})
      /\ Inlined(turn.say.expect, ReadBy(T, i)) => ~e.ok
  BY <1>1, <1>4, AsRecorded
<1>6. outputs' = ReadBy(T, i)
  BY <1>5 DEF Dispatch
<1>7. i < Recorded_length
  BY <1>2, <1>5
<1>8. page' = Then(T, i)
  <2>1. index + 2 <= Len(recorded.turns) /\ index + 2 = i + 1
    BY <1>2, <1>7 DEF Recorded_length, Turns_recorded
  <2>2. page' = recorded.turns[index + 2].page
    BY <2>1 DEF Answers_as_before
  <2> QED BY <1>7, <2>1, <2>2 DEF Then, Recorded_length, Turns_recorded
<1>9. CASE Inlined(turn.say.expect, outputs')
  <2>1. Record("dead_end") /\ ~e.ok
    BY <1>5, <1>6, <1>9 DEF Dispatch
  <2> QED BY <1>1, <1>6, <1>8, <2>1, ReRunRecords
<1>10. CASE ~Inlined(turn.say.expect, outputs')
  <2>1. phase' = "await" /\ UNCHANGED <<before, turn, transcript>>
    BY <1>10 DEF Dispatch
  <2>2. /\ index' = index /\ T' = T /\ Recorded_length' = Recorded_length /\ Here' = before
    BY <2>1 DEF index, Turns_recorded, Recorded_length, Here
  <2> QED BY <1>2, <1>4, <1>6, <1>7, <1>8, <1>10, <2>1, <2>2 DEF ReRunBody
<1> QED BY <1>9, <1>10

LEMMA ReRunAwaits ==
  ASSUME TypeOK, TypeOK', Reproducible(Turns_recorded), Bindables(Turns_recorded), ReRunBody,
         recorded.finished = Outcome(Turns_recorded), recorded' = recorded,
         Await \/ (AwaitExpires /\ ~page.notice /\ Judge(turn.say.expect, page) = "not yet")
  PROVE  ReRunBody'
<1> DEFINE T == Turns_recorded
           i == index + 1
           e == T[i]
<1>1. phase = "await" /\ UNCHANGED <<page, outputs>>
  BY DEF Await, AwaitExpires
<1>2. /\ Ran(T, i) /\ page = Then(T, i) /\ ~Inlined(e.turn.say.expect, outputs) /\ outputs = ReadBy(T, i)
  BY <1>1 DEF ReRunBody
<1>3. /\ index \in Nat /\ i \in 1 .. Len(T) /\ i - 1 = index /\ turn.say = e.turn.say /\ before = e.page
      /\ \A after : Verdict(e.turn, before, index, after) # "KeyError" =>
           Judge(turn.say.expect, after) = Verdict(e.turn, before, index, after)
  BY <1>1, SaidAgain DEF Recorded_length
<1>4. Made(T, i, page) /\ e.ok \in BOOLEAN
  BY <1>2, <1>3, EntryFacts DEF Reproducible
<1>5. ~page.notice /\ Proven(e.turn, before, index, page, e.ok)
  BY <1>2, <1>3, <1>4 DEF Made
<1>6. Judge(turn.say.expect, page) # "KeyError" /\ (e.ok <=> Judge(turn.say.expect, page) = "holds")
  BY <1>3, <1>5 DEF Proven
<1>7. PICK problem \in {"none", "dead_end"} :
        Record(problem) /\ (problem = "none" <=> Judge(turn.say.expect, page) = "holds")
  BY <1>5, <1>6 DEF Await, AwaitExpires
<1>8. problem = "none" <=> e.ok
  BY <1>4, <1>6, <1>7
<1>9. page' = Then(T, i) /\ outputs' = ReadBy(T, i)
  BY <1>1, <1>2
<1> QED BY <1>1, <1>7, <1>8, <1>9, ReRunRecords

LEMMA ReRunAsks ==
  ASSUME TypeOK, TypeOK', Reproducible(Turns_recorded), Bindables(Turns_recorded), ReRunBody,
         recorded' = recorded, Observe \/ next_turn \/ Diverges
  PROVE  ReRunBody'
<1> DEFINE T == Turns_recorded
           i == index + 1
<1>1. phase \in {"observe", "ask"}
  BY DEF Observe, next_turn, Diverges
<1>2. index < Recorded_length /\ Here = T[i].page /\ outputs = ReadBy(T, index) /\ (phase = "ask" => page = before)
  BY <1>1 DEF ReRunBody
<1>3. index \in Nat /\ i \in 1 .. Len(T) /\ i - 1 = index
  <2>1. index \in Nat /\ Len(T) \in Nat
    BY LenProperties DEF TypeOK, index, Reproducible
  <2> QED BY <1>2, <2>1 DEF Recorded_length
<1>4. ~T[i].page.notice
  BY <1>3 DEF Reproducible, Made
<1>5. ~Unbindable(T[i], index)
  <2>1. i \in DOMAIN T
    BY <1>3, EntryFacts
  <2>2. ~Unbindable(T[i], i - 1)
    BY <2>1 DEF Bindables
  <2> QED BY <1>3, <2>2
<1>6. CASE Observe
  <2>1. phase' = "ask" /\ before' = page /\ UNCHANGED <<page, outputs, transcript>> /\ Here = page
    BY <1>2, <1>4, <1>6 DEF Observe, Here
  <2>2. index' = index /\ T' = T /\ Recorded_length' = Recorded_length /\ Here' = page
    BY <2>1 DEF index, Turns_recorded, Recorded_length, Here
  <2> QED BY <1>2, <1>3, <2>1, <2>2 DEF ReRunBody
<1>7. CASE next_turn \/ Diverges
  <2>1. phase = "ask" /\ before = T[i].page
    BY <1>2, <1>7 DEF next_turn, Diverges, Here
  <2>2. next_turn /\ turn' = Said(T, i)
    BY <1>2, <1>3, <1>5, <1>7, <2>1, AnswersAsSaid
  <2>3. phase' = "judge" /\ UNCHANGED <<page, before, outputs, transcript>>
    BY <2>2 DEF next_turn
  <2>4. index' = index /\ T' = T /\ Recorded_length' = Recorded_length /\ Here' = before
    BY <2>3 DEF index, Turns_recorded, Recorded_length, Here
  <2> QED BY <1>2, <1>3, <2>1, <2>2, <2>3, <2>4 DEF ReRunBody
<1> QED BY <1>6, <1>7

LEMMA ReRunBegins ==
  ASSUME LoopInv, FirstInv, Again, steady'
  PROVE  ReRunBody'
<1>1. /\ Live /\ steady /\ phase = "done" /\ finished # NoFinish /\ finished.status # "failed"
      /\ recorded'.turns = transcript /\ phase' = "observe" /\ outputs' = {} /\ transcript' = <<>>
      /\ page' = transcript[1].page
  BY DEF Again
<1>2. Reproducible(transcript)
  BY <1>1, OutcomeIsReproducible
<1>3. Turns_recorded' = transcript /\ Recorded_length' = Len(transcript) /\ Len(transcript) \in Nat \ {0}
  BY <1>1, <1>2, ContractFacts DEF Turns_recorded, Recorded_length, Reproducible
<1>4. index' = 0 /\ Here' = transcript[1].page /\ 1 .. 0 = {} /\ 0 + 1 = 1 /\ 0 < Len(transcript)
  BY <1>1, <1>3 DEF index, Here
<1>5. ReadBy(transcript, 0) = {}
  BY ReadMore
<1> QED BY <1>1, <1>3, <1>4, <1>5 DEF ReRunBody

LEMMA ReRunNext ==
  ASSUME LoopInv, LoopInv', FirstInv, RecordedInv, ReRunInv, [NextBoth]_allVars
  PROVE  ReRunInv'
<1> SUFFICES ASSUME ~Live', steady', Bindables(Turns_recorded)' PROVE ReRunBody'
  BY DEF ReRunInv
<1>1. TypeOK /\ TypeOK'
  BY DEF LoopInv
<1>2. CASE Again
  BY <1>2, ReRunBegins
<1>3. CASE UNCHANGED allVars
  <2>1. UNCHANGED <<phase, page, before, turn, outputs, transcript, finished, recorded, steady>>
    BY <1>3 DEF allVars, vars
  <2>2. ReRunBody
    BY <2>1 DEF ReRunInv, Live, Turns_recorded, Bindables
  <2>3. index' = index /\ Turns_recorded' = Turns_recorded /\ Recorded_length' = Recorded_length /\ Here' = Here
    BY <2>1 DEF index, Turns_recorded, Recorded_length, Here
  <2> QED BY <2>1, <2>2, <2>3 DEF ReRunBody
<1>4. CASE Run
  <2>1. ~Live /\ steady /\ recorded' = recorded /\ (Regular \/ next_turn \/ Diverges)
    BY <1>4 DEF Run, Live, Asked
  <2>2. Bindables(Turns_recorded) /\ ReRunBody
    BY <2>1 DEF ReRunInv, Turns_recorded, Bindables
  <2>3. Reproducible(Turns_recorded) /\ recorded.finished = Outcome(Turns_recorded)
    BY <2>1 DEF RecordedInv, Turns_recorded
  <2>4. CASE Observe \/ next_turn \/ Diverges
    BY <1>1, <2>1, <2>2, <2>3, <2>4, ReRunAsks
  <2>5. CASE RefuseRepeat \/ GiveUp \/ ActIsWrong \/ ActIsRisky \/ Finish
    BY <1>1, <2>1, <2>2, <2>3, <2>5, ReRunJudges
  <2>6. CASE Dispatch /\ Answers_as_before
    BY <1>1, <2>1, <2>2, <2>3, <2>6, ReRunDispatches
  <2>7. CASE Await \/ (AwaitExpires /\ ~page.notice /\ Judge(turn.say.expect, page) = "not yet")
    BY <1>1, <2>1, <2>2, <2>3, <2>7, ReRunAwaits
  <2> QED BY <2>1, <2>4, <2>5, <2>6, <2>7 DEF Regular
<1>5. CASE Over /\ UNCHANGED <<recorded, steady>>
  BY <1>3, <1>5 DEF Over, allVars
<1> QED BY <1>2, <1>3, <1>4, <1>5 DEF NextBoth

(***************************************************************************)
(* The theorem                                                             *)
(***************************************************************************)
LEMMA RunsAlways == SpecBoth => [](FirstInv /\ RecordedInv /\ ReRunInv)
<1>1. InitBoth => FirstInv /\ RecordedInv /\ ReRunInv
  <2> SUFFICES ASSUME InitBoth PROVE FirstInv /\ RecordedInv /\ ReRunInv
    OBVIOUS
  <2>1. /\ phase = "observe" /\ outputs = {} /\ index = 0 /\ Live
    BY DEF InitBoth, Init, index, Live
  <2>2. ReadBy(transcript, 0) = {} /\ 1 .. 0 = {}
    BY ReadMore
  <2> QED BY <2>1, <2>2 DEF FirstInv, FirstBody, RecordedInv, ReRunInv
<1>2. LoopInv /\ LoopInv' /\ FirstInv /\ RecordedInv /\ ReRunInv /\ [NextBoth]_allVars =>
        FirstInv' /\ RecordedInv' /\ ReRunInv'
  BY FirstNext, RecordedNext, ReRunNext
<1> QED BY <1>1, <1>2, LoopAlways, PTL DEF SpecBoth

\* A transcript that ended with an outcome proves its turns again on an application that does
\* what it did: for every contract, model, application and budget, the re-run says and ends
\* each turn as it was recorded, repeats and dead ends included, and finishes alike with the
\* same outputs.
THEOREM TranscriptReproduces == SpecBoth => []ReRunReproduces
<1>1. LoopInv /\ RecordedInv /\ ReRunInv => ReRunReproduces
  <2> SUFFICES ASSUME LoopInv, RecordedInv, ReRunInv, ~Live, steady, phase = "done", Bindables(Turns_recorded)
               PROVE  /\ finished = recorded.finished /\ outputs = recorded.outputs /\ index = Recorded_length
                      /\ \A i \in DOMAIN transcript : /\ transcript[i].turn.say = Turns_recorded[i].turn.say
                                                      /\ transcript[i].ok = Turns_recorded[i].ok
    BY DEF ReRunReproduces, Bindables, Turns_recorded, Recorded_length
  <2>1. ReRunBody
    BY DEF ReRunInv
  <2>2. /\ Reproducible(Turns_recorded) /\ recorded.outputs = ReadBy(Turns_recorded, Recorded_length)
    BY DEF RecordedInv, Turns_recorded, Recorded_length
  <2>3. finished = recorded.finished /\ outputs = recorded.outputs /\ index = Recorded_length
    BY <2>1, <2>2 DEF ReRunBody
  <2>4. ASSUME NEW i \in DOMAIN transcript
        PROVE  /\ transcript[i].turn.say = Turns_recorded[i].turn.say
               /\ transcript[i].ok = Turns_recorded[i].ok
    <3>1. i \in 1 .. index /\ i \in 1 .. Len(Turns_recorded) /\ i \in DOMAIN Turns_recorded
      <4>1. transcript \in Seq(Entry)
        BY DEF LoopInv, TypeOK
      <4>2. i \in 1 .. index
        BY <2>4, <4>1, LenProperties DEF index
      <4>3. i \in 1 .. Len(Turns_recorded)
        BY <2>3, <4>2 DEF Recorded_length
      <4> QED BY <2>2, <4>2, <4>3, EntryFacts
    <3>2. transcript[i].turn = Said(Turns_recorded, i) /\ transcript[i].ok = Turns_recorded[i].ok
      BY <2>1, <3>1 DEF ReRunBody
    <3>3. Said(Turns_recorded, i).say = Turns_recorded[i].turn.say
      BY <2>2, <3>1, SaidAlike DEF Bindables
    <3> QED BY <3>2, <3>3
  <2> QED BY <2>3, <2>4
<1> QED BY <1>1, LoopAlways, RunsAlways, PTL
=============================================================================
