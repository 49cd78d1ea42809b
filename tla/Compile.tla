------------------------------ MODULE Compile -------------------------------
(***************************************************************************)
(* Discover once, compile, replay: the compiler (cua/compiler) between the *)
(* runs it reads and the replays of what it writes.  A success run and at  *)
(* most one business-outcome run are recorded on an application that       *)
(* answers by World, the inputs of the run; their transcripts are compiled *)
(* by rules only; the artifact is replayed in some World.  Recording and   *)
(* replay keep of Discovery and Replay what the compiler depends on:       *)
(* notices, approvals and retries are theirs.                              *)
(***************************************************************************)
EXTENDS Naturals, Sequences, FiniteSets, SequencesExt

CONSTANTS
  Worlds, Pages, Acts, Expects, Outputs, Ids,
  NoPage, NoAct, NoExpect, NoOutput, NoArtifact,
  Start,          \* the page every run starts on
  App,            \* App[world][page][act]: where it leads, NoPage where its target is not
  Drifts,         \* Drifts[page]: what it may turn into by itself (a load that completes)
  Holds,          \* Holds[page]: the expectations that hold there
  Reads,          \* Reads[act]: the output a read_text binds
  Inlines,        \* acts and expectations recorded with a <param:...> placeholder
  ValueEquals,    \* expectations about a control's value
  StepName,       \* StepName[act], and Suffixed[name][n], its n-th variant
  Suffixed,
  Says,           \* <<act, expect>>: what the model tries
  Declares,       \* <<detector, binds, success>>: what it declares
  MaxTurns, MaxExtraTurns

Turn == [kind : {"act", "finish", "refused"}, act : Acts \cup {NoAct},
         expect : Expects \cup {NoExpect}, page : Pages, ok : BOOLEAN, binds : SUBSET Outputs]
Status == {"running", "success", "business_outcome", "failed"}
Step == [id : Ids, act : Acts, expect : Expects]
Outcome == [detector : Expects, binds : SUBSET Outputs]

ASSUME ApplicationAssumption ==
  /\ Start \in Pages /\ NoPage \notin Pages /\ NoAct \notin Acts /\ NoExpect \notin Expects
  /\ NoOutput \notin Outputs
  /\ App \in [Worlds -> [Pages -> [Acts -> Pages \cup {NoPage}]]]
  /\ Drifts \in [Pages -> SUBSET Pages] /\ Holds \in [Pages -> SUBSET Expects]
  /\ Reads \in [Acts -> Outputs \cup {NoOutput}] /\ Says \subseteq Acts \X Expects
  /\ Declares \subseteq Expects \X (SUBSET Outputs) \X BOOLEAN
  \* A read answers from the observation.
  /\ \A w \in Worlds, p \in Pages, a \in Acts : Reads[a] # NoOutput => App[w][p][a] \in {p, NoPage}

Named == {StepName[act] : act \in Acts}

ASSUME NamesAssumption ==
  /\ StepName \in [Acts -> Ids] /\ Suffixed \in [Named -> [2 .. MaxTurns + 1 -> Ids]]
  /\ \A name \in Named, m \in 2 .. MaxTurns + 1 :
       /\ Suffixed[name][m] # name
       /\ \A n \in 2 .. MaxTurns + 1 : m # n => Suffixed[name][m] # Suffixed[name][n]
  /\ MaxTurns \in Nat /\ MaxExtraTurns \in Nat

VARIABLES
  phase,      \* "record", "compile", "replay" or "done"
  world,      \* the inputs of the run going on
  page,       \* where the surface is
  runs,       \* the recorded runs: the primary, then an extra
  artifact,   \* the compiled capability
  at,         \* replay: steps completed
  outputs,    \* replay: outputs read
  result,     \* replay: how it ended
  steady      \* ghost: no page has turned into another by itself

vars == <<phase, world, page, runs, artifact, at, outputs, result, steady>>
replaying == <<artifact, at, outputs, result>>

bound(acts) == {Reads[a] : a \in acts} \ {NoOutput}

(***************************************************************************)
(* compile: a pure function of the recorded runs                           *)
(***************************************************************************)
kept_acts(run) ==
  LET of_first[n \in 0 .. Len(run.turns)] ==
        IF n = 0 THEN <<>>
        ELSE IF run.turns[n].ok /\ run.turns[n].kind = "act"
             THEN Append(of_first[n - 1], run.turns[n]) ELSE of_first[n - 1]
  IN of_first[Len(run.turns)]
finishes(run) == {i \in DOMAIN run.turns : run.turns[i].ok /\ run.turns[i].kind = "finish"}
finish_record(run) == run.turns[CHOOSE i \in finishes(run) : TRUE]
proved(run) == [i \in DOMAIN kept_acts(run) |->
                  <<kept_acts(run)[i].act, kept_acts(run)[i].expect>>]

UniqueSecond(name, used) == IF name \in used THEN Suffixed[name][2] ELSE name
unique(name, used) ==
  IF name \notin used THEN name
  ELSE Suffixed[name][CHOOSE n \in 2 .. Cardinality(used) + 1 :
                        /\ Suffixed[name][n] \notin used
                        /\ \A m \in 2 .. n - 1 : Suffixed[name][m] \in used]

step_ids(acts) ==
  LET id[i \in DOMAIN acts] == unique(StepName[acts[i].act], {id[j] : j \in 1 .. i - 1})
  IN id
compile_steps(run) ==
  LET acts == kept_acts(run)
      ids == step_ids(acts)
  IN [i \in DOMAIN acts |-> [id |-> ids[i], act |-> acts[i].act, expect |-> acts[i].expect]]

HasSteps(run) ==
  /\ kept_acts(run) # <<>>
  /\ \A i \in DOMAIN proved(run) : proved(run)[i][1] \notin Inlines /\ proved(run)[i][2] \notin Inlines

\* _outcome: one proved finish turn, whose detector the page alone decides.
HasOutcome(run) ==
  /\ Cardinality(finishes(run)) = 1
  /\ finish_record(run).expect \notin Inlines \cup ValueEquals
  /\ finish_record(run).expect \in Holds[finish_record(run).page]
outcome(run) == [detector |-> finish_record(run).expect, binds |-> finish_record(run).binds]

\* The page each ok act settled on: what was observed before the turn after it.
settled_final(run) == {finish_record(run).page}
settled_pages(run) ==
  {run.turns[i + 1].page : i \in {j \in 1 .. Len(run.turns) - 1 :
                                    run.turns[j].ok /\ run.turns[j].kind = "act"}}

CompatibleInLength(extra, primary) == Len(proved(extra)) <= Len(proved(primary))
Compatible(extra, primary) == IsPrefix(proved(extra), proved(primary))
Discriminates(extra, primary) ==
  \A p \in settled_pages(primary) : outcome(extra).detector \notin Holds[p]

CompilesSuccess(run) == run.status = "success" /\ HasSteps(run) /\ HasOutcome(run)
CompilesBusiness(extra, primary) ==
  /\ extra.status = "business_outcome" /\ Compatible(extra, primary) /\ HasOutcome(extra)
  /\ Discriminates(extra, primary)

primary == runs[1]
extras == Tail(runs)

\* The runs are of one application, contract and starting page, and their outcomes have
\* different names, as DiscoverAgain makes them; the checks of those are left out.  What else
\* Capability validates holds here: ids are unique, and a run binds what its contract declares.
compile ==
  IF CompilesSuccess(primary) /\ \A i \in DOMAIN extras : CompilesBusiness(extras[i], primary)
  THEN [steps |-> compile_steps(primary), success |-> outcome(primary),
        business |-> [i \in DOMAIN extras |-> outcome(extras[i])]]
  ELSE NoArtifact

(***************************************************************************)
(* Recording                                                               *)
(***************************************************************************)
current == runs[Len(runs)]
budget == IF Len(runs) = 1 THEN MaxTurns ELSE MaxExtraTurns
Recording == phase = "record" /\ current.status = "running"
Begun(w) == [world |-> w, turns |-> <<>>, status |-> "running"]
Note(turn, status) ==
  runs' = [runs EXCEPT ![Len(runs)].turns = Append(@, turn), ![Len(runs)].status = status]

\* The page an action leads to, or one that turns into before anybody looks.
Leads(act) ==
  IF App[world][page][act] = NoPage THEN {}
  ELSE {App[world][page][act]} \cup Drifts[App[world][page][act]]

Init ==
  /\ phase = "record" /\ world \in Worlds /\ page = Start /\ runs = <<Begun(world)>>
  /\ artifact = NoArtifact /\ at = 0 /\ outputs = {} /\ result = "none" /\ steady = TRUE

\* An act turn that reached the surface: proved, or a dead end.
TryAct(act, expect) ==
  /\ Recording /\ Len(current.turns) < budget
  /\ page' \in Leads(act)
  /\ Note([kind |-> "act", act |-> act, expect |-> expect, page |-> page,
           ok |-> expect \in Holds[page'], binds |-> {}], "running")
  /\ steady' = (steady /\ page' = App[world][page][act])
  /\ UNCHANGED <<phase, world, replaying>>

RefuseOneTooMany ==
  /\ Recording /\ Len(current.turns) <= budget
  /\ Note([kind |-> "refused", act |-> NoAct, expect |-> NoExpect, page |-> page,
           ok |-> FALSE, binds |-> {}], "running")
  /\ UNCHANGED <<phase, world, page, replaying, steady>>

\* A turn refused before it did anything.
Refuse ==
  /\ Recording /\ Len(current.turns) < budget
  /\ Note([kind |-> "refused", act |-> NoAct, expect |-> NoExpect, page |-> page,
           ok |-> FALSE, binds |-> {}], "running")
  /\ UNCHANGED <<phase, world, page, replaying, steady>>

HasRead(run) == bound({run.turns[i].act : i \in {j \in DOMAIN run.turns : run.turns[j].kind = "act"}})

\* A finish turn that holds; success binds every declared output.
Finish(expect, binds, success) ==
  /\ Recording /\ Len(current.turns) < budget
  /\ expect \in Holds[page] /\ binds \subseteq HasRead(current) /\ (success => binds = Outputs)
  /\ Note([kind |-> "finish", act |-> NoAct, expect |-> expect, page |-> page,
           ok |-> TRUE, binds |-> binds], IF success THEN "success" ELSE "business_outcome")
  /\ UNCHANGED <<phase, world, page, replaying, steady>>

\* Gave up, ran out of turns, met a notice: the transcript says failed.
Abandon ==
  /\ Recording /\ runs' = [runs EXCEPT ![Len(runs)].status = "failed"]
  /\ UNCHANGED <<phase, world, page, replaying, steady>>

\* A second goal of the same kind, with other inputs, from the same page.
DiscoverAgain(w) ==
  /\ phase = "record" /\ current.status = "success" /\ Len(runs) = 1
  /\ world' = w /\ page' = Start /\ runs' = Append(runs, Begun(w))
  /\ UNCHANGED <<phase, replaying, steady>>

CompileRuns ==
  /\ phase = "record" /\ current.status # "running"
  /\ artifact' = compile
  /\ phase' = IF artifact' = NoArtifact THEN "done" ELSE "compiled"
  /\ UNCHANGED <<world, page, runs, at, outputs, result, steady>>

\* A page turns into another between two steps of whoever drives it.
Drift ==
  /\ phase \in {"record", "replay"} /\ page' \in Drifts[page] /\ steady' = FALSE
  /\ UNCHANGED <<phase, world, runs, replaying>>

(***************************************************************************)
(* Replay, without notices, approvals and handoffs                         *)
(***************************************************************************)
Replay(w) ==
  /\ phase = "compiled" /\ phase' = "replay" /\ world' = w /\ page' = Start
  /\ UNCHANGED <<runs, replaying, steady>>

End(how) == phase' = "done" /\ result' = how
Conclude(how, declared) == End(IF declared.binds \subseteq outputs' THEN how ELSE "checkpoint_failed")

step == artifact.steps[at + 1]
detected(p) == \E i \in DOMAIN artifact.business : artifact.business[i].detector \in Holds[p]
first(p) == artifact.business[CHOOSE i \in DOMAIN artifact.business :
              /\ artifact.business[i].detector \in Holds[p]
              /\ \A j \in 1 .. i - 1 : artifact.business[j].detector \notin Holds[p]]

Walk ==
  /\ phase = "replay" /\ at < Len(artifact.steps)
  /\ page' \in Leads(step.act) /\ steady' = (steady /\ page' = App[world][page][step.act])
  /\ outputs' = outputs \cup bound({step.act})
  /\ \/ /\ step.expect \notin Holds[page'] /\ End("timeout") /\ UNCHANGED at
     \/ /\ step.expect \in Holds[page'] /\ detected(page')
        /\ Conclude("business_outcome", first(page')) /\ at' = at + 1
     \/ /\ step.expect \in Holds[page'] /\ ~detected(page')
        /\ at' = at + 1 /\ UNCHANGED <<phase, result>>
  /\ UNCHANGED <<world, runs, artifact>>

TargetDrifted ==
  /\ phase = "replay" /\ at < Len(artifact.steps) /\ Leads(step.act) = {}
  /\ End("target_drift") /\ UNCHANGED <<world, page, runs, artifact, at, outputs, steady>>

\* The checkpoint is the success detector.
Checkpoint ==
  /\ phase = "replay" /\ at = Len(artifact.steps) /\ UNCHANGED outputs
  /\ IF artifact.success.detector \in Holds[page] THEN Conclude("success", artifact.success)
                                                  ELSE End("checkpoint_failed")
  /\ UNCHANGED <<world, page, runs, artifact, at, steady>>

Over == phase = "done" /\ UNCHANGED vars

Next ==
  \/ \E said \in Says : TryAct(said[1], said[2])
  \/ \E said \in Declares : Finish(said[1], said[2], said[3])
  \/ \E w \in Worlds : DiscoverAgain(w) \/ Replay(w)
  \/ Refuse \/ Abandon \/ CompileRuns \/ Drift \/ Walk \/ TargetDrifted \/ Checkpoint \/ Over

Spec == Init /\ [][Next]_vars

(***************************************************************************)
(* Properties                                                              *)
(***************************************************************************)
Run == [world : Worlds, turns : Seq(Turn), status : Status]
Artifact == [steps : Seq(Step), success : Outcome, business : Seq(Outcome)]

\* Every variable keeps its range: a run keeps to its turns, and an artifact has steps, no
\* more of them than the primary has turns.
TypeOK ==
  /\ phase \in {"record", "compiled", "replay", "done"} /\ world \in Worlds /\ page \in Pages
  /\ runs \in Seq(Run) /\ Len(runs) \in 1 .. 2 /\ Len(primary.turns) <= MaxTurns
  /\ Len(runs) = 2 => Len(runs[2].turns) <= MaxExtraTurns
  /\ artifact = NoArtifact \/ (artifact \in Artifact /\ Len(artifact.steps) \in 1 .. MaxTurns)
  /\ artifact # NoArtifact => at \in 0 .. Len(artifact.steps)
  /\ outputs \subseteq Outputs /\ steady \in BOOLEAN
  /\ result \in {"none", "success", "business_outcome", "target_drift", "timeout", "checkpoint_failed"}

\* No dead end moved the page, and what the finish binds was read by a kept act.
Undisturbed(run) ==
  /\ \A i \in 1 .. Len(run.turns) - 1 :
       ~run.turns[i].ok => run.turns[i + 1].page = run.turns[i].page
  /\ finish_record(run).binds \subseteq bound({proved(run)[i][1] : i \in DOMAIN proved(run)})
Replayed == phase = "done" /\ artifact # NoArtifact

\* decisions.md, item 8: on an application that answers as it did, the artifact of an
\* undisturbed success run replays to success; in particular no detector of a business
\* outcome answers for it, which is what the cross-check of the settled pages is for.
SuccessReplaysToSuccess ==
  Replayed /\ steady /\ world = primary.world /\ Undisturbed(primary) => result = "success"

\* The prefix rule: with the inputs of an undisturbed business run that acted, the replay
\* ends in its outcome, on a page the run saw, whatever dead ends the primary had.  An
\* outcome that binds outputs may be detected before the step that reads them.
BusinessReplaysToBusiness ==
  Replayed /\ steady /\ Len(runs) = 2 /\ world = runs[2].world /\ Undisturbed(runs[2])
    /\ kept_acts(runs[2]) # <<>> =>
       \/ result = "business_outcome" /\ page \in settled_pages(runs[2])
       \/ result = "checkpoint_failed" /\ ~(artifact.business[1].binds \subseteq outputs)

\* unique: approvals, resumptions and traces name a step by its id, and a name may read as
\* a variant of another.
StepIdsAreUnique ==
  artifact # NoArtifact =>
    \A i, j \in DOMAIN artifact.steps : artifact.steps[i].id = artifact.steps[j].id => i = j

(***************************************************************************)
(* What the repository says of an artifact and its code does not keep      *)
(***************************************************************************)
\* decisions.md, item 8: "replaying the success steps necessarily walks the page the
\* business detector was observed on", a dead end that moved the page included.
PrefixWalksTheBusinessPage ==
  Replayed /\ steady /\ Len(runs) = 2 /\ world = runs[2].world =>
    result \notin {"success", "target_drift", "timeout"}
=============================================================================
