------------------------------ MODULE Discovery -----------------------------
(***************************************************************************)
(* The discovery loop (cua/discovery/loop.py, execute.py, derive.py): a    *)
(* model drives a live surface one turn per observation until it declares  *)
(* an outcome, gives up, or runs out of turns; every turn is checked, and  *)
(* proved on the page that follows, before it is trusted.  The model may   *)
(* answer a prompt with any turn; the application moves from page to page  *)
(* as App and Drifts say.  A node id is scoped to one observation, so a    *)
(* turn that names a node carries the turn whose page it was read on.      *)
(***************************************************************************)
EXTENDS Naturals, Sequences, FiniteSets

CONSTANTS
  Inputs, Outputs,     \* names the contract declares
  AllowedLocations,    \* where the profile lets automation act
  Pages,               \* what an observation can be
  Nodes, Locations, Expects, Names,
  NoNode, NoPage, NoTurn, NoFinish,
  Start,               \* the pages a run may start on
  App,                 \* App[page, what]: the pages an action on it may lead to
  Drifts,              \* Drifts[page]: the pages it may turn into by itself
  Turns,               \* what the model may say
  MAX_TURNS,           \* 20 in loop.py
  MAX_REPEATS          \* 3 in execute.py

\* finds: nodes a descriptor can be derived for; vague: nodes it cannot; shows:
\* expectations that hold (for a value, whose control is there); many: expectations that
\* match several elements or one without a descriptor.
Page == [location : Locations, notice : BOOLEAN, finds : SUBSET Nodes, vague : SUBSET Nodes,
         shows : SUBSET Expects, many : SUBSET Expects]
\* of: what the expectation is about; a "value" names a control of the current page and
\* an input; a text may quote a value the run knows, or a redacted one.
Expect == [of : {"page", "element", "value"}, node : Nodes \cup {NoNode}, input : Names,
           quotes : Names]
Turn == [kind : {"act", "finish", "give_up"}, does : {"navigate", "read", "other"},
         goes : Locations, node : Nodes \cup {NoNode}, value : Names, bind_to : Names,
         risky : BOOLEAN, expect : Expect, success : BOOLEAN, binds : SUBSET Names]
\* seen: the turn whose observation the node ids are of; those of another run come after.
Emitted == [say : Turn, seen : 0 .. 2 * MAX_TURNS - 1]

DiscoveryFailureKind == {"gave_up", "stuck", "budget_exhausted", "approval_required",
                         "interstitial", "model_error", "surface_error"}
Finishes == [status : {"success", "business_outcome", "failed"},
             kind : DiscoveryFailureKind \cup {"none"}, turn : 0 .. MAX_TURNS]
Problem == {"none", "dead_end", "stuck", "approval_required", "interstitial"}

ASSUME ContractAssumption ==
  /\ Inputs \cup Outputs \subseteq Names /\ {"none", "placeholder"} \subseteq Names
  /\ "none" \notin Inputs \cup Outputs /\ "placeholder" \notin Inputs \cup Outputs
  /\ Expects \subseteq Expect /\ Turns \subseteq Turn /\ \A say \in Turns : say.expect \in Expects
  /\ MAX_TURNS \in Nat \ {0} /\ MAX_REPEATS \in Nat \ {0}

ASSUME ApplicationAssumption ==
  /\ Pages \subseteq Page /\ Start \subseteq Pages
  /\ NoNode \notin Nodes /\ NoPage \notin Pages /\ NoTurn \notin Emitted /\ NoFinish \notin Finishes
  /\ App \in [Pages \X (Nodes \cup Locations) -> SUBSET Pages]
  /\ Drifts \in [Pages -> SUBSET Pages]

VARIABLES
  phase,       \* where the loop is
  page,        \* the page the surface is on
  before,      \* the observation the turn was asked for
  turn,        \* the turn being executed
  outputs,     \* run.outputs: the names read
  transcript,  \* the turn records; run.history tells the same of each
  dead_ends,   \* run.dead_ends
  finished,    \* the run_finished entry
  raised,      \* what discover() raised, "none" if nothing
  reached      \* ghost: the turns whose action reached the surface

vars == <<phase, page, before, turn, outputs, transcript, dead_ends, finished, raised, reached>>

index == Len(transcript)

(***************************************************************************)
(* What the loop checks                                                    *)
(***************************************************************************)
names_node(say) == say.node # NoNode

\* A node id is known on the observation it came from and on no other.
OnPage(node) == turn.seen = index /\ node \in before.finds \cup before.vague

\* to_predicate, then holds: undecided expectations read as "not yet", and what the
\* model named wrongly comes out of either as a KeyError.
Judge(expect, after) ==
  IF expect.of = "value" /\ ~OnPage(expect.node) THEN "KeyError"
  ELSE IF (expect.of = "value" /\ expect.node \in before.vague) \/ expect \in after.many THEN "unclear"
  ELSE IF expect \notin after.shows THEN "not yet"
  ELSE IF expect.of = "value" /\ expect.input \notin Inputs \cup {"none"} THEN "KeyError"
  ELSE "holds"

\* _check_not_inlined: the text is a value this run knows, or a redacted one.
Inlined(expect, read) == expect.quotes \in {"placeholder"} \cup Inputs \cup read

\* How many turns just before this one were this very turn, failed.
FailedAlike(n) ==
  \A i \in (index - n + 1) .. index : transcript[i].turn = turn /\ ~transcript[i].ok
RepeatsAfterTheFirst ==
  LET alike == CHOOSE n \in 0 .. index : FailedAlike(n) /\ (n < index => ~FailedAlike(n + 1))
  IN IF alike > 0 THEN alike - 1 ELSE 0
repeated == CHOOSE n \in 0 .. index : FailedAlike(n) /\ (n < index => ~FailedAlike(n + 1))

(***************************************************************************)
(* How a turn and a run end                                                *)
(***************************************************************************)
Finished(status, kind, at) == [status |-> status, kind |-> kind, turn |-> at]
Failed(kind, at) ==
  /\ finished' = Finished("failed", kind, at) /\ phase' = "done"

RecordTerminalOnly(problem) ==
  /\ transcript' = Append(transcript, [turn |-> turn, page |-> before, ok |-> problem = "none",
                                       problem |-> problem])
  /\ dead_ends' = IF problem = "dead_end" THEN dead_ends + 1 ELSE dead_ends
  /\ before' = NoPage /\ turn' = NoTurn /\ UNCHANGED raised
  /\ IF problem \notin {"none", "dead_end"} THEN Failed(problem, index)
     ELSE IF turn.say.kind = "give_up" THEN Failed("gave_up", index)
     ELSE IF turn.say.kind = "finish" /\ turn.say.success /\ problem = "none"
     THEN phase' = "done" /\ finished' = Finished("success", "none", index)
     ELSE IF index + 1 = MAX_TURNS THEN Failed("budget_exhausted", MAX_TURNS)
     ELSE phase' = "observe" /\ UNCHANGED finished

RecordCountingHalts(problem) ==
  /\ transcript' = Append(transcript, [turn |-> turn, page |-> before, ok |-> problem = "none",
                                       problem |-> problem])
  /\ dead_ends' = IF problem # "none" THEN dead_ends + 1 ELSE dead_ends
  /\ before' = NoPage /\ turn' = NoTurn /\ UNCHANGED raised
  /\ IF problem \notin {"none", "dead_end"} THEN Failed(problem, index)
     ELSE IF turn.say.kind = "give_up" THEN Failed("gave_up", index)
     ELSE IF turn.say.kind = "finish" /\ problem = "none"
     THEN /\ phase' = "done"
          /\ finished' = Finished(IF turn.say.success THEN "success" ELSE "business_outcome",
                                  "none", index)
     ELSE IF index + 1 = MAX_TURNS THEN Failed("budget_exhausted", MAX_TURNS)
     ELSE phase' = "observe" /\ UNCHANGED finished

\* The turn is recorded, and ends the run or makes room for the next.
Record(problem) ==
  /\ transcript' = Append(transcript, [turn |-> turn, page |-> before, ok |-> problem = "none",
                                       problem |-> problem])
  /\ dead_ends' = IF problem = "dead_end" THEN dead_ends + 1 ELSE dead_ends
  /\ before' = NoPage /\ turn' = NoTurn /\ UNCHANGED raised
  /\ IF problem \notin {"none", "dead_end"} THEN Failed(problem, index)
     ELSE IF turn.say.kind = "give_up" THEN Failed("gave_up", index)
     ELSE IF turn.say.kind = "finish" /\ problem = "none"
     THEN /\ phase' = "done"
          /\ finished' = Finished(IF turn.say.success THEN "success" ELSE "business_outcome",
                                  "none", index)
     ELSE IF index + 1 = MAX_TURNS THEN Failed("budget_exhausted", MAX_TURNS)
     ELSE phase' = "observe" /\ UNCHANGED finished

\* An exception nothing in the loop catches: no record, no run_finished.
Escape ==
  /\ phase' = "done" /\ raised' = "KeyError"
  /\ UNCHANGED <<before, turn, transcript, dead_ends, finished>>

Init ==
  /\ phase = "observe" /\ page \in Start /\ before = NoPage /\ turn = NoTurn
  /\ outputs = {} /\ transcript = <<>> /\ dead_ends = 0 /\ finished = NoFinish
  /\ raised = "none" /\ reached = {}

\* The application moves on by itself: a load completes, a session expires.
Drift ==
  /\ phase # "done" /\ page' \in Drifts[page]
  /\ UNCHANGED <<phase, before, turn, outputs, transcript, dead_ends, finished, raised, reached>>

(***************************************************************************)
(* _execute: observe, ask, and refuse a failed turn said again             *)
(***************************************************************************)
ObserveUnscreened ==
  /\ phase = "observe" /\ phase' = "ask" /\ before' = page
  /\ UNCHANGED <<page, turn, outputs, transcript, dead_ends, finished, raised, reached>>

Observe ==
  /\ phase = "observe"
  /\ IF page.notice THEN Failed("interstitial", index) /\ UNCHANGED before
                    ELSE phase' = "ask" /\ before' = page /\ UNCHANGED finished
  /\ UNCHANGED <<page, turn, outputs, transcript, dead_ends, raised, reached>>

ObserveFails ==
  /\ phase = "observe" /\ Failed("surface_error", index)
  /\ UNCHANGED <<page, before, turn, outputs, transcript, dead_ends, raised, reached>>

\* A node id is one of this prompt's, or one of the page the last turn meant; the ids of older
\* pages are refused alike.  What a turn acts on and what it expects are of one page.
Answer(say) ==
  /\ phase = "ask"
  /\ \E seen \in IF names_node(say) \/ say.expect.of = "value"
                 THEN {index} \cup {transcript[i].turn.seen : i \in {index} \ {0}} ELSE {0} :
       turn' = [say |-> say, seen |-> seen]
  /\ phase' = "judge"
  /\ UNCHANGED <<page, before, outputs, transcript, dead_ends, finished, raised, reached>>

ModelFails ==
  /\ phase = "ask" /\ Failed("model_error", index)
  /\ UNCHANGED <<page, before, turn, outputs, transcript, dead_ends, raised, reached>>

RefuseOnceMore ==
  /\ phase = "judge" /\ repeated > 0
  /\ Record(IF repeated > MAX_REPEATS THEN "stuck" ELSE "dead_end")
  /\ UNCHANGED <<page, outputs, reached>>

RefuseRepeat ==
  /\ phase = "judge" /\ repeated > 0
  /\ Record(IF repeated >= MAX_REPEATS THEN "stuck" ELSE "dead_end")
  /\ UNCHANGED <<page, outputs, reached>>

Accepted(kind) == phase = "judge" /\ repeated = 0 /\ turn.say.kind = kind

GiveUp == Accepted("give_up") /\ Record("none") /\ UNCHANGED <<page, outputs, reached>>

(***************************************************************************)
(* execute.act: pick, perform, await                                       *)
(***************************************************************************)
PickedByName ==
  IF turn.say.does = "navigate" THEN ~names_node(turn.say) ELSE turn.say.node \in before.finds
Picked ==
  IF turn.say.does = "navigate" THEN ~names_node(turn.say)
  ELSE turn.seen = index /\ turn.say.node \in before.finds
Named ==
  /\ turn.say.does = "read" => turn.say.bind_to \in Outputs
  /\ turn.say.value \in Inputs \cup {"none"}
InBounds ==
  (IF turn.say.does = "navigate" THEN turn.say.goes ELSE before.location) \in AllowedLocations

\* A node that is not there, an undeclared name or a location off the allowlist.
ActIsWrong ==
  /\ Accepted("act") /\ ~(Picked /\ Named /\ InBounds)
  /\ Record("dead_end") /\ UNCHANGED <<page, outputs, reached>>

ActIsRisky ==
  /\ Accepted("act") /\ Picked /\ Named /\ InBounds /\ turn.say.risky
  /\ Record("approval_required") /\ UNCHANGED <<page, outputs, reached>>

Allowed == Accepted("act") /\ Picked /\ Named /\ InBounds /\ ~turn.say.risky
Does == <<page, IF turn.say.does = "navigate" THEN turn.say.goes ELSE turn.say.node>>

\* surface.act raises, before or after it did something.
ActFails ==
  /\ Allowed /\ page' \in {page} \cup App[Does]
  /\ Record("dead_end") /\ UNCHANGED <<outputs, reached>>

\* A read answers from the observation and touches no page.  What it read is bound
\* before anything about the turn is proved.  Any node still there can be driven.
Dispatch ==
  /\ Allowed /\ (turn.say.does = "other" => turn.say.node \in page.finds \cup page.vague)
  /\ page' \in (IF turn.say.does = "read" THEN {page} ELSE App[Does])
  /\ reached' = reached \cup {index}
  /\ outputs' = IF turn.say.does = "read" THEN outputs \cup {turn.say.bind_to} ELSE outputs
  /\ IF Inlined(turn.say.expect, outputs')
     THEN Record("dead_end")
     ELSE phase' = "await" /\ UNCHANGED <<before, turn, transcript, dead_ends, finished, raised>>

\* _await: one poll of the page there is now.
Await ==
  /\ phase = "await"
  /\ \/ page.notice /\ Record("interstitial")
     \/ ~page.notice /\ Judge(turn.say.expect, page) = "holds" /\ Record("none")
     \/ ~page.notice /\ Judge(turn.say.expect, page) = "unclear" /\ Record("dead_end")
     \/ ~page.notice /\ Judge(turn.say.expect, page) = "KeyError" /\ Escape
  /\ UNCHANGED <<page, outputs, reached>>

\* The deadline passes with the expectation unmet, or the surface never ready.
AwaitForever == phase = "await" /\ UNCHANGED vars
AwaitExpires ==
  /\ phase = "await" /\ Record("dead_end") /\ UNCHANGED <<page, outputs, reached>>

(***************************************************************************)
(* execute.finish                                                          *)
(***************************************************************************)
BindableOnceRead == turn.say.binds \subseteq Outputs \cap outputs
Bindable ==
  /\ turn.say.binds \subseteq Outputs \cap outputs
  /\ turn.say.success => Outputs \subseteq turn.say.binds

Finish ==
  /\ Accepted("finish")
  /\ \/ /\ ~Bindable \/ Inlined(turn.say.expect, outputs)
        /\ Record("dead_end")
     \/ /\ Bindable /\ ~Inlined(turn.say.expect, outputs)
        /\ \/ Judge(turn.say.expect, before) = "holds" /\ Record("none")
           \/ Judge(turn.say.expect, before) \in {"unclear", "not yet"} /\ Record("dead_end")
           \/ Judge(turn.say.expect, before) = "KeyError" /\ Escape
  /\ UNCHANGED <<page, outputs, reached>>

LoopStep ==
  \/ Observe \/ ObserveFails \/ RefuseRepeat \/ GiveUp \/ ActIsWrong \/ ActIsRisky \/ ActFails
  \/ Dispatch \/ Await \/ AwaitExpires \/ Finish

ModelStep == ModelFails \/ \E say \in Turns : Answer(say)

Over == phase = "done" /\ UNCHANGED vars

Next == LoopStep \/ ModelStep \/ Drift \/ Over

Spec == Init /\ [][Next]_vars

\* One thread runs the loop and asks the provider, which answers or fails.
Fairness == WF_vars(LoopStep \/ ModelStep)
FairSpec == Spec /\ Fairness

(***************************************************************************)
(* Properties                                                              *)
(***************************************************************************)
Entry == [turn : Emitted, page : Pages, ok : BOOLEAN, problem : Problem]

\* Every variable of the loop keeps its range, and a turn in hand was asked for on an
\* observation without a notice.
TypeOK ==
  /\ phase \in {"observe", "ask", "judge", "await", "done"} /\ page \in Pages
  /\ before \in Pages \cup {NoPage} /\ turn \in Emitted \cup {NoTurn}
  /\ outputs \subseteq Outputs /\ transcript \in Seq(Entry) /\ Len(transcript) <= MAX_TURNS
  /\ dead_ends \in 0 .. Len(transcript) /\ finished \in Finishes \cup {NoFinish}
  /\ raised \in {"none", "KeyError"} /\ reached \subseteq 0 .. MAX_TURNS - 1
  /\ phase \in {"ask", "judge", "await"} => before \in Pages /\ ~before.notice
  /\ phase \in {"judge", "await"} => turn \in Emitted
  /\ phase # "done" => index < MAX_TURNS /\ finished = NoFinish /\ raised = "none"

TurnOf(i) == IF i < index THEN transcript[i + 1].turn ELSE turn
PageOf(i) == IF i < index THEN transcript[i + 1].page ELSE before

\* repeated: a turn said again, word for word, right after it failed never reaches the
\* surface, and the run ends as stuck after MAX_REPEATS refusals and not before.
FailedTurnIsNotRunAgain ==
  \A i \in reached \ {0} : ~(transcript[i].turn = TurnOf(i) /\ ~transcript[i].ok)

StuckAfterThreeRefusals ==
  \A i \in 1 .. index :
    transcript[i].problem = "stuck" <=>
      /\ i > MAX_REPEATS
      /\ \A k \in 1 .. MAX_REPEATS : /\ transcript[i - k].turn = transcript[i].turn
                                      /\ ~transcript[i - k].ok

\* Session.act behind execute.act: whatever reached the surface was no risky action, at
\* a location the profile allows, on a node of the observation its turn was asked for
\* (never one of an earlier page), with no notice in front.
OnlyCheckedTurnsReachTheSurface ==
  \A i \in reached :
    LET say == TurnOf(i).say IN
    /\ ~say.risky /\ ~PageOf(i).notice
    /\ say.does = "navigate" => say.goes \in AllowedLocations
    /\ say.does # "navigate" => /\ TurnOf(i).seen = i /\ say.node \in PageOf(i).finds
                               /\ PageOf(i).location \in AllowedLocations

\* The compiler's reading of a transcript (outcomes._finish_record): a run that finished
\* with an outcome has exactly one finish turn that is ok, and it is the last.
OutcomeIsTheOneOkFinish ==
  LET finishes == {i \in 1 .. index : transcript[i].ok /\ transcript[i].turn.say.kind = "finish"}
  IN IF finished # NoFinish /\ finished.status # "failed"
     THEN finishes = {index} /\ finished.turn = index - 1
     ELSE finishes = {}

\* execute.finish: success is declared only when each declared output was read by an
\* action that reached the surface in this run.
SuccessReadEveryOutput ==
  finished # NoFinish /\ finished.status = "success" =>
    \A name \in Outputs : \E i \in reached : /\ TurnOf(i).say.does = "read"
                                            /\ TurnOf(i).say.bind_to = name

\* The result agrees with the transcript: dead ends are the turns the run survived, and a
\* failure names the turn it stopped at, recorded or not.
FailureNamesItsTurn ==
  /\ dead_ends = Cardinality({i \in 1 .. index : transcript[i].problem = "dead_end"})
  /\ finished # NoFinish /\ finished.status = "failed" =>
       \/ /\ finished.kind \in {"interstitial", "surface_error", "model_error"}
          /\ finished.turn = index /\ \A i \in 1 .. index : transcript[i].problem \in {"none", "dead_end"}
       \/ /\ finished.kind \in {"stuck", "approval_required", "interstitial"}
          /\ finished.turn = index - 1 /\ transcript[index].problem = finished.kind
       \/ /\ finished.kind = "gave_up" /\ finished.turn = index - 1
          /\ transcript[index].turn.say.kind = "give_up" /\ transcript[index].ok
       \/ finished.kind = "budget_exhausted" /\ finished.turn = MAX_TURNS /\ index = MAX_TURNS

\* discover() ends, a re-run as well: the turns are numbered and every wait of a turn has a
\* deadline.
RunEnds == []<>(phase = "done")

(***************************************************************************)
(* What the repository says of a discovery run and its code does not keep  *)
(***************************************************************************)
\* execute.py:7 "Anything the model got wrong is a DeadEnd", and the run continues.
MistakesAreDeadEnds == raised = "none"
=============================================================================
