--------------------------- MODULE TranscriptModel --------------------------
(***************************************************************************)
(* Fixture mode (cua/discovery/transcript_model.py): the transcript of a   *)
(* discovery that ended with an outcome answers, turn by turn, in place of *)
(* the model, on the live application.  A recorded node id means nothing   *)
(* in a new run; the turn is bound again through the descriptor recorded   *)
(* for it.                                                                 *)
(***************************************************************************)
EXTENDS Discovery

CONSTANT NoRecord

VARIABLES
  recorded,   \* the transcript that answers, NoRecord while a model does
  steady      \* ghost: nothing but the run's own actions has moved the page, in either run
              \* or from one run to the other

allVars == <<vars, recorded, steady>>

InitBoth == Init /\ recorded = NoRecord /\ steady = TRUE

(***************************************************************************)
(* What a turn record keeps                                                *)
(***************************************************************************)
\* The descriptor derived for the turn's node, when it got that far: a node of the page it
\* was asked for, that could be described.
target(entry, at) ==
  LET say == entry.turn.say
  IN IF say.kind = "act" /\ say.does # "navigate" /\ entry.turn.seen = at /\ say.node \in entry.page.finds
     THEN say.node ELSE NoNode

\* The nodes to be found again: the target, and the node a value expectation names, which is
\* in the postcondition; a dead end has none.
wanted(entry, at) ==
  LET expect == entry.turn.say.expect
  IN IF target(entry, at) = NoNode THEN {}
     ELSE {target(entry, at)} \cup (IF expect.of = "value" /\ entry.ok THEN {expect.node} ELSE {})

(***************************************************************************)
(* next_turn                                                               *)
(***************************************************************************)
\* Prompt.locate: a node itself where it can be found, and elsewhere whatever the tolerant
\* resolver makes of its signals, or nothing.
locate(nodes) ==
  {live \in [nodes -> before.finds] : \A n \in nodes \cap before.finds : live[n] = n}

Bound(entry, at, node, expected) ==
  [say |-> [entry.turn.say EXCEPT !.node = node,
                                  !.expect.node = IF entry.turn.say.expect.of = "value" THEN expected ELSE @],
   seen |-> at]

\* The ids of the recorded run are on no page of this one.
as_recorded(entry) ==
  IF names_node(entry.turn.say) \/ entry.turn.say.expect.of = "value"
  THEN [entry.turn EXCEPT !.seen = MAX_TURNS + @] ELSE entry.turn

\* An expectation keeps the id it was recorded with, which no page has.
rebind_target_only(entry, at) ==
  IF target(entry, at) = NoNode THEN {as_recorded(entry)}
  ELSE {Bound(entry, at, live[target(entry, at)], NoNode) : live \in locate({target(entry, at)})}

\* A turn without a target is said as it was recorded.  One with a target is bound to the
\* live nodes; the node of a value expectation keeps its id where it is not wanted.
_rebind(entry, at) ==
  IF target(entry, at) = NoNode THEN {as_recorded(entry)}
  ELSE LET expected == entry.turn.say.expect.node
       IN {Bound(entry, at, live[target(entry, at)],
                 IF expected \in wanted(entry, at) THEN live[expected] ELSE NoNode) :
             live \in locate(wanted(entry, at))}

\* The cursor is the turn's index: every answer becomes a record.
Exhausted == index >= Len(recorded.turns)
Next_record == recorded.turns[index + 1]
Elsewhere == Next_record.page.location # before.location

next_turn ==
  /\ phase = "ask" /\ ~Exhausted /\ ~Elsewhere
  /\ turn' \in _rebind(Next_record, index) /\ phase' = "judge"
  /\ UNCHANGED <<page, before, outputs, transcript, dead_ends, finished, raised, reached>>

\* TranscriptExhausted and TranscriptDiverged are ModelErrors.
Diverges ==
  /\ phase = "ask"
  /\ \/ Exhausted
     \/ ~Exhausted /\ (Elsewhere \/ ~(wanted(Next_record, index) \subseteq before.finds))
  /\ ModelFails

(***************************************************************************)
(* A run, and its re-run                                                   *)
(***************************************************************************)
Live == recorded = NoRecord

\* The re-run is a discovery of its own, of the same contract.  Only a run nothing disturbed
\* is re-run here.
Again ==
  /\ Live /\ steady /\ phase = "done" /\ finished # NoFinish /\ finished.status # "failed"
  /\ recorded' = [turns |-> transcript, finished |-> finished, outputs |-> outputs]
  /\ phase' = "observe" /\ page' \in Start /\ before' = NoPage /\ turn' = NoTurn
  /\ outputs' = {} /\ transcript' = <<>> /\ dead_ends' = 0 /\ finished' = NoFinish
  /\ raised' = "none" /\ reached' = {}
  /\ steady' = (page' = transcript[1].page)

\* An action leads where it led.
Answers_as_before ==
  IF Live THEN TRUE
  ELSE index + 2 <= Len(recorded.turns) => page' = recorded.turns[index + 2].page

\* An action leads elsewhere than it did, or the page is not there in time.
Irregular ==
  \/ ObserveFails \/ ActFails
  \/ Dispatch /\ ~Answers_as_before
  \/ AwaitExpires /\ (page.notice \/ Judge(turn.say.expect, page) # "not yet")
Regular ==
  \/ Observe \/ RefuseRepeat \/ GiveUp \/ ActIsWrong \/ ActIsRisky \/ Await \/ Finish
  \/ Dispatch /\ Answers_as_before
  \/ AwaitExpires /\ ~page.notice /\ Judge(turn.say.expect, page) = "not yet"

Asked ==
  \/ Live /\ ModelStep
  \/ ~Live /\ (next_turn \/ Diverges)

Run ==
  /\ \/ (Regular \/ Asked) /\ UNCHANGED steady
     \/ Irregular /\ steady' = FALSE
  /\ UNCHANGED recorded

NextBoth ==
  \/ Run \/ Again
  \/ Drift /\ steady' = FALSE /\ UNCHANGED recorded
  \/ Over /\ UNCHANGED <<recorded, steady>>

SpecBoth == InitBoth /\ [][NextBoth]_allVars
FairSpecBoth == SpecBoth /\ WF_vars(LoopStep \/ Asked)

(***************************************************************************)
(* Properties                                                              *)
(***************************************************************************)
\* A turn whose expectation names a node nothing recorded: of a finish or a navigate, which
\* are said again as they are, or another node's in a dead end.
Unbindable(entry, at) ==
  /\ entry.turn.say.expect.of = "value" /\ entry.turn.seen = at
  /\ entry.turn.say.expect.node \notin {target(entry, at)} \cup wanted(entry, at)

\* transcript_model.py: fixture mode "proves the recorded turns work against the live app".
\* On an application that does what it did, a run that ended with an outcome is re-run to
\* the same outcome with the same outputs, turn by turn, the refused and failed turns
\* included, wherever its nodes went; turns that cannot be bound are left aside.
ReRunReproduces ==
  ~Live /\ steady /\ phase = "done" /\ (\A i \in DOMAIN recorded.turns : ~Unbindable(recorded.turns[i], i - 1)) =>
    /\ finished = recorded.finished /\ outputs = recorded.outputs
    /\ index = Len(recorded.turns)
    /\ \A i \in DOMAIN transcript : /\ transcript[i].turn.say = recorded.turns[i].turn.say
                                    /\ transcript[i].ok = recorded.turns[i].ok
=============================================================================
