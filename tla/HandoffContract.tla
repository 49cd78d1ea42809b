-------------------------- MODULE HandoffContract ---------------------------
(***************************************************************************)
(* What Escalator.request promises a paused run, whatever carries it: the  *)
(* request it makes is decided at most once, by an operator, and the run   *)
(* is given that decision and no other, or is told that there is none.     *)
(***************************************************************************)
CONSTANTS Runs,       \* the runs that may pause
          RequestIds, \* what a request can be called
          Answers,    \* what an operator can decide
          Nothing     \* no request, no decision

VARIABLES waiting,   \* the request each run waits on
          decision,  \* what was decided on each open request
          given      \* what each run was last given

handoff == <<waiting, decision, given>>

Init ==
  /\ waiting = [r \in Runs |-> Nothing]
  /\ decision = [i \in RequestIds |-> Nothing]
  /\ given = [r \in Runs |-> Nothing]

Ask(r) ==
  /\ waiting[r] = Nothing
  /\ \E i \in RequestIds : waiting' = [waiting EXCEPT ![r] = i]
  /\ given' = [given EXCEPT ![r] = Nothing] /\ UNCHANGED decision

Decide(i) ==
  /\ decision[i] = Nothing
  /\ \E a \in Answers : decision' = [decision EXCEPT ![i] = a]
  /\ UNCHANGED <<waiting, given>>

Give(r) ==
  /\ waiting[r] # Nothing /\ decision[waiting[r]] # Nothing
  /\ given' = [given EXCEPT ![r] = decision[waiting[r]]]
  /\ waiting' = [waiting EXCEPT ![r] = Nothing] /\ UNCHANGED decision

\* The channel breaks: these runs stop waiting and are given nothing.
Break ==
  /\ \E lost \in SUBSET Runs :
       waiting' = [r \in Runs |-> IF r \in lost THEN Nothing ELSE waiting[r]]
  /\ UNCHANGED <<decision, given>>

\* Whoever held the requests is gone, and every decision with it.
Forget ==
  /\ decision' = [i \in RequestIds |-> Nothing]
  /\ \E lost \in SUBSET Runs :
       waiting' = [r \in Runs |-> IF r \in lost THEN Nothing ELSE waiting[r]]
  /\ UNCHANGED given

Next == Break \/ Forget \/ (\E r \in Runs : Ask(r) \/ Give(r)) \/ (\E i \in RequestIds : Decide(i))

Spec == Init /\ [][Next]_handoff
=============================================================================
