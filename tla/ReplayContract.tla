--------------------------- MODULE ReplayContract ---------------------------
(***************************************************************************)
(* What a replay promises its caller, without how: steps are proved one    *)
(* after the other, a human may take over only for a failure a human can   *)
(* do something about and may only send the run back, and the run answers  *)
(* success with every step proved, a business outcome with at least one,   *)
(* and otherwise the failure that stopped it.                              *)
(***************************************************************************)
EXTENDS Naturals

CONSTANTS N,           \* how many steps the capability has, at least one
          Escalating,  \* failure kinds a human can be asked about
          Terminal,    \* failure kinds that always end the run
          None         \* no failure

VARIABLES phase,   \* who has the run, or how it ended
          proved,  \* how many leading steps are proved
          cause    \* the failure in hand, None while there is none

contract == <<phase, proved, cause>>

Init == phase = "automation" /\ proved = 0 /\ cause = None

Prove ==
  /\ phase = "automation" /\ cause = None /\ proved < N
  /\ proved' = proved + 1 /\ UNCHANGED <<phase, cause>>

Break ==
  /\ phase = "automation" /\ cause = None
  /\ cause' \in Escalating \cup Terminal /\ UNCHANGED <<phase, proved>>

Escalate ==
  /\ phase = "automation" /\ cause \in Escalating
  /\ phase' = "human" /\ UNCHANGED <<proved, cause>>

\* The run goes back to a step it has proved or to the one that stopped it.
Resume ==
  /\ phase = "human" /\ phase' = "automation"
  /\ proved' \in {k \in 0 .. proved : k < N} /\ cause' = None

Succeed ==
  /\ phase = "automation" /\ cause = None /\ proved = N
  /\ phase' = "success" /\ UNCHANGED <<proved, cause>>

Answer ==
  /\ phase = "automation" /\ cause = None /\ proved > 0
  /\ phase' = "business_outcome" /\ UNCHANGED <<proved, cause>>

\* Aborted by the human, or never handed over.
Stop ==
  /\ phase \in {"automation", "human"} /\ cause # None
  /\ phase = "human" => cause \in Escalating
  /\ phase' = "failed" /\ UNCHANGED <<proved, cause>>

\* The caller gets an exception and no result.
GiveWay ==
  /\ phase \in {"automation", "human"} /\ phase' = "raised"
  /\ UNCHANGED <<proved, cause>>

Next == Prove \/ Break \/ Escalate \/ Resume \/ Succeed \/ Answer \/ Stop \/ GiveWay

Spec == Init /\ [][Next]_contract
=============================================================================
