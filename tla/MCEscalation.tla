---------------------------- MODULE MCEscalation ----------------------------
(* Two runs that drew the same run id in the same second, and two operators. *)
EXTENDS Escalation

MCRunId == [r \in Runs |-> "id"]
=============================================================================
