----------------------------- MODULE MCCompile ------------------------------
(* A search form that finds a record, loads one, or finds nothing, beside a site-wide
   search that never finds anything (both tell a status) and whose button is named as go's second variant. *)
EXTENDS Compile, TLC

MCApp == [w \in Worlds |-> [p \in Pages |-> [a \in Acts |->
  IF a = "read" THEN (IF p \in {"record", "nothing"} THEN p ELSE NoPage)
  ELSE IF p = "loading" THEN NoPage
  ELSE IF a = "site" THEN "nothing"
  ELSE IF w = "absent" THEN "nothing" ELSE IF w = "slow" THEN "loading" ELSE "record"]]]
MCDrifts == [p \in Pages |-> IF p = "loading" THEN {"record"} ELSE {}]
MCHolds == [p \in Pages |->
  CASE p = "form" -> {} [] p = "record" -> {"opened", "status", "typed", "quoted"}
    [] p = "loading" -> {"opened", "none"} [] p = "nothing" -> {"opened", "none", "typed"}]
MCReads == [a \in Acts |-> IF a = "read" THEN "status" ELSE NoOutput]
MCStepName == [a \in Acts |->
  IF a = "read" THEN "read_status" ELSE IF a = "go" THEN "click_go" ELSE "click_go_2"]
MCSuffixed == [name \in Named |-> [n \in 2 .. MaxTurns + 1 |-> name \o "_" \o ToString(n)]]
MCIds == Named \cup {MCSuffixed[name][n] : name \in Named, n \in 2 .. MaxTurns + 1}
MCSays == {<<"go", "opened">>, <<"go", "quoted">>, <<"site", "opened">>,
           <<"site", "status">>, <<"read", "opened">>}
MCDeclares == {<<"status", {"status"}, TRUE>>, <<"quoted", {"status"}, TRUE>>,
               <<"none", {}, FALSE>>, <<"opened", {}, FALSE>>, <<"typed", {}, FALSE>>,
               <<"none", {"status"}, FALSE>>}
=============================================================================
