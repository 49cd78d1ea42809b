------------------------------ MODULE MCReplay ------------------------------
(* A capability of three steps against an app with one dismissable notice, one
   login page in the way, one "no such record" answer and one page off the
   allowlist. *)
EXTENDS ReplayClaims

MCSteps ==
  << [target |-> NoTarget, kind |-> "navigate", goes |-> "app", value |-> NoInput,
      bind_to |-> NoOutput, risky |-> FALSE, post |-> "opened"],
     [target |-> "balance", kind |-> "read", goes |-> NoLocation, value |-> NoInput,
      bind_to |-> "amount", risky |-> FALSE, post |-> "chosen"],
     [target |-> "submit", kind |-> "other", goes |-> NoLocation, value |-> "memo",
      bind_to |-> NoOutput, risky |-> TRUE, post |-> "posted"] >>
MCBusiness == << [name |-> "not_found", detector |-> "empty", binds |-> {}],
                 [name |-> "partial", detector |-> "draft", binds |-> {"amount"}] >>
MCSuccess == [name |-> "posted", detector |-> "posted", binds |-> {"amount"}]
MCInterstitials ==
  << [name |-> "login", detector |-> "login", failure_kind |-> "session_expired",
      dismiss |-> NoTarget],
     [name |-> "notice", detector |-> "notice", failure_kind |-> "interstitial_persisted",
      dismiss |-> "close"] >>

at(where, shows, finds) == [location |-> where, shows |-> shows, finds |-> finds]
MCPages ==
  { at("app", {"opened", "chosen"}, {"balance", "submit"}),
    at("out", {"opened", "chosen", "empty", "draft"}, {}),
    at("app", {"posted", "total"}, {"balance"}),
    at("app", {"notice"}, {"close"}),
    at("app", {"login", "notice"}, {"close"}),
    at("out", {"opened", "chosen", "draft", "posted"}, {"balance", "submit"}) }
MCPredicates == {"opened", "chosen", "posted", "total", "empty", "draft", "login", "notice"}
\* "chosen" says that a control has the plan asked for.
MCAsks == [p \in MCPredicates |-> IF p = "chosen" THEN "plan" ELSE NoInput]

caller(s, r, e, v) ==
  [supplied |-> s, approve_risky |-> r, escalator |-> e, evidence |-> v]
both == {"memo", "plan"}
MCRuns == { caller(both, FALSE, TRUE, FALSE), caller(both, FALSE, FALSE, TRUE),
            caller(both, TRUE, FALSE, TRUE), caller(both, FALSE, FALSE, FALSE),
            caller({"plan"}, TRUE, FALSE, FALSE), caller({"memo"}, TRUE, FALSE, FALSE),
            caller({"undeclared"}, FALSE, FALSE, FALSE) }
=============================================================================
