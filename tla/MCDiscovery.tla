---------------------------- MODULE MCDiscovery -----------------------------
(* A search page that leads to a record, or to "no such member" at a location automation may
   not act on, with a session that may expire under the record; one input, one output. *)
EXTENDS TranscriptModel

about(of, node, input, quotes) == [of |-> of, node |-> node, input |-> input, quotes |-> quotes]
onRecord == about("element", NoNode, "none", "none")
missing  == about("page", NoNode, "none", "none")
typed    == about("value", "box", "id", "none")
quoted   == about("page", NoNode, "none", "status")
MCExpects == {onRecord, missing, typed, quoted}

at(where, notice, finds, vague, shows, many) ==
  [location |-> where, notice |-> notice, finds |-> finds, vague |-> vague,
   shows |-> shows, many |-> many]
search == at("app", FALSE, {"box", "go"}, {}, {typed}, {})
record == at("app", FALSE, {"field"}, {"box"}, {onRecord, quoted}, {})
absent == at("out", FALSE, {"box", "go"}, {}, {missing, typed}, {onRecord})
expired == at("app", TRUE, {}, {}, {}, {})
MCPages == {search, record, absent, expired}
MCStart == {search}
MCApp == [x \in MCPages \X (Nodes \cup Locations) |->
            IF x[2] = "app" THEN {search} ELSE IF x[2] = "out" THEN {absent}
            ELSE IF x[2] = "go" THEN {record, absent} ELSE {x[1]}]
MCDrifts == [p \in MCPages |-> IF p = record THEN {expired} ELSE {}]

say(kind, does, goes, node, value, bind_to, risky, expect, success, binds) ==
  [kind |-> kind, does |-> does, goes |-> goes, node |-> node, value |-> value,
   bind_to |-> bind_to, risky |-> risky, expect |-> expect, success |-> success, binds |-> binds]
act(does, goes, node, value, bind_to, risky, expect) ==
  say("act", does, goes, node, value, bind_to, risky, expect, FALSE, {})
finish(expect, success, binds) ==
  say("finish", "other", "app", NoNode, "none", "none", FALSE, expect, success, binds)
MCTurns ==
  { act("navigate", "out", NoNode, "none", "none", FALSE, onRecord),
    act("navigate", "app", NoNode, "none", "none", FALSE, typed),
    act("other", "app", "box", "id", "none", FALSE, typed),
    act("other", "app", "go", "none", "none", FALSE, onRecord),
    act("other", "app", "go", "none", "none", TRUE, onRecord),
    act("read", "app", "field", "none", "status", FALSE, onRecord),
    act("read", "app", "field", "none", "status", FALSE, quoted),
    finish(onRecord, TRUE, {"status"}), finish(onRecord, TRUE, {}), finish(missing, FALSE, {}),
    say("give_up", "other", "app", NoNode, "none", "none", FALSE, missing, FALSE, {}) }
=============================================================================
