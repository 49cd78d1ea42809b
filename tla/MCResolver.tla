----------------------------- MODULE MCResolver -----------------------------
(* Two headings and three buttons of one frame and a button of another; or a heading and two
   buttons of one frame, and a heading and a button of another with the same title. They
   change in one signal at a time. *)
EXTENDS Overlay, TLC

node(key, role, frame, order, place, name, label, text, within) ==
  [key |-> key, role |-> role, frame |-> frame, order |-> order, place |-> place, name |-> name,
   label |-> label, text |-> text, within |-> within]
headings(key, order, place, texts) ==
  {node(key, "heading", "top", order, place, NoText, NoText, t, <<>>) : t \in texts}
buttons(key, frame, order, place, label) ==
  {node(key, "button", frame, order, place, name, l, NoText, within) :
     name \in {"search", "find"}, l \in {label, NoText}, within \in {<<>>, <<"form">>}}
plain(key, frame, order, place) == node(key, "button", frame, order, place, "search", NoText, NoText, <<>>)
H1 == headings("h1", 0, 0, {"new", "old"})
B1 == buttons("b1", "top", 1, 1, "id")
B2 == buttons("b2", "top", 2, 2, "id:")
H2 == headings("h2", 3, 3, {"new", "old list"})
B3 == {b \in buttons("b3", "top", 4, 4, "id") : b.label = NoText}
H3 == headings("h3", 0, 6, {"new", "old list"})
MCNode == H1 \cup B1 \cup B2 \cup H2 \cup B3 \cup H3
          \cup buttons("b4", "record", 0, 5, "id") \cup buttons("b5", "top", 1, 7, "id")
MCLoads ==
  {{h1, h2, b1, b2, b3, plain("b4", "record", 0, 5)} : h1 \in H1, h2 \in H2, b1 \in B1, b2 \in B2, b3 \in B3}
    \cup {{h1, b1, b2, h3, plain("b5", "top", 1, 7)} : h1 \in H1, b1 \in B1, b2 \in B2, h3 \in H3}
MCBecomes == [n \in MCNode |->
  {m \in MCNode : /\ m.key = n.key
                  /\ Cardinality({f \in {"name", "label", "text", "within"} : m[f] # n[f]}) = 1}]

\* "old list" is the list under "old"; a colon makes no other label.
MCContains == {<<"old", "old list">>, <<"former", "former list">>, <<"id", "id:">>, <<"id:", "id">>}

\* Words and a title of its own, the list's among them though no overlay entry speaks of it;
\* two words swapped; and words renamed onto one the tenant keeps and a part of another.
overlay(renames, frames, more) == [renames |-> renames, frames |-> frames, says |-> renames @@ more]
MCTenants ==
  {overlay("search" :> "look up" @@ "old" :> "former" @@ "form" :> "sheet", "record" :> "file",
           "old list" :> "former list"),
   overlay("search" :> "find" @@ "find" :> "search", <<>>, <<>>),
   overlay("search" :> "find" @@ "new" :> "old", <<>>, <<>>)}
=============================================================================
