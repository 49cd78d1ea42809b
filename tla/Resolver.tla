------------------------------ MODULE Resolver ------------------------------
(***************************************************************************)
(* Which control a recorded target is: describe (cua/discovery/derive.py)  *)
(* records signals of a node the model picked, adding them until they are  *)
(* enough; the page drifts; resolve (cua/surface/resolver.py) finds the    *)
(* node again, strictly for a predicate, tolerantly for an action.  A name *)
(* must be the recorded one to the letter; labels and nearby texts are     *)
(* normalized, and a nearby text may be part of a longer one.              *)
(***************************************************************************)
EXTENDS Naturals, FiniteSets, Sequences

CONSTANTS
  Node,            \* what a node can be, at any time
  Texts, NoText,   \* what a page can say; an empty text is none
  Contains,        \* <<t, u>>: normalized, t is part of u and they are not spelled alike
  NoOrdinal, NoDescriptor, NoNode,
  Landmarks,       \* roles whose text describes what follows
  NEARBY_WINDOW,   \* 15 in resolver.py
  Loads,           \* the pages there can be when a target is recorded
  Becomes,         \* Becomes[node]: what it may change into
  MaxDrifts        \* how many changes to look at

\* A node's place is where it is in the observation, and its order where in the walk of its
\* frame: frames titled alike are one path, on which the orders of both run side by side.
\* within holds the named containers it is in, nearest first; key is the control a user
\* would say it is (ghost).  A container's text is what is inside it, joined.
InPlace(obs) == \A n \in obs, m \in obs : n.place = m.place => n = m

ASSUME NodeAssumption ==
  /\ \A n \in Node : /\ DOMAIN n = {"key", "role", "frame", "order", "place", "name", "label", "text", "within"}
                     /\ n.order \in Nat /\ n.place \in Nat /\ n.within \in Seq(Texts)
                     /\ {n.name, n.label, n.text} \subseteq Texts \cup {NoText}
  /\ NoText \notin Texts /\ NoNode \notin Node /\ NoOrdinal \notin Nat
  /\ NEARBY_WINDOW \in Nat /\ MaxDrifts \in Nat
  /\ Loads \subseteq SUBSET Node /\ \A p \in Loads : IsFiniteSet(p) /\ InPlace(p)
  /\ Becomes \in [Node -> SUBSET Node]

VARIABLES
  page,         \* the nodes of the observation
  target,       \* the node the model picked
  descriptor,   \* what was recorded of it
  drifts,       \* ghost: changes since
  acted         \* what the action resolved to

vars == <<page, target, descriptor, drifts, acted>>

(***************************************************************************)
(* resolve                                                                 *)
(***************************************************************************)
Found(n) == [as |-> "found", node |-> n]
Unresolvable == [as |-> "unresolvable", node |-> NoNode]
Ambiguous == [as |-> "ambiguous", node |-> NoNode]

\* NoNode, what `acted` is before the action, is none of them.
ASSUME ResolutionAssumption ==
  NoNode \notin {Unresolvable, Ambiguous} \cup {Found(n) : n \in Node}

\* normalize(t) in normalize(u), and normalize(t) == normalize(u).
inside(t, u) == t = u \/ <<t, u>> \in Contains
alike(t, u) == inside(t, u) /\ inside(u, t)

near(obs, n) ==
  {m.text : m \in {m \in obs : /\ m.frame = n.frame
                               /\ m.order <= n.order + NEARBY_WINDOW
                               /\ n.order <= m.order + NEARBY_WINDOW}}

scoped(obs, d) == {n \in obs : n.frame = d.frame /\ n.role = d.role}

\* A signal that was not recorded keeps every node.
by_name(obs, d) == {n \in obs : d.name # NoText => n.name = d.name}
by_container(obs, d) ==
  {n \in obs : d.container # NoText => \E i \in DOMAIN n.within : n.within[i] = d.container}
by_label(obs, d) == {n \in obs : d.label # NoText => n.label # NoText /\ alike(n.label, d.label)}
by_nearby(obs, d) ==
  {n \in obs : d.nearby # NoText => \E t \in near(obs, n) : inside(d.nearby, t)}

single(C) == \E n \in C : C = {n}

\* One tier: done when one node is left, and a signal that would leave none is stale.
TierAlone(C, keep) == IF single(C) \/ C \cap keep = {} THEN C ELSE keep
tier(C, keep) == IF single(C) \/ C \cap keep = {} THEN C ELSE C \cap keep

tolerant(obs, d) ==
  tier(tier(tier(tier(scoped(obs, d), by_name(obs, d)), by_container(obs, d)),
            by_label(obs, d)), by_nearby(obs, d))
strict(obs, d) ==
  scoped(obs, d) \cap by_name(obs, d) \cap by_container(obs, d) \cap by_label(obs, d)
    \cap by_nearby(obs, d)

\* `sorted` by order keeps the nodes of one order as they are in the observation.
precedes(m, n) == m.order < n.order \/ (m.order = n.order /\ m.place < n.place)
before(C, n) == Cardinality({m \in C : precedes(m, n)})

pick_first(C, d) ==
  IF C = {} THEN Unresolvable
  ELSE IF single(C) \/ d.ordinal = NoOrdinal THEN Found(CHOOSE n \in C : \A m \in C : n.order <= m.order)
  ELSE IF \E n \in C : before(C, n) = d.ordinal
       THEN Found(CHOOSE n \in C : before(C, n) = d.ordinal) ELSE Unresolvable

\* The one node left, or the recorded ordinal among several.
pick(C, d) ==
  IF C = {} THEN Unresolvable
  ELSE IF single(C) THEN Found(CHOOSE n \in C : C = {n})
  ELSE IF d.ordinal = NoOrdinal THEN Ambiguous
  ELSE IF \E n \in C : before(C, n) = d.ordinal
       THEN Found(CHOOSE n \in C : before(C, n) = d.ordinal) ELSE Unresolvable

resolve(obs, d) == pick(tolerant(obs, d), d)
resolve_strictly(obs, d) == pick(strict(obs, d), d)

(***************************************************************************)
(* describe                                                                *)
(***************************************************************************)
signals(n) == [role |-> n.role, frame |-> n.frame, name |-> n.name, label |-> n.label,
               container |-> NoText, nearby |-> NoText, ordinal |-> NoOrdinal]

with_container(d, n) ==
  IF n.within = <<>> THEN d ELSE [d EXCEPT !.container = n.within[1]]

preceding(obs, n) ==
  {m \in obs : /\ m.frame = n.frame /\ m.role \in Landmarks /\ m.text # NoText
               /\ m.order < n.order /\ n.order <= m.order + NEARBY_WINDOW}
\* The first of the highest order.
is_nearest(m, C) == \A o \in C : o.order < m.order \/ (o.order = m.order /\ m.place <= o.place)
with_nearby(obs, d, n) ==
  IF preceding(obs, n) = {} THEN d
  ELSE [d EXCEPT !.nearby = (CHOOSE m \in preceding(obs, n) : is_nearest(m, preceding(obs, n))).text]

with_ordinal(obs, d, n) == [d EXCEPT !.ordinal = before(strict(obs, d), n)]

\* A signal is added only while the ones before are ambiguous.
enough(obs, d) == resolve_strictly(obs, d) # Ambiguous
enriched(obs, n) ==
  LET named == signals(n)
      contained == IF enough(obs, named) THEN named ELSE with_container(named, n)
      placed == IF enough(obs, contained) THEN contained ELSE with_nearby(obs, contained, n)
  IN IF enough(obs, placed) THEN placed ELSE with_ordinal(obs, placed, n)

\* DerivationFailed unless the signals resolve strictly to the node.
describe(obs, n) ==
  IF resolve_strictly(obs, enriched(obs, n)) = Found(n) THEN enriched(obs, n) ELSE NoDescriptor

(***************************************************************************)
(* Discovery records a target; the page drifts; replay acts                *)
(***************************************************************************)
Init ==
  /\ page \in Loads /\ target = NoNode /\ descriptor = NoDescriptor
  /\ drifts = 0 /\ acted = NoNode

Record(n) ==
  /\ target = NoNode /\ target' = n /\ descriptor' = describe(page, n)
  /\ UNCHANGED <<page, drifts, acted>>

Change(n, m) ==
  /\ descriptor # NoDescriptor /\ acted = NoNode /\ drifts < MaxDrifts
  /\ page' = (page \ {n}) \cup {m} /\ InPlace(page') /\ drifts' = drifts + 1
  /\ UNCHANGED <<target, descriptor, acted>>

Remove(n) ==
  /\ descriptor # NoDescriptor /\ acted = NoNode /\ drifts < MaxDrifts
  /\ page' = page \ {n} /\ drifts' = drifts + 1
  /\ UNCHANGED <<target, descriptor, acted>>

\* As if the node it was recorded of were kept.
ActOnRecorded ==
  /\ descriptor # NoDescriptor /\ acted = NoNode /\ acted' = Found(target)
  /\ UNCHANGED <<page, target, descriptor, drifts>>

Act ==
  /\ descriptor # NoDescriptor /\ acted = NoNode
  /\ acted' = resolve(page, descriptor)
  /\ UNCHANGED <<page, target, descriptor, drifts>>

Over ==
  /\ acted # NoNode \/ (target # NoNode /\ descriptor = NoDescriptor)
  /\ UNCHANGED vars

Next ==
  \/ \E n \in page : Record(n)
  \/ \E n \in page : \E m \in Becomes[n] : Change(n, m)
  \/ \E n \in page : Remove(n)
  \/ Act
  \/ Over

Spec == Init /\ [][Next]_vars

(***************************************************************************)
(* Properties                                                              *)
(***************************************************************************)
Descriptor == [role : {n.role : n \in Node}, frame : {n.frame : n \in Node},
               name : Texts \cup {NoText}, label : Texts \cup {NoText},
               container : Texts \cup {NoText}, nearby : Texts \cup {NoText},
               ordinal : Nat \cup {NoOrdinal}]
Resolutions == {Unresolvable, Ambiguous} \cup {Found(n) : n \in Node}

TypeOK ==
  /\ page \subseteq Node /\ target \in Node \cup {NoNode}
  /\ descriptor \in Descriptor \cup {NoDescriptor} /\ drifts \in 0 .. MaxDrifts
  /\ acted \in Resolutions \cup {NoNode}
  /\ target = NoNode => descriptor = NoDescriptor
  /\ acted # NoNode => descriptor # NoDescriptor
  /\ acted # NoNode /\ acted.as = "found" => acted.node \in page

\* derive.py: a descriptor is proven replayable when it is recorded.  On the page it was
\* recorded on, an action resolves to the very node, by whichever signals it took.
ProvedTargetIsActedOn ==
  drifts = 0 /\ acted # NoNode => acted = Found(target)

\* Invariant 3 of resolver.py, never one of several: without an ordinal, what an action
\* resolves to differs from every other node of its role and frame in a recorded signal
\* that holds of it.
NeverOneOfSeveral ==
  \A n \in page, m \in page :
    /\ descriptor # NoDescriptor /\ descriptor.ordinal = NoOrdinal
    /\ acted = Found(n) /\ m \in scoped(page, descriptor) /\ m # n
    => \/ n \in by_name(page, descriptor) /\ m \notin by_name(page, descriptor)
       \/ n \in by_container(page, descriptor) /\ m \notin by_container(page, descriptor)
       \/ n \in by_label(page, descriptor) /\ m \notin by_label(page, descriptor)
       \/ n \in by_nearby(page, descriptor) /\ m \notin by_nearby(page, descriptor)

\* A predicate resolves strictly and an action tolerantly: on any page, what the strict
\* reading finds the tolerant one finds too, so the control a postcondition speaks of and
\* the control a step acts on are one.
ToleranceKeepsWhatIsStrict ==
  descriptor # NoDescriptor =>
    \A n \in page : resolve_strictly(page, descriptor) = Found(n) => resolve(page, descriptor) = Found(n)
=============================================================================
