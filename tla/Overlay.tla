------------------------------- MODULE Overlay ------------------------------
(***************************************************************************)
(* A capability recorded on the base application is replayed for a tenant  *)
(* whose pages say other words: apply_overlay (cua/replay/overlay.py)      *)
(* rewrites every descriptor of the artifact, in targets and in            *)
(* predicates, string by string and whole strings only; what the tenant's  *)
(* pages say is the tenant's own affair.                                   *)
(***************************************************************************)
EXTENDS Resolver

CONSTANT Tenants    \* their overlays, and what their pages say for a text of the base pages

\* A validated TenantOverlay (schema/overlay.py): a base string is the key.
collapses(renames) == \E s, t \in DOMAIN renames : s # t /\ renames[s] = renames[t]
valid(renames) == ~collapses(renames) /\ \A s \in DOMAIN renames : renames[s] # s

ASSUME OverlayAssumption ==
  \A o \in Tenants : /\ DOMAIN o = {"renames", "frames", "says"} /\ valid(o.renames) /\ valid(o.frames)
                     /\ DOMAIN o.renames # {} \/ DOMAIN o.frames # {}
                     /\ \A words \in {o.renames, o.says} :
                          NoText \notin DOMAIN words /\ \A s \in DOMAIN words : words[s] # NoText

one(renames, text) == IF text \in DOMAIN renames THEN renames[text] ELSE text

(***************************************************************************)
(* What is rewritten                                                       *)
(***************************************************************************)
\* The name and the label only.
overlaid_in_part(o, d) == [d EXCEPT !.name = one(o.renames, @), !.label = one(o.renames, @),
                                  !.frame = one(o.frames, @)]

\* Every text twice, as of an artifact that was rewritten before.
overlaid_again(o, d) ==
  LET twice(words, t) == one(words, one(words, t)) IN
  [d EXCEPT !.name = twice(o.renames, @), !.label = twice(o.renames, @),
            !.nearby = twice(o.renames, @), !.container = twice(o.renames, @),
            !.frame = twice(o.frames, @)]

\* _Renamer.target: a signal that was not recorded stays so.
overlaid(o, d) ==
  [d EXCEPT !.name = one(o.renames, @), !.label = one(o.renames, @), !.nearby = one(o.renames, @),
            !.container = one(o.renames, @), !.frame = one(o.frames, @)]

\* A predicate about an element, as `holds` reads it: strictly, and two matches are not it.
Says == {"element_present", "element_absent"}
holds(says, obs, d) ==
  CASE says = "element_present" -> resolve_strictly(obs, d).as = "found"
    [] says = "element_absent" -> resolve_strictly(obs, d) = Unresolvable

(***************************************************************************)
(* The tenant's pages                                                      *)
(***************************************************************************)
\* What the base page shows, in the tenant's words: a text that holds others is another text
\* too, which an overlay need not list.
said(o, t) == one(o.says, t)
renamed(o, n) ==
  [n EXCEPT !.name = said(o, @), !.label = said(o, @), !.text = said(o, @),
            !.within = [i \in DOMAIN @ |-> said(o, @[i])], !.frame = one(o.frames, @)]
for_tenant(o, obs) == {renamed(o, n) : n \in obs}

\* The overlay names what was recorded as the tenant's pages do.
Names(o, d) ==
  \A s \in {d.name, d.label, d.container, d.nearby} : one(o.renames, s) = said(o, s)

\* What was recorded, rewritten, is found in the tenant's texts exactly where it was found in
\* the base's, by the resolver's own comparisons; and no other frame gets its frame's title.
\* The validator looks at the overlay's entries alone and can ask neither.
KeptApart(o, d) ==
  LET Shown == Texts \cup {NoText} IN
  /\ \A s \in {d.name, d.container} \ {NoText}, t \in Shown :
       said(o, t) = one(o.renames, s) <=> t = s
  /\ d.label # NoText => \A t \in Texts : alike(said(o, t), one(o.renames, d.label)) <=> alike(t, d.label)
  /\ d.nearby # NoText =>
       \A t \in Shown : inside(one(o.renames, d.nearby), said(o, t)) <=> inside(d.nearby, t)
  /\ \A n \in Node : one(o.frames, n.frame) = one(o.frames, d.frame) => n.frame = d.frame

(***************************************************************************)
(* Properties                                                              *)
(***************************************************************************)
Resolution(o, r) == IF r.as = "found" THEN Found(renamed(o, r.node)) ELSE r

\* "The overlay is not a new capability": on the pages of a tenant that keeps apart what was
\* recorded, the rewritten descriptor finds what the recorded one finds on the base page, be
\* it acted on or read by a predicate, drifted or not, and fails where that fails.
TenantFindsTheSame ==
  descriptor # NoDescriptor =>
    \A o \in {t \in Tenants : KeptApart(t, descriptor)} :
      /\ resolve(for_tenant(o, page), overlaid(o, descriptor)) = Resolution(o, resolve(page, descriptor))
      /\ \A says \in Says :
           holds(says, for_tenant(o, page), overlaid(o, descriptor)) = holds(says, page, descriptor)

\* A tenant may also make two texts one, or one a part of another: the validator lets it, and
\* a recorded text is then found in more places than it was.  As long as no ordinal counts
\* them, an action finds the recorded control or is refused as ambiguous, never another one.
OverlayNeverMisleads ==
  drifts = 0 /\ descriptor # NoDescriptor /\ descriptor.ordinal = NoOrdinal =>
    \A o \in {t \in Tenants : Names(t, descriptor)} :
      resolve(for_tenant(o, page), overlaid(o, descriptor)) \in {Found(renamed(o, target)), Ambiguous}
=============================================================================
