--------------------------- MODULE ResolverProofs ---------------------------
(***************************************************************************)
(* Proofs about describe and resolve, for every page, every set of signals *)
(* and every drift; that an overlay changes words and nothing else, for    *)
(* every page, recorded target and tenant that keeps apart what was        *)
(* recorded; and that no tenant is led to another control, kept apart or   *)
(* not, as long as no ordinal counts.                                      *)
(***************************************************************************)
EXTENDS Overlay, FiniteSetTheorems, WellFoundedInduction, TLAPS

(***************************************************************************)
(* The narrowing                                                           *)
(***************************************************************************)
\* While some node has every signal, no tier is skipped and none stops early in vain.
LEMMA TierNarrows ==
  ASSUME NEW C, NEW K, NEW S, S # {}, S \subseteq C, S \subseteq K
  PROVE  tier(C, K) = C \cap K
<1>1. C \cap K # {}
  OBVIOUS
<1>2. ASSUME single(C) PROVE C \cap K = C
  <2>1. PICK n \in C : C = {n}
    BY <1>2 DEF single
  <2> QED BY <2>1
<1> QED BY <1>1, <1>2 DEF tier

\* Then tolerance changes nothing: both readings are left with the same nodes.
LEMMA TolerantIsStrict ==
  ASSUME NEW obs, NEW d, strict(obs, d) # {}
  PROVE  tolerant(obs, d) = strict(obs, d)
<1> DEFINE S == strict(obs, d)
           named == tier(scoped(obs, d), by_name(obs, d))
           contained == tier(named, by_container(obs, d))
           labelled == tier(contained, by_label(obs, d))
<1>1. /\ S \subseteq scoped(obs, d) /\ S \subseteq by_name(obs, d) /\ S \subseteq by_container(obs, d)
      /\ S \subseteq by_label(obs, d) /\ S \subseteq by_nearby(obs, d)
  BY DEF strict
<1>2. named = scoped(obs, d) \cap by_name(obs, d)
  BY <1>1, TierNarrows
<1>3. contained = named \cap by_container(obs, d)
  BY <1>1, <1>2, TierNarrows
<1>4. labelled = contained \cap by_label(obs, d)
  BY <1>1, <1>2, <1>3, TierNarrows
<1>5. tier(labelled, by_nearby(obs, d)) = labelled \cap by_nearby(obs, d)
  BY <1>1, <1>2, <1>3, <1>4, TierNarrows
<1> QED BY <1>2, <1>3, <1>4, <1>5 DEF tolerant, strict

LEMMA FoundIsNotAFailure ==
  ASSUME NEW n, NEW m
  PROVE  Found(n) # Unresolvable /\ Found(n) # Ambiguous /\ (Found(n) = Found(m) => n = m)
BY DEF Found, Unresolvable, Ambiguous

\* A resolution to a node is to one of the candidates, and never for want of a better one.
LEMMA PickIsACandidate ==
  ASSUME NEW C, NEW d, NEW n, pick(C, d) = Found(n)
  PROVE  n \in C /\ (d.ordinal = NoOrdinal => C = {n})
<1>1. C # {}
  BY FoundIsNotAFailure DEF pick
<1>2. CASE single(C)
  <2>1. PICK m \in C : C = {m}
    BY <1>2 DEF single
  <2>2. (CHOOSE x \in C : C = {x}) = m
    BY <2>1
  <2>3. pick(C, d) = Found(m)
    BY <1>1, <1>2, <2>2 DEF pick
  <2> QED BY <2>1, <2>3, FoundIsNotAFailure
<1>3. CASE ~ single(C)
  <2>1. d.ordinal # NoOrdinal
    BY <1>1, <1>3, FoundIsNotAFailure DEF pick
  <2>2. \E x \in C : before(C, x) = d.ordinal
    BY <1>1, <1>3, <2>1, FoundIsNotAFailure DEF pick
  <2>3. pick(C, d) = Found(CHOOSE x \in C : before(C, x) = d.ordinal)
    BY <1>1, <1>3, <2>1, <2>2 DEF pick
  <2>4. (CHOOSE x \in C : before(C, x) = d.ordinal) \in C
    BY <2>2
  <2> QED BY <2>1, <2>3, <2>4, FoundIsNotAFailure
<1> QED BY <1>2, <1>3

\* Whatever a predicate would find, an action finds.
LEMMA StrictlyFoundIsFound ==
  ASSUME NEW obs, NEW d, NEW n, resolve_strictly(obs, d) = Found(n)
  PROVE  resolve(obs, d) = Found(n)
<1>1. n \in strict(obs, d)
  BY PickIsACandidate DEF resolve_strictly
<1> QED BY <1>1, TolerantIsStrict DEF resolve, resolve_strictly

\* A node dropped at a tier lacks its signal, and one kept has it.
LEMMA TierDrops ==
  ASSUME NEW C, NEW K, NEW n, NEW m, n \in tier(C, K), m \in C, m \notin tier(C, K)
  PROVE  n \in K /\ m \notin K
BY DEF tier

LEMMA TierIsPart == ASSUME NEW C, NEW K PROVE tier(C, K) \subseteq C
BY DEF tier

LEMMA TolerantIsPart == ASSUME NEW obs, NEW d PROVE tolerant(obs, d) \subseteq scoped(obs, d)
BY TierIsPart DEF tolerant

LEMMA FoundIsOnThePage ==
  ASSUME NEW obs, NEW d, NEW n, resolve(obs, d) = Found(n)
  PROVE  n \in obs
<1>1. n \in tolerant(obs, d)
  BY PickIsACandidate DEF resolve
<1> QED BY <1>1, TolerantIsPart DEF scoped

(***************************************************************************)
(* The state machine                                                       *)
(***************************************************************************)
\* A bounded set of places has a last one: there is a nearest landmark when there is any.
LEMMA LastExists ==
  ASSUME NEW D, D \subseteq Nat, D # {}, NEW b \in Nat, \A x \in D : x <= b
  PROVE  \E x \in D : \A y \in D : y <= x
<1> DEFINE T == {b - x : x \in D}
<1>1. T \subseteq Nat /\ T # {}
  <2>1. ASSUME NEW x \in D PROVE b - x \in Nat
    <3>1. x \in Nat /\ x <= b
      OBVIOUS
    <3> QED BY <3>1
  <2>2. PICK x \in D : TRUE
    OBVIOUS
  <2>3. b - x \in T
    BY <2>2
  <2> QED BY <2>1, <2>3
<1>2. PICK t \in T : \A y \in T : ~ (<<y, t>> \in OpToRel(<, Nat))
  BY <1>1, NatLessThanWellFounded, WFMin
<1>3. PICK x \in D : t = b - x
  BY <1>2
<1>4. ASSUME NEW y \in D PROVE y <= x
  <2>1. b - y \in T /\ b - y \in Nat /\ t \in Nat
    BY <1>1, <1>2
  <2>2. ~ (b - y < t)
    BY <1>2, <2>1 DEF OpToRel
  <2> QED BY <1>3, <2>1, <2>2
<1> QED BY <1>4

LEMMA FirstExists ==
  ASSUME NEW D, D \subseteq Nat, D # {}
  PROVE  \E x \in D : \A y \in D : x <= y
<1>1. PICK x \in D : \A y \in D : ~ (<<y, x>> \in OpToRel(<, Nat))
  BY NatLessThanWellFounded, WFMin
<1>2. \A y \in D : ~ (y < x)
  BY <1>1 DEF OpToRel
<1> QED BY <1>2

LEMMA NodeTyped ==
  ASSUME NEW n \in Node
  PROVE  /\ n.order \in Nat /\ n.place \in Nat /\ n.within \in Seq(Texts)
         /\ {n.name, n.label, n.text} \subseteq Texts \cup {NoText}
BY NodeAssumption

LEMMA NearestExists ==
  ASSUME NEW obs, obs \subseteq Node, NEW n \in Node, preceding(obs, n) # {}
  PROVE  (CHOOSE m \in preceding(obs, n) : is_nearest(m, preceding(obs, n))) \in preceding(obs, n)
<1> DEFINE P == preceding(obs, n)
           D == {m.order : m \in P}
<1>1. P \subseteq Node /\ \A m \in P : m.order \in Nat /\ m.place \in Nat /\ m.order <= n.order
  BY NodeTyped DEF preceding
<1>2. D \subseteq Nat /\ D # {} /\ \A x \in D : x <= n.order
  BY <1>1
<1>3. n.order \in Nat
  BY NodeTyped
<1>4. PICK x \in D : \A y \in D : y <= x
  BY <1>2, <1>3, LastExists
<1> DEFINE W == {m \in P : m.order = x}
           F == {m.place : m \in W}
<1>5. F \subseteq Nat /\ F # {}
  BY <1>1, <1>4
<1>6. PICK y \in F : \A z \in F : y <= z
  BY <1>5, FirstExists
<1>7. PICK m \in W : m.place = y
  BY <1>6
<1>8. is_nearest(m, P)
  <2> SUFFICES ASSUME NEW o \in P PROVE o.order < m.order \/ (o.order = m.order /\ m.place <= o.place)
    BY DEF is_nearest
  <2>1. o.order \in Nat /\ x \in Nat /\ o.order <= x /\ m.order = x
    BY <1>1, <1>2, <1>4
  <2>2. o.order = x => m.place <= o.place
    BY <1>6, <1>7
  <2> QED BY <2>1, <2>2
<1> QED BY <1>8

LEMMA NearestTyped ==
  ASSUME NEW obs, obs \subseteq Node, NEW n \in Node, preceding(obs, n) # {}
  PROVE  (CHOOSE m \in preceding(obs, n) : is_nearest(m, preceding(obs, n))).text \in Texts \cup {NoText}
BY NearestExists, NodeTyped DEF preceding

LEMMA DescribedTyped ==
  ASSUME NEW obs, obs \subseteq Node, IsFiniteSet(obs), NEW n \in Node
  PROVE  describe(obs, n) \in Descriptor \cup {NoDescriptor}
<1>1. signals(n) \in Descriptor
  BY NodeTyped DEF signals, Descriptor
<1>2. ASSUME NEW d \in Descriptor PROVE with_container(d, n) \in Descriptor
  <2>1. CASE n.within = <<>>
    BY <2>1 DEF with_container
  <2>2. CASE n.within # <<>>
    <3>1. n.within[1] \in Texts
      BY <2>2, NodeTyped
    <3> QED BY <2>2, <3>1 DEF with_container, Descriptor
  <2> QED BY <2>1, <2>2
<1>3. ASSUME NEW d \in Descriptor PROVE with_nearby(obs, d, n) \in Descriptor
  <2>1. CASE preceding(obs, n) = {}
    BY <2>1 DEF with_nearby
  <2>2. CASE preceding(obs, n) # {}
    <3> DEFINE t == (CHOOSE m \in preceding(obs, n) : is_nearest(m, preceding(obs, n))).text
    <3>1. t \in Texts \cup {NoText}
      BY <2>2, NearestTyped
    <3>2. with_nearby(obs, d, n) = [d EXCEPT !.nearby = t]
      BY <2>2 DEF with_nearby
    <3> HIDE DEF t
    <3> QED BY <3>1, <3>2 DEF Descriptor
  <2> QED BY <2>1, <2>2
<1>4. ASSUME NEW d \in Descriptor PROVE with_ordinal(obs, d, n) \in Descriptor
  <2> DEFINE B == {m \in strict(obs, d) : precedes(m, n)}
  <2>1. B \subseteq obs
    BY DEF strict, scoped
  <2>2. Cardinality(B) \in Nat
    BY <2>1, FS_Subset, FS_CardinalityType
  <2>3. with_ordinal(obs, d, n) = [d EXCEPT !.ordinal = Cardinality(B)]
    BY DEF with_ordinal, before
  <2> HIDE DEF B
  <2> QED BY <2>2, <2>3 DEF Descriptor
<1>5. enriched(obs, n) \in Descriptor
  BY <1>1, <1>2, <1>3, <1>4 DEF enriched
<1> QED BY <1>5 DEF describe

\* Every signal of a descriptor is one of the node it was recorded of, on that page.
OfTheNode(obs, n, d) ==
  /\ d \in Descriptor /\ n \in obs
  /\ d.role = n.role /\ d.frame = n.frame /\ d.name = n.name /\ d.label = n.label
  /\ d.container # NoText => \E i \in DOMAIN n.within : n.within[i] = d.container
  /\ d.nearby # NoText =>
       \E m \in obs : /\ m.text = d.nearby /\ m.frame = n.frame
                       /\ m.order <= n.order + NEARBY_WINDOW /\ n.order <= m.order + NEARBY_WINDOW

LEMMA DescribedOfTheNode ==
  ASSUME NEW obs, obs \subseteq Node, IsFiniteSet(obs), NEW n \in obs, describe(obs, n) # NoDescriptor
  PROVE  OfTheNode(obs, n, describe(obs, n))
<1>1. n \in Node /\ n.order \in Nat /\ n.within \in Seq(Texts)
  BY NodeTyped
<1>2. OfTheNode(obs, n, signals(n))
  <2>1. signals(n) \in Descriptor
    BY <1>1, NodeTyped DEF signals, Descriptor
  <2> QED BY <2>1 DEF signals, OfTheNode
<1>3. ASSUME NEW d, OfTheNode(obs, n, d) PROVE OfTheNode(obs, n, with_container(d, n))
  <2>1. CASE n.within = <<>>
    BY <1>3, <2>1 DEF with_container
  <2>2. CASE n.within # <<>>
    <3>1. n.within[1] \in Texts /\ 1 \in DOMAIN n.within
      BY <1>1, <2>2
    <3>2. with_container(d, n) = [d EXCEPT !.container = n.within[1]] /\ d \in Descriptor
      BY <1>3, <2>2 DEF with_container, OfTheNode
    <3> QED BY <1>3, <3>1, <3>2 DEF OfTheNode, Descriptor
  <2> QED BY <2>1, <2>2
<1>4. ASSUME NEW d, OfTheNode(obs, n, d) PROVE OfTheNode(obs, n, with_nearby(obs, d, n))
  <2>1. CASE preceding(obs, n) = {}
    BY <1>4, <2>1 DEF with_nearby
  <2>2. CASE preceding(obs, n) # {}
    <3> DEFINE m == CHOOSE m \in preceding(obs, n) : is_nearest(m, preceding(obs, n))
    <3>1. m \in preceding(obs, n)
      BY <1>1, <2>2, NearestExists
    <3>2. with_nearby(obs, d, n) = [d EXCEPT !.nearby = m.text]
      BY <2>2 DEF with_nearby
    <3> HIDE DEF m
    <3>3. m \in obs /\ m \in Node /\ m.frame = n.frame /\ m.order < n.order /\ n.order <= m.order + NEARBY_WINDOW
      BY <3>1 DEF preceding
    <3>4. m.order <= n.order + NEARBY_WINDOW /\ m.text \in Texts \cup {NoText}
      BY <1>1, <3>3, NodeTyped, NodeAssumption
    <3>5. d \in Descriptor
      BY <1>4 DEF OfTheNode
    <3>6. [d EXCEPT !.nearby = m.text] \in Descriptor
      BY <3>4, <3>5 DEF Descriptor
    <3> QED BY <1>4, <3>2, <3>3, <3>4, <3>5, <3>6 DEF OfTheNode, Descriptor
  <2> QED BY <2>1, <2>2
<1>5. ASSUME NEW d, OfTheNode(obs, n, d) PROVE OfTheNode(obs, n, with_ordinal(obs, d, n))
  <2> DEFINE B == {m \in strict(obs, d) : precedes(m, n)}
  <2>1. B \subseteq obs
    BY DEF strict, scoped
  <2>2. Cardinality(B) \in Nat
    BY <2>1, FS_Subset, FS_CardinalityType
  <2>3. with_ordinal(obs, d, n) = [d EXCEPT !.ordinal = Cardinality(B)] /\ d \in Descriptor
    BY <1>5 DEF with_ordinal, before, OfTheNode
  <2> HIDE DEF B
  <2> QED BY <1>5, <2>2, <2>3 DEF OfTheNode, Descriptor
<1>6. OfTheNode(obs, n, enriched(obs, n))
  BY <1>2, <1>3, <1>4, <1>5 DEF enriched
<1> QED BY <1>6 DEF describe

\* What an action resolved to is what the page it sees resolves to, and until the page
\* drifts the descriptor means the node it was recorded of.
Meant ==
  /\ acted # NoNode => acted = resolve(page, descriptor)
  /\ drifts = 0 /\ descriptor # NoDescriptor =>
       resolve_strictly(page, descriptor) = Found(target) /\ OfTheNode(page, target, descriptor)

IInv == TypeOK /\ IsFiniteSet(page) /\ InPlace(page) /\ Meant

LEMMA Starts == Init => IInv
BY NodeAssumption DEF Init, IInv, TypeOK, Meant

LEMMA RecordStep == ASSUME IInv, NEW n \in page, Record(n) PROVE IInv'
<1>1. /\ page \subseteq Node /\ IsFiniteSet(page) /\ n \in Node /\ n # NoNode /\ acted = NoNode
      /\ UNCHANGED <<page, drifts, acted>> /\ target' = n /\ descriptor' = describe(page, n)
  BY NodeAssumption DEF IInv, TypeOK, Record
<1>2. descriptor' \in Descriptor \cup {NoDescriptor}
  BY <1>1, DescribedTyped
<1>3. TypeOK'
  BY <1>1, <1>2 DEF IInv, TypeOK, Descriptor, Resolutions
<1>4. descriptor' # NoDescriptor => resolve_strictly(page, descriptor') = Found(n)
  BY <1>1 DEF describe
<1>5. descriptor' # NoDescriptor => OfTheNode(page, n, descriptor')
  BY <1>1, DescribedOfTheNode
<1>6. Meant'
  BY <1>1, <1>4, <1>5 DEF Meant, resolve_strictly, resolve, OfTheNode, Descriptor
<1> QED BY <1>1, <1>3, <1>6 DEF IInv

LEMMA DriftStep ==
  ASSUME IInv, page' \subseteq Node, IsFiniteSet(page'), InPlace(page'), acted = NoNode, drifts < MaxDrifts,
         drifts' = drifts + 1, UNCHANGED <<target, descriptor, acted>>
  PROVE  IInv'
<1>1. drifts' \in 0 .. MaxDrifts /\ drifts' # 0
  BY NodeAssumption DEF IInv, TypeOK
<1>2. TypeOK'
  BY <1>1 DEF IInv, TypeOK, Descriptor, Resolutions
<1> QED BY <1>1, <1>2 DEF IInv, Meant

LEMMA ChangeStep ==
  ASSUME IInv, NEW n \in page, NEW m \in Becomes[n], Change(n, m) PROVE IInv'
<1>1. page' = (page \ {n}) \cup {m} /\ m \in Node /\ InPlace(page')
  BY NodeAssumption DEF IInv, TypeOK, Change
<1>2. IsFiniteSet(page')
  BY <1>1, FS_AddElement, FS_RemoveElement DEF IInv
<1> QED BY <1>1, <1>2, DriftStep DEF IInv, TypeOK, Change

LEMMA RemoveStep == ASSUME IInv, NEW n \in page, Remove(n) PROVE IInv'
<1>1. page' = page \ {n} /\ IsFiniteSet(page') /\ InPlace(page')
  BY FS_RemoveElement DEF IInv, Remove, InPlace
<1> QED BY <1>1, DriftStep DEF IInv, TypeOK, Remove

LEMMA ActStep == ASSUME IInv, Act PROVE IInv'
<1>1. /\ acted' = resolve(page, descriptor) /\ descriptor # NoDescriptor
      /\ UNCHANGED <<page, target, descriptor, drifts>>
  BY DEF Act
<1>2. acted' = Unresolvable \/ acted' = Ambiguous \/ \E n \in page : acted' = Found(n)
  <2> DEFINE C == tolerant(page, descriptor)
  <2>1. \A n : acted' = Found(n) => n \in page
    BY <1>1, FoundIsOnThePage
  <2>2. acted' = Unresolvable \/ acted' = Ambiguous \/ \E n : acted' = Found(n)
    BY <1>1 DEF resolve, pick
  <2> QED BY <2>1, <2>2
<1>3. /\ acted' \in Resolutions
      /\ acted'.as = "found" => acted'.node \in page
  BY <1>2 DEF IInv, TypeOK, Resolutions, Found, Unresolvable, Ambiguous
<1>4. TypeOK'
  BY <1>1, <1>3 DEF IInv, TypeOK, Descriptor, Resolutions, Found, Unresolvable, Ambiguous
<1> QED BY <1>1, <1>4 DEF IInv, Meant, resolve, resolve_strictly

LEMMA StepKeepsInvariant == ASSUME IInv, [Next]_vars PROVE IInv'
<1>1. CASE UNCHANGED vars
  BY <1>1 DEF vars, IInv, TypeOK, Meant, Descriptor, Resolutions, Found, Unresolvable, Ambiguous,
              resolve, resolve_strictly
<1>2. CASE \E n \in page : Record(n)
  BY <1>2, RecordStep
<1>3. CASE \E n \in page : \E m \in Becomes[n] : Change(n, m)
  BY <1>3, ChangeStep
<1>4. CASE \E n \in page : Remove(n)
  BY <1>4, RemoveStep
<1>5. CASE Act
  BY <1>5, ActStep
<1>6. CASE Over
  BY <1>1, <1>6 DEF Over
<1> QED BY <1>1, <1>2, <1>3, <1>4, <1>5, <1>6 DEF Next

LEMMA Invariant == Spec => []IInv
BY Starts, StepKeepsInvariant, PTL DEF Spec

\* describe and resolve keep their types, and an action's node is of the page it sees.
THEOREM TypeCorrect == Spec => []TypeOK
<1>1. IInv => TypeOK
  BY DEF IInv
<1> QED BY <1>1, Invariant, PTL

\* A recorded target that has not drifted is the node an action resolves to.
THEOREM ProvedTarget == Spec => []ProvedTargetIsActedOn
<1>1. ASSUME IInv PROVE ProvedTargetIsActedOn
  <2>1. SUFFICES ASSUME drifts = 0, acted # NoNode PROVE acted = Found(target)
    BY DEF ProvedTargetIsActedOn
  <2>2. resolve_strictly(page, descriptor) = Found(target)
    BY <1>1, <2>1 DEF IInv, TypeOK, Meant
  <2> QED BY <1>1, <2>1, <2>2, StrictlyFoundIsFound DEF IInv, Meant
<1> QED BY <1>1, Invariant, PTL

\* An action never settles for one of several: what it resolves to without an ordinal has
\* a recorded signal that each other node of its role lacks.
THEOREM NeverSettled == Spec => []NeverOneOfSeveral
<1>1. ASSUME IInv PROVE NeverOneOfSeveral
  <2>1. SUFFICES ASSUME NEW n \in page, NEW m \in page, descriptor # NoDescriptor,
                        descriptor.ordinal = NoOrdinal, acted = Found(n),
                        m \in scoped(page, descriptor), m # n, acted # NoNode
                 PROVE  \/ n \in by_name(page, descriptor) /\ m \notin by_name(page, descriptor)
                        \/ n \in by_container(page, descriptor) /\ m \notin by_container(page, descriptor)
                        \/ n \in by_label(page, descriptor) /\ m \notin by_label(page, descriptor)
                        \/ n \in by_nearby(page, descriptor) /\ m \notin by_nearby(page, descriptor)
    <3>1. \A n \in page : Found(n) # NoNode
      BY <1>1, ResolutionAssumption DEF IInv, TypeOK
    <3> QED BY <3>1 DEF NeverOneOfSeveral
  <2> DEFINE c0 == scoped(page, descriptor)
             c1 == tier(c0, by_name(page, descriptor))
             c2 == tier(c1, by_container(page, descriptor))
             c3 == tier(c2, by_label(page, descriptor))
             c4 == tier(c3, by_nearby(page, descriptor))
  <2>2. c4 = {n}
    <3>1. pick(tolerant(page, descriptor), descriptor) = Found(n)
      BY <1>1, <2>1 DEF IInv, Meant, resolve
    <3>2. tolerant(page, descriptor) = {n}
      BY <2>1, <3>1, PickIsACandidate
    <3> QED BY <3>2 DEF tolerant
  <2>3. n \in c4 /\ m \notin c4 /\ m \in c0
    BY <2>1, <2>2
  <2>4. n \in c3 /\ n \in c2 /\ n \in c1
    BY <2>3, TierIsPart
  <2>5. CASE m \notin c1
    BY <2>3, <2>4, <2>5, TierDrops
  <2>6. CASE m \in c1 /\ m \notin c2
    BY <2>4, <2>6, TierDrops
  <2>7. CASE m \in c2 /\ m \notin c3
    BY <2>4, <2>7, TierDrops
  <2>8. CASE m \in c3
    BY <2>3, <2>8, TierDrops
  <2> QED BY <2>5, <2>6, <2>7, <2>8
<1> QED BY <1>1, Invariant, PTL

\* On any page, what a predicate finds an action finds too.
THEOREM ToleranceKeeps == Spec => []ToleranceKeepsWhatIsStrict
<1>1. ToleranceKeepsWhatIsStrict
  BY StrictlyFoundIsFound DEF ToleranceKeepsWhatIsStrict
<1> QED BY <1>1, PTL

(***************************************************************************)
(* Overlays                                                                *)
(***************************************************************************)
Strings == Texts \cup {NoText}

(***************************************************************************)
(* The words                                                               *)
(***************************************************************************)
LEMMA EmptyStaysEmpty ==
  ASSUME NEW o \in Tenants, NEW s
  PROVE  (said(o, s) = NoText <=> s = NoText) /\ (one(o.renames, s) = NoText <=> s = NoText)
BY OverlayAssumption DEF said, one

LEMMA NodeWords ==
  ASSUME NEW n \in Node
  PROVE  /\ n.name \in Strings /\ n.label \in Strings /\ n.text \in Strings
         /\ n.order \in Nat /\ \A i \in DOMAIN n.within : n.within[i] \in Strings
<1>1. n.within \in Seq(Texts) /\ DOMAIN n.within = 1 .. Len(n.within)
  BY NodeTyped
<1>2. \A i \in DOMAIN n.within : n.within[i] \in Texts
  BY <1>1
<1> QED BY <1>2, NodeTyped DEF Strings

LEMMA Renamed ==
  ASSUME NEW o, NEW n \in Node
  PROVE  LET r == renamed(o, n)
         IN  /\ r.name = said(o, n.name) /\ r.label = said(o, n.label)
             /\ r.text = said(o, n.text) /\ r.frame = one(o.frames, n.frame)
             /\ r.role = n.role /\ r.order = n.order /\ r.place = n.place
             /\ DOMAIN r.within = DOMAIN n.within
             /\ \A i \in DOMAIN n.within : r.within[i] = said(o, n.within[i])
BY NodeAssumption DEF renamed

LEMMA Overlaid ==
  ASSUME NEW o, NEW d \in Descriptor
  PROVE  LET r == overlaid(o, d)
         IN  /\ r.name = one(o.renames, d.name) /\ r.label = one(o.renames, d.label)
             /\ r.nearby = one(o.renames, d.nearby) /\ r.container = one(o.renames, d.container)
             /\ r.frame = one(o.frames, d.frame) /\ r.role = d.role /\ r.ordinal = d.ordinal
BY DEF overlaid, Descriptor

LEMMA OverlaidEmpty ==
  ASSUME NEW o \in Tenants, NEW d \in Descriptor
  PROVE  LET d_t == overlaid(o, d)
         IN  /\ d_t.name = NoText <=> d.name = NoText
             /\ d_t.label = NoText <=> d.label = NoText
             /\ d_t.container = NoText <=> d.container = NoText
             /\ d_t.nearby = NoText <=> d.nearby = NoText
<1> DEFINE d_t == overlaid(o, d)
<1>1. /\ d_t.name = one(o.renames, d.name) /\ d_t.label = one(o.renames, d.label)
      /\ d_t.nearby = one(o.renames, d.nearby) /\ d_t.container = one(o.renames, d.container)
  BY Overlaid
<1>2. \A s : one(o.renames, s) = NoText <=> s = NoText
  <2> TAKE s
  <2>1. (said(o, s) = NoText <=> s = NoText) /\ (one(o.renames, s) = NoText <=> s = NoText)
    BY EmptyStaysEmpty
  <2> QED BY <2>1
<1> HIDE DEF d_t
<1>3. /\ d_t.name = NoText <=> d.name = NoText
      /\ d_t.label = NoText <=> d.label = NoText
      /\ d_t.container = NoText <=> d.container = NoText
      /\ d_t.nearby = NoText <=> d.nearby = NoText
  BY <1>1, <1>2
<1> QED BY <1>3 DEF d_t

(***************************************************************************)
(* The signals                                                             *)
(***************************************************************************)
\* Some text nearby that holds the recorded one.
NearbyHolds(obs, n, s) == \E t \in near(obs, n) : inside(s, t)

LEMMA NearTheSame ==
  ASSUME NEW o \in Tenants, NEW d \in Descriptor, KeptApart(o, d), d.nearby # NoText,
         NEW obs, obs \subseteq Node, NEW n \in obs, n.frame = d.frame
  PROVE  NearbyHolds(for_tenant(o, obs), renamed(o, n), one(o.renames, d.nearby)) <=> NearbyHolds(obs, n, d.nearby)
<1> DEFINE s_t == one(o.renames, d.nearby)
<1>1. \A m \in obs : /\ m \in Node /\ m.text \in Strings
                     /\ renamed(o, m).frame = one(o.frames, m.frame) /\ renamed(o, m).order = m.order
                     /\ renamed(o, m).text = said(o, m.text)
  BY NodeWords, Renamed
<1>2. \A m \in obs : renamed(o, m).frame = renamed(o, n).frame <=> m.frame = n.frame
  BY <1>1 DEF KeptApart
<1>3. \A t \in Strings : inside(s_t, said(o, t)) <=> inside(d.nearby, t)
  BY DEF KeptApart, Strings
<1> HIDE DEF s_t
<1>4. ASSUME NearbyHolds(obs, n, d.nearby)
      PROVE  NearbyHolds(for_tenant(o, obs), renamed(o, n), s_t)
  <2>1. PICK m \in obs : /\ inside(d.nearby, m.text) /\ m.frame = n.frame
                         /\ m.order <= n.order + NEARBY_WINDOW /\ n.order <= m.order + NEARBY_WINDOW
    BY <1>4 DEF near, NearbyHolds
  <2>2. renamed(o, m) \in for_tenant(o, obs) /\ inside(s_t, renamed(o, m).text)
    BY <1>1, <1>3, <2>1 DEF for_tenant
  <2>3. renamed(o, m).text \in near(for_tenant(o, obs), renamed(o, n))
    BY <1>1, <1>2, <2>1, <2>2 DEF near
  <2> QED BY <2>2, <2>3 DEF NearbyHolds
<1>5. ASSUME NearbyHolds(for_tenant(o, obs), renamed(o, n), s_t)
      PROVE  NearbyHolds(obs, n, d.nearby)
  <2>1. PICK x \in for_tenant(o, obs) :
          /\ inside(s_t, x.text) /\ x.frame = renamed(o, n).frame
          /\ x.order <= renamed(o, n).order + NEARBY_WINDOW
          /\ renamed(o, n).order <= x.order + NEARBY_WINDOW
    BY <1>5 DEF near, NearbyHolds
  <2>2. PICK m \in obs : x = renamed(o, m)
    BY <2>1 DEF for_tenant
  <2>3. inside(d.nearby, m.text)
    BY <1>1, <1>3, <2>1, <2>2
  <2>4. m.text \in near(obs, n)
    BY <1>1, <1>2, <2>1, <2>2 DEF near
  <2> QED BY <2>3, <2>4 DEF NearbyHolds
<1> QED BY <1>4, <1>5 DEF s_t

\* A signal holds of a node on the tenant's page as it holds on the base page.
LEMMA ScopedTheSame ==
  ASSUME NEW o \in Tenants, NEW d \in Descriptor, KeptApart(o, d), NEW obs, obs \subseteq Node, NEW n \in obs
  PROVE  renamed(o, n) \in scoped(for_tenant(o, obs), overlaid(o, d)) <=> n \in scoped(obs, d)
<1> DEFINE page_t == for_tenant(o, obs)
           d_t == overlaid(o, d)
           r == renamed(o, n)
<1>1. n \in Node /\ r \in page_t
  BY DEF for_tenant
<1>2. /\ r.frame = one(o.frames, n.frame) /\ d_t.frame = one(o.frames, d.frame)
      /\ r.role = n.role /\ d_t.role = d.role
  BY <1>1, Renamed, Overlaid
<1>3. r.frame = d_t.frame <=> n.frame = d.frame
  BY <1>1, <1>2 DEF KeptApart
<1> HIDE DEF r, d_t, page_t
<1>4. r \in scoped(page_t, d_t) <=> n \in scoped(obs, d)
  BY <1>1, <1>2, <1>3 DEF scoped
<1> QED BY <1>4 DEF r, d_t, page_t

LEMMA SignalsTheSame ==
  ASSUME NEW o \in Tenants, NEW d \in Descriptor, KeptApart(o, d), NEW obs, obs \subseteq Node,
         NEW n \in scoped(obs, d)
  PROVE  LET page_t == for_tenant(o, obs)
             d_t == overlaid(o, d)
             r == renamed(o, n)
         IN  /\ r \in by_name(page_t, d_t) <=> n \in by_name(obs, d)
             /\ r \in by_container(page_t, d_t) <=> n \in by_container(obs, d)
             /\ r \in by_label(page_t, d_t) <=> n \in by_label(obs, d)
             /\ r \in by_nearby(page_t, d_t) <=> n \in by_nearby(obs, d)
<1> DEFINE page_t == for_tenant(o, obs)
           d_t == overlaid(o, d)
           r == renamed(o, n)
<1>1. n \in obs /\ n.frame = d.frame /\ n \in Node /\ r \in page_t
  BY DEF for_tenant, scoped
<1> HIDE DEF page_t
<1>2. /\ d_t.name = NoText <=> d.name = NoText
      /\ d_t.label = NoText <=> d.label = NoText
      /\ d_t.container = NoText <=> d.container = NoText
      /\ d_t.nearby = NoText <=> d.nearby = NoText
  BY OverlaidEmpty
<1>3. \A s \in {d.name, d.container} \ {NoText}, t \in Strings : said(o, t) = one(o.renames, s) <=> t = s
  BY DEF KeptApart, Strings
<1>4. r \in by_name(page_t, d_t) <=> n \in by_name(obs, d)
  <2>1. n.name \in Strings /\ r.name = said(o, n.name) /\ d_t.name = one(o.renames, d.name)
    BY <1>1, NodeWords, Renamed, Overlaid
  <2>2. d.name # NoText => (r.name = d_t.name <=> n.name = d.name)
    BY <1>3, <2>1
  <2> HIDE DEF r, d_t
  <2> QED BY <1>1, <1>2, <2>2 DEF by_name
<1>5. r \in by_label(page_t, d_t) <=> n \in by_label(obs, d)
  <2>1. n.label \in Strings /\ r.label = said(o, n.label) /\ d_t.label = one(o.renames, d.label)
    BY <1>1, NodeWords, Renamed, Overlaid
  <2>2. r.label = NoText <=> n.label = NoText
    BY <2>1, EmptyStaysEmpty
  <2>3. d.label # NoText /\ n.label # NoText => (alike(r.label, d_t.label) <=> alike(n.label, d.label))
    BY <2>1 DEF KeptApart, Strings
  <2> HIDE DEF r, d_t
  <2> QED BY <1>1, <1>2, <2>2, <2>3 DEF by_label
<1>6. r \in by_container(page_t, d_t) <=> n \in by_container(obs, d)
  <2>1. /\ d_t.container = one(o.renames, d.container)
        /\ DOMAIN r.within = DOMAIN n.within
        /\ \A i \in DOMAIN n.within : n.within[i] \in Strings /\ r.within[i] = said(o, n.within[i])
    BY <1>1, NodeWords, Renamed, Overlaid
  <2>2. d.container # NoText =>
          \A i \in DOMAIN n.within : r.within[i] = d_t.container <=> n.within[i] = d.container
    BY <1>3, <2>1
  <2> HIDE DEF r, d_t
  <2> QED BY <1>1, <1>2, <2>1, <2>2 DEF by_container
<1>7. r \in by_nearby(page_t, d_t) <=> n \in by_nearby(obs, d)
  <2>1. d_t.nearby = one(o.renames, d.nearby)
    BY Overlaid
  <2>2. d.nearby # NoText => (NearbyHolds(page_t, r, d_t.nearby) <=> NearbyHolds(obs, n, d.nearby))
    BY <1>1, <2>1, NearTheSame DEF page_t
  <2> HIDE DEF r, d_t
  <2> QED BY <1>1, <1>2, <2>2 DEF by_nearby, NearbyHolds
<1> QED BY <1>4, <1>5, <1>6, <1>7 DEF page_t

(***************************************************************************)
(* The narrowing                                                           *)
(***************************************************************************)
\* Candidates: nodes of one observation.
Candidates(C) == C \subseteq Node /\ IsFiniteSet(C) /\ InPlace(C)

LEMMA RenamedApart ==
  ASSUME NEW o, NEW C, Candidates(C), NEW n \in C, NEW m \in C, renamed(o, n) = renamed(o, m)
  PROVE  n = m
<1>1. renamed(o, n).place = n.place /\ renamed(o, m).place = m.place
  BY Renamed DEF Candidates
<1> QED BY <1>1 DEF Candidates, InPlace

LEMMA SingleTheSame ==
  ASSUME NEW o, NEW C, Candidates(C)
  PROVE  single(for_tenant(o, C)) <=> single(C)
<1>1. ASSUME single(C) PROVE single(for_tenant(o, C))
  BY <1>1 DEF single, for_tenant
<1>2. ASSUME single(for_tenant(o, C)) PROVE single(C)
  <2>1. PICK x : for_tenant(o, C) = {x}
    BY <1>2 DEF single
  <2>2. \A n \in C : renamed(o, n) = x
    BY <2>1 DEF for_tenant
  <2>3. PICK n \in C : TRUE
    BY <2>1 DEF for_tenant
  <2>4. \A m \in C : m = n
    BY <2>2, RenamedApart
  <2> QED BY <2>4 DEF single
<1> QED BY <1>1, <1>2

\* What a signal keeps of the base page is what it keeps of the tenant's.
Keeps(o, C, keep, keep_t) == \A n \in C : renamed(o, n) \in keep_t <=> n \in keep

LEMMA CapTheSame ==
  ASSUME NEW o, NEW C, NEW keep, NEW keep_t, Keeps(o, C, keep, keep_t)
  PROVE  for_tenant(o, C) \cap keep_t = for_tenant(o, C \cap keep)
BY DEF for_tenant, Keeps

LEMMA TierTheSame ==
  ASSUME NEW o, NEW C, Candidates(C), NEW keep, NEW keep_t, Keeps(o, C, keep, keep_t)
  PROVE  tier(for_tenant(o, C), keep_t) = for_tenant(o, tier(C, keep))
<1>1. for_tenant(o, C) \cap keep_t = for_tenant(o, C \cap keep)
  BY CapTheSame
<1>2. for_tenant(o, C \cap keep) = {} <=> C \cap keep = {}
  BY DEF for_tenant
<1> QED BY <1>1, <1>2, SingleTheSame DEF tier

LEMMA PartsAreCandidates ==
  ASSUME NEW C, Candidates(C), NEW keep
  PROVE  Candidates(C \cap keep) /\ Candidates(tier(C, keep))
<1>1. Candidates(C \cap keep)
  BY FS_Subset DEF Candidates, InPlace
<1> QED BY <1>1 DEF tier

LEMMA ScopedAreCandidates ==
  ASSUME NEW obs, obs \subseteq Node, IsFiniteSet(obs), InPlace(obs), NEW d
  PROVE  Candidates(scoped(obs, d))
<1>1. scoped(obs, d) \subseteq obs
  BY DEF scoped
<1>2. IsFiniteSet(scoped(obs, d))
  BY <1>1, FS_Subset
<1> QED BY <1>1, <1>2 DEF Candidates, scoped, InPlace

LEMMA NarrowedTheSame ==
  ASSUME NEW o \in Tenants, NEW d \in Descriptor, KeptApart(o, d), NEW obs, obs \subseteq Node, IsFiniteSet(obs), InPlace(obs)
  PROVE  /\ tolerant(for_tenant(o, obs), overlaid(o, d)) = for_tenant(o, tolerant(obs, d))
         /\ strict(for_tenant(o, obs), overlaid(o, d)) = for_tenant(o, strict(obs, d))
         /\ Candidates(tolerant(obs, d)) /\ Candidates(strict(obs, d))
<1> DEFINE page_t == for_tenant(o, obs)
           d_t == overlaid(o, d)
           S == scoped(obs, d)
           named == tier(S, by_name(obs, d))
           contained == tier(named, by_container(obs, d))
           labelled == tier(contained, by_label(obs, d))
           n == S \cap by_name(obs, d)
           c == n \cap by_container(obs, d)
           l == c \cap by_label(obs, d)
<1>0. \A m \in obs : renamed(o, m) \in scoped(page_t, d_t) <=> m \in S
  BY ScopedTheSame
<1>1. \A m \in S :
        /\ renamed(o, m) \in by_name(page_t, d_t) <=> m \in by_name(obs, d)
        /\ renamed(o, m) \in by_container(page_t, d_t) <=> m \in by_container(obs, d)
        /\ renamed(o, m) \in by_label(page_t, d_t) <=> m \in by_label(obs, d)
        /\ renamed(o, m) \in by_nearby(page_t, d_t) <=> m \in by_nearby(obs, d)
  BY SignalsTheSame
<1>2. S \subseteq obs /\ Candidates(S)
  BY ScopedAreCandidates DEF scoped
<1>3. scoped(page_t, d_t) = for_tenant(o, S)
  <2>1. scoped(page_t, d_t) \subseteq page_t
    BY DEF scoped
  <2>2. \A x \in page_t : \E m \in obs : x = renamed(o, m)
    BY DEF for_tenant
  <2> HIDE DEF page_t, d_t, S
  <2> QED BY <1>0, <1>2, <2>1, <2>2 DEF for_tenant
<1>4. /\ named \subseteq S /\ contained \subseteq S /\ labelled \subseteq S
      /\ n \subseteq S /\ c \subseteq S /\ l \subseteq S
  BY TierIsPart
<1>5. /\ tier(for_tenant(o, S), by_name(page_t, d_t)) = for_tenant(o, named)
      /\ for_tenant(o, S) \cap by_name(page_t, d_t) = for_tenant(o, n)
      /\ Candidates(named) /\ Candidates(n)
  <2>1. Keeps(o, S, by_name(obs, d), by_name(page_t, d_t))
    BY <1>1, <1>2 DEF Keeps
  <2> HIDE DEF page_t, d_t, S
  <2> QED BY <1>2, <2>1, TierTheSame, CapTheSame, PartsAreCandidates
<1>6. /\ tier(for_tenant(o, named), by_container(page_t, d_t)) = for_tenant(o, contained)
      /\ for_tenant(o, n) \cap by_container(page_t, d_t) = for_tenant(o, c)
      /\ Candidates(contained) /\ Candidates(c)
  <2>1. /\ Keeps(o, named, by_container(obs, d), by_container(page_t, d_t))
        /\ Keeps(o, n, by_container(obs, d), by_container(page_t, d_t))
    BY <1>1, <1>4 DEF Keeps
  <2> HIDE DEF page_t, d_t, S, named, contained, labelled, n, c, l
  <2>2. /\ tier(for_tenant(o, named), by_container(page_t, d_t)) = for_tenant(o, tier(named, by_container(obs, d)))
        /\ Candidates(tier(named, by_container(obs, d)))
    <3>1. Candidates(tier(named, by_container(obs, d)))
      BY <1>5, PartsAreCandidates
    <3>2. tier(for_tenant(o, named), by_container(page_t, d_t)) = for_tenant(o, tier(named, by_container(obs, d)))
      BY <1>5, <2>1, TierTheSame
    <3> QED BY <3>1, <3>2
  <2>3. /\ for_tenant(o, n) \cap by_container(page_t, d_t) = for_tenant(o, n \cap by_container(obs, d))
        /\ Candidates(n \cap by_container(obs, d))
    <3>1. Candidates(n \cap by_container(obs, d))
      BY <1>5, PartsAreCandidates
    <3>2. for_tenant(o, n) \cap by_container(page_t, d_t) = for_tenant(o, n \cap by_container(obs, d))
      BY <2>1, CapTheSame
    <3> QED BY <3>1, <3>2
  <2> QED BY <2>2, <2>3 DEF contained, c
<1>7. /\ tier(for_tenant(o, contained), by_label(page_t, d_t)) = for_tenant(o, labelled)
      /\ for_tenant(o, c) \cap by_label(page_t, d_t) = for_tenant(o, l)
      /\ Candidates(labelled) /\ Candidates(l)
  <2>1. /\ Keeps(o, contained, by_label(obs, d), by_label(page_t, d_t))
        /\ Keeps(o, c, by_label(obs, d), by_label(page_t, d_t))
    BY <1>1, <1>4 DEF Keeps
  <2> HIDE DEF page_t, d_t, S, named, contained, labelled, n, c, l
  <2>2. /\ tier(for_tenant(o, contained), by_label(page_t, d_t)) = for_tenant(o, tier(contained, by_label(obs, d)))
        /\ Candidates(tier(contained, by_label(obs, d)))
    <3>1. Candidates(tier(contained, by_label(obs, d)))
      BY <1>6, PartsAreCandidates
    <3>2. tier(for_tenant(o, contained), by_label(page_t, d_t)) = for_tenant(o, tier(contained, by_label(obs, d)))
      BY <1>6, <2>1, TierTheSame
    <3> QED BY <3>1, <3>2
  <2>3. /\ for_tenant(o, c) \cap by_label(page_t, d_t) = for_tenant(o, c \cap by_label(obs, d))
        /\ Candidates(c \cap by_label(obs, d))
    <3>1. Candidates(c \cap by_label(obs, d))
      BY <1>6, PartsAreCandidates
    <3>2. for_tenant(o, c) \cap by_label(page_t, d_t) = for_tenant(o, c \cap by_label(obs, d))
      BY <2>1, CapTheSame
    <3> QED BY <3>1, <3>2
  <2> QED BY <2>2, <2>3 DEF labelled, l
<1>8. /\ tier(for_tenant(o, labelled), by_nearby(page_t, d_t)) = for_tenant(o, tier(labelled, by_nearby(obs, d)))
      /\ for_tenant(o, l) \cap by_nearby(page_t, d_t) = for_tenant(o, l \cap by_nearby(obs, d))
      /\ Candidates(tier(labelled, by_nearby(obs, d))) /\ Candidates(l \cap by_nearby(obs, d))
  <2>1. /\ Keeps(o, labelled, by_nearby(obs, d), by_nearby(page_t, d_t))
        /\ Keeps(o, l, by_nearby(obs, d), by_nearby(page_t, d_t))
    BY <1>1, <1>4 DEF Keeps
  <2> HIDE DEF page_t, d_t, S, named, contained, labelled, n, c, l
  <2>2. /\ tier(for_tenant(o, labelled), by_nearby(page_t, d_t)) = for_tenant(o, tier(labelled, by_nearby(obs, d)))
        /\ Candidates(tier(labelled, by_nearby(obs, d)))
    <3>1. Candidates(tier(labelled, by_nearby(obs, d)))
      BY <1>7, PartsAreCandidates
    <3>2. tier(for_tenant(o, labelled), by_nearby(page_t, d_t)) = for_tenant(o, tier(labelled, by_nearby(obs, d)))
      BY <1>7, <2>1, TierTheSame
    <3> QED BY <3>1, <3>2
  <2>3. /\ for_tenant(o, l) \cap by_nearby(page_t, d_t) = for_tenant(o, l \cap by_nearby(obs, d))
        /\ Candidates(l \cap by_nearby(obs, d))
    <3>1. Candidates(l \cap by_nearby(obs, d))
      BY <1>7, PartsAreCandidates
    <3>2. for_tenant(o, l) \cap by_nearby(page_t, d_t) = for_tenant(o, l \cap by_nearby(obs, d))
      BY <2>1, CapTheSame
    <3> QED BY <3>1, <3>2
  <2> QED BY <2>2, <2>3
<1> QED BY <1>3, <1>5, <1>6, <1>7, <1>8 DEF tolerant, strict

(***************************************************************************)
(* The pick                                                                *)
(***************************************************************************)
LEMMA BeforeTheSame ==
  ASSUME NEW o, NEW C, Candidates(C), NEW n \in C
  PROVE  before(for_tenant(o, C), renamed(o, n)) = before(C, n)
<1> DEFINE B == {m \in C : precedes(m, n)}
           B_t == {x \in for_tenant(o, C) : precedes(x, renamed(o, n))}
           f == [m \in B |-> renamed(o, m)]
<1>1. \A m \in C : precedes(renamed(o, m), renamed(o, n)) <=> precedes(m, n)
  BY Renamed DEF Candidates, precedes
<1>2. \A m \in B : renamed(o, m) \in B_t
  BY <1>1 DEF for_tenant
<1>3. \A x \in B_t : \E m \in B : x = renamed(o, m)
  BY <1>1 DEF for_tenant
<1>4. \A m \in B, k \in B : renamed(o, m) = renamed(o, k) => m = k
  BY RenamedApart
<1>5. f \in Bijection(B, B_t)
  <2> HIDE DEF B, B_t
  <2> QED BY <1>2, <1>3, <1>4 DEF Bijection, Injection, Surjection, IsInjective
<1>6. IsFiniteSet(B)
  BY FS_Subset DEF Candidates
<1>7. Cardinality(B_t) = Cardinality(B)
  <2>1. ExistsBijection(B, B_t)
    BY <1>5 DEF ExistsBijection
  <2> HIDE DEF B, B_t
  <2> QED BY <1>6, <2>1, FS_Bijection
<1> QED BY <1>7 DEF before

\* No two candidates have as many before them.
LEMMA BeforeIsItsOwn ==
  ASSUME NEW C, Candidates(C), NEW n \in C, NEW m \in C, before(C, n) = before(C, m)
  PROVE  n = m
<1>1. ASSUME NEW a \in C, NEW b \in C, precedes(a, b), before(C, a) = before(C, b) PROVE FALSE
  <2> DEFINE A == {k \in C : precedes(k, a)}
             B == {k \in C : precedes(k, b)}
  <2>1. \A k \in C : k.order \in Nat /\ k.place \in Nat
    BY NodeTyped DEF Candidates
  <2>2. A \subseteq B /\ a \in B /\ a \notin A
    BY <1>1, <2>1 DEF precedes
  <2>3. IsFiniteSet(B) /\ A \in SUBSET B
    BY <2>2, FS_Subset DEF Candidates
  <2>4. Cardinality(A) = Cardinality(B)
    BY <1>1 DEF before
  <2> HIDE DEF A, B
  <2>5. A = B
    BY <2>3, <2>4, FS_Subset
  <2> QED BY <2>2, <2>5
<1>2. n.order \in Nat /\ m.order \in Nat /\ n.place \in Nat /\ m.place \in Nat
  BY NodeTyped DEF Candidates
<1>3. ~precedes(n, m) /\ ~precedes(m, n)
  BY <1>1
<1>4. n.place = m.place
  BY <1>2, <1>3 DEF precedes
<1> QED BY <1>4 DEF Candidates, InPlace

LEMMA PickTheSame ==
  ASSUME NEW o, NEW C, Candidates(C), NEW d \in Descriptor
  PROVE  pick(for_tenant(o, C), overlaid(o, d)) = Resolution(o, pick(C, d))
<1> DEFINE C_t == for_tenant(o, C)
           d_t == overlaid(o, d)
<1>1. /\ C_t = {} <=> C = {}
      /\ single(C_t) <=> single(C)
      /\ d_t.ordinal = d.ordinal
      /\ \A x \in C_t : \E n \in C : x = renamed(o, n)
      /\ \A n \in C : renamed(o, n) \in C_t /\ before(C_t, renamed(o, n)) = before(C, n)
  BY SingleTheSame, Overlaid, BeforeTheSame DEF for_tenant
<1>2. /\ Resolution(o, Unresolvable) = Unresolvable /\ Resolution(o, Ambiguous) = Ambiguous
      /\ \A n : Resolution(o, Found(n)) = Found(renamed(o, n))
  BY DEF Resolution, Unresolvable, Ambiguous, Found
<1> HIDE DEF d_t
<1>3. CASE C = {}
  BY <1>1, <1>2, <1>3 DEF pick
<1>4. CASE C # {} /\ single(C)
  <2>1. PICK n \in C : C = {n}
    BY <1>4 DEF single
  <2>2. C_t = {renamed(o, n)}
    BY <2>1 DEF for_tenant
  <2>3. /\ (CHOOSE x \in C : C = {x}) = n
        /\ (CHOOSE x \in C_t : C_t = {x}) = renamed(o, n)
    <3> HIDE DEF C_t
    <3> QED BY <2>1, <2>2
  <2>4. pick(C, d) = Found(n)
    BY <1>4, <2>3 DEF pick
  <2>5. pick(C_t, d_t) = Found(renamed(o, n))
    <3> HIDE DEF C_t
    <3> QED BY <1>1, <1>4, <2>3 DEF pick
  <2> QED BY <1>2, <2>4, <2>5 DEF d_t
<1>5. CASE C # {} /\ ~single(C) /\ d.ordinal = NoOrdinal
  BY <1>1, <1>2, <1>5 DEF pick, d_t
<1>6. CASE C # {} /\ ~single(C) /\ d.ordinal # NoOrdinal /\ \E n \in C : before(C, n) = d.ordinal
  <2>1. PICK n \in C : before(C, n) = d.ordinal
    BY <1>6
  <2>2. \A m \in C : before(C, m) = d.ordinal => m = n
    BY <2>1, BeforeIsItsOwn
  <2>3. (CHOOSE m \in C : before(C, m) = d.ordinal) = n
    BY <2>1, <2>2
  <2>4. /\ renamed(o, n) \in C_t /\ before(C_t, renamed(o, n)) = d.ordinal
        /\ \A x \in C_t : before(C_t, x) = d.ordinal => x = renamed(o, n)
    <3> HIDE DEF C_t
    <3> QED BY <1>1, <2>1, <2>2
  <2> HIDE DEF C_t
  <2>5. (CHOOSE x \in C_t : before(C_t, x) = d.ordinal) = renamed(o, n)
    BY <2>4
  <2>6. pick(C, d) = Found(n)
    BY <1>6, <2>3 DEF pick
  <2>7. pick(C_t, d_t) = Found(renamed(o, n))
    BY <1>1, <1>6, <2>4, <2>5 DEF pick
  <2> QED BY <1>2, <2>6, <2>7 DEF C_t, d_t
<1>7. CASE C # {} /\ ~single(C) /\ d.ordinal # NoOrdinal /\ ~(\E n \in C : before(C, n) = d.ordinal)
  <2>1. ~(\E x \in C_t : before(C_t, x) = d.ordinal)
    <3> HIDE DEF C_t
    <3> QED BY <1>1, <1>7
  <2>2. pick(C, d) = Unresolvable
    BY <1>7 DEF pick
  <2>3. pick(C_t, d_t) = Unresolvable
    <3> HIDE DEF C_t
    <3> QED BY <1>1, <1>7, <2>1 DEF pick
  <2> QED BY <1>2, <2>2, <2>3 DEF d_t
<1> QED BY <1>3, <1>4, <1>5, <1>6, <1>7

(***************************************************************************)
(* The theorem                                                             *)
(***************************************************************************)
LEMMA ResolvesTheSame ==
  ASSUME NEW o \in Tenants, NEW d \in Descriptor, KeptApart(o, d), NEW obs, obs \subseteq Node, IsFiniteSet(obs), InPlace(obs)
  PROVE  /\ resolve(for_tenant(o, obs), overlaid(o, d)) = Resolution(o, resolve(obs, d))
         /\ resolve_strictly(for_tenant(o, obs), overlaid(o, d)) = Resolution(o, resolve_strictly(obs, d))
BY NarrowedTheSame, PickTheSame DEF resolve, resolve_strictly

LEMMA ReadsTheSame ==
  ASSUME NEW o \in Tenants, NEW d \in Descriptor, KeptApart(o, d), NEW obs, obs \subseteq Node, IsFiniteSet(obs), InPlace(obs),
         NEW says \in Says
  PROVE  holds(says, for_tenant(o, obs), overlaid(o, d)) = holds(says, obs, d)
<1> DEFINE r == resolve_strictly(obs, d)
           r_t == resolve_strictly(for_tenant(o, obs), overlaid(o, d))
<1>1. r_t = Resolution(o, r)
  BY ResolvesTheSame
<1>2. r = Unresolvable \/ r = Ambiguous \/ \E n : r = Found(n)
  BY DEF resolve_strictly, pick
<1> HIDE DEF r, r_t
<1>3. (r_t.as = "found" <=> r.as = "found") /\ (r_t = Unresolvable <=> r = Unresolvable)
  BY <1>1, <1>2 DEF Resolution, Found, Unresolvable, Ambiguous
<1>4. CASE says = "element_present"
  BY <1>3, <1>4 DEF holds, r, r_t
<1>5. CASE says = "element_absent"
  BY <1>3, <1>5 DEF holds, r, r_t
<1> QED BY <1>4, <1>5 DEF Says

\* apply_overlay: on every page, the rewritten descriptor finds, reads and fails to find what
\* the recorded one does on the base page, for a tenant that keeps apart what was recorded.
THEOREM TenantAlwaysFindsTheSame == Spec => []TenantFindsTheSame
<1>1. ASSUME IInv PROVE TenantFindsTheSame
  <2>1. page \subseteq Node /\ IsFiniteSet(page) /\ InPlace(page) /\ (descriptor # NoDescriptor => descriptor \in Descriptor)
    BY <1>1 DEF IInv, TypeOK
  <2> QED BY <2>1, ResolvesTheSame, ReadsTheSame DEF TenantFindsTheSame
<1> QED BY <1>1, Invariant, PTL

(***************************************************************************)
(* Words that collide                                                      *)
(***************************************************************************)
\* The recorded node has every rewritten signal still, whatever else has them now.
LEMMA TargetKeepsItsSignals ==
  ASSUME NEW o \in Tenants, NEW obs, obs \subseteq Node, NEW n, NEW d, OfTheNode(obs, n, d), Names(o, d)
  PROVE  renamed(o, n) \in strict(for_tenant(o, obs), overlaid(o, d))
<1> DEFINE page_t == for_tenant(o, obs)
           d_t == overlaid(o, d)
           r == renamed(o, n)
<1>1. d \in Descriptor /\ n \in obs /\ n \in Node /\ r \in page_t
  BY DEF OfTheNode, for_tenant
<1>2. /\ r.name = said(o, n.name) /\ r.label = said(o, n.label) /\ r.frame = one(o.frames, n.frame)
      /\ r.role = n.role /\ DOMAIN r.within = DOMAIN n.within
      /\ \A i \in DOMAIN n.within : r.within[i] = said(o, n.within[i])
  BY <1>1, Renamed
<1>3. /\ d_t.name = said(o, d.name) /\ d_t.label = said(o, d.label) /\ d_t.container = said(o, d.container)
      /\ d_t.nearby = said(o, d.nearby) /\ d_t.frame = one(o.frames, d.frame) /\ d_t.role = d.role
  BY <1>1, Overlaid DEF Names
<1>4. /\ d_t.label = NoText <=> d.label = NoText
      /\ d_t.container = NoText <=> d.container = NoText
      /\ d_t.nearby = NoText <=> d.nearby = NoText
  BY <1>1, OverlaidEmpty
<1>5. \E t \in near(page_t, r) : d.nearby # NoText => t = d_t.nearby
  <2>1. CASE d.nearby = NoText
    <3>1. r.order = n.order /\ n.order \in Nat
      BY <1>1, Renamed, NodeWords
    <3>2. r \in page_t /\ NEARBY_WINDOW \in Nat
      BY <1>1, NodeAssumption
    <3> HIDE DEF page_t, r, d_t
    <3>3. r.order <= r.order + NEARBY_WINDOW
      BY <3>1, <3>2
    <3>4. r.text \in near(page_t, r)
      BY <3>2, <3>3 DEF near
    <3> QED BY <2>1, <3>4
  <2>2. CASE d.nearby # NoText
    <3>1. PICK m \in obs : /\ m.text = d.nearby /\ m.frame = n.frame
                           /\ m.order <= n.order + NEARBY_WINDOW /\ n.order <= m.order + NEARBY_WINDOW
      BY <2>2 DEF OfTheNode
    <3>2. m \in Node /\ renamed(o, m) \in page_t
      BY DEF for_tenant
    <3>3. /\ renamed(o, m).text = d_t.nearby /\ renamed(o, m).frame = r.frame
          /\ renamed(o, m).order = m.order /\ r.order = n.order
      BY <1>1, <1>2, <1>3, <3>1, <3>2, Renamed
    <3> HIDE DEF page_t, r, d_t
    <3>4. renamed(o, m).text \in near(page_t, r)
      BY <3>1, <3>2, <3>3 DEF near
    <3> QED BY <3>3, <3>4
  <2> QED BY <2>1, <2>2
<1> HIDE DEF page_t, r, d_t
<1>6. r \in scoped(page_t, d_t)
  BY <1>1, <1>2, <1>3 DEF scoped, OfTheNode
<1>7. r \in by_name(page_t, d_t)
  BY <1>1, <1>2, <1>3 DEF by_name, OfTheNode
<1>8. r \in by_container(page_t, d_t)
  BY <1>1, <1>2, <1>3, <1>4 DEF by_container, OfTheNode
<1>9. r \in by_label(page_t, d_t)
  BY <1>1, <1>2, <1>3, <1>4 DEF by_label, alike, inside, OfTheNode
<1>10. r \in by_nearby(page_t, d_t)
  BY <1>1, <1>4, <1>5 DEF by_nearby, inside
<1>11. r \in strict(page_t, d_t)
  BY <1>6, <1>7, <1>8, <1>9, <1>10 DEF strict
<1> QED BY <1>11 DEF page_t, r, d_t

\* apply_overlay: two texts made one, or one a part of another, make an action on the page a
\* target was recorded on ambiguous at worst, as long as no ordinal was recorded.
THEOREM NeverMisled == Spec => []OverlayNeverMisleads
<1>1. ASSUME IInv PROVE OverlayNeverMisleads
  <2>1. SUFFICES ASSUME drifts = 0, descriptor # NoDescriptor, descriptor.ordinal = NoOrdinal,
                        NEW o \in Tenants, Names(o, descriptor)
                 PROVE  resolve(for_tenant(o, page), overlaid(o, descriptor))
                          \in {Found(renamed(o, target)), Ambiguous}
    BY DEF OverlayNeverMisleads
  <2> DEFINE page_t == for_tenant(o, page)
             d_t == overlaid(o, descriptor)
             r == renamed(o, target)
             C == strict(page_t, d_t)
  <2>2. OfTheNode(page, target, descriptor) /\ page \subseteq Node
    BY <1>1, <2>1 DEF IInv, TypeOK, Meant
  <2>3. r \in C
    BY <2>1, <2>2, TargetKeepsItsSignals
  <2>4. d_t.ordinal = NoOrdinal
    BY <2>1, <2>2, Overlaid DEF OfTheNode
  <2>5. resolve(page_t, d_t) = pick(C, d_t)
    BY <2>3, TolerantIsStrict DEF resolve
  <2> HIDE DEF r, C, d_t, page_t
  <2>6. CASE single(C)
    <3>1. C = {r} /\ (CHOOSE n \in C : C = {n}) = r
      BY <2>3, <2>6 DEF single
    <3> QED BY <2>5, <2>6, <3>1 DEF pick, r, d_t, page_t
  <2>7. CASE ~single(C)
    BY <2>3, <2>4, <2>5, <2>7 DEF pick, d_t, page_t
  <2> QED BY <2>6, <2>7
<1> QED BY <1>1, Invariant, PTL
=============================================================================
