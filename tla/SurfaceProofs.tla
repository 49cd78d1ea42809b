---------------------------- MODULE SurfaceProofs ----------------------------
(***************************************************************************)
(* Proofs about the adapter, for any number of navigations and             *)
(* observations, any order of the caller's calls and any timing of the     *)
(* browser's events, alone and in front of the demo application, whatever  *)
(* faults the harness arms and however often.                              *)
(***************************************************************************)
EXTENDS SurfaceUnderFaults, SequenceTheorems, TLAPS

Issued == [frame : Frame, at : Ending]

\* What a listener may still be told is true by then: the request was sent, and what is
\* reported to have failed is over.
Fact == {e \in Event :
           /\ e.kind = "request" => e.of \in DOMAIN navigations
           /\ e.kind = "requestfailed" => \A n \in e.of : n \in DOMAIN navigations /\ ~Out(n)}

BrowserInv ==
  /\ navigations \in Seq(Issued) /\ Len(navigations) <= MaxNavigations
  /\ document \in [Frame -> 0 .. Len(navigations)] /\ parsed \in BOOLEAN
  /\ events \in Seq(Fact) /\ pending \subseteq DOMAIN navigations

CallTypeOK ==
  /\ call \in Calls /\ known \subseteq Node /\ handles \subseteq known
  /\ sequence \in 0 .. MaxObservations

\* The nodes the adapter can drive are of the latest observation there was, an observation in
\* progress reads newer ones, and a call that acts is about nodes the adapter can drive.
NodeInv ==
  /\ \A n \in handles, k \in known : k.seen <= n.seen
  /\ \A k \in known : k.seen <= sequence
  /\ At("observe", "walk") => \A n \in call.nodes \cup call.done : n.seen = sequence
  /\ call.op = "observe" /\ call.at # "walk" => sequence < MaxObservations
  /\ call.op \in {"click", "capture"} => call.nodes \subseteq handles
  /\ At("capture", "drive") => call.nodes \subseteq call.done
  /\ call.at \in {"settle", "waiting", "parsing", "asking"} \cup Frame => call.done = {}

\* What the call knew to be outstanding is still pending, and over once _settle let it pass.
KnewInv ==
  /\ call.knew \subseteq DOMAIN navigations
  /\ \A n \in call.knew : Out(n) => n \in pending
  /\ At("observe", "parsing") \/ At("observe", "asking") => \A n \in call.knew : ~Out(n)

Inv == BrowserInv /\ CallTypeOK /\ NodeInv /\ KnewInv

(***************************************************************************)
(* The browser and what the listeners are told                             *)
(***************************************************************************)
\* A navigation keeps its place, and one that is over stays over.
Later == DOMAIN navigations \subseteq DOMAIN navigations' /\ \A n \in DOMAIN navigations : Out(n)' => Out(n)

LEMMA FactsStand == ASSUME Later PROVE Fact \subseteq Fact'
BY DEF Later, Fact

LEMMA EventsFollow ==
  ASSUME events \in Seq(Fact), Later, NEW told \in Seq(Fact'), events' = events \o told
  PROVE  events' \in Seq(Fact')
<1>1. events \in Seq(Fact')
  BY FactsStand, SeqMonotonic
<1> QED BY <1>1, ConcatProperties

LEMMA ToldOnce ==
  ASSUME NEW kind, NEW what, [kind |-> kind, of |-> what] \in Fact'
  PROVE  Tells(kind, what) \in Seq(Fact')
BY DEF Tells

LEMMA NavigationFacts ==
  ASSUME BrowserInv
  PROVE  /\ Len(navigations) \in Nat /\ DOMAIN navigations = 1 .. Len(navigations)
         /\ DOMAIN navigations \subseteq Navigation
         /\ \A n \in DOMAIN navigations : navigations[n] \in Issued
<1>1. navigations \in Seq(Issued) /\ Len(navigations) <= MaxNavigations
  BY DEF BrowserInv
<1>2. /\ Len(navigations) \in Nat /\ DOMAIN navigations = 1 .. Len(navigations)
      /\ \A n \in DOMAIN navigations : navigations[n] \in Issued
  BY <1>1, LenProperties, ElementOfSeq
<1> QED BY <1>1, <1>2, BoundAssumption DEF Navigation

LEMMA Issues ==
  ASSUME BrowserInv, NEW f \in Frame, issue(f), UNCHANGED pending
  PROVE  BrowserInv' /\ Later
<1> DEFINE new == [frame |-> f, at |-> "out"]
<1>1. new \in Issued
  BY DEF Issued, Ending
<1>2. /\ navigations' = Append(navigations, new) /\ navigations' \in Seq(Issued)
      /\ Len(navigations') = Len(navigations) + 1
      /\ \A n \in 1 .. Len(navigations) : navigations'[n] = navigations[n]
  BY <1>1, AppendProperties DEF issue, BrowserInv
<1>3. /\ Len(navigations) \in Nat /\ Len(navigations) < MaxNavigations
      /\ DOMAIN navigations = 1 .. Len(navigations) /\ DOMAIN navigations' = 1 .. Len(navigations) + 1
  BY <1>2, NavigationFacts, LenProperties DEF issue
<1>4. Later
  BY <1>2, <1>3 DEF Later, Out
<1>5. [kind |-> "request", of |-> Len(navigations) + 1] \in Fact'
  BY <1>3, BoundAssumption DEF Fact, Event, Navigation
<1>6. events' \in Seq(Fact')
  <2>1. Tells("request", Len(navigations) + 1) \in Seq(Fact')
    BY <1>5, ToldOnce
  <2> QED BY <2>1, <1>4, EventsFollow DEF issue, BrowserInv
<1> QED BY <1>2, <1>3, <1>4, <1>6, BoundAssumption DEF issue, BrowserInv

\* However it ends, the navigations that are over and the rest stay in their places.
LEMMA EndsAs ==
  ASSUME BrowserInv, NEW ended \in SUBSET DOMAIN navigations, NEW e \in [ended -> Ending \ {"out"}],
         navigations' = [n \in DOMAIN navigations |->
                           IF n \in ended THEN [navigations[n] EXCEPT !.at = e[n]] ELSE navigations[n]]
  PROVE  /\ navigations' \in Seq(Issued) /\ Len(navigations') = Len(navigations)
         /\ DOMAIN navigations' = DOMAIN navigations
         /\ Later /\ \A n \in ended : ~Out(n)'
<1>1. /\ Len(navigations) \in Nat /\ DOMAIN navigations = 1 .. Len(navigations)
      /\ \A n \in DOMAIN navigations : navigations[n] \in Issued
  BY NavigationFacts
<1>2. \A n \in 1 .. Len(navigations) : navigations'[n] \in Issued
  BY <1>1 DEF Issued
<1>3. navigations' \in Seq(Issued) /\ Len(navigations') = Len(navigations)
  BY <1>1, <1>2
<1>4. \A n \in ended : navigations'[n].at # "out"
  BY <1>1 DEF Issued
<1> QED BY <1>1, <1>3, <1>4 DEF Later, Out, Issued

LEMMA Commits ==
  ASSUME BrowserInv, NEW n \in Navigation, Commit(n)
  PROVE  BrowserInv' /\ Later
<1> DEFINE frame == navigations[n].frame
           aborted == {m \in Outstanding : \/ m < n /\ navigations[m].frame = frame
                                           \/ frame = "top" /\ navigations[m].frame = "inner"}
           ended == aborted \cup {n}
           e == [m \in ended |-> IF m = n THEN "committed" ELSE "failed"]
           told == Tells("framenavigated", frame)
                     \o (IF aborted = {} THEN <<>> ELSE Tells("requestfailed", aborted))
<1>1. /\ n \in DOMAIN navigations /\ frame \in Frame /\ DOMAIN navigations \subseteq Navigation
      /\ aborted \subseteq DOMAIN navigations /\ ended \subseteq DOMAIN navigations
      /\ Len(navigations) \in Nat /\ DOMAIN navigations = 1 .. Len(navigations)
  BY NavigationFacts DEF Commit, Out, Issued, Outstanding
<1>2. e \in [ended -> Ending \ {"out"}]
  BY DEF Ending
<1>3. navigations' = [m \in DOMAIN navigations |->
                        IF m \in ended THEN [navigations[m] EXCEPT !.at = e[m]] ELSE navigations[m]]
  BY <1>1 DEF Commit
<1>4. /\ navigations' \in Seq(Issued) /\ Len(navigations') = Len(navigations)
      /\ DOMAIN navigations' = DOMAIN navigations /\ Later /\ \A m \in ended : ~Out(m)'
  <2> HIDE DEF ended, e
  <2> QED BY <1>1, <1>2, <1>3, EndsAs
<1>5. /\ [kind |-> "framenavigated", of |-> frame] \in Fact'
      /\ [kind |-> "requestfailed", of |-> aborted] \in Fact'
  BY <1>1, <1>4 DEF Fact, Event
<1>6. told \in Seq(Fact')
  <2>1. Tells("framenavigated", frame) \in Seq(Fact') /\ Tells("requestfailed", aborted) \in Seq(Fact')
    BY <1>5, ToldOnce
  <2> HIDE DEF frame, aborted
  <2> QED BY <2>1, ConcatProperties, EmptySeq
<1>7. events' = events \o told
  <2>1. \A s, t \in Seq(Fact') : events \in Seq(Fact') => (events \o s) \o t = events \o (s \o t)
    BY ConcatAssociative
  <2>2. events \in Seq(Fact')
    BY <1>4, FactsStand, SeqMonotonic DEF BrowserInv
  <2>3. /\ Tells("framenavigated", frame) \in Seq(Fact')
        /\ (IF aborted = {} THEN <<>> ELSE Tells("requestfailed", aborted)) \in Seq(Fact')
    BY <1>5, ToldOnce, EmptySeq
  <2>4. events' = (events \o Tells("framenavigated", frame))
                    \o (IF aborted = {} THEN <<>> ELSE Tells("requestfailed", aborted))
    BY DEF Commit
  <2> HIDE DEF frame, aborted
  <2> QED BY <2>1, <2>2, <2>3, <2>4
<1>8. events' \in Seq(Fact')
  <2> HIDE DEF told
  <2> QED BY <1>4, <1>6, <1>7, EventsFollow DEF BrowserInv
<1>9. document' \in [Frame -> 0 .. Len(navigations)] /\ parsed' \in BOOLEAN
  <2>1. [top |-> n, inner |-> 0] \in [Frame -> 0 .. Len(navigations)] /\ n \in 0 .. Len(navigations)
    BY <1>1 DEF Frame
  <2>2. document' = [top |-> n, inner |-> 0] \/ document' = [document EXCEPT !["inner"] = n]
    BY DEF Commit
  <2> QED BY <2>1, <2>2 DEF Commit, BrowserInv
<1> QED BY <1>4, <1>8, <1>9 DEF Commit, adapterVars, BrowserInv

LEMMA FailsOrEnds ==
  ASSUME BrowserInv, NEW n \in Navigation, Fails(n) \/ EndsUnheard(n)
  PROVE  BrowserInv' /\ Later
<1>1. /\ n \in DOMAIN navigations /\ DOMAIN navigations \subseteq Navigation
      /\ Len(navigations) \in Nat /\ DOMAIN navigations = 1 .. Len(navigations)
  BY NavigationFacts DEF Fails, EndsUnheard, Out
<1>2. ASSUME NEW as \in Ending \ {"out"}, navigations' = [navigations EXCEPT ![n].at = as]
      PROVE  /\ navigations' \in Seq(Issued) /\ Len(navigations') = Len(navigations)
             /\ DOMAIN navigations' = DOMAIN navigations /\ Later /\ ~Out(n)'
  <2> DEFINE e == [m \in {n} |-> as]
  <2>1. navigations' = [m \in DOMAIN navigations |->
                          IF m \in {n} THEN [navigations[m] EXCEPT !.at = e[m]] ELSE navigations[m]]
    BY <1>1, <1>2
  <2>2. e \in [{n} -> Ending \ {"out"}] /\ {n} \in SUBSET DOMAIN navigations
    BY <1>1
  <2> HIDE DEF e
  <2> QED BY <2>1, <2>2, EndsAs
<1>3. CASE Fails(n)
  <2>1. /\ navigations' \in Seq(Issued) /\ Len(navigations') = Len(navigations)
        /\ DOMAIN navigations' = DOMAIN navigations /\ Later /\ ~Out(n)'
    BY <1>2, <1>3 DEF Fails, Ending
  <2>2. [kind |-> "requestfailed", of |-> {n}] \in Fact'
    BY <1>1, <2>1 DEF Fact, Event
  <2>3. events' \in Seq(Fact')
    <3>1. Tells("requestfailed", {n}) \in Seq(Fact')
      BY <2>2, ToldOnce
    <3> QED BY <1>3, <2>1, <3>1, EventsFollow DEF Fails, BrowserInv
  <2> QED BY <1>3, <2>1, <2>3 DEF Fails, adapterVars, BrowserInv
<1>4. CASE EndsUnheard(n)
  <2>1. /\ navigations' \in Seq(Issued) /\ Len(navigations') = Len(navigations)
        /\ DOMAIN navigations' = DOMAIN navigations /\ Later
    BY <1>2, <1>4 DEF EndsUnheard, Ending
  <2>2. events' \in Seq(Fact')
    BY <1>4, <2>1, FactsStand, SeqMonotonic DEF EndsUnheard, BrowserInv
  <2> QED BY <1>4, <2>1, <2>2 DEF EndsUnheard, adapterVars, BrowserInv
<1> QED BY <1>3, <1>4

\* The rest of the invariant outlasts what the browser does.
LEMMA BrowserMoves ==
  ASSUME Inv, BrowserInv', Later, UNCHANGED <<pending, handles, sequence, call, known>>
  PROVE  Inv'
<1>1. \A n \in call.knew : n \in DOMAIN navigations /\ n \in DOMAIN navigations' /\ (Out(n)' => Out(n))
  BY DEF Inv, KnewInv, Later
<1>2. KnewInv'
  BY <1>1 DEF Inv, KnewInv, At
<1> QED BY <1>2 DEF Inv, CallTypeOK, NodeInv, At

(***************************************************************************)
(* The listeners                                                           *)
(***************************************************************************)
LEMMA Listens ==
  ASSUME Inv, Listen
  PROVE  Inv'
<1> DEFINE e == Head(events)
<1>1. /\ events # <<>> /\ events \in Seq(Fact) /\ events' = Tail(events) /\ hear(e)
      /\ UNCHANGED <<navigations, document, parsed, handles, sequence, known>>
  BY DEF Listen, Inv, BrowserInv, browserVars
<1>2. e \in Fact /\ events' \in Seq(Fact)
  BY <1>1, HeadTailProperties
<1> HIDE DEF e
<1>3. Fact' = Fact
  BY <1>1 DEF Fact, Out
<1>4. pending' \subseteq DOMAIN navigations
  BY <1>1, <1>2 DEF hear, on_committed, In, Inv, BrowserInv, Fact
<1>5. BrowserInv'
  BY <1>1, <1>2, <1>3, <1>4 DEF Inv, BrowserInv
<1>6. \/ e.kind = "framenavigated" /\ e.of \in Frame
      \/ e.kind \in {"request", "requestfailed"}
  BY <1>2 DEF Fact, Event
<1>7. call' = [call EXCEPT !.at = IF e.kind = "framenavigated" /\ @ = "waiting" THEN e.of ELSE @,
                           !.knew = IF e.kind = "framenavigated" THEN @ \ In(e.of) ELSE @]
  BY DEF Listen, e
<1>8. /\ call' \in Calls /\ call'.op = call.op /\ call'.nodes = call.nodes /\ call'.done = call.done
      /\ call'.knew = IF e.kind = "framenavigated" THEN call.knew \ In(e.of) ELSE call.knew
      /\ call'.at = call.at \/ (call.at = "waiting" /\ call'.at \in Frame)
  BY <1>6, <1>7 DEF Inv, CallTypeOK, Calls
<1>9. NodeInv'
  BY <1>1, <1>8 DEF Inv, NodeInv, At, Frame
<1>10. KnewInv'
  <2>1. ASSUME NEW n \in call'.knew, Out(n) PROVE n \in pending'
    BY <1>1, <1>2, <1>8, <2>1 DEF Inv, KnewInv, hear, on_committed, Fact
  <2>2. \A n \in call'.knew : n \in call.knew
    BY <1>8
  <2> QED BY <1>1, <1>8, <2>1, <2>2 DEF Inv, KnewInv, At, Frame, Out
<1> QED BY <1>1, <1>5, <1>8, <1>9, <1>10 DEF Inv, CallTypeOK

(***************************************************************************)
(* The calls                                                               *)
(***************************************************************************)
\* What a call does leaves the browser and what the listeners are told alone.
LEMMA Quietly ==
  ASSUME Inv, Quiet, UNCHANGED pending, call'.knew \subseteq call.knew \/ call'.knew \subseteq pending,
         ~(At("observe", "parsing") \/ At("observe", "asking"))'
           \/ (call'.knew = call.knew /\ (pending = {} \/ At("observe", "parsing")))
  PROVE  BrowserInv' /\ KnewInv'
<1>1. Fact' = Fact
  BY DEF Quiet, browserVars, Fact, Out
<1>2. BrowserInv'
  BY <1>1 DEF Inv, BrowserInv, Quiet, browserVars
<1> QED BY <1>2 DEF Inv, BrowserInv, KnewInv, Quiet, browserVars, Out

LEMMA NewCall ==
  ASSUME Inv, NEW op \in {"observe", "navigate", "click", "capture"}, NEW at \in {"settle", "goto", "locate", "drive"},
         NEW nodes \in SUBSET Node
  PROVE  LET c == Call(op, at, nodes)
         IN  /\ c \in Calls /\ c.knew \subseteq pending
             /\ c.op = op /\ c.at = at /\ c.nodes = nodes /\ c.done = {}
BY NavigationFacts DEF Inv, BrowserInv, Calls, Call

LEMMA Observes ==
  ASSUME Inv, Observe PROVE Inv'
<1>1. /\ call' \in Calls /\ call'.knew \subseteq pending /\ call'.op = "observe" /\ call'.at = "settle"
      /\ call'.nodes = {} /\ call'.done = {}
  BY NewCall DEF Observe
<1>2. BrowserInv' /\ KnewInv'
  BY <1>1, Quietly DEF Observe, adapterVars, At
<1>3. sequence < MaxObservations
  BY DEF Observe
<1> QED BY <1>1, <1>2, <1>3 DEF Inv, Observe, adapterVars, CallTypeOK, NodeInv, At

LEMMA Clicks ==
  ASSUME Inv, NEW n \in known, Click(n) PROVE Inv'
<1>1. /\ call' \in Calls /\ call'.knew \subseteq pending /\ call'.op = "click" /\ call'.at = "locate"
      /\ call'.nodes = {n} /\ call'.done = {}
  BY NewCall DEF Click, Inv, CallTypeOK
<1>2. BrowserInv' /\ KnewInv'
  BY <1>1, Quietly DEF Click, adapterVars, At
<1> QED BY <1>1, <1>2 DEF Inv, Click, adapterVars, CallTypeOK, NodeInv, At

LEMMA Captures ==
  ASSUME Inv, NEW mask \in SUBSET known, Capture(mask) PROVE Inv'
<1>1. /\ call' \in Calls /\ call'.knew \subseteq pending /\ call'.op = "capture"
      /\ call'.at = (IF mask = {} THEN "drive" ELSE "locate")
      /\ call'.nodes = mask /\ call'.done = {}
  BY NewCall DEF Capture, Inv, CallTypeOK
<1>2. BrowserInv' /\ KnewInv'
  BY <1>1, Quietly DEF Capture, adapterVars, At
<1> QED BY <1>1, <1>2 DEF Inv, Capture, adapterVars, CallTypeOK, NodeInv, At

LEMMA Navigates ==
  ASSUME Inv, Navigate PROVE Inv'
<1>1. /\ call' \in Calls /\ call'.knew \subseteq pending /\ call'.op = "navigate" /\ call'.at = "goto"
      /\ call'.nodes = {} /\ call'.done = {}
  BY NewCall DEF Navigate
<1>2. BrowserInv' /\ Later /\ pending' = pending
  BY Issues DEF Navigate, Frame, adapterVars, Inv
<1>3. KnewInv'
  BY <1>1, <1>2 DEF KnewInv, BrowserInv, Later, At
<1> QED BY <1>1, <1>2, <1>3 DEF Inv, Navigate, adapterVars, CallTypeOK, NodeInv, At

\* A call that is over.
LEMMA Returned ==
  ASSUME Inv, Returns, Quiet, UNCHANGED pending, known \subseteq known', known' \subseteq Node,
         UNCHANGED sequence,
         \/ UNCHANGED <<handles, known>>
         \/ /\ handles' \subseteq known' /\ \A n \in handles' : n.seen = sequence
            /\ \A k \in known' : k.seen <= sequence
  PROVE  Inv'
<1>1. /\ call' \in Calls /\ call'.knew = {} /\ call'.op = "none" /\ call'.at = "none"
      /\ call'.nodes = {} /\ call'.done = {}
  BY DEF Returns, Idle, Calls
<1>2. BrowserInv' /\ KnewInv'
  BY <1>1, Quietly DEF At
<1>3. \A n \in handles', k \in known' : k.seen <= n.seen
  BY DEF Inv, NodeInv
<1>4. \A k \in known' : k.seen <= sequence'
  BY DEF Inv, NodeInv
<1> QED BY <1>1, <1>2, <1>3, <1>4 DEF Inv, CallTypeOK, NodeInv, At

\* A call that goes on without touching what the adapter keeps.
LEMMA Continues ==
  ASSUME Inv, call' \in Calls, Quiet, UNCHANGED <<pending, handles, sequence, known>>,
         call'.op = call.op, call'.nodes = call.nodes, call'.knew = call.knew,
         call'.at \in {"settle", "waiting", "parsing", "asking", "walk", "locate", "drive", "landed", "shot"},
         call'.at \in {"parsing", "asking"} /\ call.op = "observe" => pending = {} \/ call.at = "parsing",
         call'.at = "walk" <=> call.at = "walk",
         call'.at \in {"settle", "waiting", "parsing", "asking"} => call'.done = {},
         At("observe", "walk") => \A n \in call'.done : n.seen = sequence,
         At("capture", "drive")' => call'.nodes \subseteq call'.done
  PROVE  Inv'
<1>1. BrowserInv' /\ KnewInv'
  BY Quietly DEF At
<1>2. NodeInv'
  BY DEF Inv, NodeInv, At, Frame
<1> QED BY <1>1, <1>2 DEF Inv, CallTypeOK

LEMMA CallParts ==
  ASSUME Inv
  PROVE  /\ call \in Calls /\ call.done \subseteq Node /\ call.nodes \subseteq Node
         /\ call.at \in {"settle", "waiting", "parsing", "asking"} \cup Frame => call.done = {}
         /\ \A a \in {"settle", "waiting", "parsing", "asking", "walk", "drive", "landed"} :
              LET c == [call EXCEPT !.at = a]
              IN  c \in Calls /\ c.op = call.op /\ c.at = a /\ c.nodes = call.nodes /\ c.done = call.done
                    /\ c.knew = call.knew
BY DEF Inv, CallTypeOK, Calls, NodeInv

LEMMA ObserveSteps ==
  ASSUME Inv, ObserveStep PROVE Inv'
<1>1. CASE SettleTests
  <2> DEFINE a == IF pending = {} THEN "parsing" ELSE "waiting"
  <2>1. a \in {"parsing", "waiting"} /\ call' = [call EXCEPT !.at = a] /\ At("observe", "settle")
    BY <1>1 DEF SettleTests, Moves
  <2>2. a = "parsing" => pending = {}
    OBVIOUS
  <2> HIDE DEF a
  <2> QED BY <1>1, <2>1, <2>2, CallParts, Continues DEF SettleTests, adapterVars, At
<1>2. CASE SettleWakes
  <2>1. call' = [call EXCEPT !.at = "settle", !.knew = @ \ In(call.at)]
    BY <1>2 DEF SettleWakes
  <2>2. /\ call' \in Calls /\ call'.op = call.op /\ call'.at = "settle" /\ call'.nodes = call.nodes
        /\ call'.done = call.done /\ call'.knew = call.knew \ In(call.at)
    BY <2>1 DEF Inv, CallTypeOK, Calls
  <2>3. pending' = pending \ In(call.at) /\ UNCHANGED <<browserVars, events, handles, sequence, known>>
    BY <1>2 DEF SettleWakes, on_committed, Quiet
  <2>4. Fact' = Fact
    BY <2>3 DEF browserVars, Fact, Out
  <2>5. BrowserInv'
    BY <2>3, <2>4 DEF browserVars, Inv, BrowserInv
  <2>6. KnewInv'
    BY <2>2, <2>3 DEF Inv, KnewInv, browserVars, Out, At
  <2>7. NodeInv'
    BY <1>2, <2>2, <2>3 DEF SettleWakes, Inv, NodeInv, At, Frame
  <2> QED BY <2>2, <2>3, <2>5, <2>6, <2>7 DEF Inv, CallTypeOK
<1>3. CASE TreeAsked
  <2>1. call' = [call EXCEPT !.at = "asking"] /\ At("observe", "parsing")
    BY <1>3 DEF TreeAsked, Moves
  <2> QED BY <1>3, <2>1, CallParts, Continues DEF TreeAsked, adapterVars, At
<1>4. CASE WalkStarts
  <2> DEFINE nodes == {[seen |-> sequence + 1, frame |-> f, document |-> document[f]] :
                         f \in {f \in Frame : f = "top" \/ Framed}}
  <2>1. sequence + 1 \in 1 .. MaxObservations /\ sequence \in Nat
    BY <1>4, BoundAssumption DEF WalkStarts, Inv, CallTypeOK, NodeInv, At
  <2>2. \A f \in Frame : document[f] \in 0 .. MaxNavigations
    BY NavigationFacts, BoundAssumption DEF Inv, BrowserInv
  <2>3. nodes \subseteq Node /\ \A n \in nodes : n.seen = sequence + 1
    BY <2>1, <2>2 DEF Node
  <2>4. /\ call' = [call EXCEPT !.at = "walk", !.nodes = nodes] /\ sequence' = sequence + 1
        /\ UNCHANGED <<browserVars, events, pending, handles, known>>
    BY <1>4 DEF WalkStarts, Quiet
  <2> HIDE DEF nodes
  <2>5. /\ call' \in Calls /\ call'.op = call.op /\ call'.at = "walk" /\ call'.nodes = nodes
        /\ call'.done = call.done /\ call'.knew = call.knew
    BY <2>3, <2>4 DEF Inv, CallTypeOK, Calls
  <2>6. call.op = "observe" /\ call.done = {}
    BY <1>4 DEF WalkStarts, At, Inv, NodeInv
  <2>7. BrowserInv' /\ KnewInv'
    BY <2>4, <2>5, Quietly DEF Quiet, At
  <2>8. NodeInv'
    <3>1. \A k \in known' : k.seen <= sequence' /\ k.seen \in Nat
      BY <2>1, <2>4 DEF Inv, NodeInv, CallTypeOK, Node
    <3> QED BY <2>3, <2>4, <2>5, <2>6, <3>1 DEF Inv, NodeInv, At
  <2> QED BY <2>1, <2>4, <2>5, <2>7, <2>8 DEF Inv, CallTypeOK
<1>5. ASSUME NEW n \in Node, ReadFrame(n) PROVE Inv'
  <2> DEFINE read == [n EXCEPT !.document = document[n.frame]]
  <2>1. read \in Node /\ read.seen = n.seen
    BY NavigationFacts, BoundAssumption DEF Inv, BrowserInv, Node
  <2>2. call' = [call EXCEPT !.done = @ \cup {read}] /\ At("observe", "walk") /\ n \in call.nodes
    BY <1>5 DEF ReadFrame, Unread
  <2> HIDE DEF read
  <2>3. /\ call' \in Calls /\ call'.op = call.op /\ call'.at = call.at /\ call'.nodes = call.nodes
        /\ call'.done = call.done \cup {read} /\ call'.knew = call.knew
    BY <2>1, <2>2 DEF Inv, CallTypeOK, Calls
  <2>4. \A m \in call'.done : m.seen = sequence
    BY <2>1, <2>2, <2>3 DEF Inv, NodeInv
  <2> QED BY <1>5, <2>2, <2>3, <2>4, Continues DEF ReadFrame, adapterVars, At
<1>6. CASE WalkBreaks
  BY <1>6, Returned DEF WalkBreaks, adapterVars, Inv, CallTypeOK
<1>7. CASE WalkEnds
  <2>1. At("observe", "walk") /\ \A n \in call.done : n.seen = sequence
    BY <1>7 DEF WalkEnds, Inv, NodeInv
  <2>2. /\ handles' = call.done /\ known' = known \cup call.done /\ call.done \subseteq Node
        /\ known \subseteq Node /\ Returns /\ Quiet /\ UNCHANGED <<pending, sequence>>
    BY <1>7, CallParts DEF WalkEnds, Inv, CallTypeOK
  <2>3. \A k \in known' : k.seen <= sequence
    BY <2>1, <2>2 DEF Inv, NodeInv, CallTypeOK
  <2> QED BY <2>1, <2>2, <2>3, Returned
<1> QED BY <1>1, <1>2, <1>3, <1>4, <1>5, <1>6, <1>7 DEF ObserveStep

LEMMA ActSteps ==
  ASSUME Inv, ActStep PROVE Inv'
<1>1. ASSUME NEW n \in Node, Locate(n) PROVE Inv'
  <2>1. CASE Shown(n)
    <3> DEFINE at == IF Unlocated = {n} THEN "drive" ELSE "locate"
    <3>1. call' = [call EXCEPT !.done = @ \cup {n}, !.at = at] /\ call.at = "locate"
      BY <1>1, <2>1 DEF Locate
    <3>2. at \in {"drive", "locate"} /\ (at = "drive" => Unlocated = {n})
      OBVIOUS
    <3> HIDE DEF at
    <3>3. /\ call' \in Calls /\ call'.op = call.op /\ call'.at = at /\ call'.nodes = call.nodes
          /\ call'.done = call.done \cup {n} /\ call'.knew = call.knew
      BY <3>1, <3>2 DEF Inv, CallTypeOK, Calls
    <3>4. At("capture", "drive")' => call'.nodes \subseteq call'.done
      BY <3>2, <3>3 DEF At, Unlocated, Inv, NodeInv
    <3> QED BY <1>1, <3>1, <3>2, <3>3, <3>4, Continues DEF Locate, adapterVars, At
  <2>2. CASE ~Shown(n)
    BY <1>1, <2>2, Returned DEF Locate, adapterVars, Inv, CallTypeOK
  <2> QED BY <2>1, <2>2
<1>2. CASE Lands
  <2>1. call' = [call EXCEPT !.at = "landed"] /\ At("click", "drive")
    BY <1>2 DEF Lands, Moves
  <2> QED BY <1>2, <2>1, CallParts, Continues DEF Lands, adapterVars, At
<1>3. CASE Shoots
  <2>1. call' = [call EXCEPT !.at = "shot", !.done = {n \in @ : Shown(n)}] /\ At("capture", "drive")
    BY <1>3 DEF Shoots
  <2>2. /\ call' \in Calls /\ call'.op = call.op /\ call'.at = "shot" /\ call'.nodes = call.nodes
        /\ call'.knew = call.knew
    BY <2>1 DEF Inv, CallTypeOK, Calls
  <2> QED BY <1>3, <2>1, <2>2, Continues DEF Shoots, adapterVars, At
<1>4. CASE Ends \/ GotoReturns
  BY <1>4, Returned DEF Ends, GotoReturns, adapterVars, Inv, CallTypeOK
<1> QED BY <1>1, <1>2, <1>3, <1>4 DEF ActStep

(***************************************************************************)
(* The theorems                                                            *)
(***************************************************************************)
LEMMA InvInit == Init => Inv
<1> SUFFICES ASSUME Init PROVE Inv
  OBVIOUS
<1>1. BrowserInv
  BY EmptySeq, BoundAssumption DEF Init, BrowserInv, Frame
<1>2. CallTypeOK /\ NodeInv /\ KnewInv
  BY BoundAssumption DEF Init, Idle, CallTypeOK, NodeInv, KnewInv, Calls, At
<1> QED BY <1>1, <1>2 DEF Inv

LEMMA InvStep == Inv /\ [Next]_vars => Inv'
<1> SUFFICES ASSUME Inv, [Next]_vars PROVE Inv'
  OBVIOUS
<1>1. CASE LocalStep
  <2>1. CASE Parses
    <3>1. Later /\ Fact' = Fact
      BY <2>1 DEF Parses, Later, Out, Fact
    <3>2. BrowserInv' /\ UNCHANGED <<pending, handles, sequence, call, known>>
      BY <2>1, <3>1 DEF Parses, adapterVars, Inv, BrowserInv
    <3> QED BY <3>1, <3>2, BrowserMoves
  <2>2. CASE SettleExpires
    BY <2>2, Returned DEF SettleExpires, adapterVars, Inv, CallTypeOK
  <2> QED BY <1>1, <2>1, <2>2, Listens, ObserveSteps, ActSteps DEF LocalStep, AdapterStep
<1>2. CASE Acting
  BY <1>2, Clicks, Captures DEF Acting
<1>3. ASSUME NEW f \in Frame, PageNavigates(f) PROVE Inv'
  <2>1. issue(f) /\ UNCHANGED <<pending, handles, sequence, call, known>>
    BY <1>3 DEF PageNavigates, adapterVars
  <2> QED BY <2>1, Issues, BrowserMoves DEF Inv
<1>4. ASSUME NEW n \in Navigation, Commit(n) \/ Fails(n) \/ EndsUnheard(n) PROVE Inv'
  <2>1. UNCHANGED <<pending, handles, sequence, call, known>>
    BY <1>4 DEF Commit, Fails, EndsUnheard, adapterVars
  <2> QED BY <1>4, <2>1, Commits, FailsOrEnds, BrowserMoves DEF Inv
<1>5. CASE UNCHANGED vars
  <2>1. Fact' = Fact
    BY <1>5 DEF vars, Fact, Out
  <2> QED BY <1>5, <2>1 DEF vars, Inv, BrowserInv, CallTypeOK, NodeInv, KnewInv, At, Out
<1> QED BY <1>1, <1>2, <1>3, <1>4, <1>5, Observes, Navigates DEF Next

LEMMA InvAlways == Spec => []Inv
BY InvInit, InvStep, PTL DEF Spec

\* Every variable of the adapter and of what it is told keeps its range, and the nodes it can
\* still drive are of one observation.
THEOREM TypeCorrect == Spec => []TypeOK
<1>1. ASSUME Inv PROVE TypeOK
  <2>1. Fact \subseteq Event
    BY DEF Fact
  <2>2. events \in Seq(Event)
    BY <1>1, <2>1, SeqMonotonic DEF Inv, BrowserInv
  <2>3. \A n \in handles, m \in handles : n.seen = m.seen
    <3>1. \A n \in handles : n \in known /\ n.seen \in Nat
      BY <1>1 DEF Inv, CallTypeOK, Node
    <3> QED BY <1>1, <3>1 DEF Inv, NodeInv
  <2> QED BY <1>1, <2>2, <2>3 DEF Inv, BrowserInv, CallTypeOK, TypeOK, Issued
<1> QED BY <1>1, InvAlways, PTL

\* _settle: when observe goes to CDP, what it knew to be outstanding is over.
THEOREM SettledIsAnswered == Spec => []SettledMeansAnswered
<1>1. Inv => SettledMeansAnswered
  BY DEF Inv, KnewInv, SettledMeansAnswered
<1> QED BY <1>1, InvAlways, PTL

LEMMA OnlyLandsAndShoots ==
  ASSUME Inv, [Next]_vars, ~Lands, ~Shoots
  PROVE  call'.at \in {"landed", "shot"} => call'.at = call.at
<1>1. CASE Listen
  <2>1. Head(events) \in Fact
    BY <1>1, HeadTailProperties DEF Listen, Inv, BrowserInv
  <2>2. Head(events).kind = "framenavigated" => Head(events).of \in Frame
    BY <2>1 DEF Fact, Event
  <2> QED BY <1>1, <2>2 DEF Listen, Inv, CallTypeOK, Calls, Frame
<1>2. CASE ObserveStep
  <2>1. ASSUME NEW n \in Node, ReadFrame(n) PROVE call'.at = call.at
    BY <2>1 DEF ReadFrame, Inv, CallTypeOK, Calls
  <2>2. CASE SettleTests \/ SettleWakes \/ TreeAsked \/ WalkStarts
    <3>1. CASE SettleTests \/ TreeAsked
      BY <3>1, CallParts DEF SettleTests, TreeAsked, Moves
    <3>2. CASE SettleWakes \/ WalkStarts
      BY <3>2 DEF SettleWakes, WalkStarts, Inv, CallTypeOK, Calls
    <3> QED BY <2>2, <3>1, <3>2
  <2>3. CASE WalkBreaks \/ WalkEnds
    BY <2>3 DEF WalkBreaks, WalkEnds, Returns, Idle
  <2> QED BY <1>2, <2>1, <2>2, <2>3 DEF ObserveStep
<1>3. CASE ActStep \/ SettleExpires
  <2>1. ASSUME NEW n \in Node, Locate(n)
        PROVE  call' = Idle \/ call'.at \in {"drive", call.at}
    BY <2>1 DEF Locate, Returns, Inv, CallTypeOK, Calls
  <2>2. CASE Ends \/ GotoReturns \/ SettleExpires
    BY <2>2 DEF Ends, GotoReturns, SettleExpires, Returns, Idle
  <2> QED BY <1>3, <2>1, <2>2 DEF ActStep, Idle
<1>4. CASE Observe \/ Acting \/ Navigate
  BY <1>4 DEF Observe, Acting, Click, Capture, Navigate, Call
<1>5. CASE UNCHANGED call
  BY <1>5
<1>6. \/ Listen \/ ObserveStep \/ ActStep \/ SettleExpires \/ Observe \/ Acting \/ Navigate
      \/ UNCHANGED call
  BY DEF Next, LocalStep, AdapterStep, Parses, PageNavigates, Commit, Fails, EndsUnheard, vars
<1> QED BY <1>1, <1>2, <1>3, <1>4, <1>5, <1>6

\* act and capture: an action lands on a node of the latest observation, in the document it
\* was observed in, and a screenshot shows nothing unpainted it was to paint over.
THEOREM DrivenWhereSeen == Spec => NodesAreDrivenWhereSeen
<1> DEFINE Driven ==
      /\ call.at # "landed" /\ call'.at = "landed" =>
           \A n \in call.nodes : Shown(n) /\ \A k \in known : k.seen <= n.seen
      /\ call.at # "shot" /\ call'.at = "shot" => \A n \in call.nodes : Shown(n) => n \in call'.done
<1>1. ASSUME Inv, [Next]_vars PROVE [Driven]_vars
  <2>1. CASE Lands
    BY <1>1, <2>1 DEF Lands, Moves, At, Inv, NodeInv, CallTypeOK, Calls
  <2>2. CASE Shoots
    <3>1. call'.at = "shot" /\ call'.done = {n \in call.done : Shown(n)} /\ call.nodes \subseteq call.done
      BY <1>1, <2>2 DEF Shoots, At, Inv, NodeInv, CallTypeOK, Calls
    <3> QED BY <3>1
  <2>3. CASE ~Lands /\ ~Shoots
    <3>1. call'.at \in {"landed", "shot"} => call'.at = call.at
      BY <1>1, <2>3, OnlyLandsAndShoots
    <3> QED BY <3>1
  <2> QED BY <2>1, <2>2, <2>3
<1> QED BY <1>1, InvAlways, PTL DEF Spec, NodesAreDrivenWhereSeen

(***************************************************************************)
(* In front of the demo application                                        *)
(***************************************************************************)
Kind == Application!Kind
Mode == Application!Mode

\* A fault armed once has answered nothing yet, and a request that is about to hang may find
\* the timeout cleared only with its Event set.
SpentInv == \A k \in Kind : spent[k] <= 1 /\ (armed[k] = "once" => spent[k] = 0)
HoldingInv == \A r \in Navigation : served[r] = "holding" => released \/ armed["timeout"] # "none"
FaultInv == Application!FaultTypeOK /\ SpentInv /\ HoldingInv

(***************************************************************************)
(* The adapter runs as it does alone                                       *)
(***************************************************************************)
LEMMA BothStep == [NextBoth]_allVars => [Next]_vars
<1>1. ASSUME NEW f \in Frame, Sends(PageNavigates(f)) PROVE PageNavigates(f)
  BY <1>1 DEF Sends
<1> QED BY <1>1 DEF NextBoth, Next, Browser, BrowserFails, LocalStep, allVars, vars

\* The application is one of the browsers the adapter is verified against: all that is proved
\* of the adapter holds in front of it.
THEOREM AdapterIsTheSame == SpecBoth => Spec
<1>1. InitBoth => Init
  BY DEF InitBoth
<1> QED BY <1>1, BothStep, PTL DEF SpecBoth, Spec

(***************************************************************************)
(* The fault register                                                      *)
(***************************************************************************)
LEMMA FaultInit == Application!InitFaults => FaultInv
<1> SUFFICES ASSUME Application!InitFaults PROVE FaultInv
  OBVIOUS
<1>1. clearing \in Seq(Application!Kind)
  BY EmptySeq DEF Application!InitFaults
<1>2. SpentInv /\ HoldingInv
  BY DEF Application!InitFaults, SpentInv, HoldingInv, Kind
<1>3. Application!FaultTypeOK
  <2>1. /\ armed = [k \in Application!Kind |-> "none"] /\ released = FALSE
        /\ served = [r \in Navigation |-> "unsent"] /\ arms = 0 /\ spent = [k \in Application!Kind |-> 0]
    BY DEF Application!InitFaults
  <2>2. arms \in 0 .. MaxArms /\ spent \in [Application!Kind -> Nat]
    BY <2>1, TroubleAssumption
  <2> QED BY <1>1, <2>1, <2>2 DEF Application!FaultTypeOK, Application!Stage
<1> QED BY <1>2, <1>3 DEF FaultInv

\* A request that goes on to anything but a hang.
LEMMA GoesOn ==
  ASSUME FaultInv, NEW r \in Navigation, NEW stage \in Application!Stage \ {"parked", "holding"},
         Application!Goes(r, stage), UNCHANGED <<armed, released, clearing, arms, spent>>
  PROVE  FaultInv'
BY DEF FaultInv, SpentInv, HoldingInv, Application!FaultTypeOK, Application!Goes

LEMMA Consumed ==
  ASSUME FaultInv, NEW r \in Navigation, NEW at, NEW kind \in {"session_expired", "maintenance_notice"},
         NEW answer \in Application!Answers, NEW next \in {"notice?", "page"},
         Application!consume(r, at, kind, answer, next), UNCHANGED <<released, clearing, arms>>
  PROVE  FaultInv'
<1>1. answer \in Application!Stage \ {"parked", "holding"} /\ next \in Application!Stage \ {"parked", "holding"}
  BY DEF Application!Answers, Application!Stage
<1>2. CASE armed[kind] = "none"
  BY <1>1, <1>2, GoesOn DEF Application!consume
<1>3. CASE armed[kind] # "none"
  <2>1. /\ Application!Goes(r, answer)
        /\ armed' = IF armed[kind] = "once" THEN [armed EXCEPT ![kind] = "none"] ELSE armed
        /\ spent' = IF armed[kind] = "once" THEN [spent EXCEPT ![kind] = @ + 1] ELSE spent
    BY <1>3 DEF Application!consume, Application!Spend
  <2>2. CASE armed[kind] = "once"
    <3>1. SpentInv'
      BY <2>1, <2>2 DEF FaultInv, SpentInv, Kind, Application!FaultTypeOK, Application!Kind
    <3>2. Application!FaultTypeOK' /\ HoldingInv'
      BY <1>1, <2>1, <2>2
         DEF FaultInv, HoldingInv, Application!FaultTypeOK, Application!Goes, Application!Kind
    <3> QED BY <3>1, <3>2 DEF FaultInv
  <2>3. CASE armed[kind] # "once"
    BY <1>1, <2>1, <2>3, GoesOn
  <2> QED BY <2>2, <2>3
<1> QED BY <1>2, <1>3

LEMMA Served ==
  ASSUME FaultInv, NEW r \in Navigation, Application!Arrive(r) \/ Application!Serve(r)
  PROVE  FaultInv'
<1>1. CASE Application!Arrive(r)
  BY <1>1, GoesOn DEF Application!Arrive, Application!Stage
<1>2. CASE Application!Hold(r)
  BY <1>2 DEF Application!Hold, Application!Goes, FaultInv, SpentInv, HoldingInv,
     Application!FaultTypeOK, Application!Stage
<1>3. CASE Application!Wait(r)
  BY <1>3 DEF Application!Wait, Application!Goes, FaultInv, SpentInv, HoldingInv,
     Application!FaultTypeOK, Application!Stage
<1>4. CASE Application!FaceExpiry(r)
  BY <1>4, Consumed DEF Application!FaceExpiry, Application!Answers
<1>5. CASE Application!FaceNotice(r)
  BY <1>5, Consumed DEF Application!FaceNotice, Application!Answers
<1> QED BY <1>1, <1>2, <1>3, <1>4, <1>5 DEF Application!Serve

LEMMA Armed ==
  ASSUME FaultInv, Application!Arming
  PROVE  FaultInv'
<1>1. PICK a \in Armings : Application!Arm(a[1], a[2])
  BY DEF Application!Arming
<1>2. a[1] \in Application!Kind /\ a[2] \in Application!Mode
  BY TroubleAssumption
<1>3. SpentInv'
  BY <1>1, <1>2 DEF Application!Arm, FaultInv, SpentInv, Kind, Application!FaultTypeOK
<1>4. armed' = [armed EXCEPT ![a[1]] = a[2]] /\ a[2] # "none" /\ armed \in [Application!Kind -> Application!Mode \cup {"none"}]
  BY <1>1, <1>2 DEF Application!Arm, Application!Mode, FaultInv, Application!FaultTypeOK
<1>5. /\ armed' \in [Application!Kind -> Application!Mode \cup {"none"}]
      /\ armed["timeout"] # "none" => armed'["timeout"] # "none"
      /\ a[1] = "timeout" => armed'["timeout"] # "none"
  BY <1>2, <1>4 DEF Application!Kind
<1>6. HoldingInv'
  BY <1>1, <1>5 DEF Application!Arm, FaultInv, HoldingInv
<1>7. arms' \in 0 .. MaxArms /\ spent' \in [Application!Kind -> Nat]
  BY <1>1, <1>2, TroubleAssumption DEF Application!Arm, FaultInv, Application!FaultTypeOK
<1>8. Application!FaultTypeOK'
  BY <1>1, <1>5, <1>7 DEF Application!Arm, FaultInv, Application!FaultTypeOK
<1> QED BY <1>3, <1>6, <1>8 DEF FaultInv

LEMMA Cleared ==
  ASSUME FaultInv, NEW kind \in Kind, Application!clear(kind), clearing' \in Seq(Kind), UNCHANGED <<arms, spent>>
  PROVE  FaultInv'
<1>1. armed' = [armed EXCEPT ![kind] = "none"] /\ "timeout" \in Application!Kind
  BY DEF Application!clear, Application!Kind
<1>2. SpentInv'
  BY <1>1 DEF FaultInv, SpentInv, Kind, Application!FaultTypeOK, Application!Mode
<1>3. CASE kind = "timeout"
  <2>1. /\ released' = TRUE
        /\ served' = [r \in Navigation |-> IF served[r] = "parked" THEN "expiry?" ELSE served[r]]
    BY <1>3 DEF Application!clear
  <2>2. served' \in [Navigation -> Application!Stage] /\ \A r \in Navigation : served'[r] # "parked"
    BY <2>1 DEF FaultInv, Application!FaultTypeOK, Application!Stage
  <2> QED BY <1>1, <1>2, <2>1, <2>2 DEF FaultInv, HoldingInv, Application!FaultTypeOK, Kind
<1>4. CASE kind # "timeout"
  BY <1>1, <1>2, <1>4 DEF Application!clear, FaultInv, HoldingInv, Application!FaultTypeOK, Kind
<1> QED BY <1>3, <1>4

LEMMA ClearingKeeps ==
  ASSUME FaultInv, Application!Clearing
  PROVE  FaultInv'
<1>0. clearing \in Seq(Kind)
  BY DEF FaultInv, Application!FaultTypeOK, Kind
<1>1. ASSUME NEW kind \in Kind, Application!Clear(kind) PROVE FaultInv'
  BY <1>0, <1>1, Cleared DEF Application!Clear
<1>2. CASE Application!ClearAll
  <2>1. <<"session_expired", "maintenance_notice", "timeout">> \in Seq(Application!Kind)
    BY DEF Application!Kind
  <2> QED BY <1>2, <2>1 DEF Application!ClearAll, FaultInv, SpentInv, HoldingInv, Application!FaultTypeOK
<1>3. CASE Application!ClearNext
  <2>1. Head(clearing) \in Kind /\ Tail(clearing) \in Seq(Kind)
    BY <1>0, <1>3, HeadTailProperties DEF Application!ClearNext
  <2> QED BY <1>3, <2>1, Cleared DEF Application!ClearNext
<1> QED BY <1>1, <1>2, <1>3 DEF Application!Clearing, Kind

LEMMA FaultStep == FaultInv /\ [NextBoth]_allVars => FaultInv'
<1> SUFFICES ASSUME FaultInv, [NextBoth]_allVars PROVE FaultInv'
  OBVIOUS
<1>1. CASE UNCHANGED faultVars
  BY <1>1 DEF faultVars, FaultInv, SpentInv, HoldingInv, Application!FaultTypeOK
<1>2. ASSUME NEW f \in Frame, Sends(PageNavigates(f)) PROVE FaultInv'
  <2>1. Application!Arrive(Len(navigations) + 1) /\ Len(navigations) < MaxNavigations
    BY <1>2 DEF Sends, PageNavigates, issue
  <2>2. Len(navigations) + 1 \in Navigation
    BY <2>1, BoundAssumption DEF Navigation
  <2> QED BY <2>1, <2>2, Served
<1> QED BY <1>1, <1>2, Served, Armed, ClearingKeeps DEF NextBoth, Server, allVars

LEMMA FaultsAlways == SpecBoth => []FaultInv
<1>1. InitBoth => FaultInv
  BY FaultInit DEF InitBoth
<1> QED BY <1>1, FaultStep, PTL DEF SpecBoth

(***************************************************************************)
(* The theorems                                                            *)
(***************************************************************************)
\* The adapter and the register keep their ranges, and a request hangs only while the
\* timeout is armed: clear() leaves none behind, whenever it comes.
THEOREM BothTypesCorrect == SpecBoth => []TypeOKBoth
<1>1. FaultInv /\ TypeOK => TypeOKBoth
  BY DEF FaultInv, TypeOKBoth
<1> QED BY <1>1, FaultsAlways, AdapterIsTheSame, TypeCorrect, PTL

\* consume: a fault armed once answers one request.
THEOREM SpentOnce == SpecBoth => []OnceIsSpentOnce
<1>1. FaultInv => OnceIsSpentOnce
  BY DEF FaultInv, SpentInv, Kind, OnceIsSpentOnce, Application!OnceIsSpentOnce
<1> QED BY <1>1, FaultsAlways, PTL
=============================================================================
