------------------------------- MODULE Surface ------------------------------
(***************************************************************************)
(* The Playwright adapter (cua/surface/playwright_web.py) and the browser  *)
(* it drives.  The page navigates, frame by frame, whenever it likes; what *)
(* it did reaches the adapter's listeners as events, in order, while a     *)
(* call of the adapter waits for something.  CDP does not answer while a   *)
(* navigation is outstanding.  A caller may call anything at any time,     *)
(* with any node it was ever given.                                        *)
(***************************************************************************)
EXTENDS Naturals, Sequences

CONSTANTS
  MaxNavigations, MaxObservations,
  KeepKnew                         \* whether the ghost part of a call is kept

ASSUME BoundAssumption ==
  MaxNavigations \in Nat /\ MaxObservations \in Nat /\ KeepKnew \in BOOLEAN

Frame == {"top", "inner"}        \* the page and its iframe
Navigation == 1 .. MaxNavigations

VARIABLES
  navigations,  \* the browser's: frame of each navigation, and "out" or how it ended
  document,     \* the browser's: which navigation brought the document of a frame
  parsed,       \* the browser's: the page's document is parsed
  events,       \* what the listeners have not been told yet
  pending,      \* _pending
  handles,      \* the nodes of _handles
  sequence,     \* _sequence
  call,         \* the call in progress
  known         \* ghost: every node an observation reported

browserVars == <<navigations, document, parsed>>
adapterVars == <<pending, handles, sequence>>
vars == <<navigations, document, parsed, events, pending, handles, sequence, call, known>>

\* The page has an iframe: one that came with it or after it.
Framed == document["inner"] >= document["top"]

\* A node id carries the number of its observation; its backend id is good in the document
\* it was read from.
Node == [seen : 1 .. MaxObservations, frame : Frame, document : 0 .. MaxNavigations]

\* knew (ghost): what was pending when the call was made, and no commit in its frame was heard
\* since; nodes: what the call is about; done: the part of it done.
Call(op, at, nodes) ==
  [op |-> op, at |-> at, knew |-> IF KeepKnew THEN pending ELSE {}, nodes |-> nodes, done |-> {}]
Idle == [op |-> "none", at |-> "none", knew |-> {}, nodes |-> {}, done |-> {}]

\* The surface is open, at a page with an iframe.
Init ==
  /\ navigations = <<>> /\ document = [f \in Frame |-> 0] /\ parsed = TRUE /\ events = <<>>
  /\ pending = {} /\ handles = {} /\ sequence = 0 /\ call = Idle /\ known = {}

(***************************************************************************)
(* The browser                                                             *)
(***************************************************************************)
Out(n) == n \in DOMAIN navigations /\ navigations[n].at = "out"
Outstanding == {n \in DOMAIN navigations : Out(n)}
Tells(kind, what) == <<[kind |-> kind, of |-> what]>>

issue(frame) ==
  /\ Len(navigations) < MaxNavigations
  /\ navigations' = Append(navigations, [frame |-> frame, at |-> "out"])
  /\ events' = events \o Tells("request", Len(navigations) + 1)
  /\ UNCHANGED <<document, parsed>>

\* The application navigates: a script, an iframe of the page, a redirecting notice.
PageNavigates(frame) ==
  /\ issue(frame) /\ UNCHANGED <<adapterVars, call, known>>

\* A document arrives: it takes the older navigations of its frame with it, and a page the
\* navigations of its iframe; one issued later goes on.
Commit(n) ==
  /\ Out(n)
  /\ LET frame == navigations[n].frame
         aborted == {m \in Outstanding : \/ m < n /\ navigations[m].frame = frame
                                         \/ frame = "top" /\ navigations[m].frame = "inner"}
     IN /\ navigations' = [m \in DOMAIN navigations |->
                             IF m = n THEN [navigations[m] EXCEPT !.at = "committed"]
                             ELSE IF m \in aborted THEN [navigations[m] EXCEPT !.at = "failed"]
                             ELSE navigations[m]]
        /\ document' = IF frame = "top" THEN [top |-> n, inner |-> 0]
                                        ELSE [document EXCEPT !["inner"] = n]
        /\ parsed' = IF frame = "top" THEN FALSE ELSE parsed
        /\ events' = events \o Tells("framenavigated", frame)
                            \o (IF aborted = {} THEN <<>> ELSE Tells("requestfailed", aborted))
  /\ UNCHANGED <<adapterVars, call, known>>

Fails(n) ==
  /\ Out(n) /\ navigations' = [navigations EXCEPT ![n].at = "failed"]
  /\ events' = events \o Tells("requestfailed", {n})
  /\ UNCHANGED <<document, parsed, adapterVars, call, known>>

\* Answered by no document (204, a download), or redirected and failed after: neither
\* event names this request.
EndsUnheard(n) ==
  /\ Out(n) /\ navigations' = [navigations EXCEPT ![n].at = "unheard"]
  /\ UNCHANGED <<document, parsed, events, adapterVars, call, known>>

Parses ==
  /\ ~parsed /\ parsed' = TRUE
  /\ UNCHANGED <<navigations, document, events, adapterVars, call, known>>

(***************************************************************************)
(* The listeners                                                           *)
(***************************************************************************)
In(frame) == {n \in pending : navigations[n].frame = frame}

\* Whatever the frame.
on_committed_anywhere(frame) == pending' = {}

\* Every request of the frame, whichever one committed.
on_committed(frame) == pending' = pending \ In(frame)

\* A failed navigation is waited for like one that is under way.
hear_commits_only(e) ==
  \/ e.kind = "request" /\ pending' = pending \cup {e.of}
  \/ e.kind = "framenavigated" /\ on_committed(e.of)
  \/ e.kind = "requestfailed" /\ UNCHANGED pending

hear(e) ==
  \/ e.kind = "request" /\ pending' = pending \cup {e.of}
  \/ e.kind = "framenavigated" /\ on_committed(e.of)
  \/ e.kind = "requestfailed" /\ pending' = pending \ e.of

\* Playwright dispatches while a call waits.  A commit also wakes the waiter of _settle.
Listen ==
  /\ call # Idle /\ events # <<>> /\ events' = Tail(events) /\ hear(Head(events))
  /\ LET e == Head(events)
         commit == e.kind = "framenavigated"
     IN call' = [call EXCEPT !.at = IF commit /\ @ = "waiting" THEN e.of ELSE @,
                             !.knew = IF commit THEN @ \ In(e.of) ELSE @]
  /\ UNCHANGED <<browserVars, handles, sequence, known>>

(***************************************************************************)
(* observe                                                                 *)
(***************************************************************************)
At(op, at) == call.op = op /\ call.at = at
Moves(at) == call' = [call EXCEPT !.at = at]
Quiet == UNCHANGED <<browserVars, events>>
Returns == call' = Idle

Observe ==
  /\ call = Idle /\ sequence < MaxObservations /\ call' = Call("observe", "settle", {})
  /\ Quiet /\ UNCHANGED <<adapterVars, known>>

\* The loop of _settle.  Out of time, or a page that is not parsed in time, is SurfaceNotReady.
SettleTests ==
  /\ At("observe", "settle") /\ Moves(IF pending = {} THEN "parsing" ELSE "waiting")
  /\ Quiet /\ UNCHANGED <<adapterVars, known>>
\* The waiter runs after other events may have been heard, and applies the commit again.
SettleWakes ==
  /\ call.op = "observe" /\ call.at \in Frame /\ on_committed(call.at)
  /\ call' = [call EXCEPT !.at = "settle", !.knew = @ \ In(call.at)]
  /\ Quiet /\ UNCHANGED <<handles, sequence, known>>
Unsettled ==
  \/ At("observe", "settle") /\ pending # {}
  \/ At("observe", "waiting")
  \/ At("observe", "parsing") /\ ~parsed
SettleExpires ==
  /\ Unsettled /\ Returns /\ Quiet /\ UNCHANGED <<adapterVars, known>>

\* Page.getFrameTree is sent; nothing limits how long it takes.
TreeAsked ==
  /\ At("observe", "parsing") /\ parsed /\ Moves("asking")
  /\ Quiet /\ UNCHANGED <<adapterVars, known>>

\* Its answer numbers the observation; then one tree per frame, the page's first.  The
\* tree of a frame is of the document it has by then, and an iframe the page took with it
\* since is an error no handler catches.
WalkStarts ==
  /\ At("observe", "asking") /\ Outstanding = {} /\ sequence' = sequence + 1
  /\ call' = [call EXCEPT !.at = "walk",
                          !.nodes = {[seen |-> sequence + 1, frame |-> f, document |-> document[f]] :
                                       f \in {f \in Frame : f = "top" \/ Framed}}]
  /\ Quiet /\ UNCHANGED <<pending, handles, known>>

Unread == {n \in call.nodes : \A d \in call.done : d.frame # n.frame}
Torn == \E n \in call.nodes : n.frame = "top" /\ n.document # document["top"]

ReadFrame(n) ==
  /\ At("observe", "walk") /\ Outstanding = {} /\ n \in Unread
  /\ n.frame = "inner" => /\ \A m \in Unread : m = n
                          /\ ~Torn
  /\ call' = [call EXCEPT !.done = @ \cup {[n EXCEPT !.document = document[n.frame]]}]
  /\ Quiet /\ UNCHANGED <<adapterVars, known>>
WalkBreaks ==
  /\ At("observe", "walk") /\ Outstanding = {} /\ Torn /\ \A n \in Unread : n.frame = "inner"
  /\ Unread # {} /\ Returns /\ Quiet /\ UNCHANGED <<adapterVars, known>>

\* Only now do earlier nodes go stale.
WalkEnds ==
  /\ At("observe", "walk") /\ Unread = {}
  /\ handles' = call.done /\ known' = known \cup call.done /\ Returns
  /\ Quiet /\ UNCHANGED <<pending, sequence>>

(***************************************************************************)
(* act and capture                                                         *)
(***************************************************************************)
\* goto waits for the navigation it starts; out of time is no error, and a navigation that
\* fails raises what Playwright raises.
Navigate ==
  /\ call = Idle /\ issue("top") /\ call' = Call("navigate", "goto", {})
  /\ UNCHANGED <<adapterVars, known>>
GotoReturns == At("navigate", "goto") /\ Returns /\ Quiet /\ UNCHANGED <<adapterVars, known>>

\* A click, and with it fill and select_option.  A node of an earlier observation is
\* StaleNode, and a read answers from the node: neither touches the page.
Click(node) ==
  /\ call = Idle /\ node \in handles /\ call' = Call("click", "locate", {node})
  /\ Quiet /\ UNCHANGED <<adapterVars, known>>

\* What is stale is left out, and the rest painted over.
CaptureWhatIsFresh(mask) ==
  /\ call = Idle
  /\ call' = Call("capture", IF mask \cap handles = {} THEN "drive" ELSE "locate", mask)
  /\ Quiet /\ UNCHANGED <<adapterVars, known>>

\* A screenshot with the nodes of the mask painted over, or none at all.
Capture(mask) ==
  /\ call = Idle /\ mask \subseteq handles
  /\ call' = Call("capture", IF mask = {} THEN "drive" ELSE "locate", mask)
  /\ Quiet /\ UNCHANGED <<adapterVars, known>>

Shown(node) == document[node.frame] = node.document /\ (node.frame = "inner" => Framed)
Unlocated == (call.nodes \cap handles) \ call.done

\* _locate: DOM calls by the backend id, which is void once its document is gone.
Locate(node) ==
  /\ call.at = "locate" /\ Outstanding = {} /\ node \in Unlocated
  /\ IF ~Shown(node) THEN Returns
     ELSE call' = [call EXCEPT !.done = @ \cup {node}, !.at = IF Unlocated = {node} THEN "drive" ELSE @]
  /\ Quiet /\ UNCHANGED <<adapterVars, known>>

\* The click lands on the tagged element, if it is still there.  Out of time is "done" when
\* a navigation is pending, whoever started it, and ActionNotApplicable otherwise.
Lands ==
  /\ At("click", "drive") /\ (\A n \in call.nodes : Shown(n)) /\ Moves("landed")
  /\ Quiet /\ UNCHANGED <<adapterVars, known>>

\* A tag that is gone masks nothing.
Shoots ==
  /\ At("capture", "drive")
  /\ call' = [call EXCEPT !.at = "shot", !.done = {n \in @ : Shown(n)}]
  /\ Quiet /\ UNCHANGED <<adapterVars, known>>

Ends ==
  /\ call.op \in {"click", "capture"} /\ call.at \in {"drive", "landed", "shot"} /\ Returns
  /\ Quiet /\ UNCHANGED <<adapterVars, known>>

(***************************************************************************)
(* Specification                                                           *)
(***************************************************************************)
ObserveStep ==
  \/ SettleTests \/ SettleWakes \/ TreeAsked \/ WalkStarts \/ (\E n \in Node : ReadFrame(n)) \/ WalkBreaks \/ WalkEnds
ActStep == (\E n \in Node : Locate(n)) \/ Lands \/ Shoots \/ Ends \/ GotoReturns
AdapterStep == ObserveStep \/ ActStep \/ SettleExpires

LocalStep == AdapterStep \/ Listen \/ Parses

\* A mask is of one observation, or empty.
Acting ==
  \/ \E n \in known : Click(n)
  \/ \E seen \in 0 .. MaxObservations : Capture({n \in known : n.seen = seen})

Next ==
  \/ LocalStep \/ Observe \/ Acting \/ Navigate
  \/ \E f \in Frame : PageNavigates(f)
  \/ \E n \in Navigation : Commit(n) \/ Fails(n) \/ EndsUnheard(n)

Spec == Init /\ [][Next]_vars

(***************************************************************************)
(* Properties                                                              *)
(***************************************************************************)
Ending == {"out", "committed", "failed", "unheard"}
Event ==
  [kind : {"request"}, of : Navigation] \cup [kind : {"framenavigated"}, of : Frame]
    \cup [kind : {"requestfailed"}, of : SUBSET Navigation]
Calls ==
  [op : {"none", "observe", "navigate", "click", "capture"},
   at : {"none", "settle", "waiting", "parsing", "asking", "walk", "goto", "locate", "drive", "landed", "shot"}
        \cup Frame,
   knew : SUBSET Navigation, nodes : SUBSET Node, done : SUBSET Node]

\* Every variable keeps its range; the adapter hears only of navigations there are, and the
\* nodes it can still drive are of one observation.
TypeOK ==
  /\ navigations \in Seq([frame : Frame, at : Ending]) /\ Len(navigations) <= MaxNavigations
  /\ document \in [Frame -> 0 .. Len(navigations)] /\ parsed \in BOOLEAN
  /\ events \in Seq(Event) /\ pending \subseteq DOMAIN navigations
  /\ known \subseteq Node /\ handles \subseteq known
  /\ sequence \in 0 .. MaxObservations /\ call \in Calls
  /\ \A n \in handles, m \in handles : n.seen = m.seen

\* _settle: what observe knew to be under way when it was called is over before it goes to
\* CDP, in whichever frame; the exception is a navigation issued before a commit in
\* its own frame was heard, which that commit is taken to be.
SettledMeansAnswered ==
  At("observe", "asking") => \A n \in call.knew : ~Out(n)

\* The node an action lands on is of the latest observation, in the document it was observed
\* in; and of the nodes a screenshot was to paint over, none shows unpainted.
NodesAreDrivenWhereSeen ==
  [][/\ call.at # "landed" /\ call'.at = "landed" =>
          \A n \in call.nodes : Shown(n) /\ \A k \in known : k.seen <= n.seen
     /\ call.at # "shot" /\ call'.at = "shot" => \A n \in call.nodes : Shown(n) => n \in call'.done]_vars

(***************************************************************************)
(* What the repository says of the adapter and its code does not keep      *)
(***************************************************************************)
\* playwright_web.py:13 "tracks in-flight navigation requests itself and never touches CDP
\* while one is outstanding": one the adapter knew of when the call was made.
CDPIsLeftAlone ==
  call.at \in {"asking", "locate"} => \A n \in call.knew : ~Out(n)
=============================================================================
