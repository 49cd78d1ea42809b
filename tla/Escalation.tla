----------------------------- MODULE Escalation -----------------------------
(***************************************************************************)
(* Paused runs, the operator console and its operators (escalation/        *)
(* escalator.py, console/server.py).  The console is a threading HTTP      *)
(* server: one thread per exchange, sharing a dictionary under a lock; a   *)
(* run's second request is held open on the event of its item.  The        *)
(* console keeps nothing on disk, so a crash forgets every item, drops     *)
(* every exchange in progress and leaves the operators' open pages stale.  *)
(***************************************************************************)
EXTENDS Naturals, FiniteSets

CONSTANTS
  Runs,        \* the replays that may escalate
  RunId,       \* the run id each has drawn; two may be the same
  Operators,   \* the browsers an operator may answer from, one answer each
  Answers,     \* the resolutions a form can carry
  Malformed,   \* a form that is not a resolution
  None,        \* no item, no answer
  MaxHandoffs, \* bound: handoffs of one run
  MaxCrashes   \* bound: crashes of the console

\* request_id is the run id and how many interventions the run already has.
RequestIds == {RunId[r] : r \in Runs} \X (0 .. MaxHandoffs)

ASSUME EscalationAssumption ==
  /\ MaxHandoffs \in Nat /\ MaxCrashes \in Nat
  /\ None \notin Answers \cup {Malformed} \cup RequestIds /\ Malformed \notin Answers

VARIABLES
  up,         \* the console process is serving
  crashes,    \* how often it has died
  items,      \* Console._items: the requests, each with its answer and its event
  run,        \* each run: where it is in ConsoleClient.request, its handoffs, its answer
  operator    \* each operator: where it is, the request on its page, its answer

vars == <<up, crashes, items, run, operator>>

request(r) == <<RunId[r], run[r].handoffs>>
listed == DOMAIN items

Idle == [at |-> "idle", request |-> None, answer |-> None]

Init ==
  /\ up = TRUE /\ crashes = 0 /\ items = [i \in {} |-> None]
  /\ run = [r \in Runs |-> [at |-> "running", handoffs |-> 0, answer |-> None]]
  /\ operator = [o \in Operators |-> Idle]

Move(r, to) == run' = [run EXCEPT ![r].at = to]
Turn(o, to) == operator' = [operator EXCEPT ![o].at = to]

(***************************************************************************)
(* ConsoleClient.request, with the handler threads that serve it           *)
(***************************************************************************)
\* The engine hands over: a POST is on its way.
Escalate(r) ==
  /\ run[r].at = "running" /\ run[r].handoffs < MaxHandoffs
  /\ run' = [run EXCEPT ![r].at = "posting", ![r].answer = None]
  /\ UNCHANGED <<up, crashes, items, operator>>

\* Handler._submit and Console.submit: a duplicate id is refused.
Submit(r) ==
  /\ run[r].at = "posting" /\ up
  /\ IF request(r) \in listed
     THEN Move(r, "refused") /\ UNCHANGED items
     ELSE /\ Move(r, "created")
          /\ items' = [i \in listed \cup {request(r)} |->
                         IF i = request(r) THEN [answer |-> None, event |-> FALSE] ELSE items[i]]
  /\ UNCHANGED <<up, crashes, operator>>

\* The answer to the POST: 201 goes on to the held GET, 409 is an EscalationError.
PostAnswered(r) ==
  /\ \/ run[r].at = "created" /\ Move(r, "getting")
     \/ run[r].at = "refused" /\ Move(r, "EscalationError")
  /\ UNCHANGED <<up, crashes, items, operator>>

LookupUnchecked(r) ==
  /\ run[r].at = "getting" /\ up /\ Move(r, "held")
  /\ UNCHANGED <<up, crashes, items, operator>>

\* Console.await_resolution: the item is looked up once, then its event waited on.
Lookup(r) ==
  /\ run[r].at = "getting" /\ up
  /\ Move(r, IF request(r) \in listed THEN "held" ELSE "EscalationError")
  /\ UNCHANGED <<up, crashes, items, operator>>

Release(r) ==
  /\ run[r].at = "held" /\ items[request(r)].event
  /\ run' = [run EXCEPT ![r].at = "answered", ![r].answer = items[request(r)].answer]
  /\ UNCHANGED <<up, crashes, items, operator>>

\* urlopen cannot connect.
Unreachable(r) ==
  /\ run[r].at \in {"posting", "getting"} /\ ~up /\ Move(r, "EscalationError")
  /\ UNCHANGED <<up, crashes, items, operator>>

\* _resume_index: the run goes on with one more intervention, or ends.
Resume(r) ==
  /\ run[r].at = "answered"
  /\ \/ run' = [run EXCEPT ![r].at = "running", ![r].handoffs = @ + 1]
     \/ Move(r, "over")
  /\ UNCHANGED <<up, crashes, items, operator>>

(***************************************************************************)
(* An operator's page, and Console.resolve                                 *)
(***************************************************************************)
\* The page of a pending request, with its form filled in; the page does not follow
\* the item, so it may be posted after another operator has answered.
OpenPage(o, i, answer) ==
  /\ operator[o].at = "idle" /\ up /\ i \in listed /\ items[i].answer = None
  /\ operator' = [operator EXCEPT ![o] = [at |-> "form", request |-> i, answer |-> answer]]
  /\ UNCHANGED <<up, crashes, items, run>>

PostForm(o) ==
  /\ operator[o].at = "form"
  /\ Turn(o, "posted")
  /\ UNCHANGED <<up, crashes, items, run>>

\* Handler._resolve refuses what is not a Resolution; the operator may correct it.
FormRefused(o) ==
  /\ operator[o].at = "posted" /\ up /\ operator[o].answer = Malformed
  /\ \E answer \in Answers :
       operator' = [operator EXCEPT ![o].at = "form", ![o].answer = answer]
  /\ UNCHANGED <<up, crashes, items, run>>

TooLateIfGone(i) == i \notin listed

TooLate(i) == i \notin listed \/ items[i].answer # None

DecideAnnouncingFirst(o) ==
  /\ operator[o].at = "posted" /\ up /\ operator[o].answer # Malformed
  /\ LET i == operator[o].request IN
     IF TooLate(i)
     THEN Turn(o, "too_late") /\ UNCHANGED items
     ELSE Turn(o, "deciding") /\ items' = [items EXCEPT ![i].event = TRUE]
  /\ UNCHANGED <<up, crashes, run>>

\* Console.resolve under the lock: the first answer is kept.
Decide(o) ==
  /\ operator[o].at = "posted" /\ up /\ operator[o].answer # Malformed
  /\ LET i == operator[o].request IN
     IF TooLate(i)
     THEN Turn(o, "too_late") /\ UNCHANGED items
     ELSE Turn(o, "deciding") /\ items' = [items EXCEPT ![i].answer = operator[o].answer]
  /\ UNCHANGED <<up, crashes, run>>

WakeNobody(o) ==
  /\ operator[o].at = "deciding" /\ Turn(o, "woken")
  /\ UNCHANGED <<up, crashes, items, run>>

\* Out of the lock: the event is set.
Wake(o) ==
  /\ operator[o].at = "deciding"
  /\ items' = [items EXCEPT ![operator[o].request].event = TRUE]
  /\ Turn(o, "woken")
  /\ UNCHANGED <<up, crashes, run>>

\* The operator is redirected (303) or told that it came too late (409), or gives up
\* the form; the browser is free for another page.
Leave(o) ==
  /\ operator[o].at \in {"form", "woken", "too_late"}
  /\ operator' = [operator EXCEPT ![o] = Idle]
  /\ UNCHANGED <<up, crashes, items, run>>

(***************************************************************************)
(* The console process                                                     *)
(***************************************************************************)
InExchange == {"created", "refused", "held"}
Sending == {"posting", "getting"}

\* Every thread dies with the process, at a crash or at Ctrl-C alike (the threads are
\* daemons).  A run in an exchange, and any that is sending, sees its connection
\* dropped: no answer at all, which urlopen raises as it is.  An operator in an
\* exchange sees an error page and may post the form again.
Crash ==
  /\ up /\ crashes < MaxCrashes
  /\ up' = FALSE /\ crashes' = crashes + 1 /\ items' = [i \in {} |-> None]
  /\ \E cut \in SUBSET {r \in Runs : run[r].at \in Sending} :
       run' = [r \in Runs |-> IF run[r].at \in InExchange \/ r \in cut
                              THEN [run[r] EXCEPT !.at = "dropped"] ELSE run[r]]
  /\ operator' = [o \in Operators |->
                    IF operator[o].at \in {"posted", "deciding", "woken", "too_late"}
                    THEN [operator[o] EXCEPT !.at = "form"] ELSE operator[o]]

Restart == ~up /\ up' = TRUE /\ UNCHANGED <<crashes, items, run, operator>>

Next ==
  \/ Crash \/ Restart
  \/ \E r \in Runs : \/ Escalate(r) \/ Submit(r) \/ PostAnswered(r) \/ Lookup(r) \/ Release(r)
                     \/ Unreachable(r) \/ Resume(r)
  \/ \E o \in Operators :
       \/ PostForm(o) \/ FormRefused(o) \/ Decide(o) \/ Wake(o) \/ Leave(o)
       \/ \E i \in RequestIds, answer \in Answers \cup {Malformed} : OpenPage(o, i, answer)

Spec == Init /\ [][Next]_vars

\* Threads of a live console are scheduled and the network delivers; nobody promises
\* that an operator answers, that the console stays up or that it comes back.
Fairness ==
  /\ \A r \in Runs : WF_vars(Submit(r) \/ PostAnswered(r) \/ Lookup(r) \/ Unreachable(r))
                     /\ WF_vars(Release(r))
  /\ \A o \in Operators : WF_vars(Decide(o)) /\ WF_vars(Wake(o))

FairSpec == Spec /\ Fairness

(***************************************************************************)
(* Properties                                                              *)
(***************************************************************************)
RunAt == {"running", "posting", "created", "refused", "getting", "held", "answered",
          "over", "dropped", "EscalationError"}
OperatorAt == {"idle", "form", "posted", "deciding", "woken", "too_late"}

Waiting == {"posting", "created", "refused", "getting", "held"}
Accepted(o) == operator[o].at \in {"deciding", "woken"}

\* Every variable keeps its range; what a held run and an operator at work refer to is
\* listed by a console that is up.
TypeOK ==
  /\ up \in BOOLEAN /\ crashes \in 0 .. MaxCrashes
  /\ listed \subseteq RequestIds
  /\ items \in [listed -> [answer : Answers \cup {None}, event : BOOLEAN]]
  /\ run \in [Runs -> [at : RunAt, handoffs : 0 .. MaxHandoffs, answer : Answers \cup {None}]]
  /\ operator \in [Operators -> [at : OperatorAt, request : RequestIds \cup {None},
                                 answer : Answers \cup {Malformed, None}]]
  /\ \A r \in Runs :
       /\ run[r].at \in InExchange => up /\ request(r) \in listed
       /\ run[r].at \in Waiting \cup {"answered"} => run[r].handoffs < MaxHandoffs
  /\ \A o \in Operators :
       /\ operator[o].at # "idle" => operator[o].request # None /\ operator[o].answer # None
       /\ Accepted(o) => up /\ operator[o].request \in listed /\ operator[o].answer \in Answers

\* server.py:67 asserts it of the one run: an event is set only after the answer it
\* announces, although the two are written apart and the second out of the lock.
AnsweredBeforeWoken == \A i \in listed : items[i].event => items[i].answer # None

\* An answered request has its event set, or a live thread about to set it: a run is
\* never left held on an answer that nobody will announce.
NoLostWakeup ==
  \A i \in listed : items[i].answer # None /\ ~items[i].event =>
    \E o \in Operators : operator[o].at = "deciding" /\ operator[o].request = i

\* Of several operators who answer one request, whoever was not told that it came too
\* late is the one whose answer the request keeps.
AcceptedAnswerStands ==
  \A o \in Operators : Accepted(o) => items[operator[o].request].answer = operator[o].answer

\* The protocol implements HandoffContract: one decision for a request while the
\* console lives, and a paused run is given that decision or none.
Contract == INSTANCE HandoffContract WITH
  Nothing <- None,
  waiting <- [r \in Runs |-> IF run[r].at \in Waiting THEN request(r) ELSE None],
  decision <- [i \in RequestIds |-> IF i \in listed THEN items[i].answer ELSE None],
  given <- [r \in Runs |-> run[r].answer]

KeepsHandoff == Contract!Spec

\* A run held on a request that an operator has answered goes on, by the answer or by
\* the loss of its connection.
AnswerReleasesRun ==
  \A r \in Runs :
    run[r].at = "held" /\ items[request(r)].answer # None ~> run[r].at # "held"
=============================================================================
