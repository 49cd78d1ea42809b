-------------------------- MODULE EscalationProofs --------------------------
(***************************************************************************)
(* Proofs about Escalation, for any number of runs and operators, with any *)
(* run ids, and any number of handoffs and crashes.                        *)
(***************************************************************************)
EXTENDS Escalation, TLAPS

RunType == [at : RunAt, handoffs : 0 .. MaxHandoffs, answer : Answers \cup {None}]
OperatorType == [at : OperatorAt, request : RequestIds \cup {None},
                 answer : Answers \cup {Malformed, None}]

\* Everything the properties rest on: the types, and what each says of the others.
Inv == TypeOK /\ AnsweredBeforeWoken /\ NoLostWakeup /\ AcceptedAnswerStands

\* A run's request id is one of the request ids.
LEMMA RequestIsAnId ==
  ASSUME NEW r \in Runs, run[r].handoffs \in 0 .. MaxHandoffs
  PROVE  request(r) \in RequestIds /\ request(r) # None
BY EscalationAssumption DEF request, RequestIds

LEMMA InvInit == Init => Inv
<1> SUFFICES ASSUME Init PROVE Inv
  OBVIOUS
<1>1. TypeOK
  BY EscalationAssumption DEF Init, TypeOK, listed, Idle, RunAt, OperatorAt, InExchange, Waiting, Accepted
<1>2. AnsweredBeforeWoken /\ NoLostWakeup /\ AcceptedAnswerStands
  BY DEF Init, AnsweredBeforeWoken, NoLostWakeup, AcceptedAnswerStands, listed, Accepted, Idle
<1> QED BY <1>1, <1>2 DEF Inv

(***************************************************************************)
(* Steps that leave the items alone                                        *)
(***************************************************************************)
\* A run that moves without leaving or entering an exchange unlisted keeps the invariant.
LEMMA RunStep ==
  ASSUME Inv, NEW r \in Runs, NEW x \in RunType,
         run' = [run EXCEPT ![r] = x], UNCHANGED <<up, crashes, items, operator>>,
         x.at \in InExchange => up /\ request(r) \in listed /\ x.handoffs = run[r].handoffs,
         x.at \in Waiting \cup {"answered"} => x.handoffs < MaxHandoffs
  PROVE  Inv'
<1>1. TypeOK'
  <2>1. run' \in [Runs -> RunType]
    BY DEF Inv, TypeOK, RunType
  <2>2. ASSUME NEW s \in Runs, run'[s].at \in InExchange
        PROVE  up' /\ request(s)' \in listed'
    <3>1. CASE s = r
      BY <2>2, <3>1 DEF Inv, TypeOK, request, listed
    <3>2. CASE s # r
      BY <2>2, <3>2 DEF Inv, TypeOK, request, listed
    <3> QED BY <3>1, <3>2
  <2> QED BY <2>1, <2>2 DEF Inv, TypeOK, RunType, listed, Accepted
<1>2. (AnsweredBeforeWoken /\ NoLostWakeup /\ AcceptedAnswerStands)'
  BY DEF Inv, AnsweredBeforeWoken, NoLostWakeup, AcceptedAnswerStands, listed, Accepted
<1> QED BY <1>1, <1>2 DEF Inv

\* An operator that moves, not away from an announcement it owes nor into an acceptance
\* it was not given, keeps the invariant.
LEMMA OperatorStep ==
  ASSUME Inv, NEW o \in Operators, NEW x \in OperatorType,
         operator' = [operator EXCEPT ![o] = x], UNCHANGED <<up, crashes, items, run>>,
         operator[o].at # "deciding", x.at \notin {"deciding", "woken"},
         x.at # "idle" => x.request # None /\ x.answer # None
  PROVE  Inv'
<1>1. operator' \in [Operators -> OperatorType]
  BY DEF Inv, TypeOK, OperatorType
<1>2. ASSUME NEW p \in Operators
      PROVE  /\ p # o => operator'[p] = operator[p]
             /\ p = o => operator'[p] = x
  BY DEF Inv, TypeOK
<1>3. TypeOK'
  BY <1>1, <1>2 DEF Inv, TypeOK, OperatorType, listed, Accepted, request
<1>4. (AnsweredBeforeWoken /\ AcceptedAnswerStands)'
  BY <1>2 DEF Inv, AnsweredBeforeWoken, AcceptedAnswerStands, listed, Accepted
<1>5. NoLostWakeup'
  BY <1>2 DEF Inv, NoLostWakeup, listed
<1> QED BY <1>3, <1>4, <1>5 DEF Inv

(***************************************************************************)
(* The invariant is inductive                                              *)
(***************************************************************************)
LEMMA InvNext == Inv /\ [Next]_vars => Inv'
<1> SUFFICES ASSUME Inv, [Next]_vars PROVE Inv'
  OBVIOUS
<1> USE EscalationAssumption
<1>t. TypeOK /\ run \in [Runs -> RunType] /\ operator \in [Operators -> OperatorType]
  BY DEF Inv, TypeOK, RunType, OperatorType
<1>0. CASE UNCHANGED vars
  BY <1>0 DEF vars, Inv, TypeOK, AnsweredBeforeWoken, NoLostWakeup, AcceptedAnswerStands,
     listed, Accepted, request
<1>1. CASE Crash
  <2>1. up' = FALSE /\ crashes' \in 0 .. MaxCrashes /\ items' = [i \in {} |-> None]
    BY <1>1, <1>t DEF Crash, TypeOK
  <2>2. listed' = {}
    BY <2>1 DEF listed
  <2>3. ASSUME NEW r \in Runs
        PROVE  /\ run'[r] \in RunType
               /\ run'[r].at \notin InExchange
               /\ run'[r].at \in Waiting \cup {"answered"} => run'[r].handoffs < MaxHandoffs
    <3>1. run[r] \in RunType
      BY <1>t
    <3>2. CASE run'[r] = [run[r] EXCEPT !.at = "dropped"]
      BY <3>1, <3>2 DEF RunType, RunAt, InExchange, Waiting
    <3>3. CASE run'[r] = run[r] /\ run[r].at \notin InExchange
      BY <1>t, <3>1, <3>3 DEF TypeOK
    <3> QED BY <1>1, <1>t, <3>2, <3>3 DEF Crash
  <2>4. ASSUME NEW o \in Operators
        PROVE  /\ operator'[o] \in OperatorType
               /\ operator'[o].at \notin {"deciding", "woken"}
               /\ operator'[o].at # "idle" =>
                    operator'[o].request # None /\ operator'[o].answer # None
    <3>1. CASE operator[o].at \in {"posted", "deciding", "woken", "too_late"}
      BY <1>1, <1>t, <3>1 DEF Crash, TypeOK, OperatorType, OperatorAt
    <3>2. CASE operator[o].at \notin {"posted", "deciding", "woken", "too_late"}
      BY <1>1, <1>t, <3>2 DEF Crash, TypeOK, OperatorType
    <3> QED BY <3>1, <3>2
  <2>5. run' \in [Runs -> RunType] /\ operator' \in [Operators -> OperatorType]
    BY <1>1, <2>3, <2>4 DEF Crash
  <2>6. TypeOK'
    BY <2>1, <2>2, <2>3, <2>4, <2>5 DEF TypeOK, RunType, OperatorType, Accepted
  <2>7. (AnsweredBeforeWoken /\ NoLostWakeup /\ AcceptedAnswerStands)'
    BY <2>2, <2>4 DEF AnsweredBeforeWoken, NoLostWakeup, AcceptedAnswerStands, Accepted
  <2> QED BY <2>6, <2>7 DEF Inv
<1>2. CASE Restart
  BY <1>2 DEF Restart, Inv, TypeOK, AnsweredBeforeWoken, NoLostWakeup, AcceptedAnswerStands,
     listed, Accepted, request
<1>3. ASSUME NEW r \in Runs, Escalate(r) PROVE Inv'
  <2> DEFINE x == [run[r] EXCEPT !.at = "posting", !.answer = None]
  <2>1. run' = [run EXCEPT ![r] = x] /\ x \in RunType /\ x.at = "posting" /\ x.handoffs < MaxHandoffs
    BY <1>3, <1>t DEF Escalate, RunType, RunAt
  <2> HIDE DEF x
  <2> QED BY <1>3, <2>1, <1>t, RunStep DEF TypeOK, Waiting, Escalate, InExchange
<1>4. ASSUME NEW r \in Runs, Submit(r) PROVE Inv'
  <2>1. CASE request(r) \in listed
    <3> DEFINE x == [run[r] EXCEPT !.at = "refused"]
    <3>1. run' = [run EXCEPT ![r] = x] /\ x \in RunType /\ x.handoffs = run[r].handoffs
      BY <1>4, <1>t, <2>1 DEF Submit, Move, RunType, RunAt
    <3> QED BY <1>4, <2>1, <3>1, <1>t, RunStep DEF TypeOK, Waiting, Submit, InExchange
  <2>2. CASE request(r) \notin listed
    <3>1. /\ listed' = listed \cup {request(r)}
          /\ items'[request(r)] = [answer |-> None, event |-> FALSE]
          /\ \A i \in listed : items'[i] = items[i]
          /\ items' \in [listed' -> [answer : Answers \cup {None}, event : BOOLEAN]]
      <4> DEFINE i0 == request(r)
                 new == [i \in listed \cup {i0} |->
                           IF i = i0 THEN [answer |-> None, event |-> FALSE] ELSE items[i]]
      <4>1. items' = new
        BY <1>4, <2>2 DEF Submit
      <4>2. \A i \in listed \cup {i0} : new[i] \in [answer : Answers \cup {None}, event : BOOLEAN]
        BY <1>t DEF TypeOK
      <4>3. DOMAIN new = listed \cup {i0}
        OBVIOUS
      <4>4. listed' = listed \cup {i0}
        BY <4>1, <4>3 DEF listed
      <4> HIDE DEF i0
      <4> QED BY <2>2, <4>1, <4>2, <4>4 DEF i0
    <3>2. request(r) \in RequestIds
      BY <1>t, RequestIsAnId DEF RunType
    <3> DEFINE x == [run[r] EXCEPT !.at = "created"]
    <3>3. run' = [run EXCEPT ![r] = x] /\ x \in RunType /\ x.handoffs = run[r].handoffs
      BY <1>4, <1>t, <2>2 DEF Submit, Move, RunType, RunAt
    <3>4. run' \in [Runs -> RunType] /\ \A s \in Runs : request(s)' = request(s)
      BY <3>3, <1>t DEF request, RunType
    <3>5. \A s \in Runs :
            /\ run'[s].at \in InExchange => up /\ request(s) \in listed'
            /\ run'[s].at \in Waiting \cup {"answered"} => run'[s].handoffs < MaxHandoffs
      <4>1. run[r].handoffs < MaxHandoffs
        BY <1>4, <1>t DEF Submit, TypeOK, Waiting
      <4>2. \A s \in Runs : s # r => run'[s] = run[s]
        BY <3>3, <1>t
      <4>3. run'[r].handoffs = run[r].handoffs
        BY <3>3, <1>t
      <4> QED BY <1>4, <1>t, <3>1, <4>1, <4>2, <4>3 DEF TypeOK, Submit
    <3>6. TypeOK'
      BY <1>4, <1>t, <3>1, <3>2, <3>4, <3>5 DEF TypeOK, Submit, RunType, Accepted
    <3>7. (AnsweredBeforeWoken /\ NoLostWakeup /\ AcceptedAnswerStands)'
      BY <1>4, <3>1, <1>t DEF Inv, TypeOK, AnsweredBeforeWoken, NoLostWakeup,
         AcceptedAnswerStands, Submit, Accepted
    <3> QED BY <3>6, <3>7 DEF Inv
  <2> QED BY <2>1, <2>2
<1>5. ASSUME NEW r \in Runs, PostAnswered(r) PROVE Inv'
  <2>1. PICK to \in {"getting", "EscalationError"} : Move(r, to)
    BY <1>5 DEF PostAnswered
  <2> DEFINE x == [run[r] EXCEPT !.at = to]
  <2>2. run' = [run EXCEPT ![r] = x] /\ x \in RunType /\ x.at = to /\ x.handoffs < MaxHandoffs
    BY <1>5, <2>1, <1>t DEF PostAnswered, TypeOK, Waiting, Move, RunType, RunAt
  <2> HIDE DEF x
  <2> QED BY <1>5, <2>2, <1>t, RunStep DEF TypeOK, Waiting, PostAnswered, InExchange
<1>6. ASSUME NEW r \in Runs, Lookup(r) PROVE Inv'
  <2> DEFINE to == IF request(r) \in listed THEN "held" ELSE "EscalationError"
  <2> DEFINE x == [run[r] EXCEPT !.at = to]
  <2>1. run' = [run EXCEPT ![r] = x] /\ x \in RunType /\ x.at = to
        /\ x.handoffs = run[r].handoffs
    BY <1>6, <1>t DEF Lookup, Move, RunType, RunAt
  <2> HIDE DEF x
  <2> QED BY <1>6, <2>1, <1>t, RunStep DEF TypeOK, Waiting, Lookup, InExchange
<1>7. ASSUME NEW r \in Runs, Release(r) PROVE Inv'
  <2> DEFINE x == [run[r] EXCEPT !.at = "answered", !.answer = items[request(r)].answer]
  <2>1. request(r) \in listed
    BY <1>7, <1>t DEF Release, TypeOK, InExchange
  <2>2. items[request(r)].answer \in Answers \cup {None}
    BY <2>1, <1>t DEF TypeOK
  <2>3. run' = [run EXCEPT ![r] = x] /\ x \in RunType /\ x.at = "answered" /\ x.handoffs < MaxHandoffs
    <3>1. run' = [run EXCEPT ![r] = x]
      BY <1>7, <1>t DEF Release
    <3>2. run[r] \in RunType /\ run[r].handoffs < MaxHandoffs
      BY <1>7, <1>t DEF Release, TypeOK, Waiting
    <3>3. x \in RunType /\ x.at = "answered" /\ x.handoffs = run[r].handoffs
      BY <2>2, <3>2 DEF RunType, RunAt
    <3> QED BY <3>1, <3>2, <3>3
  <2> HIDE DEF x
  <2> QED BY <1>7, <2>3, <1>t, RunStep DEF TypeOK, Waiting, Release, InExchange
<1>8. ASSUME NEW r \in Runs, Unreachable(r) PROVE Inv'
  <2> DEFINE x == [run[r] EXCEPT !.at = "EscalationError"]
  <2>1. run' = [run EXCEPT ![r] = x] /\ x \in RunType /\ x.at = "EscalationError"
    BY <1>8, <1>t DEF Unreachable, Move, RunType, RunAt
  <2> QED BY <1>8, <2>1, <1>t, RunStep DEF TypeOK, Waiting, Unreachable, InExchange
<1>9. ASSUME NEW r \in Runs, Resume(r) PROVE Inv'
  <2>1. PICK x \in {[run[r] EXCEPT !.at = "running", !.handoffs = @ + 1],
                    [run[r] EXCEPT !.at = "over"]} : run' = [run EXCEPT ![r] = x]
    BY <1>9, <1>t DEF Resume, Move, RunType
  <2>2. x \in RunType /\ x.at \in {"running", "over"}
    BY <1>9, <1>t, <2>1 DEF Resume, TypeOK, RunType, RunAt, Waiting
  <2> QED BY <1>9, <2>1, <2>2, RunStep DEF Resume, InExchange, Waiting
<1>10. ASSUME NEW o \in Operators, NEW i \in RequestIds, NEW a \in Answers \cup {Malformed},
              OpenPage(o, i, a) PROVE Inv'
  <2> DEFINE x == [at |-> "form", request |-> i, answer |-> a]
  <2>1. x \in OperatorType /\ i # None /\ a # None
    BY DEF OperatorType, OperatorAt
  <2> QED BY <1>10, <2>1, OperatorStep DEF OpenPage
<1>11. ASSUME NEW o \in Operators, PostForm(o) PROVE Inv'
  <2> DEFINE x == [operator[o] EXCEPT !.at = "posted"]
  <2>1. /\ operator' = [operator EXCEPT ![o] = x] /\ x \in OperatorType /\ x.at = "posted"
        /\ x.request # None /\ x.answer # None
    BY <1>11, <1>t DEF PostForm, Turn, TypeOK, OperatorType, OperatorAt
  <2> QED BY <1>11, <2>1, OperatorStep DEF PostForm
<1>12. ASSUME NEW o \in Operators, FormRefused(o) PROVE Inv'
  <2>1. PICK a \in Answers : operator' = [operator EXCEPT ![o].at = "form", ![o].answer = a]
    BY <1>12 DEF FormRefused
  <2> DEFINE x == [operator[o] EXCEPT !.at = "form", !.answer = a]
  <2>2. /\ operator' = [operator EXCEPT ![o] = x] /\ x \in OperatorType /\ x.at = "form"
        /\ x.request # None /\ x.answer # None
    BY <1>12, <1>t, <2>1 DEF FormRefused, TypeOK, OperatorType, OperatorAt
  <2> QED BY <1>12, <2>2, OperatorStep DEF FormRefused
<1>13. ASSUME NEW o \in Operators, Decide(o) PROVE Inv'
  <2> DEFINE i == operator[o].request
  <2>1. CASE TooLate(i)
    <3> DEFINE x == [operator[o] EXCEPT !.at = "too_late"]
    <3>1. /\ operator' = [operator EXCEPT ![o] = x] /\ x \in OperatorType /\ x.at = "too_late"
          /\ x.request # None /\ x.answer # None
      BY <1>13, <1>t, <2>1 DEF Decide, Turn, TypeOK, OperatorType, OperatorAt
    <3> QED BY <1>13, <2>1, <3>1, OperatorStep DEF Decide
  <2>2. CASE ~TooLate(i)
    <3>1. /\ i \in listed /\ items[i].answer = None
          /\ operator[o].answer \in Answers /\ operator[o].answer # None
      BY <1>13, <1>t, <2>2 DEF Decide, TooLate, TypeOK, OperatorType
    <3>2. /\ items' = [items EXCEPT ![i].answer = operator[o].answer]
          /\ operator' = [operator EXCEPT ![o].at = "deciding"]
          /\ UNCHANGED <<up, crashes, run>> /\ up
      BY <1>13, <2>2 DEF Decide, Turn
    <3> HIDE DEF i
    <3>3. /\ listed' = listed
          /\ items' \in [listed -> [answer : Answers \cup {None}, event : BOOLEAN]]
          /\ items'[i].answer = operator[o].answer /\ items'[i].event = items[i].event
          /\ \A j \in listed : j # i => items'[j] = items[j]
      BY <1>t, <3>1, <3>2 DEF listed, TypeOK
    <3>4. /\ operator' \in [Operators -> OperatorType]
          /\ operator'[o].at = "deciding" /\ operator'[o].request = i
          /\ operator'[o].answer = operator[o].answer
          /\ \A p \in Operators : p # o => operator'[p] = operator[p]
      BY <1>t, <3>2 DEF OperatorType, OperatorAt, i
    <3>5. TypeOK'
      BY <1>t, <3>1, <3>2, <3>3, <3>4 DEF TypeOK, OperatorType, Accepted, request
    <3>6. AnsweredBeforeWoken'
      BY <3>1, <3>3 DEF Inv, AnsweredBeforeWoken
    <3>7. NoLostWakeup'
      BY <1>13, <3>3, <3>4 DEF Inv, NoLostWakeup, Decide
    <3>8. AcceptedAnswerStands'
      <4> SUFFICES ASSUME NEW p \in Operators, operator'[p].at \in {"deciding", "woken"}
                   PROVE  items'[operator'[p].request].answer = operator'[p].answer
        BY DEF AcceptedAnswerStands, Accepted
      <4>1. CASE p = o
        BY <3>3, <3>4, <4>1
      <4>2. CASE p # o
        <5>1. /\ operator[p].request \in listed /\ operator[p].answer # None
              /\ items[operator[p].request].answer = operator[p].answer
          BY <1>t, <3>4, <4>2 DEF Inv, TypeOK, AcceptedAnswerStands, Accepted
        <5> QED BY <3>1, <3>3, <3>4, <4>2, <5>1
      <4> QED BY <4>1, <4>2
    <3> QED BY <3>5, <3>6, <3>7, <3>8 DEF Inv
  <2> QED BY <2>1, <2>2
<1>14. ASSUME NEW o \in Operators, Wake(o) PROVE Inv'
  <2> DEFINE i == operator[o].request
  <2>1. /\ i \in listed /\ up /\ items[i].answer = operator[o].answer
        /\ operator[o].answer \in Answers /\ operator[o].answer # None /\ i # None
    BY <1>14, <1>t DEF Wake, Inv, TypeOK, AcceptedAnswerStands, Accepted
  <2>2. /\ items' = [items EXCEPT ![i].event = TRUE]
        /\ operator' = [operator EXCEPT ![o].at = "woken"]
        /\ UNCHANGED <<up, crashes, run>>
    BY <1>14 DEF Wake, Turn
  <2>3. /\ operator' \in [Operators -> OperatorType]
        /\ operator'[o].at = "woken" /\ operator'[o].request = i
        /\ operator'[o].answer = operator[o].answer
        /\ \A p \in Operators : p # o => operator'[p] = operator[p]
    BY <1>t, <2>2 DEF OperatorType, OperatorAt
  <2> HIDE DEF i
  <2>4. /\ listed' = listed
        /\ items' \in [listed -> [answer : Answers \cup {None}, event : BOOLEAN]]
        /\ items'[i].answer = items[i].answer /\ items'[i].event = TRUE
        /\ \A j \in listed : j # i => items'[j] = items[j]
    <3>1. items[i] \in [answer : Answers \cup {None}, event : BOOLEAN]
      BY <1>t, <2>1 DEF TypeOK
    <3>2. items'[i] = [items[i] EXCEPT !.event = TRUE]
      BY <1>t, <2>1, <2>2 DEF TypeOK
    <3> QED BY <1>t, <2>1, <2>2, <3>1, <3>2 DEF listed, TypeOK
  <2>5. TypeOK'
    BY <1>t, <2>1, <2>2, <2>3, <2>4 DEF TypeOK, OperatorType, Accepted, request
  <2>6. AnsweredBeforeWoken'
    BY <2>1, <2>4 DEF Inv, AnsweredBeforeWoken
  <2>7. NoLostWakeup'
    BY <2>3, <2>4 DEF Inv, NoLostWakeup, i
  <2>8. AcceptedAnswerStands'
    BY <1>t, <2>1, <2>3, <2>4 DEF Inv, TypeOK, AcceptedAnswerStands, Accepted, i
  <2> QED BY <2>5, <2>6, <2>7, <2>8 DEF Inv
<1>15. ASSUME NEW o \in Operators, Leave(o) PROVE Inv'
  <2>1. Idle \in OperatorType
    BY DEF Idle, OperatorType, OperatorAt
  <2> QED BY <1>15, <2>1, OperatorStep DEF Leave, Idle
<1> QED
  BY <1>0, <1>1, <1>2, <1>3, <1>4, <1>5, <1>6, <1>7, <1>8, <1>9, <1>10, <1>11, <1>12, <1>13,
     <1>14, <1>15 DEF Next

\* Spec keeps the invariant.
LEMMA Invariant == Spec => []Inv
BY InvInit, InvNext, PTL DEF Spec

\* Every variable of the console, the runs and the operators keeps its range.
THEOREM TypeCorrect == Spec => []TypeOK
<1>1. Inv => TypeOK
  BY DEF Inv
<1> QED BY <1>1, Invariant, PTL

\* The assertion of await_resolution holds of every thread, however the writes of
\* resolve interleave with it.
THEOREM AssertionHolds == Spec => []AnsweredBeforeWoken
<1>1. Inv => AnsweredBeforeWoken
  BY DEF Inv
<1> QED BY <1>1, Invariant, PTL

\* No run is left held on an answer that nobody will announce.
THEOREM NoWakeupIsLost == Spec => []NoLostWakeup
<1>1. Inv => NoLostWakeup
  BY DEF Inv
<1> QED BY <1>1, Invariant, PTL

\* Of several operators who answer one request, one is accepted and its answer stays.
THEOREM AnswerStands == Spec => []AcceptedAnswerStands
<1>1. Inv => AcceptedAnswerStands
  BY DEF Inv
<1> QED BY <1>1, Invariant, PTL

(***************************************************************************)
(* The protocol implements HandoffContract                                 *)
(***************************************************************************)
WaitingOn == [r \in Runs |-> IF run[r].at \in Waiting THEN request(r) ELSE None]
DecisionOn == [i \in RequestIds |-> IF i \in listed THEN items[i].answer ELSE None]
GivenTo == [r \in Runs |-> run[r].answer]

\* A step that leaves the items alone, and moves one run without giving it anything,
\* is a stutter of the contract or the loss of that run's wait.
LEMMA RunGoesOn ==
  ASSUME Inv, NEW r \in Runs, UNCHANGED items, run' \in [Runs -> RunType],
         \A s \in Runs : s # r => run'[s] = run[s],
         run'[r].answer = run[r].answer,
         run'[r].at \in Waiting =>
           run[r].at \in Waiting /\ run'[r].handoffs = run[r].handoffs
  PROVE  Contract!Break
<1>1. listed' = listed
  BY DEF listed
<1>2. DecisionOn' = DecisionOn
  BY <1>1 DEF DecisionOn
<1>3. GivenTo' = GivenTo
  BY DEF GivenTo
<1> DEFINE lost == {s \in Runs : run'[s].at \notin Waiting}
<1>4. ASSUME NEW s \in Runs
      PROVE  WaitingOn'[s] = IF s \in lost THEN None ELSE WaitingOn[s]
  <2>1. CASE s = r
    BY <2>1 DEF WaitingOn, request
  <2>2. CASE s # r
    BY <2>2 DEF WaitingOn, request
  <2> QED BY <2>1, <2>2
<1>5. WaitingOn' = [s \in Runs |-> IF s \in lost THEN None ELSE WaitingOn[s]]
  BY <1>4 DEF WaitingOn
<1>6. lost \in SUBSET Runs
  OBVIOUS
<1> QED BY <1>2, <1>3, <1>5, <1>6 DEF Contract!Break, WaitingOn, DecisionOn, GivenTo

\* Every step of the protocol is a step of the contract or a stutter.
LEMMA StepKeepsHandoff == Inv /\ Inv' /\ [Next]_vars => [Contract!Next]_Contract!handoff
<1> SUFFICES ASSUME Inv, Inv', [Next]_vars PROVE [Contract!Next]_Contract!handoff
  OBVIOUS
<1> USE EscalationAssumption
<1>t. /\ TypeOK /\ run \in [Runs -> RunType] /\ operator \in [Operators -> OperatorType]
      /\ run' \in [Runs -> RunType]
  BY DEF Inv, TypeOK, RunType, OperatorType
<1>0. ASSUME UNCHANGED <<items, run>> PROVE UNCHANGED Contract!handoff
  <2>1. listed' = listed
    BY <1>0 DEF listed
  <2>2. WaitingOn' = WaitingOn /\ DecisionOn' = DecisionOn /\ GivenTo' = GivenTo
    BY <1>0, <2>1 DEF WaitingOn, DecisionOn, GivenTo, request
  <2> QED BY <2>2 DEF Contract!handoff, WaitingOn, DecisionOn, GivenTo
<1>1. CASE Crash
  <2>1. PICK cut \in SUBSET Runs :
          run' = [r \in Runs |-> IF run[r].at \in InExchange \/ r \in cut
                                 THEN [run[r] EXCEPT !.at = "dropped"] ELSE run[r]]
    BY <1>1 DEF Crash
  <2>2. listed' = {}
    BY <1>1 DEF Crash, listed
  <2>3. DecisionOn' = [i \in RequestIds |-> None]
    BY <2>2 DEF DecisionOn
  <2> DEFINE lost == {r \in Runs : run[r].at \in InExchange \/ r \in cut}
  <2>4. ASSUME NEW r \in Runs
        PROVE  /\ WaitingOn'[r] = IF r \in lost THEN None ELSE WaitingOn[r]
               /\ GivenTo'[r] = GivenTo[r]
    <3>1. CASE r \in lost
      <4>1. run'[r] = [run[r] EXCEPT !.at = "dropped"] /\ run[r] \in RunType
        BY <1>t, <2>1, <3>1
      <4>2. run'[r].at = "dropped" /\ run'[r].answer = run[r].answer
        BY <4>1 DEF RunType
      <4> QED BY <3>1, <4>2 DEF WaitingOn, GivenTo, Waiting
    <3>2. CASE r \notin lost
      BY <2>1, <3>2 DEF WaitingOn, GivenTo, request
    <3> QED BY <3>1, <3>2
  <2>5. /\ WaitingOn' = [r \in Runs |-> IF r \in lost THEN None ELSE WaitingOn[r]]
        /\ GivenTo' = GivenTo
    BY <2>4 DEF WaitingOn, GivenTo
  <2>6. lost \in SUBSET Runs
    OBVIOUS
  <2> QED
    BY <2>3, <2>5, <2>6 DEF Contract!Next, Contract!Forget, WaitingOn, DecisionOn, GivenTo
<1>2. ASSUME NEW r \in Runs, Escalate(r) PROVE [Contract!Next]_Contract!handoff
  <2>1. /\ run[r].at = "running" /\ run[r] \in RunType /\ items' = items
        /\ run' = [run EXCEPT ![r].at = "posting", ![r].answer = None]
    BY <1>2, <1>t DEF Escalate
  <2>2. run'[r] = [run[r] EXCEPT !.at = "posting", !.answer = None]
        /\ \A s \in Runs : s # r => run'[s] = run[s]
    BY <2>1, <1>t
  <2>3. run'[r].at = "posting" /\ run'[r].answer = None /\ run'[r].handoffs = run[r].handoffs
    <3> DEFINE before == run[r]
    <3>1. before \in [at : RunAt, handoffs : 0 .. MaxHandoffs, answer : Answers \cup {None}]
      BY <2>1 DEF RunType
    <3>2. run'[r] = [before EXCEPT !.at = "posting", !.answer = None]
      BY <2>2
    <3> HIDE DEF before
    <3>3. /\ run'[r].at = "posting" /\ run'[r].answer = None
          /\ run'[r].handoffs = before.handoffs
      BY <3>1, <3>2
    <3> QED BY <3>3 DEF before
  <2>4. request(r)' = request(r) /\ request(r) \in RequestIds
    BY <2>1, <2>3, RequestIsAnId DEF request, RunType
  <2>5. DecisionOn' = DecisionOn
    BY <2>1 DEF DecisionOn, listed
  <2>6. WaitingOn' = [WaitingOn EXCEPT ![r] = request(r)]
    BY <2>2, <2>3, <2>4 DEF WaitingOn, Waiting, request
  <2>7. GivenTo' = [GivenTo EXCEPT ![r] = None]
    BY <2>2, <2>3 DEF GivenTo
  <2>8. WaitingOn[r] = None
    BY <2>1 DEF WaitingOn, Waiting
  <2>9. Contract!Ask(r)
    BY <2>4, <2>5, <2>6, <2>7, <2>8 DEF Contract!Ask, WaitingOn, DecisionOn, GivenTo
  <2> QED BY <2>9 DEF Contract!Next
<1>3. ASSUME NEW r \in Runs, Submit(r) PROVE [Contract!Next]_Contract!handoff
  <2>1. /\ run'[r].at \in {"refused", "created"} /\ run[r].at = "posting"
        /\ run'[r].answer = run[r].answer /\ run'[r].handoffs = run[r].handoffs
        /\ \A s \in Runs : s # r => run'[s] = run[s]
    BY <1>3, <1>t DEF Submit, Move, RunType
  <2>2. WaitingOn' = WaitingOn
    BY <2>1 DEF WaitingOn, Waiting, request
  <2>3. GivenTo' = GivenTo
    BY <2>1 DEF GivenTo
  <2>4. DecisionOn' = DecisionOn
    <3>1. CASE items' = items
      BY <3>1 DEF DecisionOn, listed
    <3>2. CASE /\ request(r) \notin listed
               /\ items' = [i \in listed \cup {request(r)} |->
                              IF i = request(r) THEN [answer |-> None, event |-> FALSE] ELSE items[i]]
      <4> DEFINE i0 == request(r)
      <4>1. listed' = listed \cup {i0} /\ items'[i0].answer = None
            /\ \A i \in listed : items'[i] = items[i]
        BY <3>2 DEF listed
      <4> HIDE DEF i0
      <4>2. \A i \in RequestIds : DecisionOn'[i] = DecisionOn[i]
        BY <3>2, <4>1 DEF DecisionOn, i0
      <4> QED BY <4>2 DEF DecisionOn
    <3> QED BY <1>3, <3>1, <3>2 DEF Submit
  <2> QED BY <2>2, <2>3, <2>4 DEF Contract!handoff, WaitingOn, DecisionOn, GivenTo
<1>4. ASSUME NEW r \in Runs, PostAnswered(r) \/ Lookup(r) \/ Unreachable(r) \/ Resume(r)
      PROVE  [Contract!Next]_Contract!handoff
  <2>1. items' = items
    BY <1>4 DEF PostAnswered, Lookup, Unreachable, Resume
  <2>2. /\ \A s \in Runs : s # r => run'[s] = run[s]
        /\ run'[r].answer = run[r].answer
    BY <1>4, <1>t DEF PostAnswered, Lookup, Unreachable, Resume, Move, RunType
  <2>3. run'[r].at \in Waiting =>
          run[r].at \in Waiting /\ run'[r].handoffs = run[r].handoffs
    BY <1>4, <1>t DEF PostAnswered, Lookup, Unreachable, Resume, Move, RunType, Waiting
  <2> QED BY <1>t, <2>1, <2>2, <2>3, RunGoesOn DEF Contract!Next
<1>5. ASSUME NEW r \in Runs, Release(r) PROVE [Contract!Next]_Contract!handoff
  <2>1. /\ run[r].at = "held" /\ items' = items /\ items[request(r)].event
        /\ run' = [run EXCEPT ![r].at = "answered", ![r].answer = items[request(r)].answer]
    BY <1>5 DEF Release
  <2>2. /\ request(r) \in listed /\ request(r) \in RequestIds
        /\ items[request(r)].answer # None
    BY <1>t, <2>1, RequestIsAnId DEF Inv, TypeOK, AnsweredBeforeWoken, RunType, InExchange
  <2>3. /\ run'[r].at = "answered" /\ run'[r].answer = items[request(r)].answer
        /\ \A s \in Runs : s # r => run'[s] = run[s]
    BY <1>t, <2>1 DEF RunType
  <2>4. DecisionOn' = DecisionOn
    BY <2>1 DEF DecisionOn, listed
  <2>5. /\ WaitingOn[r] = request(r) /\ request(r) # None
        /\ DecisionOn[request(r)] = items[request(r)].answer
    BY <2>1, <2>2, RequestIsAnId DEF WaitingOn, DecisionOn, Waiting
  <2>6. WaitingOn' = [WaitingOn EXCEPT ![r] = None]
    BY <2>3 DEF WaitingOn, Waiting, request
  <2>7. GivenTo' = [GivenTo EXCEPT ![r] = items[request(r)].answer]
    BY <2>3 DEF GivenTo
  <2>8. Contract!Give(r)
    BY <2>2, <2>4, <2>5, <2>6, <2>7 DEF Contract!Give, WaitingOn, DecisionOn, GivenTo
  <2> QED BY <2>8 DEF Contract!Next
<1>6. ASSUME NEW o \in Operators, Decide(o) PROVE [Contract!Next]_Contract!handoff
  <2> DEFINE asked == operator[o].request
             a == operator[o].answer
  <2>1. CASE TooLate(asked)
    BY <1>0, <1>6, <2>1 DEF Decide
  <2>2. CASE ~TooLate(asked)
    <3>0. asked \in RequestIds /\ asked \in listed
      BY <1>6, <1>t, <2>2 DEF Decide, TooLate, TypeOK
    <3>p. PICK i \in RequestIds : i = asked
      BY <3>0
    <3>1. /\ i \in listed /\ items[i].answer = None /\ a \in Answers
          /\ items' = [items EXCEPT ![i].answer = a] /\ run' = run
      BY <1>6, <1>t, <2>2, <3>0, <3>p DEF Decide, TooLate, TypeOK, OperatorType
    <3> HIDE DEF asked, a
    <3>2. /\ listed' = listed /\ items'[i].answer = a
          /\ \A j \in listed : j # i => items'[j] = items[j]
      BY <1>t, <3>1 DEF listed, TypeOK
    <3>3. /\ DecisionOn[i] = None /\ DecisionOn'[i] = a
          /\ \A j \in RequestIds : j # i => DecisionOn'[j] = DecisionOn[j]
      BY <3>1, <3>2 DEF DecisionOn
    <3>4. DecisionOn' = [DecisionOn EXCEPT ![i] = a]
      <4>1. /\ DecisionOn' = [j \in RequestIds |-> DecisionOn'[j]]
            /\ DecisionOn = [j \in RequestIds |-> DecisionOn[j]]
        BY DEF DecisionOn
      <4> QED BY <3>3, <4>1
    <3>5. WaitingOn' = WaitingOn /\ GivenTo' = GivenTo
      BY <3>1 DEF WaitingOn, GivenTo, request
    <3>6. Contract!Decide(i)
      BY <3>1, <3>3, <3>4, <3>5 DEF Contract!Decide, WaitingOn, DecisionOn, GivenTo
    <3> QED BY <3>6 DEF Contract!Next
  <2> QED BY <2>1, <2>2
<1>7. ASSUME NEW o \in Operators, Wake(o) PROVE [Contract!Next]_Contract!handoff
  <2> DEFINE i == operator[o].request
  <2>1. i \in listed /\ items' = [items EXCEPT ![i].event = TRUE] /\ run' = run
    BY <1>7, <1>t DEF Wake, TypeOK, Accepted
  <2> HIDE DEF i
  <2>2. listed' = listed /\ \A j \in listed : items'[j].answer = items[j].answer
    BY <1>t, <2>1 DEF listed, TypeOK
  <2>3. WaitingOn' = WaitingOn /\ GivenTo' = GivenTo /\ DecisionOn' = DecisionOn
    BY <2>1, <2>2 DEF WaitingOn, GivenTo, DecisionOn, request
  <2> QED BY <2>3 DEF Contract!handoff, WaitingOn, DecisionOn, GivenTo
<1>8. ASSUME NEW o \in Operators, PostForm(o) \/ FormRefused(o) \/ Leave(o)
                \/ \E i \in RequestIds, a \in Answers \cup {Malformed} : OpenPage(o, i, a)
      PROVE  [Contract!Next]_Contract!handoff
  BY <1>0, <1>8 DEF PostForm, FormRefused, Leave, OpenPage
<1>9. CASE Restart
  BY <1>0, <1>9 DEF Restart
<1>10. CASE UNCHANGED vars
  BY <1>0, <1>10 DEF vars
<1> QED
  BY <1>1, <1>2, <1>3, <1>4, <1>5, <1>6, <1>7, <1>8, <1>9, <1>10 DEF Next

\* One decision for a request while the console lives, and a paused run is given that
\* decision or none, for any number of runs, operators, handoffs and crashes.
THEOREM EscalationKeepsHandoff == Spec => KeepsHandoff
<1>1. Init => Contract!Init
  <2> SUFFICES ASSUME Init PROVE Contract!Init
    OBVIOUS
  <2>1. listed = {}
    BY DEF Init, listed
  <2> QED BY <2>1 DEF Init, Contract!Init, Waiting
<1> QED BY <1>1, InvInit, InvNext, StepKeepsHandoff, PTL DEF Spec, KeepsHandoff, Contract!Spec
=============================================================================
