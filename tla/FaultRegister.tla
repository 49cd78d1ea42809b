---------------------------- MODULE FaultRegister ---------------------------
(***************************************************************************)
(* The fault register of the demo application (app/faults.py): a harness   *)
(* arms and clears faults while page requests, a thread each, pass through *)
(* inject_faults, hanging on one fault and answered by the others.         *)
(***************************************************************************)
EXTENDS Naturals, Sequences

CONSTANTS
  Requests,     \* the page requests there can be
  Armings,      \* the faults the harness arms, as <<kind, mode>>
  MaxArms       \* how often it arms one

Kind == {"session_expired", "maintenance_notice", "timeout"}
Mode == {"once", "until_cleared"}

VARIABLES
  armed,        \* _armed: the mode a kind is armed in, or "none"
  released,     \* the Event of the timeout is set; nobody waits on the other two
  served,       \* how far each request is, or what it was answered
  clearing,     \* what clear_all has still to clear
  arms,         \* ghost: how often a fault was armed
  spent         \* ghost: requests answered by the "once" arming a kind has or had last

faultVars == <<armed, released, served, clearing, arms, spent>>

Answers == {"expired", "notice", "page"}
Stage == {"unsent", "hold", "holding", "parked", "expiry?", "notice?"} \cup Answers

InitFaults ==
  /\ armed = [k \in Kind |-> "none"] /\ released = FALSE
  /\ served = [r \in Requests |-> "unsent"] /\ clearing = <<>>
  /\ arms = 0 /\ spent = [k \in Kind |-> 0]

Goes(r, stage) == served' = [served EXCEPT ![r] = stage]

(***************************************************************************)
(* inject_faults, for one request: hold, then consume twice                *)
(***************************************************************************)
Arrive(r) ==
  /\ served[r] = "unsent" /\ Goes(r, "hold")
  /\ UNCHANGED <<armed, released, clearing, arms, spent>>

\* Under the lock: is it armed?  The Event is waited on outside it.
Hold(r) ==
  /\ served[r] = "hold"
  /\ Goes(r, IF armed["timeout"] = "none" THEN "expiry?" ELSE "holding")
  /\ UNCHANGED <<armed, released, clearing, arms, spent>>

\* Event.wait: a set Event does not hold; a request found parked by set() goes on, even
\* when the Event is reset before it runs.
Wait(r) ==
  /\ served[r] = "holding" /\ Goes(r, IF released THEN "expiry?" ELSE "parked")
  /\ UNCHANGED <<armed, released, clearing, arms, spent>>

Spend(r, kind, answer) ==
  /\ Goes(r, answer)
  /\ armed' = IF armed[kind] = "once" THEN [armed EXCEPT ![kind] = "none"] ELSE armed
  /\ spent' = IF armed[kind] = "once" THEN [spent EXCEPT ![kind] = @ + 1] ELSE spent

\* Without the lock: what was looked up is acted on later.
consume_unlocked(r, at, kind, answer, next) ==
  \/ served[r] = at /\ armed[kind] = "none" /\ Goes(r, next) /\ UNCHANGED <<armed, spent>>
  \/ served[r] = at /\ armed[kind] # "none" /\ Goes(r, "found " \o at) /\ UNCHANGED <<armed, spent>>
  \/ /\ served[r] = "found " \o at /\ Goes(r, answer)
     /\ armed' = [armed EXCEPT ![kind] = "none"] /\ spent' = [spent EXCEPT ![kind] = @ + 1]

\* An armed kind answers the request, a "once" arming for the last time.
consume(r, at, kind, answer, next) ==
  /\ served[r] = at
  /\ IF armed[kind] = "none" THEN Goes(r, next) /\ UNCHANGED <<armed, spent>>
                             ELSE Spend(r, kind, answer)

FaceExpiry(r) ==
  /\ consume(r, "expiry?", "session_expired", "expired", "notice?")
  /\ UNCHANGED <<released, clearing, arms>>
FaceNotice(r) ==
  /\ consume(r, "notice?", "maintenance_notice", "notice", "page")
  /\ UNCHANGED <<released, clearing, arms>>

Serve(r) == Hold(r) \/ Wait(r) \/ FaceExpiry(r) \/ FaceNotice(r)

(***************************************************************************)
(* /__faults: each handler on a thread of its own                          *)
(***************************************************************************)
Arm(kind, mode) ==
  /\ arms < MaxArms /\ arms' = arms + 1
  /\ armed' = [armed EXCEPT ![kind] = mode] /\ spent' = [spent EXCEPT ![kind] = 0]
  /\ released' = IF kind = "timeout" THEN FALSE ELSE released
  /\ UNCHANGED <<served, clearing>>

\* Without setting the Event.
clear_quietly(kind) ==
  /\ armed' = [armed EXCEPT ![kind] = "none"]
  /\ UNCHANGED <<released, served>>

\* set() lets every parked request go.
clear(kind) ==
  /\ armed' = [armed EXCEPT ![kind] = "none"]
  /\ IF kind = "timeout"
     THEN /\ released' = TRUE
          /\ served' = [r \in Requests |-> IF served[r] = "parked" THEN "expiry?" ELSE served[r]]
     ELSE UNCHANGED <<released, served>>

Clear(kind) ==
  /\ armed[kind] # "none" /\ clear(kind) /\ UNCHANGED <<clearing, arms, spent>>

\* clear_all: one kind after the other, requests and other handlers in between.
ClearAll ==
  /\ clearing = <<>> /\ \E k \in Kind : armed[k] # "none"
  /\ clearing' = <<"session_expired", "maintenance_notice", "timeout">>
  /\ UNCHANGED <<armed, released, served, arms, spent>>
ClearNext ==
  /\ clearing # <<>> /\ clear(Head(clearing)) /\ clearing' = Tail(clearing)
  /\ UNCHANGED <<arms, spent>>

Arming == \E a \in Armings : Arm(a[1], a[2])
Clearing == (\E kind \in Kind : Clear(kind)) \/ ClearAll \/ ClearNext

(***************************************************************************)
(* Properties                                                              *)
(***************************************************************************)
\* Every variable keeps its range, and a request hangs only while the timeout is armed.
FaultTypeOK ==
  /\ armed \in [Kind -> Mode \cup {"none"}] /\ released \in BOOLEAN
  /\ served \in [Requests -> Stage] /\ clearing \in Seq(Kind)
  /\ arms \in 0 .. MaxArms /\ spent \in [Kind -> Nat]
  /\ \A r \in Requests : served[r] = "parked" => ~released /\ armed["timeout"] # "none"

\* consume: a fault armed once answers one request, however many requests look at it, hang
\* before it or are released towards it together, and however often it is armed again.
OnceIsSpentOnce == \A kind \in Kind : spent[kind] <= 1
=============================================================================
