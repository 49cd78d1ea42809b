-------------------------- MODULE SurfaceUnderFaults ------------------------
(***************************************************************************)
(* The adapter and the application it looks at: every navigation of the    *)
(* browser is a request to the server of the demo application, which may   *)
(* hang on a fault or answer with one, and brings a document when it is    *)
(* answered.                                                               *)
(***************************************************************************)
EXTENDS Surface

CONSTANTS
  Armings, MaxArms,   \* of the fault register
  MaxTrouble          \* navigations and armings together; an observation more fits in

VARIABLES armed, released, served, clearing, arms, spent

Application == INSTANCE FaultRegister WITH Requests <- Navigation

ASSUME TroubleAssumption ==
  /\ MaxTrouble \in Nat /\ MaxArms \in Nat
  /\ Armings \subseteq Application!Kind \X Application!Mode

faultVars == <<armed, released, served, clearing, arms, spent>>
allVars == <<vars, faultVars>>

InitBoth == Init /\ Application!InitFaults

Trouble == Len(navigations) + arms
Room == Trouble + sequence <= MaxTrouble
RoomForTrouble == Trouble + sequence < MaxTrouble

\* A request is sent as it is issued.
Sends(step) == RoomForTrouble /\ step /\ Application!Arrive(Len(navigations) + 1)
Answered(n) == served[n] \in Application!Answers

Browser ==
  \/ Parses
  \/ \E n \in Navigation : Commit(n) /\ Answered(n)
BrowserFails ==
  \E n \in Navigation : Fails(n) \/ (EndsUnheard(n) /\ Answered(n))
Server == \E n \in Navigation : Application!Serve(n)

\* The caller only observes: what act and capture do to the listeners is the same.
NextBoth ==
  \/ (LocalStep \/ (Room /\ Observe) \/ Browser \/ BrowserFails) /\ UNCHANGED faultVars
  \/ \E f \in Frame : Sends(PageNavigates(f))
  \/ Server /\ UNCHANGED vars
  \/ RoomForTrouble /\ Application!Arming /\ UNCHANGED vars
  \/ Application!Clearing /\ UNCHANGED vars

SpecBoth == InitBoth /\ [][NextBoth]_allVars

\* A caller that observes again and again, as replay's wait does; listeners that are told as
\* long as somebody waits; waits that time out; an adapter's thread, a browser and a server
\* that run.  The harness owes nothing.
FairnessBoth ==
  /\ SF_allVars(Room /\ Observe /\ UNCHANGED faultVars)
  /\ SF_allVars(Listen /\ UNCHANGED faultVars)
  /\ WF_allVars(SettleExpires /\ UNCHANGED faultVars)
  /\ WF_allVars(ObserveStep /\ UNCHANGED faultVars)
  /\ WF_allVars(Browser /\ UNCHANGED faultVars)
  /\ WF_allVars(Server /\ UNCHANGED vars)
FairSpecBoth == SpecBoth /\ FairnessBoth

TypeOKBoth == TypeOK /\ Application!FaultTypeOK
OnceIsSpentOnce == Application!OnceIsSpentOnce

\* A hang ends when it is cleared, and the surface is ready again after any hang, failure or
\* abort: a caller that goes on observing gets every observation it may ask for, unless the
\* timeout stays armed or a navigation ends without an event the adapter listens to.
ReadyInTheEnd ==
  (<>[](armed["timeout"] = "none") /\ [](\A n \in DOMAIN navigations : navigations[n].at # "unheard"))
    => <>(sequence = MaxObservations \/ ~Room)
=============================================================================
