------------------------------- MODULE Drain -------------------------------
(***************************************************************************)
(* The end of a test: the drivers are stopped, and                         *)
(* eventually_producer_consumer_matches_test.sh asks the consumer for more *)
(* messages than there are, first of the exactly-once topic, then of the   *)
(* at-least-once topic, before the validator compares the two sides of the *)
(* state-tracker.  A call of the script is over after 30 seconds (curl     *)
(* -m 30), answered or not; the request it made is not.                    *)
(***************************************************************************)
EXTENDS Pipeline

CONSTANTS
  EOCall, AOCall,  \* the requests of the script, of CTasks
  DriverRoutes     \* the routes of the consumer that the drivers call

ASSUME DrainAssumption ==
  /\ EOCall \in CTasks /\ AOCall \in CTasks /\ EOCall # AOCall
  /\ CRoutes = {"exactly_once", "atleast_once"}
  /\ DriverRoutes \subseteq CRoutes

VARIABLE phase  \* "drive", then the lines of the script: "eo", "ao", "check"

drainVars == <<vars, phase>>

DrainInit == Init /\ phase = "drive"

Idle(pc, S) == {h \in S : pc[h] = "idle"}

\* The requests of the consumer that a step starts.
Started == Idle(cPc, CTasks) \ Idle(cPc', CTasks)

\* The drivers are at work, and what can fail fails.
Drive ==
  /\ phase = "drive"
  /\ Next
  /\ \A h \in Started : h \notin {EOCall, AOCall} /\ cRoute'[h] \in DriverRoutes
  /\ UNCHANGED phase

\* The drivers are stopped, with no request of theirs left in the producer.
Stop ==
  /\ phase = "drive" /\ Idle(pPc, PTasks) = PTasks
  /\ phase' = "eo"
  /\ UNCHANGED vars

\* The mutex is first in, first out: the second call of the script does not
\* overtake the first.
InTurn ==
  (cLock # AOCall /\ cLock' = AOCall) => cPc[EOCall] # "waiting"

\* The services go on with what they have been asked; nothing fails any more.
Settling ==
  /\ phase # "drive"
  /\ Next /\ InTurn
  /\ pPc' = pPc /\ Started = {}
  /\ UNCHANGED <<phase, pCrashes, pFaults, cCrashes, cFaults>>

\* Mutant of Ask: the script asks for one message.
AskOne(h, r, line, next) ==
  /\ phase = line
  /\ C!Request(h) /\ cRoute'[h] = r /\ left'[h] = 1
  /\ phase' = next
  /\ UNCHANGED producing

\* A line of the script: request h for MaxRequest messages of route r.
Ask(h, r, line, next) ==
  /\ phase = line
  /\ C!Request(h) /\ cRoute'[h] = r /\ left'[h] = MaxRequest
  /\ phase' = next
  /\ UNCHANGED producing

AskEO == Ask(EOCall, "exactly_once", "eo", "ao")
AskAO == Ask(AOCall, "atleast_once", "ao", "check")

DrainNext == Drive \/ Stop \/ AskEO \/ AskAO \/ Settling

\* Each line of the script is run in its turn; the services run as before,
\* but no request is made.
DrainFairness ==
  /\ WF_drainVars(AskEO) /\ WF_drainVars(AskAO)
  /\ C!Running
  /\ P!Expiring

DrainSpec == DrainInit /\ [][DrainNext]_drainVars /\ DrainFairness
-----------------------------------------------------------------------------
(* Properties                                                              *)

AllConsumed == \A i \in rows : P!Recorded(i) => Consumed(i)

\* README, property 8 (validator, ProducerConsumerMatches), without the 30
\* seconds: once production has stopped and the script has made its requests,
\* everything that was produced gets consumed.
Drained == phase = "check" ~> []AllConsumed
=============================================================================
