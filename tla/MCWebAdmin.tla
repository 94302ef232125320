------------------------------ MODULE MCWebAdmin ------------------------------
(***************************************************************************)
(* Passkey authentication (WebAuth) and the service commands (WebService)  *)
(* checked in one run.  They share no state, so their interleavings add    *)
(* nothing: Init chooses which of the two moves.                           *)
(***************************************************************************)
EXTENDS WebAuth

CONSTANTS
  Locations,   \* values of the location variables a shell may have
  Elsewhere,   \* those of them with another runtime directory
  Paths        \* values of PATH

\* No shell has the value that marks the absence of a definition.
ASSUME LocationsAssumption == Elsewhere \subseteq Locations /\ "none" \notin Locations

VARIABLES part, manager, file, loaded, running, disabled, session, cmd, report, stale, kept

serviceVars == <<manager, file, loaded, running, disabled, session, cmd, report, stale, kept>>

Managers == {"launchd", "systemd"}
\* The runtime directory alone decides where the control socket is.
SocketOf(loc) == IF loc \in Elsewhere THEN "socket2" ELSE "socket1"

Service == INSTANCE WebService

\* The part that does not move keeps one of its initial states.
MCInit ==
  /\ Init /\ Service!Init
  /\ \/ part = "auth" /\ manager = "launchd"
     \/ part = "service" /\ credential = "none"

MCNext ==
  /\ UNCHANGED part
  /\ \/ part = "auth" /\ Next /\ UNCHANGED serviceVars
     \/ part = "service" /\ Service!Next /\ UNCHANGED vars

MCSpec ==
  /\ MCInit /\ [][MCNext]_<<part, vars, serviceVars>>
  /\ \A r \in Requests : WF_vars(part = "auth" /\ Progress(r) /\ UNCHANGED <<part, serviceVars>>)
  /\ \A s \in Sockets :
       /\ WF_vars(part = "auth" /\ SocketOpen(s) /\ UNCHANGED <<part, serviceVars>>)
       /\ WF_vars(part = "auth" /\ SocketWatch(s) /\ UNCHANGED <<part, serviceVars>>)

\* A register that reports success has taken hold (WebService!RegisterTakesHold),
\* and a stopped supervisor stays down on launchd (WebService!StopHolds).
ServiceObeys == Service!RegisterTakesHold /\ Service!StopHolds

=============================================================================
