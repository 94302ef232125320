----------------------------- MODULE MCCommands -----------------------------
(***************************************************************************)
(* The commands of hyoui in one run, from the line that is typed: what the *)
(* parser makes of it (CommandLine), which session it is for               *)
(* (SessionTarget, under the names of TargetChoice) and what becomes of it *)
(* (ClientCommands).  A command is chosen only after its line is parsed    *)
(* and connects only after it has chosen, and the parts share no state, so *)
(* Init decides which moves.                                               *)
(***************************************************************************)
EXTENDS ClientCommands, TargetChoice, CommandLine

VARIABLE part

\* The part that does not move keeps one of its initial states.
MCInit ==
  /\ Init /\ Choice!Init /\ LineInit
  /\ part \in {"line", "choice", "command"}
  /\ part # "line" => by = "help" /\ inside
  /\ part # "choice" => verb = "list" /\ env = 0 /\ dirOk /\ was = {}
  /\ part # "command" =>
        /\ cmd = "status" /\ arg = [good |-> TRUE, caps |-> TRUE, lockfile |-> TRUE] /\ ~others

MCNext ==
  /\ UNCHANGED part
  /\ \/ part = "line" /\ LineNext /\ UNCHANGED <<vars, targetVars>>
     \/ part = "choice" /\ Choice!Next /\ UNCHANGED <<vars, lineVars>>
     \/ part = "command" /\ Next /\ UNCHANGED <<targetVars, lineVars>>

MCSpec ==
  /\ MCInit /\ [][MCNext]_<<part, vars, targetVars, lineVars>>
  /\ WF_vars(part = "command" /\ Proceed /\ UNCHANGED <<part, targetVars, lineVars>>)
  /\ WF_vars(part = "command" /\ Daemon /\ UNCHANGED <<part, targetVars, lineVars>>)
  /\ \A w \in 1 .. Cardinality(Requesters) :
       WF_targetVars(/\ part = "choice" /\ w \in DOMAIN work
                     /\ Choice!Lookup(w) \/ Choice!Remove(w) \/ Choice!Deliver(w)
                     /\ UNCHANGED <<part, vars, lineVars>>)

\* Against a daemon that keeps running every command ends (or holds its lock):
\* whatever other clients, upgrades and the child do, an answer, the end of the
\* connection or a deadline reaches it.  Only upgrade can be left in a read without
\* a deadline, by output of the child after an exec that failed.  A lock that was
\* granted does not outlive its command, whichever way it ended.  Every request of
\* the gateway for a session is answered, also when the lookup it joined panicked.
CommandsEnd ==
  LET pending == (part = "command" /\ Unfinished) \/ Choice!Waiting
  IN []<>~pending

=============================================================================
