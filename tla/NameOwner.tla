------------------------------ MODULE NameOwner ------------------------------
(***************************************************************************)
(* What the socket directory promises of one session id: the name belongs  *)
(* to at most one daemon, a daemon keeps it until it ends, the name passes  *)
(* to the next daemon only through a moment at which nobody has it, and     *)
(* only its owner tells the process that started it that it is ready.      *)
(***************************************************************************)
CONSTANTS
    Daemons,    \* the daemon processes that are started with this session id
    None        \* the name is free

VARIABLES
    owner,      \* the daemon the name leads to, or None
    ended,      \* the daemons that are over, or clearing up
    told        \* the daemons whose starter was told that they are ready

Init ==
    /\ owner = None
    /\ ended \subseteq Daemons
    /\ told = {}

Take(d) ==
    /\ owner = None
    /\ d \notin ended
    /\ owner' = d
    /\ UNCHANGED <<ended, told>>

Tell(d) ==
    /\ owner = d
    /\ d \notin told
    /\ told' = told \cup {d}
    /\ UNCHANGED <<owner, ended>>

\* Killed, or failed: with the name.  Ended by itself: the name goes later.
End(d) ==
    /\ d \notin ended
    /\ ended' = ended \cup {d}
    /\ owner' \in IF owner = d THEN {d, None} ELSE {owner}
    /\ UNCHANGED told

GiveUp(d) ==
    /\ owner = d
    /\ d \in ended
    /\ owner' = None
    /\ UNCHANGED <<ended, told>>

Next == \E d \in Daemons : Take(d) \/ Tell(d) \/ End(d) \/ GiveUp(d)

Spec == Init /\ [][Next]_<<owner, ended, told>>
=============================================================================
