--------------------------- MODULE SessionClients ---------------------------
(***************************************************************************)
(* The clients of one hyoui daemon, as the single-threaded serve loop      *)
(* (daemon/session.rs) keeps them: who is attached, who is the leader, who *)
(* holds the input lock, which handshakes are in flight, and which clients *)
(* are about to be dropped because their send queue was full.              *)
(*                                                                         *)
(* One pass of the loop is a sequence of steps named by `pc', in the order *)
(* of the code: poll, finished handshakes, signals, accept, PTY output,    *)
(* one frame per client in Vec order, and the drop of the clients that     *)
(* are to go.  New clients are pushed at the end of the Vec with ids that  *)
(* only grow, so the Vec is kept as a set of ids and its order is <.       *)
(*                                                                         *)
(* What a client has been told (`seen') is what it knows once it has read  *)
(* everything queued for it: the lock holder, whether it is the leader,    *)
(* and its own mode.                                                       *)
(***************************************************************************)
EXTENDS Naturals, FiniteSets

CONSTANTS
  MaxClientId,        \* bound: ids handed out are 1..MaxClientId (the code counts from 0)
  MaxClients,         \* MAX_CLIENTS_PER_DAEMON
  MaxPending,         \* MAX_PENDING_HANDSHAKES
  Slow,               \* clients whose send queue may be full at an enqueue
  UpgradeMayAbort     \* whether an accepted upgrade may fail its pre-check or exec

ASSUME BoundsAssumption ==
  /\ MaxClientId \in Nat
  /\ MaxClients \in Nat \ {0}
  /\ MaxPending \in Nat \ {0}
  /\ Slow \subseteq 1..MaxClientId
  /\ UpgradeMayAbort \in BOOLEAN

ClientIds == 1..MaxClientId
NoClient == 0
Mode == {"rw", "rw-no-leader", "ro"}
Request == [mode : Mode, exclusive : BOOLEAN, detach_others : BOOLEAN]
View == [lock : ClientIds \cup {NoClient}, lead : BOOLEAN, mode : Mode]
Phase == {"top", "handshakes", "signals", "accept", "output", "frames", "ended"}

VARIABLES
  pc,        \* where the serve loop is
  idle,      \* this pass came out of poll by timeout
  clients,   \* ids in the clients Vec
  mode,      \* ClientHandle.mode
  leader,    \* ids whose ClientHandle.leader is set
  exclusive, \* ids whose handshake asked for --exclusive
  nextId,    \* next_client_id
  holder,    \* LockState.holder (token and process_bound are set with it)
  pending,   \* number of pending_handshakes
  overflow,  \* overflow_ids of this pass
  todo,      \* clients whose frame of this pass is still to be handled
  todrop,    \* indices_to_drop
  ending,    \* should_return is set
  swept,     \* a detach of others/all was accepted in this pass
  seen       \* what each client has been told

vars == <<pc, idle, clients, mode, leader, exclusive, nextId, holder, pending,
          overflow, todo, todrop, ending, swept, seen>>
membership == <<clients, mode, leader, exclusive, nextId, holder, seen>>
pass == <<todo, todrop, ending, swept>>

-----------------------------------------------------------------------------
(* Helpers.                                                                *)

\* Clients that may write: every mode but read-only.
Writers(cs) == {c \in cs : mode[c] # "ro"}

\* The clients among cs whose queue may refuse the next frame.
Full(cs) == SUBSET (cs \cap Slow)

\* The first client of the Vec among a set of candidates.
First(S) == CHOOSE c \in S : \A d \in S : c <= d

\* should_assign_leader: only a plain rw client, and only if nobody leads.
should_assign_leader(m) == m = "rw" /\ clients \cap leader = {}

\* elevate_next_leader over the clients cs that remain, with modes m.
elevate_next_leader(cs, ls, m) ==
  LET rw == {c \in cs : m[c] = "rw"}
  IN IF ls # {} \/ rw = {} THEN ls ELSE {First(rw)}

\* broadcast_control of LeaderNotify: everyone in cs whose queue took it.
LeaderNotify(s, cs, ls) ==
  [c \in ClientIds |-> IF c \in cs THEN [s[c] EXCEPT !.lead = c \in ls] ELSE s[c]]

\* broadcast_control of ModeChange with the lock holder h.
ModeChange(s, cs, h) ==
  [c \in ClientIds |-> IF c \in cs THEN [s[c] EXCEPT !.lock = h] ELSE s[c]]

\* Mutant of ReleaseDetached: the lock outlives its holder.
KeepLockMutant(gone) == holder

\* Lock reducer on ClientDisconnected for every client of gone.
ReleaseDetached(gone) == IF holder \in gone THEN NoClient ELSE holder

\* The cascade shared by both ordinary drop paths: what the clients that stay
\* are told once `gone' has left.  fl and fm are those whose queue refused
\* the LeaderNotify and the ModeChange.
CascadeSeen(s, stay, gone, ls, fl, fm) ==
  LET s1 == IF leader \cap gone # {} THEN LeaderNotify(s, stay \ fl, ls) ELSE s
  IN IF holder \in gone THEN ModeChange(s1, stay \ fm, NoClient) ELSE s1

\* Mutant of CascadeLeader: the next leader is never elevated.
NoElevationMutant(ls, stay, gone, m) == ls \ gone

\* Who is the leader after `gone' has left.
CascadeLeader(ls, stay, gone, m) ==
  IF ls \cap gone # {} THEN elevate_next_leader(stay, ls \ gone, m) ELSE ls

Init ==
  /\ pc = "top" /\ idle = FALSE
  /\ clients = {} /\ leader = {} /\ exclusive = {}
  /\ mode = [c \in ClientIds |-> "ro"]
  /\ nextId = 1 /\ holder = NoClient /\ pending = 0
  /\ overflow = {} /\ todo = {} /\ todrop = {}
  /\ ending = FALSE /\ swept = FALSE
  /\ seen = [c \in ClientIds |-> [lock |-> NoClient, lead |-> FALSE, mode |-> "ro"]]

-----------------------------------------------------------------------------
(* poll and what it may come back with.                                    *)

\* poll reports ready descriptors: a full pass follows.
PollReady ==
  /\ pc = "top"
  /\ pc' = "handshakes" /\ idle' = FALSE /\ overflow' = {}
  /\ swept' = FALSE
  /\ UNCHANGED <<membership, pending, todo, todrop, ending>>

\* poll times out: a stopped child may be observed and announced first
\* (notify_child_stopped), to the writers only.
PollTimeout ==
  /\ pc = "top"
  /\ \E failed \in Full(Writers(clients)) : overflow' = failed
  /\ pc' = "handshakes" /\ idle' = TRUE
  /\ swept' = FALSE
  /\ UNCHANGED <<membership, pending, todo, todrop, ending>>

\* An accepted upgrade fails its pre-check or its exec: serve() enters
\* serve_loop again with the same clients and a fresh DaemonState, and the
\* handshakes in flight are dropped with the old frame.
UpgradeAborted ==
  /\ pc = "top"
  /\ UpgradeMayAbort
  /\ holder' = NoClient
  /\ pending' = 0
  /\ UNCHANGED <<pc, idle, clients, mode, leader, exclusive, nextId, seen,
                 overflow, pass>>

-----------------------------------------------------------------------------
(* process_pending_handshakes.                                             *)

\* A handshake worker failed, vanished or ran into HANDSHAKE_TIMEOUT.
DiscardHandshake ==
  /\ pc = "handshakes"
  /\ pending > 0
  /\ pending' = pending - 1
  /\ UNCHANGED <<pc, idle, membership, overflow, pass>>

\* Mutant of Refused: --exclusive looks at the handshakes in flight only.
RefusedMutant(req) ==
  \/ req.detach_others /\ req.mode = "ro"
  \/ req.exclusive /\ ~req.detach_others /\ pending > 1

\* finalize_accepted_client refuses the request.
Refused(req) ==
  \/ req.detach_others /\ req.mode = "ro"
  \/ /\ req.exclusive /\ ~req.detach_others
     /\ Writers(clients) # {} \/ pending > 1

\* The refused connection never becomes a client.
RefuseHandshake(req) ==
  /\ pc = "handshakes"
  /\ pending > 0
  /\ Refused(req)
  /\ pending' = pending - 1
  /\ UNCHANGED <<pc, idle, membership, overflow, pass>>

\* Mutant of Welcome: a newcomer is not told of a held lock.
WelcomeMutant(id, req, lead, deaf) ==
  [lock |-> NoClient, lead |-> lead, mode |-> req.mode]

\* What the new client is told: its HandshakeResponse, and the lock holder if
\* there is one and its queue takes the second frame.
Welcome(id, req, lead, deaf) ==
  [lock |-> IF id \in deaf THEN NoClient ELSE holder, lead |-> lead, mode |-> req.mode]

\* The finished handshake becomes a client beside the others.
AdmitAlongside(req) ==
  LET id == nextId
      lead == should_assign_leader(req.mode)
  IN /\ pc = "handshakes"
     /\ pending > 0 /\ nextId <= MaxClientId
     /\ ~Refused(req) /\ ~req.detach_others
     /\ pending' = pending - 1
     /\ nextId' = nextId + 1
     /\ clients' = clients \cup {id}
     /\ mode' = [mode EXCEPT ![id] = req.mode]
     /\ leader' = IF lead THEN leader \cup {id} ELSE leader
     /\ exclusive' = IF req.exclusive THEN exclusive \cup {id} ELSE exclusive
     /\ \E deaf \in Full({id}), full \in Full(clients \cup {id}) :
          LET s1 == [seen EXCEPT ![id] = Welcome(id, req, lead, deaf)]
          IN IF lead
             THEN /\ seen' = LeaderNotify(s1, (clients \cup {id}) \ full, {id})
                  /\ overflow' = overflow \cup full
             ELSE /\ seen' = s1
                  /\ UNCHANGED overflow
     /\ UNCHANGED <<pc, idle, holder, pass>>

\* The finished handshake asked for --detach-others: it becomes a client, the
\* handshakes still in flight are dropped, and everyone else is detached with
\* the leader cascade and the release of a lock they held.
AdmitTakingOver(req) ==
  LET id == nextId
      lead == should_assign_leader(req.mode)
      gone == clients
      ls == IF lead THEN leader \cup {id} ELSE leader
      promoted == CascadeLeader(ls, {id}, gone, [mode EXCEPT ![id] = req.mode])
  IN /\ pc = "handshakes"
     /\ pending > 0 /\ nextId <= MaxClientId
     /\ ~Refused(req) /\ req.detach_others
     /\ pending' = 0
     /\ nextId' = nextId + 1
     /\ clients' = {id}
     /\ mode' = [mode EXCEPT ![id] = req.mode]
     /\ leader' = promoted
     /\ exclusive' = IF req.exclusive THEN {id} ELSE {}
     /\ holder' = ReleaseDetached(gone)
     /\ \E deaf \in Full({id}), full \in Full(gone \cup {id}), fl \in Full({id}), fm \in Full({id}) :
          LET s1 == [seen EXCEPT ![id] = Welcome(id, req, lead, deaf)]
              s2 == IF lead THEN LeaderNotify(s1, (gone \cup {id}) \ full, {id}) ELSE s1
              refused == (IF lead THEN full ELSE {})
                         \cup (IF leader \cap gone # {} THEN fl ELSE {})
                         \cup (IF holder \in gone THEN fm ELSE {})
          IN /\ seen' = CascadeSeen(s2, {id}, gone, promoted, fl, fm)
             /\ overflow' = overflow \cup refused
     /\ UNCHANGED <<pc, idle, pass>>

\* No further handshake is ready: go on with the pass.
HandshakesDone ==
  /\ pc = "handshakes"
  /\ ~idle
  /\ pc' = "signals"
  /\ UNCHANGED <<idle, membership, pending, overflow, pass>>

\* The poll-timeout arm ends the pass on its own: clients whose queue was full
\* are removed there, without the Lock reducer and without the leader cascade.
TimeoutDrop ==
  /\ pc = "handshakes"
  /\ idle
  /\ clients' = clients \ overflow
  /\ leader' = leader \ overflow
  /\ exclusive' = exclusive \ overflow
  /\ overflow' = {}
  /\ pc' = "top"
  /\ UNCHANGED <<idle, mode, nextId, holder, pending, seen, pass>>

-----------------------------------------------------------------------------
(* The rest of a full pass.                                                *)

\* SIGCHLD: a stop of the child is announced to the writers.
Signals ==
  /\ pc = "signals"
  /\ \E failed \in Full(Writers(clients)) : overflow' = overflow \cup failed
  /\ pc' = "accept"
  /\ UNCHANGED <<idle, membership, pending, pass>>

\* A new connection below both limits gets a handshake worker.
Accept ==
  /\ pc = "accept"
  /\ Cardinality(clients) < MaxClients /\ pending < MaxPending
  /\ pending' = pending + 1
  /\ pc' = "output"
  /\ UNCHANGED <<idle, membership, overflow, pass>>

\* At a limit the connection is closed and the pass is over (`continue').
AcceptRefused ==
  /\ pc = "accept"
  /\ Cardinality(clients) >= MaxClients \/ pending >= MaxPending
  /\ overflow' = {}
  /\ pc' = "top"
  /\ UNCHANGED <<idle, membership, pending, pass>>

\* The listener was not ready.
NoConnection ==
  /\ pc = "accept"
  /\ pc' = "output"
  /\ UNCHANGED <<idle, membership, pending, overflow, pass>>

\* PTY output is broadcast, then one frame is received from each readable
\* client, and the clients whose queue was full are marked to be dropped.
OutputAndReceive ==
  /\ pc = "output"
  /\ \E full \in Full(clients), ready \in SUBSET clients :
       /\ todrop' = (overflow \cup full) \cap clients
       /\ todo' = ready
  /\ overflow' = {}
  /\ pc' = "frames"
  /\ UNCHANGED <<idle, clients, mode, leader, exclusive, nextId, holder, seen,
                 pending, ending, swept>>

-----------------------------------------------------------------------------
(* handle_client_frame: the frame of client c, the next one in Vec order.  *)

Handling(c) == pc = "frames" /\ todo # {} /\ c = First(todo)

\* End of the connection, a malformed frame, detach myself, or raw input the
\* PTY could not take: the client is to be dropped.
FrameDrop(c) ==
  /\ Handling(c)
  /\ todo' = todo \ {c}
  /\ todrop' = todrop \cup {c}
  /\ UNCHANGED <<pc, idle, membership, pending, overflow, ending, swept>>

\* Frames that change nothing kept here, and every frame that is refused.
FrameIgnored(c) ==
  /\ Handling(c)
  /\ todo' = todo \ {c}
  /\ UNCHANGED <<pc, idle, membership, pending, overflow, todrop, ending, swept>>

\* Mutant of DetachTarget: handshakes in flight are not cancelled.
DetachKeepsPendingMutant(c, all) ==
  /\ Handling(c)
  /\ mode[c] # "ro"
  /\ todo' = todo \ {c}
  /\ todrop' = todrop \cup (IF all THEN clients ELSE clients \ {c})
  /\ swept' = TRUE
  /\ UNCHANGED <<pc, idle, membership, pending, overflow, ending>>

\* handle_detach_target for others (all = FALSE) or all.
DetachTarget(c, all) ==
  /\ Handling(c)
  /\ mode[c] # "ro"
  /\ todo' = todo \ {c}
  /\ todrop' = todrop \cup (IF all THEN clients ELSE clients \ {c})
  /\ pending' = 0
  /\ swept' = TRUE
  /\ UNCHANGED <<pc, idle, membership, overflow, ending>>

\* handle_leader_request: take_leader makes c the only leader, and a
\* rw-no-leader client becomes rw.  Who refused the broadcast is forgotten.
LeaderRequest(c) ==
  /\ Handling(c)
  /\ mode[c] # "ro"
  /\ c \notin leader
  /\ todo' = todo \ {c}
  /\ mode' = [mode EXCEPT ![c] = "rw"]
  /\ leader' = {c}
  /\ \E deaf \in Full({c}), full \in Full(clients) :
       LET s1 == [seen EXCEPT ![c].mode = IF c \in deaf THEN @ ELSE "rw"]
       IN seen' = LeaderNotify(s1, clients \ full, {c})
  /\ UNCHANGED <<pc, idle, clients, exclusive, nextId, holder, pending, overflow,
                 todrop, ending, swept>>

\* handle_lock_acquire on a free lock; the overflow of the broadcast is lost.
LockAcquire(c) ==
  /\ Handling(c)
  /\ mode[c] # "ro"
  /\ holder = NoClient
  /\ todo' = todo \ {c}
  /\ holder' = c
  /\ \E full \in Full(clients) : seen' = ModeChange(seen, clients \ full, c)
  /\ UNCHANGED <<pc, idle, clients, mode, leader, exclusive, nextId, pending,
                 overflow, todrop, ending, swept>>

\* handle_lock_release by the holder with its token.
LockRelease(c) ==
  /\ Handling(c)
  /\ holder = c
  /\ todo' = todo \ {c}
  /\ holder' = NoClient
  /\ \E full \in Full(clients) : seen' = ModeChange(seen, clients \ full, NoClient)
  /\ UNCHANGED <<pc, idle, clients, mode, leader, exclusive, nextId, pending,
                 overflow, todrop, ending, swept>>

\* handle_kill with wait: the remaining frames are skipped, the drops still
\* happen, then serve_loop returns.
KillWait(c) ==
  /\ Handling(c)
  /\ mode[c] = "rw"
  /\ ending' = TRUE
  /\ todo' = {}
  /\ UNCHANGED <<pc, idle, membership, pending, overflow, todrop, swept>>

\* The drop cascade: remove, release a lock they held, elevate the next
\* leader, tell the others.  Who refused those broadcasts is forgotten.
DropClients ==
  LET stay == clients \ todrop
      ls == CascadeLeader(leader, stay, todrop, mode)
  IN /\ pc = "frames"
     /\ todo = {}
     /\ clients' = stay
     /\ leader' = ls
     /\ exclusive' = exclusive \ todrop
     /\ holder' = ReleaseDetached(todrop)
     /\ \E fl \in Full(stay), fm \in Full(stay) :
          seen' = CascadeSeen(seen, stay, todrop, ls, fl, fm)
     /\ todrop' = {}
     /\ pc' = IF ending THEN "ended" ELSE "top"
     /\ UNCHANGED <<idle, mode, nextId, pending, overflow, todo, ending, swept>>

-----------------------------------------------------------------------------
Handshake ==
  \/ DiscardHandshake
  \/ \E req \in Request : RefuseHandshake(req)
  \/ \E req \in Request : AdmitAlongside(req)
  \/ \E req \in Request : AdmitTakingOver(req)

ClientFrame ==
  \E c \in ClientIds :
    \/ FrameDrop(c)
    \/ FrameIgnored(c)
    \/ \E all \in BOOLEAN : DetachTarget(c, all)
    \/ LeaderRequest(c)
    \/ LockAcquire(c)
    \/ LockRelease(c)
    \/ KillWait(c)

Next ==
  \/ PollReady \/ PollTimeout \/ UpgradeAborted
  \/ Handshake \/ HandshakesDone \/ TimeoutDrop
  \/ Signals \/ Accept \/ AcceptRefused \/ NoConnection
  \/ OutputAndReceive \/ ClientFrame \/ DropClients

Spec == Init /\ [][Next]_vars

-----------------------------------------------------------------------------
(* Properties.                                                             *)

\* Every variable keeps its type.
TypeOK ==
  /\ pc \in Phase /\ idle \in BOOLEAN
  /\ clients \subseteq ClientIds /\ leader \subseteq ClientIds
  /\ exclusive \subseteq ClientIds
  /\ mode \in [ClientIds -> Mode]
  /\ nextId \in 1..(MaxClientId + 1)
  /\ holder \in ClientIds \cup {NoClient}
  /\ pending \in 0..MaxPending
  /\ overflow \subseteq ClientIds /\ todo \subseteq ClientIds /\ todrop \subseteq ClientIds
  /\ ending \in BOOLEAN /\ swept \in BOOLEAN
  /\ seen \in [ClientIds -> View]

\* There is never more than one leader, and the leader is an attached rw
\* client, whatever attaches, takeovers and drops have happened
\* (should_assign_leader, elevate_next_leader, take_leader).
SoleLeader ==
  /\ \A c, d \in leader : c = d
  /\ leader \subseteq {c \in clients : mode[c] = "rw"}

\* As long as an rw client is attached somebody leads: whoever goes, the
\* cascade finds the next one, so the terminal can still be resized.  The
\* poll-timeout arm drops a slow leader without a cascade, so this is promised
\* until a slow client has been admitted.
LeaderPresent ==
  \/ \E c \in Slow : c < nextId
  \/ (\E c \in clients : mode[c] = "rw") => leader # {}

\* The lock is only ever held by an attached client that may write: a holder
\* that goes, by whatever path, releases it (process-bound GC, lock.rs).  Only
\* a slow holder, dropped by the poll-timeout arm, can leave it behind.
LockHolderAttached == holder \notin Slow \cup {NoClient} => holder \in Writers(clients)

\* Two clients that both asked for --exclusive and may write are never
\* attached together, although handshakes finish in any order.
SoleExclusiveWriter ==
  \A c, d \in exclusive \cap Writers(clients) : c = d

\* A client that always reads knows in every state of the loop whether it
\* leads, its own mode, and who holds the lock while it is held: no LeaderNotify
\* and no mode.change is missing on any path, so no two clients both believe
\* that they hold the lock.  (After an aborted upgrade the lock is free and the
\* clients are not told.)
ViewsAgree ==
  \A c \in clients \ Slow :
    /\ seen[c].lead = (c \in leader) /\ seen[c].mode = mode[c]
    /\ holder # NoClient => seen[c].lock = holder

\* After a pass in which `detach' of others or all was accepted, at most the
\* client that asked is left and no handshake that was in flight survives.
SweptClean ==
  pc = "top" /\ swept => Cardinality(clients) <= 1 /\ pending = 0

\* The lock changes hands only through its holder: from a holder it goes to
\* nobody, and only when the holder leaves or its own frame is handled.
LockNotStolen ==
  [][holder # NoClient /\ holder' # holder =>
       /\ holder' = NoClient
       /\ holder \notin clients' \/ (pc = "frames" /\ todo # {} /\ holder = First(todo))]_vars

\* A leader that stays attached loses the role only to a client whose own
\* frame (leader.request) is being handled; an attach never takes it.
LeaderNotStolen ==
  [][\A c \in leader \cap clients' :
       c \in leader' \/ (pc = "frames" /\ todo # {} /\ leader' = {First(todo)})]_vars

=============================================================================
