------------------------------- MODULE WebAuth -------------------------------
(***************************************************************************)
(* Passkey authentication of hyoui-web (auth/): concurrent /auth requests  *)
(* over the two state files, the refresh families, the revocation signal   *)
(* and the authentication a WebSocket attach holds.  auth.json and         *)
(* pending.json are each read, changed and replaced under their own lock   *)
(* (StateFile::update), so one update is one step; a request that touches  *)
(* both takes one step for each, and the gateway may be restarted between  *)
(* them.  Tokens are generation numbers, time is abstract: a lifetime may  *)
(* end at any moment.  Cryptographic verification is a choice.             *)
(***************************************************************************)
EXTENDS Naturals, FiniteSets

CONSTANTS
  Requests,    \* requests that may be in progress at once
  Sockets,     \* WebSocket attaches
  CodeLimit,   \* CODE_ATTEMPT_LIMIT
  MaxChallenges, MaxFamilies, MaxRotations  \* bounds on ids handed out

ASSUME BoundsAssumption ==
  CodeLimit \in Nat \ {0} /\ MaxChallenges \in Nat /\ MaxFamilies \in Nat /\ MaxRotations \in Nat

VARIABLES
  reg,         \* pending.json: the registration, [st, wrong]
  challenges,  \* pending.json: live challenges, [id, purpose]
  issued,      \* challenge ids handed out
  credential,  \* auth.json: "none", "live", "tombstoned"
  families,    \* auth.json: function from id to FamilyRecord
  req,         \* request in progress: [pc, chal], its challenge or the family to tell of
  ws,          \* WsAuth of each socket: [pc, family, signal]
  guesses,     \* wrong codes that were compared so far
  mintedBy     \* challenges that minted a family, one entry per family

pending == <<reg, challenges, issued>>
auth == <<credential, families>>
vars == <<pending, auth, req, ws, guesses, mintedBy>>

IdleReq == [pc |-> "idle", chal |-> 0]
FreshRegistration == [st |-> "live", wrong |-> 0]   \* PendingRegistration
NoSocket == [pc |-> "none", family |-> 0, signal |-> FALSE]

Init ==
  /\ \/ reg = FreshRegistration /\ credential = "none"
     \/ reg = [FreshRegistration EXCEPT !.st = "expired"] /\ credential = "live"
  /\ challenges = {} /\ issued = 0 /\ families = <<>>
  /\ req = [r \in Requests |-> IdleReq]
  /\ ws = [s \in Sockets |-> NoSocket]
  /\ guesses = 0 /\ mintedBy = <<>>

Step(r, from, to) == req[r].pc = from /\ req' = [req EXCEPT ![r] = to]
Waiting(pc, c) == [IdleReq EXCEPT !.pc = pc, !.chal = c]

Ids == DOMAIN families
\* (`untold' is no field of the program: the notification was never sent.)
FreshFamily == [tomb |-> FALSE, reused |-> FALSE, untold |-> FALSE, ref |-> 0]

\* mint: a new family, and the challenge that stands behind it.
Mint(c) ==
  /\ Cardinality(Ids) < MaxFamilies
  /\ families' = [i \in 1..(Cardinality(Ids) + 1) |-> IF i \in Ids THEN families[i] ELSE FreshFamily]
  /\ mintedBy' = [i \in 1..(Cardinality(Ids) + 1) |-> IF i \in Ids THEN mintedBy[i] ELSE c]

\* find_live_credential_mut, live_credentials: not a tombstoned one.
LiveCredential == credential = "live"
InsertCredential == credential' = "live"

\* holds_live_access: the token of a family that is not tombstoned.
HoldsAccess(i) == i \in Ids /\ ~families[i].tomb

\* PendingFile::challenge: the purpose must agree.
LiveChallenge(c, purpose) == c \in challenges /\ c.purpose = purpose

\* consume_challenge: gone, if it was still there.
ConsumeChallenge(id) == challenges' = {c \in challenges : c.id # id}

-----------------------------------------------------------------------------
(* /auth/challenge                                                         *)

Challenge(r, purpose) ==
  /\ req[r].pc = "idle" /\ issued < MaxChallenges
  /\ IF purpose = "assert" THEN LiveCredential ELSE reg.st = "live"
  /\ issued' = issued + 1
  /\ challenges' = challenges \cup {[id |-> issued + 1, purpose |-> purpose]}
  /\ UNCHANGED <<reg, auth, req, ws, guesses, mintedBy>>

\* sweep_expired: a challenge or the registration has outlived its time.
ChallengeExpires ==
  /\ \E c \in challenges : challenges' = challenges \ {c}
  /\ UNCHANGED <<reg, issued, auth, req, ws, guesses, mintedBy>>

RegistrationExpires ==
  /\ reg.st = "live"
  /\ reg' = [FreshRegistration EXCEPT !.st = "expired"]
  /\ UNCHANGED <<challenges, issued, auth, req, ws, guesses, mintedBy>>

-----------------------------------------------------------------------------
(* /auth/register                                                          *)

\* check_code with a wrong code: counted in the same update, burned at the limit.
WrongCode ==
  reg' = [st |-> IF reg.wrong + 1 >= CodeLimit THEN "burned" ELSE "live", wrong |-> reg.wrong + 1]

\* The first update of register_blocking, wrong code.
RegisterDenied(r) ==
  /\ reg.st = "live"
  /\ Step(r, "idle", IdleReq)
  /\ WrongCode
  /\ guesses' = guesses + 1
  /\ UNCHANGED <<challenges, issued, auth, ws, mintedBy>>

\* The first update, right code and a challenge of this registration: nothing
\* is consumed yet.
RegisterAccepted(r, c) ==
  /\ reg.st = "live" /\ LiveChallenge(c, "register")
  /\ Step(r, "idle", Waiting("verify", c.id))
  /\ UNCHANGED <<pending, auth, ws, guesses, mintedBy>>

\* finish_registration fails: the registration can be tried again.
RegisterUnverified(r) ==
  /\ Step(r, "verify", IdleReq)
  /\ UNCHANGED <<pending, auth, ws, guesses, mintedBy>>

\* The credential is stored and a family minted in one update of auth.json.
RegisterStore(r) ==
  /\ Step(r, "verify", [req[r] EXCEPT !.pc = "consume"])
  /\ InsertCredential
  /\ Mint([id |-> req[r].chal, by |-> req[r].pc])
  /\ UNCHANGED <<pending, ws, guesses>>

\* The last update: registration and challenge are consumed, if still there.
RegisterConsume(r) ==
  /\ Step(r, "consume", IdleReq)
  /\ reg' = IF reg.st = "live" THEN [FreshRegistration EXCEPT !.st = "used"] ELSE reg
  /\ ConsumeChallenge(req[r].chal)
  /\ UNCHANGED <<issued, auth, ws, guesses, mintedBy>>

-----------------------------------------------------------------------------
(* /auth/assert                                                            *)

\* Mutant of AssertConsume: the challenge is looked up and left in place.
AssertPeekMutant(r, c) ==
  /\ LiveChallenge(c, "assert")
  /\ Step(r, "idle", Waiting("assert", c.id))
  /\ UNCHANGED <<pending, auth, ws, guesses, mintedBy>>

\* The challenge is consumed before anything is verified.
AssertConsume(r, c) ==
  /\ LiveChallenge(c, "assert")
  /\ Step(r, "idle", Waiting("assert", c.id))
  /\ ConsumeChallenge(c.id)
  /\ UNCHANGED <<reg, issued, auth, ws, guesses, mintedBy>>

\* find_live_credential_mut and finish_authentication, then a family.
AssertMint(r) ==
  /\ LiveCredential
  /\ Step(r, "assert", IdleReq)
  /\ Mint([id |-> req[r].chal, by |-> req[r].pc])
  /\ UNCHANGED <<pending, credential, ws, guesses>>

AssertDenied(r) ==
  /\ Step(r, "assert", IdleReq)
  /\ UNCHANGED <<pending, auth, ws, guesses, mintedBy>>

-----------------------------------------------------------------------------
(* /auth/refresh with a cookie of generation g.                            *)

\* classify_refresh: the last retired token is a replay for
\* REFRESH_REPLAY_GRACE_MS, which may or may not be over.
Classify(f, g) ==
  IF g = f.ref THEN {"current"} ELSE IF g + 1 = f.ref THEN {"replay", "reused"} ELSE {"reused"}

\* rotate_refresh, nothing, or the tombstone.
Refreshed(f, outcome) ==
  CASE outcome = "current" -> [f EXCEPT !.ref = @ + 1]
    [] outcome = "replay" -> f
    [] outcome = "reused" -> [f EXCEPT !.tomb = TRUE, !.reused = TRUE]

\* refresh_blocking; a reused token leaves the notification to post_refresh.
Refresh(r, i, g) ==
  /\ i \in Ids /\ g <= families[i].ref /\ ~families[i].tomb
  /\ g = families[i].ref => g < MaxRotations
  /\ \E outcome \in Classify(families[i], g) :
       /\ Step(r, "idle", IF outcome = "reused" THEN Waiting("notify", i) ELSE IdleReq)
       /\ families' = [families EXCEPT ![i] = Refreshed(@, outcome)]
  /\ UNCHANGED <<pending, credential, ws, guesses, mintedBy>>

\* RevocationSignal::notify.
Notify(r) ==
  /\ Step(r, "notify", IdleReq)
  /\ ws' = [s \in Sockets |-> IF ws[s].pc = "open" THEN [ws[s] EXCEPT !.signal = TRUE] ELSE ws[s]]
  /\ UNCHANGED <<pending, auth, guesses, mintedBy>>

\* Its client is gone before the blocking update has answered: the future of post_refresh
\* is dropped where it awaits, the update is still done, and nobody is notified.
Abandoned(r) ==
  /\ families' = [families EXCEPT ![req[r].chal].untold = TRUE]
  /\ Step(r, "notify", IdleReq)
  /\ UNCHANGED <<pending, credential, ws, guesses, mintedBy>>

\* tombstone_sub: the credential and every family of its owner.
TombstoneSub ==
  /\ credential' = "tombstoned"
  /\ families' = [i \in Ids |-> [families[i] EXCEPT !.tomb = TRUE]]

\* hyoui web passkey remove and hyoui web session remove run in a process of
\* their own: nobody is notified.
RevokeSub ==
  /\ LiveCredential
  /\ TombstoneSub
  /\ UNCHANGED <<pending, req, ws, guesses, mintedBy>>

SessionRemove(i) ==
  /\ i \in Ids /\ ~families[i].tomb
  /\ families' = [families EXCEPT ![i].tomb = TRUE]
  /\ UNCHANGED <<pending, credential, req, ws, guesses, mintedBy>>

-----------------------------------------------------------------------------
(* WebSockets.                                                             *)

\* require_auth: the access token of a live family.
SocketRequest(s, i) ==
  /\ ws[s].pc = "none" /\ HoldsAccess(i)
  /\ ws' = [ws EXCEPT ![s] = [pc |-> "authorized", family |-> i, signal |-> FALSE]]
  /\ UNCHANGED <<pending, auth, req, guesses, mintedBy>>

\* Mutant of SocketOpen: the subscription does not start as changed.
SocketOpenUnmarkedMutant(s) ==
  /\ ws[s].pc = "authorized"
  /\ ws' = [ws EXCEPT ![s].pc = "open"]
  /\ UNCHANGED <<pending, auth, req, guesses, mintedBy>>

\* WsAuth::new: subscribe and mark_changed, so that a revocation between the
\* middleware and here is seen.
SocketOpen(s) ==
  /\ ws[s].pc = "authorized"
  /\ ws' = [ws EXCEPT ![s].pc = "open", ![s].signal = TRUE]
  /\ UNCHANGED <<pending, auth, req, guesses, mintedBy>>

\* lost(): a signal makes it read the family again.
SocketWatch(s) ==
  /\ ws[s].pc = "open" /\ ws[s].signal
  /\ ws' = [ws EXCEPT ![s] = IF families[ws[s].family].tomb THEN NoSocket
                             ELSE [@ EXCEPT !.signal = FALSE]]
  /\ UNCHANGED <<pending, auth, req, guesses, mintedBy>>

\* extend_at: a tombstoned family or a token that is not the live one ends the
\* attach; otherwise its deadline moves.
SocketExtendFails(s) ==
  /\ ws[s].pc = "open"
  /\ ws' = [ws EXCEPT ![s] = NoSocket]
  /\ UNCHANGED <<pending, auth, req, guesses, mintedBy>>

\* The deadline, or the end of the attach for another reason.
SocketEnds(s) ==
  /\ ws[s].pc # "none"
  /\ ws' = [ws EXCEPT ![s] = NoSocket]
  /\ UNCHANGED <<pending, auth, req, guesses, mintedBy>>

-----------------------------------------------------------------------------
\* The gateway dies between two steps of a request and is started again; the
\* files stay.  Nothing can tell how long it was down.
Restart ==
  /\ req' = [r \in Requests |-> IdleReq]
  /\ ws' = [s \in Sockets |-> NoSocket]
  /\ UNCHANGED <<pending, auth, guesses, mintedBy>>

Request(r) ==
  \/ \E p \in {"assert", "register"} : Challenge(r, p)
  \/ RegisterDenied(r)
  \/ \E c \in challenges : RegisterAccepted(r, c) \/ AssertConsume(r, c)
  \/ \E i \in Ids : \E g \in 0..MaxRotations : Refresh(r, i, g)

Progress(r) ==
  \/ RegisterUnverified(r) \/ RegisterStore(r) \/ RegisterConsume(r)
  \/ AssertMint(r) \/ AssertDenied(r) \/ Notify(r)

Socket(s) ==
  \/ \E i \in Ids : SocketRequest(s, i)
  \/ SocketExtendFails(s) \/ SocketEnds(s)

Next ==
  \/ \E r \in Requests : Request(r) \/ Progress(r) \/ Abandoned(r)
  \/ \E s \in Sockets : Socket(s) \/ SocketOpen(s) \/ SocketWatch(s)
  \/ ChallengeExpires \/ RegistrationExpires
  \/ RevokeSub \/ \E i \in Ids : SessionRemove(i)
  \/ Restart

\* The runtime finishes the requests it has begun, unless their client leaves
\* (Abandoned), and polls the sockets' tasks; no clock is assumed to advance.
Spec ==
  /\ Init /\ [][Next]_vars
  /\ \A r \in Requests : WF_vars(Progress(r))
  /\ \A s \in Sockets : WF_vars(SocketOpen(s)) /\ WF_vars(SocketWatch(s))

-----------------------------------------------------------------------------
(* Properties.                                                             *)

\* A registration is spent for a reason: a credential was stored, the code was wrong
\* CodeLimit times, or it expired.  Neither a failed verification nor a crash between
\* the updates loses it, and no number of concurrent attempts compares more than
\* CodeLimit wrong codes.  An assert challenge mints one family at most, however often
\* it is presented and however the requests interleave.  (Two requests
\* that present the challenge of one registration may both mint: routes.rs:423-528.)
SecretsSpentOnce ==
  /\ reg.st = "used" => credential # "none"
  /\ reg.st = "burned" => guesses = CodeLimit
  /\ guesses <= CodeLimit
  /\ \A i, j \in DOMAIN mintedBy : mintedBy[i] = mintedBy[j] /\ mintedBy[i].by = "assert" => i = j

OfReusedFamily(s) == ws[s].family \in Ids /\ families[ws[s].family].reused
Informed(s) == ~families[ws[s].family].untold

\* When the reuse of a refresh token tombstones a family, and the request that found it
\* is answered, every WebSocket of that family in this gateway is closed without waiting
\* for its deadline, also one that was being opened at that moment.  (A request
\* whose client leaves before Notify tells nobody: Abandoned.  Sockets of another unit's
\* gateway end at their next extension or deadline: DR-0036 section 4.)
RevokedSocketsClose ==
  (\E s \in Sockets : OfReusedFamily(s) /\ Informed(s)) ~> \A s \in Sockets : ~(OfReusedFamily(s) /\ Informed(s))

=============================================================================
