---------------------------- MODULE TargetChoice ----------------------------
(***************************************************************************)
(* SessionTarget under names of its own, so that the choice of a session   *)
(* can stand beside the commands on it in one run (MCCommands), and beside *)
(* the start of a session in the proofs (SessionStartProofs).              *)
(***************************************************************************)
EXTENDS Integers, FiniteSets

CONSTANTS Sessions, OldSessions, Requesters, MaxChanges

\* Sessions are numbered in the order of their first use; the gateway looks up the first.
ASSUME ChoiceAssumption ==
  /\ IsFiniteSet(Sessions) /\ Sessions # {} /\ Sessions = 1 .. Cardinality(Sessions)
  /\ OldSessions \subseteq Sessions
  /\ MaxChanges \in Nat

VARIABLES verb, sel, env, dirOk, state, mtime, step, scanned, found, statting, target, result,
          acted, failures, stayed, was, req, inflight, work, changes

targetVars == <<verb, sel, env, dirOk, state, mtime, step, scanned, found, statting, target,
                result, acted, failures, stayed, was, req, inflight, work, changes>>

Choice == INSTANCE SessionTarget
            WITH Legacy <- OldSessions, Requests <- Requesters, pc <- step, seen <- scanned,
                 code <- result

\* SessionTarget!TargetRight: a command reaches the session its selector names.
TargetRight == Choice!TargetRight

=============================================================================
