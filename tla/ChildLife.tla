------------------------------ MODULE ChildLife ------------------------------
(***************************************************************************)
(* SessionChild under names of its own, so that the proofs about the child *)
(* can stand beside those about the clients of the same serve loop         *)
(* (SessionClientsProofs).                                                 *)
(***************************************************************************)
EXTENDS Naturals, FiniteSets

CONSTANTS ChildSignals, TimeoutSet, UntilSet, KillWaits, InitialPolicy, MaxUpgrades, MaxConts,
          SilentContinue

ASSUME EnvironmentAssumption ==
  /\ ChildSignals \subseteq {"CONT", "USR1", "TERM"}
  /\ TimeoutSet \in BOOLEAN /\ UntilSet \in BOOLEAN /\ KillWaits \in BOOLEAN
  /\ InitialPolicy \in {"notify", "auto-resume"}
  /\ MaxUpgrades \in Nat /\ MaxConts \in Nat
  /\ SilentContinue \in BOOLEAN

VARIABLES kid, doom, sigs, place, latched, shown, policy, conts, piped, deferred, expired,
          drained, upgrading, upgrades, outcome, result

Child == INSTANCE SessionChild WITH Signals <- ChildSignals, pc <- place

\* SessionChild!SpecIdle: the child, the daemon and those who signal them, with the
\* fairness of the code's scheduling.
ChildSpec == Child!SpecIdle

\* SessionChild!ExitCodeFaithful: serve() returns the status the child ended with.
ExitCodeFaithful == Child!ExitCodeFaithful

\* SessionChild!SessionEnds: the daemon does not outlive its child or a SIGTERM.
SessionEnds == Child!SessionEnds

\* SessionChild!StopFollowed: what is reported of a stop follows the child.
StopFollowed == Child!StopFollowed

=============================================================================
