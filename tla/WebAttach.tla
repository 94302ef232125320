----------------------------- MODULE WebAttach -----------------------------
(***************************************************************************)
(* WsBridge under names of its own, so that one WebSocket attach can stand *)
(* beside the gateway's authentication and the service commands            *)
(* (WebAdminProofs).  Its run checks it through these names.               *)
(***************************************************************************)
EXTENDS Naturals

CONSTANTS
  MaxMsgs,    \* bound: messages the browser sends
  MaxEvents   \* bound: those messages, chunks of output and lost leader roles

ASSUME AttachAssumption == MaxMsgs \in Nat /\ MaxEvents \in Nat

VARIABLES got, keys, reader, lost, cmds, wake, pc, batch, ctl, shut, raw, lead, grid, pend, up,
          down, leader, typed, applied, outs, steals, gone, out, writer, last, answers, shown,
          attach_stale, swallowed

Attach == INSTANCE WsBridge WITH stale <- attach_stale

AttachSpec == Attach!Spec

\* WsBridge!BridgeFaithful: the bridge is faithful to the browser and to the daemon.
BridgeFaithful == Attach!BridgeFaithful

\* WsBridge!AttachEnds: an attach that has lost its browser or its daemon ends.
AttachEnds == Attach!AttachEnds

=============================================================================
