--------------------------- MODULE MCAttachClient ---------------------------
(* Instance for TLC: configurations and terminal input of AttachClient.    *)
EXTENDS AttachClient

\* One press in either encoding, whole and split, alone and before a key.
MCChunks == {<<"Z">>, <<"E">>, <<"R">>, <<"Z", "c">>, <<"c">>, <<"z">>, <<"k">>, <<"C">>, <<"i">>, <<"d">>}

MCConfs ==
  {[setting |-> "resume", x1 |-> "ask", guard |-> TRUE, delay |-> TRUE, screen |-> TRUE],
   [setting |-> "menu", x1 |-> "suspend", guard |-> TRUE, delay |-> TRUE, screen |-> TRUE],
   [setting |-> "menu", x1 |-> "detach", guard |-> TRUE, delay |-> FALSE, screen |-> FALSE],
   [setting |-> "resume", x1 |-> "suspend", guard |-> FALSE, delay |-> TRUE, screen |-> TRUE]}
=============================================================================
