----------------------------- MODULE MCRawInput -----------------------------
(* Two input commands, or one beside a client that types.                  *)
EXTENDS RawInput

MCRoles == {<<"input", "input">>, <<"input", "rw">>, <<"ro", "input">>}

=============================================================================
