--------------------------- MODULE MCTokenManager ---------------------------
(***************************************************************************)
(* Instances of TokenManager for TLC.                                      *)
(***************************************************************************)
EXTENDS TokenManager, TLC

CONSTANTS t1, t2, t3

EmailCreds == {"email", "secret"}
ClientCreds == {"client_id", "client_secret"}

\* Each complete pair, and halves that complete none.
SomeCredSets == {EmailCreds, ClientCreds, {"email", "client_secret"}}
OnlyEmail == {EmailCreds}

\* Two tasks log in, in different ways and in one that both use; a third only calls.
SplitLogins ==
  t1 :> {"siwe", "register"} @@ t2 :> {"siwe", "register_invite", "refresh", "x402"} @@ t3 :> {}
OnlySiwe == [t \in Tasks |-> {"siwe"}]
=============================================================================
