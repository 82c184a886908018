-------------------------- MODULE MCSessionRequests --------------------------
(***************************************************************************)
(* Small instances of SessionRequests for TLC.  The events of clients are  *)
(* those that two numbers of the summary are put together from, and one    *)
(* outside its window.                                                     *)
(***************************************************************************)
EXTENDS SessionRequests

Passkey(status, reason) == EventKind("account.login.passkey", "mfe-wallets", status, reason, TRUE)

MCClientEvents ==
  {Passkey("failed", "signup_with_passkey_not_allowed"), Passkey("failed", "invalid_response"),
   EventKind("wallet.connect", "mfe-wallets", "failed", "rejected", TRUE),
   EventKind("wallet.connect", "mfe-wallets", "failed", None, FALSE)}

=============================================================================
