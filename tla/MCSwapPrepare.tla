--------------------------- MODULE MCSwapPrepare ---------------------------
(***************************************************************************)
(* Small instances of SwapPrepare and OneClickQuotes for TLC.  The prices  *)
(* are such that their ratio is rounded both up and down, and one asset    *)
(* has no price; the networks have a pattern that other networks share, a  *)
(* pattern of their own, and none.                                         *)
(***************************************************************************)
EXTENDS OneClickQuotes

MCAssets ==
  {[price |-> 0, decimals |-> 0, network |-> "future"], [price |-> 2, decimals |-> 0, network |-> "sol"],
   [price |-> 3, decimals |-> 0, network |-> "base"], [price |-> 3, decimals |-> 1, network |-> "near"]}

LOCAL Address(text, form, spelling) == [text |-> text, form |-> form, spelling |-> spelling]
LOCAL Party(authMethod, user, recipient, recipientType) ==
  [authMethod |-> authMethod, user |-> user, recipient |-> recipient, recipientType |-> recipientType]
LOCAL Evm == Address("evm", "hex20", "lower")
LOCAL Near == Address("near", "account", "lower")

\* The signer, checksummed or not; addresses of other people that fit some
\* network; users who sign with an address of the wrong kind.
MCParties ==
  {Party("evm", Evm, None, None),
   Party("evm", Evm, Address("evm", "hex20", "checksummed"), None),
   Party("evm", Evm, Address("else", "p2pkh", "lower"), None),
   Party("evm", Evm, Near, "INTENTS"),
   Party("near", Near, None, None),
   Party("near", Near, Address("else", "hex20", "lower"), None),
   Party("near", Near, Address("else", "implicit", "lower"), "DESTINATION_CHAIN"),
   Party("near", Evm, None, None)}

=============================================================================
