---------------------------- MODULE SwapAddresses ----------------------------
(***************************************************************************)
(* SwapAddressValidationService: which addresses sign, are refunded and    *)
(* receive.  An address is the text in lower case, the way its letters are *)
(* spelled, and its form: what the patterns of the service can tell of it. *)
(* A form may match the patterns of several networks; a Bitcoin address of *)
(* ordinary length, for one, passes as a Solana address.                   *)
(***************************************************************************)

EvmNetworks ==
  {"eth", "base", "arb", "gnosis", "bera", "bsc", "pol", "op", "avax", "xlayer", "monad", "plasma",
   "scroll"}
NearForms == {"account", "implicit"}
Base58Forms == {"sol", "p2pkh", "p2sh", "doge", "zec", "ltc", "dash", "xrp", "tron"}

\* DESTINATION_ADDRESS_PATTERNS: the forms the pattern of a network matches
Patterns ==
  [near |-> NearForms,
   sol |-> Base58Forms,
   btc |-> {"p2pkh", "p2sh", "bc1"},
   doge |-> {"doge"},
   zec |-> {"zec"},
   bch |-> {"p2pkh", "p2sh", "cashaddr"},
   ltc |-> {"ltc", "p2sh", "ltc1"},
   dash |-> {"dash"},
   xrp |-> {"xrp", "xaddress"},
   tron |-> {"tron"},
   ton |-> {"ton"},
   stellar |-> {"stellar"},
   cardano |-> {"cardano"},
   aleo |-> {"aleo"},
   aptos |-> {"hex32"},
   sui |-> {"hex32"},
   starknet |-> {"hex20", "hex32"}]

\* The forms that pass on a network; none on one without a pattern
FormsOf(network) ==
  IF network \in EvmNetworks THEN {"hex20"}
  ELSE IF network \in DOMAIN Patterns THEN Patterns[network] ELSE {}

-----------------------------------------------------------------------------
areEquivalent(authMethod, a, b) ==
  IF authMethod \in {"evm", "near"} THEN a.text = b.text ELSE a = b

\* assertSignerAddress, assertRefundAddress
IsSigner(authMethod, a) ==
  a.form = CASE authMethod = "evm" -> "hex20" [] authMethod = "near" -> "account" [] OTHER -> ""

\* assertExternalRecipient
IsRecipient(a, recipientType, network) ==
  a.form \in IF recipientType = "INTENTS" THEN NearForms ELSE FormsOf(network)

=============================================================================
