---------------------------- MODULE PrimaryWallet ----------------------------
(***************************************************************************)
(* What the wallet links of one user promise: a set of active wallets, of  *)
(* which one at most is primary.  A call changes whether one wallet is     *)
(* active, and hands the primary wallet over as a whole.  Nothing is       *)
(* promised any more once a bind has overlapped another call.              *)
(*                                                                         *)
(* Two weak points are part of the promise, because WalletLinks has them:  *)
(* a switch, or the promotion by a deletion, that loses a race against the *)
(* deletion of its wallet leaves no wallet primary, and so may a deletion  *)
(* that loses one against a switch.                                        *)
(***************************************************************************)

CONSTANT Wallets

VARIABLES active, primary, disturbed

vars == <<active, primary, disturbed>>

Init == active = {} /\ primary = {} /\ disturbed = FALSE

Bind(w) ==
  /\ active' = active \cup {w}
  /\ primary' \in {primary, {w}, primary \ {w}}

Switch(w) ==
  /\ active' = active
  /\ primary' \in {{w} \cap active, {}}

Remove(w) ==
  /\ active' = active \ {w}
  /\ primary' \in {primary \ {w}, {}} \cup {{v} : v \in active'}

Disturb == disturbed' = TRUE /\ UNCHANGED <<active, primary>>

Next ==
  \/ ~disturbed /\ UNCHANGED disturbed /\ \E w \in Wallets : Bind(w) \/ Switch(w) \/ Remove(w)
  \/ Disturb
  \/ disturbed /\ UNCHANGED disturbed

Spec == Init /\ [][Next]_vars

-----------------------------------------------------------------------------
\* While no bind has overlapped another call, the user has at most one primary
\* wallet, and it is active (markPrimaryWallet).
AtMostOnePrimary == ~disturbed => primary \subseteq active /\ \A v, w \in primary : v = w

=============================================================================
