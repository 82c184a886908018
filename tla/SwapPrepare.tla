----------------------------- MODULE SwapPrepare -----------------------------
(***************************************************************************)
(* One swap, from POST /swaps/prepare to POST /swaps/execute.              *)
(*                                                                         *)
(* PrepareSwapUseCase validates the command against the asset registry,    *)
(* asks the quote providers in parallel (Promise.allSettled), selects one  *)
(* quote (SwapQuoteSelectionPolicy), compares it with the prices of the    *)
(* registry (SwapSlippagePolicy) and returns an execution package, which   *)
(* ExecuteSwapUseCase hands to the execution provider of the same name.    *)
(* Amounts are integers in the smallest unit of their asset, as in the     *)
(* code; a quote keeps what the policies look at, and the providers quote  *)
(* for the amount they were asked for, which is positive (the DTO), with   *)
(* any other amount, zero included (nothing looks at it).                  *)
(***************************************************************************)
EXTENDS SwapAddresses, Integers, Sequences, FiniteSets, FiniteSetsExt

CONSTANTS
  Amount,        \* the amount of the command
  QuotedAmounts, \* the amounts providers answer with
  Assets,        \* entries of the registry an asset may have
  Parties,       \* who asks, and the recipient of the body
  Tolerances,    \* slippage tolerances of commands, in basis points
  MaxSlippage,   \* SWAP_MAX_SLIPPAGE_BPS
  MaxQuotes,     \* quotes in one answer of the solver relay: a bound of the model
  None

\* price 0: the registry has no positive price of the asset
ASSUME AssetsAssumption == Assets \subseteq [price : Nat, decimals : Nat, network : STRING]
ASSUME PartiesAssumption ==
  \A p \in Parties :
    /\ p.authMethod \in {"evm", "near"}
    /\ p.recipientType \in {"DESTINATION_CHAIN", "INTENTS", None}
ASSUME AmountsAssumption == Amount \in Nat \ {0} /\ QuotedAmounts \subseteq Nat
ASSUME BoundsAssumption == Tolerances \subseteq Nat /\ MaxQuotes \in Nat

\* the order in which the module registers them
QuoteProviders == <<"solver-relay", "one-click">>
ExecutionProviders == {"solver-relay"}
SupportsExternalRecipient == {"one-click"}
Providers == {"solver-relay", "one-click"}

Quote ==
  [providerId: Providers, mode: {"intent_sign", "deposit_address"}, hashes: BOOLEAN,
   deposit: BOOLEAN, amountIn: QuotedAmounts \cup {Amount}, amountOut: QuotedAmounts \cup {Amount}]

\* PrepareSwapMapper.toCommand
RecipientType(p) ==
  IF p.recipientType # None THEN p.recipientType
  ELSE IF p.recipient = None /\ p.authMethod = "near" THEN "INTENTS" ELSE "DESTINATION_CHAIN"
ToCommand(p) ==
  [authMethod |-> p.authMethod, signer |-> p.user,
   recipient |-> IF p.recipient = None THEN p.user ELSE p.recipient,
   recipientType |-> RecipientType(p)]
\* The entry of a provider in the array Promise.allSettled resolves to
SettledResult == [status: {"fulfilled", "rejected"}, value: Seq(Quote)]

Command ==
  [swapType: {"EXACT_INPUT", "EXACT_OUTPUT"}, slippageTolerance: Tolerances,
   origin: Assets \cup {None}, destination: Assets \cup {None},
   party: {ToCommand(p) : p \in Parties}]

VARIABLES
  command,  \* the command in progress
  asked,    \* the providers it waits for, or has waited for
  replies,  \* how their requests have settled
  stage,    \* where the use case is, or how the call ended
  package,  \* the quote of the approved package
  events    \* the product events recorded for the call

vars == <<command, asked, replies, stage, package, events>>

Init ==
  /\ command = None /\ asked = {} /\ replies = <<>> /\ stage = "idle"
  /\ package = None /\ events = {}

-----------------------------------------------------------------------------
\* SwapRequestValidationService
IsExternalRecipient(c) == ~areEquivalent(c.party.authMethod, c.party.recipient, c.party.signer)
ValidParty(c) ==
  /\ IsSigner(c.party.authMethod, c.party.signer)
  /\ IsExternalRecipient(c) =>
       IsRecipient(c.party.recipient, c.party.recipientType, c.destination.network)
Valid(c) ==
  /\ c.slippageTolerance <= MaxSlippage
  /\ c.origin # None /\ c.destination # None
  /\ ValidParty(c)

BrokenReceivers(c) == Providers

\* collectQuotes: the providers that are asked
Receivers(c) == IF IsExternalRecipient(c) THEN SupportsExternalRecipient ELSE Providers

Reject(c) ==
  /\ stage = "idle" /\ ~Valid(c)
  /\ command' = c /\ stage' = "rejected"
  /\ UNCHANGED <<asked, replies, package, events>>

Ask(c) ==
  /\ stage = "idle" /\ Valid(c)
  /\ command' = c /\ stage' = "asking"
  /\ asked' = Receivers(c)
  /\ replies' = <<>>
  /\ events' = {"attempted"}
  /\ UNCHANGED package

-----------------------------------------------------------------------------
AmountsOf(c, quoted) ==
  IF c.swapType = "EXACT_INPUT" THEN [in |-> Amount, out |-> quoted] ELSE [in |-> quoted, out |-> Amount]

SolverQuote(c, quoted) ==
  [providerId |-> "solver-relay", mode |-> "intent_sign", hashes |-> TRUE, deposit |-> FALSE,
   amountIn |-> AmountsOf(c, quoted).in, amountOut |-> AmountsOf(c, quoted).out]

\* The refund the 1Click provider asks for
RefundTo(c) == c.party.signer
RefundType(c) == IF c.party.authMethod = "near" THEN "INTENTS" ELSE "ORIGIN_CHAIN"

OneClickQuote(c, quoted, hashes, deposit) ==
  [providerId |-> "one-click", mode |-> IF hashes THEN "intent_sign" ELSE "deposit_address",
   hashes |-> hashes, deposit |-> deposit,
   amountIn |-> AmountsOf(c, quoted).in, amountOut |-> AmountsOf(c, quoted).out]

\* A request settles in its own time, whatever the use case is doing.
Settle(p, result) ==
  /\ p \in asked \ DOMAIN replies
  /\ replies' = [q \in DOMAIN replies \cup {p} |-> IF q = p THEN result ELSE replies[q]]
  /\ UNCHANGED <<command, asked, stage, package, events>>

Answers(p, quotes) == Settle(p, [status |-> "fulfilled", value |-> quotes])

\* The solver relay answers with any number of quotes, ...
SolverReplies ==
  \E n \in 0..MaxQuotes : \E quoted \in [1..n -> QuotedAmounts] :
    Answers("solver-relay", [i \in 1..n |-> SolverQuote(command, quoted[i])])

\* ... 1Click with one, or with an answer that names no amounts; ...
OneClickReplies ==
  \/ Answers("one-click", <<>>)
  \/ \E quoted \in QuotedAmounts, hashes, deposit \in BOOLEAN :
       Answers("one-click", <<OneClickQuote(command, quoted, hashes, deposit)>>)

\* ... and a request may be rejected.
ProviderFails(p) == Settle(p, [status |-> "rejected", value |-> <<>>])

-----------------------------------------------------------------------------
\* collectQuotes: what the fulfilled requests answered, in the order of the
\* providers
Fulfilled == {p \in DOMAIN replies : replies[p].status = "fulfilled"}
Quotes ==
  LET of(p) == IF p \in Fulfilled THEN replies[p].value ELSE <<>>
  IN  of(QuoteProviders[1]) \o of(QuoteProviders[2])

\* isExecutable, with the execution package 1Click quotes carry when they
\* name a deposit address
IsExecutable(q) == IF q.mode = "intent_sign" THEN q.hashes ELSE q.deposit

ExecutableQuotes == {i \in DOMAIN Quotes : IsExecutable(Quotes[i])}

RankedBy(c, q) == IF c.swapType = "EXACT_INPUT" THEN q.amountOut ELSE q.amountIn

\* selectBestExecutableQuote: the first of a stable, descending sort
SelectBestExecutableQuote ==
  Quotes[Min({i \in ExecutableQuotes : \A j \in ExecutableQuotes :
               RankedBy(command, Quotes[j]) <= RankedBy(command, Quotes[i])})]

PriceScale == 1000000
MathRound(n, d) == (2 * n + d) \div (2 * d)

BrokenMinAcceptableOut(c, q) ==
  LET expectedOut ==
        (q.amountIn * MathRound(c.destination.price * PriceScale, c.origin.price)) \div PriceScale
  IN  (expectedOut * (10000 - c.slippageTolerance)) \div 10000

MinAcceptableOut(c, q) ==
  LET expectedOut ==
        (q.amountIn * MathRound(c.origin.price * PriceScale, c.destination.price)) \div PriceScale
  IN  (expectedOut * (10000 - c.slippageTolerance)) \div 10000

Priced(c) == c.origin.price > 0 /\ c.destination.price > 0

\* assertWithinTolerance: without prices nothing is compared, nor is a quote
\* that takes or pays nothing.
WithinTolerance(c, q) ==
  Priced(c) /\ q.amountIn > 0 /\ q.amountOut > 0 => q.amountOut >= MinAcceptableOut(c, q)

-----------------------------------------------------------------------------
BrokenSettled == stage = "asking" /\ DOMAIN replies # {}

\* Promise.allSettled waits for all of them.
Settled == stage = "asking" /\ DOMAIN replies = asked

ProvidersUnavailable ==
  /\ Settled /\ Quotes = <<>>
  /\ stage' = "unavailable"
  /\ events' = events \cup {"failed"}
  /\ UNCHANGED <<command, asked, replies, package>>

InsufficientLiquidity ==
  /\ Settled /\ Quotes # <<>> /\ ExecutableQuotes = {}
  /\ stage' = "insufficient_liquidity"
  /\ UNCHANGED <<command, asked, replies, package, events>>

BrokenSlippageExceededByAny ==
  /\ Settled
  /\ \E i \in ExecutableQuotes : ~WithinTolerance(command, Quotes[i])
  /\ stage' = "slippage_exceeded"
  /\ UNCHANGED <<command, asked, replies, package, events>>

SlippageExceeded ==
  /\ Settled /\ ExecutableQuotes # {}
  /\ ~WithinTolerance(command, SelectBestExecutableQuote)
  /\ stage' = "slippage_exceeded"
  /\ UNCHANGED <<command, asked, replies, package, events>>

Approve ==
  /\ Settled /\ ExecutableQuotes # {}
  /\ WithinTolerance(command, SelectBestExecutableQuote)
  /\ stage' = "prepared"
  /\ package' = SelectBestExecutableQuote
  /\ events' = events \cup {"succeeded"}
  /\ UNCHANGED <<command, asked, replies>>

-----------------------------------------------------------------------------
\* The client pays to the deposit address by itself; a package to sign it
\* signs and sends to POST /swaps/execute.  ExecuteSwapUseCase looks for the
\* execution provider, which publishes the intent, or fails to; the client
\* may then try again.
Deposit ==
  /\ stage = "prepared" /\ package.mode = "deposit_address"
  /\ stage' = "deposited"
  /\ UNCHANGED <<command, asked, replies, package, events>>

Publish ==
  /\ stage = "prepared" /\ package.mode = "intent_sign"
  /\ package.providerId \in ExecutionProviders
  /\ stage' \in {"published", "prepared"}
  /\ UNCHANGED <<command, asked, replies, package, events>>

UnsupportedProvider ==
  /\ stage = "prepared" /\ package.mode = "intent_sign"
  /\ package.providerId \notin ExecutionProviders
  /\ stage' = "unsupported_provider"
  /\ UNCHANGED <<command, asked, replies, package, events>>

Next ==
  \/ \E c \in Command : Reject(c) \/ Ask(c)
  \/ SolverReplies \/ OneClickReplies \/ \E p \in Providers : ProviderFails(p)
  \/ ProvidersUnavailable \/ InsufficientLiquidity \/ SlippageExceeded \/ Approve
  \/ Deposit \/ Publish \/ UnsupportedProvider

Spec == Init /\ [][Next]_vars

-----------------------------------------------------------------------------
\* The types of the variables; only providers that were asked have answered,
\* and a package is one of their quotes.
TypeOK ==
  /\ command \in Command \cup {None}
  /\ asked \subseteq Providers
  /\ DOMAIN replies \subseteq asked
  /\ \A p \in DOMAIN replies : replies[p] \in SettledResult
  /\ package = None \/ \E i \in DOMAIN Quotes : Quotes[i] = package
  /\ events \subseteq {"attempted", "failed", "succeeded"}

\* A swap is prepared for the signer, however the address is spelled, or for
\* an address of the destination network (or of NEAR Intents); to anybody but
\* the signer never with a provider that pays the signer only (collectQuotes).
ForeignRecipientsUseOneClick ==
  package # None /\ command.party.recipient.text # command.party.signer.text =>
    /\ package.providerId \in SupportsExternalRecipient
    /\ command.party.recipient.form \in
         FormsOf(command.destination.network) \cup
         IF command.party.recipientType = "INTENTS" THEN NearForms ELSE {}

\* What the providers offer, whenever they do: before the use case decides or
\* after it, beside a provider that fails, first or last.
Offers == UNION {{replies[p].value[i] : i \in DOMAIN replies[p].value} : p \in DOMAIN replies}

\* No offer is lost on the way to the decision: a user is told that the
\* providers are unavailable only if none of them ever offers anything, that
\* liquidity lacks only if none ever offers an executable quote, and with a
\* given input no provider ever has more to pay than the approved quote, in
\* whatever order the requests settle and whichever of them fails
\* (collectQuotes, Promise.allSettled).
NoOfferIsLost ==
  /\ stage = "unavailable" => Offers = {}
  /\ stage = "insufficient_liquidity" => \A q \in Offers : ~IsExecutable(q)
  /\ package # None /\ command.swapType = "EXACT_INPUT" =>
       /\ package \in Offers /\ IsExecutable(package)
       /\ \A q \in Offers : IsExecutable(q) => q.amountOut <= package.amountOut

SameDecimals(c) == c.origin.decimals = c.destination.decimals

\* The worth of a quote by the prices of the registry: its output, and so many
\* units more, against its input less the tolerance
WorthItsInput(c, q, units) ==
  (q.amountOut + units) * c.destination.price * 10000
    >= q.amountIn * c.origin.price * (10000 - c.slippageTolerance)

\* What the rounded ratio of the prices may cost, or give, in the smallest
\* units of the destination: one for every two million units of the input
RatioLoss(q) == (q.amountIn + 2 * PriceScale - 1) \div (2 * PriceScale)

\* With a given input a swap is refused for its slippage only between priced
\* assets, and only if no executable quote that is ever offered, by the
\* provider that was compared or by another, is worth its input less the
\* tolerance, but for the rounding of the ratio (equal decimals; both
\* policies, in sequence).
NoNeedlessRefusal ==
  stage = "slippage_exceeded" /\ command.swapType = "EXACT_INPUT" =>
    /\ Priced(command)
    /\ SameDecimals(command) =>
         \A q \in Offers : IsExecutable(q) => ~WorthItsInput(command, q, -RatioLoss(q))

\* Between priced assets of equal decimals an approved quote is worth its
\* input less the tolerance, but for two of the smallest units lost in the
\* divisions and what the rounded ratio may cost.  The one exception is a
\* quote that pays nothing, which is not compared with the prices: with a
\* given input it is approved only if no executable offer pays anything
\* (assertWithinTolerance, selectBestExecutableQuote).
SlippageProtects ==
  package # None /\ Priced(command) /\ SameDecimals(command) =>
    \/ WorthItsInput(command, package, 2 + RatioLoss(package))
    \/ /\ package.amountOut = 0
       /\ command.swapType = "EXACT_INPUT" =>
            \A q \in Offers : IsExecutable(q) => q.amountOut = 0

\* "returns the best approved package": no executable answer of a provider
\* takes less for the same output, or pays more for the same input.
BestQuoteForTheUser ==
  package # None =>
    \A i \in ExecutableQuotes :
      /\ Quotes[i].amountOut = package.amountOut => Quotes[i].amountIn >= package.amountIn
      /\ Quotes[i].amountIn = package.amountIn => Quotes[i].amountOut <= package.amountOut

=============================================================================
