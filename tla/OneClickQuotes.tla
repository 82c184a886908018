--------------------------- MODULE OneClickQuotes ---------------------------
(***************************************************************************)
(* POST /quotes/one-click beside POST /swaps/prepare: QuotesService checks *)
(* the parties of a request by its own code, with the asset list instead   *)
(* of the registry, and passes the request on to 1Click.  The model takes  *)
(* one request of either kind.                                             *)
(***************************************************************************)
EXTENDS SwapPrepare

VARIABLE quote  \* the request, where it is, and how it was answered

quoteVars == <<vars, quote>>

NoRequest == [stage |-> "none", party |-> None, destination |-> None, request |-> None]

QuotesInit == Init /\ quote = NoRequest

-----------------------------------------------------------------------------
BrokenToOneClickQuoteRequest(p) ==
  [recipient |-> IF p.recipient = None THEN p.user ELSE p.recipient,
   recipientType |-> IF p.recipientType # None THEN p.recipientType
                     ELSE IF p.authMethod = "near" THEN "INTENTS" ELSE "DESTINATION_CHAIN",
   refundTo |-> p.user,
   refundType |-> IF p.authMethod = "near" THEN "INTENTS" ELSE "ORIGIN_CHAIN"]

toOneClickQuoteRequest(p) ==
  [recipient |-> IF p.recipient = None THEN p.user ELSE p.recipient,
   recipientType |-> CASE p.recipientType # None -> p.recipientType
                       [] p.recipientType = None /\ p.recipient = None /\ p.authMethod = "near" -> "INTENTS"
                       [] OTHER -> "DESTINATION_CHAIN",
   refundTo |-> p.user,
   refundType |-> IF p.authMethod = "near" THEN "INTENTS" ELSE "ORIGIN_CHAIN"]

\* The user address is checked as the refund address; a recipient other than
\* the user waits for the asset list.
CreateOneClickQuote(p, asset) ==
  LET request == toOneClickQuoteRequest(p) IN
  /\ stage = "idle" /\ quote.stage = "none"
  /\ quote' = [stage |-> IF ~IsSigner(p.authMethod, p.user) THEN "refused"
                         ELSE IF areEquivalent(p.authMethod, request.recipient, p.user) THEN "asked"
                         ELSE "listing",
               party |-> p, destination |-> asset, request |-> request]

Listed ==
  /\ quote.stage = "listing"
  /\ quote' = [quote EXCEPT !.stage =
       IF quote.destination # None
          /\ IsRecipient(quote.request.recipient, quote.request.recipientType, quote.destination.network)
       THEN "asked" ELSE "refused"]

ListingFails == quote.stage = "listing" /\ quote' = [quote EXCEPT !.stage = "failed"]

\* A status of 1Click between 400 and 499 is answered as a bad request, any
\* other failure as an internal error.
OneClickAnswers ==
  /\ quote.stage = "asked"
  /\ quote' = [quote EXCEPT !.stage = "answered"]

OneClickRefuses ==
  /\ quote.stage = "asked"
  /\ \E end \in {"bad_request", "failed"} : quote' = [quote EXCEPT !.stage = end]

QuoteNext ==
  \/ \E p \in Parties, asset \in Assets \cup {None} : CreateOneClickQuote(p, asset)
  \/ Listed \/ ListingFails \/ OneClickAnswers \/ OneClickRefuses

QuotesNext ==
  \/ Next /\ quote.stage = "none" /\ UNCHANGED quote
  \/ QuoteNext /\ UNCHANGED vars

QuotesSpec == QuotesInit /\ [][QuotesNext]_quoteVars

-----------------------------------------------------------------------------
\* The two endpoints treat the same parties alike, although each has its own
\* code: 1Click is asked for a bare quote only for parties POST /swaps/prepare
\* accepts as well, with the same recipient and the same refund, and what is
\* refused for its parties is refused there too.
EndpointsAgree ==
  LET c == [party |-> ToCommand(quote.party), destination |-> quote.destination] IN
  /\ quote.stage \in {"asked", "answered", "bad_request"} =>
       /\ quote.destination # None => ValidParty(c)
       /\ quote.request.recipient = c.party.recipient
       /\ quote.request.recipientType = c.party.recipientType
       /\ quote.request.refundTo = RefundTo(c) /\ quote.request.refundType = RefundType(c)
  /\ quote.stage = "refused" => quote.destination = None \/ ~ValidParty(c)

=============================================================================
