-------------------------- MODULE SwapPrepareProofs --------------------------
(***************************************************************************)
(* Proofs about SwapPrepare and OneClickQuotes, for any assets, prices,    *)
(* parties, amounts and tolerances: who is paid by an approved quote, that *)
(* no offer is lost on the way to it, what its output is worth, when a     *)
(* swap is refused, and that the two endpoints treat the same parties      *)
(* alike.                                                                  *)
(***************************************************************************)
EXTENDS OneClickQuotes, FiniteSetTheorems, SequenceTheorems, WellFoundedInduction, TLAPS

Stages ==
  {"idle", "rejected", "asking", "unavailable", "insufficient_liquidity", "slippage_exceeded",
   "prepared", "deposited", "published", "unsupported_provider"}
Approved == {"prepared", "deposited", "published", "unsupported_provider"}

CommandOK ==
  /\ stage \in Stages
  /\ stage # "idle" => command \in Command
  /\ stage \in {"idle", "rejected"} => asked = {}
  /\ stage \notin {"idle", "rejected"} => Valid(command) /\ asked = Receivers(command)

\* A reply is of the provider it came from, for the amount that was asked.
ReplyOf(p, quotes) ==
  \A i \in DOMAIN quotes :
    /\ quotes[i].providerId = p
    /\ command.swapType = "EXACT_INPUT" => quotes[i].amountIn = Amount
RepliesOK ==
  \A p \in DOMAIN replies :
    /\ ReplyOf(p, replies[p].value)
    /\ p \notin Fulfilled => DOMAIN replies[p].value = {}

\* Nothing is decided before every request has settled, so no answer is late.
DecisionOK == stage \notin {"idle", "rejected", "asking"} => DOMAIN replies = asked

\* Both policies were applied to the one quote that was selected, and what is
\* said to be missing was.
OutcomeOK ==
  /\ stage = "unavailable" => Quotes = <<>>
  /\ stage = "insufficient_liquidity" => ExecutableQuotes = {}
  /\ package # None =>
       /\ stage \in Approved
       /\ ExecutableQuotes # {} /\ package = SelectBestExecutableQuote
       /\ WithinTolerance(command, package)
  /\ stage = "slippage_exceeded" =>
       ExecutableQuotes # {} /\ ~WithinTolerance(command, SelectBestExecutableQuote)

IInv == TypeOK /\ CommandOK /\ RepliesOK /\ DecisionOK /\ OutcomeOK

-----------------------------------------------------------------------------
\* The request for a bare quote
Requests == {toOneClickQuoteRequest(p) : p \in Parties}
Self == areEquivalent(quote.party.authMethod, quote.request.recipient, quote.party.user)
Receives ==
  /\ quote.destination # None
  /\ IsRecipient(quote.request.recipient, quote.request.recipientType, quote.destination.network)
Signs == IsSigner(quote.party.authMethod, quote.party.user)

QuoteOK ==
  /\ quote \in [stage: {"none", "refused", "asked", "listing", "failed", "answered", "bad_request"},
                party: Parties \cup {None}, destination: Assets \cup {None},
                request: Requests \cup {None}]
  /\ quote.stage # "none" =>
       quote.party \in Parties /\ quote.request = toOneClickQuoteRequest(quote.party)
  /\ quote.stage = "listing" => Signs /\ ~Self
  /\ quote.stage \in {"asked", "answered", "bad_request"} => Signs /\ (Self \/ Receives)
  /\ quote.stage = "refused" => ~Signs \/ (~Self /\ ~Receives)

-----------------------------------------------------------------------------
\* The arithmetic of the slippage policy
LEMMA Division ==
  ASSUME NEW a \in Int, NEW b \in Nat, b > 0
  PROVE  a \div b \in Int /\ b * (a \div b) <= a /\ a < b * (a \div b) + b
BY SMT

LEMMA Times ==
  ASSUME NEW a \in Int, NEW b \in Int, NEW c \in Nat, a <= b
  PROVE  a * c <= b * c /\ c * a <= c * b
BY SMT

LEMMA Products ==
  ASSUME NEW a \in Int, NEW b \in Int, NEW c \in Int
  PROVE  (a * b) * c = b * (a * c) /\ (a * b + a) * c = a * (b * c) + a * c
BY SMT

\* An output that passes lacks no more than the rounding loss.  S is the scale
\* of the ratio of the prices, and B what the tolerance is a part of.
LEMMA RoundedValue ==
  ASSUME NEW S \in Nat, S > 0, NEW B \in Nat, B > 0,
         NEW in \in Nat, NEW po \in Nat, NEW pd \in Nat, pd > 0,
         NEW out \in Nat, NEW T \in Nat, T <= B,
         NEW R \in Int, R = MathRound(po * S, pd),
         NEW E \in Int, E = (in * R) \div S,
         (E * T) \div B <= out,
         NEW L \in Nat, in <= (2 * S) * L
  PROVE  in * po * T <= (out + (2 + L)) * pd * B
<1> DEFINE n == po * S
           x == in * T
           y == R * x
           v == S * B
<1>1. n \in Nat /\ x \in Nat /\ y \in Int /\ 2 * pd \in Nat /\ 2 * pd > 0 /\ v \in Nat
  OBVIOUS
<1>2. 2 * n <= 2 * (pd * R) + pd
  <2>1. R = (2 * n + pd) \div (2 * pd) /\ 2 * n + pd \in Int
    BY <1>1 DEF MathRound
  <2>2. 2 * n + pd < (2 * pd) * R + 2 * pd
    BY <1>1, <2>1, Division
  <2>3. (2 * pd) * R = 2 * (pd * R) /\ pd * R \in Int
    OBVIOUS
  <2> HIDE DEF n
  <2> QED
    BY <2>2, <2>3, <1>1
<1>3. in * R <= S * E + S
  <2>1. in * R \in Int /\ S * E \in Int
    OBVIOUS
  <2>2. in * R < S * E + S
    BY <2>1, Division
  <2> QED
    BY <2>1, <2>2
<1>4. E * T <= B * (out + 1)
  <2>1. E * T \in Int
    OBVIOUS
  <2>2. PICK M \in Int : M = (E * T) \div B /\ E * T < B * M + B
    BY <2>1, Division
  <2>3. M <= out
    BY <2>2
  <2>4. B * M <= B * out
    BY <2>3, Times
  <2>5. B * (out + 1) = B * out + B /\ B * out \in Int /\ B * M \in Int
    OBVIOUS
  <2> QED
    BY <2>1, <2>2, <2>4, <2>5
<1>5. y <= v * (out + 2)
  <2>1. in * R \in Int /\ S * E + S \in Int /\ E * T \in Int /\ B * (out + 1) \in Int
    OBVIOUS
  <2>2. (in * R) * T <= (S * E + S) * T
    BY <1>3, <2>1, Times
  <2>3. S * (E * T) <= S * (B * (out + 1))
    BY <1>4, <2>1, Times
  <2>4. S * T <= S * B
    BY Times
  <2>5. (in * R) * T = y /\ (S * E + S) * T = S * (E * T) + S * T
    <3>1. (in * R) * T = R * (in * T)
      BY Products
    <3>2. (S * E + S) * T = S * (E * T) + S * T
      BY Products
    <3> QED
      BY <3>1, <3>2
  <2>6. S * (B * (out + 1)) + S * B = v * (out + 2)
    OBVIOUS
  <2>7. S * (E * T) \in Int /\ S * T \in Int /\ S * (B * (out + 1)) \in Int /\ S * B \in Int
    OBVIOUS
  <2> HIDE DEF y, v
  <2>8. y <= S * (E * T) + S * T
    BY <2>2, <2>5
  <2>9. \A a, b, c, d \in Int : a <= c /\ b <= d => a + b <= c + d
    OBVIOUS
  <2>10. S * (E * T) + S * T <= S * (B * (out + 1)) + S * B
    BY <2>3, <2>4, <2>7, <2>9
  <2> QED
    BY <1>1, <2>6, <2>7, <2>8, <2>10
<1>6. 2 * (n * x) <= 2 * (pd * y) + pd * x
  <2>1. (2 * n) * x <= (2 * (pd * R) + pd) * x
    BY <1>1, <1>2, Times
  <2>2. (2 * n) * x = 2 * (n * x) /\ (2 * (pd * R) + pd) * x = 2 * (pd * y) + pd * x
    OBVIOUS
  <2> QED
    BY <2>1, <2>2
<1>7. pd * y <= v * (pd * (out + 2))
  <2>1. v * (out + 2) \in Int
    OBVIOUS
  <2>2. pd * y <= pd * (v * (out + 2))
    BY <1>1, <1>5, <2>1, Times
  <2>3. pd * (v * (out + 2)) = v * (pd * (out + 2))
    OBVIOUS
  <2> QED
    BY <2>2, <2>3
<1>8. pd * x <= 2 * (v * (pd * L))
  <2>1. x <= in * B
    BY Times
  <2>2. in * B <= ((2 * S) * L) * B
    BY Times
  <2>3. pd * x <= pd * (in * B) /\ pd * (in * B) <= pd * (((2 * S) * L) * B)
    BY <1>1, <2>1, <2>2, Times
  <2>4. pd * (((2 * S) * L) * B) = 2 * (v * (pd * L))
    OBVIOUS
  <2>5. pd * x \in Int /\ pd * (in * B) \in Int /\ v * (pd * L) \in Int
    OBVIOUS
  <2> HIDE DEF x, v
  <2> QED
    BY <2>3, <2>4, <2>5
<1>9. n * x = S * (in * po * T)
  OBVIOUS
<1>10. v * (pd * (out + 2)) + v * (pd * L) = S * ((out + (2 + L)) * pd * B)
  OBVIOUS
<1>11. /\ in * po * T \in Int /\ (out + (2 + L)) * pd * B \in Int
       /\ v * (pd * (out + 2)) \in Int /\ v * (pd * L) \in Int
       /\ n * x \in Int /\ pd * y \in Int /\ pd * x \in Int
  OBVIOUS
<1> HIDE DEF n, x, y, v
<1>12. n * x <= v * (pd * (out + 2)) + v * (pd * L)
  BY <1>6, <1>7, <1>8, <1>11
<1>13. ~(S * (in * po * T) > S * ((out + (2 + L)) * pd * B))
  BY <1>9, <1>10, <1>11, <1>12
<1> QED
  BY <1>11, <1>13, Times, SMT

\* An output that is refused lacks more than the rounding of the ratio could
\* have added to what was expected.
LEMMA RefusedValue ==
  ASSUME NEW S \in Nat, S > 0, NEW B \in Nat, B > 0,
         NEW in \in Nat, NEW po \in Nat, NEW pd \in Nat, pd > 0,
         NEW out \in Nat, NEW top \in Nat, out <= top, NEW tolerance \in Nat,
         NEW R \in Int, R = MathRound(po * S, pd),
         NEW E \in Int, E = (in * R) \div S,
         NEW M \in Int, B * M <= E * (B - tolerance), ~(top >= M),
         NEW L \in Nat, in <= (2 * S) * L
  PROVE  (out - L) * pd * B < in * po * (B - tolerance)
<1> DEFINE n == po * S
           T == B - tolerance
           x == in * T
           d == 2 * pd
<1>1. n \in Nat /\ T \in Int /\ T <= B /\ d \in Nat /\ d > 0
  OBVIOUS
<1>2. R \in Nat /\ d * R <= 2 * n + pd
  <2>1. R = (2 * n + pd) \div d /\ 2 * n + pd \in Nat
    BY <1>1 DEF MathRound
  <2> HIDE DEF n, d
  <2>2. d * R <= 2 * n + pd /\ 2 * n + pd < d * R + d
    <3>1. PICK m \in Nat : m = 2 * n + pd
      BY <2>1
    <3>2. m \in Int /\ R = m \div d
      BY <2>1, <3>1
    <3> QED
      BY <1>1, <3>1, <3>2, Division
  <2>3. R >= 0
    <3>1. CASE R <= -1
      <4>1. R * d <= (-1) * d
        BY <1>1, <3>1, Times
      <4>2. d * R = R * d /\ d * R \in Int
        BY <1>1
      <4> QED
        BY <1>1, <2>1, <2>2, <4>1, <4>2
    <3> QED
      BY <3>1
  <2> QED
    BY <2>2, <2>3
<1>3. S * E <= in * R /\ E >= 0
  <2>1. in * R \in Nat
    BY <1>2
  <2>2. S * E <= in * R /\ in * R < S * E + S
    BY <2>1, Division
  <2>3. CASE E <= -1
    <3>1. E * S <= (-1) * S
      BY <2>3, Times
    <3>2. S * E = E * S /\ S * E \in Int
      OBVIOUS
    <3> QED
      BY <2>1, <2>2, <3>1, <3>2
  <2> QED
    BY <2>2, <2>3
<1>4. B * (out + 1) <= E * T
  <2>1. out + 1 <= M
    OBVIOUS
  <2>2. B * (out + 1) <= B * M
    BY <2>1, Times
  <2>3. B * (out + 1) \in Int /\ B * M \in Int /\ E * T \in Int
    OBVIOUS
  <2> QED
    BY <2>2, <2>3
<1>5. T \in Nat
  <2>1. CASE T <= -1
    <3>1. T * E <= (-1) * E
      BY <1>1, <1>3, <2>1, Times
    <3>2. E * T = T * E /\ E * T \in Int
      BY <1>1
    <3>3. B * (out + 1) > 0 /\ B * (out + 1) \in Int
      OBVIOUS
    <3> QED
      BY <1>3, <1>4, <3>1, <3>2, <3>3
  <2> QED
    BY <1>1, <2>1
<1>6. x \in Nat /\ in * R \in Nat
  BY <1>2, <1>5
<1>7. S * (B * (out + 1)) <= R * x
  <2>1. S * (B * (out + 1)) <= S * (E * T)
    BY <1>1, <1>4, Times
  <2>2. (S * E) * T <= (in * R) * T
    BY <1>3, <1>5, <1>6, Times
  <2>3. (S * E) * T = S * (E * T) /\ (in * R) * T = R * (in * T)
    <3>1. (S * E) * T = E * (S * T) /\ (E * S) * T = S * (E * T) /\ S * E = E * S
      BY <1>1, Products
    <3>2. (in * R) * T = R * (in * T)
      BY <1>1, Products
    <3> QED
      BY <3>1, <3>2
  <2>4. S * (B * (out + 1)) \in Int /\ S * (E * T) \in Int /\ R * x \in Int
    BY <1>1, <1>6
  <2> QED
    BY <2>1, <2>2, <2>3, <2>4
<1>8. d * (R * x) <= 2 * (n * x) + pd * x
  <2>1. (d * R) * x <= (2 * n + pd) * x
    BY <1>1, <1>2, <1>6, Times
  <2>2. (d * R) * x = d * (R * x) /\ (2 * n + pd) * x = 2 * (n * x) + pd * x
    <3> HIDE DEF d, n, x
    <3> QED
      BY <1>1, <1>2, <1>6
  <2> QED
    BY <2>1, <2>2
<1>9. pd * x <= 2 * (S * (L * pd * B))
  <2>1. x <= in * B
    BY <1>1, <1>5, Times
  <2>2. in * B <= ((2 * S) * L) * B
    BY Times
  <2>3. pd * x <= pd * (in * B) /\ pd * (in * B) <= pd * (((2 * S) * L) * B)
    BY <1>6, <2>1, <2>2, Times
  <2>4. pd * (((2 * S) * L) * B) = 2 * (S * (L * pd * B))
    OBVIOUS
  <2>5. pd * x \in Int /\ pd * (in * B) \in Int /\ S * (L * pd * B) \in Int
    BY <1>6
  <2> HIDE DEF x
  <2> QED
    BY <2>3, <2>4, <2>5
<1>10. d * (S * (B * (out + 1))) <= d * (R * x)
  <2>1. S * (B * (out + 1)) \in Int /\ R * x \in Int
    BY <1>2, <1>6
  <2> QED
    BY <1>1, <1>7, <2>1, Times
<1>11. n * x = S * (in * po * T)
  BY <1>1
<1>12. d * (S * (B * (out + 1))) = 2 * (S * (out * pd * B)) + 2 * (S * (pd * B))
  OBVIOUS
<1>13. S * (pd * B) > 0
  <2>1. pd * B \in Nat /\ pd * B > 0
    OBVIOUS
  <2> QED
    BY <2>1
<1>14. /\ in * po * T \in Int /\ out * pd * B \in Int /\ L * pd * B \in Int
       /\ S * (in * po * T) \in Int /\ S * (out * pd * B) \in Int /\ S * (L * pd * B) \in Int
       /\ S * (pd * B) \in Int /\ n * x \in Int /\ pd * x \in Int /\ d * (R * x) \in Int
       /\ d * (S * (B * (out + 1))) \in Int
  BY <1>1, <1>2, <1>6
<1>15. (out - L) * pd * B = out * pd * B - L * pd * B
  OBVIOUS
<1> HIDE DEF n, x, d
<1>16. S * (out * pd * B) < S * (in * po * T) + S * (L * pd * B)
  BY <1>8, <1>9, <1>10, <1>11, <1>12, <1>13, <1>14
<1>17. CASE in * po * T + L * pd * B <= out * pd * B
  <2>1. in * po * T + L * pd * B \in Int
    BY <1>14
  <2>2. S * (in * po * T + L * pd * B) <= S * (out * pd * B)
    BY <1>14, <1>17, <2>1, Times
  <2>3. S * (in * po * T + L * pd * B) = S * (in * po * T) + S * (L * pd * B)
    BY <1>14
  <2> QED
    BY <1>14, <1>16, <2>2, <2>3
<1> QED
  BY <1>14, <1>15, <1>17

LEMMA CeilingIsEnough ==
  ASSUME NEW in \in Nat, NEW S \in Nat, S > 0
  PROVE  \E L \in Nat : L = (in + 2 * S - 1) \div (2 * S) /\ in <= (2 * S) * L
<1>1. PICK d \in Nat : d = 2 * S /\ d > 0 /\ d \in Int
  OBVIOUS
<1>2. PICK L \in Int : L = (in + d - 1) \div d /\ in + d - 1 < d * L + d
  BY <1>1, Division
<1>3. d * L \in Int
  BY <1>1, <1>2
<1>4. in <= d * L
  BY <1>1, <1>2, <1>3
<1>5. L \in Nat
  <2>1. CASE L >= 0
    BY <1>2, <2>1
  <2>2. CASE L <= -1
    <3>1. L * d <= (-1) * d
      BY <1>1, <1>2, <2>2, Times
    <3>2. d * L = L * d
      BY <1>1, <1>2
    <3> QED
      BY <1>1, <1>3, <1>4, <3>1, <3>2
  <2> QED
    BY <1>2, <2>1, <2>2
<1> QED
  BY <1>1, <1>2, <1>4, <1>5

-----------------------------------------------------------------------------
\* What the first of the best is
LEMMA Least ==
  ASSUME NEW S \in SUBSET Nat, S # {}
  PROVE  Min(S) \in S /\ \A t \in S : Min(S) <= t
<1> DEFINE R == {p \in Nat \X Nat : p[1] < p[2]}
<1>1. IsWellFoundedOn(R, Nat)
  BY NatLessThanWellFounded DEF OpToRel
<1>2. \A x, y \in Nat : x < y => <<x, y>> \in R
  OBVIOUS
<1> HIDE DEF R
<1>3. S \subseteq Nat /\ S # {}
  OBVIOUS
<1>4. PICK m \in S : \A k \in S : ~(<<k, m>> \in R)
  BY <1>1, <1>3, WFMin
<1>5. \A k \in S : m <= k
  <2>1. \A k \in S : k \in Nat /\ m \in Nat /\ ~(k < m)
    BY <1>2, <1>3, <1>4
  <2> QED
    BY <2>1
<1> QED
  BY <1>4, <1>5 DEF Min

\* Among finitely many numbers one is the greatest: a smallest set without a
\* greatest one would still have none with one element less.
LEMMA Greatest ==
  ASSUME NEW S, IsFiniteSet(S), S # {}, NEW f \in [S -> Nat]
  PROVE  \E m \in S : \A k \in S : f[k] <= f[m]
<1> DEFINE Has(U) == \E m \in U : \A k \in U : f[k] <= f[m]
           T == {U \in SUBSET S : U # {} /\ ~Has(U)}
<1> SUFFICES ASSUME T # {} PROVE FALSE
  OBVIOUS
<1>1. IsWellFoundedOn(StrictSubsetOrdering(S), SUBSET S)
  BY FS_StrictSubsetOrderingWellFounded, FS_FiniteSubsetsOfFinite
<1>2. T \subseteq SUBSET S
  OBVIOUS
<1>3. PICK U \in T : \A V \in T : ~(<<V, U>> \in StrictSubsetOrdering(S))
  <2> HIDE DEF T, Has
  <2> QED
    BY <1>1, <1>2, WFMin
<1>4. PICK u \in U : TRUE
  OBVIOUS
<1>5. U \ {u} \notin T
  <2>1. <<U \ {u}, U>> \in StrictSubsetOrdering(S)
    BY <1>3, <1>4 DEF StrictSubsetOrdering
  <2> QED
    BY <1>3, <2>1
<1>6. U \in SUBSET S /\ ~Has(U) /\ u \in S
  BY <1>3, <1>4
<1>7. \A k \in S : f[k] \in Nat
  OBVIOUS
<1>8. CASE U \ {u} = {}
  BY <1>4, <1>6, <1>7, <1>8
<1>9. CASE U \ {u} # {}
  <2>1. PICK m \in U \ {u} : \A k \in U \ {u} : f[k] <= f[m]
    BY <1>5, <1>6, <1>9
  <2>2. CASE f[u] <= f[m]
    <3>1. \A k \in U : f[k] <= f[m]
      BY <2>1, <2>2
    <3> QED
      BY <1>6, <2>1, <3>1
  <2>3. CASE ~(f[u] <= f[m])
    <3>1. \A k \in U : f[k] <= f[u]
      <4> SUFFICES ASSUME NEW k \in U PROVE f[k] <= f[u]
        OBVIOUS
      <4>1. f[k] \in Nat /\ f[u] \in Nat /\ f[m] \in Nat
        BY <1>6, <1>7, <2>1
      <4> QED
        BY <2>1, <2>3, <4>1
    <3> QED
      BY <1>4, <1>6, <3>1
  <2> QED
    BY <2>2, <2>3
<1> QED
  BY <1>8, <1>9

LEMMA FirstOfBest ==
  ASSUME NEW n \in Nat, NEW S \in SUBSET (1..n), S # {}, NEW f \in [S -> Nat]
  PROVE  \E k \in S : /\ k = Min({i \in S : \A j \in S : f[j] <= f[i]})
                      /\ \A j \in S : f[j] <= f[k]
<1> DEFINE B == {i \in S : \A j \in S : f[j] <= f[i]}
<1>1. IsFiniteSet(S)
  <2>1. IsFiniteSet(1..n) /\ S \in SUBSET (1..n)
    BY FS_Interval
  <2> QED
    BY <2>1, FS_Subset
<1>2. B # {} /\ B \in SUBSET Nat
  <2>1. PICK m \in S : \A k \in S : f[k] <= f[m]
    <3> HIDE DEF B
    <3>1. IsFiniteSet(S) /\ S # {} /\ f \in [S -> Nat]
      BY <1>1
    <3> QED
      BY <3>1, Greatest
  <2>2. m \in B
    BY <2>1
  <2>3. B \subseteq 1..n
    OBVIOUS
  <2>4. 1..n \subseteq Nat
    OBVIOUS
  <2> QED
    BY <2>2, <2>3, <2>4
<1>3. Min(B) \in B
  BY <1>2, Least
<1> QED
  BY <1>3

-----------------------------------------------------------------------------
\* The quotes of the providers, and the one that is selected
LEMMA QuoteAmounts ==
  ASSUME NEW q \in Quote
  PROVE  q.amountIn \in Nat /\ q.amountOut \in Nat /\ q.providerId \in Providers
BY AmountsAssumption DEF Quote

LEMMA QuotesAreReplies ==
  ASSUME TypeOK
  PROVE  /\ Quotes \in Seq(Quote)
         /\ \A i \in DOMAIN Quotes : \E p \in DOMAIN replies : \E j \in DOMAIN replies[p].value :
              Quotes[i] = replies[p].value[j]
         /\ \A p \in Fulfilled : \A j \in DOMAIN replies[p].value : \E i \in DOMAIN Quotes :
              Quotes[i] = replies[p].value[j]
<1> DEFINE of(p) == IF p \in Fulfilled THEN replies[p].value ELSE <<>>
           a == of("solver-relay")
           b == of("one-click")
<1>0. \A p \in Fulfilled :
        /\ p \in DOMAIN replies /\ p \in {"solver-relay", "one-click"}
        /\ of(p) = replies[p].value
  BY DEF Fulfilled, TypeOK, Providers
<1>1. Quotes = a \o b
  BY DEF Quotes, QuoteProviders
<1>2. \A p : of(p) \in Seq(Quote) /\ \A j \in DOMAIN of(p) : p \in Fulfilled /\ of(p) = replies[p].value
  <2> SUFFICES ASSUME NEW p
               PROVE  /\ of(p) \in Seq(Quote)
                      /\ \A j \in DOMAIN of(p) : p \in Fulfilled /\ of(p) = replies[p].value
    OBVIOUS
  <2>1. CASE p \in Fulfilled
    BY <2>1 DEF TypeOK, Fulfilled, SettledResult
  <2>2. CASE p \notin Fulfilled
    <3>1. of(p) = <<>>
      BY <2>2
    <3>2. <<>> \in Seq(Quote) /\ DOMAIN <<>> = {}
      OBVIOUS
    <3> HIDE DEF of
    <3> QED
      BY <3>1, <3>2
  <2> QED
    BY <2>1, <2>2
<1>3. a \in Seq(Quote) /\ b \in Seq(Quote)
  BY <1>2
<1> HIDE DEF of
<1>4. /\ a \o b \in Seq(Quote) /\ Len(a \o b) = Len(a) + Len(b)
      /\ Len(a) \in Nat /\ Len(b) \in Nat
      /\ DOMAIN a = 1..Len(a) /\ DOMAIN b = 1..Len(b) /\ DOMAIN (a \o b) = 1..(Len(a) + Len(b))
      /\ \A i \in 1..Len(a) + Len(b) : (a \o b)[i] = IF i <= Len(a) THEN a[i] ELSE b[i - Len(a)]
  <2> HIDE DEF a, b
  <2>1. a \o b \in Seq(Quote) /\ Len(a \o b) = Len(a) + Len(b)
        /\ \A i \in 1..Len(a) + Len(b) : (a \o b)[i] = IF i <= Len(a) THEN a[i] ELSE b[i - Len(a)]
    BY <1>3, ConcatProperties
  <2> QED
    BY <1>3, <2>1, LenProperties
<1>5. ASSUME NEW i \in DOMAIN Quotes
      PROVE  \E p \in DOMAIN replies : \E j \in DOMAIN replies[p].value : Quotes[i] = replies[p].value[j]
  <2>1. i \in 1..(Len(a) + Len(b)) /\ Quotes[i] = IF i <= Len(a) THEN a[i] ELSE b[i - Len(a)]
    BY <1>1, <1>4, <1>5
  <2>2. CASE i <= Len(a)
    <3>1. i \in DOMAIN a /\ Quotes[i] = a[i]
      BY <1>4, <2>1, <2>2
    <3> QED
      BY <1>0, <1>2, <3>1
  <2>3. CASE ~(i <= Len(a))
    <3>1. i - Len(a) \in DOMAIN b /\ Quotes[i] = b[i - Len(a)]
      BY <1>4, <2>1, <2>3
    <3> QED
      BY <1>0, <1>2, <3>1
  <2> QED
    BY <2>2, <2>3
<1>6. ASSUME NEW p \in Fulfilled, NEW j \in DOMAIN replies[p].value
      PROVE  \E i \in DOMAIN Quotes : Quotes[i] = replies[p].value[j]
  <2>1. CASE p = "solver-relay"
    <3>1. replies[p].value = a /\ j \in 1..Len(a)
      BY <1>0, <1>4, <1>6, <2>1
    <3>2. j \in 1..(Len(a) + Len(b)) /\ (a \o b)[j] = a[j]
      <4> HIDE DEF a, b
      <4> QED
        BY <1>4, <3>1
    <3> QED
      BY <1>1, <1>4, <3>1, <3>2
  <2>2. CASE p = "one-click"
    <3>1. replies[p].value = b /\ j \in 1..Len(b)
      BY <1>0, <1>4, <1>6, <2>2
    <3>2. Len(a) + j \in 1..(Len(a) + Len(b)) /\ (a \o b)[Len(a) + j] = b[j]
      <4> HIDE DEF a, b
      <4> QED
        BY <1>4, <3>1
    <3> QED
      BY <1>1, <1>4, <3>1, <3>2
  <2> QED
    BY <1>0, <1>6, <2>1, <2>2
<1> QED
  BY <1>1, <1>4, <1>5, <1>6

\* A rejected request offers nothing, so what is offered is what is compared.
LEMMA OffersAreQuotes ==
  ASSUME TypeOK, RepliesOK
  PROVE  /\ \A q \in Offers : \E i \in DOMAIN Quotes : Quotes[i] = q
         /\ \A i \in DOMAIN Quotes : Quotes[i] \in Offers
<1>1. ASSUME NEW q \in Offers PROVE \E i \in DOMAIN Quotes : Quotes[i] = q
  <2>1. PICK p \in DOMAIN replies : q \in {replies[p].value[i] : i \in DOMAIN replies[p].value}
    BY <1>1 DEF Offers
  <2>2. PICK j \in DOMAIN replies[p].value : q = replies[p].value[j]
    BY <2>1
  <2>3. p \in Fulfilled
    BY <2>2 DEF RepliesOK
  <2> QED
    BY <2>2, <2>3, QuotesAreReplies
<1>2. ASSUME NEW i \in DOMAIN Quotes PROVE Quotes[i] \in Offers
  <2>1. PICK p \in DOMAIN replies : \E j \in DOMAIN replies[p].value : Quotes[i] = replies[p].value[j]
    BY QuotesAreReplies
  <2> QED
    BY <2>1 DEF Offers
<1> QED
  BY <1>1, <1>2

LEMMA BestIsSelected ==
  ASSUME TypeOK, command \in Command, ExecutableQuotes # {}
  PROVE  \E k \in ExecutableQuotes :
           /\ SelectBestExecutableQuote = Quotes[k]
           /\ \A j \in ExecutableQuotes : RankedBy(command, Quotes[j]) <= RankedBy(command, Quotes[k])
<1> DEFINE f == [i \in ExecutableQuotes |-> RankedBy(command, Quotes[i])]
<1>1. /\ Len(Quotes) \in Nat /\ ExecutableQuotes \in SUBSET (1..Len(Quotes))
      /\ \A i \in ExecutableQuotes : Quotes[i] \in Quote
  BY QuotesAreReplies, LenProperties, ElementOfSeq DEF ExecutableQuotes
<1>2. f \in [ExecutableQuotes -> Nat]
  BY <1>1, QuoteAmounts DEF RankedBy
<1>3. \A i \in ExecutableQuotes : f[i] = RankedBy(command, Quotes[i])
  OBVIOUS
<1> HIDE DEF f
<1>4. PICK k \in ExecutableQuotes :
        /\ k = Min({i \in ExecutableQuotes : \A j \in ExecutableQuotes : f[j] <= f[i]})
        /\ \A j \in ExecutableQuotes : f[j] <= f[k]
  BY <1>1, <1>2, FirstOfBest
<1>5. {i \in ExecutableQuotes : \A j \in ExecutableQuotes : f[j] <= f[i]}
        = {i \in ExecutableQuotes : \A j \in ExecutableQuotes :
             RankedBy(command, Quotes[j]) <= RankedBy(command, Quotes[i])}
  BY <1>3
<1>6. SelectBestExecutableQuote = Quotes[k]
  BY <1>4, <1>5 DEF SelectBestExecutableQuote
<1> QED
  BY <1>3, <1>4, <1>6

-----------------------------------------------------------------------------
\* The invariant holds of the initial state, and every step keeps it.
LEMMA InvInit == Init => IInv
<1> SUFFICES ASSUME Init PROVE IInv
  OBVIOUS
<1>1. DOMAIN replies = {}
  BY DEF Init
<1>2. TypeOK
  BY <1>1 DEF Init, TypeOK
<1>3. CommandOK /\ RepliesOK /\ DecisionOK /\ OutcomeOK
  BY <1>1 DEF Init, CommandOK, RepliesOK, DecisionOK, OutcomeOK, Stages
<1> QED
  BY <1>2, <1>3 DEF IInv

LEMMA BeginStep ==
  ASSUME IInv, NEW c \in Command, Reject(c) \/ Ask(c)
  PROVE  IInv'
<1>1. /\ stage = "idle" /\ command' = c /\ package' = None /\ DOMAIN replies' = {}
      /\ stage' \in {"rejected", "asking"}
  BY DEF Reject, Ask, IInv, TypeOK, CommandOK, OutcomeOK, Approved
<1>2. /\ asked' \subseteq Providers /\ events' \subseteq {"attempted", "failed", "succeeded"}
      /\ stage' = "asking" => Valid(c) /\ asked' = Receivers(c)
      /\ stage' = "rejected" => asked' = {}
  <2>1. Receivers(c) \subseteq Providers
    BY DEF Receivers, SupportsExternalRecipient, Providers
  <2> QED
    BY <2>1 DEF Reject, Ask, IInv, TypeOK, CommandOK
<1>3. TypeOK'
  BY <1>1, <1>2 DEF TypeOK
<1>4. CommandOK'
  BY <1>1, <1>2 DEF CommandOK, Stages
<1>5. RepliesOK' /\ DecisionOK' /\ OutcomeOK'
  BY <1>1 DEF RepliesOK, DecisionOK, OutcomeOK
<1> QED
  BY <1>3, <1>4, <1>5 DEF IInv

LEMMA SettleStep ==
  ASSUME IInv, NEW p \in Providers, NEW result \in SettledResult, ReplyOf(p, result.value),
         result.status = "rejected" => DOMAIN result.value = {}, Settle(p, result)
  PROVE  IInv'
<1>1. /\ p \in asked \ DOMAIN replies
      /\ UNCHANGED <<command, asked, stage, package, events>>
  BY DEF Settle
<1>2. stage = "asking" /\ package = None
  BY <1>1 DEF IInv, CommandOK, DecisionOK, OutcomeOK, Approved
<1>3. /\ DOMAIN replies' = DOMAIN replies \cup {p} /\ replies'[p] = result
      /\ \A q \in DOMAIN replies : q # p => replies'[q] = replies[q]
  BY DEF Settle
<1>4. \A q \in DOMAIN replies' :
        /\ replies'[q] \in SettledResult /\ ReplyOf(q, replies'[q].value)
        /\ replies'[q].status # "fulfilled" => DOMAIN replies'[q].value = {}
  BY <1>3 DEF IInv, TypeOK, RepliesOK, Fulfilled, SettledResult
<1>5. TypeOK'
  BY <1>1, <1>2, <1>3, <1>4 DEF IInv, TypeOK
<1>6. CommandOK'
  BY <1>1 DEF IInv, CommandOK, Valid, Receivers
<1>7. RepliesOK'
  BY <1>1, <1>4 DEF RepliesOK, ReplyOf, Fulfilled
<1>8. DecisionOK' /\ OutcomeOK'
  BY <1>1, <1>2 DEF DecisionOK, OutcomeOK
<1> QED
  BY <1>5, <1>6, <1>7, <1>8 DEF IInv

LEMMA AnswerStep ==
  ASSUME IInv, NEW p \in Providers, NEW quotes \in Seq(Quote), ReplyOf(p, quotes), Answers(p, quotes)
  PROVE  IInv'
<1>1. PICK result : result = [status |-> "fulfilled", value |-> quotes]
  OBVIOUS
<1>2. result \in SettledResult /\ result.value = quotes /\ result.status = "fulfilled"
  BY <1>1 DEF SettledResult
<1> QED
  BY <1>1, <1>2, SettleStep DEF Answers

LEMMA FailureStep ==
  ASSUME IInv, NEW p \in Providers, ProviderFails(p)
  PROVE  IInv'
<1>1. PICK result : result = [status |-> "rejected", value |-> <<>>]
  OBVIOUS
<1>2. result \in SettledResult /\ result.value = <<>> /\ DOMAIN result.value = {}
  BY <1>1 DEF SettledResult
<1> QED
  BY <1>1, <1>2, SettleStep DEF ProviderFails, ReplyOf

\* The quotes a provider makes of the amounts it names
LEMMA ProviderQuotes ==
  ASSUME command \in Command, NEW quoted \in QuotedAmounts, NEW hashes \in BOOLEAN, NEW deposit \in BOOLEAN
  PROVE  \A q \in {SolverQuote(command, quoted), OneClickQuote(command, quoted, hashes, deposit)} :
           q \in Quote /\ (command.swapType = "EXACT_INPUT" => q.amountIn = Amount)
<1>1. /\ AmountsOf(command, quoted).in \in QuotedAmounts \cup {Amount}
      /\ AmountsOf(command, quoted).out \in QuotedAmounts \cup {Amount}
      /\ command.swapType = "EXACT_INPUT" => AmountsOf(command, quoted).in = Amount
  BY DEF AmountsOf
<1>2. PICK in, out \in QuotedAmounts \cup {Amount} :
        in = AmountsOf(command, quoted).in /\ out = AmountsOf(command, quoted).out
  BY <1>1
<1>3. /\ SolverQuote(command, quoted) \in Quote
      /\ SolverQuote(command, quoted).amountIn = in
  BY <1>2 DEF SolverQuote, Quote, Providers
<1>4. /\ OneClickQuote(command, quoted, hashes, deposit) \in Quote
      /\ OneClickQuote(command, quoted, hashes, deposit).amountIn = in
  BY <1>2 DEF OneClickQuote, Quote, Providers
<1> QED
  BY <1>1, <1>2, <1>3, <1>4

LEMMA RepliesStep ==
  ASSUME IInv, SolverReplies \/ OneClickReplies \/ \E p \in Providers : ProviderFails(p)
  PROVE  IInv'
<1>1. command \in Command
  BY DEF SolverReplies, OneClickReplies, ProviderFails, Answers, Settle, IInv, CommandOK
<1>2. \A p : <<>> \in Seq(Quote) /\ ReplyOf(p, <<>>)
  BY DEF ReplyOf
<1>3. "solver-relay" \in Providers /\ "one-click" \in Providers
  BY DEF Providers
<1>4. CASE SolverReplies
  <2>0. PICK n \in 0..MaxQuotes : \E quoted \in [1..n -> QuotedAmounts] :
          Answers("solver-relay", [i \in 1..n |-> SolverQuote(command, quoted[i])])
    BY <1>4 DEF SolverReplies
  <2>1. PICK quoted \in [1..n -> QuotedAmounts] :
          Answers("solver-relay", [i \in 1..n |-> SolverQuote(command, quoted[i])])
    BY <2>0
  <2>2. n \in Nat
    BY BoundsAssumption
  <2>3. PICK quotes : quotes = [i \in 1..n |-> SolverQuote(command, quoted[i])]
    OBVIOUS
  <2>4. \A i \in 1..n : /\ SolverQuote(command, quoted[i]) \in Quote
                        /\ SolverQuote(command, quoted[i]).providerId = "solver-relay"
                        /\ command.swapType = "EXACT_INPUT" =>
                             SolverQuote(command, quoted[i]).amountIn = Amount
    <3> SUFFICES ASSUME NEW i \in 1..n
                 PROVE  /\ SolverQuote(command, quoted[i]) \in Quote
                        /\ SolverQuote(command, quoted[i]).providerId = "solver-relay"
                        /\ command.swapType = "EXACT_INPUT" =>
                             SolverQuote(command, quoted[i]).amountIn = Amount
      OBVIOUS
    <3>1. quoted[i] \in QuotedAmounts /\ TRUE \in BOOLEAN
      OBVIOUS
    <3>2. SolverQuote(command, quoted[i]).providerId = "solver-relay"
      BY DEF SolverQuote
    <3> QED
      BY <1>1, <3>1, <3>2, ProviderQuotes
  <2>5. DOMAIN quotes = 1..n /\ \A i \in 1..n : quotes[i] = SolverQuote(command, quoted[i])
    BY <2>3
  <2>6. quotes \in Seq(Quote)
    <3>1. quotes \in [1..n -> Quote]
      BY <2>3, <2>4
    <3> QED
      BY <2>2, <3>1
  <2>7. ReplyOf("solver-relay", quotes)
    BY <2>4, <2>5 DEF ReplyOf
  <2> QED
    BY <1>3, <2>1, <2>3, <2>6, <2>7, AnswerStep
<1>5. CASE OneClickReplies
  <2>1. CASE Answers("one-click", <<>>)
    BY <1>2, <1>3, <2>1, AnswerStep
  <2>2. ASSUME NEW quoted \in QuotedAmounts, NEW hashes \in BOOLEAN, NEW deposit \in BOOLEAN,
               Answers("one-click", <<OneClickQuote(command, quoted, hashes, deposit)>>)
        PROVE  IInv'
    <3>1. PICK q : q = OneClickQuote(command, quoted, hashes, deposit)
      OBVIOUS
    <3>2. q \in Quote /\ (command.swapType = "EXACT_INPUT" => q.amountIn = Amount)
      BY <1>1, <3>1, ProviderQuotes
    <3>3. q.providerId = "one-click"
      BY <3>1 DEF OneClickQuote
    <3>4. <<q>> \in Seq(Quote) /\ DOMAIN <<q>> = {1} /\ <<q>>[1] = q
      BY <3>2
    <3>5. ReplyOf("one-click", <<q>>)
      BY <3>2, <3>3, <3>4 DEF ReplyOf
    <3> QED
      BY <1>3, <2>2, <3>1, <3>4, <3>5, AnswerStep
  <2> QED
    BY <1>5, <2>1, <2>2 DEF OneClickReplies
<1>6. CASE \E p \in Providers : ProviderFails(p)
  BY <1>6, FailureStep
<1> QED
  BY <1>4, <1>5, <1>6

\* What does not touch the command and the replies leaves the selection alone.
LEMMA SameSelection ==
  ASSUME IInv, UNCHANGED <<command, asked, replies>>
  PROVE  /\ Quotes' = Quotes /\ ExecutableQuotes' = ExecutableQuotes
         /\ SelectBestExecutableQuote' = SelectBestExecutableQuote
         /\ \A p, quotes : ReplyOf(p, quotes)' <=> ReplyOf(p, quotes)
<1>1. Quotes' = Quotes
  BY DEF Quotes, Fulfilled
<1>2. ExecutableQuotes' = ExecutableQuotes
  BY <1>1 DEF ExecutableQuotes
<1>3. SelectBestExecutableQuote' = SelectBestExecutableQuote
  BY <1>1, <1>2 DEF SelectBestExecutableQuote
<1> QED
  BY <1>1, <1>2, <1>3 DEF ReplyOf

\* How a call ends, given what becomes of the package
LEMMA EndStep ==
  ASSUME IInv, UNCHANGED <<command, asked, replies>>, stage \notin {"idle", "rejected"},
         stage' \in Stages \ {"idle", "rejected"},
         events' \subseteq {"attempted", "failed", "succeeded"},
         \/ package' = None
         \/ /\ stage' \in Approved /\ ExecutableQuotes # {}
            /\ package' = SelectBestExecutableQuote /\ WithinTolerance(command, package'),
         DOMAIN replies = asked,
         stage' = "unavailable" => Quotes = <<>>,
         stage' = "insufficient_liquidity" => ExecutableQuotes = {},
         stage' = "slippage_exceeded" =>
           ExecutableQuotes # {} /\ ~WithinTolerance(command, SelectBestExecutableQuote)
  PROVE  IInv'
<1>1. /\ Quotes' = Quotes /\ ExecutableQuotes' = ExecutableQuotes
      /\ SelectBestExecutableQuote' = SelectBestExecutableQuote
  BY SameSelection
<1>2. command \in Command /\ Valid(command) /\ asked = Receivers(command)
  BY DEF IInv, CommandOK
<1>3. package' = None \/ \E i \in DOMAIN Quotes : Quotes[i] = package'
  <2>1. ExecutableQuotes # {} => \E k \in ExecutableQuotes : SelectBestExecutableQuote = Quotes[k]
    BY <1>2, BestIsSelected DEF IInv
  <2>2. ExecutableQuotes \subseteq DOMAIN Quotes
    BY DEF ExecutableQuotes
  <2> QED
    BY <2>1, <2>2
<1>4. TypeOK'
  BY <1>1, <1>2, <1>3 DEF IInv, TypeOK
<1>5. CommandOK'
  BY <1>2 DEF CommandOK, Valid, Receivers
<1>6. RepliesOK' /\ DecisionOK'
  BY SameSelection DEF IInv, RepliesOK, ReplyOf, DecisionOK, Fulfilled
<1>7. OutcomeOK'
  BY <1>1 DEF OutcomeOK, WithinTolerance, Priced, MinAcceptableOut
<1> QED
  BY <1>4, <1>5, <1>6, <1>7 DEF IInv

LEMMA InvStep == IInv /\ [Next]_vars => IInv'
<1> SUFFICES ASSUME IInv, [Next]_vars PROVE IInv'
  OBVIOUS
<1> USE DEF Stages, Approved
<1>1. ASSUME NEW c \in Command, Reject(c) \/ Ask(c) PROVE IInv'
  BY <1>1, BeginStep
<1>2. CASE SolverReplies \/ OneClickReplies \/ \E p \in Providers : ProviderFails(p)
  BY <1>2, RepliesStep
<1>3. events \subseteq {"attempted", "failed", "succeeded"}
  BY DEF IInv, TypeOK
<1>4. CASE ProvidersUnavailable
  <2>1. /\ stage = "asking" /\ DOMAIN replies = asked /\ stage' = "unavailable" /\ package = None
        /\ UNCHANGED <<command, asked, replies, package>>
        /\ events' \subseteq {"attempted", "failed", "succeeded"} /\ Quotes = <<>>
    BY <1>3, <1>4 DEF ProvidersUnavailable, Settled, IInv, OutcomeOK
  <2> QED
    BY <2>1, EndStep
<1>5. CASE InsufficientLiquidity
  <2>1. /\ stage = "asking" /\ DOMAIN replies = asked /\ stage' = "insufficient_liquidity" /\ package = None
        /\ UNCHANGED <<command, asked, replies, package, events>> /\ ExecutableQuotes = {}
    BY <1>5 DEF InsufficientLiquidity, Settled, IInv, OutcomeOK
  <2> QED
    BY <1>3, <2>1, EndStep
<1>6. CASE SlippageExceeded
  <2>1. /\ stage = "asking" /\ DOMAIN replies = asked /\ stage' = "slippage_exceeded" /\ package = None
        /\ UNCHANGED <<command, asked, replies, package, events>>
        /\ ExecutableQuotes # {} /\ ~WithinTolerance(command, SelectBestExecutableQuote)
    BY <1>6 DEF SlippageExceeded, Settled, IInv, OutcomeOK
  <2> QED
    BY <1>3, <2>1, EndStep
<1>7. CASE Approve
  <2>1. /\ stage = "asking" /\ DOMAIN replies = asked /\ stage' = "prepared"
        /\ UNCHANGED <<command, asked, replies>>
        /\ package' = SelectBestExecutableQuote /\ WithinTolerance(command, SelectBestExecutableQuote)
        /\ ExecutableQuotes # {} /\ events' \subseteq {"attempted", "failed", "succeeded"}
    BY <1>3, <1>7 DEF Approve, Settled
  <2>2. WithinTolerance(command, package')
    BY <2>1
  <2> QED
    BY <2>1, <2>2, EndStep
<1>8. CASE Deposit \/ Publish \/ UnsupportedProvider
  <2>1. /\ stage = "prepared" /\ stage' \in Approved /\ DOMAIN replies = asked
        /\ UNCHANGED <<command, asked, replies, package, events>>
    BY <1>8 DEF Deposit, Publish, UnsupportedProvider, IInv, DecisionOK
  <2>2. package # None =>
          /\ ExecutableQuotes # {} /\ package' = SelectBestExecutableQuote
          /\ WithinTolerance(command, package')
    BY <2>1 DEF IInv, OutcomeOK
  <2> QED
    BY <1>3, <2>1, <2>2, EndStep
<1>9. CASE UNCHANGED vars
  <2>1. UNCHANGED <<command, asked, replies, stage, package, events>>
    BY <1>9 DEF vars
  <2>2. /\ Quotes' = Quotes /\ ExecutableQuotes' = ExecutableQuotes
        /\ SelectBestExecutableQuote' = SelectBestExecutableQuote
    BY <2>1, SameSelection
  <2>3. TypeOK' /\ CommandOK'
    BY <2>1, <2>2 DEF IInv, TypeOK, CommandOK, Valid, Receivers
  <2>4. RepliesOK' /\ DecisionOK' /\ OutcomeOK'
    BY <2>1, <2>2 DEF IInv, RepliesOK, ReplyOf, Fulfilled, DecisionOK, OutcomeOK, WithinTolerance
  <2> QED
    BY <2>3, <2>4 DEF IInv
<1> QED
  BY <1>1, <1>2, <1>4, <1>5, <1>6, <1>7, <1>8, <1>9 DEF Next

LEMMA Invariance == Spec => []IInv
BY InvInit, InvStep, PTL DEF Spec

\* The types of the variables; only providers that were asked have answered,
\* and the package is one of their quotes.
THEOREM TypeCorrect == Spec => []TypeOK
<1>1. IInv => TypeOK
  BY DEF IInv
<1> QED
  BY <1>1, Invariance, PTL

\* An approved quote is one of a reply, selected among the executable ones.
LEMMA ApprovedQuote ==
  ASSUME IInv, package # None
  PROVE  /\ command \in Command /\ Valid(command) /\ asked = Receivers(command)
         /\ package \in Quote /\ package.providerId \in asked
         /\ IsExecutable(package) /\ WithinTolerance(command, package)
         /\ \A j \in ExecutableQuotes : RankedBy(command, Quotes[j]) <= RankedBy(command, package)
<1>1. /\ command \in Command /\ Valid(command) /\ asked = Receivers(command) /\ TypeOK
      /\ ExecutableQuotes # {} /\ package = SelectBestExecutableQuote
      /\ WithinTolerance(command, package)
  BY DEF IInv, CommandOK, OutcomeOK, Approved
<1>2. PICK k \in ExecutableQuotes :
        /\ SelectBestExecutableQuote = Quotes[k]
        /\ \A j \in ExecutableQuotes : RankedBy(command, Quotes[j]) <= RankedBy(command, Quotes[k])
  BY <1>1, BestIsSelected
<1>3. k \in DOMAIN Quotes /\ IsExecutable(Quotes[k])
  BY <1>2 DEF ExecutableQuotes
<1>4. PICK p \in DOMAIN replies : \E j \in DOMAIN replies[p].value : Quotes[k] = replies[p].value[j]
  BY <1>1, <1>3, QuotesAreReplies
<1>5. PICK j \in DOMAIN replies[p].value : Quotes[k] = replies[p].value[j]
  BY <1>4
<1>6. package.providerId = p /\ p \in asked
  BY <1>1, <1>2, <1>4, <1>5 DEF IInv, RepliesOK, ReplyOf, TypeOK
<1>7. package \in Quote
  BY <1>1, <1>2, <1>3, QuotesAreReplies, LenProperties, ElementOfSeq
<1> QED
  BY <1>1, <1>2, <1>3, <1>6, <1>7

LEMMA PartyOf ==
  ASSUME NEW c \in Command
  PROVE  \E p \in Parties : c.party = ToCommand(p)
BY DEF Command

\* Whoever is paid by an approved swap is the signer, or has an address that
\* can receive on the destination, and then it is a provider that pays others
\* that was approved (collectQuotes, SwapRequestValidationService).
THEOREM RecipientTheorem == Spec => []ForeignRecipientsUseOneClick
<1>1. IInv => ForeignRecipientsUseOneClick
  <2> SUFFICES ASSUME IInv, package # None,
                      command.party.recipient.text # command.party.signer.text
               PROVE  /\ package.providerId \in SupportsExternalRecipient
                      /\ command.party.recipient.form \in
                           FormsOf(command.destination.network) \cup
                           IF command.party.recipientType = "INTENTS" THEN NearForms ELSE {}
    BY DEF ForeignRecipientsUseOneClick
  <2>1. /\ command \in Command /\ Valid(command) /\ asked = Receivers(command)
        /\ package.providerId \in asked
    BY ApprovedQuote
  <2>2. command.party.authMethod \in {"evm", "near"}
    <3>1. PICK p \in Parties : command.party = ToCommand(p)
      BY <2>1, PartyOf
    <3>2. command.party.authMethod = p.authMethod
      BY <3>1 DEF ToCommand
    <3> QED
      BY <3>2, PartiesAssumption
  <2>3. IsExternalRecipient(command)
    BY <2>2 DEF IsExternalRecipient, areEquivalent
  <2>4. asked = SupportsExternalRecipient
    BY <2>1, <2>3 DEF Receivers
  <2>5. IsRecipient(command.party.recipient, command.party.recipientType, command.destination.network)
    BY <2>1, <2>3 DEF Valid, ValidParty
  <2> QED
    BY <2>1, <2>4, <2>5 DEF IsRecipient
<1> QED
  BY <1>1, Invariance, PTL

\* Whatever the order in which the requests settle and whichever of them
\* fails, the outcome of a call rests on every offer its providers ever make
\* (collectQuotes, Promise.allSettled).
THEOREM OffersTheorem == Spec => []NoOfferIsLost
<1>1. IInv => NoOfferIsLost
  <2> SUFFICES ASSUME IInv PROVE NoOfferIsLost
    OBVIOUS
  <2>1. /\ \A q \in Offers : \E i \in DOMAIN Quotes : Quotes[i] = q
        /\ \A i \in DOMAIN Quotes : Quotes[i] \in Offers
    BY OffersAreQuotes DEF IInv
  <2>2. \A q \in Offers : IsExecutable(q) => \E i \in ExecutableQuotes : Quotes[i] = q
    BY <2>1 DEF ExecutableQuotes
  <2>3. stage = "unavailable" => Offers = {}
    <3>1. stage = "unavailable" => Quotes = <<>>
      BY DEF IInv, OutcomeOK
    <3>2. DOMAIN <<>> = {}
      OBVIOUS
    <3> QED
      BY <2>1, <3>1, <3>2
  <2>4. stage = "insufficient_liquidity" => \A q \in Offers : ~IsExecutable(q)
    BY <2>2 DEF IInv, OutcomeOK
  <2>5. ASSUME package # None, command.swapType = "EXACT_INPUT"
        PROVE  /\ package \in Offers /\ IsExecutable(package)
               /\ \A q \in Offers : IsExecutable(q) => q.amountOut <= package.amountOut
    <3>1. package \in Offers
      BY <2>1, <2>5 DEF IInv, TypeOK
    <3>2. \A j \in ExecutableQuotes : Quotes[j].amountOut <= package.amountOut
      BY <2>5, ApprovedQuote DEF RankedBy
    <3> QED
      BY <2>2, <2>5, <3>1, <3>2, ApprovedQuote
  <2> QED
    BY <2>3, <2>4, <2>5 DEF NoOfferIsLost
<1> QED
  BY <1>1, Invariance, PTL

\* With a given input a swap is refused for its slippage only if no executable
\* quote that is ever offered is worth its input less the tolerance, but for
\* the rounding of the ratio: one unit in two million of the input (both
\* policies, in sequence).
THEOREM RefusalTheorem == Spec => []NoNeedlessRefusal
<1>1. IInv => NoNeedlessRefusal
  <2> SUFFICES ASSUME IInv, stage = "slippage_exceeded", command.swapType = "EXACT_INPUT"
               PROVE  /\ Priced(command)
                      /\ \A q \in Offers : IsExecutable(q) => ~WorthItsInput(command, q, -RatioLoss(q))
    BY DEF NoNeedlessRefusal
  <2>1. /\ command \in Command /\ Valid(command) /\ TypeOK
        /\ ExecutableQuotes # {} /\ ~WithinTolerance(command, SelectBestExecutableQuote)
    BY DEF IInv, CommandOK, OutcomeOK
  <2>2. PICK k \in ExecutableQuotes :
          /\ SelectBestExecutableQuote = Quotes[k]
          /\ \A j \in ExecutableQuotes : RankedBy(command, Quotes[j]) <= RankedBy(command, Quotes[k])
    BY <2>1, BestIsSelected
  <2>3. \A j \in ExecutableQuotes : Quotes[j] \in Quote /\ Quotes[j].amountIn = Amount
    <3> SUFFICES ASSUME NEW j \in ExecutableQuotes PROVE Quotes[j] \in Quote /\ Quotes[j].amountIn = Amount
      OBVIOUS
    <3>1. j \in DOMAIN Quotes
      BY DEF ExecutableQuotes
    <3>2. Quotes[j] \in Quote
      BY <2>1, <3>1, QuotesAreReplies, LenProperties, ElementOfSeq
    <3>3. \E p \in DOMAIN replies : \E l \in DOMAIN replies[p].value : Quotes[j] = replies[p].value[l]
      BY <2>1, <3>1, QuotesAreReplies
    <3> QED
      BY <3>2, <3>3 DEF IInv, RepliesOK, ReplyOf
  <2>4. PICK best \in Quote : best = Quotes[k] /\ best.amountIn = Amount
    BY <2>3
  <2>5. Priced(command) /\ best.amountOut > 0 /\ ~(best.amountOut >= MinAcceptableOut(command, best))
    BY <2>1, <2>2, <2>4 DEF WithinTolerance
  <2>6. ASSUME NEW q \in Offers, IsExecutable(q) PROVE ~WorthItsInput(command, q, -RatioLoss(q))
    <3>1. PICK i \in ExecutableQuotes : Quotes[i] = q
      BY <2>1, <2>6, OffersAreQuotes DEF IInv, ExecutableQuotes
    <3>2. q \in Quote /\ q.amountIn = Amount /\ q.amountOut <= best.amountOut
      BY <2>2, <2>3, <2>4, <3>1 DEF RankedBy
    <3>3. PICK in, out, top, po, pd, tolerance :
            /\ in = Amount /\ out = q.amountOut /\ top = best.amountOut
            /\ po = command.origin.price /\ pd = command.destination.price
            /\ tolerance = command.slippageTolerance
      OBVIOUS
    <3>4. /\ in \in Nat /\ out \in Nat /\ top \in Nat /\ out <= top
          /\ po \in Nat /\ pd \in Nat /\ po > 0 /\ pd > 0 /\ tolerance \in Nat
      BY <2>1, <2>4, <2>5, <3>2, <3>3, QuoteAmounts, AmountsAssumption, AssetsAssumption, BoundsAssumption
         DEF Command, Valid, Priced
    <3>5. PICK S, B \in Nat : S = PriceScale /\ B = 10000 /\ S > 0 /\ B > 0
      BY DEF PriceScale
    <3>6. PICK R \in Int : R = MathRound(po * S, pd)
      BY <3>4, <3>5 DEF MathRound
    <3>7. PICK E \in Int : E = (in * R) \div S
      BY <3>4, <3>5, Division
    <3>8. ~(top >= (E * (B - tolerance)) \div B)
      BY <2>4, <2>5, <3>3, <3>5, <3>6, <3>7 DEF MinAcceptableOut
    <3>9. PICK M \in Int : M = (E * (B - tolerance)) \div B /\ B * M <= E * (B - tolerance)
      <4>1. E * (B - tolerance) \in Int
        BY <3>4, <3>5
      <4> QED
        BY <3>5, <4>1, Division
    <3>10. PICK L \in Nat : L = (in + 2 * S - 1) \div (2 * S) /\ in <= (2 * S) * L
      BY <3>4, <3>5, CeilingIsEnough
    <3>11. (out - L) * pd * B < in * po * (B - tolerance)
      <4>1. /\ S > 0 /\ B > 0 /\ in \in Nat /\ po \in Nat /\ pd \in Nat /\ pd > 0
            /\ out \in Nat /\ top \in Nat /\ out <= top /\ tolerance \in Nat
            /\ R = MathRound(po * S, pd) /\ E = (in * R) \div S
            /\ B * M <= E * (B - tolerance) /\ ~(top >= M) /\ in <= (2 * S) * L
        BY <3>4, <3>5, <3>6, <3>7, <3>8, <3>9, <3>10
      <4> QED
        BY <4>1, RefusedValue
    <3>12. L = RatioLoss(q)
      BY <3>2, <3>3, <3>5, <3>10 DEF RatioLoss
    <3>13. (out + (-RatioLoss(q))) * pd * B = (out - L) * pd * B
      BY <3>4, <3>12
    <3>14. (out - L) * pd * B \in Int /\ in * po * (B - tolerance) \in Int
      BY <3>4, <3>5, <3>10
    <3> QED
      BY <3>2, <3>3, <3>5, <3>11, <3>13, <3>14 DEF WorthItsInput
  <2> QED
    BY <2>5, <2>6
<1> QED
  BY <1>1, Invariance, PTL

\* When the best quote pays nothing, none does.
LEMMA NothingIsOffered ==
  ASSUME IInv, package # None, command.swapType = "EXACT_INPUT", package.amountOut = 0
  PROVE  \A q \in Offers : IsExecutable(q) => q.amountOut = 0
<1> SUFFICES ASSUME NEW q \in Offers, IsExecutable(q) PROVE q.amountOut = 0
  OBVIOUS
<1>1. PICK i \in ExecutableQuotes : Quotes[i] = q
  BY OffersAreQuotes DEF IInv, ExecutableQuotes
<1>2. q.amountOut <= package.amountOut
  BY <1>1, ApprovedQuote DEF RankedBy
<1>3. q \in Quote
  BY <1>1, QuotesAreReplies, LenProperties, ElementOfSeq DEF IInv, ExecutableQuotes
<1> QED
  BY <1>2, <1>3, QuoteAmounts

\* Between priced assets an approved quote is worth what it takes, less the
\* tolerance and the loss in rounding, or it pays nothing, and with a given
\* input nobody offers to pay anything; it is stated for equal decimals, where
\* the prices say what an amount is worth (assertWithinTolerance).
THEOREM SlippageTheorem == Spec => []SlippageProtects
<1>1. IInv => SlippageProtects
  <2> SUFFICES ASSUME IInv, package # None, package.amountOut > 0, Priced(command)
               PROVE  WorthItsInput(command, package, 2 + RatioLoss(package))
    BY NothingIsOffered, ApprovedQuote, QuoteAmounts DEF SlippageProtects
  <2>1. /\ command \in Command /\ command.origin # None /\ command.destination # None
        /\ package \in Quote /\ WithinTolerance(command, package)
    BY ApprovedQuote DEF Valid
  <2>2. PICK in, out, po, pd, tolerance :
          /\ in = package.amountIn /\ out = package.amountOut
          /\ po = command.origin.price /\ pd = command.destination.price
          /\ tolerance = command.slippageTolerance
    OBVIOUS
  <2>3. in \in Nat /\ out \in Nat /\ po \in Nat /\ pd \in Nat /\ pd > 0 /\ tolerance \in Nat
    BY <2>1, <2>2, QuoteAmounts, AssetsAssumption, BoundsAssumption DEF Command, Priced
  <2>4. PICK S, B \in Nat : S = PriceScale /\ B = 10000 /\ S > 0 /\ B > 0
    BY DEF PriceScale
  <2>5. PICK R \in Int : R = MathRound(po * S, pd)
    BY <2>3, <2>4 DEF MathRound
  <2>6. PICK E \in Int : E = (in * R) \div S
    BY <2>3, <2>4, Division
  <2>7. in > 0 => (E * (B - tolerance)) \div B <= out
    <3>1. MinAcceptableOut(command, package) = (E * (B - tolerance)) \div B
      BY <2>2, <2>4, <2>5, <2>6 DEF MinAcceptableOut
    <3>2. E * (B - tolerance) \in Int
      BY <2>3, <2>4, <2>6
    <3>3. (E * (B - tolerance)) \div B \in Int
      BY <2>4, <3>2, Division
    <3> QED
      BY <2>1, <2>2, <2>3, <3>1, <3>3 DEF WithinTolerance
  <2>8. PICK L \in Nat : L = (in + 2 * S - 1) \div (2 * S) /\ in <= (2 * S) * L
    BY <2>3, <2>4, CeilingIsEnough
  <2>9. in * po * (B - tolerance) <= (out + (2 + L)) * pd * B
    <3>0. CASE in = 0
      <4>1. PICK n \in Nat : n = (out + (2 + L)) * pd * B
        BY <2>3, <2>4, <2>8
      <4>2. in * po * (B - tolerance) = 0
        BY <2>3, <2>4, <3>0
      <4> QED
        BY <4>1, <4>2
    <3>1. CASE in > 0 /\ tolerance <= B
      <4>1. PICK T \in Nat : T = B - tolerance /\ T <= B
        BY <2>3, <2>4, <3>1
      <4>2. (E * T) \div B <= out
        BY <2>7, <3>1, <4>1
      <4>3. /\ in \in Nat /\ out \in Nat /\ po \in Nat /\ pd \in Nat /\ pd > 0
            /\ S > 0 /\ B > 0 /\ in <= (2 * S) * L
            /\ R = MathRound(po * S, pd) /\ E = (in * R) \div S
        BY <2>3, <2>4, <2>5, <2>6, <2>8
      <4>4. in * po * T <= (out + (2 + L)) * pd * B
        BY <4>1, <4>2, <4>3, RoundedValue
      <4> QED
        BY <4>1, <4>4
    <3>2. CASE tolerance > B
      <4>1. PICK m, n \in Nat : m = in * po /\ n = (out + (2 + L)) * pd * B
        BY <2>3, <2>4, <2>8
      <4>2. PICK t \in Int : t = B - tolerance /\ t <= 0
        BY <2>3, <2>4, <3>2
      <4>3. t * m <= 0 * m
        BY <4>1, <4>2, Times
      <4> QED
        BY <4>1, <4>2, <4>3
    <3> QED
      BY <2>3, <2>4, <3>0, <3>1, <3>2
  <2>10. L = RatioLoss(package)
    BY <2>2, <2>4, <2>8 DEF RatioLoss
  <2>11. (out + (2 + RatioLoss(package))) * pd * B >= in * po * (B - tolerance)
    <3>1. 2 + L = 2 + RatioLoss(package)
      BY <2>8, <2>10
    <3>2. in * po * (B - tolerance) \in Int /\ (out + (2 + L)) * pd * B \in Int
      BY <2>3, <2>4, <2>8
    <3> QED
      BY <2>9, <3>1, <3>2
  <2> QED
    BY <2>2, <2>4, <2>11 DEF WorthItsInput
<1> QED
  BY <1>1, Invariance, PTL

-----------------------------------------------------------------------------
\* A step of the composition is a step of the swap or leaves it alone.
THEOREM CompositionTheorem == QuotesSpec => Spec
<1>1. QuotesInit => Init
  BY DEF QuotesInit
<1>2. [QuotesNext]_quoteVars => [Next]_vars
  BY DEF QuotesNext, quoteVars
<1> QED
  BY <1>1, <1>2, PTL DEF QuotesSpec, Spec

LEMMA QuoteInit == QuotesInit => QuoteOK
BY DEF QuotesInit, QuoteOK, NoRequest

LEMMA QuoteStep == QuoteOK /\ [QuotesNext]_quoteVars => QuoteOK'
<1> SUFFICES ASSUME QuoteOK, [QuotesNext]_quoteVars PROVE QuoteOK'
  OBVIOUS
<1>1. ASSUME UNCHANGED quote PROVE QuoteOK'
  BY <1>1 DEF QuoteOK, Self, Receives, Signs
<1>2. ASSUME NEW p \in Parties, NEW asset \in Assets \cup {None}, CreateOneClickQuote(p, asset)
      PROVE  QuoteOK'
  <2>1. PICK request \in Requests : request = toOneClickQuoteRequest(p)
    BY DEF Requests
  <2>2. PICK end \in {"refused", "asked", "listing"} :
          /\ quote' = [stage |-> end, party |-> p, destination |-> asset, request |-> request]
          /\ end = "refused" => ~IsSigner(p.authMethod, p.user)
          /\ end # "refused" => IsSigner(p.authMethod, p.user)
          /\ end = "asked" => areEquivalent(p.authMethod, request.recipient, p.user)
          /\ end = "listing" => ~areEquivalent(p.authMethod, request.recipient, p.user)
    BY <1>2, <2>1 DEF CreateOneClickQuote
  <2>3. quote'.stage = end /\ quote'.party = p /\ quote'.destination = asset /\ quote'.request = request
    BY <2>2
  <2> QED
    BY <2>1, <2>2, <2>3 DEF QuoteOK, Self, Receives, Signs
<1>3. ASSUME Listed \/ ListingFails \/ OneClickAnswers \/ OneClickRefuses PROVE QuoteOK'
  <2>1. PICK end \in {"asked", "refused", "failed", "answered", "bad_request"} :
          /\ quote' = [quote EXCEPT !.stage = end]
          /\ quote.stage \in {"listing", "asked"}
          /\ end \in {"answered", "bad_request"} => quote.stage = "asked"
          /\ end = "asked" => quote.stage = "listing" /\ Receives
          /\ end = "refused" => quote.stage = "listing" /\ ~Receives
    BY <1>3 DEF Listed, ListingFails, OneClickAnswers, OneClickRefuses, Receives
  <2>2. /\ quote'.stage = end /\ quote'.party = quote.party
        /\ quote'.destination = quote.destination /\ quote'.request = quote.request
    BY <2>1 DEF QuoteOK
  <2>3. (Self' <=> Self) /\ (Receives' <=> Receives) /\ (Signs' <=> Signs)
    BY <2>2 DEF Self, Receives, Signs
  <2> QED
    BY <2>1, <2>2, <2>3 DEF QuoteOK
<1> QED
  BY <1>1, <1>2, <1>3 DEF QuotesNext, QuoteNext, quoteVars

\* POST /quotes/one-click asks 1Click only for parties POST /swaps/prepare
\* accepts, with the same recipient and refund, and refuses no others (QuotesService
\* beside PrepareSwapMapper and SwapRequestValidationService).
THEOREM EndpointsTheorem == QuotesSpec => []EndpointsAgree
<1>1. QuoteOK => EndpointsAgree
  <2> SUFFICES ASSUME QuoteOK, quote.stage # "none" PROVE EndpointsAgree
    BY DEF EndpointsAgree
  <2>1. PICK p \in Parties, asset \in Assets \cup {None} :
          p = quote.party /\ asset = quote.destination /\ quote.request = toOneClickQuoteRequest(p)
    BY DEF QuoteOK
  <2>2. PICK c : c = [party |-> ToCommand(p), destination |-> asset]
    OBVIOUS
  <2>3. /\ c.destination = asset /\ c.party.authMethod = p.authMethod /\ c.party.signer = p.user
        /\ c.party.recipient = quote.request.recipient
        /\ c.party.recipientType = quote.request.recipientType
        /\ quote.request.refundTo = RefundTo(c) /\ quote.request.refundType = RefundType(c)
    BY <2>1, <2>2 DEF ToCommand, RecipientType, RefundTo, RefundType, toOneClickQuoteRequest
  <2>4. /\ Self <=> ~IsExternalRecipient(c)
        /\ Signs <=> IsSigner(c.party.authMethod, c.party.signer)
        /\ asset # None => (Receives <=> IsRecipient(c.party.recipient, c.party.recipientType,
                                                    c.destination.network))
    BY <2>1, <2>3 DEF Self, Signs, Receives, IsExternalRecipient
  <2>5. asset # None => (ValidParty(c) <=> Signs /\ (Self \/ Receives))
    BY <2>4 DEF ValidParty
  <2> QED
    BY <2>1, <2>2, <2>3, <2>5 DEF EndpointsAgree, QuoteOK
<1> QED
  BY <1>1, QuoteInit, QuoteStep, PTL DEF QuotesSpec

=============================================================================
