---------------------------- MODULE ProductMetrics ----------------------------
(***************************************************************************)
(* The daily summary of ProductEventsService as a function of the rows of  *)
(* product_events: countByEventAndStatus groups the rows of the window in  *)
(* the database and adds the groups up in a Map, under a key without the   *)
(* reason code and, for rows that have one, under a key with it.           *)
(***************************************************************************)
EXTENDS Integers, FiniteSets, FiniteSetsExt

CONSTANT None  \* no reason code

\* What the summary looks at in a row, but for its identity; recent: its
\* created_at, which clients may choose (occurredAt), is within the window.
EventKind(name, source, status, reason, recent) ==
  [name |-> name, source |-> source, status |-> status, reason |-> reason, recent |-> recent]

InWindow(rows) == {row \in rows : row.event.recent}

\* The result of the GROUP BY
Groups(rows) ==
  LET groupOf(row) == [name |-> row.event.name, source |-> row.event.source,
                       status |-> row.event.status, reason |-> row.event.reason]
  IN  {[key |-> k, count |-> Cardinality({row \in InWindow(rows) : groupOf(row) = k})] :
         k \in {groupOf(row) : row \in InWindow(rows)}}

get(counts, k) == IF k \in DOMAIN counts THEN counts[k] ELSE 0
put(counts, k, n) == [j \in DOMAIN counts \cup {k} |-> IF j = k THEN n ELSE counts[j]]
WithoutReason(k) == [k EXCEPT !.reason = None]

BrokenAddGroup(group, counts) == put(put(counts, WithoutReason(group.key), group.count), group.key, group.count)

AddGroup(group, counts) ==
  LET aggregate == WithoutReason(group.key)
      added == put(counts, aggregate, get(counts, aggregate) + group.count)
  IN  IF group.key.reason = None THEN added ELSE put(added, group.key, group.count)

countByEventAndStatus(rows) == FoldSet(AddGroup, [k \in {} |-> 0], Groups(rows))

value(counts, name, status, source, reason) ==
  get(counts, [name |-> name, source |-> source, status |-> status, reason |-> reason])

count(rows, name, status) ==
  Cardinality({row \in InWindow(rows) : row.event.name = name /\ row.event.status = status})

Ratio(numerator, denominator) == [numerator |-> numerator, denominator |-> denominator]

dailySummary(rows) ==
  LET counts == countByEventAndStatus(rows)
      of(name, status, source) == value(counts, name, status, source, None)
      passkeyFailure == of("account.login.passkey", "failed", "mfe-wallets")
      policyFailure == value(counts, "account.login.passkey", "failed", "mfe-wallets",
                             "signup_with_passkey_not_allowed")
      realFailure == Max({0, passkeyFailure - policyFailure})
      rawFailure == passkeyFailure + of("account.login.passkey", "cancelled", "mfe-wallets")
      passkeyTotal == of("account.login.passkey", "succeeded", "backend") + rawFailure
      connectFailure == of("wallet.connect", "failed", "mfe-wallets")
      connectTotal == connectFailure + of("wallet.connect", "succeeded", "mfe-wallets")
  IN  [accountsCreated |-> count(rows, "account.created", "succeeded"),
       swapQuoteToConfirmed |-> Ratio(of("swap.confirmed", "succeeded", "app-client"),
                                      of("swap.quote", "succeeded", "backend")),
       depositSuccess |-> Ratio(of("deposit.completed", "succeeded", "backend"),
                                of("deposit.started", "succeeded", "backend")),
       withdrawalSuccess |-> Ratio(of("withdrawal.completed", "succeeded", "backend"),
                                   of("withdrawal.started", "succeeded", "backend")),
       walletConnectFailure |-> Ratio(connectFailure, connectTotal),
       passkeyLoginRealFailure |-> Ratio(realFailure, passkeyTotal),
       passkeyLoginRawFailure |-> Ratio(rawFailure, passkeyTotal)]

=============================================================================
