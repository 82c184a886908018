----------------------------- MODULE WalletLinks -----------------------------
(***************************************************************************)
(* The wallet_links rows of one user under concurrent calls of bindWallet, *)
(* setPrimaryWallet and deleteWallet of PrivyAuthService (upsertSession    *)
(* calls the same upsertWallet).  Each call is a READ COMMITTED            *)
(* transaction without locking reads: every statement sees what is         *)
(* committed when it starts, an UPDATE locks its rows one by one and tests *)
(* its WHERE again on the version it has locked, and Sequelize's           *)
(* instance.update writes only the columns that differ from the values the *)
(* instance was loaded with, however old these are.                        *)
(*                                                                         *)
(* All UPDATEs select by user id, so users do not interact; the active     *)
(* status of the user is AccountLifecycle's.  A wallet is identified with  *)
(* its normalised address, which is unique for the user.                   *)
(***************************************************************************)
EXTENDS Naturals, FiniteSets

CONSTANTS
  Wallets,  \* normalised addresses
  Calls,    \* concurrent service calls
  NoCall, NoWallet

ASSUME NoValueAssumption == NoCall \notin Calls /\ NoWallet \notin Wallets
\* A user has finitely many wallets.
ASSUME WalletsAssumption == IsFiniteSet(Wallets)

VARIABLES
  links,   \* the committed rows
  draft,   \* the version of a locked row that its lock holder has written
  lock,    \* the call that holds the lock of a row
  call,    \* the locals of every call
  overlapped  \* whether a bind has ever overlapped another call

vars == <<links, draft, lock, call, overlapped>>

\* created: the rank of the row in the order of created_at, 0 if there is none
Link == [status: {"active", "deleted"}, primary: BOOLEAN, created: 0..Cardinality(Wallets)]
NoLink == [status |-> "deleted", primary |-> FALSE, created |-> 0]

\* asked: isPrimary of the request body; seen: the loaded instance, while it is used;
\* todo: the rows its UPDATE has selected and not yet locked;
\* alone: no other call was in progress at any time since it began.
Call ==
  [op: {"none", "bind", "setPrimary", "delete"},
   next: {"none", "create", "update", "promote", "clear", "clearing", "mark", "commit"},
   wallet: Wallets \cup {NoWallet}, target: Wallets \cup {NoWallet},
   asked: {"true", "false", "absent"}, seen: Link, todo: SUBSET Wallets, alone: BOOLEAN]
Idle ==
  [op |-> "none", next |-> "none", wallet |-> NoWallet, target |-> NoWallet,
   asked |-> "absent", seen |-> NoLink, todo |-> {}, alone |-> FALSE]

Init ==
  /\ links = [w \in Wallets |-> NoLink]
  /\ draft = [w \in Wallets |-> NoLink]
  /\ lock = [w \in Wallets |-> NoCall]
  /\ call = [t \in Calls |-> Idle]
  /\ overlapped = FALSE

-----------------------------------------------------------------------------
Running(t) == call[t].op # "none"
View(t, w) == IF lock[w] = t THEN draft[w] ELSE links[w]
Exists(link) == link.created > 0
Active(link) == Exists(link) /\ link.status = "active"
ActiveFor(t) == {w \in Wallets : Active(View(t, w))}

\* Row lock, and the version of the row an UPDATE writes to.
Write(t, w, link) ==
  /\ lock[w] \in {NoCall, t}
  /\ lock' = [lock EXCEPT ![w] = t]
  /\ draft' = [draft EXCEPT ![w] = link]
  /\ UNCHANGED links

Goto(t, next) == call' = [call EXCEPT ![t].next = next]

Begin(t, op, w, asked, seen, next) ==
  /\ ~Running(t)
  /\ call' = [s \in Calls |->
       IF s = t
       THEN [Idle EXCEPT !.op = op, !.next = next, !.wallet = w, !.target = w, !.asked = asked,
                         !.seen = seen, !.alone = \A r \in Calls : ~Running(r)]
       ELSE [call[s] EXCEPT !.alone = FALSE]]
  /\ UNCHANGED <<links, draft, lock>>

End(t) ==
  /\ call' = [call EXCEPT ![t] = Idle]
  /\ lock' = [w \in Wallets |-> IF lock[w] = t THEN NoCall ELSE lock[w]]
  /\ draft' = [w \in Wallets |-> IF lock[w] = t THEN NoLink ELSE draft[w]]

Commit(t) ==
  /\ call[t].next = "commit"
  /\ links' = [w \in Wallets |-> View(t, w)]
  /\ End(t)

-----------------------------------------------------------------------------
\* bindWallet: findOrCreate of upsertWallet finds the row ...
BindFind(t, w, asked) ==
  /\ Exists(links[w])
  /\ Begin(t, "bind", w, asked, links[w], "update")

\* ... or will insert it
BindMissing(t, w, asked) ==
  /\ ~Exists(links[w])
  /\ Begin(t, "bind", w, asked, NoLink, "create")

\* The INSERT waits for another one of the same address; if that commits,
\* its row is loaded instead.
Create(t) ==
  LET w == call[t].wallet
      new == [status |-> "active", primary |-> call[t].asked # "false",
              created |-> Cardinality({v \in Wallets : Exists(links[v]) \/ lock[v] # NoCall}) + 1]
  IN
  /\ call[t].next = "create"
  /\ lock[w] = NoCall
  /\ IF Exists(links[w])
     THEN /\ call' = [call EXCEPT ![t].seen = links[w], ![t].next = "update"]
          /\ UNCHANGED <<links, draft, lock>>
     ELSE /\ call' = [call EXCEPT ![t].seen = new, ![t].next = "update"]
          /\ Write(t, w, new)

AskedPrimary(t) ==
  IF call[t].asked = "absent" THEN call[t].seen.primary ELSE call[t].asked = "true"

\* walletLink.update of upsertWallet; then markPrimaryWallet if the instance
\* is primary.
UpdateLink(t) ==
  LET w == call[t].wallet
      seen == call[t].seen
  IN
  /\ call[t].op = "bind" /\ call[t].next = "update"
  /\ Write(t, w, [View(t, w) EXCEPT
       !.status = IF seen.status = "active" THEN @ ELSE "active",
       !.primary = IF seen.primary = AskedPrimary(t) THEN @ ELSE AskedPrimary(t)])
  /\ call' = [call EXCEPT ![t].next = IF AskedPrimary(t) THEN "clear" ELSE "commit",
                          ![t].asked = IF AskedPrimary(t) THEN "true" ELSE "false",
                          ![t].seen = NoLink]

\* setPrimaryWallet: findActiveWallet, then markPrimaryWallet
SetPrimary(t, w) ==
  /\ Active(links[w])
  /\ Begin(t, "setPrimary", w, "absent", NoLink, "clear")

\* deleteWallet: findActiveWallet...
Delete(t, w) ==
  /\ Active(links[w])
  /\ Begin(t, "delete", w, "absent", links[w], "update")

\* ... wallet.update, which writes is_primary only if the instance had it set...
MarkDeleted(t) ==
  LET w == call[t].wallet IN
  /\ call[t].op = "delete" /\ call[t].next = "update"
  /\ Write(t, w, [View(t, w) EXCEPT
       !.status = "deleted", !.primary = IF call[t].seen.primary THEN FALSE ELSE @])
  /\ Goto(t, IF call[t].seen.primary THEN "promote" ELSE "commit")

BrokenPromoteNothing(t) ==
  /\ call[t].next = "promote"
  /\ Goto(t, "commit")
  /\ UNCHANGED <<links, draft, lock>>

\* ... and, if it was primary, the oldest active wallet is promoted.
Promote(t) ==
  /\ call[t].next = "promote"
  /\ IF ActiveFor(t) = {}
     THEN Goto(t, "commit")
     ELSE \E w \in ActiveFor(t) :
            /\ \A v \in ActiveFor(t) : View(t, w).created <= View(t, v).created
            /\ call' = [call EXCEPT ![t].target = w, ![t].next = "clear"]
  /\ UNCHANGED <<links, draft, lock>>

-----------------------------------------------------------------------------
\* markPrimaryWallet, first UPDATE: the snapshot selects the active rows...
Clear(t) ==
  /\ call[t].next = "clear"
  /\ call' = [call EXCEPT ![t].todo = ActiveFor(t),
                          ![t].next = IF ActiveFor(t) = {} THEN "mark" ELSE "clearing"]
  /\ UNCHANGED <<links, draft, lock>>

BrokenClearRowUnlocked(t, w) ==
  /\ call[t].next = "clearing"
  /\ w \in call[t].todo
  /\ lock[w] \in {NoCall, t}
  /\ links' = [links EXCEPT ![w].primary = FALSE]
  /\ call' = [call EXCEPT ![t].todo = @ \ {w},
                          ![t].next = IF call[t].todo = {w} THEN "mark" ELSE "clearing"]
  /\ UNCHANGED <<draft, lock>>

\* ... each is locked, tested again and written...
ClearRow(t, w) ==
  /\ call[t].next = "clearing"
  /\ w \in call[t].todo
  /\ Write(t, w, [View(t, w) EXCEPT !.primary = IF Active(View(t, w)) THEN FALSE ELSE @])
  /\ call' = [call EXCEPT ![t].todo = @ \ {w},
                          ![t].next = IF call[t].todo = {w} THEN "mark" ELSE "clearing"]

\* ... and the second UPDATE writes the row of the new primary wallet, if the
\* wallet is active.
Mark(t) ==
  LET w == call[t].target IN
  /\ call[t].next = "mark"
  /\ IF Active(View(t, w))
     THEN Write(t, w, [View(t, w) EXCEPT !.primary = TRUE])
     ELSE UNCHANGED <<links, draft, lock>>
  /\ Goto(t, "commit")

-----------------------------------------------------------------------------
Wanted(t) ==
  CASE call[t].next \in {"create", "update"} -> {call[t].wallet}
    [] call[t].next = "clearing" -> call[t].todo
    [] call[t].next = "mark" -> {call[t].target} \cap ActiveFor(t)
    [] OTHER -> {}
WaitsFor(t) == {lock[w] : w \in Wanted(t)} \ {t, NoCall}
Deadlocked(t) ==
  \E cycle \in SUBSET Calls :
    /\ t \in cycle
    /\ \A s \in cycle :
         /\ WaitsFor(s) \cap cycle # {}
         /\ \E r \in cycle : s \in WaitsFor(r)

\* The database breaks a deadlock by aborting one of the transactions.
Abort(t) ==
  /\ Deadlocked(t)
  /\ End(t)
  /\ UNCHANGED links

Step(t) ==
  \/ Create(t) \/ UpdateLink(t) \/ MarkDeleted(t) \/ Promote(t)
  \/ Clear(t) \/ Mark(t) \/ Commit(t)
  \/ \E w \in Wallets : ClearRow(t, w)

BindOverlaps == \E s, t \in Calls : s # t /\ Running(s) /\ call[t].op = "bind"

Next ==
  /\ \E t \in Calls :
      \/ \E w \in Wallets, asked \in {"true", "false", "absent"} :
           BindFind(t, w, asked) \/ BindMissing(t, w, asked)
      \/ \E w \in Wallets : SetPrimary(t, w) \/ Delete(t, w)
      \/ Step(t)
      \/ Abort(t)
  /\ overlapped' = (overlapped \/ BindOverlaps')

Spec == Init /\ [][Next]_vars

-----------------------------------------------------------------------------
\* The types of the variables; rows are locked by calls in progress, and
\* there is an uncommitted version of locked rows only.
TypeOK ==
  /\ links \in [Wallets -> Link]
  /\ draft \in [Wallets -> Link]
  /\ lock \in [Wallets -> Calls \cup {NoCall}]
  /\ call \in [Calls -> Call] /\ overlapped \in BOOLEAN
  /\ \A w \in Wallets : IF lock[w] = NoCall THEN draft[w] = NoLink ELSE Running(lock[w])

Primaries == {w \in Wallets : Active(links[w]) /\ links[w].primary}

\* However binds, switches and deletions of one user interleave, and whichever
\* of them the database aborts, each call takes effect at its commit, as one step
\* of the abstract specification: it changes whether its own wallet is active,
\* and hands the primary wallet over as a whole, so that there are never two, as
\* long as no bind has overlapped another call (markPrimaryWallet).
Abstract ==
  INSTANCE PrimaryWallet WITH
    active <- {w \in Wallets : Active(links[w])}, primary <- Primaries, disturbed <- overlapped
ImplementsPrimaryWallet == Abstract!Spec

\* A call that overlaps no other one leaves exactly the primary wallet it
\* should, whatever earlier races have left behind: a switch its wallet, a
\* primary bind its wallet, the deletion of a primary wallet the oldest
\* remaining one.
LoneCallRepairsPrimary ==
  [][\A t \in Calls :
       call[t].next = "commit" /\ call[t].alone /\ call'[t].op = "none" =>
         CASE call[t].op = "setPrimary" -> Primaries' = {call[t].wallet}
           [] call[t].op = "bind" /\ AskedPrimary(t) -> Primaries' = {call[t].wallet}
           [] call[t].op = "delete" /\ call[t].seen.primary ->
                /\ Cardinality(Primaries') <= 1
                /\ \A v \in Wallets : Active(links'[v]) =>
                     \E w \in Primaries' : links'[w].created <= links'[v].created
           [] OTHER -> TRUE]_vars

=============================================================================
