-------------------------- MODULE AccountLifecycle --------------------------
(***************************************************************************)
(* The app_users rows of one Privy subject: sign-in (upsertSession), the   *)
(* request to delete the account (requestAccountDeletion) and the purge of *)
(* accounts whose retention window is over (purgeDeletionEligibleAccounts, *)
(* which no route or schedule of the repository calls).  As in             *)
(* WalletLinks, a call is a READ COMMITTED transaction whose statements    *)
(* see what is committed; an UPDATE by primary key locks its row and       *)
(* writes, of the columns it names, those that differ from the loaded      *)
(* instance.  The purge loads its instances outside any transaction.       *)
(***************************************************************************)
EXTENDS Naturals

CONSTANTS
  Calls,        \* concurrent service calls of the subject, or of the purge
  NoCall,
  Retention,    \* SOFT_DELETE_RETENTION_MS
  MaxAccounts, MaxTime

ASSUME RetentionAssumption == Retention \in Nat \ {0}
ASSUME BoundsAssumption == MaxAccounts \in Nat /\ MaxTime \in Nat /\ NoCall \notin Calls

VARIABLES
  accounts,  \* the committed rows
  draft,     \* the version of a locked row that its lock holder has written
  lock,      \* the call that holds the lock of a row
  call,      \* the locals of every call
  promised,  \* the earliest deletionAvailableAt answered for an account
             \* (a history variable)
  now

vars == <<accounts, draft, lock, call, promised, now>>

AccountIds == 1..MaxAccounts
Never == 0

\* owner: privy_user_id is the subject, not its "deleted:" tombstone;
\* availableAt: deletion_available_at, Never when NULL.
Account ==
  [status: {"none", "active", "pending_deletion", "deleted"}, owner: BOOLEAN,
   availableAt: 0..(MaxTime + Retention)]
NoAccount == [status |-> "none", owner |-> FALSE, availableAt |-> Never]
NewAccount == [status |-> "active", owner |-> TRUE, availableAt |-> Never]

\* account, seen: the loaded instance; at: `now` of the call; todo: the
\* instances the purge has loaded; alone: no other call was in progress at
\* any time since this one began.
Call ==
  [op: {"none", "session", "deletion", "purge"},
   next: {"none", "restore", "finalize", "findOrCreate", "update", "commit"},
   account: AccountIds \cup {0}, seen: Account, at: 0..MaxTime,
   todo: SUBSET AccountIds, alone: BOOLEAN]
Idle ==
  [op |-> "none", next |-> "none", account |-> 0, seen |-> NoAccount, at |-> 0,
   todo |-> {}, alone |-> FALSE]

Init ==
  /\ accounts = [r \in AccountIds |-> NoAccount]
  /\ draft = accounts
  /\ lock = [r \in AccountIds |-> NoCall]
  /\ call = [t \in Calls |-> Idle]
  /\ promised = [r \in AccountIds |-> Never]
  /\ now = 0

-----------------------------------------------------------------------------
Running(t) == call[t].op # "none"
View(t, r) == IF lock[r] = t THEN draft[r] ELSE accounts[r]
Goto(t, next) == call' = [call EXCEPT ![t].next = next]

Write(t, r, row) ==
  /\ lock[r] \in {NoCall, t}
  /\ lock' = [lock EXCEPT ![r] = t]
  /\ draft' = [draft EXCEPT ![r] = row]
  /\ UNCHANGED <<accounts, promised, now>>

Begin(t, op, next, r, todo) ==
  /\ ~Running(t)
  /\ call' = [s \in Calls |->
       IF s = t
       THEN [op |-> op, next |-> next, account |-> r,
             seen |-> IF r = 0 THEN NoAccount ELSE accounts[r], at |-> now, todo |-> todo,
             alone |-> \A o \in Calls : ~Running(o)]
       ELSE [call[s] EXCEPT !.alone = FALSE]]
  /\ UNCHANGED <<accounts, draft, lock, promised, now>>

End(t) ==
  /\ call' = [call EXCEPT ![t] = Idle]
  /\ lock' = [r \in AccountIds |-> IF lock[r] = t THEN NoCall ELSE lock[r]]
  /\ draft' = [r \in AccountIds |-> IF lock[r] = t THEN NoAccount ELSE draft[r]]

Commit(t) ==
  /\ call[t].next = "commit"
  /\ accounts' = [r \in AccountIds |-> View(t, r)]
  /\ promised' = [r \in AccountIds |->
       IF /\ call[t].op = "deletion" /\ r = call[t].account
          /\ promised[r] = Never \/ View(t, r).availableAt < promised[r]
       THEN View(t, r).availableAt ELSE promised[r]]
  /\ End(t)
  /\ UNCHANGED now

-----------------------------------------------------------------------------
BrokenWindowExpired(row, at) == row.availableAt # Never
deletionWindowExpired(row, at) == row.availableAt # Never /\ row.availableAt <= at

\* upsertSession loads the row of the subject, if there is one.  A row with
\* status "deleted" would make it throw: NoLockOut says there is none.
SignInKnown(t, r) ==
  /\ accounts[r].owner
  /\ accounts[r].status # "deleted"
  /\ Begin(t, "session",
           IF accounts[r].status = "active" THEN "findOrCreate"
           ELSE IF deletionWindowExpired(accounts[r], now) THEN "finalize" ELSE "restore",
           r, {})

SignInNew(t) ==
  /\ \A r \in AccountIds : ~accounts[r].owner
  /\ Begin(t, "session", "findOrCreate", 0, {})

BrokenFinalizedKeepsSubject(row) == [row EXCEPT !.status = "deleted"]
\* finalizeDeletedUser
Finalized(row) == [row EXCEPT !.owner = FALSE, !.status = "deleted"]
BrokenRestoredKeepsDate(row) == [row EXCEPT !.status = "active"]
\* restorePendingDeletion
Restored(row) == [row EXCEPT !.status = "active", !.availableAt = Never]

Finalize(t) ==
  /\ call[t].op = "session" /\ call[t].next = "finalize"
  /\ Write(t, call[t].account, Finalized(View(t, call[t].account)))
  /\ Goto(t, "findOrCreate")

Restore(t) ==
  /\ call[t].next = "restore"
  /\ Write(t, call[t].account, Restored(View(t, call[t].account)))
  /\ Goto(t, "findOrCreate")

Fresh(r) ==
  /\ accounts[r].status = "none" /\ lock[r] = NoCall
  /\ \A q \in AccountIds : q < r => accounts[q].status # "none" \/ lock[q] # NoCall

\* AppUser.findOrCreate finds the row ...
Find(t, r) ==
  /\ call[t].next = "findOrCreate"
  /\ View(t, r).owner
  /\ call' = [call EXCEPT ![t].account = r, ![t].seen = View(t, r), ![t].next = "update"]
  /\ UNCHANGED <<accounts, draft, lock, promised, now>>

\* ... or inserts it, waiting for another INSERT of the subject to end.
Create(t, r) ==
  /\ call[t].next = "findOrCreate"
  /\ \A q \in AccountIds : ~View(t, q).owner /\ (lock[q] # t => ~draft[q].owner)
  /\ Fresh(r)
  /\ Write(t, r, NewAccount)
  /\ call' = [call EXCEPT ![t].account = r, ![t].seen = NewAccount, ![t].next = "update"]

\* user.update: the status and the deletion dates are written if the loaded
\* instance was pending; else only a changed e-mail or sign-in method is.
Update(t) ==
  LET r == call[t].account IN
  /\ call[t].op = "session" /\ call[t].next = "update"
  /\ \/ Write(t, r, IF call[t].seen.status = "active" THEN View(t, r) ELSE Restored(View(t, r)))
     \/ /\ call[t].seen.status = "active"
        /\ UNCHANGED <<accounts, draft, lock, promised, now>>
  /\ Goto(t, "commit")

-----------------------------------------------------------------------------
\* requestAccountDeletion, of a caller whom authenticateToken has accepted
RequestDeletion(t, r) ==
  /\ accounts[r].owner
  /\ accounts[r].status = "active"
  /\ Begin(t, "deletion", "update", r, {})

MarkPending(t) ==
  LET r == call[t].account IN
  /\ call[t].op = "deletion" /\ call[t].next = "update"
  /\ Write(t, r, [View(t, r) EXCEPT
       !.status = "pending_deletion", !.availableAt = call[t].at + Retention])
  /\ Goto(t, "commit")

\* purgeDeletionEligibleAccounts loads the instances...
Eligible(r, at) ==
  accounts[r].status = "pending_deletion" /\ deletionWindowExpired(accounts[r], at)
Purge(t) ==
  /\ \E r \in AccountIds : Eligible(r, now)
  /\ Begin(t, "purge", "finalize", 0, {r \in AccountIds : Eligible(r, now)})

\* ... and finalizes each in a transaction of its own.
PurgeOne(t, r) ==
  /\ call[t].op = "purge" /\ r \in call[t].todo
  /\ lock[r] = NoCall
  /\ accounts' = [accounts EXCEPT ![r] = Finalized(@)]
  /\ call' = [call EXCEPT ![t] =
       IF call[t].todo = {r} THEN Idle ELSE [call[t] EXCEPT !.todo = @ \ {r}]]
  /\ UNCHANGED <<draft, lock, promised, now>>

\* A bound of the model: a sign-in fails when MaxAccounts rows exist.
TableFull(t) ==
  /\ call[t].next = "findOrCreate"
  /\ \A r \in AccountIds : ~View(t, r).owner /\ ~Fresh(r)
  /\ \A r \in AccountIds : lock[r] # t => ~draft[r].owner
  /\ End(t)
  /\ UNCHANGED <<accounts, promised, now>>

Tick ==
  /\ now < MaxTime
  /\ now' = now + 1
  /\ UNCHANGED <<accounts, draft, lock, call, promised>>

Next ==
  \/ \E t \in Calls :
       \/ \E r \in AccountIds :
            \/ SignInKnown(t, r) \/ RequestDeletion(t, r)
            \/ Find(t, r) \/ Create(t, r) \/ PurgeOne(t, r)
       \/ SignInNew(t) \/ Purge(t)
       \/ Finalize(t) \/ Restore(t) \/ Update(t) \/ MarkPending(t)
       \/ Commit(t) \/ TableFull(t)
  \/ Tick

Spec == Init /\ [][Next]_vars

-----------------------------------------------------------------------------
\* The types of the variables; rows are locked by calls in progress, and
\* there is an uncommitted version of locked rows only.
TypeOK ==
  /\ accounts \in [AccountIds -> Account]
  /\ draft \in [AccountIds -> Account]
  /\ lock \in [AccountIds -> Calls \cup {NoCall}]
  /\ call \in [Calls -> Call]
  /\ promised \in [AccountIds -> 0..(MaxTime + Retention)]
  /\ now \in 0..MaxTime
  /\ \A r \in AccountIds : IF lock[r] = NoCall THEN draft[r] = NoAccount ELSE Running(lock[r])

\* However sign-ins, deletion requests and purges race, the subject is never
\* locked out: it owns at most one account, never a deleted one, so that
\* upsertSession never answers "Privy account is deleted".
NoLockOut ==
  \A q, r \in AccountIds : accounts[q].owner =>
    /\ accounts[q].status \in {"active", "pending_deletion"}
    /\ accounts[r].owner => q = r

\* An account is deleted only when a deletion date that was answered to its
\* user has passed, whoever deletes it and on however old a reading.
NoEarlyDeletion ==
  [][\A r \in AccountIds :
       accounts[r].status # "deleted" /\ accounts'[r].status = "deleted" =>
         promised[r] # Never /\ promised[r] <= now]_vars

\* A sign-in that overlaps no other call leaves the subject with an active
\* account without deletion date: the account it had, unless the window of
\* that one was over when the sign-in began.
LoneSignInIsActive ==
  [][\A t \in Calls :
       call[t].op = "session" /\ call[t].next = "commit" /\ call[t].alone /\ ~Running(t)' =>
         \E r \in AccountIds :
           /\ accounts'[r] = NewAccount
           /\ \A q \in AccountIds :
                accounts[q].owner => q = r \/ deletionWindowExpired(accounts[q], call[t].at)]_vars

=============================================================================
