----------------------- MODULE AccountLifecycleProofs -----------------------
(***************************************************************************)
(* Proofs about the account of a Privy subject.                            *)
(*                                                                         *)
(* AccountLifecycle, for any number of calls, accounts and moments: the    *)
(* subject is never locked out, no account is deleted before a date its    *)
(* user was told, and a sign-in on its own gives an active account.        *)
(*                                                                         *)
(* SessionRequests, for any number of requests, size of the pool and       *)
(* events of clients: a request that loses its event is answered as if it  *)
(* had not, and recorded events tell the truth.                            *)
(***************************************************************************)
EXTENDS AccountLifecycle, SessionRequests, TLAPS

\* Which statement a call may be at; the purge locks no row.
CallOK(q) ==
  \/ q.op = "none" /\ q.next = "none"
  \/ q.op = "session" /\ q.next = "findOrCreate"
  \/ q.op = "session" /\ q.next \in {"restore", "finalize", "update", "commit"} /\ q.account \in AccountIds
  \/ q.op = "deletion" /\ q.next \in {"update", "commit"} /\ q.account \in AccountIds
  \/ q.op = "purge" /\ q.next = "finalize"
CallsOK ==
  /\ \A t \in Calls : CallOK(call[t])
  /\ \A r \in AccountIds : lock[r] # NoCall => call[lock[r]].op # "purge"

LEMMA Constants ==
  /\ Retention \in Nat /\ Retention > 0 /\ MaxTime \in Nat /\ MaxAccounts \in Nat
  /\ 0 \notin AccountIds /\ NoCall \notin Calls
  /\ NoAccount \in Account /\ NewAccount \in Account
BY RetentionAssumption, BoundsAssumption DEF AccountIds, Account, NoAccount, NewAccount, Never

\* The rows the statements write
LEMMA RowTypes ==
  ASSUME NEW row \in Account
  PROVE  /\ Finalized(row) \in Account /\ Restored(row) \in Account
         /\ ~Finalized(row).owner /\ Finalized(row).status = "deleted"
         /\ Finalized(row).availableAt = row.availableAt
         /\ (Restored(row).owner <=> row.owner) /\ Restored(row).status = "active"
         /\ Restored(row).availableAt = Never
         /\ \A at \in 0..MaxTime :
              LET pending == [row EXCEPT !.status = "pending_deletion", !.availableAt = at + Retention] IN
              /\ pending \in Account /\ (pending.owner <=> row.owner)
              /\ pending.status = "pending_deletion" /\ pending.availableAt = at + Retention
              /\ pending.availableAt # Never
<1>1. /\ Finalized(row) \in Account /\ ~Finalized(row).owner
      /\ Finalized(row).status = "deleted" /\ Finalized(row).availableAt = row.availableAt
  BY DEF Account, Finalized
<1>2. /\ Restored(row) \in Account /\ (Restored(row).owner <=> row.owner)
      /\ Restored(row).status = "active" /\ Restored(row).availableAt = Never
  <2>1. Never \in 0..(MaxTime + Retention)
    BY Constants DEF Never
  <2> QED
    BY <2>1 DEF Account, Restored
<1>3. ASSUME NEW at \in 0..MaxTime
      PROVE  LET pending == [row EXCEPT !.status = "pending_deletion", !.availableAt = at + Retention] IN
             /\ pending \in Account /\ (pending.owner <=> row.owner)
             /\ pending.status = "pending_deletion" /\ pending.availableAt = at + Retention
             /\ pending.availableAt # Never
  <2>1. at + Retention \in 0..(MaxTime + Retention) /\ at + Retention # Never
    BY Constants DEF Never
  <2> QED
    BY <2>1 DEF Account
<1> QED
  BY <1>1, <1>2, <1>3

LEMMA ViewType ==
  ASSUME TypeOK, NEW t \in Calls, NEW r \in AccountIds
  PROVE  View(t, r) \in Account
BY DEF TypeOK, View

\* A step that writes a row for a call that goes on
LEMMA WriteType ==
  ASSUME TypeOK, NEW t \in Calls, Running(t), NEW r \in AccountIds, NEW row \in Account, Write(t, r, row),
         call' \in [Calls -> Call], Running(t)', \A s \in Calls \ {t} : call'[s] = call[s]
  PROVE  TypeOK'
BY Constants DEF TypeOK, Write, Running

LEMMA SameRowsType ==
  ASSUME TypeOK, UNCHANGED <<accounts, draft, lock, promised, now>>,
         call' \in [Calls -> Call], \A s \in Calls : Running(s) => Running(s)'
  PROVE  TypeOK'
BY DEF TypeOK

LEMMA EndType ==
  ASSUME TypeOK, NEW t \in Calls, End(t), accounts' \in [AccountIds -> Account],
         promised' \in [AccountIds -> 0..(MaxTime + Retention)], now' = now
  PROVE  TypeOK'
<1>1. Idle \in Call
  BY Constants DEF Idle, Call, AccountIds
<1>2. call' \in [Calls -> Call] /\ lock' \in [AccountIds -> Calls \cup {NoCall}] /\ draft' \in [AccountIds -> Account]
  BY <1>1, Constants DEF TypeOK, End
<1>3. \A r \in AccountIds : IF lock'[r] = NoCall THEN draft'[r] = NoAccount ELSE call'[lock'[r]].op # "none"
  BY Constants DEF TypeOK, End, Running
<1> QED
  BY <1>2, <1>3 DEF TypeOK, Running

\* A call begins, and the calls in progress are not alone any more.
Same(s) ==
  /\ call'[s].op = call[s].op /\ call'[s].next = call[s].next /\ call'[s].account = call[s].account
  /\ call'[s].seen = call[s].seen /\ call'[s].at = call[s].at /\ call'[s].todo = call[s].todo
Started(t, op, next, r, todo) ==
  /\ ~Running(t) /\ UNCHANGED <<accounts, draft, lock, promised, now>>
  /\ \A s \in Calls \ {t} : Same(s) /\ ~call'[s].alone
  /\ call'[t].op = op /\ call'[t].next = next /\ call'[t].account = r /\ call'[t].todo = todo
  /\ call'[t].seen = (IF r = 0 THEN NoAccount ELSE accounts[r]) /\ call'[t].at = now
  /\ (call'[t].alone => \A o \in Calls : ~Running(o))

LEMMA BeginStep ==
  ASSUME TypeOK, CallsOK, NEW t \in Calls, NEW op \in {"session", "deletion", "purge"}, NEW next,
         NEW r \in AccountIds \cup {0}, NEW todo \in SUBSET AccountIds, Begin(t, op, next, r, todo),
         next \in {"restore", "finalize", "findOrCreate", "update"},
         CallOK([op |-> op, next |-> next, account |-> r])
  PROVE  TypeOK' /\ CallsOK' /\ Started(t, op, next, r, todo)
<1>1. (IF r = 0 THEN NoAccount ELSE accounts[r]) \in Account /\ now \in 0..MaxTime
  BY Constants DEF TypeOK
<1>2. \A s \in Calls : call[s] \in Call
  BY DEF TypeOK
<1>3. call' \in [Calls -> Call]
  BY <1>1, <1>2 DEF Begin, Call
<1>4. /\ \A s \in Calls \ {t} : call'[s] = [call[s] EXCEPT !.alone = FALSE]
      /\ call'[t].op = op /\ call'[t].next = next /\ call'[t].account = r /\ call'[t].todo = todo
      /\ call'[t].seen = (IF r = 0 THEN NoAccount ELSE accounts[r]) /\ call'[t].at = now
      /\ (call'[t].alone => \A o \in Calls : ~Running(o))
  BY DEF Begin
<1>5. \A s \in Calls \ {t} : Same(s) /\ ~call'[s].alone
  BY <1>2, <1>4 DEF Call, Same
<1>6. TypeOK'
  BY <1>3, <1>4, <1>5, SameRowsType DEF Begin, Running, Same
<1>7. CallsOK'
  <2>1. \A s \in Calls : CallOK(call'[s])
    BY <1>4, <1>5 DEF CallsOK, CallOK, Same
  <2>2. ASSUME NEW q \in AccountIds, lock'[q] # NoCall PROVE call'[lock'[q]].op # "purge"
    <3>1. lock[q] \in Calls \ {t} /\ lock'[q] = lock[q]
      BY <2>2 DEF TypeOK, Begin, Running
    <3> QED
      BY <1>5, <2>2, <3>1 DEF CallsOK, Same
  <2> QED
    BY <2>1, <2>2 DEF CallsOK
<1> QED
  BY <1>4, <1>5, <1>6, <1>7 DEF Started, Begin

\* The calls that may begin
SignInNext(r) ==
  IF accounts[r].status = "active" THEN "findOrCreate"
  ELSE IF deletionWindowExpired(accounts[r], now) THEN "finalize" ELSE "restore"

LEMMA Begins ==
  ASSUME TypeOK, CallsOK, NEW t \in Calls
  PROVE  /\ \A r \in AccountIds : SignInKnown(t, r) =>
              /\ TypeOK' /\ CallsOK' /\ accounts[r].owner
              /\ Started(t, "session", SignInNext(r), r, {})
         /\ SignInNew(t) =>
              /\ TypeOK' /\ CallsOK' /\ \A r \in AccountIds : ~accounts[r].owner
              /\ Started(t, "session", "findOrCreate", 0, {})
         /\ \A r \in AccountIds : RequestDeletion(t, r) =>
              TypeOK' /\ CallsOK' /\ Started(t, "deletion", "update", r, {})
         /\ Purge(t) =>
              /\ TypeOK' /\ CallsOK'
              /\ Started(t, "purge", "finalize", 0, {r \in AccountIds : Eligible(r, now)})
<1>1. ASSUME NEW r \in AccountIds, SignInKnown(t, r)
      PROVE  /\ TypeOK' /\ CallsOK' /\ accounts[r].owner
             /\ Started(t, "session", SignInNext(r), r, {})
  BY <1>1, BeginStep DEF SignInKnown, SignInNext, CallOK
<1>2. ASSUME SignInNew(t)
      PROVE  /\ TypeOK' /\ CallsOK' /\ \A r \in AccountIds : ~accounts[r].owner
             /\ Started(t, "session", "findOrCreate", 0, {})
  BY <1>2, BeginStep DEF SignInNew, CallOK
<1>3. ASSUME NEW r \in AccountIds, RequestDeletion(t, r)
      PROVE  TypeOK' /\ CallsOK' /\ Started(t, "deletion", "update", r, {})
  BY <1>3, BeginStep DEF RequestDeletion, CallOK
<1>4. ASSUME Purge(t)
      PROVE  /\ TypeOK' /\ CallsOK'
             /\ Started(t, "purge", "finalize", 0, {r \in AccountIds : Eligible(r, now)})
  <2>1. {r \in AccountIds : Eligible(r, now)} \in SUBSET AccountIds
    OBVIOUS
  <2> QED
    BY <1>4, <2>1, BeginStep DEF Purge, CallOK
<1> QED
  BY <1>1, <1>2, <1>3, <1>4

Goes(t, next) ==
  /\ call' \in [Calls -> Call]
  /\ \A s \in Calls \ {t} : call'[s] = call[s]
  /\ call'[t].op = call[t].op /\ call'[t].next = next /\ call'[t].at = call[t].at
  /\ call'[t].todo = call[t].todo /\ call'[t].alone = call[t].alone

LEMMA GotoStep ==
  ASSUME TypeOK, NEW t \in Calls, NEW next \in {"findOrCreate", "commit"}, Goto(t, next)
  PROVE  Goes(t, next) /\ call'[t].account = call[t].account /\ call'[t].seen = call[t].seen
<1>1. call[t] \in Call /\ call \in [Calls -> Call]
  BY DEF TypeOK
<1> QED
  BY <1>1 DEF Goto, Goes, Call

LEMMA FoundStep ==
  ASSUME TypeOK, NEW t \in Calls, NEW r \in AccountIds, NEW row \in Account,
         call' = [call EXCEPT ![t].account = r, ![t].seen = row, ![t].next = "update"]
  PROVE  Goes(t, "update") /\ call'[t].account = r /\ call'[t].seen = row
<1>1. call[t] \in Call /\ call \in [Calls -> Call]
  BY DEF TypeOK
<1> QED
  BY <1>1 DEF Goes, Call

\* The statements that write a row: who writes which, and goes where.
Writing(t, r, row, next) == Write(t, r, row) /\ row \in Account /\ Goes(t, next)

LEMMA Statements ==
  ASSUME TypeOK, CallsOK, NEW t \in Calls
  PROVE  /\ Finalize(t) =>
              /\ call[t].op = "session" /\ call[t].next = "finalize" /\ call[t].account \in AccountIds
              /\ Writing(t, call[t].account, Finalized(View(t, call[t].account)), "findOrCreate")
         /\ Restore(t) =>
              /\ call[t].op = "session" /\ call[t].next = "restore" /\ call[t].account \in AccountIds
              /\ Writing(t, call[t].account, Restored(View(t, call[t].account)), "findOrCreate")
         /\ \A r \in AccountIds : Create(t, r) =>
              /\ call[t].op = "session" /\ call[t].next = "findOrCreate"
              /\ Writing(t, r, NewAccount, "update") /\ call'[t].account = r /\ call'[t].seen = NewAccount
         /\ Update(t) =>
              /\ call[t].op = "session" /\ call[t].next = "update" /\ call[t].account \in AccountIds
              /\ call'[t].account = call[t].account /\ call'[t].seen = call[t].seen /\ Goes(t, "commit")
              /\ \/ /\ Writing(t, call[t].account, Restored(View(t, call[t].account)), "commit")
                    /\ call[t].seen.status # "active"
                 \/ Writing(t, call[t].account, View(t, call[t].account), "commit")
                 \/ UNCHANGED <<accounts, draft, lock, promised, now>>
         /\ MarkPending(t) =>
              /\ call[t].op = "deletion" /\ call[t].next = "update" /\ call[t].account \in AccountIds
              /\ call'[t].account = call[t].account
              /\ Writing(t, call[t].account,
                         [View(t, call[t].account) EXCEPT
                            !.status = "pending_deletion", !.availableAt = call[t].at + Retention],
                         "commit")
         /\ \A r \in AccountIds : Find(t, r) =>
              /\ call[t].op = "session" /\ call[t].next = "findOrCreate" /\ View(t, r).owner
              /\ Goes(t, "update") /\ call'[t].account = r /\ call'[t].seen = View(t, r)
              /\ UNCHANGED <<accounts, draft, lock, promised, now>>
<1> DEFINE a == call[t].account
<1>1. CallOK(call[t]) /\ call[t].at \in 0..MaxTime
  BY DEF CallsOK, TypeOK, Call
<1>2. \A r \in AccountIds : View(t, r) \in Account
  BY ViewType
<1>3. ASSUME Finalize(t)
      PROVE  /\ call[t].op = "session" /\ call[t].next = "finalize" /\ a \in AccountIds
             /\ Writing(t, a, Finalized(View(t, a)), "findOrCreate")
  <2>1. call[t].op = "session" /\ call[t].next = "finalize" /\ a \in AccountIds
    BY <1>1, <1>3 DEF Finalize, CallOK
  <2> QED
    BY <1>2, <1>3, <2>1, RowTypes, GotoStep DEF Finalize, Writing
<1>4. ASSUME Restore(t)
      PROVE  /\ call[t].op = "session" /\ call[t].next = "restore" /\ a \in AccountIds
             /\ Writing(t, a, Restored(View(t, a)), "findOrCreate")
  <2>1. call[t].op = "session" /\ call[t].next = "restore" /\ a \in AccountIds
    BY <1>1, <1>4 DEF Restore, CallOK
  <2> QED
    BY <1>2, <1>4, <2>1, RowTypes, GotoStep DEF Restore, Writing
<1>5. ASSUME NEW r \in AccountIds, Create(t, r)
      PROVE  /\ call[t].op = "session" /\ call[t].next = "findOrCreate"
             /\ Writing(t, r, NewAccount, "update") /\ call'[t].account = r /\ call'[t].seen = NewAccount
  BY <1>1, <1>5, Constants, FoundStep DEF Create, CallOK, Writing
<1>6. ASSUME Update(t)
      PROVE  /\ call[t].op = "session" /\ call[t].next = "update" /\ a \in AccountIds
             /\ call'[t].account = a /\ call'[t].seen = call[t].seen /\ Goes(t, "commit")
             /\ \/ Writing(t, a, Restored(View(t, a)), "commit") /\ call[t].seen.status # "active"
                \/ Writing(t, a, View(t, a), "commit")
                \/ UNCHANGED <<accounts, draft, lock, promised, now>>
  <2>1. call[t].op = "session" /\ call[t].next = "update" /\ a \in AccountIds
    BY <1>1, <1>6 DEF Update, CallOK
  <2>2. call'[t].account = a /\ call'[t].seen = call[t].seen /\ Goes(t, "commit")
    BY <1>6, GotoStep DEF Update
  <2> QED
    BY <1>2, <1>6, <2>1, <2>2, RowTypes DEF Update, Writing
<1>7. ASSUME MarkPending(t)
      PROVE  /\ call[t].op = "deletion" /\ call[t].next = "update" /\ a \in AccountIds
             /\ call'[t].account = a
             /\ Writing(t, a, [View(t, a) EXCEPT !.status = "pending_deletion",
                                                 !.availableAt = call[t].at + Retention], "commit")
  <2>1. call[t].op = "deletion" /\ call[t].next = "update" /\ a \in AccountIds
    BY <1>1, <1>7 DEF MarkPending, CallOK
  <2> QED
    BY <1>1, <1>2, <1>7, <2>1, RowTypes, GotoStep DEF MarkPending, Writing
<1>8. ASSUME NEW r \in AccountIds, Find(t, r)
      PROVE  /\ call[t].op = "session" /\ call[t].next = "findOrCreate" /\ View(t, r).owner
             /\ Goes(t, "update") /\ call'[t].account = r /\ call'[t].seen = View(t, r)
             /\ UNCHANGED <<accounts, draft, lock, promised, now>>
  BY <1>1, <1>2, <1>8, FoundStep DEF Find, CallOK
<1> QED
  BY <1>3, <1>4, <1>5, <1>6, <1>7, <1>8

\* A call that has ended
Ended(t) == call'[t] = Idle /\ \A s \in Calls \ {t} : call'[s] = call[s]

LEMMA EndStep ==
  ASSUME TypeOK, CallsOK, NEW t \in Calls, End(t)
  PROVE  /\ Ended(t) /\ CallsOK'
         /\ \A r \in AccountIds :
              /\ lock'[r] = (IF lock[r] = t THEN NoCall ELSE lock[r])
              /\ draft'[r] = (IF lock[r] = t THEN NoAccount ELSE draft[r])
<1>1. Ended(t)
  BY DEF TypeOK, End, Ended
<1>2. CallOK(Idle)
  BY DEF CallOK, Idle
<1> QED
  BY <1>1, <1>2 DEF End, Ended, CallsOK

LEMMA CommitStep ==
  ASSUME TypeOK, CallsOK, NEW t \in Calls, Commit(t)
  PROVE  /\ TypeOK' /\ CallsOK' /\ call[t].op \in {"session", "deletion"} /\ now' = now
         /\ \A r \in AccountIds : /\ accounts'[r] = View(t, r)
                                  /\ \/ promised'[r] = promised[r]
                                     \/ call[t].op = "deletion" /\ r = call[t].account
                                  /\ call[t].op = "deletion" /\ r = call[t].account =>
                                       /\ promised'[r] \in {promised[r], View(t, r).availableAt}
                                       /\ promised'[r] <= View(t, r).availableAt
                                       /\ promised'[r] = Never => View(t, r).availableAt = Never
                                       /\ promised[r] # Never => promised'[r] <= promised[r]
<1>1. \A r \in AccountIds : /\ View(t, r) \in Account /\ View(t, r).availableAt \in 0..(MaxTime + Retention)
                            /\ promised[r] \in 0..(MaxTime + Retention)
  BY ViewType DEF TypeOK, Account
<1>2. /\ accounts' \in [AccountIds -> Account] /\ promised' \in [AccountIds -> 0..(MaxTime + Retention)]
      /\ now' = now /\ End(t)
  BY <1>1 DEF Commit
<1>3. \A r \in AccountIds : /\ accounts'[r] = View(t, r)
                            /\ promised'[r] = IF /\ call[t].op = "deletion" /\ r = call[t].account
                                                 /\ promised[r] = Never \/ View(t, r).availableAt < promised[r]
                                              THEN View(t, r).availableAt ELSE promised[r]
  BY DEF Commit
<1>4. call[t].op \in {"session", "deletion"}
  BY DEF CallsOK, CallOK, Commit
<1>5. TypeOK' /\ CallsOK'
  BY <1>2, EndType, EndStep
<1> HIDE DEF View
<1>6. ASSUME NEW r \in AccountIds, call[t].op = "deletion", r = call[t].account
      PROVE  /\ promised'[r] \in {promised[r], View(t, r).availableAt}
             /\ promised'[r] <= View(t, r).availableAt
             /\ promised'[r] = Never => View(t, r).availableAt = Never
             /\ promised[r] # Never => promised'[r] <= promised[r]
  BY <1>1, <1>3, <1>6, Constants DEF Never
<1> QED
  BY <1>2, <1>3, <1>4, <1>5, <1>6

LEMMA PurgeStep ==
  ASSUME TypeOK, CallsOK, NEW t \in Calls, NEW r \in AccountIds, PurgeOne(t, r)
  PROVE  /\ TypeOK' /\ CallsOK' /\ call[t].op = "purge" /\ r \in call[t].todo /\ lock[r] = NoCall
         /\ accounts'[r] = Finalized(accounts[r]) /\ UNCHANGED <<draft, lock, promised, now>>
         /\ \A q \in AccountIds \ {r} : accounts'[q] = accounts[q]
         /\ \A s \in Calls \ {t} : call'[s] = call[s]
         /\ \/ call'[t] = Idle
            \/ call'[t].op = "purge" /\ call'[t].next = "finalize" /\ call'[t].todo \subseteq call[t].todo
<1>1. call[t].op = "purge" /\ call[t].next = "finalize" /\ call[t] \in Call /\ Idle \in Call
  BY Constants DEF PurgeOne, CallsOK, CallOK, TypeOK, Idle, Call
<1>2. /\ accounts'[r] = Finalized(accounts[r]) /\ accounts' \in [AccountIds -> Account]
      /\ \A q \in AccountIds \ {r} : accounts'[q] = accounts[q]
  <2>1. accounts \in [AccountIds -> Account] /\ accounts' = [accounts EXCEPT ![r] = Finalized(accounts[r])]
    BY DEF TypeOK, PurgeOne
  <2>2. Finalized(accounts[r]) \in Account
    BY <2>1, RowTypes
  <2> QED
    BY <2>1, <2>2
<1>3. \/ call'[t] = Idle
      \/ /\ call'[t] = [call[t] EXCEPT !.todo = @ \ {r}] /\ call'[t].op = "purge" /\ call'[t].next = "finalize"
         /\ call'[t].todo \subseteq call[t].todo /\ call'[t] \in Call
  BY <1>1 DEF PurgeOne, TypeOK, Call
<1>4. call' \in [Calls -> Call] /\ \A s \in Calls \ {t} : call'[s] = call[s]
  BY <1>1, <1>3 DEF PurgeOne, TypeOK
<1>5. \A q \in AccountIds : lock[q] # t
  BY <1>1, Constants DEF CallsOK
<1>6. UNCHANGED <<draft, lock, promised, now>> /\ lock[r] = NoCall /\ r \in call[t].todo
  BY DEF PurgeOne
<1>7. TypeOK'
  BY <1>2, <1>4, <1>5, <1>6 DEF TypeOK, Running
<1>8. CallsOK'
  <2>1. \A s \in Calls : CallOK(call'[s])
    BY <1>3, <1>4 DEF CallsOK, CallOK, Idle
  <2>2. \A q \in AccountIds : lock'[q] # NoCall => call'[lock'[q]].op # "purge"
    BY <1>4, <1>5, <1>6 DEF CallsOK, TypeOK
  <2> QED
    BY <2>1, <2>2 DEF CallsOK
<1> QED
  BY <1>1, <1>2, <1>3, <1>4, <1>6, <1>7, <1>8

\* The types are kept by statements that write ...
LEMMA WritingType ==
  ASSUME TypeOK, CallsOK, NEW t \in Calls, call[t].op \in {"session", "deletion"}, NEW r \in AccountIds,
         NEW row, NEW next, Writing(t, r, row, next), CallOK(call'[t])
  PROVE  TypeOK' /\ CallsOK'
<1>1. Running(t) /\ Running(t)'
  BY DEF Running, Writing, Goes
<1>2. TypeOK'
  BY <1>1, WriteType DEF Writing, Goes
<1>3. \A s \in Calls : CallOK(call'[s])
  BY DEF Writing, Goes, CallsOK
<1>4. \A q \in AccountIds : lock'[q] = lock[q] \/ lock'[q] = t
  BY DEF Writing, Write, TypeOK
<1>5. \A q \in AccountIds : lock'[q] # NoCall => call'[lock'[q]].op # "purge"
  BY <1>4 DEF Writing, Goes, CallsOK, TypeOK
<1> QED
  BY <1>2, <1>3, <1>5 DEF CallsOK

\* ... and by statements that only read.
LEMMA ReadingType ==
  ASSUME TypeOK, CallsOK, NEW t \in Calls, call[t].op = "session", NEW next, Goes(t, next),
         UNCHANGED <<accounts, draft, lock, promised, now>>, CallOK(call'[t])
  PROVE  TypeOK' /\ CallsOK'
<1>1. TypeOK'
  BY SameRowsType DEF Goes, Running
<1>2. \A s \in Calls : CallOK(call'[s])
  BY DEF Goes, CallsOK
<1>3. \A q \in AccountIds : lock'[q] # NoCall => call'[lock'[q]].op # "purge"
  BY DEF Goes, CallsOK, TypeOK
<1> QED
  BY <1>1, <1>2, <1>3 DEF CallsOK

LEMMA TypeStep ==
  ASSUME TypeOK, CallsOK, Next
  PROVE  TypeOK' /\ CallsOK'
<1>1. ASSUME NEW t \in Calls, Finalize(t) PROVE TypeOK' /\ CallsOK'
  <2>1. CallOK(call'[t])
    BY <1>1, Statements DEF Writing, Goes, CallOK
  <2> QED
    BY <1>1, <2>1, Statements, WritingType
<1>2. ASSUME NEW t \in Calls, Restore(t) PROVE TypeOK' /\ CallsOK'
  <2>1. CallOK(call'[t])
    BY <1>2, Statements DEF Writing, Goes, CallOK
  <2> QED
    BY <1>2, <2>1, Statements, WritingType
<1>3. ASSUME NEW t \in Calls, NEW r \in AccountIds, Create(t, r) PROVE TypeOK' /\ CallsOK'
  <2>1. CallOK(call'[t])
    BY <1>3, Statements DEF Writing, Goes, CallOK
  <2> QED
    BY <1>3, <2>1, Statements, WritingType
<1>4. ASSUME NEW t \in Calls, Update(t) PROVE TypeOK' /\ CallsOK'
  <2>1. CallOK(call'[t])
    BY <1>4, Statements DEF Goes, CallOK
  <2> QED
    BY <1>4, <2>1, Statements, WritingType, ReadingType
<1>5. ASSUME NEW t \in Calls, MarkPending(t) PROVE TypeOK' /\ CallsOK'
  <2>1. CallOK(call'[t])
    BY <1>5, Statements DEF Writing, Goes, CallOK
  <2> QED
    BY <1>5, <2>1, Statements, WritingType
<1>6. ASSUME NEW t \in Calls, NEW r \in AccountIds, Find(t, r) PROVE TypeOK' /\ CallsOK'
  <2>1. CallOK(call'[t])
    BY <1>6, Statements DEF Goes, CallOK
  <2> QED
    BY <1>6, <2>1, Statements, ReadingType
<1>7. ASSUME NEW t \in Calls, TableFull(t) PROVE TypeOK' /\ CallsOK'
  BY <1>7, EndType, EndStep DEF TableFull, TypeOK
<1>8. CASE Tick
  BY <1>8, Constants DEF Tick, TypeOK, CallsOK, Running
<1> QED
  BY <1>1, <1>2, <1>3, <1>4, <1>5, <1>6, <1>7, <1>8, Begins, CommitStep, PurgeStep DEF Next

-----------------------------------------------------------------------------
(***************************************************************************)
(* The subject is not locked out.  A row that a sign-in has inserted and   *)
(* not committed is the only one with an owner but those its transaction   *)
(* has locked to finalize.                                                 *)
(***************************************************************************)
RowOK(row) ==
  /\ row.owner => row.status \in {"active", "pending_deletion"}
  /\ row.status = "active" => row.availableAt = Never
RowsOK == \A r \in AccountIds : RowOK(accounts[r]) /\ RowOK(draft[r])

NewOwner(r) == draft[r].owner /\ ~accounts[r].owner
OwnersOK ==
  /\ \A q, r \in AccountIds : accounts[q].owner /\ accounts[r].owner => q = r
  /\ \A r \in AccountIds : NewOwner(r) =>
       \A q \in AccountIds : /\ draft[q].owner => q = r
                             /\ accounts[q].owner => lock[q] = lock[r]

LEMMA UnlockedDraft ==
  ASSUME TypeOK, NEW r \in AccountIds, lock[r] = NoCall
  PROVE  draft[r] = NoAccount /\ ~draft[r].owner
BY DEF TypeOK, NoAccount

LEMMA WriteOwners ==
  ASSUME TypeOK, RowsOK, OwnersOK, NEW t \in Calls, NEW r \in AccountIds, NEW row \in Account,
         Write(t, r, row), RowOK(row), row.owner => View(t, r).owner
  PROVE  RowsOK' /\ OwnersOK'
<1>1. RowsOK'
  BY DEF TypeOK, RowsOK, Write
<1>2. /\ UNCHANGED accounts /\ draft'[r] = row /\ lock'[r] = t /\ lock[r] \in {NoCall, t}
      /\ \A q \in AccountIds \ {r} : draft'[q] = draft[q] /\ lock'[q] = lock[q]
  BY DEF TypeOK, Write
<1>3. \A q \in AccountIds : NewOwner(q)' => NewOwner(q) /\ (q = r => lock[q] = t)
  BY <1>2 DEF NewOwner, View
<1>4. ASSUME NEW q \in AccountIds, NewOwner(q)', NEW p \in AccountIds
      PROVE  (draft'[p].owner => p = q) /\ (accounts'[p].owner => lock'[p] = lock'[q])
  <2>1. NewOwner(q) /\ lock[q] # NoCall
    BY <1>3, <1>4, UnlockedDraft DEF NewOwner
  <2>2. (draft[p].owner => p = q) /\ (accounts[p].owner => lock[p] = lock[q])
    BY <2>1 DEF OwnersOK
  <2>3. lock'[q] = lock[q]
    BY <1>2, <1>3, <1>4
  <2>4. accounts[p].owner => lock'[p] = lock[p]
    BY <1>2, <2>1, <2>2
  <2>5. ASSUME p = r, draft'[p].owner PROVE p = q
    <3>1. View(t, r).owner
      BY <1>2, <2>5
    <3>2. lock[r] = t \/ accounts[r].owner
      BY <3>1 DEF View
    <3>3. lock[r] = t
      BY <1>2, <2>1, <2>2, <2>5, <3>2
    <3> QED
      BY <2>2, <2>5, <3>1, <3>3 DEF View
  <2> QED
    BY <1>2, <2>2, <2>3, <2>4, <2>5
<1> QED
  BY <1>1, <1>2, <1>4 DEF OwnersOK

LEMMA CreateOwners ==
  ASSUME TypeOK, RowsOK, OwnersOK, NEW t \in Calls, NEW r \in AccountIds, Create(t, r)
  PROVE  RowsOK' /\ OwnersOK'
<1>1. \A q \in AccountIds : ~View(t, q).owner /\ (lock[q] # t => ~draft[q].owner)
  BY DEF Create
<1>2. \A q \in AccountIds : ~draft[q].owner /\ (accounts[q].owner => lock[q] = t)
  BY <1>1 DEF View
<1>3. /\ UNCHANGED accounts /\ draft'[r] = NewAccount /\ lock'[r] = t
      /\ \A q \in AccountIds \ {r} : draft'[q] = draft[q] /\ lock'[q] = lock[q]
  BY DEF TypeOK, Create, Write
<1>4. RowOK(NewAccount)
  BY DEF NewAccount, RowOK
<1>5. RowsOK'
  BY <1>3, <1>4 DEF RowsOK
<1> QED
  BY <1>2, <1>3, <1>5 DEF OwnersOK, NewOwner

LEMMA EndOwners ==
  ASSUME TypeOK, RowsOK, OwnersOK, NEW t \in Calls, End(t),
         accounts' = accounts \/ accounts' = [r \in AccountIds |-> View(t, r)]
  PROVE  RowsOK' /\ OwnersOK'
<1>1. \A r \in AccountIds :
        /\ draft'[r] = (IF lock[r] = t THEN NoAccount ELSE draft[r])
        /\ lock'[r] = (IF lock[r] = t THEN NoCall ELSE lock[r])
  BY DEF End
<1>2. RowOK(NoAccount) /\ ~NoAccount.owner
  BY DEF RowOK, NoAccount
<1>3. \A r \in AccountIds : accounts'[r] = accounts[r] \/ (lock[r] = t /\ accounts'[r] = draft[r])
  BY DEF View
<1>4. RowsOK'
  BY <1>1, <1>2, <1>3 DEF RowsOK
<1>5. ASSUME NEW q \in AccountIds, NEW r \in AccountIds, accounts'[q].owner, accounts'[r].owner
      PROVE  q = r
  <2>1. CASE accounts[q].owner /\ accounts[r].owner
    BY <2>1 DEF OwnersOK
  <2>2. CASE ~accounts[q].owner
    <3>1. NewOwner(q) /\ lock[q] = t
      BY <1>3, <1>5, <2>2 DEF NewOwner
    <3> QED
      BY <1>3, <1>5, <3>1 DEF OwnersOK, NewOwner, View
  <2>3. CASE ~accounts[r].owner
    <3>1. NewOwner(r) /\ lock[r] = t
      BY <1>3, <1>5, <2>3 DEF NewOwner
    <3> QED
      BY <1>3, <1>5, <3>1 DEF OwnersOK, NewOwner, View
  <2> QED
    BY <2>1, <2>2, <2>3
<1>6. ASSUME NEW r \in AccountIds, NewOwner(r)', NEW q \in AccountIds
      PROVE  (draft'[q].owner => q = r) /\ (accounts'[q].owner => lock'[q] = lock'[r])
  <2>1. lock[r] # t /\ draft'[r] = draft[r] /\ accounts'[r] = accounts[r] /\ lock'[r] = lock[r]
    BY <1>1, <1>2, <1>3, <1>6 DEF NewOwner
  <2>2. NewOwner(r)
    BY <1>6, <2>1 DEF NewOwner
  <2>3. (draft[q].owner => q = r) /\ (accounts[q].owner => lock[q] = lock[r])
    BY <2>2 DEF OwnersOK
  <2> QED
    BY <1>1, <1>2, <1>3, <2>1, <2>3
<1> QED
  BY <1>4, <1>5, <1>6 DEF OwnersOK

LEMMA PurgeOwners ==
  ASSUME TypeOK, RowsOK, OwnersOK, NEW t \in Calls, NEW r \in AccountIds, PurgeOne(t, r)
  PROVE  RowsOK' /\ OwnersOK'
<1>1. accounts[r] \in Account
  BY DEF TypeOK
<1>2. /\ accounts'[r] = Finalized(accounts[r]) /\ lock[r] = NoCall
      /\ \A q \in AccountIds \ {r} : accounts'[q] = accounts[q]
      /\ UNCHANGED <<draft, lock>>
  BY DEF TypeOK, PurgeOne
<1>3. ~Finalized(accounts[r]).owner /\ Finalized(accounts[r]).status = "deleted"
  BY <1>1, RowTypes
<1>4. ~accounts'[r].owner /\ RowOK(accounts'[r])
  BY <1>2, <1>3 DEF RowOK
<1>5. ~draft[r].owner
  BY <1>2, UnlockedDraft
<1> QED
  BY <1>2, <1>4, <1>5 DEF RowsOK, OwnersOK, NewOwner

\* The rows the statements write are sound, and none makes an owner.
Keeps(row, seen) == RowOK(row) /\ (row.owner => seen.owner)

LEMMA StatementRows ==
  ASSUME TypeOK, RowsOK, NEW t \in Calls, NEW r \in AccountIds
  PROVE  LET seen == View(t, r) IN
         /\ Keeps(seen, seen) /\ Keeps(Finalized(seen), seen) /\ Keeps(Restored(seen), seen)
         /\ \A at \in 0..MaxTime :
              Keeps([seen EXCEPT !.status = "pending_deletion", !.availableAt = at + Retention], seen)
<1>1. View(t, r) \in Account /\ RowOK(View(t, r))
  BY ViewType DEF View, RowsOK
<1> HIDE DEF View
<1> QED
  BY <1>1, RowTypes DEF RowOK, Keeps

LEMMA WritingOwners ==
  ASSUME TypeOK, RowsOK, OwnersOK, NEW t \in Calls, NEW r \in AccountIds, NEW row, NEW next,
         Writing(t, r, row, next), Keeps(row, View(t, r))
  PROVE  RowsOK' /\ OwnersOK'
BY WriteOwners DEF Writing, Keeps

LEMMA OwnersStep ==
  ASSUME TypeOK, CallsOK, RowsOK, OwnersOK, Next
  PROVE  RowsOK' /\ OwnersOK'
<1>u. UNCHANGED <<accounts, draft, lock>> => RowsOK' /\ OwnersOK'
  BY DEF RowsOK, OwnersOK, NewOwner
<1>1. ASSUME NEW t \in Calls, Finalize(t) \/ Restore(t) \/ Update(t) \/ MarkPending(t)
      PROVE  RowsOK' /\ OwnersOK'
  <2> DEFINE a == call[t].account
  <2>1. a \in AccountIds /\ call[t].at \in 0..MaxTime
    BY <1>1, Statements DEF TypeOK, Call
  <2>2. /\ Keeps(View(t, a), View(t, a))
        /\ Keeps(Finalized(View(t, a)), View(t, a)) /\ Keeps(Restored(View(t, a)), View(t, a))
        /\ Keeps([View(t, a) EXCEPT !.status = "pending_deletion",
                                    !.availableAt = call[t].at + Retention], View(t, a))
    BY <2>1, StatementRows
  <2>3. CASE Finalize(t)
    BY <2>1, <2>2, <2>3, Statements, WritingOwners
  <2>4. CASE Restore(t)
    BY <2>1, <2>2, <2>4, Statements, WritingOwners
  <2>5. CASE Update(t)
    BY <1>u, <2>1, <2>2, <2>5, Statements, WritingOwners
  <2>6. CASE MarkPending(t)
    BY <2>1, <2>2, <2>6, Statements, WritingOwners
  <2> QED
    BY <1>1, <2>3, <2>4, <2>5, <2>6
<1>2. ASSUME NEW t \in Calls, NEW r \in AccountIds, Create(t, r) PROVE RowsOK' /\ OwnersOK'
  BY <1>2, CreateOwners
<1>3. ASSUME NEW t \in Calls, NEW r \in AccountIds, PurgeOne(t, r) PROVE RowsOK' /\ OwnersOK'
  BY <1>3, PurgeOwners
<1>4. ASSUME NEW t \in Calls, Commit(t) \/ TableFull(t) PROVE RowsOK' /\ OwnersOK'
  BY <1>4, EndOwners DEF Commit, TableFull
<1> QED
  BY <1>u, <1>1, <1>2, <1>3, <1>4 DEF Next, SignInKnown, SignInNew, RequestDeletion, Purge, Find, Begin, Tick

-----------------------------------------------------------------------------
(***************************************************************************)
(* No account is deleted early.  A deletion date that is committed, or     *)
(* that a sign-in has written, was answered to the user, or an earlier one *)
(* was; a call finalizes an account only when such a date has passed.      *)
(***************************************************************************)
Promised(r, d) == promised[r] # Never /\ promised[r] <= d
Due(r) == Promised(r, now)
Deleting(t, r) == call[t].op = "deletion" /\ call[t].account = r

DatesOK ==
  /\ \A r \in AccountIds : accounts[r].availableAt # Never => Promised(r, accounts[r].availableAt)
  /\ \A r \in AccountIds : lock[r] # NoCall /\ draft[r].availableAt # Never =>
       Promised(r, draft[r].availableAt) \/ Deleting(lock[r], r)
DeletedOK ==
  \A r \in AccountIds : draft[r].status = "deleted" => accounts[r].status = "deleted" \/ Due(r)
DueOK ==
  \A t \in Calls : /\ call[t].op = "session" /\ call[t].next = "finalize" => Due(call[t].account)
                   /\ call[t].op = "purge" => \A r \in call[t].todo : Due(r)
MarkedOK ==
  \A t \in Calls : call[t].op = "deletion" /\ call[t].next = "commit" =>
    lock[call[t].account] = t /\ draft[call[t].account].availableAt # Never
PromisesOK == DatesOK /\ DeletedOK /\ DueOK /\ MarkedOK

\* A row that a statement writes has a date answered before, or the one its
\* request for deletion will answer.
Honest(t, r, row) ==
  /\ row.availableAt # Never => Promised(r, row.availableAt) \/ Deleting(t, r)
  /\ row.status = "deleted" => accounts[r].status = "deleted" \/ Due(r)

LEMMA ViewHonest ==
  ASSUME TypeOK, PromisesOK, NEW t \in Calls, NEW r \in AccountIds
  PROVE  Honest(t, r, View(t, r))
BY Constants DEF PromisesOK, DatesOK, DeletedOK, Honest, View

LEMMA WritePromises ==
  ASSUME TypeOK, CallsOK, PromisesOK, NEW t \in Calls, NEW r \in AccountIds, NEW row, NEW next,
         Writing(t, r, row, next), Honest(t, r, row), next # "finalize", call[t].op # "purge",
         call[t].op = "deletion" =>
           call[t].account = r /\ call'[t].account = r /\ (next = "commit" => row.availableAt # Never)
  PROVE  PromisesOK'
<1>1. /\ UNCHANGED <<accounts, promised, now>> /\ draft'[r] = row /\ lock'[r] = t /\ lock[r] \in {NoCall, t}
      /\ \A q \in AccountIds \ {r} : draft'[q] = draft[q] /\ lock'[q] = lock[q]
  BY DEF TypeOK, Writing, Write
<1>2. /\ \A s \in Calls \ {t} : call'[s] = call[s]
      /\ call'[t].op = call[t].op /\ call'[t].next = next
  BY DEF Writing, Goes
<1>3. DatesOK'
  <2>1. \A q \in AccountIds : accounts'[q].availableAt # Never => Promised(q, accounts[q].availableAt)'
    BY <1>1 DEF PromisesOK, DatesOK, Promised
  <2>2. ASSUME NEW q \in AccountIds, lock'[q] # NoCall, draft'[q].availableAt # Never
        PROVE  Promised(q, draft[q].availableAt)' \/ Deleting(lock[q], q)'
    <3>1. CASE q = r
      BY <1>1, <1>2, <2>2, <3>1 DEF Honest, Promised, Deleting
    <3>2. CASE q # r /\ lock[q] # t
      BY <1>1, <1>2, <2>2, <3>2 DEF PromisesOK, DatesOK, Promised, Deleting, TypeOK
    <3>3. CASE q # r /\ lock[q] = t
      BY <1>1, <1>2, <2>2, <3>3, Constants DEF PromisesOK, DatesOK, Promised, Deleting
    <3> QED
      BY <3>1, <3>2, <3>3
  <2> QED
    BY <2>1, <2>2 DEF DatesOK
<1>4. DeletedOK'
  BY <1>1 DEF PromisesOK, DeletedOK, Honest, Due, Promised
<1>5. DueOK'
  BY <1>1, <1>2 DEF PromisesOK, DueOK, Due, Promised
<1>6. MarkedOK'
  BY <1>1, <1>2, Constants DEF PromisesOK, MarkedOK, TypeOK, CallsOK, CallOK
<1> QED
  BY <1>3, <1>4, <1>5, <1>6 DEF PromisesOK

\* What a step that writes no row may do to a call
Quiet(s) ==
  \/ call'[s] = call[s] \/ Same(s)
  \/ ~Running(s) /\ call'[s].op = "deletion" /\ call'[s].next # "commit"
  \/ /\ call'[s].op = "session" /\ call[s].op \in {"none", "session"}
     /\ call'[s].next = "finalize" => Due(call'[s].account)
  \/ /\ ~Running(s) /\ call'[s].op = "purge"
     /\ \A r \in call'[s].todo : Due(r)

LEMMA ReadPromises ==
  ASSUME TypeOK, TypeOK', CallsOK', PromisesOK, UNCHANGED <<accounts, draft, lock, promised>>, now <= now',
         \A s \in Calls : Quiet(s)
  PROVE  PromisesOK'
<1>1. \A q \in AccountIds : Due(q) => Due(q)'
  BY Constants DEF Due, Promised, TypeOK
<1>2. DatesOK'
  BY DEF PromisesOK, DatesOK, Promised, Deleting, Same, Running, TypeOK, Quiet
<1>3. DeletedOK'
  BY <1>1 DEF PromisesOK, DeletedOK
<1>4. DueOK'
  <2>1. \A s \in Calls : /\ call'[s].op = "session" /\ call'[s].next = "finalize" => call'[s].account \in AccountIds
                         /\ call'[s].todo \subseteq AccountIds
    BY DEF CallsOK, CallOK, TypeOK, Call
  <2> QED
    BY <1>1, <2>1 DEF PromisesOK, DueOK, Same, Running, Quiet
<1>5. MarkedOK'
  BY DEF PromisesOK, MarkedOK, Same, Quiet
<1> QED
  BY <1>2, <1>3, <1>4, <1>5 DEF PromisesOK

LEMMA PurgePromises ==
  ASSUME TypeOK, CallsOK, PromisesOK, NEW t \in Calls, NEW r \in AccountIds, PurgeOne(t, r)
  PROVE  PromisesOK' /\ Due(r)
<1>1. /\ call[t].op = "purge" /\ r \in call[t].todo /\ lock[r] = NoCall
      /\ accounts'[r] = Finalized(accounts[r]) /\ UNCHANGED <<draft, lock, promised, now>>
      /\ \A q \in AccountIds \ {r} : accounts'[q] = accounts[q]
      /\ \A s \in Calls \ {t} : call'[s] = call[s]
      /\ call'[t].op = "none" \/ call'[t].op = "purge"
      /\ call'[t].op = "purge" => call'[t].todo \subseteq call[t].todo
  BY PurgeStep DEF Idle
<1>2. accounts[r] \in Account
  BY DEF TypeOK
<1>3. accounts'[r].availableAt = accounts[r].availableAt /\ accounts'[r].status = "deleted"
  <2>1. Finalized(accounts[r]).availableAt = accounts[r].availableAt /\ Finalized(accounts[r]).status = "deleted"
    BY <1>2, RowTypes
  <2> QED
    BY <1>1, <2>1
<1>4. Due(r)
  <2>1. call[t].op = "purge" /\ r \in call[t].todo
    BY <1>1
  <2> QED
    BY <2>1 DEF PromisesOK, DueOK
<1>5. DatesOK'
  <2>1. ASSUME NEW q \in AccountIds, accounts'[q].availableAt # Never
        PROVE  Promised(q, accounts[q].availableAt)'
    <3>1. accounts'[q].availableAt = accounts[q].availableAt
      BY <1>1, <1>3
    <3>2. Promised(q, accounts[q].availableAt)
      BY <2>1, <3>1 DEF PromisesOK, DatesOK
    <3> QED
      BY <1>1, <3>1, <3>2 DEF Promised
  <2>2. ASSUME NEW q \in AccountIds, lock'[q] # NoCall, draft'[q].availableAt # Never
        PROVE  Promised(q, draft[q].availableAt)' \/ Deleting(lock[q], q)'
    <3>1. lock[q] \in Calls \ {t} /\ call'[lock[q]] = call[lock[q]]
      BY <1>1, <2>2 DEF TypeOK, CallsOK
    <3>2. Promised(q, draft[q].availableAt) \/ Deleting(lock[q], q)
      BY <1>1, <2>2 DEF PromisesOK, DatesOK
    <3> QED
      BY <1>1, <3>1, <3>2 DEF Promised, Deleting
  <2> QED
    BY <2>1, <2>2 DEF DatesOK
<1>6. DeletedOK'
  <2>1. \A q \in AccountIds : accounts[q].status = "deleted" => accounts'[q].status = "deleted"
    BY <1>1, <1>3
  <2> QED
    BY <1>1, <2>1 DEF PromisesOK, DeletedOK, Due, Promised
<1>7. DueOK'
  BY <1>1 DEF PromisesOK, DueOK, Due, Promised
<1>8. MarkedOK'
  BY <1>1 DEF PromisesOK, MarkedOK
<1> QED
  BY <1>4, <1>5, <1>6, <1>7, <1>8 DEF PromisesOK

LEMMA CommitPromises ==
  ASSUME TypeOK, CallsOK, PromisesOK, NEW t \in Calls, Commit(t)
  PROVE  /\ PromisesOK'
         /\ \A r \in AccountIds :
              accounts[r].status # "deleted" /\ accounts'[r].status = "deleted" => Due(r)
<1>1. /\ TypeOK' /\ CallsOK' /\ now' = now
      /\ call'[t].op = "none" /\ \A s \in Calls \ {t} : call'[s] = call[s]
  BY CommitStep, EndStep DEF Commit, Ended, Idle
<1>2. \A r \in AccountIds : /\ accounts'[r] = (IF lock[r] = t THEN draft[r] ELSE accounts[r])
                            /\ lock'[r] = (IF lock[r] = t THEN NoCall ELSE lock[r])
                            /\ lock[r] # t => draft'[r] = draft[r]
  BY CommitStep, EndStep DEF Commit, View
<1>3. \A r \in AccountIds : Deleting(t, r) =>
        /\ lock[r] = t /\ draft[r].availableAt # Never
        /\ promised'[r] # Never /\ promised'[r] <= draft[r].availableAt
        /\ promised[r] # Never => promised'[r] <= promised[r]
  <2>1. \A r \in AccountIds : Deleting(t, r) => lock[r] = t /\ draft[r].availableAt # Never
    BY DEF PromisesOK, MarkedOK, Commit, Deleting
  <2> QED
    BY <2>1, CommitStep DEF Deleting, View
<1>4. ASSUME NEW r \in AccountIds, NEW d \in Nat, Promised(r, d) PROVE Promised(r, d)'
  <2>1. promised[r] \in Nat /\ promised'[r] \in Nat
    BY <1>1, Constants DEF TypeOK
  <2> QED
    BY <1>3, <1>4, <2>1, CommitStep DEF Promised, Deleting
<1>5. \A r \in AccountIds : Due(r) => Due(r)'
  BY <1>1, <1>4, Constants DEF Due, TypeOK, Promised
<1>6. \A r \in AccountIds : accounts[r].availableAt \in Nat /\ draft[r].availableAt \in Nat
  BY Constants DEF TypeOK, Account
<1>7. DatesOK'
  <2>1. ASSUME NEW r \in AccountIds, accounts'[r].availableAt # Never
        PROVE  Promised(r, accounts[r].availableAt)'
    <3>1. CASE lock[r] = t /\ Deleting(t, r)
      BY <1>2, <1>3, <3>1 DEF Promised
    <3>2. CASE lock[r] = t /\ ~Deleting(t, r)
      <4>1. Promised(r, draft[r].availableAt)
        BY <1>2, <2>1, <3>2, Constants DEF PromisesOK, DatesOK
      <4> QED
        BY <1>2, <1>4, <1>6, <3>2, <4>1 DEF Promised
    <3>3. CASE lock[r] # t
      <4>1. Promised(r, accounts[r].availableAt)
        BY <1>2, <2>1, <3>3 DEF PromisesOK, DatesOK
      <4> QED
        BY <1>2, <1>4, <1>6, <3>3, <4>1 DEF Promised
    <3> QED
      BY <3>1, <3>2, <3>3
  <2>2. ASSUME NEW r \in AccountIds, lock'[r] # NoCall, draft'[r].availableAt # Never
        PROVE  Promised(r, draft[r].availableAt)' \/ Deleting(lock[r], r)'
    <3>1. lock[r] # t /\ lock'[r] = lock[r] /\ draft'[r] = draft[r] /\ lock[r] \in Calls
      BY <1>2, <2>2 DEF TypeOK
    <3>2. Promised(r, draft[r].availableAt) \/ Deleting(lock[r], r)
      BY <2>2, <3>1 DEF PromisesOK, DatesOK
    <3>3. CASE Promised(r, draft[r].availableAt)
      BY <1>4, <1>6, <3>1, <3>3 DEF Promised
    <3>4. CASE Deleting(lock[r], r)
      BY <1>1, <3>1, <3>4 DEF Deleting
    <3> QED
      BY <3>2, <3>3, <3>4
  <2> QED
    BY <2>1, <2>2 DEF DatesOK
<1>8. DeletedOK'
  <2>1. ASSUME NEW r \in AccountIds, draft'[r].status = "deleted"
        PROVE  accounts'[r].status = "deleted" \/ Due(r)'
    <3>1. lock[r] # t
      BY <2>1, EndStep DEF Commit, NoAccount
    <3> QED
      BY <1>2, <1>5, <2>1, <3>1 DEF PromisesOK, DeletedOK
  <2> QED
    BY <2>1 DEF DeletedOK
<1>9. DueOK'
  <2>1. \A s \in Calls : /\ call[s].op = "session" /\ call[s].next = "finalize" => call[s].account \in AccountIds
                         /\ call[s].todo \subseteq AccountIds
    BY DEF CallsOK, CallOK, TypeOK, Call
  <2> QED
    BY <1>1, <1>5, <2>1 DEF PromisesOK, DueOK
<1>10. MarkedOK'
  <2>1. ASSUME NEW s \in Calls, call'[s].op = "deletion", call'[s].next = "commit"
        PROVE  lock'[call'[s].account] = s /\ draft'[call'[s].account].availableAt # Never
    <3>1. s # t /\ call'[s] = call[s] /\ call[s].account \in AccountIds
      BY <1>1, <2>1 DEF CallsOK, CallOK
    <3> QED
      BY <1>2, <2>1, <3>1 DEF PromisesOK, MarkedOK
  <2> QED
    BY <2>1 DEF MarkedOK
<1>11. \A r \in AccountIds : accounts[r].status # "deleted" /\ accounts'[r].status = "deleted" => Due(r)
  BY <1>2 DEF PromisesOK, DeletedOK
<1> QED
  BY <1>7, <1>8, <1>9, <1>10, <1>11 DEF PromisesOK

LEMMA EndPromises ==
  ASSUME TypeOK, CallsOK, PromisesOK, NEW t \in Calls, TableFull(t)
  PROVE  PromisesOK'
<1>1. /\ UNCHANGED <<accounts, promised, now>>
      /\ call'[t].op = "none" /\ \A s \in Calls \ {t} : call'[s] = call[s]
  BY EndStep DEF TableFull, Ended, Idle
<1>2. \A r \in AccountIds : /\ lock'[r] = (IF lock[r] = t THEN NoCall ELSE lock[r])
                            /\ lock[r] # t => draft'[r] = draft[r]
                            /\ lock[r] = t => draft'[r].status # "deleted"
  BY EndStep DEF TableFull, NoAccount
<1>3. DatesOK'
  <2>1. ASSUME NEW r \in AccountIds, lock'[r] # NoCall, draft'[r].availableAt # Never
        PROVE  Promised(r, draft[r].availableAt)' \/ Deleting(lock[r], r)'
    <3>1. lock[r] # t /\ lock'[r] = lock[r] /\ draft'[r] = draft[r] /\ lock[r] \in Calls
      BY <1>2, <2>1 DEF TypeOK
    <3> QED
      BY <1>1, <2>1, <3>1 DEF PromisesOK, DatesOK, Promised, Deleting
  <2> QED
    BY <1>1, <2>1 DEF PromisesOK, DatesOK, Promised
<1>4. DeletedOK'
  BY <1>1, <1>2 DEF PromisesOK, DeletedOK, Due, Promised
<1>5. DueOK'
  BY <1>1 DEF PromisesOK, DueOK, Due, Promised
<1>6. MarkedOK'
  <2>1. ASSUME NEW s \in Calls, call'[s].op = "deletion", call'[s].next = "commit"
        PROVE  lock'[call'[s].account] = s /\ draft'[call'[s].account].availableAt # Never
    <3>1. s # t /\ call'[s] = call[s] /\ call[s].account \in AccountIds
      BY <1>1, <2>1 DEF CallsOK, CallOK
    <3> QED
      BY <1>2, <2>1, <3>1 DEF PromisesOK, MarkedOK
  <2> QED
    BY <2>1 DEF MarkedOK
<1> QED
  BY <1>3, <1>4, <1>5, <1>6 DEF PromisesOK

\* The rows the statements write are honest.
LEMMA HonestRows ==
  ASSUME TypeOK, PromisesOK, NEW t \in Calls, NEW r \in AccountIds
  PROVE  LET seen == View(t, r) IN
         /\ Honest(t, r, seen) /\ Honest(t, r, Restored(seen))
         /\ Due(r) => Honest(t, r, Finalized(seen))
         /\ Deleting(t, r) => \A at \in 0..MaxTime :
              Honest(t, r, [seen EXCEPT !.status = "pending_deletion", !.availableAt = at + Retention])
<1>1. View(t, r) \in Account /\ Honest(t, r, View(t, r))
  BY ViewType, ViewHonest
<1> HIDE DEF View
<1>2. Honest(t, r, Restored(View(t, r)))
  BY <1>1, RowTypes DEF Honest
<1>3. Due(r) => Honest(t, r, Finalized(View(t, r)))
  BY <1>1, RowTypes DEF Honest
<1>4. ASSUME Deleting(t, r), NEW at \in 0..MaxTime
      PROVE  Honest(t, r, [View(t, r) EXCEPT !.status = "pending_deletion", !.availableAt = at + Retention])
  BY <1>1, <1>4, RowTypes DEF Honest
<1> QED
  BY <1>1, <1>2, <1>3, <1>4

LEMMA StartPromises ==
  ASSUME TypeOK, CallsOK, TypeOK', CallsOK', PromisesOK, NEW t \in Calls,
         NEW op \in {"session", "deletion", "purge"}, NEW next, NEW r, NEW todo, next # "commit",
         Started(t, op, next, r, todo),
         op = "session" /\ next = "finalize" => Due(r),
         op = "purge" => \A q \in todo : Due(q)
  PROVE  PromisesOK'
<1>1. now <= now' /\ UNCHANGED <<accounts, draft, lock, promised>>
  BY Constants DEF Started, TypeOK
<1>2. \A s \in Calls \ {t} : Quiet(s)
  BY DEF Started, Quiet
<1>3. Quiet(t)
  BY DEF Started, Running, Quiet
<1> QED
  BY <1>1, <1>2, <1>3, ReadPromises

LEMMA PromisesStep ==
  ASSUME TypeOK, CallsOK, PromisesOK, Next
  PROVE  PromisesOK'
<1>t. TypeOK' /\ CallsOK'
  BY TypeStep
<1>d. \A r \in AccountIds : deletionWindowExpired(accounts[r], now) => Due(r)
  BY Constants DEF deletionWindowExpired, PromisesOK, DatesOK, Due, Promised, TypeOK, Account
<1>1. ASSUME NEW t \in Calls, NEW r \in AccountIds, SignInKnown(t, r) PROVE PromisesOK'
  <2>1. Started(t, "session", SignInNext(r), r, {}) /\ (SignInNext(r) = "finalize" => Due(r)) /\ SignInNext(r) # "commit"
    BY <1>1, <1>d, Begins DEF SignInNext
  <2> QED
    BY <1>t, <2>1, StartPromises
<1>2. ASSUME NEW t \in Calls, SignInNew(t) PROVE PromisesOK'
  BY <1>2, <1>t, Begins, StartPromises
<1>3. ASSUME NEW t \in Calls, NEW r \in AccountIds, RequestDeletion(t, r) PROVE PromisesOK'
  BY <1>3, <1>t, Begins, StartPromises
<1>4. ASSUME NEW t \in Calls, Purge(t) PROVE PromisesOK'
  <2>1. \A r \in {r \in AccountIds : Eligible(r, now)} : Due(r)
    BY <1>d DEF Eligible
  <2> QED
    BY <1>4, <1>t, <2>1, Begins, StartPromises
<1>5. ASSUME NEW t \in Calls, Finalize(t) PROVE PromisesOK'
  <2>1. /\ call[t].op = "session" /\ call[t].next = "finalize" /\ call[t].account \in AccountIds
        /\ Writing(t, call[t].account, Finalized(View(t, call[t].account)), "findOrCreate")
    BY <1>5, Statements
  <2>2. Due(call[t].account)
    BY <2>1 DEF PromisesOK, DueOK
  <2>3. Honest(t, call[t].account, Finalized(View(t, call[t].account)))
    BY <2>1, <2>2, HonestRows
  <2> QED
    BY <2>1, <2>3, WritePromises
<1>6. ASSUME NEW t \in Calls, Restore(t) PROVE PromisesOK'
  BY <1>6, Statements, HonestRows, WritePromises
<1>7. ASSUME NEW t \in Calls, NEW r \in AccountIds, Create(t, r) PROVE PromisesOK'
  <2>1. Honest(t, r, NewAccount)
    BY DEF Honest, NewAccount
  <2> QED
    BY <1>7, <2>1, Statements, WritePromises
<1>8. ASSUME NEW t \in Calls, Update(t) PROVE PromisesOK'
  <2>1. /\ call[t].op = "session" /\ call[t].account \in AccountIds /\ Goes(t, "commit")
        /\ \/ Writing(t, call[t].account, Restored(View(t, call[t].account)), "commit")
           \/ Writing(t, call[t].account, View(t, call[t].account), "commit")
           \/ UNCHANGED <<accounts, draft, lock, promised, now>>
    BY <1>8, Statements
  <2>2. CASE UNCHANGED <<accounts, draft, lock, promised, now>>
    <3>1. now <= now' /\ \A s \in Calls : Quiet(s)
      BY <2>1, <2>2, Constants DEF Goes, TypeOK, Quiet
    <3> QED
      BY <1>t, <2>1, <2>2, <3>1, ReadPromises
  <2>3. CASE ~UNCHANGED <<accounts, draft, lock, promised, now>>
    BY <2>1, <2>3, HonestRows, WritePromises
  <2> QED
    BY <2>2, <2>3
<1>9. ASSUME NEW t \in Calls, MarkPending(t) PROVE PromisesOK'
  <2> DEFINE a == call[t].account
             row == [View(t, a) EXCEPT !.status = "pending_deletion", !.availableAt = call[t].at + Retention]
  <2>1. /\ Writing(t, a, row, "commit") /\ call'[t].account = a /\ a \in AccountIds
        /\ call[t].op = "deletion" /\ call[t].at \in 0..MaxTime /\ Deleting(t, a)
    BY <1>9, Statements DEF TypeOK, Call, Deleting
  <2>2. Honest(t, a, row)
    BY <2>1, HonestRows
  <2>3. row.availableAt # Never
    <3>1. View(t, a) \in Account
      BY <2>1, ViewType
    <3> QED
      BY <2>1, <3>1, RowTypes
  <2> HIDE DEF a, row
  <2>4. call[t].op # "purge" /\ (call[t].op = "deletion" => call[t].account = a)
    BY <2>1 DEF a
  <2> QED
    BY <2>1, <2>2, <2>3, <2>4, WritePromises
<1>10. ASSUME NEW t \in Calls, NEW r \in AccountIds, Find(t, r) PROVE PromisesOK'
  <2>1. /\ call[t].op = "session" /\ Goes(t, "update") /\ UNCHANGED <<accounts, draft, lock, promised, now>>
    BY <1>10, Statements
  <2> QED
    <3>1. now <= now' /\ \A s \in Calls : Quiet(s)
      BY <2>1, Constants DEF Goes, TypeOK, Quiet
    <3> QED
      BY <1>t, <2>1, <3>1, ReadPromises
<1>11. CASE Tick
  <2>1. now <= now' /\ UNCHANGED <<accounts, draft, lock, promised>> /\ \A s \in Calls : Quiet(s)
    BY <1>11, Constants DEF Tick, TypeOK, Quiet
  <2> QED
    BY <1>t, <2>1, ReadPromises
<1> QED
  BY <1>1, <1>2, <1>3, <1>4, <1>5, <1>6, <1>7, <1>8, <1>9, <1>10, <1>11,
     PurgePromises, CommitPromises, EndPromises DEF Next

-----------------------------------------------------------------------------
(***************************************************************************)
(* A sign-in that overlaps no other call.  No row is locked but by its own *)
(* transaction; what it sees of the subject before findOrCreate is an      *)
(* active account, or none at all because the window of the one the        *)
(* subject had was over.                                                   *)
(***************************************************************************)
Over(t, q) == deletionWindowExpired(accounts[q], call[t].at)
LoneSession(t) ==
  /\ call[t].next \in {"restore", "finalize"} =>
       accounts[call[t].account].owner /\ \A r \in AccountIds : lock[r] # t
  /\ call[t].next = "finalize" => Over(t, call[t].account)
  /\ call[t].next = "findOrCreate" => \A q \in AccountIds :
       /\ View(t, q).owner => View(t, q) = NewAccount /\ accounts[q].owner
       /\ accounts[q].owner => View(t, q).owner \/ Over(t, q)
  /\ call[t].next \in {"update", "commit"} =>
       /\ View(t, call[t].account) = NewAccount
       /\ \A q \in AccountIds : accounts[q].owner => q = call[t].account \/ Over(t, q)
  /\ call[t].next = "update" => call[t].seen.status = "active"
AloneOK ==
  \A t \in Calls : call[t].alone =>
    /\ \A o \in Calls \ {t} : ~Running(o)
    /\ call[t].op = "session" => LoneSession(t)

LEMMA NewAccounts ==
  ASSUME NEW row \in Account, row.owner
  PROVE  /\ Restored(row) = NewAccount
         /\ RowOK(row) /\ row.status = "active" => row = NewAccount
<1>1. ASSUME NEW r \in Account, r.owner, r.status = "active", r.availableAt = Never PROVE r = NewAccount
  <2>1. r = [status |-> r.status, owner |-> r.owner, availableAt |-> r.availableAt]
    BY DEF Account
  <2>2. r.owner = TRUE
    BY <1>1 DEF Account
  <2> QED
    BY <1>1, <2>1, <2>2, Zenon DEF NewAccount
<1>2. Restored(row) \in Account /\ Restored(row).owner /\ Restored(row).status = "active" /\ Restored(row).availableAt = Never
  BY RowTypes
<1>3. RowOK(row) /\ row.status = "active" => row.availableAt = Never
  BY DEF RowOK
<1> QED
  BY <1>1, <1>2, <1>3

LEMMA LoneBegin ==
  ASSUME TypeOK, RowsOK, OwnersOK, NEW t \in Calls, NEW r \in AccountIds \cup {0},
         \/ /\ r \in AccountIds /\ accounts[r].owner
            /\ Started(t, "session", SignInNext(r), r, {})
         \/ /\ \A q \in AccountIds : ~accounts[q].owner
            /\ Started(t, "session", "findOrCreate", r, {})
  PROVE  LoneSession(t)'
<1>1. UNCHANGED <<accounts, draft, lock>> /\ call'[t].at = now /\ call'[t].account = r
  BY DEF Started
<1>2. \A q \in AccountIds : lock'[q] # t
  BY Constants DEF Started, TypeOK
<1>3. \A q \in AccountIds : View(t, q)' = accounts[q]
  BY <1>1, <1>2 DEF View
<1>4. CASE \A q \in AccountIds : ~accounts[q].owner
  <2>1. call'[t].next = "findOrCreate"
    BY <1>4 DEF Started
  <2> QED
    BY <1>1, <1>3, <1>4, <2>1 DEF LoneSession
<1>5. CASE r \in AccountIds /\ accounts[r].owner
  <2>1. call'[t].next = SignInNext(r)
    BY <1>5 DEF Started
  <2>2. SignInNext(r) = "finalize" => Over(t, r)'
    BY <1>1 DEF SignInNext, Over
  <2>3. SignInNext(r) = "findOrCreate" => accounts[r] = NewAccount
    BY <1>5, NewAccounts DEF SignInNext, TypeOK, RowsOK
  <2>4. \A q \in AccountIds : accounts[q].owner => q = r
    BY <1>5 DEF OwnersOK
  <2>5. SignInNext(r) \in {"findOrCreate", "restore", "finalize"}
    BY DEF SignInNext
  <2> HIDE DEF View
  <2> QED
    BY <1>1, <1>2, <1>3, <1>5, <2>1, <2>2, <2>3, <2>4, <2>5 DEF LoneSession
<1> QED
  BY <1>4, <1>5

LEMMA WrittenView ==
  ASSUME TypeOK, NEW t \in Calls, NEW r \in AccountIds, NEW row, NEW next, Writing(t, r, row, next)
  PROVE  /\ View(t, r)' = row /\ \A q \in AccountIds \ {r} : View(t, q)' = View(t, q)
         /\ UNCHANGED accounts /\ call'[t].at = call[t].at /\ call'[t].next = next
BY DEF TypeOK, Writing, Write, Goes, View

LEMMA LoneFinalize ==
  ASSUME TypeOK, CallsOK, OwnersOK, NEW t \in Calls, LoneSession(t), Finalize(t)
  PROVE  LoneSession(t)'
<1>0. PICK a : a = call[t].account
  OBVIOUS
<1>1. /\ call[t].next = "finalize" /\ a \in AccountIds
      /\ Writing(t, a, Finalized(View(t, a)), "findOrCreate")
  BY <1>0, Statements
<1>2. /\ View(t, a)' = Finalized(View(t, a)) /\ \A q \in AccountIds \ {a} : View(t, q)' = View(t, q)
      /\ UNCHANGED accounts /\ call'[t].at = call[t].at /\ call'[t].next = "findOrCreate"
  BY <1>1, WrittenView
<1>3. accounts[a].owner /\ Over(t, a) /\ \A r \in AccountIds : View(t, r) = accounts[r]
  BY <1>0, <1>1 DEF LoneSession, View
<1>4. \A q \in AccountIds : accounts[q].owner => q = a
  BY <1>1, <1>3 DEF OwnersOK
<1>5. ~View(t, a)'.owner
  <2>1. View(t, a) \in Account
    BY <1>1, ViewType
  <2>2. ~Finalized(View(t, a)).owner
    BY <2>1, RowTypes
  <2> QED
    BY <1>2, <2>2
<1>6. Over(t, a)'
  BY <1>2, <1>3 DEF Over
<1> HIDE DEF View
<1>7. \A q \in AccountIds : ~View(t, q)'.owner
  BY <1>2, <1>3, <1>4, <1>5
<1> QED
  BY <1>2, <1>4, <1>6, <1>7 DEF LoneSession

LEMMA LoneRestore ==
  ASSUME TypeOK, CallsOK, OwnersOK, NEW t \in Calls, LoneSession(t), Restore(t)
  PROVE  LoneSession(t)'
<1>0. PICK a : a = call[t].account
  OBVIOUS
<1>1. /\ call[t].next = "restore" /\ a \in AccountIds
      /\ Writing(t, a, Restored(View(t, a)), "findOrCreate")
  BY <1>0, Statements
<1>2. /\ View(t, a)' = Restored(View(t, a)) /\ \A q \in AccountIds \ {a} : View(t, q)' = View(t, q)
      /\ UNCHANGED accounts /\ call'[t].at = call[t].at /\ call'[t].next = "findOrCreate"
  BY <1>1, WrittenView
<1>3. accounts[a].owner /\ \A r \in AccountIds : View(t, r) = accounts[r]
  BY <1>0, <1>1 DEF LoneSession, View
<1>4. \A q \in AccountIds : accounts[q].owner => q = a
  BY <1>1, <1>3 DEF OwnersOK
<1>5. View(t, a)' = NewAccount /\ NewAccount.owner
  BY <1>1, <1>2, <1>3, ViewType, NewAccounts DEF NewAccount
<1> HIDE DEF View
<1>6. \A q \in AccountIds : View(t, q)'.owner => q = a
  BY <1>2, <1>3, <1>4
<1> QED
  BY <1>1, <1>2, <1>3, <1>4, <1>5, <1>6 DEF LoneSession

LEMMA LoneFind ==
  ASSUME TypeOK, CallsOK, OwnersOK, NEW t \in Calls, NEW r \in AccountIds, LoneSession(t), Find(t, r)
  PROVE  LoneSession(t)'
<1>1. /\ call[t].next = "findOrCreate" /\ View(t, r).owner /\ Goes(t, "update")
      /\ call'[t].account = r /\ call'[t].seen = View(t, r)
      /\ UNCHANGED <<accounts, draft, lock, promised, now>>
  BY Statements
<1>2. \A q \in AccountIds : View(t, q)' = View(t, q) /\ (Over(t, q) => Over(t, q)')
  BY <1>1 DEF View, Over, Goes
<1>3. View(t, r) = NewAccount /\ accounts[r].owner
  BY <1>1 DEF LoneSession
<1>4. \A q \in AccountIds : accounts[q].owner => q = r
  BY <1>3 DEF OwnersOK
<1>5. NewAccount.status = "active"
  BY DEF NewAccount
<1> HIDE DEF View
<1> QED
  BY <1>1, <1>2, <1>3, <1>4, <1>5 DEF LoneSession, Goes

LEMMA LoneCreate ==
  ASSUME TypeOK, CallsOK, NEW t \in Calls, NEW r \in AccountIds, LoneSession(t), Create(t, r)
  PROVE  LoneSession(t)'
<1>1. /\ call[t].next = "findOrCreate" /\ Writing(t, r, NewAccount, "update")
      /\ call'[t].account = r /\ call'[t].seen = NewAccount
  BY Statements
<1>2. /\ View(t, r)' = NewAccount /\ UNCHANGED accounts
      /\ call'[t].at = call[t].at /\ call'[t].next = "update"
  BY <1>1, WrittenView
<1>3. \A q \in AccountIds : accounts[q].owner => Over(t, q)'
  BY <1>1, <1>2 DEF LoneSession, Create, Over
<1>4. NewAccount.status = "active"
  BY DEF NewAccount
<1> HIDE DEF View
<1> QED
  BY <1>1, <1>2, <1>3, <1>4 DEF LoneSession

LEMMA LoneUpdate ==
  ASSUME TypeOK, CallsOK, NEW t \in Calls, LoneSession(t), Update(t)
  PROVE  LoneSession(t)'
<1>0. PICK a : a = call[t].account
  OBVIOUS
<1>1. /\ call[t].next = "update" /\ a \in AccountIds /\ call'[t].account = a /\ Goes(t, "commit")
      /\ call[t].seen.status = "active" /\ View(t, a) = NewAccount
      /\ \A q \in AccountIds : accounts[q].owner => q = a \/ Over(t, q)
  BY <1>0, Statements DEF LoneSession
<1>2. \/ Writing(t, a, View(t, a), "commit")
      \/ UNCHANGED <<accounts, draft, lock, promised, now>>
  BY <1>0, <1>1, Statements
<1>3. View(t, a)' = NewAccount /\ UNCHANGED accounts
  <2>1. CASE Writing(t, a, View(t, a), "commit")
    BY <1>1, <2>1, WrittenView
  <2>2. CASE UNCHANGED <<accounts, draft, lock, promised, now>>
    BY <1>1, <2>2 DEF View
  <2> QED
    BY <1>2, <2>1, <2>2
<1>4. \A q \in AccountIds : accounts'[q].owner => q = a \/ Over(t, q)'
  BY <1>1, <1>3 DEF Over, Goes
<1> HIDE DEF View
<1>5. call'[t].next = "commit" /\ call'[t].account = a
  BY <1>1 DEF Goes
<1> QED
  BY <1>3, <1>4, <1>5 DEF LoneSession

\* A call that is alone is the only one that can take a step.
LEMMA LoneSteps ==
  ASSUME TypeOK, TypeOK', CallsOK, CallsOK', RowsOK, OwnersOK, AloneOK, Next,
         NEW t \in Calls, call'[t].alone
  PROVE  /\ \A o \in Calls \ {t} : ~Running(o)'
         /\ call'[t].op = "session" => LoneSession(t)'
<1> DEFINE Goal ==
      /\ \A o \in Calls \ {t} : ~Running(o)'
      /\ call'[t].op = "session" => LoneSession(t)'
<1>1. ASSUME NEW s \in Calls \ {t}, NEW op, NEW next, NEW r, NEW todo, Started(s, op, next, r, todo)
      PROVE  FALSE
  BY <1>1 DEF Started
<1>2. ASSUME NEW s \in Calls \ {t}, NEW next, Goes(s, next), Running(s) PROVE FALSE
  BY <1>2 DEF Goes, AloneOK
<1>3. ASSUME NEW s \in Calls \ {t}, \A o \in Calls \ {s} : call'[o] = call[o], Running(s) PROVE FALSE
  BY <1>3 DEF AloneOK
<1>4. ASSUME NEW op, NEW next, NEW r, NEW todo, Started(t, op, next, r, todo)
      PROVE  \A o \in Calls \ {t} : ~Running(o)'
  BY <1>4 DEF Started, Same, Running
<1>5. ASSUME NEW next, Goes(t, next)
      PROVE  /\ call[t].alone /\ call'[t].op = call[t].op
             /\ \A o \in Calls \ {t} : ~Running(o)'
  BY <1>5 DEF Goes, AloneOK, Running
<1>6. ASSUME NEW s \in Calls, NEW r \in AccountIds, SignInKnown(s, r) PROVE Goal
  <2>1. s = t
    BY <1>1, <1>6, Begins
  <2> QED
    BY <1>4, <1>6, <2>1, Begins, LoneBegin
<1>7. ASSUME NEW s \in Calls, SignInNew(s) PROVE Goal
  <2>1. s = t
    BY <1>1, <1>7, Begins
  <2> QED
    BY <1>4, <1>7, <2>1, Begins, LoneBegin
<1>8. ASSUME NEW s \in Calls, NEW r \in AccountIds, RequestDeletion(s, r) PROVE Goal
  <2>1. s = t /\ Started(t, "deletion", "update", r, {})
    BY <1>1, <1>8, Begins
  <2> QED
    BY <1>4, <2>1 DEF Started
<1>9. ASSUME NEW s \in Calls, Purge(s) PROVE Goal
  <2>1. s = t /\ Started(t, "purge", "finalize", 0, {r \in AccountIds : Eligible(r, now)})
    BY <1>1, <1>9, Begins
  <2> QED
    BY <1>4, <2>1 DEF Started
<1>10. ASSUME NEW s \in Calls, Finalize(s) PROVE Goal
  <2>1. Goes(s, "findOrCreate") /\ call[s].op = "session"
    BY <1>10, Statements DEF Writing
  <2>2. s = t
    BY <1>2, <2>1 DEF Running
  <2> QED
    BY <1>5, <1>10, <2>1, <2>2, LoneFinalize DEF AloneOK
<1>11. ASSUME NEW s \in Calls, Restore(s) PROVE Goal
  <2>1. Goes(s, "findOrCreate") /\ call[s].op = "session"
    BY <1>11, Statements DEF Writing
  <2>2. s = t
    BY <1>2, <2>1 DEF Running
  <2> QED
    BY <1>5, <1>11, <2>1, <2>2, LoneRestore DEF AloneOK
<1>12. ASSUME NEW s \in Calls, NEW r \in AccountIds, Find(s, r) PROVE Goal
  <2>1. Goes(s, "update") /\ call[s].op = "session"
    BY <1>12, Statements
  <2>2. s = t
    BY <1>2, <2>1 DEF Running
  <2> QED
    BY <1>5, <1>12, <2>1, <2>2, LoneFind DEF AloneOK
<1>13. ASSUME NEW s \in Calls, NEW r \in AccountIds, Create(s, r) PROVE Goal
  <2>1. Goes(s, "update") /\ call[s].op = "session"
    BY <1>13, Statements DEF Writing
  <2>2. s = t
    BY <1>2, <2>1 DEF Running
  <2> QED
    BY <1>5, <1>13, <2>1, <2>2, LoneCreate DEF AloneOK
<1>14. ASSUME NEW s \in Calls, Update(s) PROVE Goal
  <2>1. Goes(s, "commit") /\ call[s].op = "session"
    BY <1>14, Statements
  <2>2. s = t
    BY <1>2, <2>1 DEF Running
  <2> QED
    BY <1>5, <1>14, <2>1, <2>2, LoneUpdate DEF AloneOK
<1>15. ASSUME NEW s \in Calls, MarkPending(s) PROVE Goal
  <2>1. Goes(s, "commit") /\ call[s].op = "deletion"
    BY <1>15, Statements DEF Writing
  <2>2. s = t
    BY <1>2, <2>1 DEF Running
  <2> QED
    BY <1>5, <2>1, <2>2
<1>16. ASSUME NEW s \in Calls, NEW r \in AccountIds, PurgeOne(s, r) PROVE Goal
  <2>1. /\ call[s].op = "purge" /\ \A o \in Calls \ {s} : call'[o] = call[o]
        /\ call'[s] = Idle \/ call'[s].op = "purge"
    BY <1>16, PurgeStep
  <2>2. s = t
    BY <1>3, <2>1 DEF Running
  <2>3. call'[t].op = "purge" /\ call[t].alone
    BY <1>16, <2>1, <2>2 DEF Idle, PurgeOne, TypeOK, Call
  <2> QED
    BY <2>1, <2>2, <2>3 DEF AloneOK, Running
<1>17. ASSUME NEW s \in Calls, Commit(s) \/ TableFull(s) PROVE FALSE
  <2>1. Ended(s) /\ Running(s)
    BY <1>17, EndStep DEF Commit, TableFull, CallsOK, CallOK, Running
  <2> QED
    BY <1>3, <2>1 DEF Ended, Idle
<1>18. ASSUME Tick PROVE Goal
  <2>1. UNCHANGED <<accounts, draft, lock, call>>
    BY <1>18 DEF Tick
  <2> QED
    BY <2>1 DEF AloneOK, LoneSession, View, Over, Running
<1> HIDE DEF Goal
<1>19. Goal
  BY <1>6, <1>7, <1>8, <1>9, <1>10, <1>11, <1>12, <1>13, <1>14, <1>15, <1>16, <1>17, <1>18 DEF Next
<1> QED
  BY <1>19 DEF Goal

-----------------------------------------------------------------------------
IInv == TypeOK /\ CallsOK /\ RowsOK /\ OwnersOK /\ PromisesOK /\ AloneOK

LEMMA InvInit == Init => IInv
<1> SUFFICES ASSUME Init PROVE IInv
  OBVIOUS
<1>1. \A r \in AccountIds : accounts[r] = NoAccount /\ draft[r] = NoAccount /\ lock[r] = NoCall /\ promised[r] = Never
  BY DEF Init
<1>2. \A t \in Calls : call[t] = Idle
  BY DEF Init
<1>3. TypeOK
  BY Constants DEF Init, TypeOK, Idle, Call, Never
<1>4. CallsOK
  BY <1>1, <1>2 DEF CallsOK, CallOK, Idle
<1>5. /\ NoAccount.status = "none" /\ ~NoAccount.owner /\ NoAccount.availableAt = Never
      /\ Idle.op = "none" /\ Idle.next = "none" /\ ~Idle.alone
  BY DEF NoAccount, Idle
<1>6. RowsOK /\ OwnersOK
  BY <1>1, <1>5 DEF RowsOK, RowOK, OwnersOK, NewOwner
<1>7. PromisesOK
  BY <1>1, <1>2, <1>5 DEF PromisesOK, DatesOK, DeletedOK, DueOK, MarkedOK
<1>8. AloneOK
  BY <1>2, <1>5 DEF AloneOK
<1> QED
  BY <1>3, <1>4, <1>6, <1>7, <1>8 DEF IInv

LEMMA InvStep == IInv /\ [Next]_vars => IInv'
<1> SUFFICES ASSUME IInv, [Next]_vars PROVE IInv'
  OBVIOUS
<1>1. CASE Next
  <2>1. TypeOK' /\ CallsOK'
    BY <1>1, TypeStep DEF IInv
  <2>2. AloneOK'
    BY <1>1, <2>1, LoneSteps DEF IInv, AloneOK
  <2> QED
    BY <1>1, <2>1, <2>2, OwnersStep, PromisesStep DEF IInv
<1>2. CASE UNCHANGED vars
  BY <1>2 DEF vars, IInv, TypeOK, CallsOK, RowsOK, OwnersOK, NewOwner, PromisesOK, DatesOK, DeletedOK,
     DueOK, MarkedOK, AloneOK, LoneSession, View, Over, Running, Due, Promised, Deleting
<1> QED
  BY <1>1, <1>2

\* The types of the variables, the locks and the uncommitted versions, in
\* every reachable state.
THEOREM TypeCorrect == Spec => []TypeOK
<1>1. IInv => TypeOK
  BY DEF IInv
<1> QED
  BY <1>1, InvInit, InvStep, PTL DEF Spec

\* However upsertSession, requestAccountDeletion and the purge interleave,
\* the subject owns at most one account, and it is not a deleted one.
THEOREM NoLockOutTheorem == Spec => []NoLockOut
<1>1. IInv => NoLockOut
  BY DEF IInv, NoLockOut, OwnersOK, RowsOK, RowOK
<1> QED
  BY <1>1, InvInit, InvStep, PTL DEF Spec

LEMMA DeletedWhenDue ==
  ASSUME IInv, Next, NEW r \in AccountIds, accounts[r].status # "deleted", accounts'[r].status = "deleted"
  PROVE  Due(r)
<1>1. ASSUME NEW t \in Calls, Commit(t) PROVE Due(r)
  BY <1>1, CommitPromises DEF IInv
<1>2. ASSUME NEW t \in Calls, NEW q \in AccountIds, PurgeOne(t, q) PROVE Due(r)
  <2>1. q = r
    BY <1>2, PurgeStep DEF IInv
  <2> QED
    BY <1>2, <2>1, PurgePromises DEF IInv
<1>3. ASSUME UNCHANGED accounts PROVE FALSE
  BY <1>3
<1>4. ASSUME NEW t \in Calls,
             \/ Finalize(t) \/ Restore(t) \/ Update(t) \/ MarkPending(t)
             \/ SignInNew(t) \/ Purge(t) \/ TableFull(t)
      PROVE  UNCHANGED accounts
  BY <1>4 DEF Finalize, Restore, Update, MarkPending, Write, SignInNew, Purge, Begin, TableFull
<1>5. ASSUME NEW t \in Calls, NEW q \in AccountIds,
             SignInKnown(t, q) \/ RequestDeletion(t, q) \/ Find(t, q) \/ Create(t, q)
      PROVE  UNCHANGED accounts
  BY <1>5 DEF SignInKnown, RequestDeletion, Begin, Find, Create, Write
<1>6. Tick => UNCHANGED accounts
  BY DEF Tick
<1> QED
  BY <1>1, <1>2, <1>3, <1>4, <1>5, <1>6 DEF Next

\* finalizeDeletedUser and the purge delete an account only when a deletion
\* date answered to its user has passed, however old the row they act upon.
THEOREM EarlyDeletionTheorem == Spec => NoEarlyDeletion
<1> DEFINE A == \A r \in AccountIds :
       accounts[r].status # "deleted" /\ accounts'[r].status = "deleted" =>
         promised[r] # Never /\ promised[r] <= now
<1>1. IInv /\ [Next]_vars => [A]_vars
  BY DeletedWhenDue DEF Due, Promised
<1> QED
  BY <1>1, InvInit, InvStep, PTL DEF Spec, NoEarlyDeletion

LEMMA LoneCommit ==
  ASSUME IInv, Next, NEW t \in Calls, call[t].op = "session", call[t].next = "commit", call[t].alone, ~Running(t)'
  PROVE  \E r \in AccountIds :
           /\ accounts'[r] = NewAccount
           /\ \A q \in AccountIds :
                accounts[q].owner => q = r \/ deletionWindowExpired(accounts[q], call[t].at)
<1> USE DEF IInv
<1>1. /\ call[t].account \in AccountIds /\ View(t, call[t].account) = NewAccount
      /\ \A q \in AccountIds : accounts[q].owner => q = call[t].account \/ Over(t, q)
  BY DEF CallsOK, CallOK, AloneOK, LoneSession
<1>2. Commit(t)
  <2>1. ASSUME NEW s \in Calls, Finalize(s) \/ Restore(s) \/ Update(s) \/ MarkPending(s) PROVE FALSE
    BY <2>1, Statements DEF Writing, Goes, Running
  <2>2. ASSUME NEW s \in Calls, NEW r \in AccountIds, Find(s, r) \/ Create(s, r) PROVE FALSE
    BY <2>2, Statements DEF Writing, Goes, Running
  <2>3. ASSUME NEW s \in Calls, NEW op, NEW next, NEW r, NEW todo, Started(s, op, next, r, todo) PROVE FALSE
    BY <2>3 DEF Started, Running, Same
  <2>4. ASSUME NEW s \in Calls, NEW r \in AccountIds, PurgeOne(s, r) PROVE FALSE
    BY <2>4, PurgeStep DEF Running
  <2>5. ASSUME NEW s \in Calls, TableFull(s) PROVE FALSE
    BY <2>5, EndStep DEF TableFull, Ended, Running
  <2>6. ASSUME NEW s \in Calls, Commit(s) PROVE s = t
    BY <2>6, EndStep DEF Commit, Ended, Running
  <2>7. ASSUME Tick PROVE FALSE
    BY <2>7 DEF Tick, Running
  <2> QED
    BY <2>1, <2>2, <2>3, <2>4, <2>5, <2>6, <2>7, Begins DEF Next
<1>3. accounts'[call[t].account] = NewAccount
  BY <1>1, <1>2, CommitStep
<1> QED
  BY <1>1, <1>3 DEF Over

\* A sign-in that no other call overlaps leaves the subject with an active
\* account without deletion date: its own, unless that one was due.
THEOREM LoneSignInTheorem == Spec => LoneSignInIsActive
<1> DEFINE A == \A t \in Calls :
       call[t].op = "session" /\ call[t].next = "commit" /\ call[t].alone /\ ~Running(t)' =>
         \E r \in AccountIds :
           /\ accounts'[r] = NewAccount
           /\ \A q \in AccountIds :
                accounts[q].owner => q = r \/ deletionWindowExpired(accounts[q], call[t].at)
<1>1. IInv /\ [Next]_vars => [A]_vars
  BY LoneCommit
<1> QED
  BY <1>1, InvInit, InvStep, PTL DEF Spec, LoneSignInIsActive

-----------------------------------------------------------------------------
(***************************************************************************)
(* SessionRequests: requests of the account API on the connection pool.    *)
(***************************************************************************)
\* A request has the connections its stage has asked for; while it waits, one less.
Asked(q) ==
  IF q.stage \in {"idle", "lookup", "ended"} THEN 0
  ELSE IF q.stage = "insert" /\ q.kind # "events" THEN 2 ELSE 1
ConnectionsAreAsked ==
  /\ IsInjective(queue)
  /\ \A r \in Requests :
       /\ Queued(r) => request[r].stage \in {"guard", "begin", "insert"}
       /\ request[r].connections = IF Queued(r) THEN Asked(request[r]) - 1 ELSE Asked(request[r])

\* Stages and outcomes of a request
Progress(q) ==
  /\ q.stage # "ended" => q.outcome = "none"
  /\ q.kind = "events" => q.stage \in {"idle", "insert", "ended"}
  /\ q.stage = "create" => q.kind = "session"
  /\ q.created => q.kind = "session" /\ q.stage \in {"update", "insert", "commit"}
  /\ q.dropped => q.stage \in {"commit", "ended"}

\* Who has written the account holds its row, until its transaction ends or
\* breaks; who has inserted it has found none, and nobody else commits one.
Writers == {"session", "passkey", "deletion"}
WritersHoldTheRow ==
  \A r \in Requests : ~request[r].lost =>
    /\ request[r].kind \in Writers /\ request[r].stage \in {"insert", "commit"} => rowLock = r
    /\ request[r].created => rowLock = r /\ account = "absent"

\* A row is of a request that has inserted its event, the only one if it is an
\* account's; and "account.created" goes with the account, unless that is lost.
RowsAreInserted ==
  /\ \A row \in rows :
       /\ row.by \in Requests
       /\ request[row.by].stage \in {"commit", "ended"}
       /\ request[row.by].kind # "events" => request[row.by].outcome \in {"none", "ok", "failed"}
  /\ \A one, other \in AccountEvents : one.by = other.by => one = other
  /\ \A row \in AccountEvents :
       row.event.name = "account.created" /\ ~request[row.by].lost =>
         IF request[row.by].stage = "commit" THEN request[row.by].created ELSE account # "absent"

\* Requests keep to their connections and to the row of the account they write, and
\* every recorded event stays backed by its request (the transactions of upsertSession,
\* enablePasskey and requestAccountDeletion).
SessionInv ==
  /\ SessionTypeOK
  /\ ConnectionsAreAsked
  /\ \A r \in Requests : Progress(request[r])
  /\ TelemetryIsBestEffort
  /\ WritersHoldTheRow
  /\ RowsAreInserted
  /\ EventsTellTheTruth

\* What joining and leaving the queue of the pool does to it.
LEMMA Joins ==
  ASSUME NEW q \in Seq(Requests), IsInjective(q), NEW r \in Requests,
         \A i \in DOMAIN q : q[i] # r
  PROVE  /\ Append(q, r) \in Seq(Requests) /\ IsInjective(Append(q, r))
         /\ \A s : (\E i \in DOMAIN Append(q, r) : Append(q, r)[i] = s) <=>
                   (s = r \/ \E i \in DOMAIN q : q[i] = s)
<1>1. /\ Append(q, r) \in Seq(Requests) /\ Len(Append(q, r)) = Len(q) + 1
      /\ Append(q, r)[Len(q) + 1] = r
      /\ \A i \in 1..Len(q) : Append(q, r)[i] = q[i]
  OBVIOUS
<1>2. DOMAIN q = 1..Len(q) /\ DOMAIN Append(q, r) = 1..(Len(q) + 1) /\ Len(q) \in Nat
  BY <1>1
<1> QED
  BY <1>1, <1>2 DEF IsInjective

LEMMA Concatenation ==
  ASSUME NEW front \in Seq(Requests), NEW back \in Seq(Requests)
  PROVE  /\ front \o back \in Seq(Requests)
         /\ Len(front \o back) = Len(front) + Len(back)
         /\ \A i \in 1..(Len(front) + Len(back)) :
              (front \o back)[i] = IF i <= Len(front) THEN front[i] ELSE back[i - Len(front)]
  OBVIOUS

LEMMA Leaves ==
  ASSUME NEW q \in Seq(Requests), IsInjective(q), NEW j \in DOMAIN q
  PROVE  /\ RemoveAt(q, j) \in Seq(Requests) /\ IsInjective(RemoveAt(q, j))
         /\ \A s : (\E i \in DOMAIN RemoveAt(q, j) : RemoveAt(q, j)[i] = s) <=>
                   (s # q[j] /\ \E i \in DOMAIN q : q[i] = s)
<1> DEFINE p == RemoveAt(q, j)
<1>1. j \in 1..Len(q) /\ DOMAIN q = 1..Len(q) /\ Len(q) \in Nat
  OBVIOUS
<1>2. /\ p \in Seq(Requests) /\ Len(p) = Len(q) - 1
      /\ \A i \in 1..(Len(q) - 1) : p[i] = IF i < j THEN q[i] ELSE q[i + 1]
  <2> DEFINE front == SubSeq(q, 1, j - 1)
             back == SubSeq(q, j + 1, Len(q))
  <2>1. /\ front \in Seq(Requests) /\ Len(front) = j - 1
        /\ \A i \in 1..(j - 1) : front[i] = q[i]
    BY <1>1
  <2>2. /\ back \in Seq(Requests) /\ Len(back) = Len(q) - j
        /\ \A i \in 1..(Len(q) - j) : back[i] = q[j + i]
    BY <1>1
  <2>3. p = front \o back
    BY DEF RemoveAt
  <2> HIDE DEF front, back, p
  <2>4. p \in Seq(Requests) /\ Len(p) = Len(front) + Len(back)
    BY <2>1, <2>2, <2>3, Concatenation
  <2>5. \A i \in 1..(Len(front) + Len(back)) :
            (front \o back)[i] = IF i <= Len(front) THEN front[i] ELSE back[i - Len(front)]
    BY <2>1, <2>2, Concatenation
  <2>6. ASSUME NEW i \in 1..(Len(q) - 1)
        PROVE  p[i] = IF i < j THEN q[i] ELSE q[i + 1]
    <3>1. p[i] = IF i <= j - 1 THEN front[i] ELSE back[i - (j - 1)]
      BY <1>1, <2>1, <2>2, <2>3, <2>5
    <3>2. CASE i < j
      BY <1>1, <2>1, <3>1, <3>2
    <3>3. CASE ~(i < j)
      <4>1. i - (j - 1) \in 1..(Len(q) - j) /\ j + (i - (j - 1)) = i + 1
        BY <1>1, <3>3
      <4>2. back[i - (j - 1)] = q[i + 1]
        BY <2>2, <4>1
      <4> QED
        BY <1>1, <3>1, <3>3, <4>2
    <3> QED
      BY <3>2, <3>3
  <2> QED
    BY <1>1, <2>1, <2>2, <2>4, <2>6
<1>3. DOMAIN p = 1..(Len(q) - 1)
  BY <1>2
<1> HIDE DEF p
<1>4. IsInjective(p)
  BY <1>1, <1>2, <1>3, SMTT(30) DEF IsInjective
<1>5. ASSUME NEW i \in DOMAIN p
      PROVE  p[i] # q[j] /\ \E k \in DOMAIN q : q[k] = p[i]
  BY <1>1, <1>2, <1>3 DEF IsInjective
<1>6. ASSUME NEW k \in DOMAIN q, q[k] # q[j]
      PROVE  \E i \in DOMAIN p : p[i] = q[k]
  <2>1. CASE k < j
    BY <1>1, <1>2, <1>3, <2>1
  <2>2. CASE k > j
    <3>1. k - 1 \in DOMAIN p /\ p[k - 1] = q[k]
      BY <1>1, <1>2, <1>3, <2>2
    <3> QED
      BY <3>1
  <2> QED
    BY <1>1, <1>6, <2>1, <2>2
<1>7. \A s : (\E i \in DOMAIN p : p[i] = s) <=> (s # q[j] /\ \E i \in DOMAIN q : q[i] = s)
  BY <1>5, <1>6
<1> QED
  BY <1>2, <1>4, <1>7 DEF p

LEMMA TailLeaves ==
  ASSUME NEW q \in Seq(Requests), q # <<>>
  PROVE  1 \in DOMAIN q /\ Head(q) = q[1] /\ Tail(q) = RemoveAt(q, 1)
  BY DEF RemoveAt

-----------------------------------------------------------------------------
\* Request r becomes new, which waits for a connection or has what it asked for.
QueueFits(r, new) ==
  \/ /\ queue' = queue /\ ~Queued(r)
     /\ new.connections = Asked(new)
  \/ /\ queue' = Append(queue, r) /\ ~Queued(r)
     /\ new.stage \in {"guard", "begin", "insert"}
     /\ new.connections = Asked(new) - 1
  \/ /\ \E i \in DOMAIN queue : queue[i] = r /\ queue' = RemoveAt(queue, i)
     /\ new.connections = Asked(new)
  \/ /\ queue' = queue
     /\ new.stage = request[r].stage /\ new.kind = request[r].kind
     /\ new.connections = request[r].connections

\* ... which is at a stage that it may be at, ...
StageFits(new) ==
  /\ Progress(new)
  /\ new.dropped /\ new.stage = "ended" => new.outcome = (IF new.lost THEN "failed" ELSE "ok")

\* ... holds the row of the account if it has written it, ...
LockFits(r, new) ==
  /\ \/ rowLock' = rowLock
     \/ rowLock \in {None, r} /\ rowLock' = r
     \/ rowLock' = IF rowLock = r THEN None ELSE rowLock
  /\ account' \in {"absent", "active", "pending_deletion"}
  /\ account' = account \/ (rowLock = r /\ account' # "absent")
  /\ ~new.lost =>
       /\ new.kind \in Writers /\ new.stage \in {"insert", "commit"} => rowLock' = r
       /\ new.created => rowLock' = r /\ account' = "absent"

\* ... and stands by the event it has recorded.
RowsFit(r, new) ==
  \/ rows' = rows /\ request[r].stage \notin {"commit", "ended"}
  \/ /\ rows' = rows /\ request[r].stage = "commit"
     /\ new.stage \in {"commit", "ended"} /\ new.kind = request[r].kind
     /\ new.outcome \in {"none", "ok", "failed"}
     /\ request[r].lost => new.lost
     /\ ~new.lost => IF new.stage = "commit" THEN new.created = request[r].created
                     ELSE request[r].created => account' # "absent"
  \/ /\ request[r].stage = "insert" /\ request[r].kind = "events"
     /\ new.kind = "events" /\ new.stage = "ended"
     /\ \E batch : rows' = rows \cup RowsOf(r, batch)
  \/ /\ request[r].stage = "insert" /\ request[r].kind # "events"
     /\ rows' = rows \cup RowsOf(r, {EventOf(r)})
     /\ new = [request[r] EXCEPT !.stage = "commit", !.connections = 1]

Moves(r, new) ==
  /\ request' = [request EXCEPT ![r] = new]
  /\ poolSize' = poolSize
  /\ QueueFits(r, new)
  /\ StageFits(new)
  /\ LockFits(r, new)
  /\ RowsFit(r, new)

LEMMA QueueMoves ==
  ASSUME SessionTypeOK, ConnectionsAreAsked, NEW r \in Requests, NEW new \in Request, Moves(r, new)
  PROVE  queue' \in Seq(Requests) /\ ConnectionsAreAsked'
<1>1. /\ request' = [request EXCEPT ![r] = new] /\ request \in [Requests -> Request]
      /\ queue \in Seq(Requests) /\ IsInjective(queue)
  BY DEF Moves, SessionTypeOK, ConnectionsAreAsked
<1>2. ASSUME NEW s \in Requests, s # r, Queued(s)' <=> Queued(s)
      PROVE  /\ Queued(s)' => request'[s].stage \in {"guard", "begin", "insert"}
             /\ request'[s].connections =
                  IF Queued(s)' THEN Asked(request'[s]) - 1 ELSE Asked(request'[s])
  <2>1. request'[s] = request[s]
    BY <1>1, <1>2
  <2> QED
    BY <1>2, <2>1 DEF ConnectionsAreAsked
<1>3. request'[r] = new
  BY <1>1
<1>4. SUFFICES /\ queue' \in Seq(Requests) /\ IsInjective(queue')
               /\ \A s \in Requests \ {r} : Queued(s)' <=> Queued(s)
               /\ Queued(r)' => new.stage \in {"guard", "begin", "insert"}
               /\ new.connections = IF Queued(r)' THEN Asked(new) - 1 ELSE Asked(new)
  BY <1>2, <1>3 DEF ConnectionsAreAsked
<1>5. CASE queue' = queue /\ ~Queued(r) /\ new.connections = Asked(new)
  BY <1>1, <1>5 DEF Queued
<1>6. CASE /\ queue' = Append(queue, r) /\ ~Queued(r)
           /\ new.stage \in {"guard", "begin", "insert"}
           /\ new.connections = Asked(new) - 1
  <2>1. \A i \in DOMAIN queue : queue[i] # r
    BY <1>6 DEF Queued
  <2>2. /\ queue' \in Seq(Requests) /\ IsInjective(queue')
        /\ \A s : Queued(s)' <=> (s = r \/ Queued(s))
    BY <1>1, <1>6, <2>1, Joins DEF Queued
  <2> QED
    BY <1>6, <2>2
<1>7. CASE /\ \E i \in DOMAIN queue : queue[i] = r /\ queue' = RemoveAt(queue, i)
           /\ new.connections = Asked(new)
  <2>1. PICK i \in DOMAIN queue : queue[i] = r /\ queue' = RemoveAt(queue, i)
    BY <1>7
  <2>2. /\ queue' \in Seq(Requests) /\ IsInjective(queue')
        /\ \A s : Queued(s)' <=> (s # r /\ Queued(s))
    <3>1. queue \in Seq(Requests) /\ IsInjective(queue) /\ i \in DOMAIN queue
      BY <1>1, <2>1
    <3>2. /\ RemoveAt(queue, i) \in Seq(Requests) /\ IsInjective(RemoveAt(queue, i))
          /\ \A s : (\E j \in DOMAIN RemoveAt(queue, i) : RemoveAt(queue, i)[j] = s) <=>
                    (s # queue[i] /\ \E j \in DOMAIN queue : queue[j] = s)
      BY <3>1, Leaves
    <3> QED
      BY <2>1, <3>2 DEF Queued
  <2> QED
    BY <1>7, <2>2
<1>8. CASE /\ queue' = queue
           /\ new.stage = request[r].stage /\ new.kind = request[r].kind
           /\ new.connections = request[r].connections
  <2>1. /\ \A s : Queued(s)' <=> Queued(s)
        /\ Asked(new) = Asked(request[r])
    BY <1>8 DEF Queued, Asked
  <2>2. /\ Queued(r) => request[r].stage \in {"guard", "begin", "insert"}
        /\ request[r].connections = IF Queued(r) THEN Asked(request[r]) - 1 ELSE Asked(request[r])
    BY DEF ConnectionsAreAsked
  <2> QED
    BY <1>1, <1>8, <2>1, <2>2
<1> QED
  BY <1>5, <1>6, <1>7, <1>8 DEF Moves, QueueFits

LEMMA LockMoves ==
  ASSUME SessionTypeOK, WritersHoldTheRow, NEW r \in Requests, NEW new \in Request, Moves(r, new)
  PROVE  /\ account' \in {"absent", "active", "pending_deletion"}
         /\ rowLock' \in Requests \cup {None}
         /\ WritersHoldTheRow'
<1>1. /\ request' = [request EXCEPT ![r] = new] /\ request \in [Requests -> Request]
      /\ rowLock \in Requests \cup {None} /\ LockFits(r, new)
  BY DEF Moves, SessionTypeOK
<1>2. ASSUME NEW s \in Requests, s # r, ~request'[s].lost
      PROVE  /\ request'[s].kind \in Writers /\ request'[s].stage \in {"insert", "commit"} => rowLock' = s
             /\ request'[s].created => rowLock' = s /\ account' = "absent"
  <2>1. request'[s] = request[s]
    BY <1>1, <1>2
  <2>2. rowLock = s => rowLock' = s /\ account' = account
    BY <1>1, <1>2, NoneAssumption DEF LockFits
  <2> QED
    BY <1>2, <2>1, <2>2 DEF WritersHoldTheRow
<1>3. request'[r] = new
  BY <1>1
<1> QED
  BY <1>1, <1>2, <1>3 DEF WritersHoldTheRow, LockFits

\* Rows and events: SessionTypeOK is needed of the requests only.
LEMMA RowsMove ==
  ASSUME SessionTypeOK, \A s \in Requests : Progress(request[s]), WritersHoldTheRow, RowsAreInserted,
         EventsTellTheTruth, NEW r \in Requests, NEW new \in Request, Moves(r, new)
  PROVE  RowsAreInserted' /\ EventsTellTheTruth'
<1>1. /\ request' = [request EXCEPT ![r] = new] /\ request \in [Requests -> Request]
      /\ request'[r] = new /\ \A s \in Requests \ {r} : request'[s] = request[s]
      /\ LockFits(r, new)
  BY DEF Moves, SessionTypeOK
<1>2. \A row \in rows : row.by \in Requests /\ request[row.by].stage \in {"commit", "ended"}
  BY DEF RowsAreInserted
<1>3. account # "absent" => account' # "absent"
  BY <1>1 DEF LockFits
<1>4. CASE rows' = rows /\ request[r].stage \notin {"commit", "ended"}
  <2>1. \A row \in rows : row.by \in Requests /\ request'[row.by] = request[row.by]
    BY <1>1, <1>2, <1>4
  <2>2. AccountEvents' = AccountEvents
    BY <1>4, <2>1 DEF AccountEvents
  <2>3. AccountEvents \subseteq rows
    BY DEF AccountEvents
  <2>4. RowsAreInserted'
    BY <1>3, <1>4, <2>1, <2>2, <2>3 DEF RowsAreInserted
  <2>5. EventsTellTheTruth'
    BY <2>1, <2>2, <2>3 DEF EventsTellTheTruth
  <2> QED
    BY <2>4, <2>5
<1>5. CASE /\ rows' = rows /\ request[r].stage = "commit"
           /\ new.stage \in {"commit", "ended"} /\ new.kind = request[r].kind
           /\ new.outcome \in {"none", "ok", "failed"}
           /\ request[r].lost => new.lost
           /\ ~new.lost => IF new.stage = "commit" THEN new.created = request[r].created
                           ELSE request[r].created => account' # "absent"
  <2>1. \A row \in rows : /\ row.by \in Requests
                          /\ request'[row.by].kind = request[row.by].kind
                          /\ request'[row.by].stage \in {"commit", "ended"}
                          /\ request[row.by].lost => request'[row.by].lost
                          /\ row.by # r => request'[row.by] = request[row.by]
    BY <1>1, <1>2, <1>5
  <2>2. AccountEvents' = AccountEvents
    BY <1>5, <2>1 DEF AccountEvents
  <2>3. AccountEvents \subseteq rows
    BY DEF AccountEvents
  <2>4. \A row \in rows : request'[row.by].kind # "events" =>
           request'[row.by].outcome \in {"none", "ok", "failed"}
    BY <1>1, <1>5, <2>1 DEF RowsAreInserted
  <2>5. ASSUME NEW row \in AccountEvents, row.event.name = "account.created", ~request'[row.by].lost
        PROVE  IF request'[row.by].stage = "commit" THEN request'[row.by].created ELSE account' # "absent"
    <3>1. ~request[row.by].lost
      BY <2>1, <2>3, <2>5
    <3>2. IF request[row.by].stage = "commit" THEN request[row.by].created ELSE account # "absent"
      BY <2>5, <3>1 DEF RowsAreInserted
    <3>3. CASE row.by # r
      BY <1>3, <2>1, <2>3, <3>2, <3>3
    <3>4. CASE row.by = r
      BY <1>1, <1>5, <2>5, <3>2, <3>4
    <3> QED
      BY <3>3, <3>4
  <2>6. RowsAreInserted'
    BY <1>5, <2>1, <2>2, <2>4, <2>5 DEF RowsAreInserted
  <2>7. EventsTellTheTruth'
    <3>1. \A row \in AccountEvents : request'[row.by].outcome \in {"none", "ok", "failed"}
      BY <2>1, <2>3, <2>4 DEF AccountEvents
    <3>2. \A row \in AccountEvents : request[row.by].lost => request'[row.by].lost
      BY <2>1, <2>3
    <3> QED
      BY <2>2, <3>1, <3>2 DEF EventsTellTheTruth
  <2> QED
    BY <2>6, <2>7
<1>6. CASE /\ request[r].stage = "insert" /\ request[r].kind = "events"
           /\ new.kind = "events" /\ new.stage = "ended"
           /\ \E batch : rows' = rows \cup RowsOf(r, batch)
  <2>1. PICK batch : rows' = rows \cup RowsOf(r, batch)
    BY <1>6
  <2>2. \A row \in RowsOf(r, batch) : row.by = r
    BY DEF RowsOf
  <2>3. \A row \in rows : row.by \in Requests /\ request'[row.by] = request[row.by]
    BY <1>1, <1>2, <1>6
  <2>4. AccountEvents' = AccountEvents
    BY <1>1, <1>6, <2>1, <2>2, <2>3 DEF AccountEvents
  <2>5. AccountEvents \subseteq rows
    BY DEF AccountEvents
  <2>6. \A row \in rows' : row \in rows \/ row.by = r
    BY <2>1, <2>2
  <2>7. RowsAreInserted'
    <3>1. \A row \in rows' :
             /\ row.by \in Requests
             /\ request'[row.by].stage \in {"commit", "ended"}
             /\ request'[row.by].kind # "events" => request'[row.by].outcome \in {"none", "ok", "failed"}
      BY <1>1, <1>6, <2>3, <2>6 DEF RowsAreInserted
    <3>2. \A one, other \in AccountEvents : one.by = other.by => one = other
      BY DEF RowsAreInserted
    <3>3. \A row \in AccountEvents :
             row.event.name = "account.created" /\ ~request'[row.by].lost =>
               IF request'[row.by].stage = "commit" THEN request'[row.by].created ELSE account' # "absent"
      BY <1>3, <2>3, <2>5 DEF RowsAreInserted
    <3> QED
      BY <2>4, <3>1, <3>2, <3>3 DEF RowsAreInserted
  <2>8. EventsTellTheTruth'
    BY <2>3, <2>4, <2>5 DEF EventsTellTheTruth
  <2> QED
    BY <2>7, <2>8
<1>7. CASE /\ request[r].stage = "insert" /\ request[r].kind # "events"
           /\ rows' = rows \cup RowsOf(r, {EventOf(r)})
           /\ new = [request[r] EXCEPT !.stage = "commit", !.connections = 1]
  <2>1. PICK added : added = [by |-> r, event |-> EventOf(r)]
    OBVIOUS
  <2>2. rows' = rows \cup {added} /\ added.by = r
    BY <1>7, <2>1 DEF RowsOf
  <2>3. \A row \in rows : row.by \in Requests \ {r} /\ request'[row.by] = request[row.by]
    BY <1>1, <1>2, <1>7
  <2>4. /\ new.stage = "commit" /\ new.kind = request[r].kind /\ new.outcome = request[r].outcome
        /\ new.created = request[r].created /\ new.lost = request[r].lost
    BY <1>1, <1>7 DEF Request
  <2>5. AccountEvents' = AccountEvents \cup {added}
    BY <1>1, <1>7, <2>2, <2>3, <2>4 DEF AccountEvents
  <2>6. AccountEvents \subseteq rows
    BY DEF AccountEvents
  <2>7. new.outcome = "none"
    BY <1>7, <2>4 DEF Progress
  <2>8. added.event.name = "account.created" => request[r].created
    BY <2>1 DEF EventOf, EventKind
  <2>9. RowsAreInserted'
    <3>1. \A row \in rows' :
             /\ row.by \in Requests
             /\ request'[row.by].stage \in {"commit", "ended"}
             /\ request'[row.by].kind # "events" => request'[row.by].outcome \in {"none", "ok", "failed"}
      BY <1>1, <2>2, <2>3, <2>4, <2>7 DEF RowsAreInserted
    <3>2. \A one, other \in AccountEvents' : one.by = other.by => one = other
      BY <2>2, <2>3, <2>5, <2>6 DEF RowsAreInserted
    <3>3. \A row \in AccountEvents :
             row.event.name = "account.created" /\ ~request'[row.by].lost =>
               IF request'[row.by].stage = "commit" THEN request'[row.by].created ELSE account' # "absent"
      BY <1>3, <2>3, <2>6 DEF RowsAreInserted
    <3>4. added.event.name = "account.created" /\ ~request'[added.by].lost =>
            IF request'[added.by].stage = "commit" THEN request'[added.by].created ELSE account' # "absent"
      BY <1>1, <2>2, <2>4, <2>8
    <3> QED
      BY <2>5, <3>1, <3>2, <3>3, <3>4 DEF RowsAreInserted
  <2>10. ASSUME NEW row \in AccountEvents, row.event.name = "account.created", ~request[row.by].lost,
                added.event.name = "account.created", ~request[r].lost
         PROVE  FALSE
    <3>1. request[r].created /\ rowLock = r /\ account = "absent"
      BY <2>8, <2>10 DEF WritersHoldTheRow
    <3>2. request[row.by].stage = "commit" /\ request[row.by].created
      BY <2>10, <3>1 DEF RowsAreInserted
    <3>3. rowLock = row.by /\ row.by # r
      BY <2>3, <2>6, <2>10, <3>2 DEF WritersHoldTheRow
    <3> QED
      BY <3>1, <3>3
  <2>11. EventsTellTheTruth'
    <3>1. \A row \in AccountEvents' : request'[row.by].outcome \in {"none", "ok", "failed"}
      BY <1>1, <2>2, <2>3, <2>5, <2>6, <2>7 DEF EventsTellTheTruth
    <3>2. ASSUME NEW one \in AccountEvents, NEW other \in AccountEvents, one # other,
                 one.event.name = "account.created", other.event.name = "account.created"
          PROVE  request'[one.by].lost \/ request'[other.by].lost
      BY <2>3, <2>6, <3>2 DEF EventsTellTheTruth
    <3>3. ASSUME NEW one \in AccountEvents,
                 one.event.name = "account.created", added.event.name = "account.created"
          PROVE  request'[one.by].lost \/ request'[added.by].lost
      BY <1>1, <2>2, <2>3, <2>4, <2>6, <2>10, <3>3
    <3> QED
      BY <2>5, <3>1, <3>2, <3>3 DEF EventsTellTheTruth
  <2> QED
    BY <2>9, <2>11
<1> QED
  BY <1>4, <1>5, <1>6, <1>7 DEF Moves, RowsFit

LEMMA StageMoves ==
  ASSUME SessionTypeOK, \A s \in Requests : Progress(request[s]), TelemetryIsBestEffort,
         NEW r \in Requests, NEW new \in Request, Moves(r, new)
  PROVE  (\A s \in Requests : Progress(request[s]))' /\ TelemetryIsBestEffort'
<1>1. /\ request'[r] = new /\ \A s \in Requests \ {r} : request'[s] = request[s]
      /\ StageFits(new)
  BY DEF Moves, SessionTypeOK
<1>2. \A s \in Requests : Progress(request'[s])
  BY <1>1 DEF StageFits
<1>3. TelemetryIsBestEffort'
  BY <1>1 DEF StageFits, TelemetryIsBestEffort
<1> QED
  BY <1>2, <1>3

\* So the invariant survives whatever fits.
LEMMA InvariantMoves ==
  ASSUME SessionInv, NEW r \in Requests, NEW new \in Request, Moves(r, new)
  PROVE  SessionInv'
<1>1. request' \in [Requests -> Request] /\ poolSize' \in PoolSizes
  BY DEF SessionInv, SessionTypeOK, Moves
<1>2. queue' \in Seq(Requests) /\ ConnectionsAreAsked'
  BY QueueMoves DEF SessionInv
<1>3. /\ account' \in {"absent", "active", "pending_deletion"}
      /\ rowLock' \in Requests \cup {None}
      /\ WritersHoldTheRow'
  BY LockMoves DEF SessionInv
<1>4. RowsAreInserted' /\ EventsTellTheTruth'
  BY RowsMove DEF SessionInv
<1>5. (\A s \in Requests : Progress(request[s]))' /\ TelemetryIsBestEffort'
  BY StageMoves DEF SessionInv
<1>6. SessionTypeOK'
  BY <1>1, <1>2, <1>3 DEF SessionTypeOK
<1> QED
  BY <1>2, <1>3, <1>4, <1>5, <1>6 DEF SessionInv

-----------------------------------------------------------------------------
\* What is known of a request at its stage
LEMMA RequestFacts ==
  ASSUME SessionInv, NEW r \in Requests
  PROVE  /\ request[r] \in Request /\ Progress(request[r])
         /\ Queued(r) => request[r].stage \in {"guard", "begin", "insert"}
         /\ ~Queued(r) => request[r].connections = Asked(request[r])
         /\ Queued(r) => request[r].connections = Asked(request[r]) - 1
         /\ ~request[r].lost /\ request[r].kind \in Writers /\ request[r].stage \in {"insert", "commit"}
              => rowLock = r
         /\ ~request[r].lost /\ request[r].created => rowLock = r /\ account = "absent"
         /\ account \in {"absent", "active", "pending_deletion"}
         /\ rowLock \in Requests \cup {None}
  BY DEF SessionInv, SessionTypeOK, ConnectionsAreAsked, WritersHoldTheRow

\* How many connections a request may have
LEMMA Few == 0 \in 0..2 /\ 1 \in 0..2 /\ 2 \in 0..2
  OBVIOUS

\* The end of a request that has not reached its commit
LEMMA Ends ==
  ASSUME SessionInv, NEW r \in Requests, NEW outcome \in {"refused", "unavailable", "failed"},
         EndRequest(r, outcome), rows' = rows, account' = account, poolSize' = poolSize,
         request[r].stage \notin {"commit", "ended"},
         \/ queue' = queue /\ ~Queued(r)
         \/ \E i \in DOMAIN queue : queue[i] = r /\ queue' = RemoveAt(queue, i)
  PROVE  SessionInv'
<1>1. request[r] \in Request /\ Progress(request[r]) /\ account \in {"absent", "active", "pending_deletion"}
  BY RequestFacts
<1>10. PICK q : q = request[r]
  OBVIOUS
<1>2. PICK new : new = [q EXCEPT !.stage = "ended", !.outcome = outcome, !.connections = 0,
                                 !.seen = "absent", !.created = FALSE]
  OBVIOUS
<1>3. request' = [request EXCEPT ![r] = new] /\ rowLock' = IF rowLock = r THEN None ELSE rowLock
  BY <1>10, <1>2 DEF EndRequest, SetRequest
<1>4. /\ new \in Request /\ new.stage = "ended" /\ new.connections = 0
      /\ ~new.created
      /\ new.dropped <=> request[r].dropped
  <2>1. q \in Request /\ outcome \in {"ok", "refused", "unavailable", "failed"}
    BY <1>1, <1>10
  <2>2. /\ new \in Request /\ new.stage = "ended" /\ new.connections = 0
        /\ ~new.created
        /\ new.dropped <=> q.dropped
    BY <1>2, <2>1, Few DEF Request
  <2> QED
    BY <1>10, <2>2
<1>5. ~new.dropped
  BY <1>1, <1>4 DEF Progress
<1>6. QueueFits(r, new)
  BY <1>4 DEF QueueFits, Asked
<1>7. StageFits(new)
  BY <1>4, <1>5 DEF StageFits, Progress
<1>8. LockFits(r, new)
  BY <1>1, <1>3, <1>4 DEF LockFits
<1>9. RowsFit(r, new)
  BY DEF RowsFit
<1> QED
  BY <1>3, <1>4, <1>6, <1>7, <1>8, <1>9, InvariantMoves DEF Moves

\* A request that arrives
LEMMA FirstMoves ==
  ASSUME SessionInv, NEW r \in Requests, request[r].stage = "idle", NEW new \in Request,
         SetRequest(r, new), poolSize' = poolSize, account' = account, rowLock' = rowLock, rows' = rows,
         ~new.created, ~new.dropped, new.connections = 0,
         \/ queue' = queue /\ new.stage = "ended"
         \/ /\ queue' = queue /\ new.stage = "lookup"
            /\ new.kind # "events" /\ new.outcome = "none"
         \/ /\ queue' = Append(queue, r) /\ new.stage \in {"guard", "begin"}
            /\ new.kind # "events" /\ new.outcome = "none"
         \/ /\ queue' = Append(queue, r) /\ new.stage = "insert"
            /\ new.kind = "events" /\ new.outcome = "none"
  PROVE  SessionInv'
<1>1. ~Queued(r) /\ account \in {"absent", "active", "pending_deletion"}
  BY RequestFacts
<1>2. QueueFits(r, new)
  BY <1>1 DEF QueueFits, Asked
<1>3. StageFits(new)
  BY DEF StageFits, Progress
<1>4. LockFits(r, new)
  BY <1>1 DEF LockFits, Writers
<1>5. RowsFit(r, new)
  BY DEF RowsFit
<1> QED
  BY <1>2, <1>3, <1>4, <1>5, InvariantMoves DEF Moves, SetRequest

LEMMA ArriveStep ==
  ASSUME SessionInv, NEW r \in Requests, NEW kind \in Kinds \ {"events"}, Arrive(r, kind), poolSize' = poolSize
  PROVE  SessionInv'
<1> DEFINE blank == [NoRequest EXCEPT !.kind = kind]
<1>1. /\ blank \in Request /\ blank.connections = 0 /\ blank.outcome = "none"
      /\ ~blank.created /\ ~blank.dropped /\ blank.kind = kind /\ kind # "events"
  BY Few DEF NoRequest, Request, Kinds
<1>2. /\ request[r].stage = "idle"
      /\ account' = account /\ rowLock' = rowLock /\ rows' = rows
      /\ \/ SetRequest(r, [blank EXCEPT !.stage = "ended", !.outcome = "refused"]) /\ queue' = queue
         \/ SetRequest(r, [blank EXCEPT !.stage = "lookup"]) /\ queue' = queue
         \/ Acquire(r, [blank EXCEPT !.stage = "begin"])
         \/ Acquire(r, [blank EXCEPT !.stage = "guard"])
  BY DEF Arrive
<1> HIDE DEF blank
<1>3. CASE SetRequest(r, [blank EXCEPT !.stage = "ended", !.outcome = "refused"]) /\ queue' = queue
  <2>1. PICK new : new = [blank EXCEPT !.stage = "ended", !.outcome = "refused"]
    OBVIOUS
  <2>2. /\ new \in Request /\ new.stage = "ended" /\ new.connections = 0
        /\ ~new.created /\ ~new.dropped
    BY <1>1, <2>1 DEF Request
  <2> QED
    BY <1>2, <1>3, <2>1, <2>2, FirstMoves
<1>4. CASE SetRequest(r, [blank EXCEPT !.stage = "lookup"]) /\ queue' = queue
  <2>1. PICK new : new = [blank EXCEPT !.stage = "lookup"]
    OBVIOUS
  <2>2. /\ new \in Request /\ new.stage = "lookup" /\ new.connections = 0 /\ new.outcome = "none"
        /\ ~new.created /\ ~new.dropped /\ new.kind # "events"
    BY <1>1, <2>1 DEF Request
  <2> QED
    BY <1>2, <1>4, <2>1, <2>2, FirstMoves
<1>5. ASSUME NEW stage \in {"guard", "begin"}, Acquire(r, [blank EXCEPT !.stage = stage])
      PROVE  SessionInv'
  <2>1. PICK new : new = [blank EXCEPT !.stage = stage]
    OBVIOUS
  <2>2. /\ new \in Request /\ new.stage \in {"guard", "begin"} /\ new.connections = 0 /\ new.outcome = "none"
        /\ ~new.created /\ ~new.dropped /\ new.kind # "events"
    BY <1>1, <2>1 DEF Request
  <2>3. SetRequest(r, new) /\ queue' = Append(queue, r)
    BY <1>5, <2>1 DEF Acquire
  <2> QED
    BY <1>2, <2>2, <2>3, FirstMoves
<1> QED
  BY <1>2, <1>3, <1>4, <1>5

LEMMA PostEventsStep ==
  ASSUME SessionInv, NEW r \in Requests, NEW size, PostEvents(r, size), poolSize' = poolSize
  PROVE  SessionInv'
<1> DEFINE blank == [NoRequest EXCEPT !.kind = "events"]
<1>1. /\ blank \in Request /\ blank.connections = 0 /\ blank.outcome = "none"
      /\ ~blank.created /\ ~blank.dropped /\ blank.kind = "events"
  BY Few DEF NoRequest, Request, Kinds
<1>2. /\ request[r].stage = "idle"
      /\ account' = account /\ rowLock' = rowLock /\ rows' = rows
      /\ \/ \E outcome \in {"ok", "refused"} :
              SetRequest(r, [blank EXCEPT !.stage = "ended", !.outcome = outcome]) /\ queue' = queue
         \/ Acquire(r, [blank EXCEPT !.stage = "insert"])
  BY DEF PostEvents
<1> HIDE DEF blank
<1>3. ASSUME NEW outcome \in {"ok", "refused"}, queue' = queue,
             SetRequest(r, [blank EXCEPT !.stage = "ended", !.outcome = outcome])
      PROVE  SessionInv'
  <2>1. PICK new : new = [blank EXCEPT !.stage = "ended", !.outcome = outcome]
    OBVIOUS
  <2>2. /\ new \in Request /\ new.stage = "ended" /\ new.connections = 0
        /\ ~new.created /\ ~new.dropped
    BY <1>1, <2>1 DEF Request
  <2> QED
    BY <1>2, <1>3, <2>1, <2>2, FirstMoves
<1>4. CASE Acquire(r, [blank EXCEPT !.stage = "insert"])
  <2>1. PICK new : new = [blank EXCEPT !.stage = "insert"]
    OBVIOUS
  <2>2. /\ new \in Request /\ new.stage = "insert" /\ new.connections = 0 /\ new.outcome = "none"
        /\ ~new.created /\ ~new.dropped /\ new.kind = "events"
    BY <1>1, <2>1 DEF Request
  <2>3. SetRequest(r, new) /\ queue' = Append(queue, r)
    BY <1>4, <2>1 DEF Acquire
  <2> QED
    BY <1>2, <2>2, <2>3, FirstMoves
<1> QED
  BY <1>2, <1>3, <1>4

LEMMA GrantStep ==
  ASSUME SessionInv, Grant, poolSize' = poolSize
  PROVE  SessionInv'
<1>1. PICK r : r = Head(queue)
  OBVIOUS
<1>2. queue # <<>> /\ queue \in Seq(Requests)
  BY DEF Grant, SessionInv, SessionTypeOK
<1>3. 1 \in DOMAIN queue /\ queue[1] = r /\ queue' = RemoveAt(queue, 1)
  BY <1>1, <1>2, TailLeaves DEF Grant
<1>4. r \in Requests /\ Queued(r)
  BY <1>2, <1>3 DEF Queued
<1>5. PICK q : q = request[r]
  OBVIOUS
<1>6. PICK new : new = [q EXCEPT !.connections = @ + 1]
  OBVIOUS
<1>7. request' = [request EXCEPT ![r] = new] /\ account' = account /\ rowLock' = rowLock /\ rows' = rows
  BY <1>1, <1>5, <1>6 DEF Grant, SetRequest
<1>8. q \in Request /\ Progress(q) /\ q.stage \in {"guard", "begin", "insert"} /\ q.connections = Asked(q) - 1
  BY <1>4, <1>5, RequestFacts
<1>9. /\ new \in Request /\ new.stage = q.stage /\ new.kind = q.kind /\ new.outcome = q.outcome
      /\ new.connections = Asked(q)
      /\ new.created <=> q.created
      /\ new.dropped <=> q.dropped
      /\ new.lost <=> q.lost
  <2>1. Asked(q) \in 0..2 /\ q.connections + 1 = Asked(q)
    BY <1>8 DEF Asked
  <2>2. new = [q EXCEPT !.connections = Asked(q)]
    BY <1>6, <2>1
  <2> QED
    BY <1>8, <2>1, <2>2 DEF Request
<1>10. QueueFits(r, new)
  BY <1>3, <1>9 DEF QueueFits, Asked
<1>11. StageFits(new)
  BY <1>8, <1>9 DEF StageFits, Progress
<1>12. LockFits(r, new)
  BY <1>4, <1>5, <1>7, <1>9, RequestFacts DEF LockFits
<1>13. RowsFit(r, new)
  BY <1>5, <1>7, <1>8 DEF RowsFit
<1> QED
  BY <1>4, <1>7, <1>9, <1>10, <1>11, <1>12, <1>13, InvariantMoves DEF Moves

\* A request goes on to another stage.
LEMMA SessionGoes ==
  ASSUME SessionInv, NEW r \in Requests, NEW new \in Request,
         SetRequest(r, new), poolSize' = poolSize, account' = account, rows' = rows,
         request[r].stage \in {"guard", "lookup", "begin", "create", "update", "insert"},
         new.kind = request[r].kind, new.outcome = request[r].outcome,
         new.lost <=> request[r].lost,
         new.created => new.kind = "session" /\ new.stage \in {"update", "insert", "commit"},
         new.dropped => new.stage = "commit",
         new.stage # "ended", new.kind # "events",
         new.stage = "create" => new.kind = "session",
         \/ queue' = queue /\ ~Queued(r) /\ new.connections = Asked(new)
         \/ /\ queue' = Append(queue, r) /\ ~Queued(r)
            /\ new.stage \in {"begin", "insert"} /\ new.connections = Asked(new) - 1
         \/ /\ \E i \in DOMAIN queue : queue[i] = r /\ queue' = RemoveAt(queue, i)
            /\ new.connections = Asked(new),
         rowLock' = rowLock \/ (rowLock \in {None, r} /\ rowLock' = r),
         ~new.lost =>
           /\ new.kind \in Writers /\ new.stage \in {"insert", "commit"} => rowLock' = r
           /\ new.created => rowLock' = r /\ account = "absent"
  PROVE  SessionInv'
<1>1. Progress(request[r]) /\ account \in {"absent", "active", "pending_deletion"}
  BY RequestFacts
<1>2. QueueFits(r, new)
  BY DEF QueueFits
<1>3. StageFits(new)
  BY <1>1 DEF StageFits, Progress
<1>4. LockFits(r, new)
  BY <1>1 DEF LockFits
<1>5. RowsFit(r, new)
  BY DEF RowsFit
<1> QED
  BY <1>2, <1>3, <1>4, <1>5, InvariantMoves DEF Moves, SetRequest

LEMMA TimeoutStep ==
  ASSUME SessionInv, NEW r \in Requests, AcquireTimeout(r), poolSize' = poolSize
  PROVE  SessionInv'
<1>1. /\ \E i \in DOMAIN queue : queue[i] = r /\ queue' = RemoveAt(queue, i)
      /\ account' = account /\ rows' = rows
  BY DEF AcquireTimeout
<1>2. Queued(r)
  BY <1>1 DEF Queued
<1>3. PICK q : q = request[r]
  OBVIOUS
<1>4. /\ q \in Request /\ Progress(q) /\ q.stage \in {"guard", "begin", "insert"}
      /\ q.connections = Asked(q) - 1
      /\ ~q.lost /\ q.kind \in Writers /\ q.stage \in {"insert", "commit"} => rowLock = r
      /\ ~q.lost /\ q.created => rowLock = r /\ account = "absent"
  BY <1>2, <1>3, RequestFacts
<1>5. CASE InTransaction(r)
  <2>1. q.stage = "insert" /\ q.kind # "events" /\ q.connections = 1
    BY <1>3, <1>4, <1>5 DEF InTransaction, Asked
  <2>2. PICK new : new = [q EXCEPT !.stage = "commit", !.dropped = TRUE]
    OBVIOUS
  <2>3. SetRequest(r, new) /\ rowLock' = rowLock
    BY <1>3, <1>5, <2>2 DEF AcquireTimeout
  <2>4. /\ new \in Request /\ new.stage = "commit" /\ new.kind = q.kind /\ new.outcome = q.outcome
        /\ new.connections = q.connections
        /\ new.created <=> q.created
        /\ new.lost <=> q.lost
    BY <1>4, <2>2 DEF Request
  <2>5. new.connections = Asked(new)
    BY <2>1, <2>4 DEF Asked
  <2> QED
    BY <1>1, <1>3, <1>4, <2>1, <2>3, <2>4, <2>5, SessionGoes DEF Progress
<1>6. CASE ~InTransaction(r)
  <2>1. EndRequest(r, "unavailable")
    BY <1>6 DEF AcquireTimeout
  <2> QED
    BY <1>1, <1>3, <1>4, <2>1, Ends
<1> QED
  BY <1>5, <1>6

LEMMA GuardStep ==
  ASSUME SessionInv, NEW r \in Requests, Guard(r), poolSize' = poolSize
  PROVE  SessionInv'
<1>1. request[r].stage = "guard" /\ ~Queued(r) /\ account' = account /\ rows' = rows
  BY DEF Guard, At
<1>2. PICK q : q = request[r]
  OBVIOUS
<1>3. q \in Request /\ Progress(q) /\ q.stage = "guard"
  BY <1>1, <1>2, RequestFacts
<1>4. q.kind # "events" /\ q.outcome = "none" /\ ~q.created /\ ~q.dropped
  BY <1>3 DEF Progress
<1>5. ASSUME NEW stage \in {"lookup", "begin"}, NEW new, rowLock' = rowLock, SetRequest(r, new),
             new = [q EXCEPT !.connections = 0, !.stage = stage],
             \/ queue' = queue /\ stage = "lookup"
             \/ queue' = Append(queue, r) /\ stage = "begin"
      PROVE  SessionInv'
  <2>1. /\ new \in Request /\ new.stage = stage /\ new.connections = 0
        /\ new.kind = q.kind /\ new.outcome = q.outcome
    BY <1>3, <1>5, Few DEF Request
  <2>2. /\ ~new.created
        /\ ~new.dropped
        /\ new.lost <=> q.lost
    BY <1>3, <1>4, <1>5 DEF Request
  <2>3. stage = "lookup" => Asked(new) = 0
    BY <2>1 DEF Asked
  <2>4. stage = "begin" => Asked(new) = 1
    BY <2>1 DEF Asked
  <2>5. /\ new.kind = request[r].kind /\ new.outcome = request[r].outcome
        /\ new.lost <=> request[r].lost
        /\ new.created => new.kind = "session" /\ new.stage \in {"update", "insert", "commit"}
        /\ new.dropped => new.stage = "commit"
        /\ new.stage # "ended" /\ new.kind # "events"
        /\ new.stage = "create" => new.kind = "session"
    BY <1>2, <1>4, <2>1, <2>2
  <2>6. \/ queue' = queue /\ ~Queued(r) /\ new.connections = Asked(new)
        \/ /\ queue' = Append(queue, r) /\ ~Queued(r)
           /\ new.stage \in {"begin", "insert"} /\ new.connections = Asked(new) - 1
    BY <1>1, <1>5, <2>1, <2>3, <2>4
  <2>7. ~new.lost =>
          /\ new.kind \in Writers /\ new.stage \in {"insert", "commit"} => rowLock' = r
          /\ new.created => rowLock' = r /\ account = "absent"
    BY <2>1, <2>2
  <2> QED
    BY <1>1, <1>5, <2>1, <2>5, <2>6, <2>7, SessionGoes
<1>6. CASE EndRequest(r, "refused") /\ UNCHANGED queue
  BY <1>1, <1>6, Ends
<1>7. CASE SetRequest(r, [[q EXCEPT !.connections = 0] EXCEPT !.stage = "lookup"]) /\ UNCHANGED <<queue, rowLock>>
  BY <1>5, <1>7
<1>8. CASE Acquire(r, [[q EXCEPT !.connections = 0] EXCEPT !.stage = "begin"]) /\ UNCHANGED rowLock
  BY <1>5, <1>8 DEF Acquire
<1> QED
  BY <1>2, <1>6, <1>7, <1>8 DEF Guard

LEMMA AssertOwnedStep ==
  ASSUME SessionInv, NEW r \in Requests, AssertOwned(r), poolSize' = poolSize
  PROVE  SessionInv'
<1>1. request[r].stage = "lookup" /\ ~Queued(r) /\ account' = account /\ rows' = rows
  BY DEF AssertOwned, At
<1>2. PICK q : q = request[r]
  OBVIOUS
<1>3. q \in Request /\ Progress(q) /\ q.stage = "lookup" /\ q.connections = 0
  BY <1>1, <1>2, RequestFacts DEF Asked
<1>4. q.kind # "events" /\ q.outcome = "none" /\ ~q.created /\ ~q.dropped
  BY <1>3 DEF Progress
<1>5. CASE Acquire(r, [q EXCEPT !.stage = "begin"]) /\ rowLock' = rowLock
  <2>1. PICK new : new = [q EXCEPT !.stage = "begin"]
    OBVIOUS
  <2>2. /\ new \in Request /\ new.stage = "begin" /\ new.connections = 0
        /\ new.kind = q.kind /\ new.outcome = q.outcome
        /\ ~new.created
        /\ ~new.dropped
        /\ new.lost <=> q.lost
    BY <1>3, <1>4, <2>1 DEF Request
  <2>3. Asked(new) = 1
    BY <1>4, <2>2 DEF Asked
  <2>4. SetRequest(r, new) /\ queue' = Append(queue, r)
    BY <1>5, <2>1 DEF Acquire
  <2> QED
    BY <1>1, <1>2, <1>4, <1>5, <2>2, <2>3, <2>4, SessionGoes
<1>6. CASE EndRequest(r, "refused") /\ queue' = queue
  BY <1>1, <1>6, Ends
<1> QED
  BY <1>2, <1>5, <1>6 DEF AssertOwned

LEMMA SessionBeginStep ==
  ASSUME SessionInv, NEW r \in Requests, BeginTransaction(r), poolSize' = poolSize
  PROVE  SessionInv'
<1>1. /\ request[r].stage = "begin" /\ ~Queued(r) /\ account' = account /\ rows' = rows
      /\ account \in {"absent", "active", "pending_deletion"}
  BY RequestFacts DEF BeginTransaction, At
<1>2. PICK q : q = request[r]
  OBVIOUS
<1>3. q \in Request /\ Progress(q) /\ q.stage = "begin" /\ q.connections = Asked(q)
  BY <1>1, <1>2, RequestFacts
<1>4. q.kind # "events" /\ q.outcome = "none" /\ ~q.created /\ ~q.dropped /\ q.connections = 1
  BY <1>3 DEF Progress, Asked
<1>5. ASSUME NEW stage \in {"create", "update", "insert"}, NEW new, rowLock' = rowLock, SetRequest(r, new),
             new = [q EXCEPT !.seen = account, !.stage = stage],
             \/ queue' = queue /\ stage # "insert" /\ q.kind = "session"
             \/ queue' = queue /\ stage = "update"
             \/ queue' = Append(queue, r) /\ stage = "insert" /\ q.kind = "bind"
      PROVE  SessionInv'
  <2>1. /\ new \in Request /\ new.stage = stage /\ new.connections = 1
        /\ new.kind = q.kind /\ new.outcome = q.outcome
        /\ ~new.created
        /\ ~new.dropped
        /\ new.lost <=> q.lost
    BY <1>1, <1>3, <1>4, <1>5 DEF Request
  <2>2. Asked(new) = IF stage = "insert" THEN 2 ELSE 1
    BY <1>4, <2>1 DEF Asked
  <2>3. /\ new.kind = request[r].kind /\ new.outcome = request[r].outcome
        /\ new.lost <=> request[r].lost
        /\ new.created => new.kind = "session" /\ new.stage \in {"update", "insert", "commit"}
        /\ new.dropped => new.stage = "commit"
        /\ new.stage # "ended" /\ new.kind # "events"
        /\ new.stage = "create" => new.kind = "session"
    BY <1>2, <1>4, <1>5, <2>1
  <2>4. \/ queue' = queue /\ ~Queued(r) /\ new.connections = Asked(new)
        \/ /\ queue' = Append(queue, r) /\ ~Queued(r)
           /\ new.stage \in {"begin", "insert"} /\ new.connections = Asked(new) - 1
    BY <1>1, <1>5, <2>1, <2>2
  <2>5. ~new.lost =>
          /\ new.kind \in Writers /\ new.stage \in {"insert", "commit"} => rowLock' = r
          /\ new.created => rowLock' = r /\ account = "absent"
    BY <1>5, <2>1 DEF Writers
  <2> QED
    BY <1>1, <1>5, <2>1, <2>3, <2>4, <2>5, SessionGoes
<1>6. CASE /\ q.kind = "session"
           /\ SetRequest(r, [[q EXCEPT !.seen = account] EXCEPT
                           !.stage = IF account = "absent" THEN "create" ELSE "update"])
           /\ UNCHANGED <<queue, rowLock>>
  BY <1>5, <1>6
<1>7. CASE EndRequest(r, "refused") /\ UNCHANGED queue
  BY <1>1, <1>7, Ends
<1>8. CASE /\ q.kind = "bind"
           /\ Acquire(r, [[q EXCEPT !.seen = account] EXCEPT !.stage = "insert"])
           /\ UNCHANGED rowLock
  BY <1>5, <1>8 DEF Acquire
<1>9. CASE /\ SetRequest(r, [[q EXCEPT !.seen = account] EXCEPT !.stage = "update"])
           /\ UNCHANGED <<queue, rowLock>>
  BY <1>5, <1>9
<1> QED
  BY <1>2, <1>6, <1>7, <1>8, <1>9 DEF BeginTransaction

LEMMA FindOrCreateStep ==
  ASSUME SessionInv, NEW r \in Requests, FindOrCreate(r), poolSize' = poolSize
  PROVE  SessionInv'
<1>1. /\ request[r].stage = "create" /\ ~Queued(r) /\ account' = account /\ rows' = rows
      /\ queue' = queue /\ rowLock = None
      /\ account \in {"absent", "active", "pending_deletion"}
  BY RequestFacts DEF FindOrCreate, At
<1>2. PICK q : q = request[r]
  OBVIOUS
<1>3. q \in Request /\ Progress(q) /\ q.stage = "create" /\ q.connections = Asked(q)
  BY <1>1, <1>2, RequestFacts
<1>4. q.kind = "session" /\ q.outcome = "none" /\ ~q.created /\ ~q.dropped /\ q.connections = 1
  BY <1>3 DEF Progress, Asked
<1>5. ASSUME NEW new \in Request, SetRequest(r, new), new.stage = "update", new.connections = 1,
             new.kind = q.kind, new.outcome = q.outcome, ~new.dropped, new.lost <=> q.lost,
             new.created => q.kind = "session" /\ rowLock' = r /\ account = "absent",
             rowLock' \in {rowLock, r}
      PROVE  SessionInv'
  <2>1. /\ new.kind = request[r].kind /\ new.outcome = request[r].outcome
        /\ new.lost <=> request[r].lost
        /\ new.created => new.kind = "session" /\ new.stage \in {"update", "insert", "commit"}
        /\ new.dropped => new.stage = "commit"
        /\ new.stage # "ended" /\ new.kind # "events"
        /\ new.stage = "create" => new.kind = "session"
    BY <1>2, <1>4, <1>5
  <2>2. Asked(new) = 1
    BY <1>5 DEF Asked
  <2>3. queue' = queue /\ ~Queued(r) /\ new.connections = Asked(new)
    BY <1>1, <1>5, <2>2
  <2>4. rowLock' = rowLock \/ (rowLock \in {None, r} /\ rowLock' = r)
    BY <1>1, <1>5
  <2>5. ~new.lost =>
          /\ new.kind \in Writers /\ new.stage \in {"insert", "commit"} => rowLock' = r
          /\ new.created => rowLock' = r /\ account = "absent"
    BY <1>5
  <2> QED
    BY <1>1, <1>5, <2>1, <2>3, <2>4, <2>5, SessionGoes
<1>6. CASE account = "absent"
  <2>1. PICK new : new = [q EXCEPT !.stage = "update", !.seen = "active", !.created = TRUE]
    OBVIOUS
  <2>2. SetRequest(r, new) /\ rowLock' = r
    BY <1>2, <1>6, <2>1 DEF FindOrCreate
  <2>3. /\ new \in Request /\ new.stage = "update" /\ new.connections = 1
        /\ new.kind = q.kind /\ new.outcome = q.outcome
        /\ ~new.dropped
        /\ new.lost <=> q.lost
    BY <1>3, <1>4, <2>1 DEF Request
  <2>4. q.kind = "session" /\ rowLock' = r /\ account = "absent" /\ rowLock' \in {rowLock, r}
    BY <1>4, <1>6, <2>2
  <2> QED
    BY <1>5, <2>2, <2>3, <2>4
<1>7. CASE account # "absent"
  <2>1. PICK new : new = [q EXCEPT !.stage = "update", !.seen = account]
    OBVIOUS
  <2>2. SetRequest(r, new) /\ rowLock' = rowLock
    BY <1>2, <1>7, <2>1 DEF FindOrCreate
  <2>3. /\ new \in Request /\ new.stage = "update" /\ new.connections = 1
        /\ new.kind = q.kind /\ new.outcome = q.outcome
        /\ ~new.created
        /\ ~new.dropped
        /\ new.lost <=> q.lost
    BY <1>1, <1>3, <1>4, <2>1 DEF Request
  <2> QED
    BY <1>5, <2>2, <2>3
<1> QED
  BY <1>6, <1>7

LEMMA UpdateAccountStep ==
  ASSUME SessionInv, NEW r \in Requests, UpdateAccount(r), poolSize' = poolSize
  PROVE  SessionInv'
<1>1. /\ request[r].stage = "update" /\ ~Queued(r) /\ account' = account /\ rows' = rows
      /\ rowLock \in {None, r} /\ rowLock' = r
  BY DEF UpdateAccount, At
<1>2. PICK q : q = request[r]
  OBVIOUS
<1>3. /\ q \in Request /\ Progress(q) /\ q.stage = "update" /\ q.connections = Asked(q)
      /\ ~q.lost /\ q.created => rowLock = r /\ account = "absent"
  BY <1>1, <1>2, RequestFacts
<1>4. q.kind # "events" /\ q.outcome = "none" /\ ~q.dropped /\ q.connections = 1
  BY <1>3 DEF Progress, Asked
<1>5. ASSUME NEW stage \in {"insert", "commit"}, NEW new, SetRequest(r, new),
             new = [q EXCEPT !.stage = stage],
             \/ queue' = queue /\ stage = "commit"
             \/ queue' = Append(queue, r) /\ stage = "insert"
      PROVE  SessionInv'
  <2>1. /\ new \in Request /\ new.stage = stage /\ new.connections = 1
        /\ new.kind = q.kind /\ new.outcome = q.outcome
        /\ new.created <=> q.created
        /\ ~new.dropped
        /\ new.lost <=> q.lost
    BY <1>3, <1>4, <1>5 DEF Request
  <2>2. Asked(new) = IF stage = "insert" THEN 2 ELSE 1
    BY <1>4, <2>1 DEF Asked
  <2>3. /\ new.kind = request[r].kind /\ new.outcome = request[r].outcome
        /\ new.lost <=> request[r].lost
        /\ new.created => new.kind = "session" /\ new.stage \in {"update", "insert", "commit"}
        /\ new.dropped => new.stage = "commit"
        /\ new.stage # "ended" /\ new.kind # "events"
        /\ new.stage = "create" => new.kind = "session"
    BY <1>2, <1>3, <1>4, <2>1 DEF Progress
  <2>4. \/ queue' = queue /\ ~Queued(r) /\ new.connections = Asked(new)
        \/ /\ queue' = Append(queue, r) /\ ~Queued(r)
           /\ new.stage \in {"begin", "insert"} /\ new.connections = Asked(new) - 1
    BY <1>1, <1>5, <2>1, <2>2
  <2>5. ~new.lost =>
          /\ new.kind \in Writers /\ new.stage \in {"insert", "commit"} => rowLock' = r
          /\ new.created => rowLock' = r /\ account = "absent"
    BY <1>1, <1>3, <2>1
  <2> QED
    BY <1>1, <1>5, <2>1, <2>3, <2>4, <2>5, SessionGoes
<1> QED
  BY <1>2, <1>5 DEF UpdateAccount, Acquire

\* A record of clients' events ends with its INSERT.
LEMMA InsertEventsStep ==
  ASSUME SessionInv, NEW r \in Requests, At(r, "insert"), request[r].kind = "events", EndRequest(r, "ok"),
         NEW batch, rows' = rows \cup RowsOf(r, batch),
         queue' = queue, account' = account, poolSize' = poolSize
  PROVE  SessionInv'
<1>1. PICK q : q = request[r]
  OBVIOUS
<1>2. PICK new : new = [q EXCEPT !.stage = "ended", !.outcome = "ok", !.connections = 0,
                                 !.seen = "absent", !.created = FALSE]
  OBVIOUS
<1>3. request' = [request EXCEPT ![r] = new] /\ rowLock' = IF rowLock = r THEN None ELSE rowLock
  BY <1>1, <1>2 DEF EndRequest, SetRequest
<1>4. q \in Request /\ Progress(q) /\ q.stage = "insert" /\ ~Queued(r) /\ q.kind = "events"
  BY <1>1, RequestFacts DEF At
<1>5. /\ new \in Request /\ new.stage = "ended" /\ new.connections = 0 /\ new.kind = "events"
      /\ ~new.created
      /\ new.dropped <=> q.dropped
  BY <1>2, <1>4, Few DEF Request
<1>6. ~new.dropped
  BY <1>4, <1>5 DEF Progress
<1>7. QueueFits(r, new)
  BY <1>4, <1>5 DEF QueueFits, Asked
<1>8. StageFits(new)
  BY <1>5, <1>6 DEF StageFits, Progress
<1>9. LockFits(r, new)
  BY <1>3, <1>5, RequestFacts DEF LockFits
<1>10. RowsFit(r, new)
  BY <1>1, <1>4, <1>5 DEF RowsFit
<1> QED
  BY <1>3, <1>5, <1>7, <1>8, <1>9, <1>10, InvariantMoves DEF Moves

LEMMA InsertStep ==
  ASSUME SessionInv, NEW r \in Requests, Insert(r), poolSize' = poolSize
  PROVE  SessionInv'
<1>1. At(r, "insert") /\ queue' = queue /\ account' = account
  BY DEF Insert
<1>2. CASE request[r].kind = "events"
  <2>1. PICK batch : rows' = rows \cup RowsOf(r, batch)
    BY <1>2 DEF Insert
  <2>2. EndRequest(r, "ok")
    BY <1>2 DEF Insert
  <2> QED
    BY <1>1, <1>2, <2>1, <2>2, InsertEventsStep
<1>3. CASE request[r].kind # "events"
  <2>1. PICK q : q = request[r]
    OBVIOUS
  <2>2. PICK new : new = [q EXCEPT !.stage = "commit", !.connections = 1]
    OBVIOUS
  <2>3. /\ request' = [request EXCEPT ![r] = new] /\ rowLock' = rowLock
        /\ rows' = rows \cup RowsOf(r, {EventOf(r)})
    BY <1>3, <2>1, <2>2 DEF Insert, SetRequest
  <2>4. /\ q \in Request /\ Progress(q) /\ q.stage = "insert" /\ ~Queued(r)
        /\ ~q.lost /\ q.kind \in Writers => rowLock = r
        /\ ~q.lost /\ q.created => rowLock = r /\ account = "absent"
        /\ account \in {"absent", "active", "pending_deletion"}
    BY <1>1, <2>1, RequestFacts DEF At
  <2>5. /\ new \in Request /\ new.stage = "commit" /\ new.connections = 1
        /\ new.kind = q.kind /\ new.outcome = q.outcome
        /\ new.created <=> q.created
        /\ new.dropped <=> q.dropped
        /\ new.lost <=> q.lost
    BY <2>2, <2>4, Few DEF Request
  <2>6. QueueFits(r, new)
    BY <1>1, <2>4, <2>5 DEF QueueFits, Asked
  <2>7. StageFits(new)
    BY <1>3, <2>1, <2>4, <2>5 DEF StageFits, Progress
  <2>8. LockFits(r, new)
    BY <1>1, <2>3, <2>4, <2>5 DEF LockFits
  <2>9. RowsFit(r, new)
    <3>1. new = [request[r] EXCEPT !.stage = "commit", !.connections = 1]
      BY <2>1, <2>2
    <3> QED
      BY <1>3, <2>1, <2>3, <2>4, <3>1 DEF RowsFit
  <2> QED
    BY <2>3, <2>5, <2>6, <2>7, <2>8, <2>9, InvariantMoves DEF Moves
<1> QED
  BY <1>2, <1>3

LEMMA InsertFailsStep ==
  ASSUME SessionInv, NEW r \in Requests, InsertFails(r), poolSize' = poolSize
  PROVE  SessionInv'
<1>1. /\ request[r].stage = "insert" /\ ~Queued(r) /\ queue' = queue
      /\ account' = account /\ rows' = rows
  BY DEF InsertFails, At
<1>2. CASE request[r].kind = "events"
  BY <1>1, <1>2, Ends DEF InsertFails
<1>3. CASE request[r].kind # "events"
  <2>1. PICK q : q = request[r]
    OBVIOUS
  <2>2. PICK new : new = [q EXCEPT !.stage = "commit", !.connections = 1, !.dropped = TRUE]
    OBVIOUS
  <2>3. SetRequest(r, new) /\ rowLock' = rowLock
    BY <1>3, <2>1, <2>2 DEF InsertFails
  <2>4. /\ q \in Request /\ Progress(q)
        /\ ~q.lost /\ q.kind \in Writers => rowLock = r
        /\ ~q.lost /\ q.created => rowLock = r /\ account = "absent"
    BY <1>1, <2>1, RequestFacts
  <2>5. /\ new \in Request /\ new.stage = "commit" /\ new.connections = 1
        /\ new.kind = q.kind /\ new.outcome = q.outcome
        /\ new.created <=> q.created
        /\ new.lost <=> q.lost
    BY <2>2, <2>4, Few DEF Request
  <2>6. /\ new.kind = request[r].kind /\ new.outcome = request[r].outcome
        /\ new.lost <=> request[r].lost
        /\ new.created => new.kind = "session" /\ new.stage \in {"update", "insert", "commit"}
        /\ new.dropped => new.stage = "commit"
        /\ new.stage # "ended" /\ new.kind # "events"
        /\ new.stage = "create" => new.kind = "session"
    BY <1>3, <2>1, <2>4, <2>5 DEF Progress
  <2>7. queue' = queue /\ ~Queued(r) /\ new.connections = Asked(new)
    BY <1>1, <2>5 DEF Asked
  <2>8. ~new.lost =>
          /\ new.kind \in Writers /\ new.stage \in {"insert", "commit"} => rowLock' = r
          /\ new.created => rowLock' = r /\ account = "absent"
    BY <2>3, <2>4, <2>5
  <2> QED
    BY <1>1, <2>3, <2>5, <2>6, <2>7, <2>8, SessionGoes
<1> QED
  BY <1>2, <1>3

\* Commit and the loss of a transaction, from its last stage
LEMMA LastStep ==
  ASSUME SessionInv, NEW r \in Requests, NEW outcome \in {"ok", "failed"},
         EndRequest(r, outcome), queue' = queue, rows' = rows, poolSize' = poolSize,
         At(r, "commit"), outcome = (IF request[r].lost THEN "failed" ELSE "ok"),
         account' \in {"absent", "active", "pending_deletion"},
         account' = account \/ (rowLock = r /\ account' # "absent"),
         ~request[r].lost /\ request[r].created => account' # "absent"
  PROVE  SessionInv'
<1>1. PICK q : q = request[r]
  OBVIOUS
<1>2. PICK new : new = [q EXCEPT !.stage = "ended", !.outcome = outcome, !.connections = 0,
                                 !.seen = "absent", !.created = FALSE]
  OBVIOUS
<1>3. request' = [request EXCEPT ![r] = new] /\ rowLock' = IF rowLock = r THEN None ELSE rowLock
  BY <1>1, <1>2 DEF EndRequest, SetRequest
<1>4. q \in Request /\ Progress(q) /\ q.stage = "commit" /\ ~Queued(r)
  BY <1>1, RequestFacts DEF At
<1>5. /\ new \in Request /\ new.stage = "ended" /\ new.connections = 0 /\ new.kind = q.kind
      /\ new.outcome = outcome
      /\ ~new.created
      /\ new.lost <=> q.lost
  <2>1. outcome \in {"none", "ok", "refused", "unavailable", "failed"}
    OBVIOUS
  <2> QED
    BY <1>2, <1>4, <2>1, Few DEF Request
<1>6. q.kind # "events"
  BY <1>4 DEF Progress
<1>7. QueueFits(r, new)
  BY <1>4, <1>5 DEF QueueFits, Asked
<1>8. StageFits(new)
  <2>1. Progress(new)
    BY <1>5, <1>6 DEF Progress
  <2>2. new.outcome = (IF new.lost THEN "failed" ELSE "ok")
    BY <1>1, <1>5
  <2> QED
    BY <2>1, <2>2 DEF StageFits
<1>9. LockFits(r, new)
  BY <1>3, <1>5 DEF LockFits
<1>10. RowsFit(r, new)
  BY <1>1, <1>4, <1>5 DEF RowsFit
<1> QED
  BY <1>3, <1>5, <1>7, <1>8, <1>9, <1>10, InvariantMoves DEF Moves

LEMMA SessionCommitStep ==
  ASSUME SessionInv, NEW r \in Requests, CommitTransaction(r), poolSize' = poolSize
  PROVE  SessionInv'
<1>1. /\ request[r].stage = "commit" /\ ~request[r].lost /\ EndRequest(r, "ok")
      /\ queue' = queue /\ rows' = rows /\ At(r, "commit")
  BY DEF CommitTransaction, At
<1>2. /\ request[r].kind \in Writers => rowLock = r
      /\ account \in {"absent", "active", "pending_deletion"}
      /\ request[r].created => request[r].kind = "session"
  BY <1>1, RequestFacts DEF Progress
<1>3. CASE request[r].kind = "session" /\ (request[r].created \/ request[r].seen # "active")
  <2>1. account' = "active"
    BY <1>3 DEF CommitTransaction
  <2> QED
    BY <1>1, <1>2, <1>3, <2>1, LastStep DEF Writers
<1>4. CASE request[r].kind = "deletion"
  <2>1. account' = "pending_deletion"
    BY <1>4 DEF CommitTransaction
  <2> QED
    BY <1>1, <1>2, <1>4, <2>1, LastStep DEF Writers
<1>5. CASE /\ ~(request[r].kind = "session" /\ (request[r].created \/ request[r].seen # "active"))
           /\ request[r].kind # "deletion"
  <2>1. account' = account
    BY <1>5 DEF CommitTransaction
  <2> QED
    BY <1>1, <1>2, <1>5, <2>1, LastStep
<1> QED
  BY <1>3, <1>4, <1>5

LEMMA NoticeLossStep ==
  ASSUME SessionInv, NEW r \in Requests, NoticeLoss(r), poolSize' = poolSize
  PROVE  SessionInv'
<1>1. /\ request[r].lost /\ ~Queued(r) /\ request[r].stage \in {"create", "update", "commit"}
      /\ EndRequest(r, "failed") /\ queue' = queue /\ account' = account /\ rows' = rows
  BY DEF NoticeLoss
<1>2. account \in {"absent", "active", "pending_deletion"}
  BY RequestFacts
<1>3. CASE request[r].stage = "commit"
  BY <1>1, <1>2, <1>3, LastStep DEF At
<1>4. CASE request[r].stage # "commit"
  BY <1>1, <1>4, Ends
<1> QED
  BY <1>3, <1>4

LEMMA LoseConnectionStep ==
  ASSUME SessionInv, NEW r \in Requests, LoseConnection(r), poolSize' = poolSize
  PROVE  SessionInv'
<1>1. PICK q : q = request[r]
  OBVIOUS
<1>2. PICK new : new = [q EXCEPT !.lost = TRUE]
  OBVIOUS
<1>3. /\ request' = [request EXCEPT ![r] = new] /\ rowLock' = IF rowLock = r THEN None ELSE rowLock
      /\ queue' = queue /\ account' = account /\ rows' = rows
      /\ q.connections > 0 /\ q.kind # "events"
  BY <1>1, <1>2 DEF LoseConnection, SetRequest, InTransaction
<1>4. q \in Request /\ Progress(q) /\ account \in {"absent", "active", "pending_deletion"}
  BY <1>1, RequestFacts
<1>5. /\ new \in Request /\ new.stage = q.stage /\ new.connections = q.connections
      /\ new.kind = q.kind /\ new.outcome = q.outcome
      /\ new.created <=> q.created
      /\ new.dropped <=> q.dropped
      /\ new.lost
  BY <1>2, <1>4 DEF Request
<1>6. q.stage # "ended"
  <2>1. q.stage = "ended" => q.connections = 0
    BY <1>1, RequestFacts DEF Asked
  <2> QED
    BY <1>3, <2>1
<1>7. QueueFits(r, new)
  BY <1>1, <1>3, <1>5 DEF QueueFits
<1>8. StageFits(new)
  BY <1>4, <1>5, <1>6 DEF StageFits, Progress
<1>9. LockFits(r, new)
  BY <1>3, <1>4, <1>5 DEF LockFits
<1>10. RowsFit(r, new)
  BY <1>1, <1>3, <1>4, <1>5, <1>6 DEF RowsFit, Progress
<1> QED
  BY <1>3, <1>5, <1>7, <1>8, <1>9, <1>10, InvariantMoves DEF Moves

-----------------------------------------------------------------------------
LEMMA InitialState == SessionInit => SessionInv
<1> SUFFICES ASSUME SessionInit PROVE SessionInv
  OBVIOUS
<1>1. /\ NoRequest \in Request /\ NoRequest.stage = "idle" /\ NoRequest.connections = 0
      /\ NoRequest.outcome = "none" /\ ~NoRequest.created /\ ~NoRequest.dropped
      /\ NoRequest.kind = None
  BY Few DEF NoRequest, Request
<1>2. \A r \in Requests : request[r] = NoRequest
  BY DEF SessionInit
<1>3. rows = {} /\ queue = <<>> /\ \A r : ~Queued(r)
  BY DEF SessionInit, Queued
<1>4. SessionTypeOK
  BY <1>1 DEF SessionInit, SessionTypeOK
<1>5. ConnectionsAreAsked
  BY <1>1, <1>2, <1>3 DEF ConnectionsAreAsked, Asked, IsInjective
<1>6. \A r \in Requests : Progress(request[r])
  BY <1>1, <1>2 DEF Progress
<1>7. TelemetryIsBestEffort
  BY <1>1, <1>2 DEF TelemetryIsBestEffort
<1>8. WritersHoldTheRow
  BY <1>1, <1>2 DEF WritersHoldTheRow
<1>9. RowsAreInserted /\ EventsTellTheTruth
  BY <1>3 DEF RowsAreInserted, EventsTellTheTruth, AccountEvents
<1> QED
  BY <1>4, <1>5, <1>6, <1>7, <1>8, <1>9 DEF SessionInv

LEMMA Stutters == ASSUME SessionInv, UNCHANGED sessionVars PROVE SessionInv'
<1>1. \A r : Queued(r)' <=> Queued(r)
  BY DEF sessionVars, Queued
<1>2. AccountEvents' = AccountEvents
  BY DEF sessionVars, AccountEvents
<1> QED
  BY <1>1, <1>2 DEF SessionInv, sessionVars, SessionTypeOK, ConnectionsAreAsked, TelemetryIsBestEffort,
     WritersHoldTheRow, RowsAreInserted, EventsTellTheTruth

\* The invariant behind the two theorems that follow is inductive, for any number
\* of requests, any size of the pool and any events of clients.
THEOREM SessionInvariant == SessionSpec => []SessionInv
<1>1. SessionInv /\ [SessionNext]_sessionVars => SessionInv'
  <2> SUFFICES ASSUME SessionInv, [SessionNext]_sessionVars PROVE SessionInv'
    OBVIOUS
  <2>1. CASE UNCHANGED sessionVars
    BY <2>1, Stutters
  <2>2. ASSUME NEW r \in Requests, Statement(r), poolSize' = poolSize
        PROVE  SessionInv'
    BY <2>2, GuardStep, AssertOwnedStep, SessionBeginStep, FindOrCreateStep, UpdateAccountStep,
       InsertStep, InsertFailsStep, SessionCommitStep, NoticeLossStep DEF Statement
  <2>3. CASE SessionNext
    BY <2>2, <2>3, ArriveStep, PostEventsStep, TimeoutStep, LoseConnectionStep, GrantStep DEF SessionNext
  <2> QED
    BY <2>1, <2>3
<1>2. SessionInit => SessionInv
  BY InitialState
<1> QED
  BY <1>1, <1>2, PTL DEF SessionSpec

\* A request that loses its event, for want of a connection or because its INSERT
\* fails, is answered as if it had not (recordBestEffort).
THEOREM TelemetryTheorem == SessionSpec => []TelemetryIsBestEffort
<1>1. SessionInv => TelemetryIsBestEffort
  BY DEF SessionInv
<1> QED
  BY <1>1, SessionInvariant, PTL

\* Events are recorded for requests that are not refused, and one sign-in at most
\* records the creation of the account and keeps its transaction (findOrCreate).
THEOREM EventsTheorem == SessionSpec => []EventsTellTheTruth
<1>1. SessionInv => EventsTellTheTruth
  BY DEF SessionInv
<1> QED
  BY <1>1, SessionInvariant, PTL

=============================================================================
