-------------------------- MODULE WalletLinksProofs --------------------------
(***************************************************************************)
(* Proofs about WalletLinks, for any wallets and any number of calls: its  *)
(* types, that it implements PrimaryWallet and therefore keeps at most one *)
(* wallet primary until a bind overlaps another call, and that a call on   *)
(* its own leaves the primary wallet it should.                            *)
(***************************************************************************)
EXTENDS WalletLinks, FiniteSetTheorems, TLAPS

\* Which statement a call may be at
CallOK(q) ==
  \/ q.op = "none" /\ q.next = "none"
  \/ /\ q.op # "none" /\ q.wallet \in Wallets /\ q.target \in Wallets
     /\ q.op # "delete" => q.target = q.wallet
     /\ \/ q.op = "bind" /\ q.next \in {"create", "update", "clear", "clearing", "mark", "commit"}
        \/ q.op = "setPrimary" /\ q.next \in {"clear", "clearing", "mark", "commit"}
        \/ q.op = "delete" /\ q.next \in {"update", "promote", "clear", "clearing", "mark", "commit"}
CallsOK == \A t \in Calls : CallOK(call[t])

LEMMA Constants ==
  /\ NoCall \notin Calls /\ Cardinality(Wallets) \in Nat
  /\ NoLink \in Link /\ Idle \in Call /\ Idle.op = "none" /\ Idle.next = "none"
  /\ ~Active(NoLink) /\ ~NoLink.primary /\ ~Idle.alone
<1>1. NoCall \notin Calls /\ Cardinality(Wallets) \in Nat
  BY NoValueAssumption, WalletsAssumption, FS_CardinalityType
<1>2. NoLink \in Link
  BY <1>1 DEF NoLink, Link
<1> QED
  BY <1>1, <1>2 DEF NoLink, Idle, Call, Active, Exists

LEMMA ViewType ==
  ASSUME TypeOK, NEW t \in Calls, NEW w \in Wallets
  PROVE  View(t, w) \in Link
BY DEF TypeOK, View

\* The rows the statements write
LEMMA RowTypes ==
  ASSUME NEW row \in Link, NEW status \in {"active", "deleted"}, NEW primary \in BOOLEAN
  PROVE  LET new == [row EXCEPT !.status = status, !.primary = primary]
             same == [row EXCEPT !.primary = primary] IN
         /\ new \in Link /\ same \in Link
         /\ new.status = status /\ (new.primary <=> primary) /\ new.created = row.created
         /\ same.status = row.status /\ (same.primary <=> primary) /\ same.created = row.created
         /\ (Active(same) <=> Active(row)) /\ (Active(new) <=> Exists(row) /\ status = "active")
BY DEF Link, Active, Exists

\* A call that goes on
Goes(t, next) ==
  /\ call' \in [Calls -> Call]
  /\ \A s \in Calls \ {t} : call'[s] = call[s]
  /\ call'[t].op = call[t].op /\ call'[t].next = next /\ call'[t].wallet = call[t].wallet
  /\ call'[t].alone = call[t].alone

\* A statement that writes a row
Writing(t, w, row, next) ==
  /\ Goes(t, next) /\ row \in Link
  /\ UNCHANGED links /\ lock[w] \in {NoCall, t} /\ lock'[w] = t /\ draft'[w] = row
  /\ \A v \in Wallets \ {w} : lock'[v] = lock[v] /\ draft'[v] = draft[v]
  /\ lock' \in [Wallets -> Calls \cup {NoCall}] /\ draft' \in [Wallets -> Link]
  /\ View(t, w)' = row /\ \A v \in Wallets \ {w} : View(t, v)' = View(t, v)

\* A statement that only reads
Reading(t, next) ==
  /\ Goes(t, next) /\ UNCHANGED <<links, draft, lock>>
  /\ \A v \in Wallets : View(t, v)' = View(t, v)

LEMMA WriteStep ==
  ASSUME TypeOK, NEW t \in Calls, NEW w \in Wallets, NEW row \in Link, NEW next,
         Write(t, w, row), Goes(t, next)
  PROVE  Writing(t, w, row, next)
<1>1. /\ lock'[w] = t /\ draft'[w] = row /\ UNCHANGED links /\ lock[w] \in {NoCall, t}
      /\ \A v \in Wallets \ {w} : lock'[v] = lock[v] /\ draft'[v] = draft[v]
      /\ lock' \in [Wallets -> Calls \cup {NoCall}] /\ draft' \in [Wallets -> Link]
  BY DEF TypeOK, Write
<1> QED
  BY <1>1 DEF Writing, View

LEMMA GoStep ==
  ASSUME TypeOK, NEW t \in Calls, NEW next \in {"commit", "promote", "clear"}, Goto(t, next)
  PROVE  /\ Goes(t, next) /\ call'[t].seen = call[t].seen /\ call'[t].asked = call[t].asked
         /\ call'[t].todo = call[t].todo /\ call'[t].target = call[t].target
BY DEF TypeOK, Goto, Goes, Call

LEMMA SeenStep ==
  ASSUME TypeOK, NEW t \in Calls, NEW seen \in Link,
         call' = [call EXCEPT ![t].seen = seen, ![t].next = "update"]
  PROVE  /\ Goes(t, "update") /\ call'[t].seen = seen /\ call'[t].asked = call[t].asked
         /\ call'[t].target = call[t].target
<1>1. call[t] \in Call /\ call \in [Calls -> Call] /\ NoLink \in Link
  BY Constants DEF TypeOK
<1> QED
  BY <1>1 DEF Goes, Call

LEMMA TodoStep ==
  ASSUME TypeOK, NEW t \in Calls, NEW todo \in SUBSET Wallets, NEW next \in {"mark", "clearing"},
         call' = [call EXCEPT ![t].todo = todo, ![t].next = next]
  PROVE  /\ Goes(t, next) /\ call'[t].seen = call[t].seen /\ call'[t].asked = call[t].asked
         /\ call'[t].todo = todo /\ call'[t].target = call[t].target
<1>1. call[t] \in Call /\ call \in [Calls -> Call] /\ NoLink \in Link
  BY Constants DEF TypeOK
<1> QED
  BY <1>1 DEF Goes, Call

LEMMA TargetStep ==
  ASSUME TypeOK, NEW t \in Calls, NEW w \in Wallets,
         call' = [call EXCEPT ![t].target = w, ![t].next = "clear"]
  PROVE  /\ Goes(t, "clear") /\ call'[t].seen = call[t].seen /\ call'[t].asked = call[t].asked
         /\ call'[t].target = w
<1>1. call[t] \in Call /\ call \in [Calls -> Call] /\ NoLink \in Link
  BY Constants DEF TypeOK
<1> QED
  BY <1>1 DEF Goes, Call

LEMMA AskedStep ==
  ASSUME TypeOK, NEW t \in Calls, NEW asked \in {"true", "false"}, NEW next \in {"clear", "commit"},
         call' = [call EXCEPT ![t].next = next, ![t].asked = asked, ![t].seen = NoLink]
  PROVE  Goes(t, next) /\ call'[t].asked = asked /\ call'[t].target = call[t].target
<1>1. call[t] \in Call /\ call \in [Calls -> Call] /\ NoLink \in Link
  BY Constants DEF TypeOK
<1> QED
  BY <1>1 DEF Goes, Call

Kept(t) == call'[t].seen = call[t].seen /\ call'[t].asked = call[t].asked

LEMMA CreateStep ==
  ASSUME TypeOK, CallsOK, NEW t \in Calls, Create(t)
  PROVE  \E w \in Wallets :
           /\ call[t].op = "bind" /\ call[t].next = "create" /\ call[t].wallet = w /\ lock[w] = NoCall
           /\ call'[t].target = call[t].target /\ call'[t].asked = call[t].asked
           /\ \/ Reading(t, "update") /\ Exists(links[w]) /\ call'[t].seen = links[w]
              \/ \E row \in Link : Writing(t, w, row, "update") /\ Exists(row) /\ call'[t].seen = row
<1>1. PICK w \in Wallets : call[t].op = "bind" /\ call[t].next = "create" /\ call[t].wallet = w /\ lock[w] = NoCall
  BY DEF Create, CallsOK, CallOK
<1>2. CASE Exists(links[w])
  <2>1. /\ call' = [call EXCEPT ![t].seen = links[w], ![t].next = "update"]
        /\ UNCHANGED <<links, draft, lock>> /\ links[w] \in Link
    BY <1>1, <1>2 DEF Create, TypeOK
  <2>2. /\ Goes(t, "update") /\ call'[t].seen = links[w] /\ call'[t].asked = call[t].asked
        /\ call'[t].target = call[t].target
    BY <2>1, SeenStep
  <2>3. Reading(t, "update")
    BY <2>1, <2>2 DEF Reading, View
  <2> QED
    BY <1>1, <1>2, <2>2, <2>3
<1>3. CASE ~Exists(links[w])
  <2> DEFINE taken == {v \in Wallets : Exists(links[v]) \/ lock[v] # NoCall}
             row == [status |-> "active", primary |-> call[t].asked # "false",
                     created |-> Cardinality(taken) + 1]
  <2>1. /\ call' = [call EXCEPT ![t].seen = row, ![t].next = "update"] /\ Write(t, w, row)
    BY <1>1, <1>3 DEF Create
  <2>2. Cardinality(taken) \in Nat /\ Cardinality(taken) + 1 <= Cardinality(Wallets)
    <3>1. taken \subseteq Wallets \ {w} /\ IsFiniteSet(Wallets \ {w})
      BY <1>1, <1>3, WalletsAssumption, FS_Subset
    <3>2. Cardinality(Wallets \ {w}) = Cardinality(Wallets) - 1
      BY WalletsAssumption, FS_RemoveElement
    <3>3. IsFiniteSet(taken) /\ Cardinality(taken) <= Cardinality(Wallets \ {w})
      BY <3>1, FS_Subset
    <3> HIDE DEF taken
    <3> QED
      BY <3>2, <3>3, Constants, FS_CardinalityType
  <2>3. row \in Link /\ Exists(row)
    <3> HIDE DEF taken
    <3> QED
      BY <2>2, Constants DEF Link, Exists
  <2> HIDE DEF row
  <2>4. /\ Goes(t, "update") /\ call'[t].seen = row /\ call'[t].asked = call[t].asked
        /\ call'[t].target = call[t].target
    BY <2>1, <2>3, SeenStep
  <2>5. Writing(t, w, row, "update")
    BY <2>1, <2>3, <2>4, WriteStep
  <2> QED
    BY <1>1, <2>3, <2>4, <2>5
<1> QED
  BY <1>2, <1>3

LEMMA UpdateStep ==
  ASSUME TypeOK, CallsOK, NEW t \in Calls, UpdateLink(t)
  PROVE  \E w \in Wallets, row \in Link :
           /\ call[t].op = "bind" /\ call[t].next = "update" /\ call[t].wallet = w
           /\ call'[t].target = call[t].target /\ call[t].target = w
           /\ Writing(t, w, row, IF AskedPrimary(t) THEN "clear" ELSE "commit")
           /\ call'[t].asked = (IF AskedPrimary(t) THEN "true" ELSE "false")
           /\ call[t].seen = View(t, w) /\ Exists(View(t, w)) =>
                Active(row) /\ (row.primary <=> AskedPrimary(t))
<1>1. PICK w \in Wallets :
        call[t].op = "bind" /\ call[t].next = "update" /\ call[t].wallet = w /\ call[t].target = w
  BY DEF UpdateLink, CallsOK, CallOK
<1> DEFINE seen == call[t].seen
           row == [View(t, w) EXCEPT
             !.status = IF seen.status = "active" THEN @ ELSE "active",
             !.primary = IF seen.primary = AskedPrimary(t) THEN @ ELSE AskedPrimary(t)]
<1>2. /\ Write(t, w, row)
      /\ call' = [call EXCEPT ![t].next = IF AskedPrimary(t) THEN "clear" ELSE "commit",
                              ![t].asked = IF AskedPrimary(t) THEN "true" ELSE "false",
                              ![t].seen = NoLink]
  BY <1>1 DEF UpdateLink
<1>3. /\ Goes(t, IF AskedPrimary(t) THEN "clear" ELSE "commit")
      /\ call'[t].asked = (IF AskedPrimary(t) THEN "true" ELSE "false") /\ call'[t].target = call[t].target
  <2>1. PICK next, asked : /\ next = (IF AskedPrimary(t) THEN "clear" ELSE "commit")
                           /\ asked = (IF AskedPrimary(t) THEN "true" ELSE "false")
    OBVIOUS
  <2>2. next \in {"clear", "commit"} /\ asked \in {"true", "false"}
    BY <2>1
  <2>3. call' = [call EXCEPT ![t].next = next, ![t].asked = asked, ![t].seen = NoLink]
    BY <1>2, <2>1
  <2>4. Goes(t, next) /\ call'[t].asked = asked /\ call'[t].target = call[t].target
    BY <2>2, <2>3, AskedStep
  <2> QED
    BY <2>1, <2>4
<1>4. AskedPrimary(t) \in BOOLEAN /\ seen \in Link /\ View(t, w) \in Link
  BY ViewType DEF AskedPrimary, TypeOK, Call, Link
<1> HIDE DEF AskedPrimary, View, seen
<1>5. /\ row \in Link
      /\ seen = View(t, w) /\ Exists(View(t, w)) => Active(row) /\ row.primary = AskedPrimary(t)
  BY <1>4 DEF Link, Active, Exists
<1>6. Writing(t, w, row, IF AskedPrimary(t) THEN "clear" ELSE "commit")
  BY <1>2, <1>3, <1>5, WriteStep
<1> HIDE DEF row
<1> QED
  BY <1>1, <1>3, <1>5, <1>6 DEF seen

LEMMA DeletedStep ==
  ASSUME TypeOK, CallsOK, NEW t \in Calls, MarkDeleted(t)
  PROVE  \E w \in Wallets, row \in Link :
           /\ call[t].op = "delete" /\ call[t].next = "update" /\ call[t].wallet = w /\ Kept(t)
           /\ call'[t].target = call[t].target
           /\ Writing(t, w, row, IF call[t].seen.primary THEN "promote" ELSE "commit")
           /\ ~Active(row)
<1>1. PICK w \in Wallets : call[t].op = "delete" /\ call[t].next = "update" /\ call[t].wallet = w
  BY DEF MarkDeleted, CallsOK, CallOK
<1> DEFINE row == [View(t, w) EXCEPT
             !.status = "deleted", !.primary = IF call[t].seen.primary THEN FALSE ELSE @]
<1>2. Write(t, w, row) /\ Goto(t, IF call[t].seen.primary THEN "promote" ELSE "commit")
  BY <1>1 DEF MarkDeleted
<1>3. /\ Goes(t, IF call[t].seen.primary THEN "promote" ELSE "commit") /\ Kept(t)
      /\ call'[t].target = call[t].target
  BY <1>2, GoStep DEF Kept
<1>4. row \in Link /\ ~Active(row)
  BY ViewType DEF Link, Active
<1> HIDE DEF row
<1> QED
  BY <1>1, <1>2, <1>3, <1>4, WriteStep

LEMMA PromoteStep ==
  ASSUME TypeOK, CallsOK, NEW t \in Calls, Promote(t)
  PROVE  /\ call[t].op = "delete" /\ call[t].next = "promote" /\ Kept(t)
         /\ call'[t].target \in Wallets
         /\ \/ ActiveFor(t) = {} /\ Reading(t, "commit")
            \/ /\ Reading(t, "clear") /\ call'[t].target \in ActiveFor(t)
               /\ \A v \in ActiveFor(t) : View(t, call'[t].target).created <= View(t, v).created
<1>1. call[t].op = "delete" /\ call[t].next = "promote" /\ call[t].target \in Wallets
  BY DEF Promote, CallsOK, CallOK
<1>2. UNCHANGED <<links, draft, lock>> /\ \A v \in Wallets : View(t, v)' = View(t, v)
  BY DEF Promote, View
<1>3. CASE ActiveFor(t) = {}
  <2>1. Goto(t, "commit")
    BY <1>3 DEF Promote
  <2> QED
    BY <1>1, <1>2, <1>3, <2>1, GoStep DEF Reading, Kept
<1>4. CASE ActiveFor(t) # {}
  <2>1. PICK w \in ActiveFor(t) :
          /\ \A v \in ActiveFor(t) : View(t, w).created <= View(t, v).created
          /\ call' = [call EXCEPT ![t].target = w, ![t].next = "clear"]
    BY <1>4 DEF Promote
  <2>2. w \in Wallets
    BY DEF ActiveFor
  <2>3. Goes(t, "clear") /\ Kept(t) /\ call'[t].target = w
    BY <2>1, <2>2, TargetStep DEF Kept
  <2> QED
    BY <1>1, <1>2, <2>1, <2>2, <2>3 DEF Reading
<1> QED
  BY <1>3, <1>4

LEMMA ClearStep ==
  ASSUME TypeOK, CallsOK, NEW t \in Calls, Clear(t)
  PROVE  /\ Reading(t, IF ActiveFor(t) = {} THEN "mark" ELSE "clearing") /\ Kept(t)
         /\ call[t].op # "none" /\ call[t].next = "clear"
         /\ call'[t].target = call[t].target /\ call'[t].todo = ActiveFor(t)
<1>1. ActiveFor(t) \in SUBSET Wallets
  BY DEF ActiveFor
<1>2. UNCHANGED <<links, draft, lock>> /\ \A v \in Wallets : View(t, v)' = View(t, v)
  BY DEF Clear, View
<1>3. call[t].op # "none" /\ call[t].next = "clear"
  BY DEF Clear, CallsOK, CallOK
<1>4. PICK next \in {"mark", "clearing"} : next = (IF ActiveFor(t) = {} THEN "mark" ELSE "clearing")
  OBVIOUS
<1>5. call' = [call EXCEPT ![t].todo = ActiveFor(t), ![t].next = next]
  BY <1>4 DEF Clear
<1>6. Goes(t, next) /\ Kept(t) /\ call'[t].target = call[t].target /\ call'[t].todo = ActiveFor(t)
  BY <1>1, <1>5, TodoStep DEF Kept
<1> QED
  BY <1>2, <1>3, <1>4, <1>6 DEF Reading

LEMMA RowStep ==
  ASSUME TypeOK, CallsOK, NEW t \in Calls, NEW w \in Wallets, ClearRow(t, w)
  PROVE  \E row \in Link :
           /\ Writing(t, w, row, IF call[t].todo = {w} THEN "mark" ELSE "clearing") /\ Kept(t)
           /\ call[t].op # "none" /\ call[t].next = "clearing" /\ w \in call[t].todo
           /\ call'[t].target = call[t].target /\ call'[t].todo = call[t].todo \ {w}
           /\ (Active(row) <=> Active(View(t, w))) /\ row.created = View(t, w).created
           /\ Active(row) => ~row.primary
<1> DEFINE primary == IF Active(View(t, w)) THEN FALSE ELSE View(t, w).primary
           row == [View(t, w) EXCEPT !.primary = primary]
<1>1. Write(t, w, row)
  BY DEF ClearRow
<1>2. call' = [call EXCEPT ![t].todo = call[t].todo \ {w},
                          ![t].next = IF call[t].todo = {w} THEN "mark" ELSE "clearing"]
  BY DEF ClearRow, TypeOK
<1>3. call[t].op # "none" /\ call[t].next = "clearing" /\ w \in call[t].todo /\ call[t].todo \ {w} \in SUBSET Wallets
  BY DEF ClearRow, CallsOK, CallOK, TypeOK, Call
<1>4. /\ Goes(t, IF call[t].todo = {w} THEN "mark" ELSE "clearing") /\ Kept(t)
      /\ call'[t].target = call[t].target /\ call'[t].todo = call[t].todo \ {w}
  <2>1. PICK next \in {"mark", "clearing"} : next = (IF call[t].todo = {w} THEN "mark" ELSE "clearing")
    OBVIOUS
  <2>2. PICK todo \in SUBSET Wallets : todo = call[t].todo \ {w}
    BY <1>3
  <2>3. call' = [call EXCEPT ![t].todo = todo, ![t].next = next]
    BY <1>2, <2>1, <2>2
  <2>4. Goes(t, next) /\ Kept(t) /\ call'[t].target = call[t].target /\ call'[t].todo = todo
    BY <2>3, TodoStep DEF Kept
  <2> QED
    BY <2>1, <2>2, <2>4
<1>5. View(t, w) \in Link
  BY ViewType
<1> HIDE DEF View
<1>6. /\ row \in Link /\ (Active(row) <=> Active(View(t, w))) /\ row.created = View(t, w).created
      /\ Active(row) => ~row.primary
  BY <1>5 DEF Link, Active, Exists
<1> HIDE DEF row
<1> QED
  BY <1>1, <1>3, <1>4, <1>6, WriteStep

LEMMA MarkStep ==
  ASSUME TypeOK, CallsOK, NEW t \in Calls, Mark(t)
  PROVE  \E w \in Wallets :
           /\ call[t].op # "none" /\ call[t].next = "mark" /\ call[t].target = w
           /\ Kept(t) /\ call'[t].target = w
           /\ \/ ~Active(View(t, w)) /\ Reading(t, "commit")
              \/ \E row \in Link :
                   /\ Active(View(t, w)) /\ Writing(t, w, row, "commit")
                   /\ Active(row) /\ row.created = View(t, w).created /\ row.primary
<1>1. PICK w \in Wallets : call[t].op # "none" /\ call[t].next = "mark" /\ call[t].target = w
  BY DEF Mark, CallsOK, CallOK
<1>2. Goes(t, "commit") /\ Kept(t) /\ call'[t].target = w
  BY <1>1, GoStep DEF Mark, Kept
<1>3. CASE ~Active(View(t, w))
  <2>1. UNCHANGED <<links, draft, lock>>
    BY <1>1, <1>3 DEF Mark
  <2>2. \A v \in Wallets : View(t, v)' = View(t, v)
    BY <2>1 DEF View
  <2> QED
    BY <1>1, <1>2, <1>3, <2>1, <2>2 DEF Reading
<1>4. CASE Active(View(t, w))
  <2> DEFINE row == [View(t, w) EXCEPT !.primary = TRUE]
  <2>1. Write(t, w, row)
    BY <1>1, <1>4 DEF Mark
  <2>2. View(t, w) \in Link
    BY ViewType
  <2> HIDE DEF View
  <2>3. row \in Link /\ Active(row) /\ row.created = View(t, w).created /\ row.primary
    BY <1>4, <2>2 DEF Link, Active, Exists
  <2> HIDE DEF row
  <2> QED
    BY <1>1, <1>2, <1>4, <2>1, <2>3, WriteStep
<1> QED
  BY <1>3, <1>4

-----------------------------------------------------------------------------
\* A call begins, and the calls in progress are not alone any more.
Same(s) ==
  /\ call'[s].op = call[s].op /\ call'[s].next = call[s].next /\ call'[s].wallet = call[s].wallet
  /\ call'[s].target = call[s].target /\ call'[s].asked = call[s].asked
  /\ call'[s].seen = call[s].seen /\ call'[s].todo = call[s].todo
Started(t, op, w, seen, next) ==
  /\ ~Running(t) /\ UNCHANGED <<links, draft, lock>> /\ call' \in [Calls -> Call]
  /\ \A s \in Calls \ {t} : Same(s) /\ ~call'[s].alone
  /\ call'[t].op = op /\ call'[t].next = next /\ call'[t].wallet = w /\ call'[t].target = w
  /\ call'[t].seen = seen /\ (call'[t].alone => \A o \in Calls : ~Running(o))

LEMMA BeginStep ==
  ASSUME TypeOK, NEW t \in Calls, NEW op \in {"bind", "setPrimary", "delete"}, NEW w \in Wallets,
         NEW asked \in {"true", "false", "absent"}, NEW seen \in Link,
         NEW next \in {"create", "update", "clear"}, Begin(t, op, w, asked, seen, next)
  PROVE  Started(t, op, w, seen, next)
<1>1. \A s \in Calls : call[s] \in Call
  BY DEF TypeOK
<1>2. PICK alone \in BOOLEAN : alone = \A r \in Calls : ~Running(r)
  OBVIOUS
<1>3. /\ \A s \in Calls \ {t} : call'[s] = [call[s] EXCEPT !.alone = FALSE]
      /\ call'[t] = [Idle EXCEPT !.op = op, !.next = next, !.wallet = w, !.target = w, !.asked = asked,
                                 !.seen = seen, !.alone = alone]
      /\ DOMAIN call' = Calls /\ call' = [s \in Calls |-> call'[s]]
  BY <1>2, Zenon DEF Begin
<1>4. ASSUME NEW s \in Calls \ {t} PROVE Same(s) /\ ~call'[s].alone /\ call'[s] \in Call
  <2>1. call[s] \in Call /\ call'[s] = [call[s] EXCEPT !.alone = FALSE]
    BY <1>1, <1>3
  <2> QED
    BY <2>1 DEF Call, Same
<1>5. /\ call'[t] \in Call
      /\ call'[t].op = op /\ call'[t].next = next /\ call'[t].wallet = w /\ call'[t].target = w
      /\ call'[t].seen = seen /\ (call'[t].alone <=> alone)
  BY <1>3, Constants DEF Idle, Call
<1>6. call' \in [Calls -> Call]
  BY <1>3, <1>4, <1>5
<1> QED
  BY <1>2, <1>4, <1>5, <1>6 DEF Started, Begin

LEMMA Begins ==
  ASSUME TypeOK, NEW t \in Calls, NEW w \in Wallets
  PROVE  /\ \A asked \in {"true", "false", "absent"} :
              /\ BindFind(t, w, asked) => Exists(links[w]) /\ Started(t, "bind", w, links[w], "update")
              /\ BindMissing(t, w, asked) => Started(t, "bind", w, NoLink, "create")
         /\ SetPrimary(t, w) => Active(links[w]) /\ Started(t, "setPrimary", w, NoLink, "clear")
         /\ Delete(t, w) => Started(t, "delete", w, links[w], "update")
<1>1. links[w] \in Link /\ NoLink \in Link
  BY Constants DEF TypeOK
<1> QED
  BY <1>1, BeginStep DEF BindFind, BindMissing, SetPrimary, Delete

\* A call ends, with or without its writes.
Ended(t) ==
  /\ call'[t] = Idle /\ \A s \in Calls \ {t} : call'[s] = call[s]
  /\ \A w \in Wallets :
       /\ lock'[w] = (IF lock[w] = t THEN NoCall ELSE lock[w])
       /\ draft'[w] = (IF lock[w] = t THEN NoLink ELSE draft[w])

LEMMA EndStep ==
  ASSUME TypeOK, NEW t \in Calls, End(t), links' \in [Wallets -> Link]
  PROVE  Ended(t) /\ (overlapped' \in BOOLEAN => TypeOK')
<1>1. Ended(t)
  BY DEF TypeOK, End, Ended
<1>2. call' \in [Calls -> Call] /\ lock' \in [Wallets -> Calls \cup {NoCall}] /\ draft' \in [Wallets -> Link]
  BY Constants DEF TypeOK, End
<1>3. \A w \in Wallets : IF lock'[w] = NoCall THEN draft'[w] = NoLink ELSE call'[lock'[w]].op # "none"
  BY <1>1, Constants DEF TypeOK, Ended, Running
<1> QED
  BY <1>1, <1>2, <1>3 DEF TypeOK, Running

LEMMA CommitStep ==
  ASSUME TypeOK, NEW t \in Calls, Commit(t)
  PROVE  /\ Ended(t) /\ (overlapped' \in BOOLEAN => TypeOK') /\ call[t].next = "commit"
         /\ \A w \in Wallets : links'[w] = View(t, w)
<1>1. links' \in [Wallets -> Link] /\ End(t) /\ \A w \in Wallets : links'[w] = View(t, w)
  BY ViewType DEF Commit
<1> QED
  BY <1>1, EndStep DEF Commit

LEMMA GoesType ==
  ASSUME TypeOK, CallsOK, NEW t \in Calls, call[t].op # "none", NEW next, Goes(t, next), CallOK(call'[t]),
         UNCHANGED <<links, draft, lock>> \/ \E w \in Wallets, row \in Link : Writing(t, w, row, next),
         overlapped' \in BOOLEAN
  PROVE  TypeOK' /\ CallsOK'
<1>1. CallsOK'
  BY DEF Goes, CallsOK
<1>2. CASE UNCHANGED <<links, draft, lock>>
  BY <1>1, <1>2 DEF TypeOK, Goes, Running
<1>3. ASSUME NEW w \in Wallets, NEW row \in Link, Writing(t, w, row, next) PROVE TypeOK'
  <2>1. /\ lock'[w] = t /\ t # NoCall /\ UNCHANGED links
        /\ \A v \in Wallets \ {w} : lock'[v] = lock[v] /\ draft'[v] = draft[v]
        /\ lock' \in [Wallets -> Calls \cup {NoCall}] /\ draft' \in [Wallets -> Link]
    BY <1>3, Constants DEF Writing
  <2>2. ASSUME NEW v \in Wallets
        PROVE  IF lock'[v] = NoCall THEN draft'[v] = NoLink ELSE call'[lock'[v]].op # "none"
    BY <2>1 DEF TypeOK, Goes, Running
  <2> QED
    BY <2>1, <2>2 DEF TypeOK, Goes, Running
<1> QED
  BY <1>1, <1>2, <1>3

LEMMA TypeStep ==
  ASSUME TypeOK, CallsOK, Next
  PROVE  TypeOK' /\ CallsOK'
<1>1. overlapped' \in BOOLEAN
  BY DEF Next, TypeOK, BindOverlaps
<1>2. \A t \in Calls : CallOK(call[t])
  BY DEF CallsOK
<1>3. ASSUME NEW t \in Calls, NEW op \in {"bind", "setPrimary", "delete"}, NEW w \in Wallets, NEW seen, NEW next,
             Started(t, op, w, seen, next), CallOK([op |-> op, next |-> next, wallet |-> w, target |-> w])
      PROVE  TypeOK' /\ CallsOK'
  <2>1. CallsOK'
    BY <1>3 DEF Started, Same, CallsOK, CallOK
  <2>2. \A s \in Calls : Running(s) => Running(s)'
    BY <1>3 DEF Started, Same, Running
  <2> QED
    BY <1>1, <1>3, <2>1, <2>2 DEF Started, TypeOK
<1>4. ASSUME NEW t \in Calls, NEW w \in Wallets, NEW asked \in {"true", "false", "absent"},
             BindFind(t, w, asked) \/ BindMissing(t, w, asked) \/ SetPrimary(t, w) \/ Delete(t, w)
      PROVE  TypeOK' /\ CallsOK'
  BY <1>3, <1>4, Begins DEF CallOK
<1>5. ASSUME NEW t \in Calls, Create(t) PROVE TypeOK' /\ CallsOK'
  <2>1. CallOK(call'[t]) /\ Goes(t, "update") /\ call[t].op # "none"
    BY <1>2, <1>5, CreateStep DEF CallOK, Reading, Writing, Goes
  <2> QED
    BY <1>1, <1>5, <2>1, CreateStep, GoesType DEF Reading
<1>6. ASSUME NEW t \in Calls, UpdateLink(t) PROVE TypeOK' /\ CallsOK'
  <2>1. PICK next \in {"clear", "commit"}, w \in Wallets, row \in Link :
          /\ call[t].op = "bind" /\ call[t].wallet = w /\ call'[t].target = w /\ Writing(t, w, row, next)
    BY <1>6, UpdateStep
  <2>2. CallOK(call'[t]) /\ Goes(t, next) /\ call[t].op # "none"
    BY <2>1 DEF CallOK, Writing, Goes
  <2> QED
    BY <1>1, <2>1, <2>2, GoesType
<1>7. ASSUME NEW t \in Calls, MarkDeleted(t) PROVE TypeOK' /\ CallsOK'
  <2>1. PICK next \in {"promote", "commit"}, w \in Wallets, row \in Link :
          /\ call[t].op = "delete" /\ call[t].wallet = w /\ call'[t].target = call[t].target
          /\ Writing(t, w, row, next)
    BY <1>7, DeletedStep
  <2>2. CallOK(call'[t]) /\ Goes(t, next) /\ call[t].op # "none"
    BY <1>2, <2>1 DEF CallOK, Writing, Goes
  <2> QED
    BY <1>1, <2>1, <2>2, GoesType
<1>8. ASSUME NEW t \in Calls, Promote(t) PROVE TypeOK' /\ CallsOK'
  <2>1. PICK next \in {"clear", "commit"} :
          /\ call[t].op = "delete" /\ call'[t].target \in Wallets /\ Reading(t, next)
    BY <1>8, PromoteStep
  <2>2. CallOK(call'[t]) /\ Goes(t, next) /\ call[t].op # "none" /\ UNCHANGED <<links, draft, lock>>
    BY <1>2, <2>1 DEF CallOK, Reading, Goes
  <2> QED
    BY <1>1, <2>2, GoesType
<1>9. ASSUME NEW t \in Calls, Clear(t) PROVE TypeOK' /\ CallsOK'
  <2>1. PICK next \in {"mark", "clearing"} :
          call[t].op # "none" /\ call'[t].target = call[t].target /\ Reading(t, next)
    BY <1>9, ClearStep
  <2>2. CallOK(call'[t]) /\ Goes(t, next) /\ UNCHANGED <<links, draft, lock>>
    BY <1>2, <2>1 DEF CallOK, Reading, Goes
  <2> QED
    BY <1>1, <2>1, <2>2, GoesType
<1>10. ASSUME NEW t \in Calls, NEW w \in Wallets, ClearRow(t, w) PROVE TypeOK' /\ CallsOK'
  <2>1. PICK next \in {"mark", "clearing"}, row \in Link :
          call[t].op # "none" /\ call'[t].target = call[t].target /\ Writing(t, w, row, next)
    BY <1>10, RowStep
  <2>2. CallOK(call'[t]) /\ Goes(t, next)
    BY <1>2, <2>1 DEF CallOK, Writing, Goes
  <2> QED
    BY <1>1, <2>1, <2>2, GoesType
<1>11. ASSUME NEW t \in Calls, Mark(t) PROVE TypeOK' /\ CallsOK'
  <2>1. PICK w \in Wallets :
          /\ call[t].op # "none" /\ call'[t].target = call[t].target
          /\ Reading(t, "commit") \/ \E row \in Link : Writing(t, w, row, "commit")
    BY <1>11, MarkStep
  <2>2. CallOK(call'[t]) /\ Goes(t, "commit")
    BY <1>2, <2>1 DEF CallOK, Reading, Writing, Goes
  <2> QED
    BY <1>1, <2>1, <2>2, GoesType DEF Reading
<1>12. ASSUME NEW t \in Calls, Commit(t) \/ Abort(t) PROVE TypeOK' /\ CallsOK'
  <2>1. Ended(t) /\ TypeOK'
    BY <1>1, <1>12, CommitStep, EndStep DEF Abort, TypeOK
  <2> QED
    BY <2>1, Constants DEF Ended, CallsOK, CallOK
<1> QED
  BY <1>4, <1>5, <1>6, <1>7, <1>8, <1>9, <1>10, <1>11, <1>12 DEF Next, Step

-----------------------------------------------------------------------------
(***************************************************************************)
(* What a call holds of its transaction while no bind disturbs it: no bind *)
(* has overlapped a call yet, or the call is alone.  Other calls then only *)
(* take wallets away, and markPrimaryWallet reaches every active row.      *)
(***************************************************************************)
Calm(t) == ~overlapped \/ call[t].alone
CalmOK ==
  \A s, t \in Calls : s # t /\ Running(s) =>
    /\ ~call[t].alone
    /\ call[t].op = "bind" => overlapped

\* The calls that run markPrimaryWallet
Marks(t) ==
  \/ call[t].op = "setPrimary"
  \/ call[t].op = "bind" /\ call[t].asked = "true"
  \/ call[t].op = "delete" /\ call[t].seen.primary

\* Only its own wallet is made active or inactive, and only that one is locked
\* by a call that runs no markPrimaryWallet.
LocksGood(t) ==
  /\ \A v \in Wallets : lock[v] = t /\ (v # call[t].wallet \/ call[t].op = "setPrimary") =>
       (Active(draft[v]) <=> Active(links[v]))
  /\ call[t].next \in {"create", "update"} \/ (call[t].next = "commit" /\ ~Marks(t)) =>
       \A v \in Wallets : v # call[t].wallet => lock[v] # t

\* upsertWallet loads the row as it is, and leaves it active.
BindGood(t) == call[t].op = "bind" =>
  /\ call[t].next = "update" => call[t].seen = View(t, call[t].wallet) /\ Exists(View(t, call[t].wallet))
  /\ call[t].next \in {"clear", "clearing", "mark", "commit"} =>
       /\ Active(View(t, call[t].wallet)) /\ call[t].asked # "absent"
       /\ call[t].asked = "false" => call[t].next = "commit" /\ ~View(t, call[t].wallet).primary

\* deleteWallet has marked its row, and promotes if that was primary.
DeleteGood(t) == call[t].op = "delete" /\ call[t].next # "update" =>
  /\ ~Active(View(t, call[t].wallet)) /\ lock[call[t].wallet] = t
  /\ call[t].next # "commit" => call[t].seen.primary

\* markPrimaryWallet: the active rows it has not cleared are still to do, and
\* after its second UPDATE the target is the only primary one.
MarkGood(t) ==
  /\ call[t].next \in {"clearing", "mark"} =>
       \A v \in ActiveFor(t) : v \in call[t].todo \/ (lock[v] = t /\ ~draft[v].primary)
  /\ call[t].next = "mark" => call[t].todo = {}
  /\ call[t].next = "commit" /\ Marks(t) =>
       \A v \in ActiveFor(t) : lock[v] = t /\ (draft[v].primary <=> v = call[t].target)

\* Alone, a switch finds its wallet active, and a deletion promotes the oldest.
Oldest(t) ==
  /\ call[t].target \in ActiveFor(t)
  /\ \A v \in ActiveFor(t) : View(t, call[t].target).created <= View(t, v).created
AloneGood(t) == call[t].alone =>
  /\ call[t].op = "setPrimary" => Active(View(t, call[t].wallet))
  /\ call[t].op = "delete" /\ call[t].next \in {"clear", "clearing", "mark"} => Oldest(t)
  /\ call[t].op = "delete" /\ call[t].next = "commit" /\ Marks(t) => ActiveFor(t) = {} \/ Oldest(t)

Good(t) == LocksGood(t) /\ BindGood(t) /\ DeleteGood(t) /\ MarkGood(t) /\ AloneGood(t)
GoodOK == \A t \in Calls : Running(t) /\ Calm(t) => Good(t)

-----------------------------------------------------------------------------
\* Every step is one of these.
LEMMA Shapes ==
  ASSUME TypeOK, CallsOK, Next
  PROVE  \E t \in Calls :
           \/ \E op, w, seen, next : Started(t, op, w, seen, next)
           \/ Running(t) /\ \E next : Goes(t, next)
           \/ Running(t) /\ Ended(t)
<1>1. ASSUME NEW t \in Calls, NEW w \in Wallets, NEW asked \in {"true", "false", "absent"},
             BindFind(t, w, asked) \/ BindMissing(t, w, asked) \/ SetPrimary(t, w) \/ Delete(t, w)
      PROVE  \E op, seen, next : Started(t, op, w, seen, next)
  BY <1>1, Begins
<1>2. ASSUME NEW t \in Calls, Create(t) \/ UpdateLink(t) \/ MarkDeleted(t)
      PROVE  Running(t) /\ \E next : Goes(t, next)
  BY <1>2, CreateStep, UpdateStep, DeletedStep DEF Reading, Writing, Running
<1>3. ASSUME NEW t \in Calls, Promote(t) \/ Clear(t) \/ Mark(t)
      PROVE  Running(t) /\ \E next : Goes(t, next)
  BY <1>3, PromoteStep, ClearStep, MarkStep DEF Reading, Writing, Running
<1>4. ASSUME NEW t \in Calls, NEW w \in Wallets, ClearRow(t, w)
      PROVE  Running(t) /\ \E next : Goes(t, next)
  BY <1>4, RowStep DEF Writing, Running
<1>5. ASSUME NEW t \in Calls, Commit(t) PROVE Running(t) /\ Ended(t)
  BY <1>5, CommitStep DEF CallsOK, CallOK, Running
<1>6. ASSUME NEW t \in Calls, Abort(t) PROVE Running(t) /\ Ended(t)
  <2>1. Ended(t)
    BY <1>6, EndStep DEF Abort, TypeOK
  <2>2. Wanted(t) # {}
    BY <1>6 DEF Abort, Deadlocked, WaitsFor
  <2> QED
    BY <2>1, <2>2 DEF Wanted, CallsOK, CallOK, Running
<1> QED
  BY <1>1, <1>2, <1>3, <1>4, <1>5, <1>6 DEF Next, Step

LEMMA CalmStep ==
  ASSUME TypeOK, CallsOK, CalmOK, Next
  PROVE  CalmOK' /\ \A t \in Calls : Running(t) /\ Running(t)' /\ Calm(t)' => Calm(t)
<1>1. overlapped' = (overlapped \/ BindOverlaps')
  BY DEF Next
<1>2. ASSUME NEW s \in Calls, NEW t \in Calls, s # t, call'[s].op # "none", call'[t].op = "bind"
      PROVE  overlapped'
  BY <1>1, <1>2 DEF BindOverlaps, Running
<1>3. PICK a \in Calls :
        \/ \E op, w, seen, next : Started(a, op, w, seen, next)
        \/ Running(a) /\ \E next : Goes(a, next)
        \/ Running(a) /\ Ended(a)
  BY Shapes
<1>4. CASE \E op, w, seen, next : Started(a, op, w, seen, next)
  <2>1. /\ ~Running(a) /\ \A s \in Calls \ {a} : call'[s].op = call[s].op /\ ~call'[s].alone
        /\ call'[a].alone => \A o \in Calls : ~Running(o)
    BY <1>4 DEF Started, Same
  <2>2. ASSUME NEW s \in Calls, NEW t \in Calls, s # t, call'[s].op # "none", call'[t].alone PROVE FALSE
    BY <2>1, <2>2 DEF Running
  <2> QED
    BY <1>1, <1>2, <2>1, <2>2 DEF CalmOK, Calm, Running
<1>5. CASE Running(a) /\ \E next : Goes(a, next)
  <2>1. \A s \in Calls : call'[s].op = call[s].op /\ call'[s].alone = call[s].alone
    BY <1>5 DEF Goes
  <2>2. ASSUME NEW s \in Calls, NEW t \in Calls, s # t, call'[s].op # "none", call'[t].alone PROVE FALSE
    BY <2>1, <2>2 DEF CalmOK, Running
  <2> QED
    BY <1>1, <1>2, <2>1, <2>2 DEF CalmOK, Calm, Running
<1>6. CASE Running(a) /\ Ended(a)
  <2>1. call'[a].op = "none" /\ ~call'[a].alone /\ \A s \in Calls \ {a} : call'[s] = call[s]
    BY <1>6, Constants DEF Ended
  <2>2. ASSUME NEW s \in Calls, NEW t \in Calls, s # t, call'[s].op # "none", call'[t].alone PROVE FALSE
    BY <2>1, <2>2 DEF CalmOK, Running
  <2> QED
    BY <1>1, <1>2, <2>1, <2>2 DEF CalmOK, Calm, Running
<1> QED
  BY <1>3, <1>4, <1>5, <1>6

\* What the step of another call leaves to a call that is calm
Frame(t) ==
  /\ Same(t) /\ ~call'[t].alone /\ call[t].op # "bind"
  /\ \A v \in Wallets :
       /\ lock[v] = t <=> lock'[v] = t
       /\ lock[v] = t => draft'[v] = draft[v] /\ links'[v] = links[v]
       /\ Active(links'[v]) => Active(links[v])

LEMMA FrameGood ==
  ASSUME NEW t \in Calls, Frame(t), Good(t), Running(t), call[t].wallet \in Wallets
  PROVE  Good(t)'
<1>1. \A v \in Wallets : /\ lock[v] = t => View(t, v)' = View(t, v)
                         /\ Active(View(t, v)') => Active(View(t, v))
  BY DEF Frame, View
<1>2. ActiveFor(t)' \subseteq ActiveFor(t)
  BY <1>1 DEF ActiveFor
<1>3. /\ LocksGood(t) /\ DeleteGood(t) /\ MarkGood(t)
      /\ ~call'[t].alone /\ call'[t].op = call[t].op /\ call'[t].next = call[t].next
      /\ call'[t].wallet = call[t].wallet /\ call'[t].target = call[t].target
      /\ call'[t].seen = call[t].seen /\ call'[t].todo = call[t].todo /\ call[t].op # "bind"
  BY DEF Good, Frame, Same
<1>4. Marks(t)' <=> Marks(t)
  BY <1>3 DEF Marks
<1>5. LocksGood(t)'
  BY <1>3, <1>4 DEF LocksGood, Frame
<1>6. DeleteGood(t)'
  BY <1>1, <1>3 DEF DeleteGood, Frame
<1>7. MarkGood(t)'
  <2>1. \A v \in ActiveFor(t)' : v \in Wallets
    BY DEF ActiveFor
  <2> QED
    BY <1>2, <1>3, <1>4, <2>1 DEF MarkGood, Frame
<1> QED
  BY <1>3, <1>5, <1>6, <1>7 DEF Good, BindGood, AloneGood

LEMMA OtherFrame ==
  ASSUME TypeOK, CallsOK, CalmOK, CalmOK', GoodOK, Next, NEW t \in Calls, Running(t), Running(t)', Calm(t)',
         \/ \E s \in Calls \ {t}, w \in Wallets, asked \in {"true", "false", "absent"} :
              BindFind(s, w, asked) \/ BindMissing(s, w, asked) \/ SetPrimary(s, w) \/ Delete(s, w)
         \/ \E s \in Calls \ {t} : Step(s) \/ Abort(s)
  PROVE  Frame(t)
<1>1. overlapped => overlapped'
  BY DEF Next
<1>2. ASSUME NEW s \in Calls \ {t}, Running(s)' \/ Running(s), call'[t].alone => call[t].alone,
             call'[t].op = call[t].op
      PROVE  ~call'[t].alone /\ call[t].op # "bind" /\ ~overlapped
  BY <1>1, <1>2 DEF CalmOK, Calm, Running
<1>3. ASSUME NEW s \in Calls \ {t}, NEW op \in {"bind", "setPrimary", "delete"}, NEW w, NEW seen, NEW next,
             Started(s, op, w, seen, next)
      PROVE  Frame(t)
  <2>1. Same(t) /\ ~call'[t].alone /\ Running(s)' /\ UNCHANGED <<links, draft, lock>>
    BY <1>3 DEF Started, Running
  <2> QED
    BY <1>2, <2>1 DEF Frame, Same
<1>4. ASSUME NEW s \in Calls \ {t}, Running(s), NEW next, Goes(s, next),
             UNCHANGED <<links, draft, lock>> \/ \E w \in Wallets, row \in Link : Writing(s, w, row, next)
      PROVE  Frame(t)
  <2>1. Same(t) /\ call'[t].alone = call[t].alone
    BY <1>4 DEF Goes, Same
  <2>2. ~call'[t].alone /\ call[t].op # "bind"
    BY <1>2, <1>4, <2>1 DEF Same
  <2>3. \A v \in Wallets : /\ lock[v] = t <=> lock'[v] = t
                           /\ lock[v] = t => draft'[v] = draft[v]
    BY <1>4, Constants DEF Writing
  <2> QED
    BY <1>4, <2>1, <2>2, <2>3 DEF Frame, Writing
<1>5. ASSUME NEW s \in Calls \ {t}, Running(s), Ended(s),
             \A v \in Wallets : Active(links'[v]) => Active(links[v]),
             \A v \in Wallets : lock[v] # s => links'[v] = links[v]
      PROVE  Frame(t)
  <2>1. call'[t] = call[t] /\ Same(t)
    BY <1>5 DEF Ended, Same
  <2>2. ~call'[t].alone /\ call[t].op # "bind"
    BY <1>2, <1>5, <2>1
  <2> QED
    BY <1>5, <2>1, <2>2, Constants DEF Frame, Ended
<1>6. ASSUME NEW s \in Calls \ {t}, NEW w \in Wallets, NEW asked \in {"true", "false", "absent"},
             BindFind(s, w, asked) \/ BindMissing(s, w, asked) \/ SetPrimary(s, w) \/ Delete(s, w)
      PROVE  Frame(t)
  BY <1>3, <1>6, Begins
<1>7. ASSUME NEW s \in Calls \ {t}, Create(s) \/ UpdateLink(s) \/ MarkDeleted(s) PROVE Frame(t)
  <2>1. CASE Create(s)
    BY <1>4, <2>1, CreateStep DEF Reading, Writing, Running
  <2>2. CASE UpdateLink(s)
    BY <1>4, <2>2, UpdateStep DEF Writing, Running
  <2>3. CASE MarkDeleted(s)
    BY <1>4, <2>3, DeletedStep DEF Writing, Running
  <2> QED
    BY <1>7, <2>1, <2>2, <2>3
<1>8. ASSUME NEW s \in Calls \ {t}, Promote(s) \/ Clear(s) PROVE Frame(t)
  BY <1>4, <1>8, PromoteStep, ClearStep DEF Reading, Running
<1>9. ASSUME NEW s \in Calls \ {t}, Mark(s) PROVE Frame(t)
  BY <1>4, <1>9, MarkStep DEF Reading, Writing, Running
<1>10. ASSUME NEW s \in Calls \ {t}, NEW w \in Wallets, ClearRow(s, w) PROVE Frame(t)
  BY <1>4, <1>10, RowStep DEF Writing, Running
<1>11. ASSUME NEW s \in Calls \ {t}, Commit(s) PROVE Frame(t)
  <2>1. Ended(s) /\ call[s].next = "commit" /\ \A v \in Wallets : links'[v] = View(s, v)
    BY <1>11, CommitStep
  <2>2. Running(s) /\ call[s].op \in {"bind", "setPrimary", "delete"}
    BY <2>1 DEF CallsOK, CallOK, Running
  <2>3. ~overlapped /\ call[s].op # "bind"
    <3>1. call'[t] = call[t]
      BY <2>1 DEF Ended
    <3> QED
      BY <1>2, <2>2, <3>1 DEF CalmOK
  <2>4. LocksGood(s) /\ DeleteGood(s)
    BY <2>2, <2>3 DEF GoodOK, Calm, Good
  <2>5. ASSUME NEW v \in Wallets, Active(links'[v]) PROVE Active(links[v])
    BY <2>1, <2>2, <2>3, <2>4, <2>5 DEF LocksGood, DeleteGood, View
  <2>6. \A v \in Wallets : lock[v] # s => links'[v] = links[v]
    BY <2>1 DEF View
  <2> QED
    BY <1>5, <2>1, <2>2, <2>5, <2>6
<1>12. ASSUME NEW s \in Calls \ {t}, Abort(s) PROVE Frame(t)
  <2>1. Ended(s) /\ UNCHANGED links
    BY <1>12, EndStep DEF Abort, TypeOK
  <2>2. Wanted(s) # {}
    BY <1>12 DEF Abort, Deadlocked, WaitsFor
  <2>3. Running(s)
    BY <2>2 DEF Wanted, CallsOK, CallOK, Running
  <2> QED
    BY <1>5, <2>1, <2>3
<1> QED
  BY <1>6, <1>7, <1>8, <1>9, <1>10, <1>11, <1>12 DEF Step

-----------------------------------------------------------------------------
\* The own steps of a call
LEMMA GoodBegin ==
  ASSUME TypeOK, NEW t \in Calls, NEW w \in Wallets, NEW asked \in {"true", "false", "absent"},
         BindFind(t, w, asked) \/ BindMissing(t, w, asked) \/ SetPrimary(t, w) \/ Delete(t, w)
  PROVE  Good(t)'
<1>1. PICK op \in {"bind", "setPrimary", "delete"}, seen \in Link, next \in {"update", "create", "clear"} :
        /\ Started(t, op, w, seen, next)
        /\ \/ op = "bind" /\ next = "update" /\ seen = links[w] /\ Exists(links[w])
           \/ op = "bind" /\ next = "create"
           \/ op = "setPrimary" /\ next = "clear" /\ Active(links[w])
           \/ op = "delete" /\ next = "update"
  BY Begins, Constants DEF TypeOK
<1>2. \A v \in Wallets : lock'[v] # t /\ View(t, v)' = links[v]
  BY <1>1, Constants DEF Started, TypeOK, View
<1>3. /\ call'[t].op = op /\ call'[t].next = next /\ call'[t].wallet = w /\ call'[t].seen = seen
  BY <1>1 DEF Started
<1> HIDE DEF View
<1> QED
  BY <1>1, <1>2, <1>3 DEF Good, LocksGood, BindGood, DeleteGood, MarkGood, AloneGood, Marks

LEMMA GoodCreate ==
  ASSUME TypeOK, CallsOK, NEW t \in Calls, Good(t), Create(t)
  PROVE  Good(t)'
<1>1. PICK w \in Wallets :
        /\ call[t].op = "bind" /\ call[t].next = "create" /\ call[t].wallet = w /\ lock[w] = NoCall
        /\ \/ Reading(t, "update") /\ Exists(links[w]) /\ call'[t].seen = links[w]
           \/ \E row \in Link : Writing(t, w, row, "update") /\ Exists(row) /\ call'[t].seen = row
  BY CreateStep
<1>2. /\ call'[t].op = "bind" /\ call'[t].next = "update" /\ call'[t].wallet = w
      /\ call'[t].seen = View(t, w)' /\ Exists(View(t, w)')
      /\ \A v \in Wallets \ {w} : lock'[v] # t
  <2>1. \A v \in Wallets \ {w} : lock[v] # t
    BY <1>1 DEF Good, LocksGood
  <2> QED
    BY <1>1, <2>1, Constants DEF Reading, Writing, Goes, View
<1> HIDE DEF View
<1> QED
  BY <1>2 DEF Good, LocksGood, BindGood, DeleteGood, MarkGood, AloneGood, Marks

LEMMA GoodUpdate ==
  ASSUME TypeOK, CallsOK, NEW t \in Calls, Good(t), UpdateLink(t)
  PROVE  Good(t)'
<1>1. PICK w \in Wallets, row \in Link :
        /\ call[t].op = "bind" /\ call[t].next = "update" /\ call[t].wallet = w
        /\ Writing(t, w, row, IF AskedPrimary(t) THEN "clear" ELSE "commit")
        /\ call'[t].asked = (IF AskedPrimary(t) THEN "true" ELSE "false")
        /\ call[t].seen = View(t, w) /\ Exists(View(t, w)) =>
             Active(row) /\ (row.primary <=> AskedPrimary(t))
  BY UpdateStep
<1>2. Active(row) /\ (row.primary <=> AskedPrimary(t))
  BY <1>1 DEF Good, BindGood
<1>3. /\ call'[t].op = "bind" /\ call'[t].wallet = w /\ View(t, w)' = row
      /\ \A v \in Wallets \ {w} : lock'[v] # t
  <2>1. \A v \in Wallets \ {w} : lock[v] # t
    BY <1>1 DEF Good, LocksGood
  <2> QED
    BY <1>1, <2>1 DEF Writing, Goes
<1>4. \/ AskedPrimary(t) /\ call'[t].next = "clear" /\ call'[t].asked = "true"
      \/ ~AskedPrimary(t) /\ call'[t].next = "commit" /\ call'[t].asked = "false"
  BY <1>1 DEF Writing, Goes
<1> HIDE DEF View
<1> QED
  BY <1>2, <1>3, <1>4 DEF Good, LocksGood, BindGood, DeleteGood, MarkGood, AloneGood, Marks

LEMMA GoodDeleted ==
  ASSUME TypeOK, CallsOK, NEW t \in Calls, Good(t), MarkDeleted(t)
  PROVE  Good(t)'
<1>1. PICK w \in Wallets, row \in Link :
        /\ call[t].op = "delete" /\ call[t].next = "update" /\ call[t].wallet = w /\ Kept(t)
        /\ Writing(t, w, row, IF call[t].seen.primary THEN "promote" ELSE "commit")
        /\ ~Active(row)
  BY DeletedStep
<1>2. /\ call'[t].op = "delete" /\ call'[t].wallet = w /\ View(t, w)' = row /\ lock'[w] = t
      /\ call'[t].seen = call[t].seen
      /\ \A v \in Wallets \ {w} : lock'[v] # t
  <2>1. \A v \in Wallets \ {w} : lock[v] # t
    BY <1>1 DEF Good, LocksGood
  <2> QED
    BY <1>1, <2>1 DEF Writing, Goes, Kept
<1>3. \/ call[t].seen.primary /\ call'[t].next = "promote"
      \/ ~call[t].seen.primary /\ call'[t].next = "commit"
  BY <1>1 DEF Writing, Goes
<1> HIDE DEF View
<1> QED
  BY <1>1, <1>2, <1>3 DEF Good, LocksGood, BindGood, DeleteGood, MarkGood, AloneGood, Marks

\* A statement that only reads leaves what the rows say to the call.
LEMMA ReadGood ==
  ASSUME NEW t \in Calls, NEW next, Reading(t, next)
  PROVE  /\ ActiveFor(t)' = ActiveFor(t) /\ UNCHANGED <<links, draft, lock>>
         /\ \A v \in Wallets : View(t, v)' = View(t, v)
         /\ call'[t].op = call[t].op /\ call'[t].next = next /\ call'[t].wallet = call[t].wallet
         /\ call'[t].alone = call[t].alone
BY DEF Reading, Goes, ActiveFor

LEMMA GoodPromote ==
  ASSUME TypeOK, CallsOK, NEW t \in Calls, Good(t), Promote(t)
  PROVE  Good(t)'
<1>1. /\ call[t].op = "delete" /\ call[t].next = "promote" /\ Kept(t) /\ call[t].wallet \in Wallets
      /\ \/ ActiveFor(t) = {} /\ Reading(t, "commit")
         \/ /\ Reading(t, "clear") /\ call'[t].target \in ActiveFor(t)
            /\ \A v \in ActiveFor(t) : View(t, call'[t].target).created <= View(t, v).created
  BY PromoteStep DEF CallsOK, CallOK
<1>2. /\ ActiveFor(t)' = ActiveFor(t) /\ UNCHANGED <<links, draft, lock>>
      /\ \A v \in Wallets : View(t, v)' = View(t, v)
      /\ call'[t].op = "delete" /\ call'[t].wallet = call[t].wallet /\ call'[t].seen = call[t].seen
      /\ call'[t].next = "commit" \/ call'[t].next = "clear"
      /\ call'[t].next = "commit" => ActiveFor(t) = {}
  BY <1>1, ReadGood DEF Kept
<1>3. call[t].seen.primary /\ LocksGood(t) /\ DeleteGood(t)
  BY <1>1 DEF Good, DeleteGood
<1>4. LocksGood(t)' /\ DeleteGood(t)' /\ BindGood(t)' /\ MarkGood(t)'
  <2> HIDE DEF View, ActiveFor
  <2> QED
    BY <1>1, <1>2, <1>3 DEF LocksGood, DeleteGood, BindGood, MarkGood, Marks
<1>5. call'[t].next = "clear" => Oldest(t)'
  <2>1. \A v \in ActiveFor(t) : v \in Wallets
    BY DEF ActiveFor
  <2> HIDE DEF View, ActiveFor
  <2> QED
    BY <1>1, <1>2, <2>1, ReadGood DEF Oldest
<1> HIDE DEF View, ActiveFor
<1> QED
  BY <1>2, <1>4, <1>5 DEF Good, AloneGood

LEMMA GoodClear ==
  ASSUME TypeOK, CallsOK, NEW t \in Calls, Good(t), Clear(t)
  PROVE  Good(t)'
<1>1. /\ Reading(t, IF ActiveFor(t) = {} THEN "mark" ELSE "clearing") /\ Kept(t)
      /\ call[t].next = "clear" /\ call[t].wallet \in Wallets
      /\ call'[t].target = call[t].target /\ call'[t].todo = ActiveFor(t)
  BY ClearStep DEF CallsOK, CallOK
<1>2. /\ ActiveFor(t)' = ActiveFor(t) /\ UNCHANGED <<links, draft, lock>>
      /\ \A v \in Wallets : View(t, v)' = View(t, v)
      /\ call'[t].op = call[t].op /\ call'[t].wallet = call[t].wallet /\ call'[t].alone = call[t].alone
      /\ call'[t].next = (IF ActiveFor(t) = {} THEN "mark" ELSE "clearing")
      /\ call'[t].seen = call[t].seen /\ call'[t].asked = call[t].asked
  BY <1>1, ReadGood DEF Kept
<1>3. \A v \in ActiveFor(t) : v \in Wallets
  BY DEF ActiveFor
<1> HIDE DEF View, ActiveFor
<1>4. LocksGood(t)' /\ DeleteGood(t)'
  BY <1>1, <1>2 DEF Good, LocksGood, DeleteGood, Marks
<1>5. BindGood(t)'
  BY <1>1, <1>2 DEF Good, BindGood
<1>6. MarkGood(t)'
  BY <1>1, <1>2 DEF MarkGood
<1>7. Oldest(t) => Oldest(t)'
  BY <1>1, <1>2, <1>3 DEF Oldest
<1>8. AloneGood(t)'
  BY <1>1, <1>2, <1>7 DEF Good, AloneGood
<1> QED
  BY <1>4, <1>5, <1>6, <1>8 DEF Good

\* A statement of markPrimaryWallet that writes a row
LEMMA MarkingGood ==
  ASSUME TypeOK, CallsOK, NEW t \in Calls, Good(t), NEW w \in Wallets, NEW row \in Link,
         NEW next \in {"mark", "clearing", "commit"}, Writing(t, w, row, next), Kept(t),
         call'[t].target = call[t].target, call[t].next \in {"clearing", "mark"},
         Active(row) <=> Active(View(t, w)), row.created = View(t, w).created
  PROVE  /\ ActiveFor(t)' = ActiveFor(t) /\ Marks(t) /\ Marks(t)'
         /\ LocksGood(t)' /\ BindGood(t)' /\ DeleteGood(t)' /\ AloneGood(t)'
<1>1. /\ call'[t].op = call[t].op /\ call'[t].next = next /\ call'[t].wallet = call[t].wallet
      /\ call'[t].seen = call[t].seen /\ call'[t].asked = call[t].asked /\ call'[t].alone = call[t].alone
      /\ call[t].wallet \in Wallets /\ call[t].op \in {"bind", "setPrimary", "delete"}
      /\ call[t].asked \in {"true", "false", "absent"}
  BY DEF Writing, Goes, Kept, CallsOK, CallOK, TypeOK, Call
<1>2. /\ UNCHANGED links /\ lock'[w] = t /\ draft'[w] = row /\ View(t, w)' = row
      /\ \A v \in Wallets \ {w} : lock'[v] = lock[v] /\ draft'[v] = draft[v] /\ View(t, v)' = View(t, v)
  BY DEF Writing
<1>3. \A v \in Wallets : /\ Active(View(t, v)') <=> Active(View(t, v))
                         /\ View(t, v)'.created = View(t, v).created
  BY <1>2
<1>4. ActiveFor(t)' = ActiveFor(t) /\ \A v \in ActiveFor(t) : v \in Wallets
  BY <1>3 DEF ActiveFor
<1>5. Marks(t) /\ Marks(t)'
  BY <1>1 DEF Good, BindGood, DeleteGood, Marks
<1>6. LocksGood(t)'
  <2>1. ASSUME NEW v \in Wallets, lock'[v] = t, v # call[t].wallet \/ call[t].op = "setPrimary"
        PROVE  Active(draft'[v]) <=> Active(links'[v])
    BY <1>1, <1>2, <2>1 DEF Good, LocksGood, View
  <2> QED
    BY <1>1, <1>5, <2>1 DEF LocksGood
<1> HIDE DEF View, ActiveFor
<1>7. BindGood(t)'
  BY <1>1, <1>3 DEF Good, BindGood
<1>8. DeleteGood(t)'
  BY <1>1, <1>2, <1>3 DEF Good, DeleteGood
<1>9. Oldest(t) => Oldest(t)'
  BY <1>3, <1>4 DEF Oldest
<1>10. AloneGood(t)'
  BY <1>1, <1>3, <1>9 DEF Good, AloneGood
<1> QED
  BY <1>4, <1>5, <1>6, <1>7, <1>8, <1>10

LEMMA GoodRow ==
  ASSUME TypeOK, CallsOK, NEW t \in Calls, Good(t), NEW w \in Wallets, ClearRow(t, w)
  PROVE  Good(t)'
<1>1. PICK next \in {"mark", "clearing"}, row \in Link :
        /\ Writing(t, w, row, next) /\ Kept(t) /\ next = (IF call[t].todo = {w} THEN "mark" ELSE "clearing")
        /\ call[t].next = "clearing" /\ call'[t].target = call[t].target /\ call'[t].todo = call[t].todo \ {w}
        /\ (Active(row) <=> Active(View(t, w))) /\ row.created = View(t, w).created
        /\ Active(row) => ~row.primary
  BY RowStep
<1>2. /\ ActiveFor(t)' = ActiveFor(t)
      /\ LocksGood(t)' /\ BindGood(t)' /\ DeleteGood(t)' /\ AloneGood(t)'
  BY <1>1, MarkingGood
<1>3. \A v \in ActiveFor(t) : v \in Wallets /\ Active(View(t, v))
  BY DEF ActiveFor
<1>4. /\ lock'[w] = t /\ draft'[w] = row /\ call'[t].next = next
      /\ \A v \in Wallets \ {w} : lock'[v] = lock[v] /\ draft'[v] = draft[v]
  BY <1>1 DEF Writing, Goes
<1> HIDE DEF View, ActiveFor
<1>5. MarkGood(t)'
  BY <1>1, <1>2, <1>3, <1>4 DEF Good, MarkGood
<1> QED
  BY <1>2, <1>5 DEF Good

LEMMA GoodMark ==
  ASSUME TypeOK, CallsOK, NEW t \in Calls, Good(t), Mark(t)
  PROVE  Good(t)'
<1>1. PICK w \in Wallets :
        /\ call[t].op # "none" /\ call[t].next = "mark" /\ call[t].target = w
        /\ Kept(t) /\ call'[t].target = w
        /\ \/ ~Active(View(t, w)) /\ Reading(t, "commit")
           \/ \E row \in Link :
                /\ Active(View(t, w)) /\ Writing(t, w, row, "commit")
                /\ Active(row) /\ row.created = View(t, w).created /\ row.primary
  BY MarkStep
<1>2. \A v \in ActiveFor(t) : v \in Wallets /\ Active(View(t, v)) /\ lock[v] = t /\ ~draft[v].primary
  BY <1>1 DEF Good, MarkGood, ActiveFor
<1>3. ASSUME NEW row \in Link, Active(View(t, w)), Writing(t, w, row, "commit"), Active(row),
             row.created = View(t, w).created, row.primary
      PROVE  Good(t)'
  <2>1. /\ ActiveFor(t)' = ActiveFor(t)
        /\ LocksGood(t)' /\ BindGood(t)' /\ DeleteGood(t)' /\ AloneGood(t)'
    BY <1>1, <1>3, MarkingGood
  <2>2. /\ lock'[w] = t /\ draft'[w] = row /\ call'[t].next = "commit"
        /\ \A v \in Wallets \ {w} : lock'[v] = lock[v] /\ draft'[v] = draft[v]
    BY <1>3 DEF Writing, Goes
  <2> HIDE DEF View, ActiveFor
  <2>3. MarkGood(t)'
    BY <1>1, <1>2, <1>3, <2>1, <2>2 DEF MarkGood
  <2> QED
    BY <2>1, <2>3 DEF Good
<1>4. CASE ~Active(View(t, w)) /\ Reading(t, "commit")
  <2>1. /\ ActiveFor(t)' = ActiveFor(t) /\ UNCHANGED <<links, draft, lock>>
        /\ \A v \in Wallets : View(t, v)' = View(t, v)
        /\ call'[t].op = call[t].op /\ call'[t].wallet = call[t].wallet /\ call'[t].alone = call[t].alone
        /\ call'[t].next = "commit" /\ call'[t].seen = call[t].seen /\ call'[t].asked = call[t].asked
        /\ call[t].wallet \in Wallets /\ call[t].op \in {"bind", "setPrimary", "delete"}
        /\ call[t].asked \in {"true", "false", "absent"}
    BY <1>1, <1>4, ReadGood DEF Kept, CallsOK, CallOK, TypeOK, Call
  <2> HIDE DEF View, ActiveFor
  <2>2. Marks(t) /\ Marks(t)'
    BY <1>1, <2>1 DEF Good, BindGood, DeleteGood, Marks
  <2>3. LocksGood(t)'
    BY <2>1, <2>2 DEF Good, LocksGood
  <2>4. BindGood(t)'
    BY <1>1, <2>1 DEF Good, BindGood
  <2>5. DeleteGood(t)'
    BY <1>1, <2>1 DEF Good, DeleteGood
  <2>6. MarkGood(t)'
    BY <1>1, <1>2, <1>4, <2>1 DEF MarkGood
  <2>7. Oldest(t) => Oldest(t)'
    BY <1>1, <1>2, <2>1 DEF Oldest
  <2>8. AloneGood(t)'
    BY <1>1, <2>1, <2>7 DEF Good, AloneGood
  <2> QED
    BY <2>3, <2>4, <2>5, <2>6, <2>8 DEF Good
<1> QED
  BY <1>1, <1>3, <1>4

LEMMA OthersGo ==
  ASSUME TypeOK, CallsOK, NEW t \in Calls, NEW s \in Calls \ {t},
         \/ \E w \in Wallets, asked \in {"true", "false", "absent"} :
              BindFind(s, w, asked) \/ BindMissing(s, w, asked) \/ SetPrimary(s, w) \/ Delete(s, w)
         \/ Step(s) \/ Abort(s)
  PROVE  call'[t].op = call[t].op
<1>1. ASSUME NEW w \in Wallets, NEW asked \in {"true", "false", "absent"},
             BindFind(s, w, asked) \/ BindMissing(s, w, asked) \/ SetPrimary(s, w) \/ Delete(s, w)
      PROVE  call'[t].op = call[t].op
  BY <1>1, Begins DEF Started, Same
<1>2. ASSUME Create(s) \/ UpdateLink(s) \/ MarkDeleted(s) \/ Promote(s) \/ Clear(s) \/ Mark(s)
      PROVE  call'[t].op = call[t].op
  BY <1>2, CreateStep, UpdateStep, DeletedStep, PromoteStep, ClearStep, MarkStep DEF Reading, Writing, Goes
<1>3. ASSUME NEW w \in Wallets, ClearRow(s, w) PROVE call'[t].op = call[t].op
  BY <1>3, RowStep DEF Writing, Goes
<1>4. ASSUME Commit(s) \/ Abort(s) PROVE call'[t].op = call[t].op
  BY <1>4, CommitStep, EndStep DEF Abort, TypeOK, Ended
<1> QED
  BY <1>1, <1>2, <1>3, <1>4 DEF Step

LEMMA GoodStep ==
  ASSUME TypeOK, CallsOK, CalmOK, GoodOK, Next
  PROVE  GoodOK'
<1> SUFFICES ASSUME NEW t \in Calls, Running(t)', Calm(t)' PROVE Good(t)'
  BY DEF GoodOK
<1>1. CalmOK' /\ (Running(t) => Calm(t) /\ Good(t))
  BY CalmStep DEF GoodOK
<1>2. ASSUME NEW w \in Wallets, NEW asked \in {"true", "false", "absent"},
             BindFind(t, w, asked) \/ BindMissing(t, w, asked) \/ SetPrimary(t, w) \/ Delete(t, w)
      PROVE  Good(t)'
  BY <1>2, GoodBegin
<1>3. ASSUME Create(t) \/ UpdateLink(t) \/ MarkDeleted(t) \/ Promote(t) \/ Clear(t) \/ Mark(t)
      PROVE  Good(t)'
  <2>1. Running(t)
    BY <1>3, CreateStep, UpdateStep, DeletedStep, PromoteStep, ClearStep, MarkStep DEF Running
  <2> QED
    BY <1>1, <1>3, <2>1, GoodCreate, GoodUpdate, GoodDeleted, GoodPromote, GoodClear, GoodMark
<1>4. ASSUME NEW w \in Wallets, ClearRow(t, w) PROVE Good(t)'
  <2>1. Running(t)
    BY <1>4, RowStep DEF Running
  <2> QED
    BY <1>1, <1>4, <2>1, GoodRow
<1>5. ASSUME Commit(t) \/ Abort(t) PROVE FALSE
  <2>1. Ended(t)
    BY <1>5, CommitStep, EndStep DEF Abort, TypeOK
  <2> QED
    BY <2>1, Constants DEF Ended, Running
<1>6. ASSUME NEW s \in Calls \ {t},
             \/ \E w \in Wallets, asked \in {"true", "false", "absent"} :
                  BindFind(s, w, asked) \/ BindMissing(s, w, asked) \/ SetPrimary(s, w) \/ Delete(s, w)
             \/ Step(s) \/ Abort(s)
      PROVE  Good(t)'
  <2>1. Running(t)
    BY <1>6, OthersGo DEF Running
  <2>2. Frame(t)
    BY <1>1, <1>6, <2>1, OtherFrame
  <2>3. call[t].wallet \in Wallets
    BY <2>1 DEF CallsOK, CallOK, Running
  <2> QED
    BY <1>1, <2>1, <2>2, <2>3, FrameGood
<1> QED
  BY <1>2, <1>3, <1>4, <1>5, <1>6 DEF Next, Step

-----------------------------------------------------------------------------
IInv == TypeOK /\ CallsOK /\ CalmOK /\ GoodOK

LEMMA InvInit == Init => IInv
<1> SUFFICES ASSUME Init PROVE IInv
  OBVIOUS
<1>1. \A t \in Calls : call[t] = Idle
  BY DEF Init
<1>2. TypeOK
  BY Constants DEF Init, TypeOK
<1>3. CallsOK /\ CalmOK /\ GoodOK
  BY <1>1, Constants DEF CallsOK, CallOK, CalmOK, GoodOK, Running
<1> QED
  BY <1>2, <1>3 DEF IInv

LEMMA InvStep == IInv /\ [Next]_vars => IInv'
<1> SUFFICES ASSUME IInv, [Next]_vars PROVE IInv'
  OBVIOUS
<1>1. CASE Next
  BY <1>1, TypeStep, CalmStep, GoodStep DEF IInv
<1>2. CASE UNCHANGED vars
  BY <1>2 DEF vars, IInv, TypeOK, CallsOK, CalmOK, GoodOK, Running, Calm, Good, LocksGood, BindGood,
     DeleteGood, MarkGood, AloneGood, Marks, Oldest, ActiveFor, View
<1> QED
  BY <1>1, <1>2

\* The types of the variables, the locks and the uncommitted versions, in
\* every reachable state.
THEOREM TypeCorrect == Spec => []TypeOK
<1>1. IInv => TypeOK
  BY DEF IInv
<1> QED
  BY <1>1, InvInit, InvStep, PTL DEF Spec

\* What the commit of a calm call leaves
ActiveLinks == {w \in Wallets : Active(links[w])}

LEMMA CommitEffect ==
  ASSUME IInv, NEW t \in Calls, Commit(t), Calm(t)
  PROVE  \E w \in Wallets :
           /\ call[t].wallet = w /\ ActiveLinks' = ActiveFor(t) /\ Primaries' \subseteq ActiveFor(t)
           /\ Marks(t) => Primaries' = {call[t].target} \cap ActiveFor(t)
           /\ \/ /\ call[t].op = "setPrimary" /\ call[t].target = w
                 /\ ActiveFor(t) = ActiveLinks
              \/ /\ call[t].op = "bind" /\ call[t].target = w /\ w \in ActiveFor(t) /\ call[t].asked # "absent"
                 /\ ActiveFor(t) = ActiveLinks \cup {w}
                 /\ ~Marks(t) => Primaries' = Primaries \ {w}
              \/ /\ call[t].op = "delete"
                 /\ ActiveFor(t) = ActiveLinks \ {w}
                 /\ ~Marks(t) => Primaries' = Primaries \ {w}
<1> USE DEF IInv
<1>1. /\ call[t].next = "commit" /\ \A v \in Wallets : links'[v] = View(t, v)
      /\ call[t].wallet \in Wallets /\ call[t].target \in Wallets
      /\ call[t].op # "delete" => call[t].target = call[t].wallet
      /\ call[t].op \in {"bind", "setPrimary", "delete"}
  BY CommitStep DEF CallsOK, CallOK
<1>2. PICK w \in Wallets : call[t].wallet = w
  BY <1>1
<1>3. Good(t) /\ call[t].asked \in {"true", "false", "absent"}
  BY <1>1 DEF GoodOK, Running, TypeOK, Call
<1>4. ActiveLinks' = ActiveFor(t)
  BY <1>1 DEF ActiveLinks, ActiveFor
<1>5. Primaries' = {v \in ActiveFor(t) : View(t, v).primary}
  BY <1>1 DEF Primaries, ActiveFor
<1>6. ASSUME Marks(t) PROVE Primaries' = {call[t].target} \cap ActiveFor(t)
  <2>1. \A v \in ActiveFor(t) : lock[v] = t /\ (draft[v].primary <=> v = call[t].target)
    BY <1>1, <1>3, <1>6 DEF Good, MarkGood
  <2>2. \A v \in ActiveFor(t) : View(t, v).primary <=> v = call[t].target
    BY <2>1 DEF View
  <2> QED
    BY <1>5, <2>2
<1>7. \A v \in Wallets : v # w \/ call[t].op = "setPrimary" => (Active(View(t, v)) <=> Active(links[v]))
  BY <1>2, <1>3 DEF Good, LocksGood, View
<1>8. ~Marks(t) => \A v \in Wallets \ {w} : View(t, v) = links[v]
  BY <1>1, <1>2, <1>3 DEF Good, LocksGood, View
<1>9. CASE call[t].op = "setPrimary"
  <2>1. ActiveFor(t) = ActiveLinks
    BY <1>7, <1>9 DEF ActiveFor, ActiveLinks
  <2> QED
    BY <1>1, <1>2, <1>4, <1>5, <1>6, <1>9, <2>1
<1>10. CASE call[t].op = "bind"
  <2>1. /\ Active(View(t, w)) /\ call[t].asked # "absent"
        /\ ~Marks(t) => ~View(t, w).primary
    BY <1>1, <1>2, <1>3, <1>10 DEF Good, BindGood, Marks
  <2>2. w \in ActiveFor(t) /\ ActiveFor(t) = ActiveLinks \cup {w}
    BY <1>7, <2>1 DEF ActiveFor, ActiveLinks
  <2>3. ASSUME ~Marks(t) PROVE Primaries' = Primaries \ {w}
    <3>1. \A v \in Wallets \ {w} : View(t, v) = links[v]
      BY <1>8, <2>3
    <3>2. ~View(t, w).primary
      BY <2>1, <2>3
    <3> QED
      BY <1>5, <3>1, <3>2 DEF Primaries, ActiveFor
  <2> QED
    BY <1>1, <1>2, <1>4, <1>5, <1>6, <1>10, <2>1, <2>2, <2>3
<1>11. CASE call[t].op = "delete"
  <2>1. ~Active(View(t, w))
    BY <1>1, <1>2, <1>3, <1>11 DEF Good, DeleteGood
  <2>2. ActiveFor(t) = ActiveLinks \ {w}
    BY <1>7, <2>1 DEF ActiveFor, ActiveLinks
  <2>3. ASSUME ~Marks(t) PROVE Primaries' = Primaries \ {w}
    <3>1. \A v \in Wallets \ {w} : View(t, v) = links[v]
      BY <1>8, <2>3
    <3> QED
      BY <1>5, <2>1, <3>1 DEF Primaries, ActiveFor
  <2> QED
    BY <1>1, <1>2, <1>4, <1>5, <1>6, <1>11, <2>2, <2>3
<1> QED
  BY <1>1, <1>9, <1>10, <1>11

\* Only a commit writes committed rows.
LEMMA LinksStep ==
  ASSUME TypeOK, CallsOK, Next
  PROVE  UNCHANGED links \/ \E t \in Calls : Commit(t)
<1>1. ASSUME NEW t \in Calls, NEW w \in Wallets, NEW asked \in {"true", "false", "absent"},
             BindFind(t, w, asked) \/ BindMissing(t, w, asked) \/ SetPrimary(t, w) \/ Delete(t, w)
      PROVE  UNCHANGED links
  BY <1>1, Begins DEF Started
<1>2. ASSUME NEW t \in Calls, Create(t) \/ UpdateLink(t) \/ MarkDeleted(t) \/ Promote(t) \/ Clear(t) \/ Mark(t)
      PROVE  UNCHANGED links
  BY <1>2, CreateStep, UpdateStep, DeletedStep, PromoteStep, ClearStep, MarkStep DEF Reading, Writing
<1>3. ASSUME NEW t \in Calls, NEW w \in Wallets, ClearRow(t, w) PROVE UNCHANGED links
  BY <1>3, RowStep DEF Writing
<1>4. ASSUME NEW t \in Calls, Abort(t) PROVE UNCHANGED links
  BY <1>4 DEF Abort
<1> QED
  BY <1>1, <1>2, <1>3, <1>4 DEF Next, Step

LEMMA CommitRefines ==
  ASSUME IInv, Next, NEW t \in Calls, Commit(t), ~overlapped
  PROVE  Abstract!Next
<1>1. PICK w \in Wallets :
        /\ call[t].wallet = w /\ ActiveLinks' = ActiveFor(t) /\ Primaries' \subseteq ActiveFor(t)
        /\ Marks(t) => Primaries' = {call[t].target} \cap ActiveFor(t)
        /\ \/ /\ call[t].op = "setPrimary" /\ call[t].target = w
              /\ ActiveFor(t) = ActiveLinks
           \/ /\ call[t].op = "bind" /\ call[t].target = w /\ w \in ActiveFor(t) /\ call[t].asked # "absent"
              /\ ActiveFor(t) = ActiveLinks \cup {w}
              /\ ~Marks(t) => Primaries' = Primaries \ {w}
           \/ /\ call[t].op = "delete"
              /\ ActiveFor(t) = ActiveLinks \ {w}
              /\ ~Marks(t) => Primaries' = Primaries \ {w}
  BY CommitEffect DEF Calm
<1>2. ~overlapped'
  <2>1. Ended(t)
    BY CommitStep DEF IInv
  <2>2. ~BindOverlaps'
    BY <2>1, Constants DEF Ended, BindOverlaps, Running, IInv, CalmOK
  <2> QED
    BY <2>2 DEF Next
<1>3. Abstract!Bind(w) \/ Abstract!Switch(w) \/ Abstract!Remove(w)
  <2>1. CASE call[t].op = "setPrimary"
    <3>1. Marks(t)
      BY <2>1 DEF Marks
    <3> QED
      BY <1>1, <2>1, <3>1 DEF Abstract!Switch, ActiveLinks
  <2>2. CASE call[t].op = "bind"
    BY <1>1, <2>2 DEF Abstract!Bind, ActiveLinks
  <2>3. CASE call[t].op = "delete"
    <3>1. Primaries' \in {Primaries \ {w}, {}} \cup {{v} : v \in ActiveLinks'}
      BY <1>1, <2>3
    <3> QED
      BY <1>1, <2>3, <3>1 DEF Abstract!Remove, ActiveLinks
  <2> QED
    BY <1>1, <2>1, <2>2, <2>3
<1>4. overlapped = FALSE /\ overlapped' = FALSE
  <2>1. overlapped \in BOOLEAN
    BY DEF IInv, TypeOK
  <2>2. overlapped' \in BOOLEAN
    BY <2>1 DEF Next, BindOverlaps
  <2> QED
    BY <1>2, <2>1, <2>2
<1>5. ~overlapped /\ UNCHANGED overlapped
  BY <1>4
<1> QED
  BY <1>3, <1>5 DEF Abstract!Next

LEMMA StepRefines ==
  ASSUME IInv, [Next]_vars
  PROVE  [Abstract!Next]_(Abstract!vars)
<1>1. CASE UNCHANGED vars
  BY <1>1 DEF vars, Abstract!vars, Primaries
<1>2. CASE Next /\ ~overlapped /\ \E t \in Calls : Commit(t)
  BY <1>2, CommitRefines
<1>3. CASE Next /\ ~overlapped /\ UNCHANGED links
  <2>1. UNCHANGED <<ActiveLinks, Primaries>>
    BY <1>3 DEF ActiveLinks, Primaries
  <2>2. overlapped' = TRUE \/ overlapped' = overlapped
    BY <1>3 DEF Next, IInv, TypeOK, BindOverlaps
  <2> QED
    BY <2>1, <2>2 DEF ActiveLinks, Abstract!vars, Abstract!Next, Abstract!Disturb
<1>4. CASE Next /\ overlapped
  <2>1. overlapped' = overlapped
    BY <1>4 DEF Next, IInv, TypeOK, BindOverlaps
  <2> QED
    BY <1>4, <2>1 DEF Abstract!Next
<1> QED
  BY <1>1, <1>2, <1>3, <1>4, LinksStep DEF IInv

\* bindWallet, setPrimaryWallet and deleteWallet implement the promise of
\* PrimaryWallet: every call takes effect at its commit, as one step.
THEOREM RefinementTheorem == Spec => ImplementsPrimaryWallet
<1>1. Init => Abstract!Init
  <2> SUFFICES ASSUME Init PROVE Abstract!Init
    OBVIOUS
  <2>1. \A w \in Wallets : ~Active(links[w])
    BY Constants DEF Init
  <2> QED
    BY <2>1 DEF Init, Abstract!Init, Primaries
<1>2. IInv /\ [Next]_vars => [Abstract!Next]_(Abstract!vars)
  BY StepRefines
<1> QED
  BY <1>1, <1>2, InvInit, InvStep, PTL DEF Spec, ImplementsPrimaryWallet, Abstract!Spec

LEMMA AbstractOnePrimary == Abstract!Spec => []Abstract!AtMostOnePrimary
<1> DEFINE A == ActiveLinks
<1>1. Abstract!Init => Abstract!AtMostOnePrimary
  BY DEF Abstract!Init, Abstract!AtMostOnePrimary
<1>2. Abstract!AtMostOnePrimary /\ [Abstract!Next]_(Abstract!vars) => Abstract!AtMostOnePrimary'
  <2> SUFFICES ASSUME Abstract!AtMostOnePrimary, [Abstract!Next]_(Abstract!vars)
               PROVE  Abstract!AtMostOnePrimary'
    OBVIOUS
  <2>0. ~overlapped => Primaries \subseteq A /\ \A v, w \in Primaries : v = w
    BY DEF Abstract!AtMostOnePrimary, ActiveLinks
  <2>1. ASSUME ~overlapped, UNCHANGED overlapped, NEW w \in Wallets, Abstract!Bind(w)
        PROVE  Primaries' \subseteq A' /\ \A u, v \in Primaries' : u = v
    <3>1. A' = A \cup {w} /\ Primaries' \in {Primaries, {w}, Primaries \ {w}}
      BY <2>1 DEF Abstract!Bind, ActiveLinks
    <3> HIDE DEF A
    <3> QED
      BY <2>0, <2>1, <3>1
  <2>2. ASSUME ~overlapped, UNCHANGED overlapped, NEW w \in Wallets, Abstract!Switch(w)
        PROVE  Primaries' \subseteq A' /\ \A u, v \in Primaries' : u = v
    <3>1. A' = A /\ Primaries' \in {{w} \cap A, {}}
      BY <2>2 DEF Abstract!Switch, ActiveLinks
    <3> HIDE DEF A
    <3> QED
      BY <2>0, <2>2, <3>1
  <2>3. ASSUME ~overlapped, UNCHANGED overlapped, NEW w \in Wallets, Abstract!Remove(w)
        PROVE  Primaries' \subseteq A' /\ \A u, v \in Primaries' : u = v
    <3>1. A' = A \ {w} /\ Primaries' \in {Primaries \ {w}, {}} \cup {{v} : v \in A'}
      BY <2>3 DEF Abstract!Remove, ActiveLinks
    <3> HIDE DEF A
    <3> QED
      BY <2>0, <2>3, <3>1
  <2>4. ASSUME Abstract!Disturb \/ (overlapped /\ UNCHANGED overlapped) PROVE overlapped'
    BY <2>4 DEF Abstract!Disturb
  <2>5. ASSUME UNCHANGED Abstract!vars PROVE UNCHANGED <<A, Primaries, overlapped>>
    BY <2>5 DEF Abstract!vars, ActiveLinks
  <2>6. ~overlapped' => Primaries' \subseteq A' /\ \A u, v \in Primaries' : u = v
    <3> HIDE DEF A
    <3> QED
      BY <2>0, <2>1, <2>2, <2>3, <2>4, <2>5 DEF Abstract!Next
  <2> QED
    BY <2>6 DEF Abstract!AtMostOnePrimary, ActiveLinks
<1> QED
  BY <1>1, <1>2, PTL DEF Abstract!Spec

\* At most one wallet link of the user is active and primary, until a bind
\* overlaps another call (markPrimaryWallet).
THEOREM OnePrimaryTheorem == Spec => []Abstract!AtMostOnePrimary
BY RefinementTheorem, AbstractOnePrimary, PTL DEF ImplementsPrimaryWallet

-----------------------------------------------------------------------------
LEMMA LoneIsCommit ==
  ASSUME IInv, Next, NEW t \in Calls, call[t].next = "commit", call'[t].op = "none"
  PROVE  Commit(t)
<1> USE DEF IInv
<1>1. call[t].op # "none"
  BY DEF CallsOK, CallOK
<1>2. ASSUME NEW s \in Calls \ {t},
             \/ \E w \in Wallets, asked \in {"true", "false", "absent"} :
                  BindFind(s, w, asked) \/ BindMissing(s, w, asked) \/ SetPrimary(s, w) \/ Delete(s, w)
             \/ Step(s) \/ Abort(s)
      PROVE  FALSE
  BY <1>1, <1>2, OthersGo
<1>3. ASSUME NEW w \in Wallets, NEW asked \in {"true", "false", "absent"},
             BindFind(t, w, asked) \/ BindMissing(t, w, asked) \/ SetPrimary(t, w) \/ Delete(t, w)
      PROVE  FALSE
  BY <1>1, <1>3, Begins DEF Started, Running
<1>4. ASSUME Create(t) \/ UpdateLink(t) \/ MarkDeleted(t) \/ Promote(t) \/ Clear(t) \/ Mark(t)
      PROVE  FALSE
  BY <1>4 DEF Create, UpdateLink, MarkDeleted, Promote, Clear, Mark
<1>5. ASSUME NEW w \in Wallets, ClearRow(t, w) PROVE FALSE
  BY <1>5 DEF ClearRow
<1>6. ASSUME Abort(t) PROVE FALSE
  <2>1. Wanted(t) = {}
    BY DEF Wanted
  <2>2. WaitsFor(t) = {}
    BY <2>1 DEF WaitsFor
  <2> QED
    BY <1>6, <2>2 DEF Abort, Deadlocked
<1> QED
  BY <1>2, <1>3, <1>4, <1>5, <1>6 DEF Next, Step

LEMMA LoneCommit ==
  ASSUME IInv, NEW t \in Calls, Commit(t), call[t].alone
  PROVE  CASE call[t].op = "setPrimary" -> Primaries' = {call[t].wallet}
           [] call[t].op = "bind" /\ AskedPrimary(t) -> Primaries' = {call[t].wallet}
           [] call[t].op = "delete" /\ call[t].seen.primary ->
                /\ Cardinality(Primaries') <= 1
                /\ \A v \in Wallets : Active(links'[v]) =>
                     \E w \in Primaries' : links'[w].created <= links'[v].created
           [] OTHER -> TRUE
<1>1. PICK w \in Wallets :
        /\ call[t].wallet = w /\ ActiveLinks' = ActiveFor(t)
        /\ Marks(t) => Primaries' = {call[t].target} \cap ActiveFor(t)
        /\ call[t].op = "setPrimary" => call[t].target = w
        /\ call[t].op = "bind" => call[t].target = w /\ w \in ActiveFor(t) /\ call[t].asked # "absent"
  BY CommitEffect DEF Calm
<1>2. /\ call[t].next = "commit" /\ Running(t) /\ call[t].asked \in {"true", "false", "absent"}
      /\ \A v \in Wallets : links'[v] = View(t, v)
  BY CommitStep DEF IInv, CallsOK, CallOK, Running, TypeOK, Call
<1>3. AloneGood(t)
  BY <1>2 DEF IInv, GoodOK, Calm, Good
<1>4. ASSUME call[t].op = "setPrimary" PROVE Primaries' = {w}
  <2>1. Marks(t) /\ w \in ActiveFor(t)
    BY <1>1, <1>3, <1>4 DEF Marks, AloneGood, ActiveFor
  <2> QED
    BY <1>1, <1>4, <2>1
<1>5. ASSUME call[t].op = "bind", AskedPrimary(t) PROVE Primaries' = {w}
  <2>1. Marks(t)
    BY <1>1, <1>2, <1>5 DEF Marks, AskedPrimary
  <2> QED
    BY <1>1, <1>5, <2>1
<1>6. ASSUME call[t].op = "delete", call[t].seen.primary
      PROVE  /\ Cardinality(Primaries') <= 1
             /\ \A v \in Wallets : Active(links'[v]) =>
                  \E u \in Primaries' : links'[u].created <= links'[v].created
  <2>1. Marks(t)
    BY <1>6 DEF Marks
  <2>2. Primaries' = {call[t].target} \cap ActiveFor(t)
    BY <1>1, <2>1
  <2>3. Primaries' = {} \/ Primaries' = {call[t].target}
    BY <2>2
  <2>4. Cardinality(Primaries') <= 1
    <3>1. PICK u : u = call[t].target
      OBVIOUS
    <3>2. Cardinality({}) = 0 /\ Cardinality({u}) = 1
      BY FS_EmptySet, FS_Singleton
    <3>3. Primaries' = {} \/ Primaries' = {u}
      BY <2>3, <3>1
    <3>4. Cardinality(Primaries') \in {0, 1}
      BY <3>2, <3>3
    <3> QED
      BY <3>4
  <2>5. ASSUME NEW v \in Wallets, Active(links'[v])
        PROVE  \E u \in Primaries' : links'[u].created <= links'[v].created
    <3>1. v \in ActiveFor(t)
      BY <1>2, <2>5 DEF ActiveFor
    <3>2. Oldest(t)
      BY <1>2, <1>3, <1>6, <2>1, <3>1 DEF AloneGood
    <3>3. call[t].target \in ActiveFor(t) /\ View(t, call[t].target).created <= View(t, v).created
      BY <3>1, <3>2 DEF Oldest
    <3>4. call[t].target \in Wallets
      BY <3>3 DEF ActiveFor
    <3> QED
      BY <1>2, <2>2, <3>3, <3>4
  <2> QED
    BY <2>4, <2>5
<1> QED
  BY <1>1, <1>4, <1>5, <1>6

\* A switch, a primary bind or the deletion of a primary wallet that no other
\* call overlaps leaves exactly the primary wallet it should, whatever races
\* before it have left behind.
THEOREM LoneCallTheorem == Spec => LoneCallRepairsPrimary
<1> DEFINE A == \A t \in Calls :
       call[t].next = "commit" /\ call[t].alone /\ call'[t].op = "none" =>
         CASE call[t].op = "setPrimary" -> Primaries' = {call[t].wallet}
           [] call[t].op = "bind" /\ AskedPrimary(t) -> Primaries' = {call[t].wallet}
           [] call[t].op = "delete" /\ call[t].seen.primary ->
                /\ Cardinality(Primaries') <= 1
                /\ \A v \in Wallets : Active(links'[v]) =>
                     \E w \in Primaries' : links'[w].created <= links'[v].created
           [] OTHER -> TRUE
<1>1. IInv /\ [Next]_vars => [A]_vars
  BY LoneIsCommit, LoneCommit
<1> QED
  BY <1>1, InvInit, InvStep, PTL DEF Spec, LoneCallRepairsPrimary

=============================================================================
