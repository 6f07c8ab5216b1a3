-------------------------- MODULE AuditForwardProofs --------------------------
(***************************************************************************)
(* AuditForward implements AuditDelivery for targets that confirm what     *)
(* they took, for every number of rows, saves, batches and every length of *)
(* time that ForwardConstants allows.                                      *)
(***************************************************************************)
EXTENDS AuditForward, FiniteSetTheorems, WellFoundedInduction, TLAPS

(* Rows that were in the log: they are there, or they were pruned by age. *)
Written(r) == /\ rowid[r] > 0
              /\ place[r] = "log" \/ stamp[r] < now - Retention

(* No insert outlives its wait for the lock, and only rows that reached *)
(* the log have a rowid.                                                *)
Rowed ==
  \A r \in Row : /\ stamp[r] <= now
                 /\ place[r] = "waiting" => now <= stamp[r] + Delay
                 /\ place[r] \in {"unborn", "waiting"} => rowid[r] = 0
                 /\ place[r] = "log" => rowid[r] > 0
                 /\ rowid[r] <= Cardinality({q \in Row : rowid[q] > 0})

(* The cursor names a row that was in the log, and is behind every due row *)
(* on its way there: no later commit falls behind it.                      *)
CursorInv ==
  /\ ~Exists => fwd = NoForwarder /\ due = {}
  /\ fwd.save <= saves
  /\ fwd.cursor[1] <= now
  /\ fwd.cursor = <<0, 0>> \/ \E q \in Row : Written(q) /\ Key(q) = fwd.cursor
  /\ \A r \in due : place[r] = "waiting" => fwd.cursor[1] <= stamp[r]

(* A batch under way is of settled rows, and, unless the configuration was *)
(* saved since, it is all there is between the cursor and its last row.    *)
BatchInv ==
  sweep.at = "sending" =>
    /\ sweep.batch # {}
    /\ sweep.began <= now
    /\ sweep.save \in SaveId /\ sweep.save <= saves
    /\ \A b \in sweep.batch : Written(b) /\ stamp[b] <= sweep.began - Settle
    /\ sweep.taken /\ kind = "webhook" => sweep.batch \X {sweep.save} \subseteq got
    /\ fwd.save = sweep.save =>
         \A b \in sweep.batch :
           /\ Less(fwd.cursor, Key(b))
           /\ \A r \in due \cap Log : Less(fwd.cursor, Key(r)) /\ ~Less(Key(b), Key(r))
                                        => r \in sweep.batch

Inv == TypeOK /\ Rowed /\ CursorInv /\ BatchInv

-------------------------------------------------------------------------------
(* Numbers and keys. *)

(* A nonempty set of naturals has a least element. *)
LEMMA LeastNat ==
  ASSUME NEW S \in SUBSET Nat, S # {}
  PROVE  \E x \in S : \A y \in S : x <= y
<1>1. \E x \in S : \A y \in S : ~(<<y, x>> \in OpToRel(<, Nat))
  BY WFMin, NatLessThanWellFounded, Zenon
<1>2. PICK x \in S : \A y \in S : ~(<<y, x>> \in OpToRel(<, Nat))
  BY <1>1
<1>3. \A y \in S : ~(y < x)
  BY <1>2 DEF OpToRel
<1> QED BY <1>3

(* A nonempty bounded set of naturals has a greatest element. *)
LEMMA GreatestNat ==
  ASSUME NEW S \in SUBSET Nat, S # {}, NEW n \in Nat, \A s \in S : s <= n
  PROVE  \E x \in S : \A y \in S : y <= x
<1> DEFINE T == {m \in Nat : n - m \in S}
<1>1. PICK s0 \in S : TRUE OBVIOUS
<1>2. n - s0 \in Nat /\ n - (n - s0) = s0 BY <1>1
<1>3. T \in SUBSET Nat /\ T # {}
  BY <1>1, <1>2
<1>4. PICK t \in T : \A u \in T : t <= u
  <2> HIDE DEF T
  <2> QED BY <1>3, LeastNat
<1>5. ASSUME NEW y \in S PROVE y <= n - t
  <2>1. n - y \in Nat /\ n - (n - y) = y OBVIOUS
  <2>2. n - y \in T BY <2>1
  <2>3. t <= n - y /\ t \in Nat BY <2>2, <1>4
  <2>4. y \in Nat OBVIOUS
  <2> HIDE DEF T
  <2> QED BY <2>3, <2>4
<1>6. n - t \in S BY <1>4
<1> HIDE DEF T
<1> QED BY <1>5, <1>6

(* Keys are pairs of naturals under a total order. *)
LEMMA Keys ==
  ASSUME TypeOK, NEW r \in Row
  PROVE  /\ Key(r) \in Times \X (0..Rows)
         /\ stamp[r] \in Nat /\ rowid[r] \in Nat
         /\ stamp[r] <= MaxTime /\ rowid[r] <= Rows
         /\ Key(r)[1] = stamp[r] /\ Key(r)[2] = rowid[r]
BY ForwardConstants DEF TypeOK, Key, Times

(* The last of some rows exists: no other of them comes after it. *)
LEMMA LastExists ==
  ASSUME TypeOK, NEW rs \in SUBSET Row, rs # {}
  PROVE  \E r \in rs : LastKey(rs) = Key(r) /\ \A q \in rs : ~Less(Key(r), Key(q))
<1> DEFINE S == {stamp[r] : r \in rs}
<1>1. S \in SUBSET Nat /\ S # {} /\ \A s \in S : s <= MaxTime
  BY Keys
<1>2. PICK t \in S : \A s \in S : s <= t
  <2> HIDE DEF S
  <2> QED BY <1>1, GreatestNat, ForwardConstants
<1> DEFINE N == {rowid[r] : r \in {q \in rs : stamp[q] = t}}
<1>3. N \in SUBSET Nat /\ N # {} /\ \A n \in N : n <= Rows
  BY Keys, <1>2
<1>4. PICK m \in N : \A n \in N : n <= m
  <2> HIDE DEF N, S
  <2> QED BY <1>3, GreatestNat, ForwardConstants
<1>5. PICK r \in rs : stamp[r] = t /\ rowid[r] = m
  BY <1>4
<1>6. ASSUME NEW q \in rs PROVE ~Less(Key(r), Key(q))
  <2>1. stamp[q] <= t BY <1>2
  <2>2. stamp[q] = t => rowid[q] <= m BY <1>4
  <2>3. stamp[q] \in Nat /\ rowid[q] \in Nat /\ t \in Nat /\ m \in Nat
    BY Keys, <1>5
  <2> HIDE DEF N, S
  <2> QED BY <2>1, <2>2, <2>3, <1>5 DEF Less, Key
<1>7. \E p \in rs : \A q \in rs : ~Less(Key(p), Key(q))
  BY <1>6
<1> QED BY <1>7 DEF LastKey

(* The next rowid is above every one in the log, and one more row has one. *)
LEMMA NextRowidHigher ==
  ASSUME TypeOK, Rowed, NEW r \in Row, place[r] = "waiting"
  PROVE  /\ NextRowid \in 1..Rows
         /\ \A q \in Log : rowid[q] < NextRowid
         /\ NextRowid <= 1 + Cardinality({q \in Row : rowid[q] > 0})
         /\ Cardinality({q \in Row : rowid[q] > 0} \cup {r})
              = 1 + Cardinality({q \in Row : rowid[q] > 0})
<1> DEFINE W == {q \in Row : rowid[q] > 0}
<1>1. IsFiniteSet(Row) /\ Cardinality(Row) = Rows
  BY FS_Interval, ForwardConstants DEF Row
<1>2. IsFiniteSet(W) /\ Cardinality(W) \in Nat
  BY <1>1, FS_Subset, FS_CardinalityType
<1>3. r \notin W
  <2>1. rowid[r] = 0 BY DEF Rowed
  <2> QED BY <2>1
<1>4. Cardinality(W \cup {r}) = 1 + Cardinality(W)
  <2> HIDE DEF W
  <2>1. Cardinality(W \cup {r}) = Cardinality(W) + 1
    BY <1>2, <1>3, FS_AddElement, Zenon
  <2> QED BY <2>1, <1>2
<1>5. Cardinality(W \cup {r}) <= Rows
  <2>1. W \cup {r} \in SUBSET Row OBVIOUS
  <2> HIDE DEF W
  <2> QED BY <2>1, <1>1, FS_Subset
<1>6. CASE Log = {}
  <2>1. NextRowid = 1 BY <1>6 DEF NextRowid
  <2> HIDE DEF W
  <2>2. 1 <= 1 + Cardinality(W) /\ 1 <= Rows BY <1>2, <1>4, <1>5, ForwardConstants
  <2> QED BY <2>1, <2>2, <1>4, <1>6, ForwardConstants DEF W
<1>7. CASE Log # {}
  <2> DEFINE N == {rowid[q] : q \in Log}
  <2>1. N \in SUBSET Nat /\ N # {} /\ \A n \in N : n <= Rows
    BY Keys, <1>7 DEF Log
  <2>2. PICK m \in N : \A n \in N : n <= m
    <3> HIDE DEF N
    <3> QED BY <2>1, GreatestNat, ForwardConstants
  <2>3. \E n \in N : \A q \in Log : rowid[q] <= n
    BY <2>2
  <2> DEFINE c == CHOOSE n \in N : \A q \in Log : rowid[q] <= n
  <2>4. c \in N /\ \A q \in Log : rowid[q] <= c
    BY <2>3
  <2>5. NextRowid = 1 + c
    BY <1>7 DEF NextRowid
  <2>6. c \in Nat /\ c <= Cardinality(W)
    BY <2>4, <2>1 DEF Rowed, Log
  <2> HIDE DEF c, W, N
  <2>7. \A q \in Log : rowid[q] \in Nat
    BY Keys DEF Log
  <2> QED BY <2>4, <2>5, <2>6, <2>7, <1>2, <1>4, <1>5, ForwardConstants DEF W
<1> QED BY <1>6, <1>7

-------------------------------------------------------------------------------
(* The invariant. *)

(* Keys compare like numbers. *)
LEMMA LessTransitive ==
  ASSUME NEW k \in Nat \X Nat, NEW l \in Nat \X Nat, NEW m \in Nat \X Nat
  PROVE  /\ Less(k, l) /\ Less(l, m) => Less(k, m)
         /\ Less(k, l) /\ ~Less(m, l) => Less(k, m)
         /\ ~Less(k, k)
BY DEF Less

(* The first of a nonempty set of rows is among the first BatchSize. *)
LEMMA BatchFound ==
  ASSUME Inv, NEW f, f.cursor \in Cursors, f.save \in SaveId, f.save <= saves,
         f.enabled \in BOOLEAN,
         NEW round \in Nat, round <= MaxBatches \/ round = MaxBatches + 1, round > 0,
         NEW began \in Times, began <= now,
         NEW pause \in 0..BackoffMax,
         NEW s, s = NextBatch(f, round, began, pause)
  PROVE  \/ s = Idle
         \/ /\ s \in [at : {"idle", "sending"}, began : Times, save : 0..Saves,
                      pause : 0..BackoffMax, batch : SUBSET Row, round : 0..MaxBatches,
                      attempt : 0..Attempts, taken : BOOLEAN]
            /\ s.at = "sending" /\ s.began = began /\ s.save = f.save /\ ~s.taken
            /\ s.batch # {}
            /\ \A b \in s.batch : /\ Written(b) /\ stamp[b] <= began - Settle
                                  /\ Less(f.cursor, Key(b))
            /\ \A b \in s.batch, r \in Log :
                 Less(f.cursor, Key(r)) /\ ~Less(Key(b), Key(r)) => r \in s.batch
<1> DEFINE P == Pending(f.cursor, began - Settle)
           B == FirstOf(P)
<1> SUFFICES ASSUME s # Idle
             PROVE  /\ s \in [at : {"idle", "sending"}, began : Times, save : 0..Saves,
                              pause : 0..BackoffMax, batch : SUBSET Row, round : 0..MaxBatches,
                              attempt : 0..Attempts, taken : BOOLEAN]
                    /\ s.at = "sending" /\ s.began = began /\ s.save = f.save /\ ~s.taken
                    /\ s.batch # {}
                    /\ \A b \in s.batch : /\ Written(b) /\ stamp[b] <= began - Settle
                                          /\ Less(f.cursor, Key(b))
                    /\ \A b \in s.batch, r \in Log :
                         Less(f.cursor, Key(r)) /\ ~Less(Key(b), Key(r)) => r \in s.batch
  OBVIOUS
<1>1. /\ s = [at |-> "sending", began |-> began, save |-> f.save, pause |-> pause,
              batch |-> B, round |-> round, attempt |-> 1, taken |-> FALSE]
      /\ ~(round > MaxBatches) /\ B # {}
  BY DEF NextBatch
<1>2. B \subseteq P /\ P \subseteq Log /\ P \subseteq Row
  BY DEF FirstOf, Pending, Log
<1>3. \A b \in P : Written(b) /\ stamp[b] <= began - Settle /\ Less(f.cursor, Key(b))
  BY DEF Pending, Log, Written, Inv, Rowed
<1>4. ASSUME NEW b \in B, NEW r \in Log, Less(f.cursor, Key(r)), ~Less(Key(b), Key(r))
      PROVE  r \in B
  <2> DEFINE A(x) == {q \in P : Less(Key(q), Key(x))}
  <2>1. b \in Row /\ r \in Row /\ stamp[b] \in Nat /\ stamp[r] \in Nat
    BY <1>2, Keys DEF Log, Inv
  <2>2. stamp[r] <= stamp[b]
    BY <1>4, <2>1, Keys DEF Less, Inv
  <2>3. r \in P
    <3>1. stamp[b] <= began - Settle BY <1>2, <1>3
    <3>2. began - Settle \in Int BY ForwardConstants DEF Times
    <3> QED BY <1>4, <2>1, <2>2, <3>1, <3>2 DEF Pending
  <2>4. A(r) \subseteq A(b)
    <3>1. ASSUME NEW q \in P, Less(Key(q), Key(r)) PROVE Less(Key(q), Key(b))
      <4>1. Key(q) \in Nat \X Nat /\ Key(r) \in Nat \X Nat /\ Key(b) \in Nat \X Nat
        BY <1>2, <2>1, Keys DEF Key, Inv
      <4> QED BY <4>1, <3>1, <1>4, LessTransitive
    <3> QED BY <3>1
  <2>5. IsFiniteSet(A(b)) /\ Cardinality(A(b)) \in Nat
    <3>1. IsFiniteSet(Row) BY FS_Interval, ForwardConstants DEF Row
    <3>2. A(b) \in SUBSET Row BY <1>2
    <3> QED BY <3>1, <3>2, FS_Subset, FS_CardinalityType
  <2>6. Cardinality(A(r)) <= Cardinality(A(b)) /\ Cardinality(A(r)) \in Nat
    <3>1. A(r) \in SUBSET A(b) BY <2>4
    <3> HIDE DEF A
    <3> QED BY <2>5, <3>1, FS_Subset, FS_CardinalityType
  <2>7. Cardinality(A(b)) < BatchSize
    BY DEF FirstOf
  <2>8. Cardinality(A(r)) < BatchSize
    <3> HIDE DEF A
    <3> QED BY <2>5, <2>6, <2>7, ForwardConstants
  <2> QED BY <2>3, <2>8 DEF FirstOf
<1> HIDE DEF P, B
<1>5. round \in 0..MaxBatches /\ 1 \in 0..Attempts /\ f.save \in 0..Saves
  BY <1>1, ForwardConstants DEF SaveId
<1>6. B \in SUBSET Row
  BY <1>2
<1>7. /\ s.at = "sending" /\ s.began = began /\ s.save = f.save /\ ~s.taken
      /\ s.batch = B
  BY <1>1
<1>8. s \in [at : {"idle", "sending"}, began : Times, save : 0..Saves,
             pause : 0..BackoffMax, batch : SUBSET Row, round : 0..MaxBatches,
             attempt : 0..Attempts, taken : BOOLEAN]
  BY <1>1, <1>5, <1>6
<1>9. \A b \in B : Written(b) /\ stamp[b] <= began - Settle /\ Less(f.cursor, Key(b))
  BY <1>2, <1>3
<1>10. \A b \in B, r \in Log :
         Less(f.cursor, Key(r)) /\ ~Less(Key(b), Key(r)) => r \in B
  BY <1>4
<1> QED BY <1>1, <1>7, <1>8, <1>9, <1>10

(* Inv holds at the start. *)
LEMMA InitInv == Init => Inv
<1> SUFFICES ASSUME Init PROVE Inv OBVIOUS
<1> USE ForwardConstants
<1>1. TypeOK BY DEF Init, TypeOK, NoForwarder, Idle, NoWait, NoEdit, Times, Cursors, None
<1>2. Rowed
  <2>1. IsFiniteSet(Row) BY FS_Interval DEF Row
  <2>2. \A S \in SUBSET Row : Cardinality(S) \in Nat
    BY <2>1, FS_Subset, FS_CardinalityType
  <2>3. Cardinality({q \in Row : rowid[q] > 0}) \in Nat
    <3>1. {q \in Row : rowid[q] > 0} \in SUBSET Row OBVIOUS
    <3> QED BY <2>2, <3>1
  <2> QED BY <2>3 DEF Init, Rowed
<1>3. CursorInv BY DEF Init, CursorInv, NoForwarder, Exists, None
<1>4. BatchInv BY DEF Init, BatchInv, Idle
<1> QED BY <1>1, <1>2, <1>3, <1>4 DEF Inv

(* What a step of another part leaves as it is. *)
RowsSame == UNCHANGED <<place, stamp, rowid, now>>

(* With the rows and the time as they are, Rowed and Written stay. *)
LEMMA SameRows ==
  ASSUME RowsSame
  PROVE  /\ Rowed' = Rowed
         /\ Log' = Log
         /\ \A r : Written(r)' = Written(r) /\ Key(r)' = Key(r)
         /\ \A k, l : Less(k, l)' = Less(k, l)
BY DEF RowsSame, Rowed, Log, Written, Key, Less

(* A row is begun: it has no rowid yet and is stamped not before the cursor. *)
LEMMA BeginInv == ASSUME Inv, NEW r \in Row, Begin(r) PROVE Inv'
<1> USE DEF Inv
<1>0. TypeOK'
  BY ForwardConstants DEF Begin, TypeOK, Times, Exists
<1>1. /\ place[r] = "unborn" /\ place' = [place EXCEPT ![r] = "waiting"]
      /\ stamp' = [stamp EXCEPT ![r] = now] /\ rowid' = rowid /\ now' = now
      /\ fwd' = fwd /\ sweep' = sweep /\ saves' = saves /\ got' = got /\ kind' = kind
      /\ due' = IF Exists THEN due \cup {r} ELSE due
  BY DEF Begin
<1>2. /\ place \in [Row -> {"unborn", "waiting", "log", "gone"}]
      /\ stamp \in [Row -> Times] /\ now \in Times /\ due \subseteq Row
      /\ sweep.batch \subseteq Row
  BY DEF TypeOK
<1>3. rowid[r] = 0
  BY <1>1 DEF Rowed
<1>4. \A q \in Row : Written(q) => Written(q)' /\ Key(q)' = Key(q) /\ stamp'[q] = stamp[q]
  BY <1>1, <1>2, <1>3 DEF Written, Key
<1>5. Rowed'
  BY <1>1, <1>2, <1>3, ForwardConstants DEF Rowed, Times
<1>6. CursorInv'
  BY <1>1, <1>2, <1>4 DEF CursorInv, Exists
<1>7. BatchInv'
  <2> SUFFICES ASSUME sweep.at = "sending" PROVE BatchInv'
    BY <1>1 DEF BatchInv
  <2>1. \A b \in sweep.batch : Written(b)
    BY DEF BatchInv
  <2>2. \A b \in sweep.batch : Written(b)' /\ Key(b)' = Key(b) /\ stamp'[b] = stamp[b]
    BY <1>2, <1>4, <2>1
  <2>3. Log' = Log /\ \A q \in Log : Key(q)' = Key(q) /\ q # r
    BY <1>1, <1>2 DEF Log, Key
  <2>4. due' \cap Log' = due \cap Log
    BY <1>1, <2>3
  <2> QED BY <1>1, <2>2, <2>3, <2>4 DEF BatchInv, Less
<1> QED BY <1>0, <1>5, <1>6, <1>7

(* A row commits: behind neither the cursor nor the batch, for it is younger *)
(* than what is settled, or as old and later numbered.                       *)
LEMMA CommitBehind ==
  ASSUME Inv, NEW r \in Row, Commit(r)
  PROVE  /\ r \in due => Less(fwd.cursor, Key(r)')
         /\ sweep.at = "sending" => \A b \in sweep.batch : Less(Key(b), Key(r)')
<1> USE DEF Inv
<1>1. place[r] = "waiting" /\ Key(r)' = <<stamp[r], NextRowid>> /\ NextRowid \in 1..Rows
  BY NextRowidHigher DEF Commit, Key, TypeOK
<1>2. now <= stamp[r] + Delay /\ now \in Nat /\ stamp[r] \in Nat
  <2>1. now <= stamp[r] + Delay BY <1>1 DEF Rowed
  <2>2. now \in Nat BY ForwardConstants DEF TypeOK, Times
  <2>3. stamp[r] \in Nat BY Keys
  <2> QED BY <2>1, <2>2, <2>3
<1>3. ASSUME NEW q \in Row, Written(q), stamp[q] <= stamp[r]
      PROVE  Less(Key(q), Key(r)')
  <2>1. stamp[q] \in Nat /\ rowid[q] \in Nat BY Keys
  <2>2. CASE place[q] = "log"
    <3>1. rowid[q] < NextRowid BY <2>2, <1>1, NextRowidHigher DEF Log
    <3> QED BY <3>1, <2>1, <1>1, <1>2, <1>3 DEF Less, Key
  <2>3. CASE stamp[q] < now - Retention
    <3>1. stamp[q] < stamp[r] BY <2>3, <2>1, <1>2, ForwardConstants
    <3> QED BY <3>1, <1>1 DEF Less, Key
  <2> QED BY <1>3, <2>2, <2>3 DEF Written
<1>4. ASSUME r \in due PROVE Less(fwd.cursor, Key(r)')
  <2>1. fwd.cursor[1] <= stamp[r]
    BY <1>1, <1>4 DEF CursorInv
  <2>2. CASE fwd.cursor = <<0, 0>>
    BY <2>2, <1>1, <1>2 DEF Less
  <2>3. CASE \E q \in Row : Written(q) /\ Key(q) = fwd.cursor
    BY <2>1, <2>3, <1>3 DEF Key
  <2> QED BY <2>2, <2>3 DEF CursorInv
<1>5. ASSUME sweep.at = "sending", NEW b \in sweep.batch PROVE Less(Key(b), Key(r)')
  <2>1. b \in Row /\ Written(b) /\ stamp[b] <= sweep.began - Settle /\ sweep.began <= now
    BY <1>5 DEF BatchInv, TypeOK
  <2>2. stamp[b] <= stamp[r]
    <3>1. stamp[b] \in Nat /\ sweep.began \in Nat BY <2>1, Keys DEF TypeOK, Times
    <3> QED BY <2>1, <1>2, <3>1, ForwardConstants
  <2> QED BY <2>1, <2>2, <1>3
<1> QED BY <1>4, <1>5

(* A commit keeps the invariant. *)
LEMMA CommitInv == ASSUME Inv, NEW r \in Row, Commit(r) PROVE Inv'
<1> USE DEF Inv
<1> DEFINE W == {q \in Row : rowid[q] > 0}
<1>1. /\ place[r] = "waiting" /\ place' = [place EXCEPT ![r] = "log"]
      /\ rowid' = [rowid EXCEPT ![r] = NextRowid]
      /\ UNCHANGED <<kind, now, stamp, fwd, saves, edit, sweep, wait, due, got>>
  BY DEF Commit
<1>2. /\ place \in [Row -> {"unborn", "waiting", "log", "gone"}]
      /\ rowid \in [Row -> 0..Rows]
      /\ stamp \in [Row -> Times] /\ now \in Times /\ due \subseteq Row
      /\ sweep.batch \subseteq Row
  BY DEF TypeOK
<1>3. NextRowid \in 1..Rows /\ NextRowid <= 1 + Cardinality(W)
      /\ Cardinality(W \cup {r}) = 1 + Cardinality(W)
  BY <1>1, NextRowidHigher
<1>4. TypeOK'
  BY <1>1, <1>3, ForwardConstants DEF TypeOK
<1>5. rowid[r] = 0 BY <1>1 DEF Rowed
<1>6. \A q \in Row : Written(q) => q # r /\ Written(q)' /\ Key(q)' = Key(q)
  BY <1>1, <1>2, <1>5 DEF Written, Key
<1>7. Rowed'
  <2>1. {q \in Row : rowid'[q] > 0} = W \cup {r}
    BY <1>1, <1>2, <1>3, ForwardConstants
  <2>2. Cardinality(W) \in Nat
    <3>1. IsFiniteSet(Row) BY FS_Interval, ForwardConstants DEF Row
    <3>2. W \in SUBSET Row OBVIOUS
    <3> HIDE DEF W
    <3> QED BY <3>1, <3>2, FS_Subset, FS_CardinalityType
  <2>3. \A q \in Row : rowid'[q] <= 1 + Cardinality(W)
    BY <1>1, <1>2, <1>3, <2>2 DEF Rowed
  <2>4. \A q \in Row : rowid'[q] <= Cardinality({p \in Row : rowid'[p] > 0})
    BY <2>1, <2>3, <1>3
  <2> HIDE DEF W
  <2>5. \A q \in Row : /\ stamp'[q] <= now'
                       /\ place'[q] = "waiting" => now' <= stamp'[q] + Delay
                       /\ place'[q] \in {"unborn", "waiting"} => rowid'[q] = 0
                       /\ place'[q] = "log" => rowid'[q] > 0
    <3> SUFFICES ASSUME NEW q \in Row
                 PROVE  /\ stamp'[q] <= now'
                        /\ place'[q] = "waiting" => now' <= stamp'[q] + Delay
                        /\ place'[q] \in {"unborn", "waiting"} => rowid'[q] = 0
                        /\ place'[q] = "log" => rowid'[q] > 0
      OBVIOUS
    <3>1. stamp'[q] = stamp[q] /\ now' = now BY <1>1
    <3>2. CASE q = r
      <4>1. place'[q] = "log" /\ rowid'[q] = NextRowid BY <1>1, <1>2, <3>2
      <4>2. NextRowid > 0 BY <1>3, ForwardConstants
      <4>3. stamp[q] <= now BY DEF Rowed
      <4> QED BY <3>1, <4>1, <4>2, <4>3
    <3>3. CASE q # r
      <4>1. place'[q] = place[q] /\ rowid'[q] = rowid[q] BY <1>1, <1>2, <3>3
      <4> QED BY <3>1, <4>1 DEF Rowed
    <3> QED BY <3>2, <3>3
  <2> QED BY <2>4, <2>5 DEF Rowed
<1>8. CursorInv'
  BY <1>1, <1>2, <1>6 DEF CursorInv, Exists
<1>9. BatchInv'
  <2> SUFFICES ASSUME sweep.at = "sending" PROVE BatchInv'
    BY <1>1 DEF BatchInv
  <2>1. \A b \in sweep.batch : b \in Row /\ b # r /\ Written(b)' /\ Key(b)' = Key(b)
    BY <1>2, <1>6 DEF BatchInv
  <2>2. \A b \in sweep.batch : Less(Key(b), Key(r)')
    BY CommitBehind
  <2>3. Log' = Log \cup {r} /\ \A q \in Log : Key(q)' = Key(q)
    BY <1>1, <1>2 DEF Log, Key
  <2>4. sweep'.batch = sweep.batch /\ sweep'.save = sweep.save /\ fwd' = fwd
    BY <1>1
  <2>5. ASSUME fwd.save = sweep.save, NEW b \in sweep.batch
        PROVE  /\ Less(fwd.cursor, Key(b)')
               /\ \A q \in due \cap Log' : Less(fwd.cursor, Key(q)') /\ ~Less(Key(b)', Key(q)')
                                              => q \in sweep.batch
    <3>1. Less(fwd.cursor, Key(b)') BY <2>1, <2>5 DEF BatchInv
    <3>2. ASSUME NEW q \in due \cap Log', Less(fwd.cursor, Key(q)'), ~Less(Key(b)', Key(q)')
          PROVE  q \in sweep.batch
      BY <2>1, <2>2, <2>3, <2>5, <3>2 DEF BatchInv
    <3> QED BY <3>1, <3>2
  <2> QED BY <1>1, <2>1, <2>4, <2>5 DEF BatchInv, Less
<1> QED BY <1>4, <1>7, <1>8, <1>9

(* An insert that fails was never in the log. *)
LEMMA InsertFailsInv == ASSUME Inv, NEW r \in Row, InsertFails(r) PROVE Inv'
<1> USE DEF Inv
<1>1. /\ place[r] = "waiting" /\ place' = [place EXCEPT ![r] = "gone"]
      /\ UNCHANGED <<kind, now, stamp, rowid, fwd, saves, edit, sweep, wait, due, got>>
  BY DEF InsertFails
<1>2. /\ place \in [Row -> {"unborn", "waiting", "log", "gone"}]
      /\ due \subseteq Row /\ sweep.batch \subseteq Row
  BY DEF TypeOK
<1>3. TypeOK' BY <1>1 DEF TypeOK
<1>4. rowid[r] = 0 BY <1>1 DEF Rowed
<1>5. \A q \in Row : Written(q) => Written(q)' /\ Key(q)' = Key(q)
  BY <1>1, <1>2, <1>4 DEF Written, Key
<1>6. Rowed' BY <1>1, <1>2 DEF Rowed
<1>7. CursorInv' BY <1>1, <1>2, <1>5 DEF CursorInv, Exists
<1>8. Log' = Log /\ \A q : Key(q)' = Key(q)
  BY <1>1, <1>2 DEF Log, Key
<1>9. BatchInv'
  BY <1>1, <1>2, <1>5, <1>8 DEF BatchInv, Less
<1> QED BY <1>3, <1>6, <1>7, <1>9

(* Pruning takes rows by their age, and says so of the keys it leaves. *)
LEMMA PruneInv == ASSUME Inv, Prune PROVE Inv'
<1> USE DEF Inv
<1>1. /\ place' = [r \in Row |-> IF r \in Expired THEN "gone" ELSE place[r]]
      /\ UNCHANGED <<kind, now, stamp, rowid, fwd, saves, edit, sweep, wait, due, got>>
  BY DEF Prune
<1>2. /\ place \in [Row -> {"unborn", "waiting", "log", "gone"}]
      /\ due \subseteq Row /\ sweep.batch \subseteq Row
  BY DEF TypeOK
<1>3. TypeOK' BY <1>1, <1>2 DEF TypeOK
<1>4. \A q \in Row : Written(q) => Written(q)' /\ Key(q)' = Key(q)
  BY <1>1, <1>2 DEF Written, Key, Expired, Log
<1>5. \A q \in Row : place'[q] = place[q] \/ place'[q] = "gone" BY <1>1
<1>6. Rowed' BY <1>1, <1>5 DEF Rowed
<1>7. CursorInv' BY <1>1, <1>2, <1>4, <1>5 DEF CursorInv, Exists
<1>8. Log' \subseteq Log /\ \A q : Key(q)' = Key(q)
  BY <1>1, <1>5 DEF Log, Key
<1>9. BatchInv'
  BY <1>1, <1>2, <1>4, <1>8 DEF BatchInv, Less
<1> QED BY <1>3, <1>6, <1>7, <1>9

(* Time passes no waiting insert by. *)
LEMMA TickInv == ASSUME Inv, Tick PROVE Inv'
<1> USE DEF Inv
<1>1. /\ \A r \in Row : place[r] = "waiting" => now < stamp[r] + Delay
      /\ now' = Min2(now + 1, MaxTime)
      /\ UNCHANGED <<kind, place, stamp, rowid, fwd, saves, edit, sweep, due, got>>
      /\ wait' = [wait EXCEPT !.left = IF @ = 0 THEN 0 ELSE @ - 1]
  BY DEF Tick
<1>2. /\ now \in Nat /\ now <= MaxTime /\ MaxTime \in Nat /\ stamp \in [Row -> Times]
      /\ due \subseteq Row /\ sweep.batch \subseteq Row
  BY ForwardConstants DEF TypeOK, Times
<1>3. now' \in Times /\ now <= now' /\ now' <= now + 1
  BY <1>1, <1>2 DEF Min2, Times
<1>4. TypeOK'
  <2>1. wait' \in [pause : 0..BackoffMax, left : 0..BackoffMax]
    BY <1>1, ForwardConstants DEF TypeOK
  <2> QED BY <1>1, <1>3, <2>1 DEF TypeOK
<1>5. \A q \in Row : stamp[q] \in Nat BY Keys
<1>6. \A q \in Row : Written(q) => Written(q)' /\ Key(q)' = Key(q)
  BY <1>1, <1>2, <1>3, <1>5, ForwardConstants DEF Written, Key, Times
<1>7. Rowed'
  <2>1. ASSUME NEW r \in Row
        PROVE  stamp[r] <= now' /\ (place[r] = "waiting" => now' <= stamp[r] + Delay)
    <3>1. stamp[r] <= now BY DEF Rowed
    <3>2. place[r] = "waiting" => now < stamp[r] + Delay BY <1>1
    <3> QED BY <3>1, <3>2, <1>2, <1>3, <1>5, ForwardConstants DEF Times
  <2> QED BY <1>1, <2>1 DEF Rowed
<1>8. CursorInv'
  <2>1. fwd.cursor[1] <= now'
    BY <1>2, <1>3 DEF CursorInv, TypeOK, Cursors, Times
  <2> QED BY <1>1, <1>2, <1>6, <2>1 DEF CursorInv, Exists
<1>9. BatchInv'
  <2>1. sweep.at = "sending" => sweep.began <= now'
    BY <1>2, <1>3 DEF BatchInv, TypeOK, Times
  <2>2. Log' = Log /\ \A q : Key(q)' = Key(q)
    BY <1>1 DEF Log, Key
  <2> QED BY <1>1, <1>2, <1>6, <2>1, <2>2 DEF BatchInv, Less
<1> QED BY <1>4, <1>7, <1>8, <1>9

-------------------------------------------------------------------------------
(* Steps that leave the rows as they are. *)

(* The cursor's part of Inv depends on the row of settings alone. *)
LEMMA CursorKept ==
  ASSUME Inv, RowsSame, due' \subseteq due, saves' \in Nat, saves <= saves',
         fwd'.cursor = fwd.cursor, fwd'.save <= saves',
         fwd'.save = None => fwd' = NoForwarder /\ due' = {}
  PROVE  CursorInv'
<1>1. \A q : Written(q)' = Written(q) /\ Key(q)' = Key(q) BY SameRows
<1> QED BY <1>1 DEF Inv, CursorInv, RowsSame, Exists

(* A sweep is not touched by what moves no cursor of its configuration. *)
LEMMA SweepKept ==
  ASSUME Inv, RowsSame, due' \subseteq due, saves' \in Nat, saves <= saves', kind' = kind,
         sweep' = sweep, got' = got,
         fwd'.save = sweep.save => fwd.save = sweep.save /\ fwd'.cursor = fwd.cursor
  PROVE  BatchInv'
<1> SUFFICES ASSUME sweep.at = "sending" PROVE BatchInv' BY DEF BatchInv
<1>1. Log' = Log /\ \A q : Written(q)' = Written(q) /\ Key(q)' = Key(q) BY SameRows
<1>2. \A k, l : Less(k, l)' = Less(k, l) BY SameRows
<1>3. sweep.save <= saves' BY DEF Inv, BatchInv, TypeOK
<1>4. UNCHANGED <<stamp, now, sweep, kind, got>> BY DEF RowsSame
<1>5. BatchInv BY DEF Inv
<1>6. /\ sweep.batch # {}
      /\ sweep.began <= now
      /\ sweep.save \in SaveId /\ sweep.save <= saves
      /\ \A b \in sweep.batch : Written(b) /\ stamp[b] <= sweep.began - Settle
      /\ sweep.taken /\ kind = "webhook" => sweep.batch \X {sweep.save} \subseteq got
  BY <1>5 DEF BatchInv
<1>7. ASSUME fwd'.save = sweep.save, NEW b \in sweep.batch
      PROVE  /\ Less(fwd'.cursor, Key(b)')
             /\ \A r \in due' \cap Log' :
                  Less(fwd'.cursor, Key(r)') /\ ~Less(Key(b)', Key(r)') => r \in sweep.batch
  BY <1>1, <1>5, <1>7 DEF BatchInv
<1> QED BY <1>1, <1>2, <1>3, <1>4, <1>6, <1>7 DEF BatchInv, Less

(* The settings: only a save gives the row of settings another number. *)
LEMMA SettingsInv ==
  ASSUME Inv, BeginSave \/ SaveNew \/ SaveChange \/ SaveRefused \/ Remove
  PROVE  Inv'
<1> USE DEF Inv
<1>1. UNCHANGED <<kind, now, place, stamp, rowid, sweep, got>> /\ RowsSame
  BY DEF BeginSave, SaveNew, SaveChange, SaveRefused, Remove, rowVars, RowsSame
<1>2. Rowed' BY <1>1, SameRows
<1>3. /\ saves \in Nat /\ saves <= Saves /\ Saves \in Nat
      /\ sweep.at = "sending" => sweep.save \in SaveId /\ sweep.save <= saves
      /\ fwd.save \in Nat /\ fwd.save <= saves /\ 0 <= saves
      /\ sweep.save \in Nat
  BY ForwardConstants DEF TypeOK, CursorInv, BatchInv
<1>4. CASE BeginSave \/ SaveRefused
  <2>1. /\ UNCHANGED <<fwd, saves, wait, due>>
        /\ edit' \in [insert : 0..Requests, update : 0..Requests]
    BY <1>4, ForwardConstants DEF BeginSave, SaveRefused, rowVars, TypeOK
  <2>2. TypeOK' BY <1>1, <2>1 DEF TypeOK
  <2>3. CursorInv'
    BY <1>1, <1>3, <2>1, CursorKept DEF CursorInv, Exists
  <2>4. BatchInv' BY <1>1, <1>3, <2>1, SweepKept
  <2> QED BY <1>2, <2>2, <2>3, <2>4
<1>5. CASE Remove
  <2>1. /\ fwd' = NoForwarder /\ wait' = NoWait /\ due' = {} /\ UNCHANGED <<saves, edit>>
    BY <1>5 DEF Remove
  <2>2. TypeOK'
    BY <1>1, <2>1, ForwardConstants DEF TypeOK, NoForwarder, NoWait, None, Cursors, Times
  <2>3. CursorInv'
    <3>1. fwd'.save = 0 /\ fwd'.cursor = <<0, 0>> BY <2>1 DEF NoForwarder, None
    <3>2. now \in Nat BY ForwardConstants DEF TypeOK, Times
    <3> QED BY <1>1, <1>3, <2>1, <3>1, <3>2 DEF CursorInv, Exists, None
  <2>4. BatchInv'
    <3>1. sweep.at = "sending" => sweep.save # 0 BY <1>3 DEF SaveId
    <3>2. fwd'.save = 0 BY <2>1 DEF NoForwarder, None
    <3>3. CASE sweep.at = "sending"
      BY <1>1, <1>3, <2>1, <3>1, <3>2, <3>3, SweepKept
    <3>4. CASE sweep.at # "sending" BY <1>1, <3>4 DEF BatchInv
    <3> QED BY <3>3, <3>4
  <2> QED BY <1>2, <2>2, <2>3, <2>4
<1>6. CASE SaveNew /\ ~Exists
  <2>1. /\ saves < Saves /\ saves' = saves + 1 /\ wait' = NoWait /\ due' = {}
        /\ edit.insert > 0 /\ edit' = [edit EXCEPT !.insert = @ - 1]
    BY <1>6 DEF SaveNew
  <2>2. PICK on \in BOOLEAN : fwd' = [save |-> saves + 1, enabled |-> on,
                                     cursor |-> CurrentCursor, status |-> "none"]
    BY <1>6 DEF SaveNew
  <2>3. /\ CurrentCursor \in Cursors /\ CurrentCursor[1] <= now
        /\ CurrentCursor = <<0, 0>> \/ \E q \in Row : Written(q) /\ Key(q) = CurrentCursor
    <3>0. now \in Nat BY ForwardConstants DEF TypeOK, Times
    <3>1. CASE Log = {}
      <4>1. CurrentCursor = <<0, 0>> BY <3>1 DEF CurrentCursor
      <4> QED BY <4>1, <3>0, ForwardConstants DEF Cursors, Times
    <3>2. CASE Log # {}
      <4>1. CurrentCursor = LastKey(Log) BY <3>2 DEF CurrentCursor
      <4>2. Log \in SUBSET Row BY DEF Log
      <4>3. PICK r \in Log : LastKey(Log) = Key(r) BY <3>2, <4>2, LastExists
      <4>4. r \in Row /\ place[r] = "log" BY DEF Log
      <4>5. Written(r) /\ stamp[r] <= now BY <4>4 DEF Written, Rowed
      <4> QED BY <4>1, <4>3, <4>4, <4>5, Keys DEF Cursors, Key
    <3> QED BY <3>1, <3>2
  <2>4. edit' \in [insert : 0..Requests, update : 0..Requests]
    BY <2>1, ForwardConstants DEF TypeOK
  <2>5. saves + 1 \in 0..Saves BY <1>3, <2>1
  <2>6. TypeOK'
    BY <1>1, <2>1, <2>2, <2>3, <2>4, <2>5, ForwardConstants DEF TypeOK, NoWait
  <2>7. CursorInv'
    <3>1. fwd'.save = saves + 1 /\ fwd'.cursor = CurrentCursor BY <2>2
    <3>2. fwd'.save # None BY <1>3, <3>1 DEF None
    <3>3. \A q : Written(q)' = Written(q) /\ Key(q)' = Key(q) BY <1>1, SameRows
    <3> QED BY <1>1, <1>3, <2>1, <2>3, <3>1, <3>2, <3>3 DEF CursorInv, Exists
  <2>8. BatchInv'
    <3>1. CASE sweep.at = "sending"
      <4>1. fwd'.save # sweep.save BY <1>3, <2>2, <3>1 DEF SaveId
      <4>2. due' \subseteq due /\ saves' \in Nat /\ saves <= saves' BY <1>3, <2>1
      <4> QED BY <1>1, <4>1, <4>2, SweepKept
    <3>2. CASE sweep.at # "sending" BY <1>1, <3>2 DEF BatchInv
    <3> QED BY <3>1, <3>2
  <2> QED BY <1>2, <2>6, <2>7, <2>8
<1>7. CASE (SaveNew /\ Exists) \/ (SaveChange /\ ~Exists)
  <2>1. UNCHANGED <<fwd, saves, due>> /\ wait' \in {wait, NoWait}
    BY <1>7 DEF SaveNew, SaveChange
  <2>2. edit' \in [insert : 0..Requests, update : 0..Requests]
    <3>0. edit \in [insert : 0..Requests, update : 0..Requests] BY DEF TypeOK
    <3>1. CASE edit.insert > 0 /\ edit' = [edit EXCEPT !.insert = @ - 1]
      BY <3>0, <3>1, ForwardConstants
    <3>2. CASE edit.update > 0 /\ edit' = [edit EXCEPT !.update = @ - 1]
      BY <3>0, <3>2, ForwardConstants
    <3> QED BY <1>7, <3>1, <3>2 DEF SaveNew, SaveChange
  <2>3. TypeOK' BY <1>1, <2>1, <2>2, ForwardConstants DEF TypeOK, NoWait
  <2>4. CursorInv' BY <1>1, <1>3, <2>1, CursorKept DEF CursorInv, Exists
  <2>5. BatchInv' BY <1>1, <1>3, <2>1, SweepKept
  <2> QED BY <1>2, <2>3, <2>4, <2>5
<1>8. CASE SaveChange /\ Exists
  <2>1. /\ saves < Saves /\ saves' = saves + 1 /\ wait' = NoWait /\ due' = due
        /\ edit.update > 0 /\ edit' = [edit EXCEPT !.update = @ - 1]
    BY <1>8 DEF SaveChange
  <2>2. PICK on \in BOOLEAN :
          fwd' = [fwd EXCEPT !.save = saves + 1, !.enabled = on, !.status = "none"]
    BY <1>8 DEF SaveChange
  <2>3. saves + 1 \in 0..Saves BY <1>3, <2>1
  <2>4. /\ fwd' \in [save : 0..Saves, enabled : BOOLEAN, cursor : Cursors,
                      status : {"none", "ok", "failed"}]
        /\ fwd'.save = saves + 1 /\ fwd'.cursor = fwd.cursor
    BY <2>2, <2>3 DEF TypeOK
  <2>5. edit' \in [insert : 0..Requests, update : 0..Requests]
    BY <2>1, ForwardConstants DEF TypeOK
  <2>6. TypeOK'
    BY <1>1, <2>1, <2>3, <2>4, <2>5, ForwardConstants DEF TypeOK, NoWait
  <2>7. CursorInv'
    <3>1. fwd'.save # None BY <1>3, <2>4 DEF None
    <3> QED BY <1>1, <1>3, <2>1, <2>4, <3>1, CursorKept
  <2>8. BatchInv'
    <3>1. CASE sweep.at = "sending"
      <4>1. fwd'.save # sweep.save BY <1>3, <2>4, <3>1 DEF SaveId
      <4>2. due' \subseteq due /\ saves' \in Nat /\ saves <= saves' BY <1>3, <2>1
      <4> QED BY <1>1, <4>1, <4>2, SweepKept
    <3>2. CASE sweep.at # "sending" BY <1>1, <3>2 DEF BatchInv
    <3> QED BY <3>1, <3>2
  <2> QED BY <1>2, <2>6, <2>7, <2>8
<1> QED BY <1>4, <1>5, <1>6, <1>7, <1>8

(* A sweep that ends, or starts over. *)
LEMMA SweepEndsInv ==
  ASSUME Inv, GiveUp \/ Restart
  PROVE  Inv'
<1> USE DEF Inv
<1>1. UNCHANGED <<kind, now, place, stamp, rowid, due, saves, got>> /\ RowsSame /\ sweep' = Idle
  BY DEF GiveUp, Restart, rowVars, RowsSame
<1>2. Rowed' BY <1>1, SameRows
<1>3. BatchInv' BY <1>1 DEF BatchInv, Idle
<1>4. fwd' \in [save : 0..Saves, enabled : BOOLEAN, cursor : Cursors,
                status : {"none", "ok", "failed"}]
      /\ fwd'.save = fwd.save /\ fwd'.cursor = fwd.cursor
      /\ (fwd.save = None => fwd' = fwd)
  BY DEF GiveUp, Restart, TypeOK, Exists
<1>5. edit' \in {NoEdit, edit} BY DEF GiveUp, Restart
<1>6. wait' \in [pause : 0..BackoffMax, left : 0..BackoffMax]
  <2>1. CASE Restart BY <2>1, ForwardConstants DEF Restart, NoWait
  <2>2. CASE GiveUp
    <3>1. sweep.pause \in 0..BackoffMax /\ sweep.began \in Nat /\ now \in Nat
          /\ sweep.began <= now
      BY <2>2, ForwardConstants DEF GiveUp, TypeOK, Times, BatchInv
    <3>2. Backoff(sweep.pause) \in 0..BackoffMax
      <4>1. \A p \in 0..BackoffMax : Min2(2 * p, BackoffMax) \in 0..BackoffMax
        BY ForwardConstants DEF Min2
      <4> QED BY <3>1, <4>1, ForwardConstants DEF Backoff
    <3> DEFINE pause == Backoff(sweep.pause)
               left == pause - (now - sweep.began)
    <3>3. (IF left < 0 THEN 0 ELSE left) \in 0..BackoffMax
      <4> HIDE DEF pause
      <4> QED BY <3>1, <3>2, ForwardConstants DEF pause
    <3>4. wait' = [pause |-> pause, left |-> IF left < 0 THEN 0 ELSE left]
      BY <2>2 DEF GiveUp
    <3> HIDE DEF pause, left
    <3> QED BY <3>2, <3>3, <3>4 DEF pause
  <2> QED BY <2>1, <2>2
<1>7. TypeOK'
  BY <1>1, <1>4, <1>5, <1>6, ForwardConstants DEF TypeOK, Idle, Times, None, NoEdit
<1>8. CursorInv'
  <2>1. saves \in Nat /\ saves <= saves BY ForwardConstants DEF TypeOK
  <2>3. fwd'.save = None => fwd' = NoForwarder /\ due' = {}
    BY <1>1, <1>4 DEF CursorInv, Exists
  <2>4. fwd'.save <= saves' BY <1>1, <1>4 DEF CursorInv
  <2> QED BY <1>1, <1>4, <2>1, <2>3, <2>4, CursorKept
<1> QED BY <1>2, <1>3, <1>7, <1>8

(* An attempt: the batch stays what it is. *)
LEMMA AttemptInv ==
  ASSUME Inv, TargetTakes \/ Retry
  PROVE  Inv'
<1> USE DEF Inv
<1>1. UNCHANGED <<kind, now, place, stamp, rowid, due, fwd, saves, edit, wait>> /\ RowsSame
      /\ sweep.at = "sending"
  BY DEF TargetTakes, Retry, rowVars, RowsSame
<1>2. Rowed' BY <1>1, SameRows
<1>3. CursorInv'
  <2>1. saves \in Nat /\ saves <= saves BY ForwardConstants DEF TypeOK
  <2> QED BY <1>1, <2>1, CursorKept DEF CursorInv, Exists
<1>4. sweep.save \in SaveId BY <1>1 DEF BatchInv
<1>5. /\ got \subseteq got' /\ got' \subseteq Row \X SaveId
      /\ \/ /\ sweep' = [sweep EXCEPT !.taken = TRUE]
            /\ kind = "webhook" => sweep.batch \X {sweep.save} \subseteq got'
         \/ /\ sweep' = [sweep EXCEPT !.attempt = @ + 1, !.taken = FALSE]
            /\ sweep.attempt < Attempts
  <2>1. CASE Retry BY <2>1 DEF Retry, TypeOK
  <2>2. CASE TargetTakes
    <3>1. PICK rs \in IF kind = "webhook" THEN {sweep.batch} ELSE SUBSET sweep.batch :
            got' = got \cup (rs \X {sweep.save})
      BY <2>2 DEF TargetTakes
    <3>2. rs \subseteq Row BY <3>1 DEF TypeOK
    <3> QED BY <2>2, <3>1, <3>2, <1>4 DEF TargetTakes, TypeOK
  <2> QED BY <2>1, <2>2
<1>6. /\ sweep'.at = sweep.at /\ sweep'.began = sweep.began /\ sweep'.save = sweep.save
      /\ sweep'.batch = sweep.batch
      /\ sweep'.taken => sweep' = [sweep EXCEPT !.taken = TRUE]
      /\ sweep' \in [at : {"idle", "sending"}, began : Times, save : 0..Saves,
                      pause : 0..BackoffMax, batch : SUBSET Row, round : 0..MaxBatches,
                      attempt : 0..Attempts, taken : BOOLEAN]
  <2>1. sweep \in [at : {"idle", "sending"}, began : Times, save : 0..Saves,
                   pause : 0..BackoffMax, batch : SUBSET Row, round : 0..MaxBatches,
                   attempt : 0..Attempts, taken : BOOLEAN] BY DEF TypeOK
  <2>2. sweep.attempt < Attempts => sweep.attempt + 1 \in 0..Attempts
    BY <2>1, ForwardConstants
  <2>3. CASE sweep' = [sweep EXCEPT !.taken = TRUE] BY <2>1, <2>3
  <2>4. CASE sweep' = [sweep EXCEPT !.attempt = @ + 1, !.taken = FALSE] /\ sweep.attempt < Attempts
    BY <2>1, <2>2, <2>4
  <2> QED BY <1>5, <2>3, <2>4
<1>7. TypeOK' BY <1>1, <1>5, <1>6 DEF TypeOK
<1>8. BatchInv'
  <2>1. Log' = Log /\ \A q : Written(q)' = Written(q) /\ Key(q)' = Key(q) BY <1>1, SameRows
  <2>2. \A k, l : Less(k, l)' = Less(k, l) BY <1>1, SameRows
  <2>3. sweep'.taken /\ kind = "webhook" => sweep'.batch \X {sweep'.save} \subseteq got'
    <3>1. sweep \in [at : {"idle", "sending"}, began : Times, save : 0..Saves,
                     pause : 0..BackoffMax, batch : SUBSET Row, round : 0..MaxBatches,
                     attempt : 0..Attempts, taken : BOOLEAN] BY DEF TypeOK
    <3>2. sweep' = [sweep EXCEPT !.attempt = @ + 1, !.taken = FALSE] => ~sweep'.taken
      BY <3>1
    <3> QED BY <1>5, <1>6, <3>2
  <2>4. BatchInv BY DEF Inv
  <2>5. UNCHANGED <<kind, stamp, now, saves, fwd, due>> BY <1>1 DEF RowsSame
  <2>6. /\ sweep.batch # {} /\ sweep.began <= now
        /\ sweep.save \in SaveId /\ sweep.save <= saves
        /\ \A b \in sweep.batch : Written(b) /\ stamp[b] <= sweep.began - Settle
    BY <1>1, <2>4 DEF BatchInv
  <2>7. ASSUME fwd.save = sweep.save, NEW b \in sweep.batch
        PROVE  /\ Less(fwd.cursor, Key(b)')
               /\ \A r \in due \cap Log' :
                    Less(fwd.cursor, Key(r)') /\ ~Less(Key(b)', Key(r)') => r \in sweep.batch
    BY <1>1, <2>1, <2>4, <2>7 DEF BatchInv
  <2> QED BY <1>6, <2>1, <2>2, <2>3, <2>5, <2>6, <2>7 DEF BatchInv, Less
<1> QED BY <1>2, <1>3, <1>7, <1>8

(* A batch read after the cursor of that moment is as BatchInv has it. *)
LEMMA NewBatchInv ==
  ASSUME Inv, RowsSame, UNCHANGED <<due, saves, kind, got>>,
         NEW f, f.cursor \in Cursors, f.save \in 0..Saves, f.save <= saves,
         f.enabled \in BOOLEAN, f.enabled => f.save \in SaveId,
         fwd' = f,
         NEW round \in Nat, round <= MaxBatches + 1, round > 0,
         NEW began \in Times, began <= now,
         NEW pause \in 0..BackoffMax,
         sweep' = NextBatch(f, round, began, pause)
  PROVE  /\ BatchInv'
         /\ sweep' \in [at : {"idle", "sending"}, began : Times, save : 0..Saves,
                        pause : 0..BackoffMax, batch : SUBSET Row, round : 0..MaxBatches,
                        attempt : 0..Attempts, taken : BOOLEAN]
<1>1. CASE sweep' = Idle
  <2>1. BatchInv' BY <1>1 DEF BatchInv, Idle
  <2> QED BY <1>1, <2>1, ForwardConstants DEF Idle, Times, None
<1>2. CASE sweep' # Idle
  <2>1. f.enabled BY <1>2 DEF NextBatch
  <2>2. f.save \in SaveId BY <2>1
  <2>3. round <= MaxBatches \/ round = MaxBatches + 1 BY ForwardConstants
  <2>4. /\ sweep' \in [at : {"idle", "sending"}, began : Times, save : 0..Saves,
                       pause : 0..BackoffMax, batch : SUBSET Row, round : 0..MaxBatches,
                       attempt : 0..Attempts, taken : BOOLEAN]
        /\ sweep'.at = "sending" /\ sweep'.began = began /\ sweep'.save = f.save /\ ~sweep'.taken
        /\ sweep'.batch # {}
        /\ \A b \in sweep'.batch : /\ Written(b) /\ stamp[b] <= began - Settle
                                   /\ Less(f.cursor, Key(b))
        /\ \A b \in sweep'.batch, r \in Log :
             Less(f.cursor, Key(r)) /\ ~Less(Key(b), Key(r)) => r \in sweep'.batch
    BY <1>2, <2>2, <2>3, BatchFound
  <2>5. Log' = Log /\ \A q : Written(q)' = Written(q) /\ Key(q)' = Key(q) BY SameRows
  <2>6. UNCHANGED <<kind, stamp, now, saves, due>> BY DEF RowsSame
  <2> QED BY <2>2, <2>4, <2>5, <2>6 DEF BatchInv, Less
<1> QED BY <1>1, <1>2

(* A sweep starts. *)
LEMMA StartSweepInv == ASSUME Inv, StartSweep PROVE Inv'
<1> USE DEF Inv
<1>1. /\ UNCHANGED <<kind, now, place, stamp, rowid, due, fwd, saves, edit, wait, got>> /\ RowsSame
      /\ sweep' = NextBatch(fwd, 1, now, wait.pause)
      /\ Exists /\ fwd.enabled
  BY DEF StartSweep, rowVars, RowsSame
<1>2. Rowed' BY <1>1, SameRows
<1>3. CursorInv'
  <2>1. saves \in Nat /\ saves <= saves BY ForwardConstants DEF TypeOK
  <2> QED BY <1>1, <2>1, CursorKept DEF CursorInv, Exists
<1>4. /\ fwd.cursor \in Cursors /\ fwd.save \in 0..Saves /\ fwd.enabled \in BOOLEAN
      /\ fwd.save <= saves /\ fwd.save \in SaveId
      /\ now \in Times /\ now <= now /\ wait.pause \in 0..BackoffMax
      /\ 1 <= MaxBatches + 1 /\ 1 > 0 /\ 1 \in Nat
  BY <1>1, ForwardConstants DEF TypeOK, CursorInv, Exists, None, SaveId, Times
<1>5. /\ BatchInv'
      /\ sweep' \in [at : {"idle", "sending"}, began : Times, save : 0..Saves,
                     pause : 0..BackoffMax, batch : SUBSET Row, round : 0..MaxBatches,
                     attempt : 0..Attempts, taken : BOOLEAN]
  BY <1>1, <1>4, NewBatchInv
<1>6. TypeOK' BY <1>1, <1>5 DEF TypeOK
<1> QED BY <1>2, <1>3, <1>5, <1>6

(* The cursor moves to the last row of the batch, which every insert still *)
(* waiting is younger than.                                                *)
LEMMA DeliveredInv == ASSUME Inv, Delivered PROVE Inv'
<1> USE DEF Inv
<1> DEFINE moved == IF fwd.save = sweep.save
                    THEN [fwd EXCEPT !.cursor = LastKey(sweep.batch), !.status = "ok"]
                    ELSE fwd
<1>1. /\ UNCHANGED <<kind, now, place, stamp, rowid, due, saves, edit, got>> /\ RowsSame
      /\ sweep.at = "sending" /\ fwd' = moved /\ wait' = NoWait
      /\ sweep' = IF Cardinality(sweep.batch) < BatchSize THEN Idle
                  ELSE NextBatch(moved, sweep.round + 1, sweep.began, sweep.pause)
  BY DEF Delivered, rowVars, RowsSame
<1>2. Rowed' BY <1>1, SameRows
<1>3. /\ sweep.batch # {} /\ sweep.batch \subseteq Row /\ sweep.began <= now
      /\ sweep.save \in SaveId /\ sweep.save <= saves /\ sweep.began \in Times
      /\ \A b \in sweep.batch : Written(b) /\ stamp[b] <= sweep.began - Settle
  BY <1>1 DEF BatchInv, TypeOK
<1>4. fwd \in [save : 0..Saves, enabled : BOOLEAN, cursor : Cursors,
               status : {"none", "ok", "failed"}]
  BY DEF TypeOK
<1>5. PICK b \in sweep.batch : LastKey(sweep.batch) = Key(b)
  BY <1>3, LastExists
<1>6. b \in Row /\ Written(b) /\ Key(b) \in Cursors /\ Key(b)[1] = stamp[b]
      /\ stamp[b] \in Nat /\ stamp[b] <= now /\ stamp[b] <= sweep.began - Settle
  BY <1>3, Keys DEF Rowed, Cursors
<1>7. /\ moved \in [save : 0..Saves, enabled : BOOLEAN, cursor : Cursors,
                    status : {"none", "ok", "failed"}]
      /\ moved.save = fwd.save /\ moved.enabled = fwd.enabled
      /\ moved.cursor = IF fwd.save = sweep.save THEN Key(b) ELSE fwd.cursor
      /\ fwd.save # sweep.save => moved = fwd
  BY <1>4, <1>5, <1>6
<1> HIDE DEF moved
<1>8. CursorInv'
  <2>1. \A q : Written(q)' = Written(q) /\ Key(q)' = Key(q) BY <1>1, SameRows
  <2>2. CASE fwd.save = sweep.save
    <3>1. moved.cursor[1] <= now /\ moved.cursor = Key(b) BY <1>6, <1>7, <2>2
    <3>2. ASSUME NEW r \in due, place[r] = "waiting" PROVE moved.cursor[1] <= stamp[r]
      <4>1. r \in Row /\ now <= stamp[r] + Delay BY <3>2 DEF TypeOK, Rowed
      <4>2. stamp[r] \in Nat /\ now \in Nat /\ sweep.began \in Nat
        BY <4>1, <1>3, Keys, ForwardConstants DEF TypeOK, Times
      <4> QED BY <1>3, <1>6, <1>7, <2>2, <4>1, <4>2, ForwardConstants
    <3>3. fwd.save # None BY <1>3, <2>2, ForwardConstants DEF None, SaveId
    <3> QED BY <1>1, <1>6, <1>7, <2>1, <3>1, <3>2, <3>3 DEF CursorInv, Exists
  <2>3. CASE fwd.save # sweep.save
    <3>1. saves \in Nat /\ saves <= saves BY ForwardConstants DEF TypeOK
    <3> QED BY <1>1, <1>7, <2>3, <3>1, CursorKept DEF CursorInv, Exists
  <2> QED BY <2>2, <2>3
<1>9. /\ BatchInv'
      /\ sweep' \in [at : {"idle", "sending"}, began : Times, save : 0..Saves,
                     pause : 0..BackoffMax, batch : SUBSET Row, round : 0..MaxBatches,
                     attempt : 0..Attempts, taken : BOOLEAN]
  <2>1. CASE Cardinality(sweep.batch) < BatchSize
    <3>1. sweep' = Idle BY <1>1, <2>1
    <3>2. BatchInv' BY <3>1 DEF BatchInv, Idle
    <3> QED BY <3>1, <3>2, ForwardConstants DEF Idle, Times, None
  <2>2. CASE ~(Cardinality(sweep.batch) < BatchSize)
    <3>1. sweep' = NextBatch(moved, sweep.round + 1, sweep.began, sweep.pause) BY <1>1, <2>2
    <3>2. /\ sweep.round + 1 \in Nat /\ sweep.round + 1 <= MaxBatches + 1 /\ sweep.round + 1 > 0
          /\ sweep.pause \in 0..BackoffMax
      BY ForwardConstants DEF TypeOK
    <3>3. /\ moved.cursor \in Cursors /\ moved.save \in 0..Saves /\ moved.enabled \in BOOLEAN
          /\ moved.save <= saves
      BY <1>7 DEF CursorInv
    <3>4. moved.enabled => moved.save \in SaveId
      <4>1. ~Exists => ~moved.enabled BY <1>7 DEF CursorInv, NoForwarder
      <4> QED BY <1>7, <4>1, ForwardConstants DEF Exists, SaveId, None
    <3> QED BY <1>1, <1>3, <3>1, <3>2, <3>3, <3>4, NewBatchInv
  <2> QED BY <2>1, <2>2
<1>10. TypeOK' BY <1>1, <1>7, <1>9, ForwardConstants DEF TypeOK, NoWait
<1> QED BY <1>2, <1>8, <1>9, <1>10

(* Every step keeps the invariant. *)
THEOREM Inductive == Inv /\ [Next]_vars => Inv'
<1> SUFFICES ASSUME Inv, [Next]_vars PROVE Inv' OBVIOUS
<1>1. ASSUME NEW r \in Row, Begin(r) \/ Commit(r) \/ InsertFails(r) PROVE Inv'
  BY <1>1, BeginInv, CommitInv, InsertFailsInv
<1>2. CASE Prune BY <1>2, PruneInv
<1>3. CASE Tick BY <1>3, TickInv
<1>4. CASE BeginSave \/ SaveNew \/ SaveChange \/ SaveRefused \/ Remove BY <1>4, SettingsInv
<1>5. CASE StartSweep BY <1>5, StartSweepInv
<1>6. CASE TargetTakes \/ Retry BY <1>6, AttemptInv
<1>7. CASE Delivered BY <1>7, DeliveredInv
<1>8. CASE GiveUp \/ Restart BY <1>8, SweepEndsInv
<1>9. CASE UNCHANGED vars
  BY <1>9 DEF vars, Inv, TypeOK, Rowed, CursorInv, BatchInv, Exists, Written, Key, Log, Less
<1> QED BY <1>1, <1>2, <1>3, <1>4, <1>5, <1>6, <1>7, <1>8, <1>9 DEF Next

(* The state keeps its type: the round, attempt and pause bounds hold, and *)
(* whatever was accepted was a saved configuration's.                      *)
THEOREM TypeCorrect == Spec => []TypeOK
<1>1. Inv => TypeOK BY DEF Inv
<1> QED BY InitInv, Inductive, <1>1, PTL DEF Spec

-------------------------------------------------------------------------------
(* The refinement. *)

(* What leaves rows, cursor and targets alone is no step of the promise. *)
LEMMA Stutter ==
  ASSUME Inv, UNCHANGED <<place, stamp, rowid, due, got>>,
         fwd'.save = fwd.save, fwd'.cursor = fwd.cursor
  PROVE  UNCHANGED Delivery!vars
<1>1. Log' = Log /\ \A q : Key(q)' = Key(q) BY DEF Log, Key
<1>2. Owed' = Owed BY <1>1 DEF Owed, Less
<1> QED BY <1>1, <1>2 DEF Delivery!vars

(* A batch that is delivered is what stops being owed, and all of it was *)
(* accepted by the target in force.                                      *)
LEMMA DeliveredSettles ==
  ASSUME Inv, kind = "webhook", Delivered, fwd.save = sweep.save
  PROVE  Delivery!Settled(sweep.batch)
<1> USE DEF Inv
<1>1. /\ UNCHANGED <<place, stamp, rowid, due, got>> /\ sweep.at = "sending" /\ sweep.taken
      /\ fwd' = [fwd EXCEPT !.cursor = LastKey(sweep.batch), !.status = "ok"]
  BY DEF Delivered, AnswerGood, rowVars
<1>2. /\ sweep.batch # {} /\ sweep.batch \subseteq Row /\ sweep.save \in SaveId
      /\ sweep.batch \X {sweep.save} \subseteq got
      /\ \A b \in sweep.batch :
           /\ Less(fwd.cursor, Key(b))
           /\ \A r \in due \cap Log : Less(fwd.cursor, Key(r)) /\ ~Less(Key(b), Key(r))
                                        => r \in sweep.batch
  BY <1>1 DEF BatchInv, TypeOK
<1>3. PICK b \in sweep.batch : LastKey(sweep.batch) = Key(b)
                             /\ \A q \in sweep.batch : ~Less(Key(b), Key(q))
  BY <1>2, LastExists
<1>4. fwd'.cursor = Key(b) /\ fwd'.save = fwd.save
  BY <1>1, <1>3 DEF TypeOK
<1>5. Log' = Log /\ \A q : Key(q)' = Key(q) BY <1>1 DEF Log, Key
<1>6. \A r \in due \cap Log :
        Less(Key(b), Key(r)) <=> Less(fwd.cursor, Key(r)) /\ r \notin sweep.batch
  <2> TAKE r \in due \cap Log
  <2>1. b \in Row /\ r \in Row BY <1>2 DEF Log
  <2>2. Key(b) \in Nat \X Nat /\ Key(r) \in Nat \X Nat BY <2>1, Keys DEF Key
  <2>3. fwd.cursor \in Nat \X Nat
    BY ForwardConstants DEF TypeOK, Cursors, Times
  <2>4. Less(Key(b), Key(r)) => Less(fwd.cursor, Key(r))
    BY <1>2, <2>2, <2>3, LessTransitive
  <2> QED BY <1>2, <1>3, <2>4
<1>7. Owed' = Owed \ sweep.batch
  BY <1>1, <1>4, <1>5, <1>6 DEF Owed, Less
<1>8. fwd.save # None BY <1>2, ForwardConstants DEF SaveId, None
<1> QED BY <1>1, <1>2, <1>4, <1>5, <1>7, <1>8 DEF Delivery!Settled

(* Every step is one of the promise's, or none. *)
LEMMA StepRefines ==
  ASSUME Inv, kind = "webhook", [Next]_vars
  PROVE  Delivery!Next \/ UNCHANGED Delivery!vars
<1> USE DEF Inv
<1>0. /\ place \in [Row -> {"unborn", "waiting", "log", "gone"}]
      /\ stamp \in [Row -> Times] /\ rowid \in [Row -> 0..Rows] /\ due \subseteq Row
  BY DEF TypeOK
<1>1. ASSUME NEW r \in Row, Begin(r) PROVE Delivery!Next
  <2>1. Log' = Log /\ \A q \in Log : Key(q)' = Key(q) /\ q # r
    BY <1>0, <1>1 DEF Begin, Log, Key
  <2>2. Owed' = Owed
    BY <1>1, <2>1 DEF Begin, Owed, Less
  <2> QED BY <1>1, <2>1, <2>2 DEF Delivery!Next, Delivery!Begun, Begin, Exists
<1>2. ASSUME NEW r \in Row, Commit(r) PROVE Delivery!Next
  <2>1. Log' = Log \cup {r} /\ r \notin Log /\ \A q \in Log : Key(q)' = Key(q)
    BY <1>0, <1>2 DEF Commit, Log, Key
  <2>2. UNCHANGED <<fwd, due, got>> BY <1>2 DEF Commit
  <2>3. r \in due => Less(fwd.cursor, Key(r)') BY <1>2, CommitBehind
  <2>4. Owed' = Owed \cup ({r} \cap due)
    BY <2>1, <2>2, <2>3 DEF Owed, Less
  <2> QED BY <2>1, <2>2, <2>4 DEF Delivery!Next, Delivery!Logged
<1>3. ASSUME NEW r \in Row, InsertFails(r) PROVE UNCHANGED Delivery!vars
  <2>1. Log' = Log /\ \A q : Key(q)' = Key(q)
    BY <1>0, <1>3 DEF InsertFails, Log, Key
  <2>2. UNCHANGED <<fwd, due, got>> BY <1>3 DEF InsertFails
  <2>3. Owed' = Owed BY <2>1, <2>2 DEF Owed, Less
  <2> QED BY <2>1, <2>2, <2>3 DEF Delivery!vars
<1>4. CASE Prune
  <2>1. Log' = Log \ Expired /\ Expired \in SUBSET Row /\ \A q : Key(q)' = Key(q)
    BY <1>0, <1>4 DEF Prune, Log, Key, Expired
  <2>2. UNCHANGED <<fwd, due, got>> BY <1>4 DEF Prune
  <2>3. Owed' = Owed \ Expired BY <2>1, <2>2 DEF Owed, Less
  <2> QED BY <2>1, <2>2, <2>3 DEF Delivery!Next, Delivery!Pruned
<1>5. CASE Tick \/ BeginSave \/ SaveRefused \/ StartSweep \/ Retry \/ Restart
  <2>1. UNCHANGED <<place, stamp, rowid, due, got, fwd>>
    BY <1>5 DEF Tick, BeginSave, SaveRefused, StartSweep, Retry, Restart, rowVars
  <2> QED BY <2>1, Stutter
<1>6. CASE GiveUp
  <2>1. UNCHANGED <<place, stamp, rowid, due, got>> BY <1>6 DEF GiveUp, rowVars
  <2>2. fwd'.save = fwd.save /\ fwd'.cursor = fwd.cursor BY <1>6 DEF GiveUp, TypeOK
  <2> QED BY <2>1, <2>2, Stutter
<1>7. CASE Remove
  <2>1. UNCHANGED <<place, stamp, rowid, got>> /\ due' = {} /\ fwd'.save = None
    BY <1>7 DEF Remove, NoForwarder
  <2>2. Log' = Log /\ Owed' = {} BY <2>1 DEF Log, Owed
  <2> QED BY <2>1, <2>2 DEF Delivery!Next, Delivery!Removed
<1>8. CASE SaveNew \/ SaveChange
  <2>1. UNCHANGED <<place, stamp, rowid, got>> BY <1>8 DEF SaveNew, SaveChange
  <2>2. Log' = Log /\ \A q : Key(q)' = Key(q) BY <2>1 DEF Log, Key
  <2>3. saves < Saves => saves + 1 \in SaveId BY ForwardConstants DEF TypeOK, SaveId
  <2>4. CASE (SaveNew /\ Exists) \/ (SaveChange /\ ~Exists)
    <3>1. UNCHANGED <<fwd, due>> BY <2>4 DEF SaveNew, SaveChange
    <3> QED BY <2>1, <3>1, Stutter
  <2>5. CASE SaveNew /\ ~Exists
    <3>1. saves < Saves /\ fwd'.save = saves + 1 /\ due' = {} BY <2>5 DEF SaveNew
    <3>2. Owed' = {} BY <3>1 DEF Owed
    <3> QED BY <2>1, <2>2, <2>3, <2>5, <3>1, <3>2 DEF Delivery!Next, Delivery!SetUp, Exists
  <2>6. CASE SaveChange /\ Exists
    <3>1. PICK on \in BOOLEAN :
            fwd' = [fwd EXCEPT !.save = saves + 1, !.enabled = on, !.status = "none"]
      BY <2>6 DEF SaveChange
    <3>2. saves < Saves /\ due' = due BY <2>6 DEF SaveChange
    <3>3. fwd'.save = saves + 1 /\ fwd'.cursor = fwd.cursor BY <3>1 DEF TypeOK
    <3>4. Owed' = Owed BY <2>2, <3>2, <3>3 DEF Owed, Less
    <3> QED BY <2>1, <2>2, <2>3, <2>6, <3>2, <3>3, <3>4
            DEF Delivery!Next, Delivery!Swapped, Exists
  <2> QED BY <1>8, <2>4, <2>5, <2>6
<1>9. CASE TargetTakes
  <2>1. UNCHANGED <<place, stamp, rowid, due, fwd>>
        /\ got' = got \cup (sweep.batch \X {sweep.save})
        /\ sweep.at = "sending"
    BY <1>9 DEF TargetTakes, rowVars
  <2>2. sweep.batch \in SUBSET Row /\ sweep.save \in SaveId
    BY <2>1 DEF TypeOK, BatchInv
  <2>3. Log' = Log /\ \A q : Key(q)' = Key(q) BY <2>1 DEF Log, Key
  <2>4. Owed' = Owed BY <2>1, <2>3 DEF Owed, Less
  <2>5. Delivery!Accepted(sweep.save, sweep.batch)
    BY <2>1, <2>3, <2>4 DEF Delivery!Accepted
  <2> QED BY <2>2, <2>5 DEF Delivery!Next
<1>10. CASE Delivered
  <2>1. CASE fwd.save = sweep.save
    <3>1. sweep.batch \in SUBSET Row BY DEF TypeOK
    <3> QED BY <1>10, <2>1, <3>1, DeliveredSettles DEF Delivery!Next
  <2>2. CASE fwd.save # sweep.save
    <3>1. UNCHANGED <<place, stamp, rowid, due, got, fwd>>
      BY <1>10, <2>2 DEF Delivered, rowVars
    <3> QED BY <3>1, Stutter
  <2> QED BY <2>1, <2>2
<1>11. CASE UNCHANGED vars
  BY <1>11, Stutter DEF vars
<1> QED BY <1>1, <1>2, <1>3, <1>4, <1>5, <1>6, <1>7, <1>8, <1>9, <1>10, <1>11 DEF Next

(* Audit forwarding implements its promise: no due row falls behind the    *)
(* cursor that the target then in force has not accepted, for any number   *)
(* of rows and saves, any batch size and any times with Delay <= Settle.   *)
THEOREM Implements == Spec => AtLeastOnce
<1>1. Init => (kind = "webhook" => Delivery!Init)
  BY DEF Init, Delivery!Init, NoForwarder, Owed, Log
<1>2. Inv /\ [Next]_vars => [kind = "webhook" => Delivery!Next]_(Delivery!vars)
  BY StepRefines
<1> QED BY InitInv, Inductive, <1>1, <1>2, PTL DEF Spec, AtLeastOnce
===============================================================================
