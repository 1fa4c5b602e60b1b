----------------------------- MODULE AgyStreamProofs -----------------------------
(***************************************************************************)
(* Proofs about the stream of a turn: what is sent is sent once and in     *)
(* order, whatever happens; and as long as one drain cannot be spent on    *)
(* failing reads, nothing is missing and no hidden failure passes.         *)
(***************************************************************************)
EXTENDS AgyStream, TLAPS, FiniteSetTheorems, SequenceTheorems

--------------------------------------------------------------------------------
(***************************************************************************)
(* The updates of a read: the units it found, sorted.  A unit's place is   *)
(* the number of units up to it.                                           *)
(***************************************************************************)
LEMMA SortedExists ==
    ASSUME NEW U \in SUBSET (Nat \X Nat), IsFiniteSet(U)
    PROVE  \E seq \in [1 .. Cardinality(U) -> U] :
               \A k, l \in DOMAIN seq : k < l => Before(seq[k], seq[l])
<1> DEFINE n == Cardinality(U)
           UpTo(p) == {q \in U : q = p \/ Before(q, p)}
           place == [p \in U |-> Cardinality(UpTo(p))]
<1>1. n \in Nat BY FS_CardinalityType
<1>2. \A p, q \in U : p[1] \in Nat /\ p[2] \in Nat /\ (p[1] = q[1] /\ p[2] = q[2] => p = q)
  OBVIOUS
<1>3. \A p \in U : IsFiniteSet(UpTo(p)) /\ Cardinality(UpTo(p)) \in Nat /\ Cardinality(UpTo(p)) <= n
  <2> SUFFICES ASSUME NEW p \in U
               PROVE  IsFiniteSet(UpTo(p)) /\ Cardinality(UpTo(p)) \in Nat /\ Cardinality(UpTo(p)) <= n
    OBVIOUS
  <2>1. UpTo(p) \in SUBSET U OBVIOUS
  <2> HIDE DEF UpTo
  <2> QED BY <2>1, FS_Subset, FS_CardinalityType
<1>4. \A p \in U : Cardinality(UpTo(p)) # 0
  <2> SUFFICES ASSUME NEW p \in U PROVE Cardinality(UpTo(p)) # 0 OBVIOUS
  <2>1. p \in UpTo(p) OBVIOUS
  <2> HIDE DEF UpTo
  <2> QED BY <1>3, <2>1, FS_EmptySet
<1>5. ASSUME NEW p \in U, NEW q \in U, Before(p, q)
      PROVE  Cardinality(UpTo(p)) < Cardinality(UpTo(q))
  <2>1. UpTo(p) \in SUBSET UpTo(q) BY <1>2, <1>5 DEF Before
  <2>2. q \in UpTo(q) /\ q \notin UpTo(p) BY <1>2, <1>5 DEF Before
  <2> HIDE DEF UpTo
  <2>3. UpTo(p) # UpTo(q) BY <2>2
  <2> QED BY <1>3, <2>1, <2>3, FS_Subset
<1>6. \A p, q \in U : p = q \/ Before(p, q) \/ Before(q, p) BY <1>2 DEF Before
<1> DEFINE Places == 1 .. n
<1>7. place \in [U -> Places] BY <1>1, <1>3, <1>4
<1>8. \A p \in U : place[p] = Cardinality(UpTo(p)) OBVIOUS
<1> HIDE DEF place, UpTo
<1>9. place \in Injection(U, Places)
  <2>1. \A p, q \in U : place[p] = place[q] => p = q BY <1>3, <1>5, <1>6, <1>8
  <2> QED BY <1>7, <2>1 DEF Injection, IsInjective
<1>10. IsFiniteSet(Places) /\ Cardinality(Places) = n BY <1>1, FS_Interval
<1>11. place \in Surjection(U, Places) BY <1>9, <1>10, FS_Injection
<1>12. \A k \in Places : \E p \in U : place[p] = k BY <1>11 DEF Surjection
<1> DEFINE seq == [k \in Places |-> CHOOSE p \in U : place[p] = k]
<1>13. \A k \in Places : seq[k] \in U /\ place[seq[k]] = k BY <1>12
<1>14. seq \in [Places -> U] BY <1>13
<1> HIDE DEF seq
<1>15. ASSUME NEW k \in Places, NEW l \in Places, k < l PROVE Before(seq[k], seq[l])
  <2>1. seq[k] \in U /\ seq[l] \in U /\ place[seq[k]] = k /\ place[seq[l]] = l BY <1>13
  <2>2. k \in Int /\ l \in Int BY <1>1
  <2>3. seq[k] # seq[l] BY <1>15, <2>1, <2>2
  <2>4. ~Before(seq[l], seq[k])
    <3> SUFFICES ASSUME Before(seq[l], seq[k]) PROVE FALSE OBVIOUS
    <3>1. l < k BY <1>5, <1>8, <2>1
    <3> QED BY <1>15, <2>2, <3>1
  <2> QED BY <1>6, <2>1, <2>3, <2>4
<1> QED BY <1>14, <1>15

--------------------------------------------------------------------------------
\* The poller's counts: a row is read in part only while it is the last one read.
PollerInv ==
    /\ poller.base <= poller.last /\ poller.last <= Len(rows)
    /\ \A i \in Idx :
          /\ i <= poller.base \/ i > poller.last => poller.consumed[i] = 0
          /\ i \in DOMAIN rows => poller.consumed[i] <= rows[i].len
          /\ poller.base < i /\ i < poller.last => poller.consumed[i] = rows[i].len
    /\ runner.phase = "idle" => runner.stored = poller.last

\* What was sent lies below the watermark, and below the count of its row.
FeedInv ==
    \A m \in DOMAIN feed :
        /\ feed[m][1] <= poller.last
        /\ feed[m][1] <= poller.base \/ feed[m][2] <= poller.consumed[feed[m][1]]

\* The drain's budget.
AttemptInv ==
    /\ runner.phase = "polling" => runner.attempt = 0
    /\ runner.phase = "drain" => runner.attempt < DrainAttempts

OrderInv == TypeOK /\ AttemptInv /\ PollerInv /\ FeedInv /\ OnceInOrder

PhaseInv ==
    /\ runner.phase \in {"drain", "map"} => agy \in {"exited", "failed"}
    /\ runner.phase = "idle" => agy = "none"
    /\ frontend /\ runner.phase # "idle" => poller.base = runner.first

AllRead ==
    /\ poller.last = Len(rows)
    /\ \A i \in DOMAIN rows : i > poller.base => poller.consumed[i] = rows[i].len

\* A read of the drain that failed leaves another one.
DrainInv ==
    frontend =>
        /\ runner.phase = "polling" => runner.locked = 0
        /\ runner.phase = "drain" => \/ runner.attempt = runner.locked
                                     \/ runner.attempt = runner.locked + 1 /\ AllRead
        /\ runner.phase \in {"map", "idle"} => AllRead

\* What of a row was sent, by the count of what was read of it.
Followed(i) ==
    IF runner.show \/ rows[i].shape \in {"tool", "prose"} THEN Sent(i) = 1 .. poller.consumed[i]
    ELSE CASE rows[i].shape = "plan" -> Sent(i) = {}
           [] rows[i].shape = "plan first" -> poller.consumed[i] = 2 => 2 \in Sent(i)
           [] OTHER -> poller.consumed[i] = 1 => 1 \in Sent(i)

SentInv ==
    frontend =>
        /\ \A i \in DOMAIN rows : IF i <= poller.base THEN Surfaced(i) ELSE Followed(i)
        /\ poller.had => \E i \in DOMAIN rows : i > poller.base /\ Sent(i) # {}
StreamInv == OrderInv /\ PhaseInv /\ DrainInv /\ SentInv

--------------------------------------------------------------------------------
(***************************************************************************)
(* A read.                                                                 *)
(***************************************************************************)
LEMMA RowTypes ==
    ASSUME TypeOK
    PROVE  /\ Len(rows) \in Nat /\ DOMAIN rows = 1 .. Len(rows) /\ DOMAIN rows \subseteq Idx
           /\ \A i \in DOMAIN rows : rows[i].shape \in Shapes /\ rows[i].len \in 1 .. MaxUnits
           /\ Idx \subseteq Nat /\ MaxRows \in Nat
           /\ poller.base \in Nat /\ poller.last \in Nat
           /\ \A i \in Idx : poller.consumed[i] \in 0 .. MaxUnits
<1>1. /\ rows \in Seq([shape : Shapes, len : 1 .. MaxUnits]) /\ Len(rows) <= MaxRows
      /\ MaxRows \in Nat
  BY DrainAssumption DEF TypeOK
<1>2. Len(rows) \in Nat /\ DOMAIN rows = 1 .. Len(rows) /\ Idx \subseteq Nat BY <1>1 DEF Idx
<1>3. DOMAIN rows \subseteq Idx BY <1>1, <1>2 DEF Idx
<1>4. \A i \in DOMAIN rows : rows[i] \in [shape : Shapes, len : 1 .. MaxUnits]
  <2> DEFINE Row == [shape : Shapes, len : 1 .. MaxUnits]
  <2>1. rows \in Seq(Row) BY <1>1
  <2> HIDE DEF Row
  <2>2. \A i \in DOMAIN rows : rows[i] \in Row BY <2>1
  <2> QED BY <2>2 DEF Row
<1>5. \A i \in DOMAIN rows : rows[i].shape \in Shapes /\ rows[i].len \in 1 .. MaxUnits
  <2> SUFFICES ASSUME NEW i \in DOMAIN rows
               PROVE  rows[i].shape \in Shapes /\ rows[i].len \in 1 .. MaxUnits
    OBVIOUS
  <2> DEFINE row == rows[i]
  <2>1. row \in [shape : Shapes, len : 1 .. MaxUnits] BY <1>4
  <2> HIDE DEF row
  <2>2. row.shape \in Shapes /\ row.len \in 1 .. MaxUnits BY <2>1
  <2> QED BY <2>2 DEF row
<1>6. poller.base \in Nat /\ poller.last \in Nat BY <1>1 DEF TypeOK
<1>7. \A i \in Idx : poller.consumed[i] \in 0 .. MaxUnits BY DEF TypeOK
<1> QED BY <1>1, <1>2, <1>3, <1>5, <1>6, <1>7

LEMMA UnitParts ==
    ASSUME MaxRows \in Nat, NEW p \in Idx \X (1 .. MaxUnits)
    PROVE  p[1] \in Idx /\ p[1] \in Nat /\ p[2] \in 1 .. MaxUnits /\ p[2] \in Nat
<1>1. p[1] \in Idx /\ p[2] \in 1 .. MaxUnits OBVIOUS
<1>2. Idx \subseteq Nat /\ 1 .. MaxUnits \subseteq Nat BY DEF Idx, MaxUnits
<1> QED BY <1>1, <1>2

\* The updates are the units the read found, in order.
LEMMA UpdatesAre ==
    ASSUME TypeOK
    PROVE  /\ Updates \in Seq(Idx \X (1 .. MaxUnits))
           /\ \A k \in DOMAIN Updates : Updates[k] \in NewUnits
           /\ \A p \in NewUnits : \E k \in DOMAIN Updates : Updates[k] = p
           /\ \A k, l \in DOMAIN Updates : k < l => Before(Updates[k], Updates[l])
<1> DEFINE All == Idx \X (1 .. MaxUnits)
           n == Cardinality(NewUnits)
<1>1. MaxRows \in Nat /\ Idx \subseteq Nat /\ DOMAIN rows \subseteq Idx BY RowTypes
<1>2. NewUnits \subseteq All BY <1>1 DEF NewUnits, Steps
<1>3. IsFiniteSet(NewUnits)
  <2>1. IsFiniteSet(Idx) /\ IsFiniteSet(1 .. MaxUnits)
    <3>1. 1 \in Int /\ 2 \in Int /\ MaxRows \in Int BY <1>1
    <3> QED BY <3>1, FS_Interval DEF Idx, MaxUnits
  <2>2. IsFiniteSet(All) BY <2>1, FS_Product
  <2> QED BY <1>2, <2>2, FS_Subset
<1>4. NewUnits \in SUBSET (Nat \X Nat)
  <2>1. 1 .. MaxUnits \subseteq Nat BY DEF MaxUnits
  <2>2. All \subseteq Nat \X Nat BY <1>1, <2>1, Zenon
  <2> QED BY <1>2, <2>2
<1>5. n \in Nat BY <1>3, FS_CardinalityType
<1>6. /\ Updates \in [1 .. n -> NewUnits]
      /\ \A k, l \in DOMAIN Updates : k < l => Before(Updates[k], Updates[l])
  BY <1>3, <1>4, SortedExists DEF Updates
<1> DEFINE u == Updates
<1>7. u \in [1 .. n -> NewUnits] BY <1>6
<1> HIDE DEF u
<1>8. u \in Seq(All)
  <2>1. u \in [1 .. n -> All] BY <1>2, <1>7
  <2> HIDE DEF All, n
  <2> QED BY <1>5, <2>1
<1>9. \A k \in DOMAIN u : u[k] \in NewUnits BY <1>7
<1>10. \A k, l \in DOMAIN u : k < l => Before(u[k], u[l]) BY <1>6 DEF u
<1>11. u \in Injection(1 .. n, NewUnits)
  <2>1. ASSUME NEW k \in 1 .. n, NEW l \in 1 .. n, k < l PROVE u[k] # u[l]
    <3>1. Before(u[k], u[l]) BY <1>7, <1>10, <2>1
    <3>2. u[k] \in Nat \X Nat BY <1>4, <1>7
    <3> SUFFICES ASSUME u[k] = u[l] PROVE FALSE OBVIOUS
    <3>3. u[k][1] \in Nat /\ u[k][2] \in Nat BY <3>2
    <3> QED BY <3>1, <3>3 DEF Before
  <2>2. \A k, l \in 1 .. n : u[k] = u[l] => k = l
    <3> SUFFICES ASSUME NEW k \in 1 .. n, NEW l \in 1 .. n, u[k] = u[l], k # l PROVE FALSE OBVIOUS
    <3>1. k < l \/ l < k BY <1>5
    <3> QED BY <2>1, <3>1
  <2> QED BY <1>7, <2>2 DEF Injection, IsInjective
<1>12. IsFiniteSet(1 .. n) /\ Cardinality(1 .. n) = n
  <2> HIDE DEF n
  <2> QED BY <1>5, FS_Interval
<1>13. u \in Surjection(1 .. n, NewUnits) BY <1>3, <1>11, <1>12, FS_Injection
<1>14. \A p \in NewUnits : \E k \in DOMAIN u : u[k] = p BY <1>7, <1>13 DEF Surjection
<1> QED BY <1>8, <1>9, <1>10, <1>14 DEF u

\* A read takes in every row, whole.
LEMMA PollReads ==
    ASSUME OrderInv, Poll
    PROVE  /\ poller' \in [base : 0 .. MaxRows, last : 0 .. MaxRows,
                           consumed : [Idx -> 0 .. MaxUnits], had : BOOLEAN]
           /\ poller'.base = poller.base /\ poller'.last = Len(rows)
           /\ poller'.had = Had
           /\ \A i \in Idx : poller'.consumed[i] = IF i \in Steps THEN rows[i].len ELSE 0
           /\ poller.last <= Len(rows)
<1>1. TypeOK /\ PollerInv BY DEF OrderInv
<1>2. /\ Len(rows) \in Nat /\ DOMAIN rows = 1 .. Len(rows) /\ DOMAIN rows \subseteq Idx
      /\ \A i \in DOMAIN rows : rows[i].len \in 1 .. MaxUnits
      /\ Idx \subseteq Nat /\ MaxRows \in Nat
      /\ poller.base \in Nat /\ poller.last \in Nat
  BY <1>1, RowTypes
<1>3. poller.base <= poller.last /\ poller.last <= Len(rows) /\ Len(rows) <= MaxRows
  BY <1>1 DEF TypeOK, PollerInv
<1>4. (IF Steps = {} THEN poller.last ELSE Max(Steps \union {poller.last})) = Len(rows)
  <2>1. CASE Steps = {}
    <3>1. Len(rows) <= poller.base
      <4> SUFFICES ASSUME ~(Len(rows) <= poller.base) PROVE FALSE OBVIOUS
      <4>1. Len(rows) \in Steps BY <1>2 DEF Steps
      <4> QED BY <2>1, <4>1
    <3> QED BY <1>2, <1>3, <2>1, <3>1
  <2>2. CASE Steps # {}
    <3> DEFINE S == Steps \union {poller.last}
    <3>1. Len(rows) \in S /\ \A x \in S : x \in Nat /\ x <= Len(rows)
      <4>1. Len(rows) \in Steps BY <1>2, <2>2 DEF Steps
      <4> QED BY <1>2, <1>3, <4>1 DEF Steps
    <3> HIDE DEF S
    <3>2. Max(S) = CHOOSE x \in S : \A y \in S : x >= y BY DEF Max
    <3>3. Max(S) \in S /\ \A y \in S : Max(S) >= y BY <1>2, <3>1, <3>2
    <3>4. Max(S) = Len(rows) BY <1>2, <3>1, <3>3
    <3> QED BY <2>2, <3>4 DEF S
  <2> QED BY <2>1, <2>2
<1> DEFINE new == [i \in Idx |-> IF i \in Steps THEN Consumed(i) ELSE poller.consumed[i]]
<1>5. poller' = [poller EXCEPT !.last = Len(rows), !.consumed = new, !.had = Had]
  BY <1>4 DEF Poll
<1>6. new \in [Idx -> 0 .. MaxUnits]
  <2>1. ASSUME NEW i \in Idx PROVE (IF i \in Steps THEN Consumed(i) ELSE poller.consumed[i]) \in 0 .. MaxUnits
    <3>1. CASE i \in Steps BY <1>2, <3>1 DEF Steps, Consumed, MaxUnits
    <3>2. CASE i \notin Steps BY <1>1, <3>2 DEF TypeOK
    <3> QED BY <3>1, <3>2
  <2> QED BY <2>1
<1>7. Had \in BOOLEAN BY <1>1 DEF Had, TypeOK
<1>8. Len(rows) \in 0 .. MaxRows BY <1>2, <1>3
<1>9. ASSUME NEW i \in Idx PROVE new[i] = IF i \in Steps THEN rows[i].len ELSE 0
  <2>1. CASE i \in Steps BY <2>1 DEF Consumed
  <2>2. CASE i \notin Steps
    <3>1. i <= poller.base \/ i > poller.last BY <1>2, <1>3, <2>2 DEF Steps, Idx
    <3> QED BY <1>1, <2>2, <3>1 DEF PollerInv
  <2> QED BY <2>1, <2>2
<1> HIDE DEF new
<1>10. poller \in [base : 0 .. MaxRows, last : 0 .. MaxRows,
                   consumed : [Idx -> 0 .. MaxUnits], had : BOOLEAN]
  BY <1>1 DEF TypeOK
<1>11. /\ poller'.base = poller.base /\ poller'.last = Len(rows)
       /\ poller'.had = Had /\ poller'.consumed = new
  BY <1>5, <1>10
<1>12. poller' \in [base : 0 .. MaxRows, last : 0 .. MaxRows,
                    consumed : [Idx -> 0 .. MaxUnits], had : BOOLEAN]
  BY <1>5, <1>6, <1>7, <1>8, <1>10
<1> QED BY <1>3, <1>9, <1>11, <1>12
\* What a read sends lies behind all that was sent: the rows before the last one it
\* knew have not grown since, and what it knew of that one was sent.
LEMMA PollOnceInv ==
    ASSUME OrderInv, PollOnce, UNCHANGED rows, runner'.phase # "idle"
    PROVE  /\ poller' \in [base : 0 .. MaxRows, last : 0 .. MaxRows,
                           consumed : [Idx -> 0 .. MaxUnits], had : BOOLEAN]
           /\ feed' \in Seq(Idx \X (1 .. MaxUnits))
           /\ PollerInv' /\ FeedInv' /\ OnceInOrder'
<1>1. TypeOK /\ PollerInv /\ FeedInv /\ OnceInOrder BY DEF OrderInv
<1>2. /\ Len(rows) \in Nat /\ DOMAIN rows = 1 .. Len(rows) /\ DOMAIN rows \subseteq Idx
      /\ \A i \in DOMAIN rows : rows[i].len \in 1 .. MaxUnits
      /\ Idx \subseteq Nat /\ MaxRows \in Nat
      /\ poller.base \in Nat /\ poller.last \in Nat
      /\ \A i \in Idx : poller.consumed[i] \in 0 .. MaxUnits
  BY <1>1, RowTypes
<1>3. /\ poller' \in [base : 0 .. MaxRows, last : 0 .. MaxRows,
                      consumed : [Idx -> 0 .. MaxUnits], had : BOOLEAN]
      /\ poller'.base = poller.base /\ poller'.last = Len(rows)
      /\ \A i \in Idx : poller'.consumed[i] = IF i \in Steps THEN rows[i].len ELSE 0
      /\ poller.last <= Len(rows)
  BY PollReads DEF PollOnce
<1>4. poller.base <= poller.last BY <1>1 DEF PollerInv
<1>5. rows' = rows OBVIOUS
<1>6. PollerInv'
  <2>1. poller'.base <= poller'.last /\ poller'.last <= Len(rows') BY <1>2, <1>3, <1>4, <1>5
  <2>2. ASSUME NEW i \in Idx
        PROVE  /\ i <= poller'.base \/ i > poller'.last => poller'.consumed[i] = 0
               /\ i \in DOMAIN rows => poller'.consumed[i] <= rows[i].len
               /\ poller'.base < i /\ i < poller'.last => poller'.consumed[i] = rows[i].len
    <3>1. CASE i \in Steps
      <4>1. i \in DOMAIN rows /\ i > poller.base /\ poller'.consumed[i] = rows[i].len
        BY <1>3, <3>1 DEF Steps
      <4>2. ~(i <= poller.base) /\ ~(i > Len(rows)) BY <1>2, <4>1
      <4>3. rows[i].len <= rows[i].len BY <1>2, <4>1 DEF MaxUnits
      <4> QED BY <1>3, <4>1, <4>2, <4>3
    <3>2. CASE i \notin Steps
      <4>1. poller'.consumed[i] = 0 BY <1>3, <3>2
      <4>2. i <= poller.base \/ i > Len(rows) BY <1>2, <3>2 DEF Steps, Idx
      <4>3. i \in DOMAIN rows => 0 <= rows[i].len BY <1>2 DEF MaxUnits
      <4> QED BY <1>2, <1>3, <4>1, <4>2, <4>3
    <3> QED BY <3>1, <3>2
  <2> QED BY <1>5, <2>1, <2>2 DEF PollerInv
\* What was sent is behind nothing of this read.
<1>7. ASSUME NEW m \in DOMAIN feed, NEW p \in NewUnits PROVE Before(feed[m], p)
  <2>1. feed[m] \in Idx \X (1 .. MaxUnits) BY <1>1, <1>7 DEF TypeOK
  <2>2. /\ feed[m][1] \in Idx /\ feed[m][2] \in 1 .. MaxUnits /\ feed[m][1] \in Nat
        /\ feed[m][2] \in Nat
    BY <1>2, <2>1, UnitParts
  <2>3. /\ p[1] \in DOMAIN rows /\ p[1] > poller.base /\ p[1] \in Nat /\ p[1] \in Idx
        /\ p[2] \in Suffix(p[1])
    BY <1>2, <1>7 DEF NewUnits, Steps
  <2>4. p[2] \in poller.consumed[p[1]] + 1 .. rows[p[1]].len BY <2>3 DEF Suffix
  <2>5. p[2] \in Nat /\ poller.consumed[p[1]] < p[2] /\ poller.consumed[p[1]] < rows[p[1]].len
    BY <1>2, <2>3, <2>4 DEF MaxUnits
  <2>6. ~(p[1] < poller.last) BY <1>1, <2>3, <2>5, <1>2 DEF PollerInv
  <2>7. feed[m][1] <= poller.last /\ (feed[m][1] <= poller.base \/ feed[m][2] <= poller.consumed[feed[m][1]])
    BY <1>1 DEF FeedInv
  <2>8. CASE feed[m][1] < p[1] BY <2>8 DEF Before
  <2>9. CASE feed[m][1] = p[1]
    <3>1. feed[m][2] <= poller.consumed[p[1]] BY <1>2, <2>3, <2>7, <2>9
    <3>2. feed[m][2] < p[2] BY <1>2, <2>2, <2>3, <2>5, <3>1 DEF MaxUnits
    <3> QED BY <2>9, <3>2 DEF Before
  <2> QED BY <1>2, <2>2, <2>3, <2>6, <2>7, <2>8, <2>9
<1>8. ASSUME NEW p \in Idx \X (1 .. MaxUnits),
             (\E m \in DOMAIN feed : feed[m] = p) \/ p \in NewUnits
      PROVE  /\ p[1] <= poller'.last
             /\ p[1] <= poller'.base \/ p[2] <= poller'.consumed[p[1]]
  <2>1. p[1] \in Idx /\ p[1] \in Nat /\ p[2] \in 1 .. MaxUnits /\ p[2] \in Nat
    BY <1>2, UnitParts
  <2>2. CASE p \in NewUnits
    <3>1. p[1] \in Steps /\ p[2] \in Suffix(p[1]) BY <2>2 DEF NewUnits
    <3>2. p[2] \in poller.consumed[p[1]] + 1 .. rows[p[1]].len BY <3>1 DEF Suffix
    <3>3. p[1] \in DOMAIN rows BY <3>1 DEF Steps
    <3>4. p[2] <= rows[p[1]].len BY <1>2, <2>1, <3>2, <3>3 DEF MaxUnits
    <3> QED BY <1>2, <1>3, <2>1, <3>1, <3>3, <3>4
  <2>3. CASE \E m \in DOMAIN feed : feed[m] = p
    <3>1. p[1] <= poller.last /\ (p[1] <= poller.base \/ p[2] <= poller.consumed[p[1]])
      BY <1>1, <2>3 DEF FeedInv
    <3>2. p[1] <= Len(rows) BY <1>2, <1>3, <2>1, <3>1
    <3>3. CASE p[1] <= poller.base BY <1>3, <3>2, <3>3
    <3>4. CASE ~(p[1] <= poller.base)
      <4>1. p[1] \in Steps /\ p[1] \in DOMAIN rows BY <1>2, <2>1, <3>2, <3>4 DEF Steps, Idx
      <4>2. poller.consumed[p[1]] <= rows[p[1]].len BY <1>1, <2>1, <4>1 DEF PollerInv
      <4>3. p[2] <= rows[p[1]].len BY <1>2, <2>1, <3>1, <3>4, <4>1, <4>2 DEF MaxUnits
      <4> QED BY <1>3, <2>1, <3>2, <4>1, <4>3
    <3> QED BY <3>3, <3>4
  <2> QED BY <1>8, <2>2, <2>3
<1>9. CASE ~frontend
  <2>1. feed' = feed BY <1>9 DEF PollOnce
  <2>2. \A m \in DOMAIN feed : feed[m] \in Idx \X (1 .. MaxUnits) BY <1>1 DEF TypeOK
  <2>3. FeedInv' BY <1>8, <2>1, <2>2 DEF FeedInv
  <2> QED BY <1>1, <1>3, <1>6, <2>1, <2>3 DEF TypeOK, OnceInOrder
<1>10. CASE frontend
  <2> DEFINE All == Idx \X (1 .. MaxUnits)
             u == Updates
  <2>1. /\ u \in Seq(All)
        /\ \A k \in DOMAIN u : u[k] \in NewUnits
        /\ \A k, l \in DOMAIN u : k < l => Before(u[k], u[l])
    BY <1>1, UpdatesAre
  <2>2. feed \in Seq(All) BY <1>1 DEF TypeOK
  <2>3. feed' = feed \o u BY <1>10 DEF PollOnce
  <2> HIDE DEF u, All
  <2>4. /\ feed \o u \in Seq(All) /\ Len(feed \o u) = Len(feed) + Len(u)
        /\ \A i \in 1 .. Len(feed) + Len(u) :
              (feed \o u)[i] = IF i <= Len(feed) THEN feed[i] ELSE u[i - Len(feed)]
    BY <2>1, <2>2, ConcatProperties
  <2>5. /\ Len(feed) \in Nat /\ Len(u) \in Nat
        /\ DOMAIN feed = 1 .. Len(feed) /\ DOMAIN u = 1 .. Len(u)
        /\ DOMAIN feed' = 1 .. Len(feed) + Len(u)
    BY <2>1, <2>2, <2>3, <2>4
  <2>6. ASSUME NEW m \in DOMAIN feed'
        PROVE  \/ m \in DOMAIN feed /\ feed'[m] = feed[m]
               \/ /\ m > Len(feed) /\ m - Len(feed) \in DOMAIN u
                  /\ feed'[m] = u[m - Len(feed)] /\ feed'[m] \in NewUnits
    <3>1. CASE m <= Len(feed) BY <2>3, <2>4, <2>5, <2>6, <3>1
    <3>2. CASE ~(m <= Len(feed))
      <4>1. m \in Nat /\ m > Len(feed) /\ m - Len(feed) \in DOMAIN u BY <2>5, <2>6, <3>2
      <4>2. feed'[m] = u[m - Len(feed)] BY <2>3, <2>4, <2>5, <2>6, <3>2
      <4> QED BY <2>1, <4>1, <4>2
    <3> QED BY <3>1, <3>2
  <2>7. FeedInv'
    <3> SUFFICES ASSUME NEW m \in DOMAIN feed'
                 PROVE  /\ feed'[m][1] <= poller'.last
                        /\ feed'[m][1] <= poller'.base \/ feed'[m][2] <= poller'.consumed[feed'[m][1]]
      BY DEF FeedInv
    <3>1. feed'[m] \in All BY <2>3, <2>4, <2>5
    <3>2. (\E k \in DOMAIN feed : feed[k] = feed'[m]) \/ feed'[m] \in NewUnits BY <2>6
    <3> QED BY <1>8, <3>1, <3>2 DEF All
  <2>8. OnceInOrder'
    <3> SUFFICES ASSUME NEW m \in DOMAIN feed', NEW k \in DOMAIN feed', m < k
                 PROVE  Before(feed'[m], feed'[k])
      BY DEF OnceInOrder, Before
    <3>1. CASE m \in DOMAIN feed /\ feed'[m] = feed[m] /\ k \in DOMAIN feed /\ feed'[k] = feed[k]
      BY <1>1, <3>1 DEF OnceInOrder
    <3>2. CASE m \in DOMAIN feed /\ feed'[m] = feed[m] /\ feed'[k] \in NewUnits
      BY <1>7, <3>2
    <3>3. CASE /\ m > Len(feed) /\ m - Len(feed) \in DOMAIN u /\ feed'[m] = u[m - Len(feed)]
      <4>1. ~(k \in DOMAIN feed) BY <2>5, <3>3
      <4>2. k - Len(feed) \in DOMAIN u /\ feed'[k] = u[k - Len(feed)] BY <2>6, <4>1
      <4>3. m - Len(feed) < k - Len(feed) BY <2>5
      <4> QED BY <2>1, <3>3, <4>2, <4>3
    <3> QED BY <2>6, <3>1, <3>2, <3>3
  <2> QED BY <1>3, <1>6, <2>3, <2>4, <2>7, <2>8 DEF All
<1> QED BY <1>9, <1>10
--------------------------------------------------------------------------------
(***************************************************************************)
(* The order, through all steps.                                           *)
(***************************************************************************)
Runners == [turn : 0 .. MaxTurns, phase : {"idle", "polling", "drain", "map"},
            attempt : 0 .. DrainAttempts, locked : 0 .. MaxLocked,
            stored : 0 .. MaxRows, first : 0 .. MaxRows,
            cancelled : BOOLEAN, aborted : BOOLEAN, swallowed : BOOLEAN,
            quiet : BOOLEAN, result : {"none", "cancelled", "error", "end_turn"},
            show : BOOLEAN]
Pollers == [base : 0 .. MaxRows, last : 0 .. MaxRows,
            consumed : [Idx -> 0 .. MaxUnits], had : BOOLEAN]
AgyStates == {"none", "running", "exited", "failed"}

LEMMA NewPoller ==
    ASSUME NEW base \in 0 .. MaxRows
    PROVE  NewTurnPoller(base) \in Pollers
BY DrainAssumption DEF NewTurnPoller, Pollers, MaxUnits

LEMMA OrderInit == Init => OrderInv
<1> SUFFICES ASSUME Init PROVE OrderInv OBVIOUS
<1>1. /\ rows = <<>> /\ feed = <<>> /\ agy = "none" /\ frontend = TRUE
      /\ poller = NewTurnPoller(0)
      /\ runner.phase = "idle" /\ runner.stored = 0
  BY DEF Init
<1>2. MaxRows \in Nat /\ 0 \in 0 .. MaxRows BY DrainAssumption
<1>3. poller.base = 0 /\ poller.last = 0 /\ \A i \in Idx : poller.consumed[i] = 0
  BY <1>1 DEF NewTurnPoller
<1>4. runner \in Runners
  <2>1. /\ 0 \in 0 .. MaxTurns /\ 0 \in 0 .. DrainAttempts /\ 0 \in 0 .. MaxLocked
    BY DrainAssumption
  <2> QED BY <1>2, <2>1 DEF Init, Runners
<1>5. TypeOK BY <1>1, <1>2, <1>4, NewPoller DEF TypeOK, Runners, Pollers, AgyStates
<1>6. PollerInv
  <2>1. Len(rows) = 0 /\ DOMAIN rows = {} BY <1>1
  <2>2. \A i \in Idx : i \in Nat BY <1>2 DEF Idx
  <2>3. runner.stored = poller.last BY <1>1, <1>3
  <2>4. poller.base <= poller.last /\ poller.last <= Len(rows) BY <1>3, <2>1
  <2>5. \A i \in Idx : ~(poller.base < i /\ i < poller.last) BY <1>3, <2>2
  <2> QED BY <1>3, <2>1, <2>3, <2>4, <2>5 DEF PollerInv
<1>7. FeedInv /\ OnceInOrder BY <1>1 DEF FeedInv, OnceInOrder
<1>8. AttemptInv BY <1>1 DEF AttemptInv
<1> QED BY <1>5, <1>6, <1>7, <1>8 DEF OrderInv

\* Steps that read and write nothing.
LEMMA NothingRead ==
    ASSUME OrderInv, UNCHANGED <<rows, poller, feed>>,
           runner' \in Runners, agy' \in AgyStates, frontend' \in BOOLEAN,
           runner'.phase = "idle" => runner'.stored = poller.last,
           AttemptInv'
    PROVE  OrderInv'
<1>1. TypeOK' BY DEF OrderInv, TypeOK, Runners, AgyStates
<1>2. PollerInv' BY DEF OrderInv, PollerInv
<1>3. FeedInv' /\ OnceInOrder' BY DEF OrderInv, FeedInv, OnceInOrder
<1> QED BY <1>1, <1>2, <1>3 DEF OrderInv

LEMMA Typed ==
    ASSUME OrderInv
    PROVE  /\ runner \in Runners /\ poller \in Pollers /\ agy \in AgyStates /\ frontend \in BOOLEAN
           /\ DrainAttempts \in Nat /\ MaxTurns \in Nat /\ MaxLocked \in Nat /\ MaxRows \in Nat
BY DrainAssumption DEF OrderInv, TypeOK, Runners, Pollers, AgyStates

LEMMA AppendsOrder == OrderInv /\ Appends => OrderInv'
<1> SUFFICES ASSUME OrderInv, Appends PROVE OrderInv' OBVIOUS
<1>1. TypeOK /\ PollerInv /\ FeedInv /\ OnceInOrder BY DEF OrderInv
<1>2. PICK shape \in Shapes : rows' = Append(rows, [shape |-> shape, len |-> 1]) BY DEF Appends
<1>3. UNCHANGED <<agy, poller, runner, feed, frontend>> /\ Len(rows) < MaxRows BY DEF Appends
<1>4. /\ Len(rows) \in Nat /\ DOMAIN rows = 1 .. Len(rows) /\ MaxRows \in Nat
      /\ Idx \subseteq Nat /\ poller.last \in Nat /\ poller.base \in Nat
  BY <1>1, RowTypes
<1> DEFINE Row == [shape : Shapes, len : 1 .. MaxUnits]
           new == [shape |-> shape, len |-> 1]
<1>5. new \in Row BY DEF MaxUnits
<1>6. rows \in Seq(Row) BY <1>1 DEF TypeOK
<1> HIDE DEF Row, new
<1>7. rows' = Append(rows, new) BY <1>2 DEF new
<1>8. /\ rows' \in Seq(Row) /\ Len(rows') = Len(rows) + 1
      /\ \A i \in 1 .. Len(rows) : rows'[i] = rows[i]
      /\ rows'[Len(rows) + 1] = new
  BY <1>5, <1>6, <1>7, AppendProperties
<1>9. DOMAIN rows' = 1 .. Len(rows) + 1 /\ new.len = 1 BY <1>8 DEF new
<1>10. TypeOK'
  <2>1. Len(rows') <= MaxRows BY <1>3, <1>4, <1>8
  <2> QED BY <1>1, <1>3, <1>8, <2>1 DEF TypeOK, Row
<1>11. PollerInv'
  <2>1. ASSUME NEW i \in Idx
        PROVE  /\ i \in DOMAIN rows' => poller.consumed[i] <= rows'[i].len
               /\ poller.base < i /\ i < poller.last => poller.consumed[i] = rows'[i].len
    <3>1. poller.last <= Len(rows) BY <1>1 DEF PollerInv
    <3>2. CASE i \in DOMAIN rows BY <1>1, <1>4, <1>8, <3>2 DEF PollerInv
    <3>3. CASE i \notin DOMAIN rows
      <4>1. i > Len(rows) /\ i > poller.last BY <1>4, <3>1, <3>3 DEF Idx
      <4>2. poller.consumed[i] = 0 BY <1>1, <4>1 DEF PollerInv
      <4>3. i \in DOMAIN rows' => i = Len(rows) + 1 BY <1>4, <1>9, <4>1
      <4> QED BY <1>4, <1>8, <1>9, <4>1, <4>2, <4>3
    <3> QED BY <3>2, <3>3
  <2>2. poller.last <= Len(rows') BY <1>1, <1>4, <1>8 DEF PollerInv
  <2> QED BY <1>1, <1>3, <2>1, <2>2 DEF PollerInv
<1>12. FeedInv' /\ OnceInOrder' BY <1>1, <1>3 DEF FeedInv, OnceInOrder
<1>13. AttemptInv' BY <1>3 DEF OrderInv, AttemptInv
<1> QED BY <1>10, <1>11, <1>12, <1>13 DEF OrderInv

LEMMA GrowsOrder == OrderInv /\ Grows => OrderInv'
<1> SUFFICES ASSUME OrderInv, Grows PROVE OrderInv' OBVIOUS
<1>1. TypeOK /\ PollerInv /\ FeedInv /\ OnceInOrder BY DEF OrderInv
<1> DEFINE n == Len(rows)
           longer == rows[n].len + 1
<1>2. /\ n > runner.first /\ rows[n].len < FullLen(rows[n].shape)
      /\ rows' = [rows EXCEPT ![n].len = longer]
      /\ UNCHANGED <<agy, poller, runner, feed, frontend>>
  BY DEF Grows
<1>3. /\ n \in Nat /\ DOMAIN rows = 1 .. n /\ MaxRows \in Nat
      /\ Idx \subseteq Nat /\ poller.last \in Nat /\ poller.base \in Nat
      /\ \A i \in DOMAIN rows : rows[i].len \in 1 .. MaxUnits
      /\ \A i \in Idx : poller.consumed[i] \in 0 .. MaxUnits
  BY <1>1, RowTypes
<1>4. n \in DOMAIN rows
  <2>1. runner.first \in Nat BY <1>3 DEF TypeOK, OrderInv
  <2> QED BY <1>2, <1>3, <2>1
<1> DEFINE Row == [shape : Shapes, len : 1 .. MaxUnits]
           new == [rows[n] EXCEPT !.len = longer]
<1>5. rows \in Seq(Row) BY <1>1 DEF TypeOK
<1>6. longer \in 1 .. MaxUnits BY <1>2, <1>3, <1>4 DEF FullLen, MaxUnits
<1>7. new \in Row /\ new.len = longer /\ new.shape = rows[n].shape
  <2>1. rows[n] \in Row
    <3> HIDE DEF Row
    <3> QED BY <1>4, <1>5
  <2> DEFINE row == rows[n]
  <2> HIDE DEF row
  <2>2. row \in Row /\ new = [row EXCEPT !.len = longer] BY <2>1 DEF row
  <2> HIDE DEF longer, new
  <2>3. new \in Row /\ new.len = longer /\ new.shape = row.shape BY <1>6, <2>2
  <2> QED BY <2>3 DEF row
<1> HIDE DEF Row, new, longer
<1>8. rows' = [rows EXCEPT ![n] = new] BY <1>2 DEF new
<1>9. rows' \in Seq(Row) /\ Len(rows') = n /\ DOMAIN rows' = DOMAIN rows
  BY <1>4, <1>5, <1>7, <1>8
<1>10. rows'[n] = new /\ \A i \in DOMAIN rows : i # n => rows'[i] = rows[i] BY <1>3, <1>4, <1>8
<1>11. TypeOK' BY <1>1, <1>2, <1>9 DEF TypeOK, Row
<1>12. PollerInv'
  <2>1. ASSUME NEW i \in Idx
        PROVE  /\ i \in DOMAIN rows' => poller.consumed[i] <= rows'[i].len
               /\ poller.base < i /\ i < poller.last => poller.consumed[i] = rows'[i].len
    <3>1. poller.last <= n BY <1>1 DEF PollerInv
    <3>2. CASE i = n
      <4>1. poller.consumed[i] <= rows[i].len BY <1>1, <1>4, <3>2 DEF PollerInv
      <4>2. longer = rows[i].len + 1 BY <3>2 DEF longer
      <4>3. poller.consumed[i] <= longer BY <1>3, <1>4, <3>2, <4>1, <4>2 DEF MaxUnits
      <4>4. rows'[i].len = longer BY <1>7, <1>10, <3>2
      <4>5. ~(i < poller.last) BY <1>3, <3>1, <3>2
      <4> QED BY <4>3, <4>4, <4>5
    <3>3. CASE i # n
      <4>1. i \in DOMAIN rows => rows'[i] = rows[i] BY <1>10, <3>3
      <4>2. /\ i \in DOMAIN rows => poller.consumed[i] <= rows[i].len
            /\ poller.base < i /\ i < poller.last => poller.consumed[i] = rows[i].len
        BY <1>1 DEF PollerInv
      <4>3. poller.base < i /\ i < poller.last => i \in DOMAIN rows BY <1>3, <3>1
      <4> HIDE DEF n
      <4> QED BY <1>9, <4>1, <4>2, <4>3
    <3> QED BY <3>2, <3>3
  <2> QED BY <1>1, <1>2, <1>9, <2>1 DEF PollerInv
<1>13. FeedInv' /\ OnceInOrder' BY <1>1, <1>2 DEF FeedInv, OnceInOrder
<1>14. AttemptInv' BY <1>2 DEF OrderInv, AttemptInv
<1> QED BY <1>11, <1>12, <1>13, <1>14 DEF OrderInv

\* The next turn reads on from the watermark: all that was sent lies below it.
LEMMA LaunchOrder == OrderInv /\ Launch => OrderInv'
<1> SUFFICES ASSUME OrderInv, Launch PROVE OrderInv' OBVIOUS
<1>1. TypeOK /\ PollerInv /\ FeedInv /\ OnceInOrder BY DEF OrderInv
<1>2. /\ runner.phase = "idle" /\ runner.turn < MaxTurns
      /\ runner' = [runner EXCEPT !.turn = @ + 1, !.phase = "polling", !.attempt = 0,
                       !.locked = 0, !.first = Len(rows), !.cancelled = FALSE,
                       !.aborted = FALSE, !.swallowed = FALSE, !.result = "none"]
      /\ poller' = NewTurnPoller(runner.stored) /\ agy' = "running"
      /\ UNCHANGED <<rows, feed, frontend>>
  BY DEF Launch
<1>3. /\ Len(rows) \in Nat /\ MaxRows \in Nat /\ Idx \subseteq Nat
      /\ poller.last \in Nat /\ poller.base \in Nat
      /\ \A i \in DOMAIN rows : rows[i].len \in 1 .. MaxUnits
  BY <1>1, RowTypes
<1>4. runner.stored = poller.last /\ poller.last <= Len(rows) /\ Len(rows) <= MaxRows
  BY <1>1, <1>2 DEF PollerInv, TypeOK
<1>5. /\ poller' \in Pollers
      /\ poller'.base = poller.last /\ poller'.last = poller.last
      /\ \A i \in Idx : poller'.consumed[i] = 0
  <2>1. poller.last \in 0 .. MaxRows BY <1>3, <1>4
  <2> QED BY <1>2, <1>4, <2>1, NewPoller DEF NewTurnPoller
<1>6. runner' \in Runners /\ runner'.phase = "polling" /\ runner'.attempt = 0
  <2>1. runner \in Runners /\ DrainAttempts \in Nat /\ MaxTurns \in Nat /\ MaxLocked \in Nat BY Typed
  <2>2. runner.turn + 1 \in 0 .. MaxTurns BY <1>2, <2>1 DEF Runners
  <2>3. Len(rows) \in 0 .. MaxRows /\ 0 \in 0 .. DrainAttempts /\ 0 \in 0 .. MaxLocked
    BY <1>3, <1>4, <2>1
  <2> QED BY <1>2, <2>1, <2>2, <2>3 DEF Runners
<1>7. TypeOK' BY <1>1, <1>2, <1>5, <1>6 DEF TypeOK, Runners, Pollers
<1>8. PollerInv'
  <2>1. \A i \in DOMAIN rows : 0 <= rows[i].len BY <1>3 DEF MaxUnits
  <2>2. \A i \in Idx : ~(poller.last < i /\ i < poller.last)
    <3>1. poller.last \in Nat /\ \A i \in Idx : i \in Nat BY <1>3
    <3> QED BY <3>1
  <2> QED BY <1>2, <1>3, <1>4, <1>5, <1>6, <2>1, <2>2 DEF PollerInv
<1>9. FeedInv' BY <1>1, <1>2, <1>5 DEF FeedInv
<1>10. OnceInOrder' BY <1>1, <1>2 DEF OnceInOrder
<1>11. AttemptInv' BY <1>6 DEF AttemptInv
<1> QED BY <1>7, <1>8, <1>9, <1>10, <1>11 DEF OrderInv

\* A read, by the ticker or by the drain.
LEMMA ReadOrder ==
    ASSUME OrderInv, PollOnce, UNCHANGED <<rows, agy, frontend>>,
           runner' \in Runners, runner'.phase # "idle", AttemptInv'
    PROVE  OrderInv'
<1>1. /\ poller' \in Pollers /\ feed' \in Seq(Idx \X (1 .. MaxUnits))
      /\ PollerInv' /\ FeedInv' /\ OnceInOrder'
  BY PollOnceInv DEF Pollers
<1>2. TypeOK' BY <1>1 DEF OrderInv, TypeOK, Runners, Pollers
<1> QED BY <1>1, <1>2 DEF OrderInv

LEMMA RunnerOrder ==
    OrderInv /\ (Exits \/ Cancel \/ FrontendGone \/ Waited \/ Ends) => OrderInv'
<1> SUFFICES ASSUME OrderInv, Exits \/ Cancel \/ FrontendGone \/ Waited \/ Ends PROVE OrderInv'
  OBVIOUS
<1>1. runner \in Runners /\ poller \in Pollers /\ agy \in AgyStates /\ frontend \in BOOLEAN BY Typed
<1>2. runner.phase = "idle" => runner.stored = poller.last BY DEF OrderInv, PollerInv
<1> USE DEF AttemptInv
<1>8. AttemptInv /\ DrainAttempts \in Nat \ {0} BY DrainAssumption DEF OrderInv
<1>3. CASE Exits
  <2>1. PICK status \in {"exited", "failed"}, hidden \in BOOLEAN :
           agy' = status /\ runner' = [runner EXCEPT !.swallowed = hidden]
    BY <1>3 DEF Exits
  <2>2. runner' \in Runners /\ runner'.phase = runner.phase /\ runner'.stored = runner.stored
        /\ runner'.attempt = runner.attempt
    BY <1>1, <2>1 DEF Runners
  <2>3. UNCHANGED <<rows, poller, feed, frontend>> BY <1>3 DEF Exits
  <2> QED BY <1>1, <1>2, <1>8, <2>1, <2>2, <2>3, NothingRead DEF AgyStates
<1>4. CASE Cancel
  <2>1. runner' = [runner EXCEPT !.cancelled = TRUE] /\ UNCHANGED <<rows, agy, poller, feed, frontend>>
    BY <1>4 DEF Cancel
  <2>2. runner' \in Runners /\ runner'.phase = runner.phase /\ runner'.stored = runner.stored
        /\ runner'.attempt = runner.attempt
    BY <1>1, <2>1 DEF Runners
  <2> QED BY <1>1, <1>2, <1>8, <2>1, <2>2, NothingRead
<1>5. CASE FrontendGone BY <1>1, <1>2, <1>5, <1>8, NothingRead DEF FrontendGone
<1>6. CASE Waited
  <2>1. runner' = [runner EXCEPT !.phase = "drain"] /\ UNCHANGED <<rows, agy, poller, feed, frontend>>
    BY <1>6 DEF Waited
  <2>2. runner' \in Runners /\ runner'.phase = "drain" /\ runner'.attempt = runner.attempt
    BY <1>1, <2>1 DEF Runners
  <2>3. runner.attempt = 0 BY <1>6, <1>8 DEF Waited
  <2> QED BY <1>1, <1>8, <2>1, <2>2, <2>3, NothingRead
<1>7. CASE Ends
  <2>1. /\ runner' = [runner EXCEPT !.phase = "idle", !.result = Outcome, !.stored = poller.last]
        /\ agy' = "none" /\ UNCHANGED <<rows, poller, feed, frontend>>
    BY <1>7 DEF Ends
  <2>2. Outcome \in {"cancelled", "error", "end_turn"} BY DEF Outcome
  <2>3. poller.last \in 0 .. MaxRows BY <1>1 DEF Pollers
  <2>4. runner' \in Runners /\ runner'.stored = poller.last /\ runner'.phase = "idle"
    BY <1>1, <2>1, <2>2, <2>3 DEF Runners
  <2> QED BY <1>1, <2>1, <2>4, NothingRead DEF AgyStates
<1> QED BY <1>3, <1>4, <1>5, <1>6, <1>7

\* What the drain's reads leave of the runner.
DrainTo(ok, done) ==
    [runner EXCEPT !.attempt = @ + 1, !.locked = IF ok THEN @ ELSE @ + 1,
                   !.phase = IF done THEN "map" ELSE @,
                   !.quiet = IF done THEN DrainEnds(ok) /\ ~EmitFails ELSE @]

LEMMA DrainSteps ==
    ASSUME OrderInv, Drain
    PROVE  \E ok \in BOOLEAN, done \in BOOLEAN :
               /\ DrainEnds(ok) \/ runner.attempt + 1 = DrainAttempts => done
               /\ done => DrainEnds(ok) \/ MayExpire \/ runner.attempt + 1 = DrainAttempts
               /\ ok \/ runner.locked < MaxLocked
               /\ IF ok THEN PollOnce ELSE UNCHANGED <<poller, feed>>
               /\ runner' = DrainTo(ok, done)
               /\ runner.phase = "drain" /\ UNCHANGED <<rows, agy, frontend>>
<1>1. PICK ok \in BOOLEAN, late \in BOOLEAN :
         /\ ok \/ runner.locked < MaxLocked
         /\ late => MayExpire
         /\ IF ok THEN PollOnce ELSE UNCHANGED <<poller, feed>>
         /\ LET done == DrainEnds(ok) \/ late \/ runner.attempt + 1 = DrainAttempts
            IN  runner' = DrainTo(ok, done)
  BY DEF Drain, DrainTo
<1> DEFINE done == DrainEnds(ok) \/ late \/ runner.attempt + 1 = DrainAttempts
<1>2. done \in BOOLEAN OBVIOUS
<1>3. runner.phase = "drain" /\ UNCHANGED <<rows, agy, frontend>> BY DEF Drain
<1> QED BY <1>1, <1>2, <1>3
LEMMA TickOrder == OrderInv /\ Tick => OrderInv'
<1> SUFFICES ASSUME OrderInv, Tick PROVE OrderInv' OBVIOUS
<1>1. /\ PollOnce /\ UNCHANGED <<rows, agy, frontend>> /\ runner.phase = "polling"
      /\ runner' = [runner EXCEPT !.aborted = EmitFails]
  BY DEF Tick
<1>2. runner \in Runners /\ frontend \in BOOLEAN /\ AttemptInv BY Typed DEF OrderInv
<1>3. EmitFails \in BOOLEAN BY DEF EmitFails
<1>4. runner' \in Runners /\ runner'.phase = "polling" /\ runner'.attempt = runner.attempt
  BY <1>1, <1>2, <1>3 DEF Runners
<1>5. AttemptInv' BY <1>1, <1>2, <1>4 DEF AttemptInv
<1> QED BY <1>1, <1>4, <1>5, ReadOrder

LEMMA DrainOrder == OrderInv /\ Drain => OrderInv'
<1> SUFFICES ASSUME OrderInv, Drain PROVE OrderInv' OBVIOUS
<1>1. PICK ok \in BOOLEAN, done \in BOOLEAN :
         /\ DrainEnds(ok) \/ runner.attempt + 1 = DrainAttempts => done
         /\ done => DrainEnds(ok) \/ MayExpire \/ runner.attempt + 1 = DrainAttempts
         /\ ok \/ runner.locked < MaxLocked
         /\ IF ok THEN PollOnce ELSE UNCHANGED <<poller, feed>>
         /\ runner' = DrainTo(ok, done)
         /\ runner.phase = "drain" /\ UNCHANGED <<rows, agy, frontend>>
  BY DrainSteps
<1>2. /\ runner \in Runners /\ agy \in AgyStates /\ frontend \in BOOLEAN
      /\ DrainAttempts \in Nat /\ MaxLocked \in Nat
  BY Typed
<1>3. runner.attempt \in Nat /\ runner.attempt < DrainAttempts /\ runner.locked \in 0 .. MaxLocked
  BY <1>1, <1>2 DEF OrderInv, AttemptInv, Runners
<1>4. /\ runner.attempt + 1 \in 0 .. DrainAttempts
      /\ (IF ok THEN runner.locked ELSE runner.locked + 1) \in 0 .. MaxLocked
  BY <1>1, <1>2, <1>3
<1>5. (IF done THEN DrainEnds(ok) /\ ~EmitFails ELSE runner.quiet) \in BOOLEAN
  BY <1>2 DEF DrainEnds, EmitFails, Runners
<1>6. /\ runner' \in Runners /\ runner'.attempt = runner.attempt + 1
      /\ runner'.phase = IF done THEN "map" ELSE "drain"
  BY <1>1, <1>2, <1>4, <1>5 DEF Runners, DrainTo
<1>7. AttemptInv' BY <1>1, <1>2, <1>3, <1>6 DEF AttemptInv
<1>8. runner'.phase # "idle" BY <1>6
<1> QED BY <1>1, <1>2, <1>6, <1>7, <1>8, ReadOrder, NothingRead

LEMMA OrderNext == OrderInv /\ [Next]_vars => OrderInv'
<1> SUFFICES ASSUME OrderInv, [Next]_vars PROVE OrderInv' OBVIOUS
<1>1. CASE UNCHANGED vars
  <2>1. UNCHANGED <<rows, poller, feed>> /\ UNCHANGED <<runner, agy, frontend>> BY <1>1 DEF vars
  <2>2. runner' \in Runners /\ agy' \in AgyStates /\ frontend' \in BOOLEAN BY <2>1, Typed
  <2>3. (runner'.phase = "idle" => runner'.stored = poller.last) /\ AttemptInv'
    BY <2>1 DEF OrderInv, PollerInv, AttemptInv
  <2> QED BY <2>1, <2>2, <2>3, NothingRead
<1> QED BY <1>1, AppendsOrder, GrowsOrder, LaunchOrder, RunnerOrder, TickOrder, DrainOrder DEF Next

\* The frontend is sent every unit of text and every tool call at most once, in the
\* order of the conversation, over any number of turns, rows and failing reads
\* (TurnPoller.Poll in internal/agy/poller.go, Bridge.runTurn in runner.go).
THEOREM OnceInOrderHolds == Spec => []OnceInOrder
<1>1. OrderInv => OnceInOrder BY DEF OrderInv
<1> QED BY <1>1, OrderInit, OrderNext, PTL DEF Spec

\* The variables have their types, in particular the drain keeps to its attempts.
THEOREM StreamTypesHold == Spec => []TypeOK
<1>1. OrderInv => TypeOK BY DEF OrderInv
<1> QED BY <1>1, OrderInit, OrderNext, PTL DEF Spec
--------------------------------------------------------------------------------
(***************************************************************************)
(* What was sent, while the frontend reads.                                *)
(***************************************************************************)
LEMMA SentAre ==
    ASSUME NEW i, NEW u
    PROVE  u \in Sent(i) <=> \E m \in DOMAIN feed : feed[m][1] = i /\ feed[m][2] = u
BY DEF Sent, ToSet

\* A read sends what is new in a row, and nothing else.
LEMMA SentGrows ==
    ASSUME OrderInv, PollOnce, frontend, NEW i \in Idx
    PROVE  Sent(i)' = IF i \in Steps THEN Sent(i) \union Suffix(i) ELSE Sent(i)
<1>1. TypeOK BY DEF OrderInv
<1>2. MaxRows \in Nat /\ DOMAIN rows \subseteq Idx BY <1>1, RowTypes
<1> DEFINE All == Idx \X (1 .. MaxUnits)
           u == Updates
<1>3. /\ u \in Seq(All)
      /\ \A k \in DOMAIN u : u[k] \in NewUnits
      /\ \A p \in NewUnits : \E k \in DOMAIN u : u[k] = p
  BY <1>1, UpdatesAre
<1>4. feed \in Seq(All) /\ feed' = feed \o u BY <1>1 DEF TypeOK, PollOnce
<1> HIDE DEF u
<1>5. \A m : m \in DOMAIN feed' =>
         \/ m \in DOMAIN feed /\ feed'[m] = feed[m]
         \/ \E k \in DOMAIN u : feed'[m] = u[k]
  <2> HIDE DEF All
  <2>1. /\ Len(feed \o u) = Len(feed) + Len(u) /\ feed \o u \in Seq(All)
        /\ \A j \in 1 .. Len(feed) + Len(u) :
              (feed \o u)[j] = IF j <= Len(feed) THEN feed[j] ELSE u[j - Len(feed)]
    BY <1>3, <1>4, ConcatProperties
  <2>2. Len(feed) \in Nat /\ Len(u) \in Nat /\ DOMAIN feed = 1 .. Len(feed) /\ DOMAIN u = 1 .. Len(u)
        /\ DOMAIN feed' = 1 .. Len(feed) + Len(u)
    BY <1>3, <1>4, <2>1
  <2> SUFFICES ASSUME NEW m \in 1 .. Len(feed) + Len(u)
               PROVE  \/ m \in DOMAIN feed /\ feed'[m] = feed[m]
                      \/ \E k \in DOMAIN u : feed'[m] = u[k]
    BY <2>2
  <2>3. CASE m <= Len(feed) BY <1>4, <2>1, <2>2, <2>3
  <2>4. CASE ~(m <= Len(feed))
    <3>1. m - Len(feed) \in DOMAIN u BY <2>2, <2>4
    <3>2. feed'[m] = u[m - Len(feed)] BY <1>4, <2>1, <2>4
    <3> QED BY <3>1, <3>2
  <2> QED BY <2>3, <2>4
<1>6. /\ \A m \in DOMAIN feed : m \in DOMAIN feed' /\ feed'[m] = feed[m]
      /\ \A k \in DOMAIN u : \E m \in DOMAIN feed' : feed'[m] = u[k]
  <2> HIDE DEF All
  <2>1. /\ Len(feed \o u) = Len(feed) + Len(u) /\ feed \o u \in Seq(All)
        /\ \A j \in 1 .. Len(feed) + Len(u) :
              (feed \o u)[j] = IF j <= Len(feed) THEN feed[j] ELSE u[j - Len(feed)]
    BY <1>3, <1>4, ConcatProperties
  <2>2. Len(feed) \in Nat /\ Len(u) \in Nat /\ DOMAIN feed = 1 .. Len(feed) /\ DOMAIN u = 1 .. Len(u)
        /\ DOMAIN feed' = 1 .. Len(feed) + Len(u)
    BY <1>3, <1>4, <2>1
  <2>3. \A m \in DOMAIN feed : m \in DOMAIN feed' /\ feed'[m] = feed[m] BY <1>4, <2>1, <2>2
  <2>4. ASSUME NEW k \in DOMAIN u PROVE \E m \in DOMAIN feed' : feed'[m] = u[k]
    <3> DEFINE j == Len(feed) + k
    <3>1. j \in 1 .. Len(feed) + Len(u) /\ ~(j <= Len(feed)) /\ j - Len(feed) = k BY <2>2
    <3> HIDE DEF j
    <3>2. feed'[j] = u[k] BY <1>4, <2>1, <3>1
    <3> QED BY <2>2, <3>1, <3>2
  <2> QED BY <2>3, <2>4
<1>7. \A v : v \in Sent(i)' <=> \E m \in DOMAIN feed' : feed'[m][1] = i /\ feed'[m][2] = v
  BY DEF Sent, ToSet
<1>8. \A v : (\E p \in NewUnits : p[1] = i /\ p[2] = v) <=> i \in Steps /\ v \in Suffix(i)
  <2>1. \A v \in Suffix(i) : i \in Steps => v \in 1 .. MaxUnits
    <3> SUFFICES ASSUME NEW v \in Suffix(i), i \in Steps PROVE v \in 1 .. MaxUnits OBVIOUS
    <3>1. i \in DOMAIN rows BY DEF Steps
    <3>2. rows[i].len \in 1 .. MaxUnits /\ poller.consumed[i] \in 0 .. MaxUnits BY <1>1, <3>1, RowTypes
    <3>3. v \in poller.consumed[i] + 1 .. rows[i].len BY DEF Suffix
    <3> QED BY <3>2, <3>3 DEF MaxUnits
  <2>2. ASSUME NEW v, i \in Steps, v \in Suffix(i) PROVE \E p \in NewUnits : p[1] = i /\ p[2] = v
    <3>1. <<i, v>> \in NewUnits BY <2>1, <2>2 DEF NewUnits
    <3> QED BY <3>1
  <2>3. ASSUME NEW v, NEW p \in NewUnits, p[1] = i, p[2] = v PROVE i \in Steps /\ v \in Suffix(i)
    BY <2>3 DEF NewUnits
  <2> QED BY <2>2, <2>3
<1>9. ASSUME NEW v
      PROVE  v \in Sent(i)' <=> v \in Sent(i) \/ (i \in Steps /\ v \in Suffix(i))
  <2>1. ASSUME v \in Sent(i)' PROVE v \in Sent(i) \/ (i \in Steps /\ v \in Suffix(i))
    <3>1. PICK m \in DOMAIN feed' : feed'[m][1] = i /\ feed'[m][2] = v BY <1>7, <2>1
    <3>2. CASE m \in DOMAIN feed /\ feed'[m] = feed[m] BY <3>1, <3>2, SentAre
    <3>3. CASE \E k \in DOMAIN u : feed'[m] = u[k]
      <4>1. feed'[m] \in NewUnits BY <1>3, <3>3
      <4> QED BY <1>8, <3>1, <4>1
    <3> QED BY <1>5, <3>2, <3>3
  <2>2. ASSUME v \in Sent(i) PROVE v \in Sent(i)'
    <3>1. PICK m \in DOMAIN feed : feed[m][1] = i /\ feed[m][2] = v BY <2>2, SentAre
    <3>2. m \in DOMAIN feed' /\ feed'[m] = feed[m] BY <1>6
    <3> QED BY <1>7, <3>1, <3>2
  <2>3. ASSUME i \in Steps, v \in Suffix(i) PROVE v \in Sent(i)'
    <3>1. PICK p \in NewUnits : p[1] = i /\ p[2] = v BY <1>8, <2>3
    <3>2. PICK k \in DOMAIN u : u[k] = p BY <1>3
    <3>3. PICK m \in DOMAIN feed' : feed'[m] = u[k] BY <1>6
    <3> QED BY <1>7, <3>1, <3>2, <3>3
  <2> QED BY <2>1, <2>2, <2>3
<1> QED BY <1>9

\* After a read, every row was read whole and sent as its shape has it.
LEMMA ReadSent ==
    ASSUME OrderInv, SentInv, PollOnce, UNCHANGED <<rows, frontend>>, runner'.show = runner.show
    PROVE  SentInv' /\ AllRead' /\ poller'.base = poller.base
<1>1. TypeOK /\ PollerInv BY DEF OrderInv
<1>2. /\ Len(rows) \in Nat /\ DOMAIN rows = 1 .. Len(rows) /\ DOMAIN rows \subseteq Idx
      /\ \A i \in DOMAIN rows : rows[i].shape \in Shapes /\ rows[i].len \in 1 .. MaxUnits
      /\ poller.base \in Nat
      /\ \A i \in Idx : poller.consumed[i] \in 0 .. MaxUnits
      /\ MaxRows \in Nat
  BY <1>1, RowTypes
<1>3. /\ poller'.base = poller.base /\ poller'.last = Len(rows) /\ poller'.had = Had
      /\ \A i \in Idx : poller'.consumed[i] = IF i \in Steps THEN rows[i].len ELSE 0
  BY PollReads DEF PollOnce
<1>4. rows' = rows /\ frontend' = frontend OBVIOUS
<1>5. AllRead' BY <1>2, <1>3, <1>4 DEF AllRead, Steps
<1>6. ASSUME frontend, NEW i \in DOMAIN rows
      PROVE  IF i <= poller.base THEN Surfaced(i)' ELSE Followed(i)'
  <2>1. IF i <= poller.base THEN Surfaced(i) ELSE Followed(i) BY <1>6 DEF SentInv
  <2>2. CASE i <= poller.base
    <3>1. i \notin Steps BY <1>2, <2>2 DEF Steps
    <3>2. Sent(i)' = Sent(i) BY <1>2, <1>6, <3>1, SentGrows
    <3>3. Surfaced(i) BY <2>1, <2>2
    <3>4. Surfaced(i)' BY <1>4, <3>2, <3>3, Zenon DEF Surfaced
    <3> QED BY <2>2, <3>4
  <2>3. CASE ~(i <= poller.base)
    <3>1. i \in Steps BY <1>2, <2>3 DEF Steps
    <3> DEFINE len == rows[i].len
               old == poller.consumed[i]
               shape == rows[i].shape
    <3>2. Sent(i)' = Sent(i) \union Suffix(i) BY <1>2, <1>6, <3>1, SentGrows
    <3>3. poller'.consumed[i] = len /\ rows'[i].shape = shape BY <1>2, <1>3, <1>4, <3>1
    <3>4. len \in {1, 2} /\ old \in {0, 1, 2} /\ old <= len /\ shape \in Shapes
      BY <1>1, <1>2 DEF MaxUnits, PollerInv
    <3>5. Suffix(i) = IF ~runner.show /\ Narrates(rows[i]) THEN {} ELSE old + 1 .. len
      BY DEF Suffix
    <3>6. Narrates(rows[i]) <=> \/ shape = "plan"
                                \/ shape = "plan first" /\ len = 1
                                \/ shape = "plan later" /\ len = 2
      BY DEF Narrates
    <3> DEFINE before == Sent(i)
               after == Sent(i)'
               more == Suffix(i)
    <3>7. after = before \union more BY <3>2
    <3> HIDE DEF len, old, shape
    <3>8. CASE runner.show \/ shape \in {"tool", "prose"}
      <4>1. before = 1 .. old BY <2>1, <2>3, <3>8, Zenon DEF Followed, old, shape
      <4>2. more = old + 1 .. len BY <3>5, <3>6, <3>8
      <4> HIDE DEF before, after, more
      <4>3. after = 1 .. len BY <3>4, <3>7, <4>1, <4>2
      <4> QED BY <2>3, <3>3, <3>8, <4>3, Zenon DEF Followed, after, shape
    <3>9. CASE ~(runner.show \/ shape \in {"tool", "prose"})
      <4>1. CASE shape = "plan"
        <5>1. before = {} BY <2>1, <2>3, <3>9, <4>1 DEF Followed, shape
        <5>2. more = {} BY <3>5, <3>6, <3>9, <4>1
        <5>3. after = {} BY <3>7, <5>1, <5>2
        <5>4. Followed(i)' BY <3>3, <3>9, <4>1, <5>3 DEF Followed, shape
        <5> QED BY <2>3, <5>4
      <4>2. CASE shape = "plan first"
        <5>1. old = 2 => 2 \in before BY <2>1, <2>3, <3>9, <4>2 DEF Followed, old, shape
        <5>6. ASSUME len = 2 PROVE ~Narrates(rows[i])
          <6>1. len # 1 BY <5>6
          <6>2. shape # "plan" /\ shape # "plan later" BY <4>2
          <6> QED BY <3>6, <6>1, <6>2, Zenon
        <5>2. len = 2 => more = old + 1 .. 2 BY <3>5, <5>6, Zenon
        <5>3. len = 2 /\ old # 2 => 2 \in more BY <3>4, <5>2
        <5>4. len = 2 => 2 \in after BY <3>7, <5>1, <5>3
        <5>5. Followed(i)' BY <3>3, <3>9, <4>2, <5>4 DEF Followed, shape
        <5> QED BY <2>3, <5>5
      <4>3. CASE shape = "plan later"
        <5>1. old = 1 => 1 \in before BY <2>1, <2>3, <3>9, <4>3 DEF Followed, old, shape
        <5>6. ASSUME len = 1 PROVE ~Narrates(rows[i])
          <6>1. len # 2 BY <5>6
          <6>2. shape # "plan" /\ shape # "plan first" BY <4>3
          <6> QED BY <3>6, <6>1, <6>2, Zenon
        <5>2. len = 1 => more = old + 1 .. 1 BY <3>5, <5>6, Zenon
        <5>3. len = 1 /\ old # 1 => 1 \in more BY <3>4, <5>2
        <5>4. len = 1 => 1 \in after BY <3>7, <5>1, <5>3
        <5>5. Followed(i)' BY <3>3, <3>9, <4>3, <5>4 DEF Followed, shape
        <5> QED BY <2>3, <5>5
      <4> QED BY <3>4, <3>9, <4>1, <4>2, <4>3 DEF Shapes
    <3> QED BY <3>8, <3>9
  <2> QED BY <2>2, <2>3
<1>7. ASSUME frontend, poller'.had PROVE \E i \in DOMAIN rows : i > poller.base /\ Sent(i)' # {}
  <2>1. CASE poller.had
    <3>1. PICK i \in DOMAIN rows : i > poller.base /\ Sent(i) # {} BY <1>7, <2>1 DEF SentInv
    <3>2. Sent(i) \subseteq Sent(i)' BY <1>2, <1>7, SentGrows
    <3> QED BY <3>1, <3>2
  <2>2. CASE NewUnits # {}
    <3>1. PICK p \in NewUnits : TRUE BY <2>2
    <3>2. p[1] \in Steps /\ p[2] \in Suffix(p[1]) BY DEF NewUnits
    <3>3. p[1] \in DOMAIN rows /\ p[1] > poller.base BY <3>2 DEF Steps
    <3> DEFINE i == p[1]
    <3>4. i \in Idx /\ i \in Steps /\ p[2] \in Suffix(i) BY <1>2, <3>2, <3>3
    <3> HIDE DEF i
    <3>5. p[2] \in Sent(i)' BY <1>7, <3>4, SentGrows
    <3> QED BY <3>3, <3>5 DEF i
  <2> QED BY <1>3, <1>7, <2>1, <2>2 DEF Had
<1>8. SentInv' BY <1>3, <1>4, <1>6, <1>7 DEF SentInv
<1> QED BY <1>3, <1>5, <1>8
--------------------------------------------------------------------------------
(***************************************************************************)
(* Delivery, through all steps, when one read of the drain is left after   *)
(* all that may fail.                                                      *)
(***************************************************************************)
LEMMA StreamInit == Init => StreamInv
<1> SUFFICES ASSUME Init PROVE StreamInv OBVIOUS
<1>1. OrderInv BY OrderInit
<1>2. /\ rows = <<>> /\ agy = "none" /\ runner.phase = "idle" /\ poller = NewTurnPoller(0)
  BY DEF Init
<1>3. DOMAIN rows = {} /\ Len(rows) = 0 BY <1>2
<1>4. poller.last = 0 /\ poller.had = FALSE BY <1>2 DEF NewTurnPoller
<1>5. PhaseInv BY <1>2 DEF PhaseInv
<1>6. DrainInv BY <1>2, <1>3, <1>4 DEF DrainInv, AllRead
<1>7. SentInv BY <1>3, <1>4 DEF SentInv
<1> QED BY <1>1, <1>5, <1>6, <1>7 DEF StreamInv

\* Steps that read and write nothing.
LEMMA NothingSent ==
    ASSUME SentInv, UNCHANGED <<rows, poller, feed>>, runner'.show = runner.show,
           frontend' => frontend
    PROVE  SentInv' /\ (AllRead' <=> AllRead)
<1>1. \A i : Sent(i)' = Sent(i) BY DEF Sent
<1>2. \A i : (Surfaced(i)' <=> Surfaced(i)) /\ (Followed(i)' <=> Followed(i))
  BY <1>1 DEF Surfaced, Followed
<1> QED BY <1>1, <1>2 DEF SentInv, AllRead

\* agy writes only while it runs, and then the turn polls.
LEMMA WhileRunning ==
    ASSUME OrderInv, PhaseInv, agy = "running"
    PROVE  runner.phase = "polling"
<1>1. runner.phase \in {"idle", "polling", "drain", "map"} BY Typed DEF Runners
<1> QED BY <1>1 DEF PhaseInv

LEMMA AppendsStream == StreamInv /\ Appends => StreamInv'
<1> SUFFICES ASSUME StreamInv, Appends PROVE StreamInv' OBVIOUS
<1>1. OrderInv /\ PhaseInv /\ DrainInv /\ SentInv /\ OrderInv' BY AppendsOrder DEF StreamInv
<1>2. PICK shape \in Shapes : rows' = Append(rows, [shape |-> shape, len |-> 1]) BY DEF Appends
<1>3. UNCHANGED <<agy, poller, runner, feed, frontend>> /\ runner.phase = "polling"
  BY <1>1, WhileRunning DEF Appends
<1>4. /\ Len(rows) \in Nat /\ DOMAIN rows = 1 .. Len(rows) /\ DOMAIN rows \subseteq Idx
      /\ poller.base \in Nat /\ poller.last \in Nat /\ MaxRows \in Nat
  BY <1>1, RowTypes DEF OrderInv
<1>5. /\ DOMAIN rows' = 1 .. Len(rows) + 1
      /\ \A i \in DOMAIN rows : rows'[i] = rows[i]
      /\ rows'[Len(rows) + 1].shape = shape
  <2> DEFINE new == [shape |-> shape, len |-> 1]
             Row == [shape : Shapes, len : 1 .. MaxUnits]
  <2>1. new \in Row BY DEF MaxUnits
  <2>2. rows \in Seq(Row) BY <1>1 DEF OrderInv, TypeOK
  <2>3. new.shape = shape OBVIOUS
  <2> HIDE DEF new, Row
  <2>4. rows' = Append(rows, new) BY <1>2 DEF new
  <2> QED BY <1>4, <2>1, <2>2, <2>3, <2>4, AppendProperties
<1>6. poller.base <= poller.last /\ poller.last <= Len(rows) BY <1>1 DEF OrderInv, PollerInv
<1>7. \A i : Sent(i)' = Sent(i) BY <1>3 DEF Sent
<1>8. PhaseInv' /\ DrainInv' BY <1>1, <1>3 DEF PhaseInv, DrainInv
<1>9. ASSUME frontend, NEW i \in DOMAIN rows'
      PROVE  IF i <= poller.base THEN Surfaced(i)' ELSE Followed(i)'
  <2>1. CASE i \in DOMAIN rows
    <3>1. IF i <= poller.base THEN Surfaced(i) ELSE Followed(i) BY <1>1, <1>9, <2>1 DEF SentInv
    <3>2. rows'[i] = rows[i] BY <1>5, <2>1
    <3>3. (Surfaced(i)' <=> Surfaced(i)) /\ (Followed(i)' <=> Followed(i))
      BY <1>3, <1>7, <3>2 DEF Surfaced, Followed
    <3> QED BY <3>1, <3>3
  <2>2. CASE i \notin DOMAIN rows
    <3>1. i = Len(rows) + 1 /\ i > poller.last /\ ~(i <= poller.base) BY <1>4, <1>5, <1>6, <1>9, <2>2
    <3>2. i \in Idx
      <4>1. Len(rows) < MaxRows BY DEF Appends
      <4> QED BY <1>4, <3>1, <4>1 DEF Idx
    <3>3. poller.consumed[i] = 0 BY <1>1, <3>1, <3>2 DEF OrderInv, PollerInv
    <3>4. Sent(i) = {}
      <4> SUFFICES ASSUME NEW u \in Sent(i) PROVE FALSE OBVIOUS
      <4>1. PICK m \in DOMAIN feed : feed[m][1] = i BY SentAre
      <4>2. feed[m][1] <= poller.last BY <1>1 DEF OrderInv, FeedInv
      <4> QED BY <1>4, <3>1, <4>1, <4>2
    <3>5. rows'[i].shape \in Shapes BY <1>2, <1>5, <3>1
    <3>6. Followed(i)'
      <4>1. 1 .. 0 = {} OBVIOUS
      <4>2. poller'.consumed[i] = 0 /\ Sent(i)' = {} BY <1>3, <1>7, <3>3, <3>4
      <4>3. Sent(i)' = 1 .. poller'.consumed[i] BY <4>1, <4>2
      <4>4. poller'.consumed[i] # 1 /\ poller'.consumed[i] # 2 BY <4>2
      <4> QED BY <4>2, <4>3, <4>4, Zenon DEF Followed
    <3> QED BY <3>1, <3>6
  <2> QED BY <2>1, <2>2
<1>10. SentInv'
  <2>1. poller' = poller /\ frontend' = frontend BY <1>3
  <2>2. DOMAIN rows \subseteq DOMAIN rows' BY <1>4, <1>5
  <2>3. frontend /\ poller.had => \E i \in DOMAIN rows' : i > poller.base /\ Sent(i)' # {}
    BY <1>1, <1>7, <2>2 DEF SentInv
  <2> QED BY <1>9, <2>1, <2>3 DEF SentInv
<1> QED BY <1>1, <1>8, <1>10 DEF StreamInv

LEMMA GrowsStream == StreamInv /\ Grows => StreamInv'
<1> SUFFICES ASSUME StreamInv, Grows PROVE StreamInv' OBVIOUS
<1>1. OrderInv /\ PhaseInv /\ DrainInv /\ SentInv /\ OrderInv' BY GrowsOrder DEF StreamInv
<1> DEFINE n == Len(rows)
<1>2. /\ n > runner.first /\ rows' = [rows EXCEPT ![n].len = @ + 1]
      /\ UNCHANGED <<agy, poller, runner, feed, frontend>> /\ runner.phase = "polling"
  BY <1>1, WhileRunning DEF Grows
<1>3. n \in Nat /\ DOMAIN rows = 1 .. n /\ poller.base \in Nat BY <1>1, RowTypes DEF OrderInv
<1>4. /\ DOMAIN rows' = DOMAIN rows
      /\ \A i \in DOMAIN rows : rows'[i].shape = rows[i].shape /\ (i # n => rows'[i] = rows[i])
  <2> DEFINE Row == [shape : Shapes, len : 1 .. MaxUnits]
  <2>1. rows \in Seq(Row) BY <1>1 DEF OrderInv, TypeOK
  <2>2. \A i \in DOMAIN rows : rows[i] \in Row
    <3> HIDE DEF Row
    <3> QED BY <2>1
  <2>3. DOMAIN rows' = DOMAIN rows BY <1>2
  <2>4. ASSUME NEW i \in DOMAIN rows
        PROVE  rows'[i].shape = rows[i].shape /\ (i # n => rows'[i] = rows[i])
    <3>1. CASE i # n BY <1>2, <3>1
    <3>2. CASE i = n
      <4> DEFINE row == rows[i]
                 longer == row.len + 1
      <4>1. rows'[i] = [row EXCEPT !.len = longer] BY <1>2, <3>2
      <4>2. row \in Row BY <2>2
      <4> HIDE DEF row, longer
      <4>3. rows'[i].shape = row.shape BY <4>1, <4>2
      <4> QED BY <3>2, <4>3 DEF row
    <3> QED BY <3>1, <3>2
  <2> QED BY <2>3, <2>4
<1>5. \A i : Sent(i)' = Sent(i) BY <1>2 DEF Sent
<1>6. PhaseInv' /\ DrainInv' BY <1>1, <1>2 DEF PhaseInv, DrainInv
<1>7. ASSUME frontend, NEW i \in DOMAIN rows
      PROVE  IF i <= poller.base THEN Surfaced(i)' ELSE Followed(i)'
  <2>1. IF i <= poller.base THEN Surfaced(i) ELSE Followed(i) BY <1>1, <1>7 DEF SentInv
  <2>2. poller.base = runner.first BY <1>1, <1>2, <1>7 DEF PhaseInv
  <2>3. i <= poller.base => rows'[i] = rows[i] BY <1>2, <1>3, <1>4, <2>2
  <2>4. i <= poller.base => Surfaced(i)' BY <1>2, <1>5, <2>1, <2>3 DEF Surfaced
  <2>5. rows'[i].shape = rows[i].shape BY <1>4
  <2>6. ~(i <= poller.base) => Followed(i)' BY <1>2, <1>5, <2>1, <2>5 DEF Followed
  <2> QED BY <2>4, <2>6
<1>8. SentInv' BY <1>1, <1>2, <1>4, <1>5, <1>7 DEF SentInv
<1> QED BY <1>1, <1>6, <1>8 DEF StreamInv

\* What is whole and was followed has surfaced.
LEMMA WholeSurfaced ==
    ASSUME OrderInv, NEW i \in DOMAIN rows, Followed(i), poller.consumed[i] = rows[i].len
    PROVE  Surfaced(i)
BY DEF Followed, Surfaced

\* The next turn begins when all of the last one's rows have surfaced.
LEMMA LaunchStream == StreamInv /\ Launch => StreamInv'
<1> SUFFICES ASSUME StreamInv, Launch PROVE StreamInv' OBVIOUS
<1>1. OrderInv /\ PhaseInv /\ DrainInv /\ SentInv /\ OrderInv' BY LaunchOrder DEF StreamInv
<1>2. /\ runner.phase = "idle" /\ frontend
      /\ poller' = NewTurnPoller(runner.stored) /\ agy' = "running"
      /\ UNCHANGED <<rows, feed, frontend>>
  BY DEF Launch
<1>3. /\ runner'.phase = "polling" /\ runner'.first = Len(rows) /\ runner'.locked = 0
      /\ runner'.show = runner.show
  <2>1. runner \in Runners BY <1>1, Typed
  <2> QED BY <2>1 DEF Launch, Runners
<1>4. runner.stored = poller.last /\ AllRead BY <1>1, <1>2 DEF OrderInv, PollerInv, DrainInv
<1>5. poller'.base = Len(rows) /\ poller'.had = FALSE BY <1>2, <1>4 DEF NewTurnPoller, AllRead
<1>6. PhaseInv' BY <1>2, <1>3, <1>5 DEF PhaseInv
<1>7. DrainInv' BY <1>3 DEF DrainInv
<1>8. ASSUME NEW i \in DOMAIN rows PROVE i <= poller'.base /\ Surfaced(i)'
  <2>1. /\ Len(rows) \in Nat /\ DOMAIN rows = 1 .. Len(rows) /\ poller.base \in Nat
    BY <1>1, RowTypes DEF OrderInv
  <2>2. ASSUME i <= poller.base PROVE Surfaced(i) BY <1>1, <1>2, <2>2 DEF SentInv
  <2>3. ASSUME ~(i <= poller.base) PROVE Surfaced(i)
    <3>1. Followed(i) BY <1>1, <1>2, <2>3 DEF SentInv
    <3>2. poller.consumed[i] = rows[i].len BY <1>4, <2>1, <2>3 DEF AllRead
    <3> QED BY <1>1, <3>1, <3>2, WholeSurfaced
  <2>4. Surfaced(i) BY <2>2, <2>3
  <2>5. Sent(i)' = Sent(i) BY <1>2 DEF Sent
  <2>6. Surfaced(i)' BY <1>2, <1>3, <2>4, <2>5 DEF Surfaced
  <2> QED BY <1>5, <2>1, <2>6
<1>9. SentInv' BY <1>2, <1>5, <1>8 DEF SentInv
<1> QED BY <1>1, <1>6, <1>7, <1>9 DEF StreamInv

LEMMA TickStream == StreamInv /\ Tick => StreamInv'
<1> SUFFICES ASSUME StreamInv, Tick PROVE StreamInv' OBVIOUS
<1>1. OrderInv /\ PhaseInv /\ DrainInv /\ SentInv /\ OrderInv' BY TickOrder DEF StreamInv
<1>2. /\ PollOnce /\ UNCHANGED <<rows, agy, frontend>> /\ runner.phase = "polling"
      /\ runner' = [runner EXCEPT !.aborted = EmitFails]
  BY DEF Tick
<1>3. runner \in Runners BY <1>1, Typed
<1>4. /\ runner'.phase = "polling" /\ runner'.locked = runner.locked
      /\ runner'.first = runner.first /\ runner'.show = runner.show
  BY <1>2, <1>3 DEF Runners
<1>5. SentInv' /\ poller'.base = poller.base BY <1>1, <1>2, <1>4, ReadSent
<1>6. PhaseInv' BY <1>1, <1>2, <1>4, <1>5 DEF PhaseInv
<1>7. DrainInv' BY <1>1, <1>2, <1>4 DEF DrainInv
<1> QED BY <1>1, <1>5, <1>6, <1>7 DEF StreamInv

\* When everything was read, another read finds nothing.
LEMMA NothingNew ==
    ASSUME OrderInv, AllRead
    PROVE  NewUnits = {}
<1> SUFFICES ASSUME NEW p \in NewUnits PROVE FALSE OBVIOUS
<1>1. p[1] \in Steps /\ p[2] \in Suffix(p[1]) BY DEF NewUnits
<1>2. p[1] \in DOMAIN rows /\ p[1] > poller.base BY <1>1 DEF Steps
<1>3. poller.consumed[p[1]] = rows[p[1]].len BY <1>2 DEF AllRead
<1>4. rows[p[1]].len \in 1 .. MaxUnits BY <1>2, RowTypes DEF OrderInv
<1>5. p[2] \in rows[p[1]].len + 1 .. rows[p[1]].len BY <1>1, <1>3 DEF Suffix
<1> QED BY <1>4, <1>5 DEF MaxUnits

\* The drain ends with a read that finds nothing: at most one finds something, since
\* agy is gone, and of those that fail there are too few to use up the attempts.
LEMMA DrainStream ==
    ASSUME MaxLocked + 2 <= DrainAttempts, ~MayExpire
    PROVE  StreamInv /\ Drain => StreamInv'
<1> SUFFICES ASSUME StreamInv, Drain PROVE StreamInv' OBVIOUS
<1>1. OrderInv /\ PhaseInv /\ DrainInv /\ SentInv /\ OrderInv' BY DrainOrder DEF StreamInv
<1>2. PICK ok \in BOOLEAN, done \in BOOLEAN :
         /\ DrainEnds(ok) \/ runner.attempt + 1 = DrainAttempts => done
         /\ done => DrainEnds(ok) \/ MayExpire \/ runner.attempt + 1 = DrainAttempts
         /\ ok \/ runner.locked < MaxLocked
         /\ IF ok THEN PollOnce ELSE UNCHANGED <<poller, feed>>
         /\ runner' = DrainTo(ok, done)
         /\ runner.phase = "drain" /\ UNCHANGED <<rows, agy, frontend>>
  BY <1>1, DrainSteps
<1>3. runner \in Runners /\ DrainAttempts \in Nat /\ MaxLocked \in Nat BY <1>1, Typed
<1>4. /\ runner'.attempt = runner.attempt + 1
      /\ runner'.locked = IF ok THEN runner.locked ELSE runner.locked + 1
      /\ runner'.phase = IF done THEN "map" ELSE "drain"
      /\ runner'.show = runner.show /\ runner'.first = runner.first
  BY <1>2, <1>3 DEF Runners, DrainTo
<1>5. runner.attempt \in Nat /\ runner.locked \in 0 .. MaxLocked BY <1>3 DEF Runners
<1>6. CASE ok
  <2>1. SentInv' /\ AllRead' /\ poller'.base = poller.base BY <1>1, <1>2, <1>4, <1>6, ReadSent
  <2>2. PhaseInv' BY <1>1, <1>2, <1>4, <2>1 DEF PhaseInv
  <2>3. ASSUME frontend, ~done PROVE runner.attempt = runner.locked
    <3> SUFFICES ASSUME AllRead PROVE FALSE BY <1>1, <1>2, <2>3 DEF DrainInv
    <3>1. NewUnits = {} BY <1>1, NothingNew
    <3> QED BY <1>2, <1>6, <2>3, <3>1 DEF DrainEnds
  <2>4. DrainInv'
    <3> SUFFICES ASSUME frontend'
                 PROVE  /\ runner'.phase = "polling" => runner'.locked = 0
                        /\ runner'.phase = "drain" => \/ runner'.attempt = runner'.locked
                                                      \/ runner'.attempt = runner'.locked + 1 /\ AllRead'
                        /\ runner'.phase \in {"map", "idle"} => AllRead'
      BY DEF DrainInv
    <3>1. frontend BY <1>2
    <3> QED BY <1>4, <1>6, <2>1, <2>3, <3>1
  <2> QED BY <1>1, <2>1, <2>2, <2>4 DEF StreamInv
<1>7. CASE ~ok
  <2>1. UNCHANGED <<rows, poller, feed>> BY <1>2, <1>7
  <2>2. SentInv' /\ (AllRead' <=> AllRead) BY <1>1, <1>2, <1>4, <2>1, NothingSent
  <2>3. PhaseInv' BY <1>1, <1>2, <1>4, <2>1 DEF PhaseInv
  <2>4. ASSUME frontend PROVE ~done
    <3>1. runner.attempt <= runner.locked + 1 BY <1>1, <1>2, <1>3, <1>5, <2>4 DEF DrainInv
    <3>2. runner.attempt + 1 # DrainAttempts BY <1>2, <1>3, <1>5, <1>7, <3>1
    <3> QED BY <1>2, <1>7, <3>2 DEF DrainEnds
  <2>5. DrainInv'
    <3> SUFFICES ASSUME frontend'
                 PROVE  /\ runner'.phase = "polling" => runner'.locked = 0
                        /\ runner'.phase = "drain" => \/ runner'.attempt = runner'.locked
                                                      \/ runner'.attempt = runner'.locked + 1 /\ AllRead'
                        /\ runner'.phase \in {"map", "idle"} => AllRead'
      BY DEF DrainInv
    <3>1. frontend /\ ~done BY <1>2, <2>4
    <3>2. runner.attempt = runner.locked \/ (runner.attempt = runner.locked + 1 /\ AllRead)
      BY <1>1, <1>2, <3>1 DEF DrainInv
    <3>3. runner'.phase = "drain" /\ runner'.locked = runner.locked + 1 BY <1>4, <1>7, <3>1
    <3> QED BY <1>4, <1>5, <2>2, <3>2, <3>3
  <2> QED BY <1>1, <2>2, <2>3, <2>5 DEF StreamInv
<1> QED BY <1>6, <1>7

LEMMA RunnerStream ==
    StreamInv /\ (Exits \/ Cancel \/ FrontendGone \/ Waited \/ Ends \/ UNCHANGED vars) => StreamInv'
<1> SUFFICES ASSUME StreamInv, Exits \/ Cancel \/ FrontendGone \/ Waited \/ Ends \/ UNCHANGED vars
             PROVE  StreamInv'
  OBVIOUS
<1>1. OrderInv /\ PhaseInv /\ DrainInv /\ SentInv BY DEF StreamInv
<1>2. OrderInv' BY <1>1, OrderNext DEF Next
<1>3. runner \in Runners BY <1>1, Typed
<1>4. UNCHANGED <<rows, poller, feed>> /\ (frontend' => frontend)
  BY DEF Exits, Cancel, FrontendGone, Waited, Ends, vars
<1>5. ASSUME runner'.show = runner.show PROVE SentInv' /\ (AllRead' <=> AllRead)
  BY <1>1, <1>4, <1>5, NothingSent
<1> SUFFICES PhaseInv' /\ DrainInv' /\ SentInv' BY <1>2 DEF StreamInv
<1>6. CASE Exits
  <2>1. PICK status \in {"exited", "failed"}, hidden \in BOOLEAN :
           agy' = status /\ runner' = [runner EXCEPT !.swallowed = hidden]
    BY <1>6 DEF Exits
  <2>2. /\ runner'.phase = runner.phase /\ runner'.show = runner.show
        /\ runner'.first = runner.first /\ runner'.locked = runner.locked
    BY <1>3, <2>1 DEF Runners
  <2>3. runner.phase = "polling" BY <1>1, <1>6, WhileRunning DEF Exits
  <2> QED BY <1>1, <1>4, <1>5, <2>1, <2>2, <2>3 DEF PhaseInv, DrainInv
<1>7. CASE Cancel
  <2>1. /\ runner'.phase = runner.phase /\ runner'.show = runner.show
        /\ runner'.first = runner.first /\ runner'.locked = runner.locked
        /\ runner'.attempt = runner.attempt /\ agy' = agy
    BY <1>3, <1>7 DEF Runners, Cancel
  <2> QED BY <1>1, <1>4, <1>5, <2>1 DEF PhaseInv, DrainInv
<1>8. CASE FrontendGone \/ UNCHANGED vars
  <2>1. runner' = runner /\ agy' = agy BY <1>8 DEF FrontendGone, vars
  <2> QED BY <1>1, <1>4, <1>5, <2>1 DEF PhaseInv, DrainInv
<1>9. CASE Waited
  <2>1. runner' = [runner EXCEPT !.phase = "drain"] /\ agy' = agy /\ agy \in {"exited", "failed"}
        /\ runner.phase = "polling"
    BY <1>9 DEF Waited
  <2>2. /\ runner'.phase = "drain" /\ runner'.show = runner.show
        /\ runner'.first = runner.first /\ runner'.locked = runner.locked
        /\ runner'.attempt = runner.attempt
    BY <1>3, <2>1 DEF Runners
  <2>3. runner.attempt = 0 BY <1>1, <2>1 DEF OrderInv, AttemptInv
  <2> QED BY <1>1, <1>4, <1>5, <2>1, <2>2, <2>3 DEF PhaseInv, DrainInv
<1>10. CASE Ends
  <2>1. runner.phase = "map" /\ agy' = "none" BY <1>10 DEF Ends
  <2>2. runner'.phase = "idle" /\ runner'.show = runner.show BY <1>3, <1>10 DEF Runners, Ends
  <2> QED BY <1>1, <1>4, <1>5, <2>1, <2>2 DEF PhaseInv, DrainInv
<1> QED BY <1>6, <1>7, <1>8, <1>9, <1>10

LEMMA StreamNext ==
    ASSUME MaxLocked + 2 <= DrainAttempts, ~MayExpire
    PROVE  StreamInv /\ [Next]_vars => StreamInv'
BY AppendsStream, GrowsStream, LaunchStream, TickStream, DrainStream, RunnerStream DEF Next

\* As long as fewer reads of a drain fail than it has attempts beyond a first and a
\* last one, and it ends before its deadline, nothing of the conversation is missing at a frontend that still reads
\* once a turn is over, whatever grew between the last tick and agy's exit
\* (Bridge.drainFinal and runTurn in internal/agy/runner.go).
THEOREM NothingMissingHolds ==
    ASSUME MaxLocked + 2 <= DrainAttempts, ~MayExpire
    PROVE  Spec => []NothingMissing
<1>1. StreamInv => NothingMissing
  <2> SUFFICES ASSUME StreamInv, runner.phase = "idle", frontend, NEW i \in DOMAIN rows
               PROVE  Surfaced(i)
    BY DEF NothingMissing
  <2>1. OrderInv /\ AllRead /\ SentInv BY DEF StreamInv, DrainInv
  <2>2. CASE i <= poller.base BY <2>1, <2>2 DEF SentInv
  <2>3. CASE ~(i <= poller.base)
    <3>1. Followed(i) BY <2>1, <2>3 DEF SentInv
    <3>2. /\ DOMAIN rows = 1 .. Len(rows) /\ Len(rows) \in Nat /\ poller.base \in Nat
      BY <2>1, RowTypes DEF OrderInv
    <3>3. poller.consumed[i] = rows[i].len BY <2>1, <2>3, <3>2 DEF AllRead
    <3> QED BY <2>1, <3>1, <3>3, WholeSurfaced
  <2> QED BY <2>2, <2>3
<1> QED BY <1>1, StreamInit, StreamNext, PTL DEF Spec

\* Under the same condition, a backend failure that agy hid behind an exit status of 0
\* is an error for the client, unless the turn has sent something of its own rows
\* (Bridge.mapOutcome in internal/agy/runner.go).
THEOREM SwallowedErrorIsTold ==
    ASSUME MaxLocked + 2 <= DrainAttempts, ~MayExpire
    PROVE  Spec => SwallowedErrorTold
<1>1. StreamInv /\ [Next]_vars
      => [runner.phase = "map" /\ runner'.phase = "idle" /\ runner.swallowed /\ frontend
             /\ runner'.result = "end_turn"
          => \E i \in runner.first + 1 .. Len(rows) : Sent(i) # {}]_vars
  <2> SUFFICES ASSUME StreamInv, Next, runner.phase = "map", runner'.phase = "idle",
                      runner.swallowed, frontend, runner'.result = "end_turn"
               PROVE  \E i \in runner.first + 1 .. Len(rows) : Sent(i) # {}
    OBVIOUS
  <2>1. OrderInv /\ PhaseInv /\ DrainInv /\ SentInv BY DEF StreamInv
  <2>2. runner \in Runners BY <2>1, Typed
  <2>3. Ends
    <3>1. ~Launch /\ ~Tick /\ ~Waited /\ ~Drain BY DEF Launch, Tick, Waited, Drain
    <3>2. ~Appends /\ ~Grows BY DEF Appends, Grows
    <3>3. ~Exits BY <2>1, WhileRunning DEF Exits
    <3>4. ~Cancel /\ ~FrontendGone BY DEF Cancel, FrontendGone
    <3> QED BY <3>1, <3>2, <3>3, <3>4 DEF Next
  <2>4. runner'.result = Outcome BY <2>2, <2>3 DEF Ends, Runners
  <2>5. poller.had
    <3>1. ~(runner.cancelled) BY <2>4 DEF Outcome
    <3>2. agy # "failed" /\ ~(runner.swallowed /\ ~poller.had) BY <2>4, <3>1 DEF Outcome
    <3> QED BY <3>2
  <2>6. PICK i \in DOMAIN rows : i > poller.base /\ Sent(i) # {} BY <2>1, <2>5 DEF SentInv
  <2>7. poller.base = runner.first BY <2>1 DEF PhaseInv
  <2>8. /\ Len(rows) \in Nat /\ DOMAIN rows = 1 .. Len(rows) /\ poller.base \in Nat
    BY <2>1, RowTypes DEF OrderInv
  <2>9. i \in runner.first + 1 .. Len(rows) BY <2>6, <2>7, <2>8
  <2> QED BY <2>6, <2>9
<1> QED BY <1>1, StreamInit, StreamNext, PTL DEF Spec, SwallowedErrorTold
================================================================================
