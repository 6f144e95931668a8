--------------------------- MODULE DesLoopProofs ---------------------------
(***************************************************************************)
(* What the discrete event simulator guarantees for every set of events,   *)
(* every number of strategies and every size of order and fill.            *)
(***************************************************************************)
EXTENDS DesLoop, Sums

(* The events a step may schedule: not before its own time. *)
FillsFrom(t) ==
  [time : {x \in Nat : x >= t}, seq : Nat, type : {"fill"}, qty : Nat]
SubmitsFrom(t) ==
  [time : {x \in Nat : x >= t}, seq : Nat, type : {"submit"}, owner : S, qty : Nat \ {0}]
FollowsFrom(t) == FillsFrom(t) \cup SubmitsFrom(t)

(* What a queue holds: numbered events that are still to come, fills with  *)
(* a quantity, submissions with an order.                                  *)
QueueOK(q, n, t) ==
  \A e \in q :
    /\ e.time \in Nat /\ e.time >= t
    /\ e.seq \in Nat /\ e.seq < n
    /\ e.type = "fill" => e.qty \in Nat
    /\ e.type = "submit" => e.owner \in S /\ e.qty \in Nat \ {0}

(* The fills reported and not yet seen, and what they sum up to. *)
Fills(q) == {e \in q : e.type = "fill"}
FillSum(q) == SumFunctionOnSet([e \in Fills(q) |-> e.qty], Fills(q))

-----------------------------------------------------------------------------
(* The recursion Retain is defined by, up to place m. *)
KeepsTo(k, seq, keep, m) ==
  k = [n \in 0 .. m |-> IF n = 0 THEN <<>>
                        ELSE IF n \in keep THEN Append(k[n - 1], seq[n]) ELSE k[n - 1]]

LEMMA RetainRecursion ==
  ASSUME NEW X, NEW seq \in Seq(X), NEW keep
  PROVE  \E k : /\ KeepsTo(k, seq, keep, Len(seq))
                /\ Retain(seq, keep) = k[Len(seq)]
  <1> DEFINE Q == {m \in Nat : \E k : KeepsTo(k, seq, keep, m)}
  <1>1. 0 \in Q
    <2>1. KeepsTo([n \in 0 .. 0 |-> <<>>], seq, keep, 0)
      BY DEF KeepsTo
    <2> QED
      BY <2>1
  <1>2. ASSUME NEW m \in Nat, m \in Q PROVE m + 1 \in Q
    <2>1. PICK k : KeepsTo(k, seq, keep, m)
      BY <1>2
    <2> DEFINE l == [n \in 0 .. m + 1 |->
                       IF n = 0 THEN <<>>
                       ELSE IF n \in keep THEN Append(k[n - 1], seq[n]) ELSE k[n - 1]]
    <2>2. ASSUME NEW n \in 0 .. m PROVE l[n] = k[n]
      <3>1. n \in 0 .. m + 1
        OBVIOUS
      <3>2. k[n] = IF n = 0 THEN <<>>
                   ELSE IF n \in keep THEN Append(k[n - 1], seq[n]) ELSE k[n - 1]
        BY <2>1, Zenon DEF KeepsTo
      <3> QED
        BY <3>1, <3>2, Zenon
    <2>3. ASSUME NEW n \in 0 .. m + 1, n # 0 PROVE l[n - 1] = k[n - 1]
      <3>1. n - 1 \in 0 .. m
        <4> HIDE DEF Q, l
        <4> QED
          BY <2>3
      <3> QED
        BY <2>2, <3>1
    <2>4. KeepsTo(l, seq, keep, m + 1)
      BY <2>3 DEF KeepsTo
    <2> QED
      BY <2>4
  <1>3. Nat \subseteq Q
    <2> HIDE DEF Q
    <2> QED
      BY <1>1, <1>2, NumberInduction
  <1>4. \E k : KeepsTo(k, seq, keep, Len(seq))
    BY <1>3
  <1>5. Retain(seq, keep) = (CHOOSE k : KeepsTo(k, seq, keep, Len(seq)))[Len(seq)]
    BY Zenon DEF Retain, KeepsTo
  <1> QED
    BY <1>4, <1>5

(* Retain returns a sequence of what was kept. *)
LEMMA RetainSeq ==
  ASSUME NEW X, NEW seq \in Seq(X), NEW keep, NEW Y,
         \A i \in DOMAIN seq : i \in keep => seq[i] \in Y
  PROVE  Retain(seq, keep) \in Seq(Y)
  <1>1. PICK k : /\ KeepsTo(k, seq, keep, Len(seq))
                 /\ Retain(seq, keep) = k[Len(seq)]
    BY RetainRecursion
  <1> DEFINE Q == {m \in Nat : m <= Len(seq) => k[m] \in Seq(Y)}
  <1>2. 0 \in Q
    BY <1>1 DEF KeepsTo
  <1>3. ASSUME NEW m \in Nat, m \in Q PROVE m + 1 \in Q
    <2> SUFFICES ASSUME m + 1 <= Len(seq) PROVE k[m + 1] \in Seq(Y)
      OBVIOUS
    <2>1. k[m] \in Seq(Y) /\ m + 1 \in DOMAIN seq /\ m + 1 \in 0 .. Len(seq) /\ (m + 1) - 1 = m
      BY <1>3
    <2>2. k[m + 1] = IF m + 1 \in keep THEN Append(k[m], seq[m + 1]) ELSE k[m]
      <3>1. \A n \in 0 .. Len(seq) :
              k[n] = IF n = 0 THEN <<>>
                     ELSE IF n \in keep THEN Append(k[n - 1], seq[n]) ELSE k[n - 1]
        BY <1>1, Zenon DEF KeepsTo
      <3>2. m + 1 # 0
        OBVIOUS
      <3> QED
        BY <2>1, <3>1, <3>2, Zenon
    <2> HIDE DEF Q
    <2> QED
      BY <2>1, <2>2
  <1>4. Nat \subseteq Q
    <2> HIDE DEF Q
    <2> QED
      BY <1>2, <1>3, NumberInduction
  <1> QED
    BY <1>1, <1>4

(* Nothing kept, nothing left. *)
LEMMA RetainNothing ==
  ASSUME NEW X, NEW seq \in Seq(X), NEW keep, \A i \in DOMAIN seq : i \notin keep
  PROVE  Retain(seq, keep) = <<>>
  <1>1. \A i \in DOMAIN seq : i \in keep => seq[i] \in {}
    OBVIOUS
  <1>2. Retain(seq, keep) \in Seq({})
    BY <1>1, RetainSeq
  <1> QED
    BY <1>2

(* What was kept of a sequence without repetitions does not repeat either. *)
LEMMA RetainDistinct ==
  ASSUME NEW X, NEW seq \in Seq(X), NEW keep,
         \A i, j \in DOMAIN seq : seq[i] = seq[j] => i = j
  PROVE  \A i, j \in DOMAIN Retain(seq, keep) :
           Retain(seq, keep)[i] = Retain(seq, keep)[j] => i = j
  <1>1. PICK k : /\ KeepsTo(k, seq, keep, Len(seq))
                 /\ Retain(seq, keep) = k[Len(seq)]
    BY RetainRecursion
  <1> DEFINE First(m) == {seq[i] : i \in 1 .. m}
             Fresh(r) == \A i, j \in 1 .. Len(r) : r[i] = r[j] => i = j
             Q == {m \in Nat : m <= Len(seq) => k[m] \in Seq(First(m)) /\ Fresh(k[m])}
  <1>2. 0 \in Q
    <2>1. k[0] = <<>>
      BY <1>1 DEF KeepsTo
    <2>2. <<>> \in Seq(First(0)) /\ Fresh(<<>>)
      OBVIOUS
    <2> HIDE DEF First, Fresh
    <2> QED
      BY <2>1, <2>2
  <1>3. ASSUME NEW m \in Nat, m \in Q PROVE m + 1 \in Q
    <2> SUFFICES ASSUME m + 1 <= Len(seq)
                 PROVE  k[m + 1] \in Seq(First(m + 1)) /\ Fresh(k[m + 1])
      <3> HIDE DEF First, Fresh
      <3> QED
        OBVIOUS
    <2>1. /\ k[m] \in Seq(First(m)) /\ Fresh(k[m])
          /\ m + 1 \in DOMAIN seq /\ m + 1 \in 0 .. Len(seq) /\ (m + 1) - 1 = m
      BY <1>3
    <2>2. k[m + 1] = IF m + 1 \in keep THEN Append(k[m], seq[m + 1]) ELSE k[m]
      <3>1. \A n \in 0 .. Len(seq) :
              k[n] = IF n = 0 THEN <<>>
                     ELSE IF n \in keep THEN Append(k[n - 1], seq[n]) ELSE k[n - 1]
        BY <1>1, Zenon DEF KeepsTo
      <3>2. m + 1 # 0
        OBVIOUS
      <3> QED
        BY <2>1, <3>1, <3>2, Zenon
    <2>3. seq[m + 1] \notin First(m)
      BY <2>1
    <2>4. First(m) \subseteq First(m + 1) /\ seq[m + 1] \in First(m + 1)
      OBVIOUS
    <2> HIDE DEF Q, First
    <2>5. k[m] \in Seq(First(m + 1))
      BY <2>1, <2>4
    <2>6. CASE m + 1 \in keep
      <3> DEFINE r == k[m]
                 x == seq[m + 1]
      <3>1. r \in Seq(First(m)) /\ x \notin First(m) /\ Fresh(r)
        BY <2>1, <2>3
      <3> HIDE DEF r, x
      <3>2. Fresh(Append(r, x))
        BY <3>1
      <3>3. Append(r, x) \in Seq(First(m + 1))
        BY <2>4, <2>5 DEF r, x
      <3> QED
        BY <2>2, <2>6, <3>2, <3>3 DEF r, x
    <2>7. CASE m + 1 \notin keep
      BY <2>1, <2>2, <2>5, <2>7
    <2> QED
      BY <2>6, <2>7
  <1>4. Nat \subseteq Q
    <2> HIDE DEF Q
    <2> QED
      BY <1>2, <1>3, NumberInduction
  <1> DEFINE kept == Retain(seq, keep)
  <1>5. kept \in Seq(First(Len(seq))) /\ Fresh(kept)
    <2>1. Len(seq) \in Q
      BY <1>4
    <2> HIDE DEF First, Fresh
    <2> QED
      BY <1>1, <2>1
  <1> HIDE DEF kept, First
  <1>6. DOMAIN kept = 1 .. Len(kept)
    BY <1>5
  <1>7. \A i, j \in DOMAIN kept : kept[i] = kept[j] => i = j
    BY <1>5, <1>6
  <1> QED
    BY <1>7 DEF kept

-----------------------------------------------------------------------------
(* The events of a step, as they are numbered. *)
Numbered(follow) ==
  [i \in DOMAIN follow |-> [follow[i] EXCEPT !.seq = next_seq + i - 1]]

LEMMA NumberedFollow ==
  ASSUME NEW t, NEW follow \in Seq(FollowsFrom(t)), next_seq \in Nat, NEW i \in DOMAIN follow
  PROVE  LET e == Numbered(follow)[i] IN
           /\ e.seq = next_seq + i - 1 /\ i \in 1 .. Len(follow)
           /\ e.time \in Nat /\ e.time >= t
           /\ e.type = follow[i].type
           /\ e.type = "fill" => e.qty = follow[i].qty /\ e.qty \in Nat
           /\ e.type = "submit" => e.owner \in S /\ e.qty \in Nat \ {0}
  <1>1. i \in 1 .. Len(follow)
    OBVIOUS
  <1>2. CASE follow[i] \in FillsFrom(t)
    BY <1>1, <1>2 DEF Numbered, FillsFrom
  <1>3. CASE follow[i] \in SubmitsFrom(t)
    BY <1>1, <1>3 DEF Numbered, SubmitsFrom
  <1> QED
    BY <1>2, <1>3 DEF FollowsFrom

(* Popping the earliest event and scheduling what follows it leaves a      *)
(* queue of events to come.                                                *)
LEMMA RescheduleQueue ==
  ASSUME next_seq \in Nat, QueueOK(queue, next_seq, clock),
         NEW e \in queue, NEW type, Pop(e, type),
         NEW follow \in Seq(FollowsFrom(e.time)), Reschedule(e, follow)
  PROVE  /\ clock' \in Nat /\ next_seq' \in Nat
         /\ QueueOK(queue', next_seq', clock')
  <1>1. /\ clock' = e.time /\ e.time \in Nat
        /\ \A f \in queue \ {e} : Before(e, f)
    BY DEF Pop, QueueOK
  <1>2. /\ next_seq' = next_seq + Len(follow) /\ Len(follow) \in Nat
        /\ queue' = (queue \ {e}) \cup { Numbered(follow)[i] : i \in DOMAIN follow }
    BY DEF Reschedule, Numbered
  <1>3. next_seq' \in Nat
    BY <1>2
  <1>4. ASSUME NEW f \in queue'
        PROVE  /\ f.time \in Nat /\ f.time >= clock'
               /\ f.seq \in Nat /\ f.seq < next_seq'
               /\ f.type = "fill" => f.qty \in Nat
               /\ f.type = "submit" => f.owner \in S /\ f.qty \in Nat \ {0}
    <2>1. CASE f \in queue \ {e}
      <3>1. f.time \in Nat /\ f.seq \in Nat /\ f.seq < next_seq
        BY <2>1 DEF QueueOK
      <3>2. f.time >= e.time
        BY <1>1, <2>1, <3>1 DEF Before
      <3>3. /\ f.type = "fill" => f.qty \in Nat
            /\ f.type = "submit" => f.owner \in S /\ f.qty \in Nat \ {0}
        BY <2>1 DEF QueueOK
      <3>4. f.seq < next_seq'
        BY <1>2, <3>1
      <3> QED
        BY <1>1, <3>1, <3>2, <3>3, <3>4
    <2>2. CASE f \in { Numbered(follow)[i] : i \in DOMAIN follow }
      <3>1. PICK i \in DOMAIN follow : f = Numbered(follow)[i]
        BY <2>2
      <3>2. /\ f.seq = next_seq + i - 1 /\ i \in 1 .. Len(follow)
            /\ f.time \in Nat /\ f.time >= e.time
            /\ f.type = "fill" => f.qty \in Nat
            /\ f.type = "submit" => f.owner \in S /\ f.qty \in Nat \ {0}
        BY <3>1, NumberedFollow
      <3>3. f.seq \in Nat /\ f.seq < next_seq'
        BY <1>2, <3>2
      <3> QED
        BY <1>1, <3>2, <3>3
    <2> QED
      BY <1>2, <2>1, <2>2
  <1>5. QueueOK(queue', next_seq', clock')
    BY <1>4 DEF QueueOK
  <1> QED
    BY <1>1, <1>3, <1>5

(* The fills in the queue change by the one taken out and those put in:    *)
(* the numbers keep the new ones apart from the old and from each other.   *)
LEMMA RescheduleFills ==
  ASSUME next_seq \in Nat, QueueOK(queue, next_seq, clock), IsFiniteSet(Fills(queue)),
         NEW e \in queue, NEW t, NEW follow \in Seq(FollowsFrom(t)), Reschedule(e, follow),
         NEW I, \A i : i \in I <=> i \in DOMAIN follow /\ follow[i].type = "fill",
         NEW f, \A i \in I : f[i] = follow[i].qty
  PROVE  /\ IsFiniteSet(Fills(queue'))
         /\ FillSum(queue) \in Nat /\ SumFunctionOnSet(f, I) \in Nat
         /\ e.type # "fill" =>
               FillSum(queue') = FillSum(queue) + SumFunctionOnSet(f, I)
         /\ e.type = "fill" =>
               FillSum(queue') + e.qty = FillSum(queue) + SumFunctionOnSet(f, I)
  <1> DEFINE old == Fills(queue) \ {e}
             label == Numbered(follow)
             new == {label[i] : i \in I}
             h == [x \in Fills(queue) \cup new |-> x.qty]
  <1>1. IsFiniteSet(I) /\ IsFiniteSet(old)
    <2>1. IsFiniteSet(1 .. Len(follow)) /\ I \subseteq 1 .. Len(follow)
      BY FS_Interval
    <2> QED
      BY <2>1, FS_Subset, FS_RemoveElement
  <1>2. ASSUME NEW i \in I
        PROVE  /\ label[i].seq = next_seq + i - 1 /\ i \in Nat /\ i >= 1
               /\ label[i].type = "fill" /\ label[i].qty = f[i] /\ f[i] \in Nat
    <2>1. i \in DOMAIN follow /\ follow[i].type = "fill" /\ f[i] = follow[i].qty
      OBVIOUS
    <2> HIDE DEF label, new, h, old
    <2>2. LET x == Numbered(follow)[i] IN
            /\ x.seq = next_seq + i - 1 /\ i \in 1 .. Len(follow)
            /\ x.type = follow[i].type
            /\ x.type = "fill" => x.qty = follow[i].qty /\ x.qty \in Nat
      BY <2>1, NumberedFollow
    <2>3. i \in Nat /\ i >= 1
      BY <2>2
    <2> QED
      BY <2>1, <2>2, <2>3 DEF label
  <1>3. Fills(queue') = old \cup new
    <2>1. queue' = (queue \ {e}) \cup { label[i] : i \in DOMAIN follow }
      BY DEF Reschedule, Numbered
    <2>2. \A i \in DOMAIN follow : label[i].type = "fill" <=> i \in I
      BY NumberedFollow
    <2> HIDE DEF label
    <2> QED
      BY <2>1, <2>2 DEF Fills
  <1>4. \A x \in Fills(queue) : x.seq \in Nat /\ x.seq < next_seq /\ x.qty \in Nat
    BY DEF Fills, QueueOK
  <1>5. old \cap new = {}
    <2> SUFFICES ASSUME NEW i \in I, label[i] \in old PROVE FALSE
      OBVIOUS
    <2>1. label[i].seq < next_seq
      BY <1>4
    <2>2. label[i].seq >= next_seq
      <3> HIDE DEF label
      <3> QED
        BY <1>2
    <2>3. label[i].seq \in Nat
      BY <1>4
    <2> HIDE DEF label
    <2> QED
      BY <2>1, <2>2, <2>3
  <1>6. \A i, j \in I : label[i] = label[j] => i = j
    <2> SUFFICES ASSUME NEW i \in I, NEW j \in I, label[i] = label[j] PROVE i = j
      OBVIOUS
    <2>1. next_seq + i - 1 = next_seq + j - 1
      BY <1>2
    <2>2. i \in Nat /\ j \in Nat
      BY <1>2
    <2> HIDE DEF label
    <2> QED
      BY <2>1, <2>2
  <1>7. \A i \in I : f[i] \in Int /\ h[label[i]] = f[i]
    BY <1>2
  <1>8. /\ IsFiniteSet(new)
        /\ SumFunctionOnSet(h, new) = SumFunctionOnSet(f, I)
    <2>1. Labels(label, I, new)
      <3>1. \A x : x \in new <=> \E i \in I : x = label[i]
        OBVIOUS
      <3> HIDE DEF label, new
      <3> QED
        BY <1>6, <3>1 DEF Labels
    <2> HIDE DEF label, h, new
    <2> QED
      BY <1>1, <1>7, <2>1, SumRenumbered
  <1>9. /\ \A x \in Fills(queue) : h[x] = x.qty
        /\ \A x \in new : h[x] = x.qty
        /\ \A x \in old \cup new : h[x] \in Nat
        /\ \A x \in Fills(queue) : h[x] \in Nat
    BY <1>2, <1>4
  <1> HIDE DEF label, h, old, new
  <1>10. FillSum(queue) = SumFunctionOnSet(h, Fills(queue))
    BY <1>9, SumCongruence DEF FillSum
  <1>11. FillSum(queue') = SumFunctionOnSet(h, old \cup new)
    <2> DEFINE g == [x \in Fills(queue') |-> x.qty]
    <2>1. \A x \in Fills(queue') : g[x] = h[x]
      <3>1. \A x \in old : x \in Fills(queue)
        BY DEF old
      <3> QED
        BY <1>3, <1>9, <3>1
    <2>2. FillSum(queue') = SumFunctionOnSet(g, Fills(queue'))
      BY Zenon DEF FillSum
    <2> HIDE DEF g
    <2>3. SumFunctionOnSet(g, Fills(queue')) = SumFunctionOnSet(h, Fills(queue'))
      BY <2>1, SumCongruence
    <2> QED
      BY <1>3, <2>2, <2>3
  <1>12. IsFiniteSet(Fills(queue'))
    BY <1>1, <1>3, <1>8, FS_Union
  <1>13. SumFunctionOnSet(h, old \cup new)
           = SumFunctionOnSet(h, old) + SumFunctionOnSet(f, I)
    <2>1. \A x \in old \cup new : h[x] \in Int
      BY <1>9
    <2> QED
      BY <1>1, <1>5, <1>8, <2>1, SumUnion
  <1>14. SumFunctionOnSet(h, Fills(queue)) \in Nat /\ SumFunctionOnSet(f, I) \in Nat
    BY <1>1, <1>2, <1>9, SumNat
  <1>15. CASE e.type # "fill"
    <2>1. old = Fills(queue)
      BY <1>15 DEF old, Fills
    <2> QED
      BY <1>10, <1>11, <1>12, <1>13, <1>14, <1>15, <2>1
  <1>16. CASE e.type = "fill"
    <2>1. e \in Fills(queue)
      BY <1>16 DEF Fills
    <2>2. SumFunctionOnSet(h, Fills(queue)) = h[e] + SumFunctionOnSet(h, old)
      <3>1. old \cup {e} = Fills(queue) /\ e \notin old
        BY <2>1 DEF old
      <3>2. h[e] \in Int /\ \A x \in old : h[x] \in Int
        BY <1>9, <3>1
      <3>3. SumFunctionOnSet(h, old \cup {e}) = h[e] + SumFunctionOnSet(h, old)
        BY <1>1, <3>1, <3>2, SumAdd
      <3> QED
        BY <3>1, <3>3
    <2>3. h[e] = e.qty /\ h[e] \in Nat
      BY <1>9, <2>1
    <2>4. SumFunctionOnSet(h, old) \in Nat
      BY <1>1, <1>9, SumNat
    <2> QED
      BY <1>10, <1>11, <1>12, <1>13, <1>14, <1>16, <2>2, <2>3, <2>4
  <1> QED
    BY <1>15, <1>16

-----------------------------------------------------------------------------
(* What a fill takes off the pending orders it gives the strategies to     *)
(* see, and the owners to have sold.                                       *)
Quantity(orders) ==
  SumFunctionOnSet([i \in DOMAIN orders |-> FillQty(orders[i])], DOMAIN orders)

LEMMA FillQtyBounds ==
  ASSUME NEW order \in Orders
  PROVE  /\ FillQty(order) \in Nat \ {0} /\ FillQty(order) <= order.qty
         /\ order.qty \in Nat /\ order.owner \in S
  BY DesAssumption DEF FillQty, Smaller, Orders

(* Part of an order leaves a smaller one. *)
LEMMA RestIsOrder ==
  ASSUME NEW order \in Orders, order.qty > FillQty(order)
  PROVE  [order EXCEPT !.qty = @ - FillQty(order)] \in Orders
  <1>1. FillQty(order) \in Nat /\ order.qty \in Nat
    BY FillQtyBounds
  <1>2. order.qty - FillQty(order) \in Nat \ {0}
    BY <1>1
  <1> QED
    BY <1>2 DEF Orders

LEMMA FillEventsFollow ==
  ASSUME NEW orders \in Seq(Orders), NEW t \in Nat
  PROVE  /\ FillEvents(orders, t) \in Seq(FillsFrom(t))
         /\ Len(FillEvents(orders, t)) = Len(orders)
         /\ DOMAIN FillEvents(orders, t) = DOMAIN orders
         /\ \A i \in DOMAIN orders : /\ FillEvents(orders, t)[i].type = "fill"
                                     /\ FillEvents(orders, t)[i].qty = FillQty(orders[i])
  <1>1. ASSUME NEW i \in DOMAIN orders
        PROVE  [time |-> t + FillDelay, seq |-> 0, type |-> "fill", qty |-> FillQty(orders[i])]
                 \in FillsFrom(t)
    <2>1. FillQty(orders[i]) \in Nat
      BY FillQtyBounds
    <2>2. t + FillDelay \in {x \in Nat : x >= t}
      BY DesAssumption
    <2> QED
      BY <2>1, <2>2 DEF FillsFrom
  <1> QED
    BY <1>1 DEF FillEvents

LEMMA SubmitEventsFollow ==
  ASSUME NEW t \in Nat, NEW chunk \in [S -> ChunkSizes], remaining \in [S -> 0 .. Total]
  PROVE  SubmitEvents(chunk, t) \in Seq(SubmitsFrom(t))
  <1> DEFINE all == [ s \in S |->
               [time |-> t + OrderDelay, seq |-> 0, type |-> "submit",
                owner |-> s, qty |-> Smaller(chunk[s], remaining[s])] ]
             X == {all[s] : s \in S}
  <1>1. all \in Seq(X) /\ DOMAIN all = S
    BY DesAssumption DEF S
  <1>2. ASSUME NEW s \in S, Submits(s) PROVE all[s] \in SubmitsFrom(t)
    <2>1. remaining[s] \in 0 .. Total /\ remaining[s] > 0
      BY <1>2 DEF Submits
    <2>2. chunk[s] \in Nat \ {0}
      BY DesAssumption
    <2>3. Smaller(chunk[s], remaining[s]) \in Nat \ {0}
      BY <2>1, <2>2, DesAssumption DEF Smaller
    <2>4. t + OrderDelay \in {x \in Nat : x >= t}
      BY DesAssumption
    <2> QED
      BY <2>3, <2>4 DEF SubmitsFrom
  <1>3. \A s \in DOMAIN all : s \in {r \in S : Submits(r)} => all[s] \in SubmitsFrom(t)
    BY <1>1, <1>2
  <1>4. SubmitEvents(chunk, t) = Retain(all, {r \in S : Submits(r)})
    BY DEF SubmitEvents
  <1> DEFINE keep == {r \in S : Submits(r)}
  <1> HIDE DEF all, X, keep
  <1>5. Retain(all, keep) \in Seq(SubmitsFrom(t))
    BY <1>1, <1>3, RetainSeq DEF keep
  <1> QED
    BY <1>4, <1>5 DEF keep

LEMMA StrategiesFinite == IsFiniteSet(S)
  BY FS_Interval, DesAssumption DEF S

LEMMA TryFillAccount ==
  ASSUME NEW orders \in Seq(Orders), TryFill(orders), sold \in [S -> Nat]
  PROVE  /\ pending' \in Seq(Orders)
         /\ sold' \in [S -> Nat]
         /\ SumFunctionOnSet(sold, S) \in Nat /\ Quantity(orders) \in Nat
         /\ SumFunctionOnSet(sold', S) = SumFunctionOnSet(sold, S) + Quantity(orders)
  <1> DEFINE q == [i \in DOMAIN orders |-> FillQty(orders[i])]
             who == [i \in DOMAIN orders |-> orders[i].owner]
             share == [s \in S |-> SumFunctionOnSet(q, Owned(DOMAIN orders, who, s))]
  <1>1. IsFiniteSet(DOMAIN orders) /\ IsFiniteSet(S)
    <2>1. DOMAIN orders = 1 .. Len(orders) /\ Len(orders) \in Nat
      OBVIOUS
    <2> QED
      BY <2>1, FS_Interval, DesAssumption DEF S
  <1>2. \A i \in DOMAIN orders : q[i] \in Nat /\ who[i] \in S
    BY FillQtyBounds
  <1>3. ASSUME NEW s \in S
        PROVE  share[s] \in Nat /\ sold'[s] = sold[s] + share[s]
    <2>1. IsFiniteSet(Owned(DOMAIN orders, who, s))
      BY <1>1, FS_Subset DEF Owned
    <2>2. \A i \in Owned(DOMAIN orders, who, s) : q[i] \in Nat
      BY <1>2 DEF Owned
    <2>3. SumFunctionOnSet(q, Owned(DOMAIN orders, who, s)) \in Nat
      <3> HIDE DEF q, who
      <3> QED
        BY <2>1, <2>2, SumNat
    <2>4. { i \in DOMAIN orders : orders[i].owner = s } = Owned(DOMAIN orders, who, s)
      BY DEF Owned
    <2>5. sold'[s] = sold[s] + SumFunctionOnSet(q, { i \in DOMAIN orders : orders[i].owner = s })
      BY DEF TryFill
    <2> QED
      BY <2>3, <2>4, <2>5
  <1>4. sold' \in [S -> Nat]
    <2>1. ASSUME NEW s \in S PROVE sold'[s] \in Nat
      <3>1. sold[s] \in Nat /\ share[s] \in Nat /\ sold'[s] = sold[s] + share[s]
        BY <1>3
      <3> HIDE DEF share
      <3> QED
        BY <3>1
    <2>2. sold' = [s \in S |-> sold'[s]]
      BY DEF TryFill
    <2> QED
      BY <2>1, <2>2
  <1>5. pending' \in Seq(Orders)
    <2> DEFINE rest == [ i \in DOMAIN orders |->
                 [orders[i] EXCEPT !.qty = @ - FillQty(orders[i])] ]
               keep == { i \in DOMAIN orders : orders[i].qty > FillQty(orders[i]) }
               X == {rest[i] : i \in DOMAIN orders}
    <2>1. rest \in Seq(X)
      OBVIOUS
    <2>2. \A i \in DOMAIN rest : i \in keep => rest[i] \in Orders
      BY RestIsOrder
    <2>3. pending' = Retain(rest, keep)
      BY DEF TryFill
    <2> HIDE DEF rest, keep, X
    <2> QED
      BY <2>1, <2>2, <2>3, RetainSeq
  <1>6. Quantity(orders) = SumFunctionOnSet(q, DOMAIN orders)
    BY DEF Quantity
  <1>7. \A s \in S : share[s] = SumFunctionOnSet(q, Owned(DOMAIN orders, who, s))
    OBVIOUS
  <1>8. \A s \in S : sold[s] \in Int /\ share[s] \in Int /\ sold'[s] \in Int
                    /\ sold'[s] = sold[s] + share[s]
    BY <1>3, <1>4
  <1> HIDE DEF q, who, share
  <1>9. SumFunctionOnSet(share, S) = SumFunctionOnSet(q, DOMAIN orders)
    <2>1. \A i \in DOMAIN orders : q[i] \in Int /\ who[i] \in S
      BY <1>2
    <2>2. Groups(share, q, DOMAIN orders, S, who)
      BY <1>7 DEF Groups
    <2> QED
      BY <1>1, <2>1, <2>2, SumGroups
  <1>10. SumFunctionOnSet(sold', S) = SumFunctionOnSet(sold, S) + SumFunctionOnSet(share, S)
    BY <1>1, <1>8, SumSplit
  <1>11. SumFunctionOnSet(sold, S) \in Nat /\ SumFunctionOnSet(q, DOMAIN orders) \in Nat
    BY <1>1, <1>2, SumNat
  <1> QED
    BY <1>4, <1>5, <1>6, <1>9, <1>10, <1>11

-----------------------------------------------------------------------------
(* The inductive invariant: the types; the queue holds nothing that is due *)
(* before the clock and nothing with a number still to be given out; and   *)
(* the fills in it can be summed up.                                       *)
DesInv ==
  /\ DesTypeOK
  /\ QueueOK(queue, next_seq, clock)
  /\ IsFiniteSet(Fills(queue))

(* A step that tries the pending orders: what it sells it puts into the    *)
(* queue as fills, whatever it submits besides.                            *)
LEMMA OrdersTried ==
  ASSUME DesInv, NEW e \in queue, NEW type, Pop(e, type), type # "fill",
         NEW orders \in Seq(Orders), TryFill(orders),
         NEW more \in Seq(SubmitsFrom(e.time)),
         Reschedule(e, FillEvents(orders, e.time) \o more)
  PROVE  /\ clock' \in Nat /\ next_seq' \in Nat
         /\ QueueOK(queue', next_seq', clock')
         /\ IsFiniteSet(Fills(queue'))
         /\ pending' \in Seq(Orders)
         /\ sold' \in [S -> Nat]
         /\ FillSum(queue) \in Nat /\ SumFunctionOnSet(sold, S) \in Nat
         /\ Quantity(orders) \in Nat
         /\ FillSum(queue') = FillSum(queue) + Quantity(orders)
         /\ SumFunctionOnSet(sold', S) = SumFunctionOnSet(sold, S) + Quantity(orders)
  <1> DEFINE fills == FillEvents(orders, e.time)
             follow == fills \o more
             f == [i \in DOMAIN orders |-> FillQty(orders[i])]
  <1>1. /\ e.time \in Nat /\ e.type # "fill"
        /\ next_seq \in Nat /\ sold \in [S -> Nat]
        /\ QueueOK(queue, next_seq, clock) /\ IsFiniteSet(Fills(queue))
    BY DEF DesInv, DesTypeOK, QueueOK, Pop
  <1>2. /\ fills \in Seq(FillsFrom(e.time))
        /\ Len(fills) = Len(orders) /\ DOMAIN fills = DOMAIN orders
        /\ \A i \in DOMAIN orders : fills[i].type = "fill" /\ fills[i].qty = FillQty(orders[i])
    BY <1>1, FillEventsFollow
  <1>3. \A i \in DOMAIN orders : f[i] = fills[i].qty
    BY <1>2
  <1>4. Quantity(orders) = SumFunctionOnSet(f, DOMAIN orders)
    BY DEF Quantity
  <1>5. Reschedule(e, follow)
    OBVIOUS
  <1> HIDE DEF fills, f
  <1>6. /\ follow \in Seq(FollowsFrom(e.time))
        /\ Len(follow) = Len(fills) + Len(more)
    <2>1. fills \in Seq(FollowsFrom(e.time)) /\ more \in Seq(FollowsFrom(e.time))
      BY <1>2 DEF FollowsFrom
    <2> QED
      BY <2>1
  <1>7. ASSUME NEW i \in DOMAIN more PROVE more[i].type = "submit"
    <2>1. more[i] \in SubmitsFrom(e.time)
      OBVIOUS
    <2> QED
      BY <2>1 DEF SubmitsFrom
  <1>8. \A i : i \in DOMAIN orders <=> i \in DOMAIN follow /\ follow[i].type = "fill"
    <2>1. /\ Len(orders) \in Nat /\ Len(more) \in Nat
          /\ DOMAIN orders = 1 .. Len(orders) /\ DOMAIN more = 1 .. Len(more)
          /\ DOMAIN follow = 1 .. Len(orders) + Len(more)
      <3>1. Len(fills) = Len(orders) /\ fills \in Seq(FillsFrom(e.time))
        BY <1>2
      <3>2. DOMAIN follow = 1 .. Len(follow) /\ Len(follow) = Len(fills) + Len(more)
        <4> HIDE DEF follow
        <4> QED
          BY <1>6
      <3>3. /\ Len(orders) \in Nat /\ Len(more) \in Nat
            /\ DOMAIN orders = 1 .. Len(orders) /\ DOMAIN more = 1 .. Len(more)
        OBVIOUS
      <3> HIDE DEF follow
      <3> QED
        BY <3>1, <3>2, <3>3
    <2>2. \A i \in DOMAIN orders : i \in DOMAIN follow /\ follow[i] = fills[i]
      BY <1>2
    <2>3. ASSUME NEW i \in DOMAIN follow, i \notin DOMAIN orders
          PROVE  follow[i].type = "submit"
      <3>1. i - Len(orders) \in DOMAIN more
        BY <2>1, <2>3
      <3>2. follow[i] = more[i - Len(orders)]
        BY <1>2, <2>1, <2>3
      <3> QED
        BY <1>7, <3>1, <3>2
    <2> HIDE DEF follow
    <2> QED
      BY <1>2, <2>2, <2>3
  <1>9. \A i \in DOMAIN orders : f[i] = follow[i].qty
    BY <1>2, <1>3
  <1> HIDE DEF follow
  <1>10. /\ clock' \in Nat /\ next_seq' \in Nat
         /\ QueueOK(queue', next_seq', clock')
    BY <1>1, <1>5, <1>6, RescheduleQueue
  <1>11. /\ IsFiniteSet(Fills(queue'))
         /\ FillSum(queue) \in Nat
         /\ FillSum(queue') = FillSum(queue) + SumFunctionOnSet(f, DOMAIN orders)
    <2> DEFINE I == DOMAIN orders
    <2>1. /\ \A i : i \in I <=> i \in DOMAIN follow /\ follow[i].type = "fill"
          /\ \A i \in I : f[i] = follow[i].qty
      BY <1>8, <1>9
    <2>2. /\ next_seq \in Nat /\ QueueOK(queue, next_seq, clock) /\ IsFiniteSet(Fills(queue))
          /\ follow \in Seq(FollowsFrom(e.time)) /\ Reschedule(e, follow) /\ e.type # "fill"
      BY <1>1, <1>5, <1>6
    <2> HIDE DEF I
    <2>3. /\ IsFiniteSet(Fills(queue'))
          /\ FillSum(queue) \in Nat
          /\ FillSum(queue') = FillSum(queue) + SumFunctionOnSet(f, I)
      BY <2>1, <2>2, RescheduleFills, SMTT(60)
    <2> QED
      BY <2>3 DEF I
  <1>12. /\ pending' \in Seq(Orders)
         /\ sold' \in [S -> Nat]
         /\ SumFunctionOnSet(sold, S) \in Nat /\ Quantity(orders) \in Nat
         /\ SumFunctionOnSet(sold', S) = SumFunctionOnSet(sold, S) + Quantity(orders)
    BY <1>1, TryFillAccount
  <1> QED
    BY <1>4, <1>10, <1>11, <1>12

(* A step that schedules nothing takes its own event off the queue. *)
LEMMA NothingScheduled ==
  ASSUME DesInv, NEW e \in queue, NEW type, Pop(e, type), Reschedule(e, <<>>)
  PROVE  /\ clock' \in Nat /\ next_seq' \in Nat
         /\ QueueOK(queue', next_seq', clock')
         /\ IsFiniteSet(Fills(queue'))
         /\ FillSum(queue) \in Nat
         /\ type # "fill" => FillSum(queue') = FillSum(queue)
         /\ type = "fill" => e.qty \in Nat /\ FillSum(queue') + e.qty = FillSum(queue)
  <1>1. /\ e.type = type /\ next_seq \in Nat
        /\ QueueOK(queue, next_seq, clock) /\ IsFiniteSet(Fills(queue))
        /\ e.type = "fill" => e.qty \in Nat
    BY DEF DesInv, DesTypeOK, QueueOK, Pop
  <1> DEFINE none == <<>>
  <1>2. none \in Seq(FollowsFrom(e.time)) /\ DOMAIN none = {}
    OBVIOUS
  <1>3. Reschedule(e, none)
    OBVIOUS
  <1> HIDE DEF none
  <1>4. /\ clock' \in Nat /\ next_seq' \in Nat
        /\ QueueOK(queue', next_seq', clock')
    BY <1>1, <1>2, <1>3, RescheduleQueue
  <1>5. /\ IsFiniteSet(Fills(queue'))
        /\ FillSum(queue) \in Nat
        /\ e.type # "fill" => FillSum(queue') = FillSum(queue) + SumFunctionOnSet(none, {})
        /\ e.type = "fill" => FillSum(queue') + e.qty = FillSum(queue) + SumFunctionOnSet(none, {})
    <2>1. \A i : i \in {} <=> i \in DOMAIN none /\ none[i].type = "fill"
      BY <1>2
    <2>2. \A i \in {} : none[i] = none[i].qty
      OBVIOUS
    <2> QED
      BY <1>1, <1>2, <1>3, <2>1, <2>2, RescheduleFills
  <1>6. SumFunctionOnSet(none, {}) = 0
    BY SumEmpty
  <1> QED
    BY <1>1, <1>4, <1>5, <1>6

(* What a strategy does with its account leaves it within bounds. *)
LEMMA AccountBounds ==
  ASSUME NEW x \in 0 .. Total, NEW qty \in Nat
  PROVE  AtLeastZero(x - qty) \in 0 .. Total
  BY DesAssumption DEF AtLeastZero

LEMMA InitDesInv ==
  ASSUME DesInit
  PROVE  DesInv /\ Fills(queue) = {}
  <1>1. PICK prices \in SUBSET MorePrices, cancels \in SUBSET Cancels :
          queue = { Event(t, 3 * t, "tick") : t \in Ticks }
                  \cup { Event(t, 3 * t + 1, "price") : t \in Prices \cup prices }
                  \cup { Event(t, 3 * t + 2, "cancel") : t \in cancels }
                  \cup { Event(EndTime, 3 * EndTime + 3, "end") }
    BY DEF DesInit
  <1>2. /\ EndTime \in Nat /\ clock = 0 /\ next_seq = 3 * EndTime + 4
        /\ \A t \in Ticks \cup Prices \cup prices \cup cancels : t \in Nat /\ t <= EndTime
    BY DesAssumption DEF DesInit
  <1>3. ASSUME NEW e \in queue
        PROVE  /\ e.time \in Nat /\ e.seq \in Nat /\ e.seq < next_seq
               /\ e.type # "fill" /\ e.type # "submit"
    <2>1. CASE \E t \in Ticks : e = Event(t, 3 * t, "tick")
      BY <1>2, <2>1 DEF Event
    <2>2. CASE \E t \in Prices \cup prices : e = Event(t, 3 * t + 1, "price")
      BY <1>2, <2>2 DEF Event
    <2>3. CASE \E t \in cancels : e = Event(t, 3 * t + 2, "cancel")
      BY <1>2, <2>3 DEF Event
    <2>4. CASE e = Event(EndTime, 3 * EndTime + 3, "end")
      BY <1>2, <2>4 DEF Event
    <2> QED
      BY <1>1, <2>1, <2>2, <2>3, <2>4
  <1>4. QueueOK(queue, next_seq, clock)
    BY <1>2, <1>3 DEF QueueOK
  <1>5. Fills(queue) = {}
    BY <1>3 DEF Fills
  <1>6. DesTypeOK
    <2>1. \A e \in queue : e.time \in Nat /\ e.seq \in 0 .. next_seq - 1
      BY <1>2, <1>3
    <2>2. next_seq \in Nat /\ clock \in Nat
      BY <1>2
    <2>3. /\ pending \in Seq(Orders) /\ rule \in [S -> {"chunk", "optimal"}]
          /\ sold \in [S -> Nat]
      BY DEF DesInit
    <2>4. remaining \in [S -> 0 .. Total] /\ current_step \in [S -> 0 .. Horizon]
      BY DesAssumption DEF DesInit
    <2>5. completed \in [S -> BOOLEAN] /\ cancelled \in BOOLEAN /\ done \in BOOLEAN
      BY DEF DesInit
    <2> QED
      BY <2>1, <2>2, <2>3, <2>4, <2>5 DEF DesTypeOK
  <1> QED
    BY <1>4, <1>5, <1>6, FS_EmptySet DEF DesInv

(* The parts of the invariant about the queue give the types of its events. *)
LEMMA QueueTyped ==
  ASSUME NEW q, NEW n \in Nat, NEW t \in Nat, QueueOK(q, n, t)
  PROVE  \A e \in q : e.time \in Nat /\ e.seq \in 0 .. n - 1
  BY DEF QueueOK

(* What a step sells is what it puts into the queue as fills. *)
SoldIsReported ==
  /\ FillSum(queue) \in Nat /\ SumFunctionOnSet(sold, S) \in Nat
  /\ \E sum \in Nat : /\ FillSum(queue') = FillSum(queue) + sum
                      /\ SumFunctionOnSet(sold', S) = SumFunctionOnSet(sold, S) + sum

LEMMA TickKeeps ==
  ASSUME DesInv, OnTick
  PROVE  /\ DesInv'
         /\ SoldIsReported
  <1>1. PICK e \in queue, chunk \in [S -> ChunkSizes] :
          /\ Pop(e, "tick")
          /\ TryFill(pending)
          /\ Reschedule(e, FillEvents(pending, e.time) \o SubmitEvents(chunk, e.time))
    BY DEF OnTick
  <1>2. /\ pending \in Seq(Orders) /\ e.time \in Nat
        /\ remaining \in [S -> 0 .. Total] /\ completed \in [S -> BOOLEAN]
        /\ current_step \in [S -> 0 .. Horizon] /\ rule \in [S -> {"chunk", "optimal"}]
    BY DEF DesInv, DesTypeOK
  <1>3. SubmitEvents(chunk, e.time) \in Seq(SubmitsFrom(e.time))
    BY <1>2, SubmitEventsFollow
  <1>4. /\ clock' \in Nat /\ next_seq' \in Nat
        /\ QueueOK(queue', next_seq', clock')
        /\ IsFiniteSet(Fills(queue'))
        /\ pending' \in Seq(Orders)
        /\ sold' \in [S -> Nat]
        /\ FillSum(queue) \in Nat /\ SumFunctionOnSet(sold, S) \in Nat
        /\ Quantity(pending) \in Nat
        /\ FillSum(queue') = FillSum(queue) + Quantity(pending)
        /\ SumFunctionOnSet(sold', S) = SumFunctionOnSet(sold, S) + Quantity(pending)
    BY <1>1, <1>2, <1>3, OrdersTried
  <1>5. remaining' \in [S -> 0 .. Total]
    BY <1>2, DesAssumption DEF OnTick
  <1>6. current_step' \in [S -> 0 .. Horizon]
    BY <1>2, DesAssumption DEF OnTick, PastSchedule
  <1>7. completed' \in [S -> BOOLEAN]
    BY <1>2, Zenon DEF OnTick
  <1>8. rule' \in [S -> {"chunk", "optimal"}] /\ cancelled' = cancelled /\ done' = done
    BY <1>2 DEF OnTick
  <1>9. cancelled' \in BOOLEAN /\ done' \in BOOLEAN
    BY <1>8, Zenon DEF DesInv, DesTypeOK
  <1>10. \A x \in queue' : x.time \in Nat /\ x.seq \in 0 .. next_seq' - 1
    BY <1>4, QueueTyped
  <1>11. DesTypeOK'
    BY <1>4, <1>5, <1>6, <1>7, <1>8, <1>9, <1>10, Zenon DEF DesTypeOK
  <1> QED
    BY <1>4, <1>11 DEF DesInv, SoldIsReported

LEMMA PriceKeeps ==
  ASSUME DesInv, OnPrice
  PROVE  DesInv' /\ SoldIsReported /\ UNCHANGED strategyVars
  <1>1. PICK e \in queue :
          /\ Pop(e, "price") /\ TryFill(pending)
          /\ Reschedule(e, FillEvents(pending, e.time))
          /\ UNCHANGED <<strategyVars, cancelled, done>>
    BY DEF OnPrice
  <1>2. pending \in Seq(Orders) /\ e.time \in Nat
    BY DEF DesInv, DesTypeOK
  <1> DEFINE none == <<>>
  <1>3. /\ none \in Seq(SubmitsFrom(e.time))
        /\ Reschedule(e, FillEvents(pending, e.time) \o none)
    <2>1. FillEvents(pending, e.time) \in Seq(FillsFrom(e.time))
      BY <1>2, FillEventsFollow
    <2>2. FillEvents(pending, e.time) \o none = FillEvents(pending, e.time)
      BY <2>1
    <2> QED
      BY <1>1, <2>2
  <1> HIDE DEF none
  <1>4. /\ clock' \in Nat /\ next_seq' \in Nat
        /\ QueueOK(queue', next_seq', clock')
        /\ IsFiniteSet(Fills(queue'))
        /\ pending' \in Seq(Orders) /\ sold' \in [S -> Nat]
        /\ FillSum(queue) \in Nat /\ SumFunctionOnSet(sold, S) \in Nat
        /\ Quantity(pending) \in Nat
        /\ FillSum(queue') = FillSum(queue) + Quantity(pending)
        /\ SumFunctionOnSet(sold', S) = SumFunctionOnSet(sold, S) + Quantity(pending)
    BY <1>1, <1>2, <1>3, OrdersTried
  <1>5. \A x \in queue' : x.time \in Nat /\ x.seq \in 0 .. next_seq' - 1
    BY <1>4, QueueTyped
  <1>6. UNCHANGED <<rule, remaining, completed, current_step, cancelled, done>>
    BY <1>1 DEF strategyVars
  <1>7. DesTypeOK'
    BY <1>4, <1>5, <1>6, Zenon DEF DesInv, DesTypeOK
  <1> QED
    BY <1>1, <1>4, <1>7 DEF DesInv, SoldIsReported

LEMMA SubmitKeeps ==
  ASSUME DesInv, OnSubmit
  PROVE  DesInv' /\ SoldIsReported /\ UNCHANGED strategyVars
  <1>1. PICK e \in queue :
          /\ Pop(e, "submit")
          /\ LET orders == Append(pending, [owner |-> e.owner, id |-> e.seq, qty |-> e.qty])
             IN  TryFill(orders) /\ Reschedule(e, FillEvents(orders, e.time))
          /\ UNCHANGED <<strategyVars, cancelled, done>>
    BY DEF OnSubmit
  <1> DEFINE order == [owner |-> e.owner, id |-> e.seq, qty |-> e.qty]
             orders == Append(pending, order)
  <1>2. TryFill(orders) /\ Reschedule(e, FillEvents(orders, e.time))
    BY <1>1
  <1>3. e.time \in Nat /\ order \in Orders
    BY <1>1 DEF DesInv, QueueOK, Pop, Orders
  <1> HIDE DEF order
  <1>4. orders \in Seq(Orders)
    BY <1>3 DEF DesInv, DesTypeOK
  <1> DEFINE none == <<>>
  <1> HIDE DEF orders
  <1>5. /\ none \in Seq(SubmitsFrom(e.time))
        /\ Reschedule(e, FillEvents(orders, e.time) \o none)
    <2>1. FillEvents(orders, e.time) \in Seq(FillsFrom(e.time))
      BY <1>3, <1>4, FillEventsFollow
    <2>2. FillEvents(orders, e.time) \o none = FillEvents(orders, e.time)
      BY <2>1
    <2> QED
      BY <1>2, <2>2
  <1> HIDE DEF none
  <1>6. /\ clock' \in Nat /\ next_seq' \in Nat
        /\ QueueOK(queue', next_seq', clock')
        /\ IsFiniteSet(Fills(queue'))
        /\ pending' \in Seq(Orders) /\ sold' \in [S -> Nat]
        /\ FillSum(queue) \in Nat /\ SumFunctionOnSet(sold, S) \in Nat
        /\ Quantity(orders) \in Nat
        /\ FillSum(queue') = FillSum(queue) + Quantity(orders)
        /\ SumFunctionOnSet(sold', S) = SumFunctionOnSet(sold, S) + Quantity(orders)
    BY <1>1, <1>2, <1>4, <1>5, OrdersTried
  <1>7. \A x \in queue' : x.time \in Nat /\ x.seq \in 0 .. next_seq' - 1
    BY <1>6, QueueTyped
  <1>8. UNCHANGED <<rule, remaining, completed, current_step, cancelled, done>>
    BY <1>1 DEF strategyVars
  <1>9. DesTypeOK'
    BY <1>6, <1>7, <1>8, Zenon DEF DesInv, DesTypeOK
  <1> QED
    BY <1>1, <1>6, <1>9 DEF DesInv, SoldIsReported

(* A cancelled order, like the end, changes no account. *)
LEMMA CancelOrEndKeeps ==
  ASSUME DesInv, OnCancel \/ OnEnd
  PROVE  /\ DesInv' /\ FillSum(queue) \in Nat /\ FillSum(queue') = FillSum(queue)
         /\ UNCHANGED <<strategyVars, sold>>
  <1>1. PICK e \in queue, type \in {"cancel", "end"} :
          Pop(e, type) /\ Reschedule(e, <<>>)
    BY Zenon DEF OnCancel, OnEnd
  <1>2. UNCHANGED <<rule, remaining, completed, current_step, sold>>
    BY DEF OnCancel, OnEnd, strategyVars
  <1>3. pending' \in Seq(Orders)
    <2>1. pending \in Seq(Orders)
      BY DEF DesInv, DesTypeOK
    <2>2. ASSUME OnCancel PROVE pending' \in Seq(Orders)
      <3>1. PICK id : pending' = Retain(pending, { i \in DOMAIN pending : pending[i].id # id })
        BY <2>2 DEF OnCancel
      <3> DEFINE keep == { i \in DOMAIN pending : pending[i].id # id }
      <3>2. \A i \in DOMAIN pending : i \in keep => pending[i] \in Orders
        BY <2>1
      <3> HIDE DEF keep
      <3>3. Retain(pending, keep) \in Seq(Orders)
        BY <2>1, <3>2, RetainSeq
      <3> QED
        BY <3>1, <3>3 DEF keep
    <2>3. ASSUME OnEnd PROVE pending' = pending
      BY <2>3 DEF OnEnd
    <2> QED
      BY <2>1, <2>2, <2>3
  <1>4. cancelled' \in BOOLEAN /\ done' \in BOOLEAN
    BY Zenon DEF OnCancel, OnEnd, DesInv, DesTypeOK
  <1>5. /\ clock' \in Nat /\ next_seq' \in Nat
        /\ QueueOK(queue', next_seq', clock')
        /\ IsFiniteSet(Fills(queue'))
        /\ FillSum(queue) \in Nat /\ FillSum(queue') = FillSum(queue)
    BY <1>1, NothingScheduled
  <1>6. \A x \in queue' : x.time \in Nat /\ x.seq \in 0 .. next_seq' - 1
    BY <1>5, QueueTyped
  <1>7. DesTypeOK'
    BY <1>2, <1>3, <1>4, <1>5, <1>6, Zenon DEF DesInv, DesTypeOK
  <1> QED
    BY <1>2, <1>5, <1>7 DEF DesInv, strategyVars

(* A fill leaves the queue for the accounts. *)
LEMMA FillKeeps ==
  ASSUME DesInv, OnFill
  PROVE  /\ DesInv' /\ UNCHANGED <<rule, current_step, sold>>
         /\ FillSum(queue') \in Nat
         /\ \E qty \in Nat :
              /\ FillSum(queue) = FillSum(queue') + qty
              /\ remaining' = [ s \in S |-> AtLeastZero(remaining[s] - qty) ]
              /\ completed' = [ s \in S |-> completed[s] \/ remaining[s] <= qty ]
  <1>1. PICK e \in queue :
          /\ Pop(e, "fill") /\ Reschedule(e, <<>>)
          /\ remaining' = [ s \in S |-> AtLeastZero(remaining[s] - e.qty) ]
          /\ completed' = [ s \in S |-> completed[s] \/ remaining[s] <= e.qty ]
          /\ UNCHANGED <<rule, current_step, pending, sold, cancelled, done>>
    BY DEF OnFill
  <1>2. /\ clock' \in Nat /\ next_seq' \in Nat
        /\ QueueOK(queue', next_seq', clock')
        /\ IsFiniteSet(Fills(queue'))
        /\ FillSum(queue) \in Nat
        /\ e.qty \in Nat /\ FillSum(queue') + e.qty = FillSum(queue)
    BY <1>1, NothingScheduled
  <1>3. \A x \in queue' : x.time \in Nat /\ x.seq \in 0 .. next_seq' - 1
    BY <1>2, QueueTyped
  <1>4. remaining' \in [S -> 0 .. Total]
    <2>1. \A s \in S : remaining[s] \in 0 .. Total
      BY DEF DesInv, DesTypeOK
    <2> QED
      BY <1>1, <1>2, <2>1, AccountBounds
  <1>5. completed' \in [S -> BOOLEAN]
    BY <1>1, Zenon
  <1>6. DesTypeOK'
    BY <1>1, <1>2, <1>3, <1>4, <1>5, Zenon DEF DesInv, DesTypeOK
  <1>7. FillSum(queue') \in Nat
    BY <1>2, SumNat DEF FillSum, Fills, QueueOK
  <1> QED
    BY <1>1, <1>2, <1>6, <1>7 DEF DesInv

LEMMA NextDesInv ==
  ASSUME DesInv, [DesNext]_desVars
  PROVE  DesInv'
  <1>1. CASE OnTick
    BY <1>1, TickKeeps
  <1>2. CASE OnPrice
    BY <1>2, PriceKeeps
  <1>3. CASE OnSubmit
    BY <1>3, SubmitKeeps
  <1>4. CASE OnCancel \/ OnEnd
    BY <1>4, CancelOrEndKeeps
  <1>5. CASE OnFill
    BY <1>5, FillKeeps
  <1>6. CASE UNCHANGED desVars
    <2>1. UNCHANGED <<queue, next_seq, clock, pending, rule, remaining, completed,
                      current_step, sold, cancelled, done>>
      BY <1>6 DEF desVars
    <2>2. DesTypeOK'
      BY <2>1, Zenon DEF DesInv, DesTypeOK
    <2> QED
      BY <2>1, <2>2, Zenon DEF DesInv, QueueOK, Fills
  <1> QED
    BY <1>1, <1>2, <1>3, <1>4, <1>5, <1>6 DEF DesNext

(* In every state the queue holds only events to come, each fill in it a   *)
(* quantity, each submission an order, and all pending orders are orders   *)
(* of some size.                                                           *)
THEOREM DesInvariance == DesSpec => []DesInv
  <1>1. DesInit => DesInv
    BY InitDesInv
  <1>2. DesInv /\ [DesNext]_desVars => DesInv'
    BY NextDesInv
  <1> QED
    BY <1>1, <1>2, PTL DEF DesSpec

(* The types hold: no account of a strategy leaves 0 .. Total, no schedule *)
(* is followed beyond its end.                                             *)
THEOREM DesTypeCorrect == DesSpec => []DesTypeOK
  <1>1. DesInv => DesTypeOK
    BY DEF DesInv
  <1> QED
    BY <1>1, DesInvariance, PTL

(* The impact tracker's "now must be monotonic" holds whatever the delays  *)
(* are: no event is ever due before one that was processed.                *)
THEOREM TimeAlwaysMonotonic == DesSpec => []TimeMonotonic
  <1>1. DesInv => TimeMonotonic
    BY DEF DesInv, QueueOK, TimeMonotonic
  <1> QED
    BY <1>1, DesInvariance, PTL

-----------------------------------------------------------------------------
(* The arithmetic of an account that is kept at zero. *)
LEMMA AccountStep ==
  ASSUME NEW x \in Int, NEW y \in Int, NEW q \in Nat, y = x - q,
         NEW r, r = AtLeastZero(x)
  PROVE  /\ AtLeastZero(r - q) = AtLeastZero(y)
         /\ (r = 0 \/ r <= q) <=> AtLeastZero(y) = 0
  BY DEF AtLeastZero

LEMMA InFlightFills == InFlight("fill") = FillSum(queue)
  BY DEF InFlight, FillSum, Fills

(* What each account is, with any number of strategies: late by the fills  *)
(* in the queue, and short of its own inventory by what the others sold.   *)
AccountLags ==
  \A s \in S : ~PastSchedule(s) =>
    /\ remaining[s] = AtLeastZero(Total + InFlight("fill") - SumFunctionOnSet(sold, S))
    /\ completed[s] <=> remaining[s] = 0

LEMMA AccountPreserved ==
  ASSUME DesInv, AccountLags, [DesNext]_desVars
  PROVE  AccountLags'
  <1> DEFINE left == Total + FillSum(queue) - SumFunctionOnSet(sold, S)
             left2 == Total + FillSum(queue') - SumFunctionOnSet(sold', S)
  <1>1. SUFFICES ASSUME NEW s \in S, ~PastSchedule(s)'
                 PROVE  /\ remaining'[s] = AtLeastZero(left2)
                        /\ completed'[s] <=> remaining'[s] = 0
    <2>1. InFlight("fill")' = FillSum(queue')
      BY DEF InFlight, FillSum, Fills
    <2> QED
      BY <2>1 DEF AccountLags
  <1>2. /\ rule \in [S -> {"chunk", "optimal"}] /\ current_step \in [S -> 0 .. Horizon]
        /\ completed[s] \in BOOLEAN /\ remaining[s] \in 0 .. Total
        /\ Total \in Nat /\ Horizon \in Nat
    BY DesAssumption DEF DesInv, DesTypeOK
  <1>3. ASSUME ~PastSchedule(s)
        PROVE  /\ remaining[s] = AtLeastZero(left)
               /\ completed[s] <=> remaining[s] = 0
    BY <1>3, InFlightFills DEF AccountLags
  <1>4. SumFunctionOnSet(sold, S) \in Nat
    <2>1. \A r \in S : sold[r] \in Nat
      BY DEF DesInv, DesTypeOK
    <2> QED
      BY <2>1, StrategiesFinite, SumNat
  <1>5. ASSUME SoldIsReported PROVE left2 = left
    BY <1>2, <1>5 DEF SoldIsReported
  <1> HIDE DEF left, left2
  <1>6. CASE OnTick
    <2>1. /\ left2 = left
      BY <1>5, <1>6, TickKeeps
    <2>2. ~PastSchedule(s)
      <3>1. rule'[s] = rule[s] /\ current_step[s] <= current_step'[s]
        BY <1>2, <1>6 DEF OnTick
      <3>2. current_step[s] \in Nat /\ current_step'[s] \in Nat
        BY <1>2, <1>6 DEF OnTick
      <3> QED
        BY <1>1, <1>2, <3>1, <3>2 DEF PastSchedule
    <2>3. remaining'[s] = remaining[s]
      BY <1>6, <2>2 DEF OnTick
    <2>4. completed'[s] <=> completed[s]
      BY <1>6, <2>2, Zenon DEF OnTick
    <2>5. remaining'[s] = AtLeastZero(left2)
      BY <1>3, <2>1, <2>2, <2>3
    <2>6. completed'[s] <=> remaining'[s] = 0
      BY <1>3, <2>2, <2>3, <2>4, Zenon
    <2> QED
      BY <2>5, <2>6
  <1>7. CASE OnPrice \/ OnSubmit
    <2>1. left2 = left /\ UNCHANGED strategyVars
      BY <1>5, <1>7, PriceKeeps, SubmitKeeps
    <2>2. UNCHANGED <<rule, remaining, completed, current_step>>
      BY <2>1 DEF strategyVars
    <2>3. ~PastSchedule(s)
      BY <1>1, <2>2 DEF PastSchedule
    <2> QED
      BY <1>3, <2>1, <2>2, <2>3, Zenon
  <1>8. CASE OnCancel \/ OnEnd
    <2>1. /\ left2 = left
          /\ UNCHANGED <<rule, remaining, completed, current_step>>
      BY <1>8, CancelOrEndKeeps DEF left, left2, strategyVars
    <2>2. ~PastSchedule(s)
      BY <1>1, <2>1 DEF PastSchedule
    <2> QED
      BY <1>3, <2>1, <2>2, Zenon
  <1>9. CASE OnFill
    <2>1. PICK qty \in Nat :
            /\ FillSum(queue) = FillSum(queue') + qty
            /\ remaining' = [ r \in S |-> AtLeastZero(remaining[r] - qty) ]
            /\ completed' = [ r \in S |-> completed[r] \/ remaining[r] <= qty ]
      BY <1>9, FillKeeps
    <2>2. FillSum(queue') \in Nat /\ UNCHANGED <<rule, current_step, sold>>
      BY <1>9, FillKeeps
    <2>3. ~PastSchedule(s)
      BY <1>1, <2>2 DEF PastSchedule
    <2>4. left \in Int /\ left2 \in Int /\ left2 = left - qty
      BY <1>2, <1>4, <2>1, <2>2 DEF left, left2
    <2>5. /\ AtLeastZero(remaining[s] - qty) = AtLeastZero(left2)
          /\ (remaining[s] = 0 \/ remaining[s] <= qty) <=> AtLeastZero(left2) = 0
      BY <1>3, <2>3, <2>4, AccountStep
    <2>6. remaining'[s] = AtLeastZero(left2)
      BY <2>1, <2>5
    <2>7. completed'[s] <=> (completed[s] \/ remaining[s] <= qty)
      BY <2>1, Zenon
    <2>8. completed[s] <=> remaining[s] = 0
      BY <1>3, <2>3
    <2>9. completed'[s] <=> remaining'[s] = 0
      BY <2>5, <2>6, <2>7, <2>8, Zenon
    <2> QED
      BY <2>6, <2>9
  <1>10. CASE UNCHANGED desVars
    <2>1. UNCHANGED <<queue, sold, rule, remaining, completed, current_step>>
      BY <1>10 DEF desVars
    <2>2. ~PastSchedule(s) /\ left2 = left
      BY <1>1, <2>1 DEF PastSchedule, left, left2
    <2> QED
      BY <1>3, <2>1, <2>2, Zenon
  <1> QED
    BY <1>6, <1>7, <1>8, <1>9, <1>10 DEF DesNext

(* Every account is the total less all fills that have arrived, in every   *)
(* state.  A total of nothing is left out: its account starts empty, and   *)
(* is marked completed only by the first fill it sees.                     *)
LEMMA AccountsAlwaysLag ==
  ASSUME Total > 0
  PROVE  DesSpec => []AccountLags
  <1>1. DesInit => AccountLags
    <2> SUFFICES ASSUME DesInit, NEW s \in S
                 PROVE  /\ remaining[s] = AtLeastZero(Total + InFlight("fill")
                                                        - SumFunctionOnSet(sold, S))
                        /\ completed[s] <=> remaining[s] = 0
      BY DEF AccountLags
    <2>1. InFlight("fill") = 0
      <3>1. Fills(queue) = {}
        BY InitDesInv
      <3>2. FillSum(queue) = SumFunctionOnSet([e \in {} |-> e.qty], {})
        BY <3>1 DEF FillSum
      <3> QED
        BY <3>2, SumEmpty, InFlightFills
    <2>2. SumFunctionOnSet(sold, S) = 0
      <3> DEFINE sum == SumFunctionOnSet(sold, S)
      <3>1. \A x \in S : sold[x] = 0
        BY DEF DesInit
      <3>2. \A x \in S : sold[x] \in Int /\ sold[x] = sold[x] + sold[x]
        BY <3>1
      <3>3. sum = sum + sum
        BY <3>2, StrategiesFinite, SumSplit
      <3>4. sum \in Int
        BY <3>2, StrategiesFinite, SumInt
      <3> HIDE DEF sum
      <3>5. sum = 0
        BY <3>3, <3>4
      <3> QED
        BY <3>5 DEF sum
    <2>3. remaining[s] = Total /\ Total \in Nat /\ Total > 0
      BY DesAssumption DEF DesInit
    <2>4. completed[s] = FALSE
      BY DEF DesInit
    <2> QED
      BY <2>1, <2>2, <2>3, <2>4 DEF AtLeastZero
  <1>2. DesInv /\ AccountLags /\ [DesNext]_desVars => AccountLags'
    BY AccountPreserved
  <1> QED
    BY <1>1, <1>2, DesInvariance, PTL DEF DesSpec

(* With one strategy all fills are its own. *)
LEMMA SoldAlone ==
  ASSUME Strategies = 1, DesInv
  PROVE  S = {1} /\ sold[1] \in Nat /\ SumFunctionOnSet(sold, S) = sold[1]
  <1>1. S = {1}
    BY DEF S
  <1>2. sold[1] \in Nat
    BY <1>1 DEF DesInv, DesTypeOK
  <1>3. SumFunctionOnSet(sold, {1}) = sold[1]
    <2>1. 1 \in {1} /\ \A y \in {1} \ {1} : sold[y] = 0
      OBVIOUS
    <2>2. sold[1] \in Int /\ IsFiniteSet({1})
      BY <1>1, <1>2, StrategiesFinite
    <2> QED
      BY <2>1, <2>2, SumSingle
  <1> QED
    BY <1>1, <1>2, <1>3

(* A strategy that is alone in the loop keeps an account of its own        *)
(* inventory: in every state it is late by exactly the fills in the queue, *)
(* and it calls itself complete when all it has is sold and reported.      *)
THEOREM AccountAlwaysAgrees ==
  ASSUME Total > 0, Strategies = 1
  PROVE  DesSpec => []AccountAgrees
  <1>1. DesInv /\ AccountLags => AccountAgrees
    <2> SUFFICES ASSUME DesInv, AccountLags, NEW s \in S, ~PastSchedule(s)
                 PROVE  /\ remaining[s] = AtLeastZero(Total + InFlight("fill") - sold[s])
                        /\ completed[s] <=> sold[s] >= Total + InFlight("fill")
      BY DEF AccountAgrees
    <2>1. s = 1 /\ sold[s] \in Nat /\ SumFunctionOnSet(sold, S) = sold[s]
      BY SoldAlone
    <2>2. /\ remaining[s] = AtLeastZero(Total + InFlight("fill") - sold[s])
          /\ completed[s] <=> remaining[s] = 0
      BY <2>1 DEF AccountLags
    <2>3. InFlight("fill") \in Nat
      <3>1. FillSum(queue) \in Nat
        BY SumNat DEF FillSum, Fills, DesInv, QueueOK
      <3> QED
        BY <3>1, InFlightFills
    <2>4. remaining[s] = 0 <=> sold[s] >= Total + InFlight("fill")
      BY <2>1, <2>2, <2>3, DesAssumption DEF AtLeastZero
    <2>5. completed[s] <=> sold[s] >= Total + InFlight("fill")
      BY <2>2, <2>4, Zenon
    <2> QED
      BY <2>2, <2>5
  <1>2. DesSpec => []AccountLags
    BY AccountsAlwaysLag
  <1> QED
    BY <1>1, <1>2, DesInvariance, PTL

-----------------------------------------------------------------------------
(* When no strategy can sell more than it owns: every slice fits one fill, *)
(* and an order submitted on a tick is executed, and its fill has reached  *)
(* the strategies, before the next tick comes.                             *)
SlicesFitAFill == \A qty \in ChunkSizes : qty <= MaxFill
TicksFarApart == \A t, u \in Ticks : t < u => t + OrderDelay + FillDelay < u

IsTick(f) == f.time \in Ticks /\ f = Event(f.time, 3 * f.time, "tick")

(* The order e, or the fill e, is settled before the tick f. *)
Settles(e, f) ==
  /\ e.type = "submit" => e.time + FillDelay < f.time
  /\ e.type = "fill" => e.time < f.time

Settled(q) ==
  \A f \in q : f.type = "tick" => IsTick(f) /\ \A e \in q : Settles(e, f)

Submitted(q) == {e \in q : e.type = "submit"}

(* An order on its way is filled at once and leaves its owner's total met. *)
Fits(e) == e.qty <= MaxFill /\ sold[e.owner] + e.qty <= Total

(* Each strategy has at most one order on its way. *)
OneEach(q) == \A e, f \in Submitted(q) : e.owner = f.owner => e = f

SpacedInv ==
  /\ pending = <<>>
  /\ Settled(queue)
  /\ \A e \in Submitted(queue) : Fits(e)
  /\ OneEach(queue)
  /\ NeverOversold

(* With no order pending there is nothing to fill. *)
LEMMA NothingTried ==
  ASSUME sold \in [S -> Nat], NEW orders, orders = <<>>, TryFill(orders)
  PROVE  /\ pending' = <<>> /\ sold' = sold
         /\ \A t : FillEvents(orders, t) = <<>>
  <1> DEFINE rest == [ i \in DOMAIN orders |->
               [orders[i] EXCEPT !.qty = @ - FillQty(orders[i])] ]
             keep == { i \in DOMAIN orders : orders[i].qty > FillQty(orders[i]) }
             q == [ i \in DOMAIN orders |-> FillQty(orders[i]) ]
  <1>1. DOMAIN orders = {}
    OBVIOUS
  <1>2. rest = <<>>
    BY <1>1
  <1>3. pending' = Retain(rest, keep)
    BY DEF TryFill
  <1>4. ASSUME NEW s \in S PROVE sold'[s] = sold[s]
    <2>1. { i \in DOMAIN orders : orders[i].owner = s } = {}
      BY <1>1
    <2>2. sold'[s] = sold[s] + SumFunctionOnSet(q, { i \in DOMAIN orders : orders[i].owner = s })
      BY DEF TryFill
    <2>3. SumFunctionOnSet(q, {}) = 0
      BY SumEmpty
    <2> QED
      BY <2>1, <2>2, <2>3
  <1>5. sold' = sold
    <2>1. sold' = [s \in S |-> sold'[s]]
      BY DEF TryFill
    <2> QED
      BY <1>4, <2>1
  <1>6. \A t : FillEvents(orders, t) = <<>>
    BY <1>1 DEF FillEvents
  <1> HIDE DEF rest, keep
  <1>7. Retain(rest, keep) = <<>>
    <2>1. rest \in Seq({}) /\ \A i \in DOMAIN rest : i \notin keep
      BY <1>2
    <2> QED
      BY <2>1, RetainNothing
  <1> QED
    BY <1>3, <1>5, <1>6, <1>7

(* An order that fits one fill is executed whole when it is tried. *)
LEMMA OneTried ==
  ASSUME sold \in [S -> Nat], NEW order \in Orders, order.qty <= MaxFill,
         NEW orders, orders = <<order>>, TryFill(orders)
  PROVE  /\ pending' = <<>>
         /\ sold'[order.owner] = sold[order.owner] + order.qty
         /\ \A s \in S \ {order.owner} : sold'[s] = sold[s]
         /\ \A t : /\ DOMAIN FillEvents(orders, t) = {1}
                   /\ FillEvents(orders, t)[1].type = "fill"
                   /\ FillEvents(orders, t)[1].time = t + FillDelay
  <1> DEFINE rest == [ i \in DOMAIN orders |->
               [orders[i] EXCEPT !.qty = @ - FillQty(orders[i])] ]
             keep == { i \in DOMAIN orders : orders[i].qty > FillQty(orders[i]) }
             q == [ i \in DOMAIN orders |-> FillQty(orders[i]) ]
             of(s) == { i \in DOMAIN orders : orders[i].owner = s }
  <1>1. DOMAIN orders = {1} /\ orders[1] = order
    OBVIOUS
  <1>2. FillQty(order) = order.qty /\ order.qty \in Nat /\ order.owner \in S
    BY DesAssumption DEF FillQty, Smaller, Orders
  <1>3. pending' = Retain(rest, keep)
    BY DEF TryFill
  <1>4. ASSUME NEW s \in S PROVE sold'[s] = sold[s] + SumFunctionOnSet(q, of(s))
    BY DEF TryFill
  <1>5. q[1] = order.qty
    BY <1>1, <1>2
  <1>6. keep = {}
    BY <1>1, <1>2
  <1>7. rest \in Seq({rest[1]})
    BY <1>1
  <1>8. of(order.owner) = {1} /\ \A s \in S \ {order.owner} : of(s) = {}
    BY <1>1
  <1>9. \A t : /\ DOMAIN FillEvents(orders, t) = {1}
               /\ FillEvents(orders, t)[1].type = "fill"
               /\ FillEvents(orders, t)[1].time = t + FillDelay
    BY <1>1 DEF FillEvents
  <1> HIDE DEF rest, keep, q, of
  <1>10. SumFunctionOnSet(q, {}) = 0 /\ SumFunctionOnSet(q, {1}) = order.qty
    <2>1. SumFunctionOnSet(q, {1}) = q[1]
      <3> DEFINE I == {1}
      <3>1. /\ 1 \in I /\ \A y \in I \ {1} : q[y] = 0
            /\ q[1] \in Int
        BY <1>2, <1>5
      <3>2. IsFiniteSet(I)
        BY FS_Singleton, Zenon
      <3> HIDE DEF I
      <3>3. SumFunctionOnSet(q, I) = q[1]
        BY <3>2, <3>1, SumSingle
      <3> QED
        BY <3>3 DEF I
    <2> QED
      BY <1>5, <2>1, SumEmpty
  <1>11. Retain(rest, keep) = <<>>
    BY <1>6, <1>7, RetainNothing
  <1>12. sold'[order.owner] = sold[order.owner] + order.qty
    BY <1>2, <1>4, <1>8, <1>10
  <1>13. ASSUME NEW s \in S \ {order.owner} PROVE sold'[s] = sold[s]
    BY <1>4, <1>8, <1>10
  <1> QED
    BY <1>3, <1>9, <1>11, <1>12, <1>13

(* A tick's submissions: one for each strategy that submits. *)
LEMMA SubmitEventsOnce ==
  ASSUME NEW t \in Nat, NEW chunk
  PROVE  LET more == SubmitEvents(chunk, t) IN
           /\ \A i \in DOMAIN more :
                \E s \in S :
                  /\ Submits(s)
                  /\ more[i] = [time |-> t + OrderDelay, seq |-> 0, type |-> "submit",
                                owner |-> s, qty |-> Smaller(chunk[s], remaining[s])]
           /\ \A i, j \in DOMAIN more : more[i].owner = more[j].owner => i = j
  <1> DEFINE all == [ s \in S |->
               [time |-> t + OrderDelay, seq |-> 0, type |-> "submit",
                owner |-> s, qty |-> Smaller(chunk[s], remaining[s])] ]
             X == {all[s] : s \in S}
             keep == {r \in S : Submits(r)}
             Y == {all[s] : s \in keep}
             more == Retain(all, keep)
  <1>1. all \in Seq(X) /\ DOMAIN all = S
    BY DesAssumption DEF S
  <1>2. \A s \in S : all[s].owner = s
    OBVIOUS
  <1>3. \A r, s \in DOMAIN all : all[r] = all[s] => r = s
    <2> HIDE DEF all
    <2> QED
      BY <1>1, <1>2
  <1>4. \A s \in DOMAIN all : s \in keep => all[s] \in Y
    OBVIOUS
  <1>5. SubmitEvents(chunk, t) = more
    BY DEF SubmitEvents
  <1>6. \A y \in Y : \E s \in S :
          /\ Submits(s) /\ y = all[s]
          /\ y = [time |-> t + OrderDelay, seq |-> 0, type |-> "submit",
                  owner |-> s, qty |-> Smaller(chunk[s], remaining[s])]
    OBVIOUS
  <1> HIDE DEF all, X, keep, Y
  <1>7. more \in Seq(Y)
    BY <1>1, <1>4, RetainSeq
  <1>8. \A i, j \in DOMAIN more : more[i] = more[j] => i = j
    BY <1>1, <1>3, RetainDistinct
  <1> HIDE DEF more
  <1>9. \A i \in DOMAIN more : more[i] \in Y
    BY <1>7
  <1>10. ASSUME NEW i \in DOMAIN more, NEW j \in DOMAIN more, more[i].owner = more[j].owner
         PROVE  i = j
    <2>1. PICK s \in S : more[i] = all[s]
      BY <1>6, <1>9
    <2>2. PICK r \in S : more[j] = all[r]
      BY <1>6, <1>9
    <2>3. s = r
      BY <1>2, <1>10, <2>1, <2>2
    <2> QED
      BY <1>8, <2>1, <2>2, <2>3
  <1>11. \A i \in DOMAIN more :
           \E s \in S :
             /\ Submits(s)
             /\ more[i] = [time |-> t + OrderDelay, seq |-> 0, type |-> "submit",
                           owner |-> s, qty |-> Smaller(chunk[s], remaining[s])]
    BY <1>6, <1>9, Zenon
  <1> QED
    BY <1>5, <1>10, <1>11, Zenon

(* What a step that schedules follow leaves in the queue. *)
LEMMA RescheduledEvents ==
  ASSUME NEW e \in queue, NEW follow, Reschedule(e, follow), NEW x \in queue'
  PROVE  \/ x \in queue \ {e}
         \/ \E i \in DOMAIN follow : x = Numbered(follow)[i]
  BY DEF Reschedule, Numbered

(* The new events are nothing but the submissions of a tick, or the fill   *)
(* of an order: numbering them changes nothing else of them.               *)
LEMMA NumberedKeeps ==
  ASSUME NEW t, NEW follow \in Seq(FollowsFrom(t)), NEW i \in DOMAIN follow
  PROVE  /\ Numbered(follow)[i].time = follow[i].time
         /\ Numbered(follow)[i].type = follow[i].type
         /\ follow[i].type \in {"fill", "submit"}
         /\ follow[i].type = "submit" =>
              /\ Numbered(follow)[i].owner = follow[i].owner
              /\ Numbered(follow)[i].qty = follow[i].qty
  <1>1. CASE follow[i] \in FillsFrom(t)
    BY <1>1 DEF Numbered, FillsFrom
  <1>2. CASE follow[i] \in SubmitsFrom(t)
    BY <1>2 DEF Numbered, SubmitsFrom
  <1> QED
    BY <1>1, <1>2 DEF FollowsFrom

(* Taking events off the queue, with nothing sold, disturbs nothing. *)
LEMMA FewerEvents ==
  ASSUME SpacedInv, pending' = <<>>, sold' = sold, \A x \in queue' : x \in queue
  PROVE  SpacedInv'
  <1>1. Settled(queue')
    BY DEF SpacedInv, Settled
  <1>2. OneEach(queue')
    BY DEF SpacedInv, OneEach, Submitted
  <1>3. \A x \in Submitted(queue') : Fits(x)'
    BY DEF SpacedInv, Submitted, Fits
  <1>4. NeverOversold'
    BY DEF SpacedInv, NeverOversold
  <1> QED
    BY <1>1, <1>2, <1>3, <1>4 DEF SpacedInv, Settled, OneEach, Submitted

(* When a tick comes every order is settled, so what a strategy believes   *)
(* to be left is what is left of its total once all that was sold, by      *)
(* itself and by the others, is taken off.                                 *)
LEMMA TickSettled ==
  ASSUME DesInv, AccountLags, SpacedInv, NEW e \in queue, Pop(e, "tick")
  PROVE  /\ Submitted(queue) = {}
         /\ \A s \in S : Submits(s) => remaining[s] <= Total - sold[s]
  <1>1. /\ e.type = "tick" /\ e.time \in Nat
        /\ \A f \in queue \ {e} : Before(e, f)
    BY DEF Pop, DesInv, QueueOK
  <1>2. ASSUME NEW f \in queue PROVE f.type # "submit" /\ f.type # "fill"
    <2> SUFFICES ASSUME f.type = "submit" \/ f.type = "fill" PROVE FALSE
      OBVIOUS
    <2>1. f \in queue \ {e}
      BY <1>1
    <2>2. f.time \in Nat /\ f.time >= e.time
      BY <1>1, <2>1 DEF Before, DesInv, QueueOK
    <2>3. Settles(f, e)
      BY <1>1 DEF SpacedInv, Settled
    <2>4. f.time < e.time
      BY <1>1, <2>2, <2>3, DesAssumption DEF Settles
    <2> QED
      BY <1>1, <2>2, <2>4
  <1>3. Submitted(queue) = {} /\ Fills(queue) = {}
    BY <1>2 DEF Submitted, Fills
  <1>4. InFlight("fill") = 0
    <2>1. FillSum(queue) = SumFunctionOnSet([x \in {} |-> x.qty], {})
      BY <1>3 DEF FillSum
    <2> QED
      BY <2>1, SumEmpty, InFlightFills
  <1>5. ASSUME NEW s \in S, Submits(s) PROVE remaining[s] <= Total - sold[s]
    <2> DEFINE others == S \ {s}
    <2>1. IsFiniteSet(others) /\ s \notin others /\ others \cup {s} = S
      BY StrategiesFinite, FS_RemoveElement
    <2>2. \A r \in S : sold[r] \in Nat
      BY DEF DesInv, DesTypeOK
    <2> HIDE DEF others
    <2>3. SumFunctionOnSet(sold, S) = sold[s] + SumFunctionOnSet(sold, others)
      <3>1. sold[s] \in Int /\ \A r \in others : sold[r] \in Int
        BY <2>1, <2>2
      <3>2. SumFunctionOnSet(sold, others \cup {s}) = sold[s] + SumFunctionOnSet(sold, others)
        BY <2>1, <3>1, SumAdd
      <3> QED
        BY <2>1, <3>2
    <2>4. SumFunctionOnSet(sold, others) \in Nat
      BY <2>1, <2>2, SumNat
    <2>5. remaining[s] = AtLeastZero(Total + 0 - SumFunctionOnSet(sold, S)) /\ remaining[s] > 0
      BY <1>4, <1>5 DEF AccountLags, Submits
    <2> QED
      BY <2>2, <2>3, <2>4, <2>5, DesAssumption DEF AtLeastZero
  <1> QED
    BY <1>3, <1>5

LEMMA TickSpaced ==
  ASSUME SlicesFitAFill, TicksFarApart, DesInv, AccountLags, SpacedInv, OnTick
  PROVE  SpacedInv'
  <1>1. PICK e \in queue, chunk \in [S -> ChunkSizes] :
          /\ Pop(e, "tick")
          /\ TryFill(pending)
          /\ Reschedule(e, FillEvents(pending, e.time) \o SubmitEvents(chunk, e.time))
    BY DEF OnTick
  <1>2. /\ sold \in [S -> Nat] /\ remaining \in [S -> 0 .. Total] /\ e.time \in Nat
        /\ pending = <<>> /\ e.type = "tick"
    BY <1>1 DEF DesInv, DesTypeOK, SpacedInv, Pop
  <1> DEFINE more == SubmitEvents(chunk, e.time)
  <1>3. /\ \A i \in DOMAIN more :
             \E s \in S :
               /\ Submits(s)
               /\ more[i] = [time |-> e.time + OrderDelay, seq |-> 0, type |-> "submit",
                             owner |-> s, qty |-> Smaller(chunk[s], remaining[s])]
        /\ \A i, j \in DOMAIN more : more[i].owner = more[j].owner => i = j
    BY <1>2, SubmitEventsOnce, Zenon
  <1>4. more \in Seq(SubmitsFrom(e.time)) /\ more \in Seq(FollowsFrom(e.time))
    BY <1>2, SubmitEventsFollow DEF FollowsFrom
  <1> HIDE DEF more
  <1>5. pending' = <<>> /\ sold' = sold /\ Reschedule(e, more)
    <2>1. /\ pending' = <<>> /\ sold' = sold
          /\ FillEvents(pending, e.time) = <<>>
      BY <1>1, <1>2, NothingTried
    <2>2. <<>> \o more = more
      BY <1>4
    <2> QED
      BY <1>1, <2>1, <2>2 DEF more
  <1>6. /\ Submitted(queue) = {}
        /\ \A s \in S : Submits(s) => remaining[s] <= Total - sold[s]
    BY <1>1, TickSettled
  <1>7. ASSUME NEW x \in queue', x \notin queue \ {e}
        PROVE  /\ x.type = "submit" /\ x.time = e.time + OrderDelay
               /\ Fits(x)
               /\ \E i \in DOMAIN more : x = Numbered(more)[i] /\ x.owner = more[i].owner
    <2>1. PICK i \in DOMAIN more : x = Numbered(more)[i]
      BY <1>5, <1>7, RescheduledEvents
    <2>2. PICK s \in S :
            /\ Submits(s)
            /\ more[i] = [time |-> e.time + OrderDelay, seq |-> 0, type |-> "submit",
                          owner |-> s, qty |-> Smaller(chunk[s], remaining[s])]
      BY <1>3
    <2>3. /\ more[i].type = "submit" /\ more[i].time = e.time + OrderDelay
          /\ more[i].owner = s /\ more[i].qty = Smaller(chunk[s], remaining[s])
      BY <2>2
    <2>4. /\ x.time = more[i].time /\ x.type = more[i].type
          /\ more[i].type = "submit" => x.owner = more[i].owner /\ x.qty = more[i].qty
      BY <1>4, <2>1, NumberedKeeps
    <2>5. /\ remaining[s] \in 0 .. Total /\ sold[s] \in Nat
          /\ remaining[s] <= Total - sold[s]
          /\ chunk[s] \in Nat /\ chunk[s] <= MaxFill
      BY <1>2, <1>6, <2>2, DesAssumption DEF SlicesFitAFill
    <2>6. x.qty = Smaller(chunk[s], remaining[s]) /\ x.owner = s
      BY <2>3, <2>4
    <2>7. x.qty <= MaxFill /\ sold[s] + x.qty <= Total
      BY <2>5, <2>6, DesAssumption DEF Smaller
    <2> QED
      BY <2>1, <2>3, <2>4, <2>6, <2>7 DEF Fits
  <1>8. ASSUME NEW f \in queue', f.type = "tick", NEW x \in queue'
        PROVE  IsTick(f) /\ Settles(x, f)
    <2>1. f \in queue \ {e}
      BY <1>7, <1>8
    <2>2. IsTick(f) /\ IsTick(e)
      BY <1>2, <1>8, <2>1 DEF SpacedInv, Settled
    <2>3. CASE x \in queue \ {e}
      BY <1>8, <2>1, <2>2, <2>3 DEF SpacedInv, Settled
    <2>4. CASE x \notin queue \ {e}
      <3>1. x.type = "submit" /\ x.time = e.time + OrderDelay
        BY <1>7, <2>4
      <3>2. f.time \in Nat /\ Before(e, f)
        BY <1>1, <2>1 DEF Pop, DesInv, QueueOK
      <3>3. f.time # e.time
        BY <2>1, <2>2 DEF IsTick
      <3>4. e.time < f.time /\ e.time \in Ticks /\ f.time \in Ticks
        BY <2>2, <3>2, <3>3 DEF Before, IsTick
      <3>5. e.time + OrderDelay + FillDelay < f.time
        BY <3>4 DEF TicksFarApart
      <3> QED
        BY <2>2, <3>1, <3>5 DEF Settles
    <2> QED
      BY <2>3, <2>4
  <1>9. \A x \in Submitted(queue') : x \in queue' /\ x \notin queue \ {e}
    BY <1>6 DEF Submitted
  <1>10. ASSUME NEW x \in Submitted(queue'), NEW y \in Submitted(queue'), x.owner = y.owner
         PROVE  x = y
    <2>1. PICK i \in DOMAIN more : x = Numbered(more)[i] /\ x.owner = more[i].owner
      BY <1>7, <1>9
    <2>2. PICK j \in DOMAIN more : y = Numbered(more)[j] /\ y.owner = more[j].owner
      BY <1>7, <1>9
    <2>3. i = j
      BY <1>3, <1>10, <2>1, <2>2
    <2> QED
      BY <2>1, <2>2, <2>3
  <1>11. \A x \in Submitted(queue') : Fits(x)'
    BY <1>5, <1>7, <1>9 DEF Fits
  <1>12. Settled(queue)'
    BY <1>8 DEF Settled
  <1>13. OneEach(queue)'
    BY <1>10 DEF OneEach, Submitted
  <1>14. NeverOversold'
    BY <1>5 DEF SpacedInv, NeverOversold
  <1> QED
    BY <1>5, <1>11, <1>12, <1>13, <1>14 DEF SpacedInv, Submitted

LEMMA SubmitSpaced ==
  ASSUME DesInv, SpacedInv, OnSubmit
  PROVE  SpacedInv'
  <1>1. PICK e \in queue :
          /\ Pop(e, "submit")
          /\ LET orders == Append(pending, [owner |-> e.owner, id |-> e.seq, qty |-> e.qty])
             IN  TryFill(orders) /\ Reschedule(e, FillEvents(orders, e.time))
    BY DEF OnSubmit
  <1> DEFINE order == [owner |-> e.owner, id |-> e.seq, qty |-> e.qty]
             orders == <<order>>
             fills == FillEvents(orders, e.time)
  <1>2. TryFill(orders) /\ Reschedule(e, fills)
    <2>1. Append(pending, order) = orders
      BY DEF SpacedInv
    <2> QED
      BY <1>1, <2>1
  <1>3. /\ e.type = "submit" /\ e.time \in Nat /\ sold \in [S -> Nat]
        /\ order \in Orders /\ order.owner = e.owner /\ order.qty = e.qty
        /\ e.owner \in S /\ e.qty \in Nat
    BY <1>1 DEF DesInv, DesTypeOK, QueueOK, Pop, Orders
  <1>4. /\ e \in Submitted(queue) /\ Fits(e)
    BY <1>3 DEF SpacedInv, Submitted
  <1>5. orders \in Seq(Orders) /\ order.qty <= MaxFill
    BY <1>3, <1>4 DEF Fits
  <1> HIDE DEF order
  <1>6. /\ pending' = <<>>
        /\ sold'[e.owner] = sold[e.owner] + e.qty
        /\ \A s \in S \ {e.owner} : sold'[s] = sold[s]
        /\ DOMAIN fills = {1} /\ fills[1].type = "fill" /\ fills[1].time = e.time + FillDelay
    BY <1>2, <1>3, <1>5, OneTried
  <1>7. fills \in Seq(FollowsFrom(e.time))
    <2>1. fills \in Seq(FillsFrom(e.time))
      BY <1>3, <1>5, FillEventsFollow
    <2> HIDE DEF fills
    <2> QED
      BY <2>1 DEF FollowsFrom
  <1> HIDE DEF fills, orders
  <1>8. ASSUME NEW x \in queue', x \notin queue \ {e}
        PROVE  x.type = "fill" /\ x.time = e.time + FillDelay
    <2>1. PICK i \in DOMAIN fills : x = Numbered(fills)[i]
      BY <1>2, <1>8, RescheduledEvents
    <2>2. x.time = fills[i].time /\ x.type = fills[i].type
      BY <1>7, <2>1, NumberedKeeps
    <2>3. i = 1
      BY <1>6
    <2> QED
      BY <1>6, <2>2, <2>3
  <1>9. ASSUME NEW f \in queue', f.type = "tick", NEW x \in queue'
        PROVE  IsTick(f) /\ Settles(x, f)
    <2>1. f \in queue
      BY <1>8, <1>9
    <2>2. IsTick(f) /\ Settles(e, f)
      BY <1>9, <2>1 DEF SpacedInv, Settled
    <2>3. CASE x \in queue \ {e}
      BY <1>9, <2>1, <2>2, <2>3 DEF SpacedInv, Settled
    <2>4. CASE x \notin queue \ {e}
      <3>1. x.type = "fill" /\ x.time = e.time + FillDelay
        BY <1>8, <2>4
      <3>2. e.time + FillDelay < f.time
        BY <1>3, <2>2 DEF Settles
      <3> QED
        BY <2>2, <3>1, <3>2 DEF Settles
    <2> QED
      BY <2>3, <2>4
  <1>10. ASSUME NEW x \in Submitted(queue')
         PROVE  x \in Submitted(queue) /\ x # e
    BY <1>8 DEF Submitted
  <1>11. ASSUME NEW x \in Submitted(queue') PROVE Fits(x)'
    <2>1. x \in Submitted(queue) /\ x # e
      BY <1>10
    <2>2. x.owner # e.owner
      BY <1>4, <2>1 DEF SpacedInv, OneEach
    <2>3. x.owner \in S
      BY <2>1 DEF Submitted, DesInv, QueueOK
    <2>4. sold'[x.owner] = sold[x.owner]
      BY <1>6, <2>2, <2>3
    <2> QED
      BY <2>1, <2>4 DEF SpacedInv, Fits
  <1>12. NeverOversold'
    <2>1. ASSUME NEW s \in S PROVE sold'[s] <= Total
      <3>1. CASE s = e.owner
        BY <1>4, <1>6, <3>1 DEF Fits
      <3>2. CASE s # e.owner
        BY <1>6, <3>2 DEF SpacedInv, NeverOversold
      <3> QED
        BY <3>1, <3>2
    <2> QED
      BY <2>1 DEF NeverOversold
  <1>13. Settled(queue)'
    BY <1>9 DEF Settled
  <1>14. OneEach(queue)'
    BY <1>10 DEF SpacedInv, OneEach, Submitted
  <1> QED
    BY <1>6, <1>11, <1>12, <1>13, <1>14 DEF SpacedInv, Submitted

(* A price, a cancel, a fill and the end find no order pending. *)
LEMMA OthersSpaced ==
  ASSUME DesInv, SpacedInv, OnPrice \/ OnCancel \/ OnFill \/ OnEnd
  PROVE  SpacedInv'
  <1>1. pending = <<>> /\ sold \in [S -> Nat]
    BY DEF SpacedInv, DesInv, DesTypeOK
  <1>2. /\ pending' = <<>> /\ sold' = sold
        /\ \E e \in queue : Reschedule(e, <<>>)
    <2>1. CASE OnPrice
      <3>1. PICK e \in queue : TryFill(pending) /\ Reschedule(e, FillEvents(pending, e.time))
        BY <2>1 DEF OnPrice
      <3> QED
        BY <1>1, <3>1, NothingTried
    <2>2. CASE OnCancel
      <3>1. PICK id :
              /\ pending' = Retain(pending, { i \in DOMAIN pending : pending[i].id # id })
              /\ \E e \in queue : Reschedule(e, <<>>)
              /\ sold' = sold
        BY <2>2 DEF OnCancel
      <3> DEFINE keep == { i \in DOMAIN pending : pending[i].id # id }
      <3>2. pending \in Seq({}) /\ \A i \in DOMAIN pending : i \notin keep
        BY <1>1
      <3> HIDE DEF keep
      <3>3. Retain(pending, keep) = <<>>
        BY <3>2, RetainNothing
      <3> QED
        BY <3>1, <3>3 DEF keep
    <2>3. CASE OnFill
      BY <1>1, <2>3 DEF OnFill
    <2>4. CASE OnEnd
      BY <1>1, <2>4 DEF OnEnd
    <2> QED
      BY <2>1, <2>2, <2>3, <2>4
  <1>3. PICK e \in queue : Reschedule(e, <<>>)
    BY <1>2
  <1>4. \A x \in queue' : x \in queue
    BY <1>3 DEF Reschedule
  <1> QED
    BY <1>2, <1>4, FewerEvents

LEMMA InitSpaced ==
  ASSUME DesInit
  PROVE  SpacedInv
  <1>1. PICK prices \in SUBSET MorePrices, cancels \in SUBSET Cancels :
          queue = { Event(t, 3 * t, "tick") : t \in Ticks }
                  \cup { Event(t, 3 * t + 1, "price") : t \in Prices \cup prices }
                  \cup { Event(t, 3 * t + 2, "cancel") : t \in cancels }
                  \cup { Event(EndTime, 3 * EndTime + 3, "end") }
    BY DEF DesInit
  <1>2. ASSUME NEW e \in queue
        PROVE  /\ e.type # "fill" /\ e.type # "submit"
               /\ e.type = "tick" => IsTick(e)
    <2>1. CASE \E t \in Ticks : e = Event(t, 3 * t, "tick")
      BY <2>1 DEF Event, IsTick
    <2>2. CASE \E t \in Prices \cup prices : e = Event(t, 3 * t + 1, "price")
      BY <2>2 DEF Event
    <2>3. CASE \E t \in cancels : e = Event(t, 3 * t + 2, "cancel")
      BY <2>3 DEF Event
    <2>4. CASE e = Event(EndTime, 3 * EndTime + 3, "end")
      BY <2>4 DEF Event
    <2> QED
      BY <1>1, <2>1, <2>2, <2>3, <2>4
  <1>3. Settled(queue)
    BY <1>2 DEF Settled, Settles
  <1>4. Submitted(queue) = {}
    BY <1>2 DEF Submitted
  <1>5. NeverOversold
    BY DesAssumption DEF DesInit, NeverOversold
  <1>6. pending = <<>>
    BY DEF DesInit
  <1> QED
    BY <1>3, <1>4, <1>5, <1>6 DEF SpacedInv, OneEach

(* With slices that fit one fill and ticks far enough apart for an order   *)
(* and its fill, no strategy ever sells more than its total, whatever is   *)
(* cancelled.  One alone in the loop may sell all of it; of several each   *)
(* counts the fills of all as its own, and so sells too little.            *)
THEOREM SpacedNeverOversells ==
  ASSUME Total > 0, SlicesFitAFill, TicksFarApart
  PROVE  DesSpec => []NeverOversold
  <1>1. DesInit => SpacedInv
    BY InitSpaced
  <1>2. DesInv /\ AccountLags /\ SpacedInv /\ [DesNext]_desVars => SpacedInv'
    <2> SUFFICES ASSUME DesInv, AccountLags, SpacedInv, [DesNext]_desVars
                 PROVE  SpacedInv'
      OBVIOUS
    <2>1. CASE OnTick
      BY <2>1, TickSpaced
    <2>2. CASE OnSubmit
      BY <2>2, SubmitSpaced
    <2>3. CASE OnPrice \/ OnCancel \/ OnFill \/ OnEnd
      BY <2>3, OthersSpaced
    <2>4. CASE UNCHANGED desVars
      <3>1. pending' = <<>> /\ sold' = sold /\ queue' = queue
        BY <2>4 DEF desVars, SpacedInv
      <3> QED
        BY <3>1, FewerEvents
    <2> QED
      BY <2>1, <2>2, <2>3, <2>4 DEF DesNext
  <1>3. SpacedInv => NeverOversold
    BY DEF SpacedInv
  <1>4. DesSpec => []AccountLags
    BY AccountsAlwaysLag
  <1> QED
    BY <1>1, <1>2, <1>3, <1>4, DesInvariance, PTL DEF DesSpec

-----------------------------------------------------------------------------
(* When a strategy that keeps slicing has sold everything: the ticks are   *)
(* enough for the least it asks for on each, one fill covers that much,    *)
(* and the last order and its fill come before the end.                    *)
EnoughTicks(c) ==
  /\ c \in Nat /\ c <= MaxFill /\ \A qty \in ChunkSizes : c <= qty
  /\ Total <= c * Cardinality(Ticks)

EndsLate ==
  /\ \A t \in Ticks : t + OrderDelay + FillDelay < EndTime
  /\ \A t \in Prices \cup MorePrices : t + FillDelay < EndTime

AllSlice == \A s \in S : rule[s] = "chunk"

(* The events that will bring a sale about, and the least each of them     *)
(* will: a tick a whole slice, an order on its way no more than its size.  *)
Open(q) == {e \in q : e.type \in {"tick", "submit"}}
Worth(c, e) == IF e.type = "tick" THEN c ELSE Smaller(e.qty, c)
Outlook(c, q) == SumFunctionOnSet([e \in Open(q) |-> Worth(c, e)], Open(q))

(* Every event is settled before the end. *)
InTime(e) ==
  /\ e.type = "tick" => e.time + OrderDelay + FillDelay < EndTime
  /\ e.type \in {"price", "submit"} => e.time + FillDelay < EndTime
  /\ e.type = "fill" => e.time < EndTime
  /\ e.type = "end" => e.time = EndTime

(* What is sold and what is still to be sold cover the total, and at the   *)
(* end nothing is left to be sold or reported.                             *)
FinishInv(c) ==
  /\ IsFiniteSet(Open(queue))
  /\ \A e \in queue : InTime(e)
  /\ done => Open(queue) = {} /\ Fills(queue) = {}
  /\ AllSlice => Total <= SumFunctionOnSet(sold, S) + Outlook(c, queue)

(* What is kept is found in what Retain returns. *)
LEMMA RetainKeeps ==
  ASSUME NEW X, NEW seq \in Seq(X), NEW keep, NEW n \in DOMAIN seq, n \in keep
  PROVE  \E i \in DOMAIN Retain(seq, keep) : Retain(seq, keep)[i] = seq[n]
  <1>1. PICK k : /\ KeepsTo(k, seq, keep, Len(seq))
                 /\ Retain(seq, keep) = k[Len(seq)]
    BY RetainRecursion
  <1> DEFINE Found(r) == \E i \in 1 .. Len(r) : r[i] = seq[n]
             Q == {m \in Nat : m <= Len(seq) => k[m] \in Seq(X) /\ (n <= m => Found(k[m]))}
  <1>2. 0 \in Q
    <2>1. k[0] = <<>>
      BY <1>1 DEF KeepsTo
    <2>2. ~(n <= 0)
      OBVIOUS
    <2>3. <<>> \in Seq(X)
      OBVIOUS
    <2> HIDE DEF Found
    <2> QED
      BY <2>1, <2>2, <2>3
  <1>3. ASSUME NEW m \in Nat, m \in Q PROVE m + 1 \in Q
    <2> SUFFICES ASSUME m + 1 <= Len(seq)
                 PROVE  k[m + 1] \in Seq(X) /\ (n <= m + 1 => Found(k[m + 1]))
      <3> HIDE DEF Found
      <3> QED
        OBVIOUS
    <2>1. /\ k[m] \in Seq(X) /\ (n <= m => Found(k[m]))
          /\ m + 1 \in DOMAIN seq /\ m + 1 \in 0 .. Len(seq) /\ (m + 1) - 1 = m
          /\ n \in Nat /\ seq[m + 1] \in X
      BY <1>3
    <2>2. k[m + 1] = IF m + 1 \in keep THEN Append(k[m], seq[m + 1]) ELSE k[m]
      <3>1. \A j \in 0 .. Len(seq) :
              k[j] = IF j = 0 THEN <<>>
                     ELSE IF j \in keep THEN Append(k[j - 1], seq[j]) ELSE k[j - 1]
        BY <1>1, Zenon DEF KeepsTo
      <3>2. m + 1 # 0
        OBVIOUS
      <3> QED
        BY <2>1, <3>1, <3>2, Zenon
    <2> HIDE DEF Q
    <2>3. CASE m + 1 \in keep
      <3> DEFINE r == k[m]
                 x == seq[m + 1]
      <3>1. r \in Seq(X) /\ (n <= m => Found(r)) /\ x \in X /\ (n = m + 1 => seq[n] = x)
        BY <2>1
      <3>2. n <= m \/ n = m + 1 \/ ~(n <= m + 1)
        BY <2>1
      <3> HIDE DEF r, x
      <3>3. Append(r, x) \in Seq(X)
        BY <3>1
      <3>4. ASSUME n <= m PROVE Found(Append(r, x))
        BY <3>1, <3>4
      <3>5. ASSUME n = m + 1 PROVE Found(Append(r, x))
        BY <3>1, <3>5
      <3> QED
        BY <2>2, <2>3, <3>2, <3>3, <3>4, <3>5 DEF r, x
    <2>4. CASE m + 1 \notin keep
      <3>1. n # m + 1
        BY <2>4
      <3>2. n <= m + 1 => n <= m
        BY <2>1, <3>1
      <3> HIDE DEF Found
      <3> QED
        BY <2>1, <2>2, <2>4, <3>2
    <2> QED
      BY <2>3, <2>4
  <1>4. Nat \subseteq Q
    <2> HIDE DEF Q
    <2> QED
      BY <1>2, <1>3, NumberInduction
  <1> DEFINE kept == Retain(seq, keep)
  <1>5. kept \in Seq(X) /\ Found(kept)
    <2>1. Len(seq) \in Q /\ n <= Len(seq)
      BY <1>4
    <2> HIDE DEF Found
    <2> QED
      BY <1>1, <2>1
  <1> HIDE DEF kept
  <1>6. DOMAIN kept = 1 .. Len(kept)
    BY <1>5
  <1> QED
    BY <1>5, <1>6 DEF kept

(* A strategy that submits has its slice among the events of the tick. *)
LEMMA SubmitEventOf ==
  ASSUME NEW t \in Nat, NEW chunk, NEW s \in S, Submits(s)
  PROVE  LET more == SubmitEvents(chunk, t) IN
           \E i \in DOMAIN more :
             more[i] = [time |-> t + OrderDelay, seq |-> 0, type |-> "submit",
                        owner |-> s, qty |-> Smaller(chunk[s], remaining[s])]
  <1> DEFINE all == [ r \in S |->
               [time |-> t + OrderDelay, seq |-> 0, type |-> "submit",
                owner |-> r, qty |-> Smaller(chunk[r], remaining[r])] ]
             X == {all[r] : r \in S}
             keep == {r \in S : Submits(r)}
  <1>1. all \in Seq(X) /\ DOMAIN all = S
    BY DesAssumption DEF S
  <1>2. SubmitEvents(chunk, t) = Retain(all, keep)
    BY DEF SubmitEvents
  <1>3. s \in DOMAIN all /\ s \in keep
    BY <1>1
  <1>4. all[s] = [time |-> t + OrderDelay, seq |-> 0, type |-> "submit",
                  owner |-> s, qty |-> Smaller(chunk[s], remaining[s])]
    OBVIOUS
  <1> HIDE DEF all, X, keep
  <1>5. \E i \in DOMAIN Retain(all, keep) : Retain(all, keep)[i] = all[s]
    BY <1>1, <1>3, RetainKeeps
  <1> QED
    BY <1>2, <1>4, <1>5, Zenon

(* What an open event is worth is a number, and the outlook with it. *)
LEMMA WorthTyped ==
  ASSUME NEW c \in Nat, NEW q, NEW n, NEW t, QueueOK(q, n, t), NEW e \in q,
         e.type \in {"tick", "submit"}
  PROVE  Worth(c, e) \in Nat
  <1>1. e.type # "tick" => e.qty \in Nat
    BY DEF QueueOK
  <1> QED
    BY <1>1 DEF Worth, Smaller

(* A queue with all the open events of another has no worse an outlook,    *)
(* and one with a further event a better one.                              *)
LEMMA OutlookCompared ==
  ASSUME NEW c \in Nat, NEW q, NEW p, IsFiniteSet(Open(p)), Open(q) \subseteq Open(p),
         \A e \in Open(p) : Worth(c, e) \in Nat
  PROVE  /\ Outlook(c, q) \in Nat /\ Outlook(c, p) \in Nat
         /\ Outlook(c, q) <= Outlook(c, p)
         /\ \A x \in Open(p) \ Open(q) : Outlook(c, q) + Worth(c, x) <= Outlook(c, p)
         /\ \A x \in Open(p) : Worth(c, x) <= Outlook(c, p)
  <1> DEFINE f == [e \in Open(p) |-> Worth(c, e)]
  <1>1. \A e \in Open(p) : f[e] \in Nat /\ f[e] = Worth(c, e)
    OBVIOUS
  <1>2. Outlook(c, p) = SumFunctionOnSet(f, Open(p))
    BY DEF Outlook
  <1>3. Outlook(c, q) = SumFunctionOnSet(f, Open(q))
    <2> DEFINE h == [e \in Open(q) |-> Worth(c, e)]
    <2>1. \A e \in Open(q) : h[e] = f[e]
      OBVIOUS
    <2>2. Outlook(c, q) = SumFunctionOnSet(h, Open(q))
      BY DEF Outlook
    <2> HIDE DEF f, h
    <2>3. SumFunctionOnSet(h, Open(q)) = SumFunctionOnSet(f, Open(q))
      BY <2>1, SumCongruence
    <2> QED
      BY <2>2, <2>3
  <1> HIDE DEF f
  <1>4. /\ SumFunctionOnSet(f, Open(q)) \in Nat /\ SumFunctionOnSet(f, Open(p)) \in Nat
        /\ SumFunctionOnSet(f, Open(q)) <= SumFunctionOnSet(f, Open(p))
    BY <1>1, SumLarger
  <1>5. ASSUME NEW x \in Open(p) \ Open(q)
        PROVE  Outlook(c, q) + Worth(c, x) <= Outlook(c, p)
    <2> DEFINE more == Open(q) \cup {x}
    <2>1. IsFiniteSet(Open(q)) /\ more \subseteq Open(p)
      BY FS_Subset
    <2>2. f[x] \in Int /\ \A y \in Open(q) : f[y] \in Int
      BY <1>1
    <2>3. SumFunctionOnSet(f, Open(q) \cup {x}) = f[x] + SumFunctionOnSet(f, Open(q))
      BY <2>1, <2>2, SumAdd
    <2>4. SumFunctionOnSet(f, more) <= SumFunctionOnSet(f, Open(p))
      <3> HIDE DEF more
      <3> QED
        BY <1>1, <2>1, SumLarger
    <2>5. f[x] = Worth(c, x) /\ f[x] \in Nat
      BY <1>1
    <2> QED
      BY <1>2, <1>3, <1>4, <2>3, <2>4, <2>5
  <1>6. ASSUME NEW x \in Open(p) PROVE Worth(c, x) <= Outlook(c, p)
    <2>1. f[x] <= SumFunctionOnSet(f, Open(p))
      BY <1>1, SumCoversTerm
    <2> QED
      BY <1>1, <1>2, <2>1
  <1>7. /\ Outlook(c, q) \in Nat /\ Outlook(c, p) \in Nat /\ Outlook(c, q) <= Outlook(c, p)
    BY <1>2, <1>3, <1>4
  <1> QED
    BY <1>5, <1>6, <1>7

(* The events of a step are new to the queue. *)
LEMMA NumberedNew ==
  ASSUME next_seq \in Nat, QueueOK(queue, next_seq, clock),
         NEW t, NEW follow \in Seq(FollowsFrom(t)), NEW i \in DOMAIN follow
  PROVE  Numbered(follow)[i] \notin queue
  <1>1. /\ Numbered(follow)[i].seq = next_seq + i - 1 /\ i \in 1 .. Len(follow)
    BY NumberedFollow
  <1>2. ~(Numbered(follow)[i].seq < next_seq)
    BY <1>1
  <1> QED
    BY <1>2 DEF QueueOK

(* What the event that was popped is worth is all a step can take off the  *)
(* outlook, and each order it submits adds to it.                          *)
LEMMA StepOutlook ==
  ASSUME NEW c \in Nat, DesInv, IsFiniteSet(Open(queue)),
         NEW e \in queue, NEW type, Pop(e, type),
         NEW follow \in Seq(FollowsFrom(e.time)), Reschedule(e, follow),
         NEW lost, lost = IF e \in Open(queue) THEN Worth(c, e) ELSE 0
  PROVE  /\ IsFiniteSet(Open(queue'))
         /\ lost \in Nat /\ Outlook(c, queue) \in Nat /\ Outlook(c, queue') \in Nat
         /\ lost <= Outlook(c, queue)
         /\ Outlook(c, queue) <= Outlook(c, queue') + lost
         /\ \A i \in DOMAIN follow : follow[i].type = "submit" =>
              Outlook(c, queue) + Smaller(follow[i].qty, c) <= Outlook(c, queue') + lost
  <1> DEFINE rest == queue \ {e}
  <1>1. /\ next_seq \in Nat /\ clock \in Nat /\ QueueOK(queue, next_seq, clock)
    BY DEF DesInv, DesTypeOK
  <1>2. QueueOK(queue', next_seq', clock')
    BY <1>1, RescheduleQueue
  <1>3. \A x \in Open(queue) : Worth(c, x) \in Nat
    BY <1>1, WorthTyped DEF Open
  <1>4. \A x \in Open(queue') : Worth(c, x) \in Nat
    BY <1>2, WorthTyped DEF Open
  <1>5. queue' = rest \cup {Numbered(follow)[i] : i \in DOMAIN follow}
    BY DEF Reschedule, Numbered
  <1>6. IsFiniteSet(Open(queue'))
    <2> DEFINE new == {Numbered(follow)[i] : i \in DOMAIN follow}
               label == Numbered(follow)
    <2>1. IsFiniteSet(new)
      <3>1. IsFiniteSet(DOMAIN follow)
        <4>1. DOMAIN follow = 1 .. Len(follow) /\ Len(follow) \in Nat
          OBVIOUS
        <4> QED
          BY <4>1, FS_Interval
      <3>2. Labels(label, DOMAIN follow, new)
        <4>1. \A i, j \in DOMAIN follow : label[i] = label[j] => i = j
          <5>1. \A i \in DOMAIN follow : label[i].seq = next_seq + i - 1 /\ i \in 1 .. Len(follow)
            BY <1>1, NumberedFollow
          <5>2. next_seq \in Nat
            BY <1>1
          <5> HIDE DEF label
          <5> SUFFICES ASSUME NEW i \in DOMAIN follow, NEW j \in DOMAIN follow,
                              label[i] = label[j]
                       PROVE  i = j
            OBVIOUS
          <5>3. label[i].seq = label[j].seq
            OBVIOUS
          <5>4. i \in Nat /\ j \in Nat /\ next_seq + i - 1 = next_seq + j - 1
            <6>1. label[i].seq = next_seq + i - 1 /\ i \in 1 .. Len(follow)
              BY <5>1
            <6>2. label[j].seq = next_seq + j - 1 /\ j \in 1 .. Len(follow)
              BY <5>1
            <6>3. i \in Nat /\ j \in Nat
              BY <6>1, <6>2
            <6> QED
              BY <5>3, <6>1, <6>2, <6>3
          <5> QED
            BY <5>2, <5>4
        <4> QED
          BY <4>1 DEF Labels
      <3> HIDE DEF new, label
      <3> QED
        BY <3>1, <3>2, LabelledFinite
    <2>2. Open(queue') \subseteq Open(queue) \cup new
      BY <1>5 DEF Open
    <2> HIDE DEF new
    <2>3. IsFiniteSet(Open(queue) \cup new)
      BY <2>1, FS_Union
    <2> QED
      BY <2>2, <2>3, FS_Subset
  <1>7. /\ Open(rest) \subseteq Open(queue) /\ Open(rest) \subseteq Open(queue')
        /\ e \in Open(queue) => Open(queue) = Open(rest) \cup {e} /\ e \notin Open(rest)
        /\ e \notin Open(queue) => Open(queue) = Open(rest)
    BY <1>5 DEF Open
  <1>8. \A i \in DOMAIN follow : follow[i].type = "submit" =>
          /\ Numbered(follow)[i] \in Open(queue') \ Open(rest)
          /\ Worth(c, Numbered(follow)[i]) = Smaller(follow[i].qty, c)
    <2> SUFFICES ASSUME NEW i \in DOMAIN follow, follow[i].type = "submit"
                 PROVE  /\ Numbered(follow)[i] \in Open(queue') \ Open(rest)
                        /\ Worth(c, Numbered(follow)[i]) = Smaller(follow[i].qty, c)
      OBVIOUS
    <2>1. /\ Numbered(follow)[i].type = "submit"
          /\ Numbered(follow)[i].qty = follow[i].qty
      BY NumberedKeeps
    <2>2. Numbered(follow)[i] \notin queue
      BY <1>1, NumberedNew
    <2>3. Numbered(follow)[i] \in queue'
      BY <1>5
    <2> QED
      BY <2>1, <2>2, <2>3 DEF Open, Worth
  <1> HIDE DEF rest
  <1>9. /\ Outlook(c, rest) \in Nat /\ Outlook(c, queue) \in Nat
        /\ \A x \in Open(queue) : Worth(c, x) <= Outlook(c, queue)
    BY <1>3, <1>7, OutlookCompared
  <1>10. /\ Outlook(c, queue') \in Nat /\ Outlook(c, rest) <= Outlook(c, queue')
         /\ \A x \in Open(queue') \ Open(rest) : Outlook(c, rest) + Worth(c, x) <= Outlook(c, queue')
    BY <1>4, <1>6, <1>7, OutlookCompared
  <1>11. lost \in Nat /\ lost <= Outlook(c, queue) /\ Outlook(c, queue) = Outlook(c, rest) + lost
    <2>1. CASE e \in Open(queue)
      <3> DEFINE f == [x \in Open(queue) |-> Worth(c, x)]
                 h == [x \in Open(rest) |-> Worth(c, x)]
      <3>1. /\ \A x \in Open(queue) : f[x] = Worth(c, x) /\ f[x] \in Nat
            /\ \A x \in Open(rest) : h[x] = f[x]
        BY <1>3, <1>7
      <3>2. Outlook(c, queue) = SumFunctionOnSet(f, Open(queue))
            /\ Outlook(c, rest) = SumFunctionOnSet(h, Open(rest))
        BY DEF Outlook
      <3> HIDE DEF f, h
      <3>3. SumFunctionOnSet(h, Open(rest)) = SumFunctionOnSet(f, Open(rest))
        BY <3>1, SumCongruence
      <3>4. IsFiniteSet(Open(rest)) /\ e \notin Open(rest) /\ Open(rest) \cup {e} = Open(queue)
        BY <1>7, <2>1, FS_Subset
      <3>5. f[e] \in Int /\ \A y \in Open(rest) : f[y] \in Int
        BY <1>7, <2>1, <3>1
      <3>6. SumFunctionOnSet(f, Open(rest) \cup {e}) = f[e] + SumFunctionOnSet(f, Open(rest))
        BY <3>4, <3>5, SumAdd
      <3>7. Outlook(c, queue) = f[e] + Outlook(c, rest)
        BY <3>2, <3>3, <3>4, <3>6, Zenon
      <3>8. lost = Worth(c, e) /\ f[e] = Worth(c, e) /\ f[e] \in Nat
        BY <2>1, <3>1
      <3> QED
        BY <1>9, <2>1, <3>7, <3>8
    <2>2. CASE e \notin Open(queue)
      <3>1. Open(queue) = Open(rest)
        BY <1>7, <2>2
      <3>2. Outlook(c, queue) = Outlook(c, rest)
        BY <3>1, Zenon DEF Outlook
      <3> QED
        BY <1>9, <2>2, <3>2
    <2> QED
      BY <2>1, <2>2
  <1>12. ASSUME NEW i \in DOMAIN follow, follow[i].type = "submit"
         PROVE  Outlook(c, queue) + Smaller(follow[i].qty, c) <= Outlook(c, queue') + lost
    <2> DEFINE x == Numbered(follow)[i]
    <2>1. x \in Open(queue') \ Open(rest) /\ Worth(c, x) = Smaller(follow[i].qty, c)
      BY <1>8, <1>12
    <2> HIDE DEF x
    <2>2. Outlook(c, rest) + Worth(c, x) <= Outlook(c, queue') /\ Worth(c, x) \in Nat
      BY <1>4, <1>10, <2>1
    <2> QED
      BY <1>9, <1>10, <1>11, <2>1, <2>2
  <1>13. Outlook(c, queue) <= Outlook(c, queue') + lost
    BY <1>9, <1>10, <1>11
  <1> QED
    BY <1>6, <1>9, <1>10, <1>11, <1>12, <1>13

(* The new events of a step are in time if what it schedules is. *)
LEMMA InTimeKept ==
  ASSUME \A x \in queue : InTime(x),
         NEW e \in queue, NEW t, NEW follow \in Seq(FollowsFrom(t)), Reschedule(e, follow),
         \A i \in DOMAIN follow :
           follow[i].time + (IF follow[i].type = "submit" THEN FillDelay ELSE 0) < EndTime
  PROVE  \A x \in queue' : InTime(x)
  <1> SUFFICES ASSUME NEW x \in queue', x \notin queue PROVE InTime(x)
    OBVIOUS
  <1>1. PICK i \in DOMAIN follow : x = Numbered(follow)[i]
    BY RescheduledEvents
  <1>2. x.time = follow[i].time /\ x.type = follow[i].type /\ x.type \in {"fill", "submit"}
    BY <1>1, NumberedKeeps
  <1>3. follow[i].time \in Nat
    <2>1. follow[i] \in FollowsFrom(t)
      OBVIOUS
    <2> QED
      BY <2>1 DEF FollowsFrom, FillsFrom, SubmitsFrom
  <1>4. x.type = "submit" => x.time + FillDelay < EndTime
    BY <1>2
  <1>5. x.type = "fill" => x.time < EndTime
    <2> SUFFICES ASSUME x.type = "fill" PROVE x.time < EndTime
      OBVIOUS
    <2>1. follow[i].type = "fill"
      BY <1>2
    <2>2. follow[i].time + 0 < EndTime
      BY <2>1
    <2> QED
      BY <1>2, <1>3, <2>2
  <1> QED
    BY <1>2, <1>4, <1>5 DEF InTime

(* Trying the pending orders sells something of each. *)
LEMMA QuantityCovers ==
  ASSUME NEW orders \in Seq(Orders), NEW i \in DOMAIN orders
  PROVE  FillQty(orders[i]) <= Quantity(orders)
  <1> DEFINE f == [j \in DOMAIN orders |-> FillQty(orders[j])]
  <1>1. \A j \in DOMAIN orders : f[j] \in Nat /\ f[j] = FillQty(orders[j])
    BY FillQtyBounds
  <1>2. Quantity(orders) = SumFunctionOnSet(f, DOMAIN orders)
    BY DEF Quantity
  <1>3. IsFiniteSet(DOMAIN orders)
    <2>1. DOMAIN orders = 1 .. Len(orders) /\ Len(orders) \in Nat
      OBVIOUS
    <2> QED
      BY <2>1, FS_Interval
  <1> HIDE DEF f
  <1>4. f[i] <= SumFunctionOnSet(f, DOMAIN orders)
    BY <1>1, <1>3, SumCoversTerm
  <1> QED
    BY <1>1, <1>2, <1>4

(* A step that tries the pending orders, sells what it puts into the queue *)
(* and does not end: its outlook and its events.                           *)
LEMMA TriedFinishes ==
  ASSUME NEW c \in Nat, DesInv, FinishInv(c),
         NEW e \in queue, NEW type, Pop(e, type), type # "fill",
         e.time + FillDelay < EndTime,
         NEW orders \in Seq(Orders), TryFill(orders),
         NEW more \in Seq(SubmitsFrom(e.time)),
         \A i \in DOMAIN more : more[i].time + FillDelay < EndTime,
         Reschedule(e, FillEvents(orders, e.time) \o more),
         NEW lost, lost = IF e \in Open(queue) THEN Worth(c, e) ELSE 0
  PROVE  /\ IsFiniteSet(Open(queue')) /\ \A x \in queue' : InTime(x)
         /\ SumFunctionOnSet(sold, S) \in Nat /\ Quantity(orders) \in Nat
         /\ SumFunctionOnSet(sold', S) = SumFunctionOnSet(sold, S) + Quantity(orders)
         /\ lost \in Nat /\ Outlook(c, queue) \in Nat /\ Outlook(c, queue') \in Nat
         /\ lost <= Outlook(c, queue)
         /\ Outlook(c, queue) <= Outlook(c, queue') + lost
         /\ \A i \in DOMAIN more :
              Outlook(c, queue) + Smaller(more[i].qty, c) <= Outlook(c, queue') + lost
  <1> DEFINE fills == FillEvents(orders, e.time)
             follow == fills \o more
  <1>1. e.time \in Nat
    BY DEF DesInv, DesTypeOK
  <1>2. /\ fills \in Seq(FillsFrom(e.time)) /\ DOMAIN fills = DOMAIN orders
        /\ \A i \in DOMAIN orders : fills[i].type = "fill"
    BY <1>1, FillEventsFollow
  <1>3. \A i \in DOMAIN fills : fills[i].time = e.time + FillDelay
    BY DEF FillEvents
  <1>4. Reschedule(e, follow)
    OBVIOUS
  <1>5. \A i \in DOMAIN more : more[i].type = "submit"
    <2>1. \A i \in DOMAIN more : more[i] \in SubmitsFrom(e.time)
      OBVIOUS
    <2> QED
      BY <2>1 DEF SubmitsFrom
  <1>6. /\ SumFunctionOnSet(sold, S) \in Nat /\ Quantity(orders) \in Nat
        /\ SumFunctionOnSet(sold', S) = SumFunctionOnSet(sold, S) + Quantity(orders)
    BY TryFillAccount DEF DesInv, DesTypeOK
  <1> HIDE DEF fills
  <1>7. fills \in Seq(FollowsFrom(e.time)) /\ more \in Seq(FollowsFrom(e.time))
    BY <1>2 DEF FollowsFrom
  <1>8. follow \in Seq(FollowsFrom(e.time))
    BY <1>7
  <1>9. \A i \in DOMAIN follow :
          \/ i \in DOMAIN fills /\ follow[i] = fills[i]
          \/ \E j \in DOMAIN more : follow[i] = more[j]
    <2> SUFFICES ASSUME NEW i \in DOMAIN follow, i \notin DOMAIN fills
                 PROVE  \E j \in DOMAIN more : follow[i] = more[j]
      BY <1>7
    <2>1. i - Len(fills) \in DOMAIN more /\ follow[i] = more[i - Len(fills)]
      BY <1>7
    <2> QED
      BY <2>1
  <1>10. \A j \in DOMAIN more :
           Len(fills) + j \in DOMAIN follow /\ follow[Len(fills) + j] = more[j]
    BY <1>7
  <1> HIDE DEF follow
  <1>11. \A i \in DOMAIN follow :
           follow[i].time + (IF follow[i].type = "submit" THEN FillDelay ELSE 0) < EndTime
    <2> SUFFICES ASSUME NEW i \in DOMAIN follow
                 PROVE  follow[i].time + (IF follow[i].type = "submit" THEN FillDelay ELSE 0)
                          < EndTime
      OBVIOUS
    <2>1. CASE i \in DOMAIN fills /\ follow[i] = fills[i]
      <3>1. follow[i].time = e.time + FillDelay /\ follow[i].type = "fill"
        BY <1>2, <1>3, <2>1
      <3> QED
        BY <1>1, <3>1, DesAssumption
    <2>2. CASE \E j \in DOMAIN more : follow[i] = more[j]
      <3>1. follow[i].time + FillDelay < EndTime /\ follow[i].type = "submit"
        BY <1>5, <2>2
      <3> QED
        BY <3>1
    <2> QED
      BY <1>9, <2>1, <2>2
  <1>12. \A x \in queue' : InTime(x)
    <2>1. \A x \in queue : InTime(x)
      BY DEF FinishInv
    <2> QED
      BY <1>4, <1>8, <1>11, <2>1, InTimeKept
  <1>13. IsFiniteSet(Open(queue))
    BY DEF FinishInv
  <1>14. /\ IsFiniteSet(Open(queue'))
         /\ lost \in Nat /\ Outlook(c, queue) \in Nat /\ Outlook(c, queue') \in Nat
         /\ lost <= Outlook(c, queue)
         /\ Outlook(c, queue) <= Outlook(c, queue') + lost
         /\ \A i \in DOMAIN follow : follow[i].type = "submit" =>
              Outlook(c, queue) + Smaller(follow[i].qty, c) <= Outlook(c, queue') + lost
    BY <1>4, <1>8, <1>13, StepOutlook
  <1>15. \A i \in DOMAIN more :
           Outlook(c, queue) + Smaller(more[i].qty, c) <= Outlook(c, queue') + lost
    BY <1>5, <1>10, <1>14
  <1> QED
    BY <1>6, <1>12, <1>14, <1>15

(* On a tick a strategy that has something left asks for a slice of it,    *)
(* which is worth as much as the tick or all that is left.                 *)
LEMMA TickArithmetic ==
  ASSUME NEW c \in Nat, NEW s \in Nat, NEW q \in Nat, NEW r \in Nat, NEW f \in Nat,
         NEW o \in Nat, NEW p \in Nat, NEW asked \in Nat,
         r = AtLeastZero(Total + f - s), Total <= s + o, o <= p + c, c <= o, c <= asked,
         r > 0 => o + Smaller(Smaller(asked, r), c) <= p + c
  PROVE  Total <= s + q + p
  <1>1. CASE r = 0
    BY <1>1, DesAssumption DEF AtLeastZero
  <1>2. CASE r > 0
    <2>1. r >= Total - s
      BY <1>2, DesAssumption DEF AtLeastZero
    <2>2. Smaller(Smaller(asked, r), c) = c \/ Smaller(Smaller(asked, r), c) = r
      BY DEF Smaller
    <2> QED
      BY <1>2, <2>1, <2>2, DesAssumption
  <1> QED
    BY <1>1, <1>2

LEMMA TickFinishes ==
  ASSUME NEW c, EnoughTicks(c), EndsLate, DesInv, AccountLags, FinishInv(c), OnTick
  PROVE  FinishInv(c)'
  <1>1. PICK e \in queue, chunk \in [S -> ChunkSizes] :
          /\ Pop(e, "tick")
          /\ TryFill(pending)
          /\ Reschedule(e, FillEvents(pending, e.time) \o SubmitEvents(chunk, e.time))
    BY DEF OnTick
  <1> DEFINE more == SubmitEvents(chunk, e.time)
  <1>2. /\ pending \in Seq(Orders) /\ e.time \in Nat /\ e.type = "tick" /\ ~done
        /\ remaining \in [S -> 0 .. Total] /\ c \in Nat
        /\ rule' = rule /\ done' = done
    BY <1>1 DEF DesInv, DesTypeOK, Pop, EnoughTicks, OnTick
  <1>3. e.time + OrderDelay + FillDelay < EndTime
    BY <1>2 DEF FinishInv, InTime
  <1>4. more \in Seq(SubmitsFrom(e.time))
    BY <1>2, SubmitEventsFollow
  <1>5. \A i \in DOMAIN more : more[i].time = e.time + OrderDelay
    <2>1. \A i \in DOMAIN more :
            \E s \in S :
              /\ Submits(s)
              /\ more[i] = [time |-> e.time + OrderDelay, seq |-> 0, type |-> "submit",
                            owner |-> s, qty |-> Smaller(chunk[s], remaining[s])]
      BY <1>2, SubmitEventsOnce, Zenon
    <2> HIDE DEF more
    <2> QED
      BY <2>1
  <1>6. e \in Open(queue) /\ Worth(c, e) = c
    BY <1>2 DEF Open, Worth
  <1>7. 1 \in S
    BY DesAssumption DEF S
  <1>8. Submits(1) =>
          \E i \in DOMAIN more : more[i].qty = Smaller(chunk[1], remaining[1])
    <2> SUFFICES ASSUME Submits(1)
                 PROVE  \E i \in DOMAIN more : more[i].qty = Smaller(chunk[1], remaining[1])
      OBVIOUS
    <2>1. \E i \in DOMAIN more :
            more[i] = [time |-> e.time + OrderDelay, seq |-> 0, type |-> "submit",
                       owner |-> 1, qty |-> Smaller(chunk[1], remaining[1])]
      BY <1>2, <1>7, SubmitEventOf, Zenon
    <2> HIDE DEF more
    <2> QED
      BY <2>1
  <1>9. Reschedule(e, FillEvents(pending, e.time) \o more)
    BY <1>1
  <1> HIDE DEF more
  <1>10. \A i \in DOMAIN more : more[i].time + FillDelay < EndTime
    BY <1>3, <1>5
  <1>11. e.time + FillDelay < EndTime
    BY <1>2, <1>3, DesAssumption
  <1>12. /\ IsFiniteSet(Open(queue')) /\ \A x \in queue' : InTime(x)
         /\ SumFunctionOnSet(sold, S) \in Nat /\ Quantity(pending) \in Nat
         /\ SumFunctionOnSet(sold', S) = SumFunctionOnSet(sold, S) + Quantity(pending)
         /\ Outlook(c, queue) \in Nat /\ Outlook(c, queue') \in Nat
         /\ c <= Outlook(c, queue)
         /\ Outlook(c, queue) <= Outlook(c, queue') + c
         /\ \A i \in DOMAIN more :
              Outlook(c, queue) + Smaller(more[i].qty, c) <= Outlook(c, queue') + c
    <2>1. c = IF e \in Open(queue) THEN Worth(c, e) ELSE 0
      BY <1>6
    <2> DEFINE type == "tick"
    <2>2. Pop(e, type) /\ type # "fill"
      BY <1>1
    <2> HIDE DEF type
    <2> QED
      BY <1>1, <1>2, <1>4, <1>9, <1>10, <1>11, <2>1, <2>2, TriedFinishes
  <1>13. ASSUME AllSlice
         PROVE  Total <= SumFunctionOnSet(sold', S) + Outlook(c, queue')
    <2>1. ~PastSchedule(1)
      BY <1>7, <1>13 DEF AllSlice, PastSchedule
    <2>2. /\ remaining[1] = AtLeastZero(Total + FillSum(queue) - SumFunctionOnSet(sold, S))
          /\ completed[1] <=> remaining[1] = 0
      BY <1>7, <2>1, InFlightFills DEF AccountLags
    <2>3. FillSum(queue) \in Nat
      BY SumNat DEF FillSum, Fills, DesInv, QueueOK
    <2>4. remaining[1] \in Nat /\ chunk[1] \in Nat /\ c <= chunk[1]
      <3>1. chunk[1] \in ChunkSizes /\ remaining[1] \in 0 .. Total
        BY <1>2, <1>7
      <3>2. c <= chunk[1]
        BY <3>1 DEF EnoughTicks
      <3>3. chunk[1] \in Nat
        BY <3>1, DesAssumption
      <3>4. remaining[1] \in Nat
        BY <3>1
      <3> QED
        BY <3>2, <3>3, <3>4
    <2>5. remaining[1] > 0 => Submits(1)
      BY <2>1, <2>2, <2>4 DEF Submits
    <2>6. remaining[1] > 0 =>
            Outlook(c, queue) + Smaller(Smaller(chunk[1], remaining[1]), c)
              <= Outlook(c, queue') + c
      BY <1>8, <1>12, <2>5
    <2>7. Total <= SumFunctionOnSet(sold, S) + Outlook(c, queue)
      BY <1>13 DEF FinishInv
    <2>8. Total <= SumFunctionOnSet(sold, S) + Quantity(pending) + Outlook(c, queue')
      BY <1>2, <1>12, <2>2, <2>3, <2>4, <2>6, <2>7, TickArithmetic
    <2> QED
      BY <1>12, <2>8
  <1>14. AllSlice' => AllSlice
    BY <1>2 DEF AllSlice
  <1>15. ~done'
    BY <1>2
  <1> QED
    BY <1>12, <1>13, <1>14, <1>15 DEF FinishInv

(* A price takes nothing off what is to be sold. *)
LEMMA PriceFinishes ==
  ASSUME NEW c \in Nat, DesInv, FinishInv(c), OnPrice
  PROVE  FinishInv(c)'
  <1>1. PICK e \in queue :
          /\ Pop(e, "price") /\ TryFill(pending)
          /\ Reschedule(e, FillEvents(pending, e.time))
          /\ UNCHANGED <<strategyVars, cancelled, done>>
    BY DEF OnPrice
  <1>2. /\ pending \in Seq(Orders) /\ e.time \in Nat /\ e.type = "price" /\ ~done
        /\ rule' = rule /\ done' = done
    BY <1>1 DEF DesInv, DesTypeOK, Pop, strategyVars
  <1>3. e.time + FillDelay < EndTime
    BY <1>2 DEF FinishInv, InTime
  <1>4. e \notin Open(queue)
    BY <1>2 DEF Open
  <1> DEFINE none == <<>>
             type == "price"
             lost == 0
  <1>5. /\ none \in Seq(SubmitsFrom(e.time)) /\ DOMAIN none = {}
        /\ Reschedule(e, FillEvents(pending, e.time) \o none)
    <2>1. FillEvents(pending, e.time) \in Seq(FillsFrom(e.time))
      BY <1>2, FillEventsFollow
    <2>2. FillEvents(pending, e.time) \o none = FillEvents(pending, e.time)
      BY <2>1
    <2> QED
      BY <1>1, <2>2
  <1>6. /\ Pop(e, type) /\ type # "fill"
        /\ lost = IF e \in Open(queue) THEN Worth(c, e) ELSE 0
    BY <1>1, <1>4
  <1>7. \A i \in DOMAIN none : none[i].time + FillDelay < EndTime
    BY <1>5
  <1> HIDE DEF none, type, lost
  <1>8. /\ IsFiniteSet(Open(queue')) /\ \A x \in queue' : InTime(x)
        /\ SumFunctionOnSet(sold, S) \in Nat /\ Quantity(pending) \in Nat
        /\ SumFunctionOnSet(sold', S) = SumFunctionOnSet(sold, S) + Quantity(pending)
        /\ Outlook(c, queue) \in Nat /\ Outlook(c, queue') \in Nat
        /\ Outlook(c, queue) <= Outlook(c, queue') + lost
    BY <1>1, <1>2, <1>3, <1>5, <1>6, <1>7, TriedFinishes
  <1>9. AllSlice => Total <= SumFunctionOnSet(sold, S) + Outlook(c, queue)
    BY DEF FinishInv
  <1>10. AllSlice => Total <= SumFunctionOnSet(sold', S) + Outlook(c, queue')
    BY <1>8, <1>9, DesAssumption DEF lost
  <1>11. AllSlice' => AllSlice
    BY <1>2 DEF AllSlice
  <1>12. ~done'
    BY <1>2
  <1> QED
    BY <1>8, <1>10, <1>11, <1>12 DEF FinishInv

(* An order that joins the pending ones sells what it was worth at once. *)
LEMMA SubmitFinishes ==
  ASSUME NEW c, EnoughTicks(c), DesInv, FinishInv(c), OnSubmit
  PROVE  FinishInv(c)'
  <1>1. PICK e \in queue :
          /\ Pop(e, "submit")
          /\ LET orders == Append(pending, [owner |-> e.owner, id |-> e.seq, qty |-> e.qty])
             IN  TryFill(orders) /\ Reschedule(e, FillEvents(orders, e.time))
          /\ UNCHANGED <<strategyVars, cancelled, done>>
    BY DEF OnSubmit
  <1> DEFINE order == [owner |-> e.owner, id |-> e.seq, qty |-> e.qty]
             orders == Append(pending, order)
             none == <<>>
             type == "submit"
             lost == Smaller(e.qty, c)
  <1>2. /\ pending \in Seq(Orders) /\ e.time \in Nat /\ e.type = "submit" /\ ~done
        /\ rule' = rule /\ done' = done /\ c \in Nat /\ c <= MaxFill
        /\ e.qty \in Nat
    BY <1>1 DEF DesInv, DesTypeOK, QueueOK, Pop, strategyVars, EnoughTicks
  <1>3. e.time + FillDelay < EndTime
    BY <1>2 DEF FinishInv, InTime
  <1>4. e \in Open(queue) /\ Worth(c, e) = lost
    BY <1>2 DEF Open, Worth
  <1>5. TryFill(orders) /\ Reschedule(e, FillEvents(orders, e.time))
    BY <1>1
  <1>6. order \in Orders /\ order.qty = e.qty
    BY <1>1 DEF DesInv, QueueOK, Pop, Orders
  <1> HIDE DEF order
  <1>7. orders \in Seq(Orders)
    BY <1>2, <1>6
  <1>8. \E i \in DOMAIN orders : orders[i] = order
    <2>1. Len(pending) + 1 \in DOMAIN orders /\ orders[Len(pending) + 1] = order
      BY <1>2, <1>6
    <2> QED
      BY <2>1
  <1> HIDE DEF orders
  <1>9. lost <= Quantity(orders)
    <2>1. FillQty(order) <= Quantity(orders)
      BY <1>7, <1>8, QuantityCovers
    <2>2. Quantity(orders) \in Nat
      BY <1>5, <1>7, TryFillAccount DEF DesInv, DesTypeOK
    <2>3. lost <= FillQty(order) /\ lost \in Nat /\ FillQty(order) \in Nat
      BY <1>2, <1>6, DesAssumption DEF FillQty, Smaller
    <2> QED
      BY <2>1, <2>2, <2>3
  <1>10. /\ none \in Seq(SubmitsFrom(e.time)) /\ DOMAIN none = {}
         /\ Reschedule(e, FillEvents(orders, e.time) \o none)
    <2>1. FillEvents(orders, e.time) \in Seq(FillsFrom(e.time))
      BY <1>2, <1>7, FillEventsFollow
    <2>2. FillEvents(orders, e.time) \o none = FillEvents(orders, e.time)
      BY <2>1
    <2> QED
      BY <1>5, <2>2
  <1>11. /\ Pop(e, type) /\ type # "fill"
         /\ lost = IF e \in Open(queue) THEN Worth(c, e) ELSE 0
    BY <1>1, <1>4
  <1>12. \A i \in DOMAIN none : none[i].time + FillDelay < EndTime
    BY <1>10
  <1> HIDE DEF none, type, lost
  <1>13. /\ IsFiniteSet(Open(queue')) /\ \A x \in queue' : InTime(x)
         /\ SumFunctionOnSet(sold, S) \in Nat /\ Quantity(orders) \in Nat
         /\ SumFunctionOnSet(sold', S) = SumFunctionOnSet(sold, S) + Quantity(orders)
         /\ lost \in Nat /\ Outlook(c, queue) \in Nat /\ Outlook(c, queue') \in Nat
         /\ Outlook(c, queue) <= Outlook(c, queue') + lost
    BY <1>2, <1>3, <1>5, <1>7, <1>10, <1>11, <1>12, TriedFinishes
  <1>14. AllSlice => Total <= SumFunctionOnSet(sold, S) + Outlook(c, queue)
    BY DEF FinishInv
  <1>15. AllSlice => Total <= SumFunctionOnSet(sold', S) + Outlook(c, queue')
    BY <1>9, <1>13, <1>14, DesAssumption
  <1>16. AllSlice' => AllSlice
    BY <1>2 DEF AllSlice
  <1>17. ~done'
    BY <1>2
  <1> QED
    BY <1>13, <1>15, <1>16, <1>17 DEF FinishInv

(* A cancel, a fill and the end sell nothing and lose no sale, and when    *)
(* the end comes nothing else is left in the queue.                        *)
LEMMA OthersFinish ==
  ASSUME NEW c \in Nat, DesInv, FinishInv(c), OnCancel \/ OnFill \/ OnEnd
  PROVE  FinishInv(c)'
  <1>1. /\ sold' = sold /\ rule' = rule
        /\ \E e \in queue : \E type \in {"cancel", "fill", "end"} :
             /\ Pop(e, type) /\ Reschedule(e, <<>>)
             /\ type # "end" => done' = done
    <2>1. CASE OnCancel
      <3>1. PICK e \in queue : Pop(e, "cancel") /\ Reschedule(e, <<>>)
        BY <2>1 DEF OnCancel
      <3>2. sold' = sold /\ rule' = rule /\ done' = done
        BY <2>1 DEF OnCancel, strategyVars
      <3> QED
        BY <3>1, <3>2
    <2>2. CASE OnFill
      BY <2>2 DEF OnFill
    <2>3. CASE OnEnd
      BY <2>3 DEF OnEnd, strategyVars
    <2> QED
      BY <2>1, <2>2, <2>3
  <1>2. PICK e \in queue, type \in {"cancel", "fill", "end"} :
          /\ Pop(e, type) /\ Reschedule(e, <<>>)
          /\ type # "end" => done' = done
    BY <1>1
  <1>3. /\ e.type = type /\ e.time \in Nat /\ ~done
        /\ \A f \in queue \ {e} : Before(e, f)
    BY <1>2 DEF Pop, DesInv, DesTypeOK
  <1>4. e \notin Open(queue)
    BY <1>3 DEF Open
  <1> DEFINE none == <<>>
             lost == 0
  <1>5. none \in Seq(FollowsFrom(e.time)) /\ Reschedule(e, none)
    BY <1>2
  <1>6. lost = IF e \in Open(queue) THEN Worth(c, e) ELSE 0
    BY <1>4
  <1>7. queue' = queue \ {e}
    BY <1>2 DEF Reschedule
  <1> HIDE DEF none, lost
  <1>8. IsFiniteSet(Open(queue))
    BY DEF FinishInv
  <1>9. /\ IsFiniteSet(Open(queue'))
        /\ Outlook(c, queue) \in Nat /\ Outlook(c, queue') \in Nat
        /\ Outlook(c, queue) <= Outlook(c, queue') + lost
    BY <1>2, <1>5, <1>6, <1>8, StepOutlook
  <1>10. \A x \in queue' : InTime(x)
    BY <1>7 DEF FinishInv
  <1>11. done' => Open(queue') = {} /\ Fills(queue') = {}
    <2> SUFFICES ASSUME done' PROVE Open(queue') = {} /\ Fills(queue') = {}
      OBVIOUS
    <2>1. type = "end"
      BY <1>2, <1>3
    <2>2. e.time = EndTime
      BY <1>3, <2>1 DEF FinishInv, InTime
    <2>3. ASSUME NEW f \in queue \ {e} PROVE f.time \in Nat /\ ~(f.time < EndTime)
      BY <1>3, <2>2, <2>3, DesAssumption DEF Before, DesInv, DesTypeOK
    <2>4. ASSUME NEW f \in queue, f.type \in {"tick", "submit", "fill"}, f.time \in Nat
          PROVE  f.time < EndTime
      BY <2>4, DesAssumption DEF FinishInv, InTime
    <2> QED
      BY <1>7, <2>3, <2>4 DEF Open, Fills
  <1>12. AllSlice => Total <= SumFunctionOnSet(sold, S) + Outlook(c, queue)
    BY DEF FinishInv
  <1>13. SumFunctionOnSet(sold, S) \in Nat
    BY StrategiesFinite, SumNat DEF DesInv, DesTypeOK
  <1>14. AllSlice => Total <= SumFunctionOnSet(sold', S) + Outlook(c, queue')
    BY <1>1, <1>9, <1>12, <1>13, DesAssumption DEF lost
  <1>15. AllSlice' => AllSlice
    BY <1>1 DEF AllSlice
  <1> QED
    BY <1>9, <1>10, <1>11, <1>14, <1>15 DEF FinishInv

(* At the start there are the ticks, each worth a slice. *)
LEMMA InitFinishes ==
  ASSUME NEW c, EnoughTicks(c), EndsLate, DesInit
  PROVE  FinishInv(c)
  <1>1. PICK prices \in SUBSET MorePrices, cancels \in SUBSET Cancels :
          queue = { Event(t, 3 * t, "tick") : t \in Ticks }
                  \cup { Event(t, 3 * t + 1, "price") : t \in Prices \cup prices }
                  \cup { Event(t, 3 * t + 2, "cancel") : t \in cancels }
                  \cup { Event(EndTime, 3 * EndTime + 3, "end") }
    BY DEF DesInit
  <1> DEFINE ticks == { Event(t, 3 * t, "tick") : t \in Ticks }
             label == [t \in Ticks |-> Event(t, 3 * t, "tick")]
  <1>2. \A e \in ticks : e.type = "tick"
    BY DEF Event
  <1>3. ASSUME NEW e \in queue
        PROVE  InTime(e) /\ e.type # "submit" /\ (e.type = "tick" <=> e \in ticks)
    <2>1. CASE \E t \in Ticks : e = Event(t, 3 * t, "tick")
      BY <2>1 DEF Event, InTime, EndsLate
    <2>2. CASE \E t \in Prices \cup prices : e = Event(t, 3 * t + 1, "price")
      <3>1. e.type = "price" /\ e.time \in Prices \cup MorePrices
        BY <2>2 DEF Event
      <3>2. InTime(e)
        BY <3>1 DEF InTime, EndsLate
      <3> QED
        BY <1>2, <3>1, <3>2
    <2>3. CASE \E t \in cancels : e = Event(t, 3 * t + 2, "cancel")
      <3>1. e.type = "cancel"
        BY <2>3 DEF Event
      <3>2. InTime(e)
        BY <3>1 DEF InTime
      <3> QED
        BY <1>2, <3>1, <3>2
    <2>4. CASE e = Event(EndTime, 3 * EndTime + 3, "end")
      BY <2>4 DEF Event, InTime
    <2> QED
      BY <1>1, <2>1, <2>2, <2>3, <2>4
  <1>4. Open(queue) = ticks
    <2>1. ticks \subseteq queue
      BY <1>1
    <2>2. \A e \in ticks : e.type = "tick"
      BY DEF Event
    <2> HIDE DEF ticks
    <2> QED
      BY <1>3, <2>1, <2>2 DEF Open
  <1>5. IsFiniteSet(Ticks)
    <2>1. Ticks \subseteq 0 .. EndTime /\ IsFiniteSet(0 .. EndTime)
      BY DesAssumption, FS_Interval
    <2> QED
      BY <2>1, FS_Subset
  <1>6. Labels(label, Ticks, ticks)
    BY DEF Labels, Event
  <1> DEFINE f == [t \in Ticks |-> c]
             h == [e \in Open(queue) |-> Worth(c, e)]
  <1>7. \A t \in Ticks : f[t] \in Int /\ h[label[t]] = f[t]
    <2>1. c \in Int
      BY DEF EnoughTicks
    <2>2. \A t \in Ticks : label[t] \in Open(queue) /\ label[t].type = "tick"
      <3>1. \A t \in Ticks : label[t] \in ticks /\ label[t].type = "tick"
        BY DEF Event
      <3> QED
        BY <1>4, <3>1
    <2> HIDE DEF label
    <2> QED
      BY <2>1, <2>2 DEF Worth
  <1>8. Outlook(c, queue) = SumFunctionOnSet(h, Open(queue))
    BY DEF Outlook
  <1>9. SumFunctionOnSet(f, Ticks) = c * Cardinality(Ticks)
    BY <1>5, SumConstant DEF EnoughTicks
  <1> HIDE DEF ticks, label, f, h
  <1>10. IsFiniteSet(ticks) /\ SumFunctionOnSet(h, ticks) = SumFunctionOnSet(f, Ticks)
    BY <1>5, <1>6, <1>7, SumRenumbered
  <1>11. Outlook(c, queue) = c * Cardinality(Ticks)
    BY <1>4, <1>8, <1>9, <1>10
  <1>12. SumFunctionOnSet(sold, S) \in Nat
    <2>1. \A s \in S : sold[s] \in Nat
      BY DEF DesInit
    <2> QED
      BY <2>1, StrategiesFinite, SumNat
  <1>13. Total <= SumFunctionOnSet(sold, S) + Outlook(c, queue)
    <2> DEFINE n == c * Cardinality(Ticks)
    <2>1. Total <= n /\ n \in Nat
      BY <1>5, FS_CardinalityType DEF EnoughTicks
    <2> HIDE DEF n
    <2>2. Outlook(c, queue) = n
      BY <1>11 DEF n
    <2> QED
      BY <1>12, <2>1, <2>2, DesAssumption
  <1>14. ~done
    BY DEF DesInit
  <1>15. \A e \in queue : InTime(e)
    BY <1>3
  <1> QED
    BY <1>4, <1>10, <1>13, <1>14, <1>15 DEF FinishInv

(* Once the end has come one total is sold by all strategies together, and *)
(* every account is empty.                                                 *)
SoldTogether ==
  done /\ AllSlice => SumFunctionOnSet(sold, S) >= Total /\ \A s \in S : completed[s]

LEMMA FinishedSold ==
  ASSUME NEW c, DesInv, AccountLags, FinishInv(c)
  PROVE  SoldTogether
  <1> SUFFICES ASSUME done, AllSlice
               PROVE  SumFunctionOnSet(sold, S) >= Total /\ \A s \in S : completed[s]
    BY DEF SoldTogether
  <1>1. Open(queue) = {} /\ Fills(queue) = {}
    BY DEF FinishInv
  <1>2. Outlook(c, queue) = 0
    <2>1. Outlook(c, queue) = SumFunctionOnSet([e \in {} |-> Worth(c, e)], {})
      BY <1>1 DEF Outlook
    <2> QED
      BY <2>1, SumEmpty
  <1>3. InFlight("fill") = 0
    <2>1. FillSum(queue) = SumFunctionOnSet([e \in {} |-> e.qty], {})
      BY <1>1 DEF FillSum
    <2> QED
      BY <2>1, SumEmpty, InFlightFills
  <1>4. SumFunctionOnSet(sold, S) \in Nat
    BY StrategiesFinite, SumNat DEF DesInv, DesTypeOK
  <1>5. Total <= SumFunctionOnSet(sold, S)
    BY <1>2, <1>4, DesAssumption DEF FinishInv
  <1>6. ASSUME NEW s \in S PROVE completed[s]
    <2>1. ~PastSchedule(s)
      BY DEF AllSlice, PastSchedule
    <2>2. /\ remaining[s] = AtLeastZero(Total + 0 - SumFunctionOnSet(sold, S))
          /\ completed[s] <=> remaining[s] = 0
      BY <1>3, <2>1 DEF AccountLags
    <2>3. remaining[s] = 0
      BY <1>4, <1>5, <2>2, DesAssumption DEF AtLeastZero
    <2> QED
      BY <2>2, <2>3
  <1> QED
    BY <1>4, <1>5, <1>6, DesAssumption

(* That is so from the hypotheses on ticks, slices, fills and the end.     *)
LEMMA TogetherSellTheTotal ==
  ASSUME NEW c, Total > 0, EnoughTicks(c), EndsLate
  PROVE  DesSpec => []SoldTogether
  <1>1. DesInit => FinishInv(c)
    BY InitFinishes
  <1>2. DesInv /\ AccountLags /\ FinishInv(c) /\ [DesNext]_desVars => FinishInv(c)'
    <2> SUFFICES ASSUME DesInv, AccountLags, FinishInv(c), [DesNext]_desVars
                 PROVE  FinishInv(c)'
      OBVIOUS
    <2>1. c \in Nat
      BY DEF EnoughTicks
    <2>2. CASE OnTick
      BY <2>2, TickFinishes
    <2>3. CASE OnPrice
      BY <2>1, <2>3, PriceFinishes
    <2>4. CASE OnSubmit
      BY <2>4, SubmitFinishes
    <2>5. CASE OnCancel \/ OnFill \/ OnEnd
      BY <2>1, <2>5, OthersFinish
    <2>6. CASE UNCHANGED desVars
      <3>1. sold' = sold /\ queue' = queue /\ rule' = rule /\ (done' <=> done)
        BY <2>6 DEF desVars
      <3> QED
        BY <3>1 DEF FinishInv, AllSlice
    <2> QED
      BY <2>2, <2>3, <2>4, <2>5, <2>6 DEF DesNext
  <1>3. DesInv /\ AccountLags /\ FinishInv(c) => SoldTogether
    BY FinishedSold
  <1>4. DesSpec => []AccountLags
    BY AccountsAlwaysLag
  <1> QED
    BY <1>1, <1>2, <1>3, <1>4, DesInvariance, PTL DEF DesSpec

(* The total of every strategy is sold and the strategy knows it. *)
SoldAtTheEnd == done /\ AllSlice => \A s \in S : sold[s] >= Total /\ completed[s]

(* If the ticks are enough for the least a strategy asks for, one fill     *)
(* covers that much, and the simulation ends after the last order and its  *)
(* fill, then a strategy alone in the loop that keeps slicing what is left *)
(* has sold its total at the end and knows it: however slices and fills    *)
(* differ, whatever orders are taken back, even if fills come later than   *)
(* the next ticks.                                                         *)
THEOREM EnoughTicksSellTheTotal ==
  ASSUME NEW c, Total > 0, Strategies = 1, EnoughTicks(c), EndsLate
  PROVE  DesSpec => []SoldAtTheEnd
  <1>1. DesInv /\ SoldTogether => SoldAtTheEnd
    <2> SUFFICES ASSUME DesInv, SoldTogether, done, AllSlice, NEW s \in S
                 PROVE  sold[s] >= Total /\ completed[s]
      BY DEF SoldAtTheEnd
    <2>1. s = 1 /\ SumFunctionOnSet(sold, S) = sold[s]
      BY SoldAlone
    <2>2. SumFunctionOnSet(sold, S) >= Total /\ completed[s]
      BY DEF SoldTogether
    <2>3. sold[s] >= Total
      BY <2>1, <2>2
    <2> QED
      BY <2>2, <2>3
  <1>2. DesSpec => []SoldTogether
    BY TogetherSellTheTotal
  <1> QED
    BY <1>1, <1>2, DesInvariance, PTL

(* In particular if none was taken back. *)
THEOREM SlicingSellsTheTotal ==
  ASSUME NEW c, Total > 0, Strategies = 1, EnoughTicks(c), EndsLate
  PROVE  DesSpec => []SoldByTheEnd
  <1>1. SoldAtTheEnd => SoldByTheEnd
    BY DEF SoldAtTheEnd, SoldByTheEnd, AllSlice
  <1>2. DesSpec => []SoldAtTheEnd
    BY EnoughTicksSellTheTotal
  <1> QED
    BY <1>1, <1>2, PTL
=============================================================================
