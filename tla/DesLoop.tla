------------------------------ MODULE DesLoop ------------------------------
(***************************************************************************)
(* The discrete event simulator: the event queue (events/queue.rs), the    *)
(* loop that routes events (engine/event_loop.rs), the execution engine    *)
(* with its pending orders (execution/engine.rs) and the Strategy trait    *)
(* implementations that submit and count fills (strategies/*.rs).          *)
(*                                                                         *)
(*   queue, next_seq    EventQueue; an event is [time, seq, type, ...]     *)
(*   clock              time of the last event popped                      *)
(*   pending            pending_orders, oldest first                       *)
(*   remaining, completed, current_step   of each strategy                 *)
(*   sold               history: quantity executed for each strategy       *)
(*   cancelled          history: was an order taken back                   *)
(*   done               SimulationEnd was reached                          *)
(*                                                                         *)
(* Prices and impact are left out: no decision of the loop depends on      *)
(* them.  Times are integers; only FillDelay < OrderDelay < the distance   *)
(* of two ticks is used of the code's 1e-9, 1e-6 and 1.                    *)
(***************************************************************************)
EXTENDS Integers, Sequences, Functions

CONSTANTS
  Strategies,    \* how many strategies are registered: 1 .. Strategies
  Total,         \* total_notional of each
  ChunkSizes,    \* what a strategy's rule may ask for
  Horizon,       \* length of the Optimal strategy's schedule
  MaxFill,       \* max_fill_qty of the execution engine
  FillDelay, OrderDelay,
  Ticks,         \* times of the TimeTick events
  Prices,        \* times of the PriceUpdate events
  MorePrices,    \* times at which further ones may be scheduled
  Cancels,       \* times at which CancelOrder events may be scheduled
  EndTime        \* time of SimulationEnd

ASSUME DesAssumption ==
  /\ Strategies \in Nat \ {0} /\ Total \in Nat /\ Horizon \in Nat
  /\ ChunkSizes \subseteq Nat \ {0}
  /\ MaxFill \in Nat \ {0}
  /\ FillDelay \in Nat \ {0} /\ OrderDelay \in Nat /\ FillDelay < OrderDelay
  /\ EndTime \in Nat
  /\ Ticks \cup Prices \cup MorePrices \cup Cancels \subseteq 0 .. EndTime

VARIABLES queue, next_seq, clock, pending, rule, remaining, completed,
          current_step, sold, cancelled, done

desVars == <<queue, next_seq, clock, pending, rule, remaining, completed,
             current_step, sold, cancelled, done>>

S == 1 .. Strategies

Orders == [owner : S, id : Nat, qty : Nat \ {0}]

DesTypeOK ==
  /\ \A e \in queue : e.time \in Nat /\ e.seq \in 0 .. next_seq - 1
  /\ next_seq \in Nat /\ clock \in Nat
  /\ pending \in Seq(Orders)
  /\ rule \in [S -> {"chunk", "optimal"}]
  /\ remaining \in [S -> 0 .. Total] /\ completed \in [S -> BOOLEAN]
  /\ current_step \in [S -> 0 .. Horizon] /\ sold \in [S -> Nat]
  /\ cancelled \in BOOLEAN /\ done \in BOOLEAN

(* schedule() of the same time, in any order of insertion: ticks, prices   *)
(* and cancels get the sequence numbers of three blocks, the end the last. *)
Event(time, seq, type) == [time |-> time, seq |-> seq, type |-> type]

DesInit ==
  /\ \E prices \in SUBSET MorePrices, cancels \in SUBSET Cancels :
       queue = { Event(t, 3 * t, "tick") : t \in Ticks }
               \cup { Event(t, 3 * t + 1, "price") : t \in Prices \cup prices }
               \cup { Event(t, 3 * t + 2, "cancel") : t \in cancels }
               \cup { Event(EndTime, 3 * EndTime + 3, "end") }
  /\ next_seq = 3 * EndTime + 4
  /\ clock = 0
  /\ pending = <<>>
  /\ rule \in [S -> {"chunk", "optimal"}]
  /\ remaining = [s \in S |-> Total]
  /\ completed = [s \in S |-> FALSE]
  /\ current_step = [s \in S |-> 0]
  /\ sold = [s \in S |-> 0]
  /\ cancelled = FALSE
  /\ done = FALSE

-----------------------------------------------------------------------------
(* Bug shape: insertion order is compared before time. *)
SoonestInserted(e, f) == e.seq < f.seq

(* The reversed Ord of TimestampedEvent: by time, ties by insertion. *)
Before(e, f) == e.time < f.time \/ (e.time = f.time /\ e.seq < f.seq)

Smaller(a, b) == IF a < b THEN a ELSE b

AtLeastZero(x) == IF x > 0 THEN x ELSE 0

(* run: pop the earliest event; once SimulationEnd came, no more.          *)
Pop(e, type) ==
  /\ ~done
  /\ e \in queue /\ e.type = type
  /\ \A f \in queue \ {e} : Before(e, f)
  /\ clock' = e.time

(* The follow-on events, numbered in the order they are scheduled.         *)
Reschedule(e, follow) ==
  /\ queue' = (queue \ {e}) \cup
       { [follow[i] EXCEPT !.seq = next_seq + i - 1] : i \in DOMAIN follow }
  /\ next_seq' = next_seq + Len(follow)

(* Vec::retain: the elements at the places of keep, in their order.        *)
Retain(seq, keep) ==
  LET kept[n \in 0 .. Len(seq)] ==
        IF n = 0 THEN <<>>
        ELSE IF n \in keep THEN Append(kept[n - 1], seq[n]) ELSE kept[n - 1]
  IN  kept[Len(seq)]

(* try_fill: every pending order gets up to MaxFill, the rest of it stays  *)
(* in its place.                                                           *)
FillQty(order) == Smaller(order.qty, MaxFill)

FillEvents(orders, time) ==
  [ i \in DOMAIN orders |->
      [time |-> time + FillDelay, seq |-> 0, type |-> "fill",
       qty |-> FillQty(orders[i])] ]

(* Bug shape: a partly filled order stays pending at its full size. *)
TryFillUndiminished(orders) ==
  /\ pending' = Retain(orders, { i \in DOMAIN orders : orders[i].qty > FillQty(orders[i]) })
  /\ sold' = [ s \in S |-> sold[s] + SumFunctionOnSet(
                 [ i \in DOMAIN orders |-> FillQty(orders[i]) ],
                 { i \in DOMAIN orders : orders[i].owner = s }) ]

TryFill(orders) ==
  /\ pending' = Retain([ i \in DOMAIN orders |->
                           [orders[i] EXCEPT !.qty = @ - FillQty(orders[i])] ],
                       { i \in DOMAIN orders : orders[i].qty > FillQty(orders[i]) })
  /\ sold' = [ s \in S |-> sold[s] + SumFunctionOnSet(
                 [ i \in DOMAIN orders |-> FillQty(orders[i]) ],
                 { i \in DOMAIN orders : orders[i].owner = s }) ]

(* Bug shape: one step past the end of the schedule is still looked up.    *)
PastScheduleByOne(s) == rule[s] = "optimal" /\ current_step[s] > Horizon

(* What the strategies submit on a tick: nothing once completed, an        *)
(* Optimal one nothing past the end of its schedule either.                *)
PastSchedule(s) == rule[s] = "optimal" /\ current_step[s] >= Horizon

Submits(s) == ~completed[s] /\ ~PastSchedule(s) /\ remaining[s] > 0

SubmitEvents(chunk, time) ==
  Retain([ s \in S |->
            [time |-> time + OrderDelay, seq |-> 0, type |-> "submit",
             owner |-> s, qty |-> Smaller(chunk[s], remaining[s])] ],
         { s \in S : Submits(s) })

(* A TimeTick: the pending orders are tried first, then every strategy     *)
(* decides on what it knows to be left.                                    *)
OnTick ==
  \E e \in queue : \E chunk \in [S -> ChunkSizes] :
    /\ Pop(e, "tick")
    /\ TryFill(pending)
    /\ Reschedule(e, FillEvents(pending, e.time) \o SubmitEvents(chunk, e.time))
    /\ current_step' = [ s \in S |->
         IF rule[s] = "optimal" /\ ~completed[s] /\ ~PastSchedule(s)
         THEN current_step[s] + 1 ELSE current_step[s] ]
    /\ remaining' = [ s \in S |->
         IF PastSchedule(s) /\ ~completed[s] THEN 0 ELSE remaining[s] ]
    /\ completed' = [ s \in S |-> completed[s] \/ PastSchedule(s) ]
    /\ UNCHANGED <<rule, cancelled, done>>

strategyVars == <<rule, remaining, completed, current_step>>

(* A PriceUpdate: only the pending orders are tried. *)
OnPrice ==
  \E e \in queue :
    /\ Pop(e, "price")
    /\ TryFill(pending)
    /\ Reschedule(e, FillEvents(pending, e.time))
    /\ UNCHANGED <<strategyVars, cancelled, done>>

(* A SubmitOrder joins the pending orders, and all of them are tried. *)
OnSubmit ==
  \E e \in queue :
    /\ Pop(e, "submit")
    /\ LET orders == Append(pending, [owner |-> e.owner, id |-> e.seq, qty |-> e.qty])
       IN  TryFill(orders) /\ Reschedule(e, FillEvents(orders, e.time))
    /\ UNCHANGED <<strategyVars, cancelled, done>>

(* A CancelOrder takes the order it names back, if it is still pending. *)
OnCancel ==
  \E e \in queue : \E id \in { pending[i].id : i \in DOMAIN pending } \cup {0} :
    /\ Pop(e, "cancel")
    /\ pending' = Retain(pending, { i \in DOMAIN pending : pending[i].id # id })
    /\ cancelled' = (cancelled \/ pending' # pending)
    /\ Reschedule(e, <<>>)
    /\ UNCHANGED <<strategyVars, sold, done>>

(* Bug shape: the quantity is taken off but completion is never noticed. *)
OnFillNoCompletion ==
  \E e \in queue :
    /\ Pop(e, "fill")
    /\ remaining' = [ s \in S |-> AtLeastZero(remaining[s] - e.qty) ]
    /\ Reschedule(e, <<>>)
    /\ UNCHANGED <<rule, completed, current_step, pending, sold, cancelled, done>>

(* OrderFilled and PartialFill reach every strategy, the owner or not, and *)
(* each takes the quantity off its own account.                            *)
OnFill ==
  \E e \in queue :
    /\ Pop(e, "fill")
    /\ remaining' = [ s \in S |-> AtLeastZero(remaining[s] - e.qty) ]
    /\ completed' = [ s \in S |-> completed[s] \/ remaining[s] <= e.qty ]
    /\ Reschedule(e, <<>>)
    /\ UNCHANGED <<rule, current_step, pending, sold, cancelled, done>>

OnEnd ==
  \E e \in queue :
    /\ Pop(e, "end")
    /\ done' = TRUE
    /\ Reschedule(e, <<>>)
    /\ UNCHANGED <<strategyVars, pending, sold, cancelled>>

DesNext ==
  OnTick \/ OnPrice \/ OnSubmit \/ OnCancel \/ OnFill \/ OnEnd

DesSpec == DesInit /\ [][DesNext]_desVars

-----------------------------------------------------------------------------
(* "now must be monotonic" of TransientImpactTracker: no follow-on event   *)
(* is ever due before one that was already processed.                      *)
TimeMonotonic == \A e \in queue : e.time >= clock

(* Fills reported but not yet seen by the strategies. *)
InFlight(type) ==
  LET events == { e \in queue : e.type = type }
  IN  SumFunctionOnSet([ e \in events |-> e.qty ], events)

(* "Selling more than you own is an invalid state": no strategy sells more *)
(* than its total, although it decides on fills that reach it late.        *)
NeverOversold == \A s \in S : sold[s] <= Total

(* A strategy's account is that of its own inventory: it lags behind what  *)
(* the execution engine sold for it by exactly the fills still in the      *)
(* queue, and it is complete once all it has is sold and reported.  Fills  *)
(* carry no owner, so this is for a strategy that is alone in the loop.    *)
AccountAgrees ==
  \A s \in S : ~PastSchedule(s) =>
    /\ remaining[s] = AtLeastZero(Total + InFlight("fill") - sold[s])
    /\ completed[s] <=> sold[s] >= Total + InFlight("fill")

(* A strategy that keeps slicing what is left has sold everything when the *)
(* simulation ends, and knows it, if no order was taken back ("TWAP must   *)
(* exhaust full inventory", the test of twap.rs); alone in the loop too.   *)
SoldByTheEnd ==
  done /\ ~cancelled /\ (\A s \in S : rule[s] = "chunk")
    => \A s \in S : sold[s] >= Total /\ completed[s]

(* "Returns `true` once the strategy has fully executed its inventory", of *)
(* Strategy::is_complete: a slicing strategy that is complete has sold its *)
(* own total.                                                              *)
CompleteHasSold ==
  \A s \in S : rule[s] = "chunk" /\ completed[s] => sold[s] >= Total
=============================================================================
