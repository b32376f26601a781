------------------------------- MODULE Reactor -------------------------------
(* The worker scheduler of runtime.rs: a governor admits work against a     *)
(* capacity with a protected reserve, queues it by class and hands it to    *)
(* worker slots; overload may terminate work and long runs are demoted.     *)
EXTENDS Integers, Sequences, FiniteSets, SequencesExt, FiniteSetsExt

CONSTANTS Shapes,         \* configurations, each with the requests offered to it
          DeadlineWindow  \* DEADLINE_PRIORITY_WINDOW, scaled to the clock

VARIABLES shape,        \* the ReactorConfig
          governor,     \* queues, in_flight, accounted_cost, next_id, terminated_items
          workers,      \* worker slots
          clock,        \* the tick passed to dispatch
          settled       \* history: how each finished item ended

rvars == <<shape, governor, workers, clock, settled>>

OlTp == 1
Wal == 2
Reclaim == 3
Schema == 4
Scan == 5
Classes == OlTp .. Scan        \* in priority_order
NoDeadline == 99
Idle == [item |-> [id |-> -1, class |-> 0, cost |-> 0, deadline |-> NoDeadline], at |-> 0]

is_terminable(class) == class \notin {OlTp, Wal}
is_demotable(class) == class \notin {OlTp, Wal}
can_consume_reserve(class) == class \in {OlTp, Wal, Reclaim}

Queued(g) == UNION {Range(g.queues[c]) : c \in Classes}
Cost(items) == FoldSet(LAMBDA i, sum : i.cost + sum, 0, items)
Keep(g, items) ==
  [g EXCEPT !.queues = [c \in Classes |-> SelectSeq(g.queues[c], LAMBDA i : i \in items)]]

Start(c) ==
  /\ c.capacity > 0 /\ c.reserve < c.capacity
  /\ c.queue > 0 /\ c.in_flight > 0 /\ c.workers > 0

ReactorInit ==
  /\ shape \in {c \in Shapes : Start(c)}
  /\ governor = [queues |-> [c \in Classes |-> <<>>], in_flight |-> {}, accounted_cost |-> 0,
                 next_id |-> 0, terminated_items |-> {}]
  /\ workers = [w \in 1 .. shape.workers |-> Idle]
  /\ clock = 0
  /\ settled = [how \in {"completed", "cancelled", "expired", "terminated"} |-> {}]

-----------------------------------------------------------------------------
(* The governor.                                                            *)

\* largest_terminable, repeated until enough is free: an item goes when those
\* before it do not suffice.
Larger(a, b) == a.cost > b.cost \/ (a.cost = b.cost /\ a.id < b.id)
largest_terminable(g, needed) ==
  LET all == {i \in Queued(g) \cup g.in_flight : is_terminable(i.class)}
  IN {v \in all : Cost({u \in all : Larger(u, v)}) < needed}

terminate_largest_for(g, needed) ==
  LET victims == largest_terminable(g, needed) IN
  [governor |-> [Keep(g, Queued(g) \ victims) EXCEPT
                   !.in_flight = @ \ victims, !.accounted_cost = @ - Cost(victims),
                   !.terminated_items = @ \cup victims],
   victims |-> victims, met |-> Cost(victims) >= needed]

Admit(g, class, cost, deadline) ==
  [g EXCEPT !.queues[class] = Append(@, [id |-> g.next_id, class |-> class,
                                         cost |-> cost, deadline |-> deadline]),
            !.next_id = @ + 1, !.accounted_cost = @ + cost]

HasRoom(class) == Len(governor.queues[class]) < shape.queue

\* InvalidCost and QueueFull change nothing but the rejection counter.
submit(class, cost, deadline) ==
  LET needed == governor.accounted_cost + cost - shape.capacity
      over == needed > 0
      freed == IF over /\ shape.terminate THEN terminate_largest_for(governor, needed)
               ELSE [governor |-> governor, victims |-> {}, met |-> ~over]
      g == freed.governor
      refused == \/ ~freed.met
                 \/ /\ ~can_consume_reserve(class)
                    /\ g.accounted_cost + cost > shape.capacity - shape.reserve
  IN /\ cost \in 1 .. shape.capacity
     /\ HasRoom(class)
     /\ governor' = IF refused THEN g ELSE Admit(g, class, cost, deadline)
     /\ settled' = [settled EXCEPT !["terminated"] = @ \cup freed.victims]
     /\ UNCHANGED <<shape, workers, clock>>

Overdue(g) == {i \in Queued(g) : i.deadline <= clock}
expire(g) == [Keep(g, Queued(g) \ Overdue(g)) EXCEPT !.accounted_cost = @ - Cost(Overdue(g))]

Place(g, i) == CHOOSE n \in DOMAIN g.queues[i.class] : g.queues[i.class][n] = i
Before(g, a, b) == \/ a.deadline < b.deadline
                   \/ a.deadline = b.deadline /\ a.class < b.class
                   \/ a.deadline = b.deadline /\ a.class = b.class /\ Place(g, a) < Place(g, b)
urgent_item(g) ==
  LET near == {i \in Queued(g) : i.deadline # NoDeadline /\ i.deadline - clock <= DeadlineWindow}
  IN {i \in near : \A j \in near : j = i \/ Before(g, i, j)}

NextByPriority(g) ==
  LET ready == {c \in Classes : g.queues[c] # <<>>}
  IN {Head(g.queues[c]) : c \in {d \in ready : \A e \in ready : d <= e}}

\* The item poll hands out, if any, after expiring what is overdue.
Chosen(g) == IF Cardinality(g.in_flight) >= shape.in_flight THEN {}
             ELSE IF urgent_item(g) # {} THEN urgent_item(g) ELSE NextByPriority(g)

complete_work(g, item) ==
  [g EXCEPT !.in_flight = @ \ {item},
            !.accounted_cost = @ - (IF item \in g.in_flight THEN item.cost ELSE 0)]

\* Mutant: a demoted item is not queued again.
requeue_lost(g, item) == [g EXCEPT !.in_flight = @ \ {item}]
requeue_demoted(g, item) ==
  IF item \notin g.in_flight THEN g
  ELSE [g EXCEPT !.in_flight = @ \ {item}, !.queues[item.class] = Append(@, item)]

-----------------------------------------------------------------------------
(* The reactor.                                                             *)

IdleWorkers == {w \in DOMAIN workers : workers[w] = Idle}

\* Nothing happens, not even expiry, while every worker is busy.
dispatch ==
  LET g == expire(governor) IN
  /\ IdleWorkers # {}
  /\ IF Chosen(g) = {}
     THEN governor' = g /\ UNCHANGED workers
     ELSE \E i \in Chosen(g) :
            /\ governor' = [Keep(g, Queued(g) \ {i}) EXCEPT !.in_flight = @ \cup {i}]
            /\ workers' = [workers EXCEPT ![Min(IdleWorkers)] = [item |-> i, at |-> clock]]
  /\ settled' = [settled EXCEPT !["expired"] = @ \cup Overdue(governor)]
  /\ UNCHANGED <<shape, clock>>

\* Mutant: the slot of a terminated item stays taken.
complete_kept(w) ==
  LET item == workers[w].item IN
  /\ workers[w] # Idle
  /\ workers' = IF item \in governor.in_flight THEN [workers EXCEPT ![w] = Idle] ELSE workers
  /\ governor' = complete_work(governor, item)
  /\ settled' = [settled EXCEPT !["completed"] = @ \cup ({item} \cap governor.in_flight)]
  /\ UNCHANGED <<shape, clock>>

\* The slot is freed even when the overload policy took the item meanwhile.
complete(w) ==
  LET item == workers[w].item IN
  /\ workers[w] # Idle
  /\ workers' = [workers EXCEPT ![w] = Idle]
  /\ governor' = complete_work(governor, item)
  /\ settled' = [settled EXCEPT !["completed"] = @ \cup ({item} \cap governor.in_flight)]
  /\ UNCHANGED <<shape, clock>>

Overlong == {w \in DOMAIN workers : /\ workers[w] # Idle
                                    /\ is_demotable(workers[w].item.class)
                                    /\ clock - workers[w].at > shape.demotion_after}
preempt_long_running ==
  /\ Overlong # {}
  /\ governor' = FoldLeft(LAMBDA g, w : requeue_demoted(g, workers[w].item), governor,
                          SetToSortSeq(Overlong, <))
  /\ workers' = [w \in DOMAIN workers |-> IF w \in Overlong THEN Idle ELSE workers[w]]
  /\ UNCHANGED <<shape, clock, settled>>

cancel_queued(i) ==
  /\ governor' = [Keep(governor, Queued(governor) \ {i}) EXCEPT !.accounted_cost = @ - i.cost]
  /\ settled' = [settled EXCEPT !["cancelled"] = @ \cup {i}]
  /\ UNCHANGED <<shape, workers, clock>>

take_terminated ==
  /\ governor.terminated_items # {}
  /\ governor' = [governor EXCEPT !.terminated_items = {}]
  /\ UNCHANGED <<shape, workers, clock, settled>>

Tick == /\ clock < shape.ticks
        /\ clock' = clock + 1
        /\ UNCHANGED <<shape, governor, workers, settled>>

Submits == \E r \in shape.requests : governor.next_id < shape.submits /\ submit(r[1], r[2], r[3])
Completes == \E w \in DOMAIN workers : complete(w)
Cancels == \E i \in Queued(governor) : cancel_queued(i)

ReactorNext == \/ Submits \/ dispatch \/ Completes \/ preempt_long_running
               \/ Cancels \/ take_terminated \/ Tick

ReactorSpec == ReactorInit /\ [][ReactorNext]_rvars
\* A reactor is driven by polling: its owner keeps dispatching, and a worker
\* that was given work reports its end.
ReactorFair == WF_rvars(dispatch) /\ WF_rvars(Completes)

-----------------------------------------------------------------------------
Items(g) == Queued(g) \cup g.in_flight
Slots == {workers[w].item : w \in {v \in DOMAIN workers : workers[v] # Idle}}
Ended == UNION {settled[how] : how \in DOMAIN settled}

\* The charge is the cost of what is queued or in flight, and fits the capacity
\* (submit, complete, cancel_queued, expire and eviction all adjust it).
CostAccounted == /\ governor.accounted_cost = Cost(Items(governor))
                 /\ governor.accounted_cost <= shape.capacity

\* Schema and scan work together never reach into the protected reserve,
\* whatever was terminated, demoted or completed in between (submit).
ReserveKept ==
  Cost({i \in Items(governor) : i.class \in {Schema, Scan}}) <= shape.capacity - shape.reserve

\* Every admitted item is in exactly one place: queued once, in flight, or ended
\* in one way (poll, requeue_demoted, complete, cancel_queued, terminate_largest_for).
WorkConserved ==
  /\ {i.id : i \in Items(governor) \cup Ended} = 0 .. governor.next_id - 1
  /\ Cardinality(Items(governor)) + Cardinality(Ended) = governor.next_id
  /\ Cardinality(Items(governor)) = Cardinality(governor.in_flight)
       + FoldFunction(LAMBDA q, sum : Len(q) + sum, 0, governor.queues)
  /\ \A a, b \in DOMAIN settled : a # b => settled[a] \cap settled[b] = {}

\* A slot holds an item that is in flight or was terminated under it, and every
\* item in flight is on exactly one slot (dispatch, complete, preempt_long_running).
SlotsHoldInFlight ==
  /\ governor.in_flight \subseteq Slots
  /\ Slots \subseteq governor.in_flight \cup settled["terminated"]
  /\ Cardinality(Slots) = Cardinality(DOMAIN workers \ IdleWorkers)

\* Demotion pushes past max_queue_per_class, but by no more than may be in flight:
\* queued and in-flight work of a class together stay within the two limits.
QueueBound ==
  \A c \in Classes :
    Len(governor.queues[c]) + Cardinality({i \in governor.in_flight : i.class = c})
      <= shape.queue + Min({shape.workers, shape.in_flight})

\* Work that carries durability is never terminated, and once started it stays
\* on its worker until it completes (is_terminable, is_demotable).
DurableWorkStays ==
  [][/\ \A i \in settled'["terminated"] : i.class \notin {OlTp, Wal}
     /\ \A i \in governor.in_flight : i.class \in {OlTp, Wal} =>
          i \in governor'.in_flight \/ i \in settled'["completed"]]_rvars

\* Once arrivals stop, everything admitted ends: no slot stays taken for an item
\* that was terminated under it (complete, dispatch).
WorkSettles == (governor.next_id = shape.submits) ~> (Items(governor) = {} /\ Slots = {})

\* What the governor and the slots always account for: the charge, the reserve,
\* every item in one place, every slot, the length of the queues.
WorkHolds == CostAccounted /\ ReserveKept /\ WorkConserved /\ SlotsHoldInFlight /\ QueueBound
=============================================================================
