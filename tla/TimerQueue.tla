----------------------------- MODULE TimerQueue -----------------------------
(***************************************************************************)
(* The timer queue (timer_queue.c) and the main loop that serves it        *)
(* (main.c:343).  The queue is a linked list, soonest first.  The loop     *)
(* takes the time once, cuts the expired timers off the list, calls their  *)
(* handlers one after the other while it walks along what it cut off, and  *)
(* then sleeps in select until the head of the list is due, by the time it *)
(* took at the beginning.  When packets come first, it calls the callback  *)
(* of every socket that is ready before it looks at the timers again.      *)
(* Handlers and callbacks block, some of them for seconds; handlers arm    *)
(* their own timer again, and callbacks arm timers too.                    *)
(*                                                                         *)
(* Times are relative: `left' of a timer falls as time passes.             *)
(***************************************************************************)
EXTENDS Integers, FiniteSets

CONSTANTS
  Timer,         \* the struct timers of the program
  Null,          \* the NULL pointer
  Duration,      \* Duration[t]: the msec that t is always armed for
  BootTimers,    \* armed before the main loop starts
  PacketTimers,  \* armed by the callbacks
  OneShot,       \* allocated anew whenever they are armed; their handlers never arm them
  MaxBlock,      \* how long one handler, or one callback, can block
  Callbacks      \* CALLBACK_FUNCS: the callbacks that main can call in one pass

ASSUME TimerAssumption ==
  /\ IsFiniteSet(Timer) /\ Null \notin Timer
  /\ Duration \in [Timer -> Nat \ {0}]
  /\ BootTimers \subseteq Timer /\ BootTimers # {} /\ PacketTimers \subseteq Timer
  /\ OneShot \subseteq PacketTimers
  /\ MaxBlock \in Nat
  /\ Callbacks \in Nat \ {0}

VARIABLES
  pc,       \* what the main loop is doing
  TQ,       \* the head of the queue
  next,     \* next[t]: t->next
  used,     \* used[t]: t->used
  left,     \* left[t]: t->timeout minus the present time; 0 when t is not armed
  expired,  \* expiredTQ: what is still to be served of the list that was cut off
  age,      \* the present time minus `now' of timer_age_queue
  wake,     \* what is left of the timeout of select
  block,    \* how long the last handler or callback can still block
  ready     \* the callbacks of this pass that have not returned yet

list == <<TQ, next, used>>
vars == <<pc, list, left, expired, age, wake, block, ready>>

N == Cardinality(Timer)

\* The nodes of the list from head on: N + 1 of them, Null after the last one.
Nodes(head, nxt) ==
  LET node[i \in 1 .. N + 1] ==
        IF i = 1 THEN head ELSE IF node[i-1] = Null THEN Null ELSE nxt[node[i-1]]
  IN  node

OnList(head, nxt) == LET node == Nodes(head, nxt) IN {node[i] : i \in 1 .. N + 1} \ {Null}

Armed == OnList(TQ, next) \cup OnList(expired, next)

Least(S) == CHOOSE i \in S : \A j \in S : i <= j

-----------------------------------------------------------------------------
\* Wrong variant: the queue is sorted the other way round.
DueLaterReversed(q, msec) == left[q] < msec

\* q is due later than in msec from now.
DueLater(q, msec) == left[q] > msec

(***************************************************************************)
(* timer_add_msec: timer_remove takes t off the queue when it is marked as *)
(* used; then t goes before the first timer that is due later.             *)
(***************************************************************************)
Insert(t, head, nxt) ==
  LET node == Nodes(head, nxt)
      at   == Least({i \in 1 .. N + 1 : node[i] = Null \/ DueLater(node[i], Duration[t])})
  IN  /\ TQ' = IF at = 1 THEN t ELSE head
      /\ next' = IF at = 1 THEN [nxt EXCEPT ![t] = node[at]]
                 ELSE [nxt EXCEPT ![t] = node[at], ![node[at - 1]] = t]

Arm(t) ==
  /\ used' = [used EXCEPT ![t] = TRUE]
  /\ left' = [left EXCEPT ![t] = Duration[t]]
  /\ CASE used[t] /\ TQ = t -> Insert(t, next[t], [next EXCEPT ![t] = Null])
       [] used[t] /\ TQ # t /\ t \in OnList(TQ, next) ->
            LET prev == CHOOSE p \in OnList(TQ, next) : next[p] = t
            IN  Insert(t, TQ, [next EXCEPT ![prev] = next[t], ![t] = Null])
       [] OTHER -> Insert(t, TQ, next)

Init ==
  /\ pc = "boot"
  /\ TQ = Null
  /\ next = [t \in Timer |-> Null]
  /\ used = [t \in Timer |-> FALSE]
  /\ left = [t \in Timer |-> 0]
  /\ expired = Null
  /\ age = 0
  /\ wake = 0
  /\ block = 0
  /\ ready = 0

\* heart_beat_init and timer_rv_init.
Boot(t) ==
  /\ pc = "boot"
  /\ t \in BootTimers /\ ~used[t]
  /\ Arm(t)
  /\ pc' = IF \A u \in BootTimers \ {t} : used[u] THEN "loop" ELSE "boot"
  /\ UNCHANGED <<expired, age, wake, block, ready>>

\* Wrong variant: the expired timers are not cut off from the others.
AgeQueueUncut ==
  LET node == Nodes(TQ, next)
      at   == Least({i \in 1 .. N + 1 : node[i] = Null \/ left[node[i]] > 0})
  IN  /\ pc = "loop"
      /\ pc' = "handlers"
      /\ TQ' = node[at]
      /\ expired' = IF at = 1 THEN Null ELSE TQ
      /\ age' = 0 /\ block' = 0
      /\ UNCHANGED <<next, used, left, wake, ready>>

\* timer_age_queue takes the time, and timer_timeout cuts off what is due.
AgeQueue ==
  LET node == Nodes(TQ, next)
      at   == Least({i \in 1 .. N + 1 : node[i] = Null \/ left[node[i]] > 0})
  IN  /\ pc = "loop"
      /\ pc' = "handlers"
      /\ TQ' = node[at]
      /\ expired' = IF at = 1 THEN Null ELSE TQ
      /\ next' = IF at = 1 THEN next ELSE [next EXCEPT ![node[at - 1]] = Null]
      /\ age' = 0 /\ block' = 0
      /\ UNCHANGED <<used, left, wake, ready>>

\* Wrong variant: the timers that are due with the first one are forgotten.
HandleFirst(t) ==
  /\ pc = "handlers" /\ expired = t
  /\ expired' = Null
  /\ used' = [used EXCEPT ![t] = FALSE]
  /\ left' = [left EXCEPT ![t] = 0]
  /\ block' = MaxBlock
  /\ UNCHANGED <<pc, TQ, next, age, wake, ready>>

\* Wrong variant: the mark stays when the timer does not arm itself.
HandleStaysUsed(t) ==
  /\ pc = "handlers" /\ expired = t
  /\ expired' = next[t]
  /\ left' = [left EXCEPT ![t] = 0]
  /\ block' = MaxBlock
  /\ UNCHANGED <<pc, list, age, wake, ready>>

\* timer_timeout calls the handler of t, which may block.  It arms t again, but for
\* a one-shot timer and for register_rv while networks merge.
Handle(t) ==
  /\ pc = "handlers" /\ expired = t
  /\ expired' = next[t]
  /\ \/ /\ t \in PacketTimers
        /\ used' = [used EXCEPT ![t] = FALSE]
        /\ left' = [left EXCEPT ![t] = 0]
        /\ UNCHANGED <<TQ, next>>
     \/ /\ t \notin OneShot
        /\ Insert(t, TQ, next)
        /\ left' = [left EXCEPT ![t] = Duration[t]]
        /\ UNCHANGED used
  /\ block' = MaxBlock
  /\ UNCHANGED <<pc, age, wake, ready>>

\* What select waits for when no timer is armed.
Forever == -1

\* Wrong variant: the age of `now' is added once more.
RemainingTwice == IF TQ = Null THEN Forever ELSE left[TQ] + 2 * age

\* timer_age_queue: the timeout of the head minus the time it took at its start.
Remaining == IF TQ = Null THEN Forever ELSE left[TQ] + age

Select ==
  /\ pc = "handlers" /\ expired = Null
  /\ pc' = "select"
  /\ wake' = Remaining
  /\ age' = 0 /\ block' = 0
  /\ UNCHANGED <<list, left, expired, ready>>

TimeOut ==
  /\ pc = "select" /\ wake = 0
  /\ pc' = "loop"
  /\ UNCHANGED <<list, left, expired, age, wake, block, ready>>

\* Packets end the wait: select tells which sockets are ready, and main calls the
\* callback of the first one.
Packets ==
  /\ pc = "select"
  /\ pc' = "callbacks"
  /\ ready' \in 1 .. Callbacks
  /\ wake' = 0 /\ block' = MaxBlock
  /\ UNCHANGED <<list, left, expired, age>>

\* A callback arms a timer; it may arm several.
ArmByPacket(t) ==
  /\ pc = "callbacks"
  /\ t \in PacketTimers /\ (t \in OneShot => ~used[t])
  /\ Arm(t)
  /\ UNCHANGED <<pc, expired, age, wake, block, ready>>

\* A callback returns, and main calls that of the next socket which is ready.
Return ==
  /\ pc = "callbacks"
  /\ ready' = ready - 1
  /\ IF ready = 1 THEN pc' = "loop" /\ block' = 0
                  ELSE pc' = "callbacks" /\ block' = MaxBlock
  /\ UNCHANGED <<list, left, expired, age, wake>>

\* Time passes in select, and in a handler or a callback that blocks.
Tick ==
  /\ \/ /\ pc = "select" /\ wake # 0
        /\ wake' = IF wake = Forever THEN wake ELSE wake - 1
        /\ UNCHANGED <<age, block>>
     \/ /\ pc \in {"handlers", "callbacks"} /\ block > 0
        /\ block' = block - 1
        /\ age' = IF pc = "handlers" THEN age + 1 ELSE age
        /\ UNCHANGED wake
  /\ left' = [t \in Timer |-> IF t \in Armed THEN left[t] - 1 ELSE 0]
  /\ UNCHANGED <<pc, list, expired, ready>>

Next ==
  \/ \E t \in Timer : Boot(t)
  \/ AgeQueue
  \/ \E t \in Timer : Handle(t)
  \/ Select
  \/ TimeOut
  \/ Packets
  \/ \E t \in Timer : ArmByPacket(t)
  \/ Return
  \/ Tick

\* The program goes on, and time does not stop when packets keep coming.
Fairness ==
  /\ \A t \in Timer : WF_vars(Boot(t)) /\ WF_vars(Handle(t))
  /\ WF_vars(AgeQueue) /\ WF_vars(Select) /\ WF_vars(TimeOut) /\ WF_vars(Return)
  /\ SF_vars(Tick)

Spec == Init /\ [][Next]_vars /\ Fairness

-----------------------------------------------------------------------------
MaxDuration == CHOOSE d \in {Duration[t] : t \in Timer} : \A t \in Timer : Duration[t] <= d

\* How late a timer can be served: select sleeps too long for the handlers that
\* ran after `now' was taken, then the callbacks of one pass come, and at last the
\* other timers that are due go first.
MaxLate == (2 * N + Callbacks - 1) * MaxBlock

TypeInvariant ==
  /\ pc \in {"boot", "loop", "handlers", "select", "callbacks"}
  /\ TQ \in Timer \cup {Null}
  /\ next \in [Timer -> Timer \cup {Null}]
  /\ used \in [Timer -> BOOLEAN]
  /\ left \in [Timer -> Int]
  /\ expired \in Timer \cup {Null}
  /\ age \in 0 .. N * MaxBlock
  /\ wake \in {Forever} \cup 0 .. MaxDuration + N * MaxBlock
  /\ block \in 0 .. MaxBlock
  /\ ready \in 0 .. Callbacks /\ (ready = 0 <=> pc # "callbacks")

(***************************************************************************)
(* The linked lists are sound: the queue and what was cut off from it have *)
(* no timer in common and come to an end, the soonest timer is first, and  *)
(* a timer is marked as used exactly while it is on one of them.           *)
(***************************************************************************)
SoundLists ==
  /\ OnList(TQ, next) \cap OnList(expired, next) = {}
  /\ \A head \in {TQ, expired} : Nodes(head, next)[N + 1] = Null
  /\ \A t \in OnList(TQ, next) : next[t] # Null => left[t] <= left[next[t]]
  /\ \A t \in Timer : used[t] <=> t \in Armed

\* No armed timer is served later than MaxLate after it was due.
LateBound == \A t \in Armed : left[t] >= -MaxLate

\* The queue implements Alarms: no timer is lost, goes off twice or too early.
Abs == INSTANCE Alarms WITH armed <- Armed

ImplementsAlarms == Abs!Spec

\* A timer that is due is served.
DueIsServed ==
  \A t \in Timer : (used[t] /\ left[t] <= 0) ~> ~(used[t] /\ left[t] <= 0)

\* timer_age_queue comes to every armed timer that packets do not put off.
ArmedIsServed ==
  \A t \in Timer \ PacketTimers : used[t] ~> expired = t
=============================================================================
