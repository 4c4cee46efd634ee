----------------------------- MODULE TaskManager -----------------------------
(***************************************************************************)
(* The scheduler of PeerStreamer-ng: task_manager_poll waits in select for *)
(* the earliest timer or a descriptor, then sweeps the list of tasks and   *)
(* triggers those that are due, while their callbacks change the very list *)
(* the sweep walks along.  The callbacks are what the program's tasks do:  *)
(* mongoose's creates the tasks of a new streamer, the purge's destroys    *)
(* those of old ones, and every other leaves the list alone.               *)
(*                                                                         *)
(* Timers count milliseconds; the time that really passes in select is     *)
(* measured in halves of a millisecond, so that rounding is seen.          *)
(***************************************************************************)
EXTENDS Naturals, SequencesExt

CONSTANTS
    Tasks,          \* addresses a struct periodic_task can have
    Mongoose,       \* the task that serves the HTTP connections
    Purger,         \* the task that destroys streamers nobody renews
    Boot,           \* the tasks main creates, the last one first
    Reinit,         \* tasks with a reinit function
    Shortest,       \* the least time a reinit function asks for
    MaxTimeout,     \* the longest, what a timeout (a uint16_t) can hold
    Period,         \* Period[t]: the timeout the task is created with
    PollTimeout,    \* the timeout main gives to task_manager_poll
    Overrun,        \* half milliseconds select may return late
    NULL            \* the end of the list, no task

StreamerTasks == Tasks \ Range(Boot)

ASSUME TaskManagerAssumption ==
    /\ Boot \in Seq(Tasks) /\ IsInjective(Boot)
    /\ {Mongoose, Purger} \subseteq Range(Boot) /\ Mongoose # Purger
    /\ Mongoose \in Reinit /\ Purger \notin Reinit
    /\ Shortest \in Nat /\ MaxTimeout \in Nat
    /\ Period \in [Tasks -> 1..MaxTimeout]
    /\ \A t \in Tasks : Shortest <= Period[t]
    /\ PollTimeout \in Nat \ {0} /\ Overrun \in Nat
    /\ NULL \notin Tasks

VARIABLES
    list,       \* tm->tasks, from the head
    tte,        \* time_to_expire of each task
    watched,    \* tasks with a descriptor in their buckets
    event,      \* what select returned, "none" between two polls
    pos,        \* the cursor of the sweep
    slept,      \* sleep_time, what the stopwatch measured
    ready,      \* tasks with a descriptor that select found ready
    armed,      \* history: the time the task's timer was last set to
    waited,     \* history: half milliseconds spent in select since then
    seen,       \* history: tasks the sweep has visited
    due,        \* history: tasks in the list when the sweep began
    expired     \* history: the task the last step triggered on a timeout

vars == <<list, tte, watched, event, pos, slept, ready,
          armed, waited, seen, due, expired>>

\* What the type timeout holds.
Timeouts == 0..MaxTimeout

Listed == Range(list)

\* A task that has no reinit function never waits for more than its period.
TypeOK ==
    /\ list \in Seq(Tasks) /\ IsInjective(list)
    /\ tte \in [Tasks -> Timeouts]
    /\ \A t \in Tasks \ Reinit : tte[t] <= Period[t]
    /\ watched \subseteq Reinit
    /\ event \in {"none", "timeout", "ready"}
    /\ pos \in Tasks \cup {NULL}
    /\ slept \in Nat
    /\ ready \subseteq Reinit
    /\ armed \in [Tasks -> Timeouts]
    /\ waited \in [Tasks -> Nat]
    /\ seen \subseteq Tasks /\ due \subseteq Tasks
    /\ expired \in Tasks \cup {NULL}

\* What a timer is set to: the period, unless a reinit function sets it, to
\* whatever mongoose or the streaming library asks for (mongoose for its own
\* timers, the offers and the network helper for theirs).
Rearmed(t) == IF t \in Reinit THEN Shortest..MaxTimeout ELSE {Period[t]}

Times(set) == {time \in [set -> UNION {Rearmed(t) : t \in set}] :
                   \A t \in set : time[t] \in Rearmed(t)}

Init ==
    /\ list = Boot
    /\ \E time \in Times(Range(Boot)) :
          armed = [t \in Tasks |-> IF t \in Range(Boot) THEN time[t]
                                   ELSE Period[t]]
    /\ tte = armed
    /\ watched \in SUBSET (Reinit \cap Range(Boot))
    /\ event = "none" /\ pos = NULL /\ slept = 0 /\ ready = {}
    /\ waited = [t \in Tasks |-> 0]
    /\ seen = {} /\ due = {} /\ expired = NULL

-----------------------------------------------------------------------------
MinTo == Min({PollTimeout} \cup {tte[t] : t \in Listed})

\* Mutant of Elapsed: every wait counts a millisecond more.
ElapsedUp(d) == (d + 2) \div 2
\* stopwatch_select rounds the d half milliseconds to the nearest millisecond.
Elapsed(d) == (d + 1) \div 2

\* The first half of task_manager_poll, up to the return of select: the d
\* half milliseconds it took count in no task's favour beyond armed.
Wait(d) ==
    /\ event = "none"
    /\ waited' = [t \in Tasks |-> IF t \in Listed
                                  THEN Min({waited[t] + d, armed[t]})
                                  ELSE waited[t]]
    /\ expired' = NULL
    /\ UNCHANGED <<list, tte, watched, armed>>

StartSweep(d, e, fds) ==
    /\ event' = e
    /\ ready' = fds
    /\ slept' = Elapsed(d)
    /\ pos' = Head(list)
    /\ seen' = {} /\ due' = Listed

SelectTimeout ==
    \E d \in (2 * MinTo)..(2 * MinTo + Overrun) :
        Wait(d) /\ StartSweep(d, "timeout", {})

SelectReady ==
    \E d \in 0..(2 * MinTo + Overrun) :
        \E fds \in SUBSET (watched \cap Listed) :
            fds # {} /\ Wait(d) /\ StartSweep(d, "ready", fds)

\* A signal interrupts select: the poll ends, and the time is not counted.
SelectError ==
    \E d \in 0..(2 * MinTo) :
        Wait(d) /\ UNCHANGED <<event, pos, slept, ready, seen, due>>

-----------------------------------------------------------------------------
Succ(l, t) ==
    LET i == CHOOSE i \in DOMAIN l : l[i] = t
    IN  IF i = Len(l) THEN NULL ELSE l[i + 1]

\* Mutant of Add: the new tasks go to the end of the list.
AddLast(l, new) == l \o new
\* task_manager_add puts each new task at the head.
Add(l, new) == Reverse(new) \o l

Before(l, a, b) == \E i, j \in DOMAIN l : i < j /\ l[i] = a /\ l[j] = b

\* What task_manager_destroy_task, for every task in gone, makes of the list:
\* the others in the order they had.
Destroy(l, gone) ==
    {s \in SeqOf(Range(l) \ gone, Len(l)) :
        /\ Range(s) = Range(l) \ gone
        /\ \A i, j \in DOMAIN s : i < j => Before(l, s[i], s[j])}

\* The list after the callback of t: a streamer is created, streamers are
\* destroyed, or nothing happens.
Callback(t) ==
    {list}
        \cup {Add(list, new) :
                new \in {s \in SeqOf(StreamerTasks \ Listed, 2) :
                           t = Mongoose /\ IsInjective(s)}}
        \cup UNION {Destroy(list, gone) :
                gone \in {g \in SUBSET (StreamerTasks \cap Listed) :
                            t = Purger /\ event = "timeout"}}

\* The timers and the descriptors of the tasks in set, as periodic_task_new,
\* periodic_task_reset_timeout and the reinit functions leave them.
Arm(set) ==
    /\ \E time \in Times(set) :
          /\ tte' = [s \in Tasks |-> IF s \in set THEN time[s] ELSE tte[s]]
          /\ armed' = [s \in Tasks |-> IF s \in set THEN time[s] ELSE armed[s]]
    /\ waited' = [s \in Tasks |-> IF s \in set THEN 0 ELSE waited[s]]
    /\ \E fds \in SUBSET (set \cap Reinit) :
          watched' = ((watched \ set) \cap Range(list')) \cup fds

\* periodic_task_trigger: the callback, the timer set again, reinit; and the
\* tasks the callback creates.
Trigger(t) ==
    /\ list' \in Callback(t)
    /\ Arm((Range(list') \ Listed) \cup {t})

\* Mutant of Left: the difference stays in the 16 bits of a timeout.
LeftWrapped(t) == (tte[t] + 2^16 - slept) % 2^16
Left(t) == IF tte[t] > slept THEN tte[t] - slept ELSE 0

Due(t) == IF event = "timeout" THEN Left(t) = 0 ELSE t \in ready

\* The cursor moves on along the list as it is now; at its end poll returns.
Advance(next) ==
    /\ pos' = next
    /\ IF next = NULL
       THEN event' = "none" /\ slept' = 0 /\ ready' = {}
       ELSE UNCHANGED <<event, slept, ready>>
    /\ seen' = seen \cup {pos}
    /\ UNCHANGED due

\* Mutant of Visit: a task that is not due has its timer set again.
VisitResetting(t) ==
    /\ event # "none" /\ pos = t
    /\ IF Due(t)
       THEN Trigger(t) /\ expired' = IF event = "timeout" THEN t ELSE NULL
       ELSE /\ tte' = [tte EXCEPT ![t] = Period[t]]
            /\ expired' = NULL
            /\ UNCHANGED <<list, armed, waited, watched>>
    /\ Advance(Succ(list', t))

\* One iteration of a sweep.
Visit(t) ==
    /\ event # "none" /\ pos = t
    /\ IF Due(t)
       THEN Trigger(t) /\ expired' = IF event = "timeout" THEN t ELSE NULL
       ELSE /\ tte' = [tte EXCEPT ![t] = Left(t)]
            /\ expired' = NULL
            /\ UNCHANGED <<list, armed, waited, watched>>
    /\ Advance(Succ(list', t))

Sweep == \E t \in Tasks : Visit(t)

Next == SelectTimeout \/ SelectReady \/ SelectError \/ Sweep

Spec == Init /\ [][Next]_vars

\* The poll loop never stops, and again and again select finds no descriptor
\* ready before the earliest timer.
FairSpec ==
    /\ Spec
    /\ WF_vars(Sweep)
    /\ SF_vars(SelectTimeout)

-----------------------------------------------------------------------------
(* Properties. *)

\* The rest of the sweep: the tasks from the cursor to the end of the list.
Rest == {t \in Listed : pos \in Listed /\ (t = pos \/ Before(list, pos, t))}

\* list_for_each_entry in task_manager_poll: whatever the callbacks add to
\* the list and destroy, the cursor never rests on a task that was freed, the
\* sweep visits every task that was in the list and is still there, none
\* twice, and no task created on the way, of which select knew nothing.
SweepExact ==
    event # "none" =>
        /\ pos \in Rest
        /\ Rest = (due \cap Listed) \ seen

\* What is left of a task's timer, the running sweep included.
Remaining(t) == IF event # "none" /\ t \in due \ seen THEN Left(t) ELSE tte[t]

\* A task is charged only for time spent in select since its timer was set,
\* at most twice: rounding may count half a millisecond as a whole one.
TimersHonest == \A t \in Listed : Remaining(t) + waited[t] >= armed[t]

\* A task runs on a timeout only when half the time its timer was set to has
\* really passed in select: bursts of events cannot wind a timer down faster.
NeverTooEarly ==
    [][\A t \in Listed : expired' = t => waited[t] >= armed[t]]_vars

\* The purge is not starved by the other tasks' timers and events, as long as
\* select times out again and again.
PurgeRuns == []<>(expired = Purger)
=============================================================================
