--------------------------- MODULE TaskManagerProofs ---------------------------
(***************************************************************************)
(* The sweep and the timers of the task manager, for every number of       *)
(* tasks, every order in which the callbacks change the list, and every    *)
(* delay of select.                                                        *)
(***************************************************************************)
EXTENDS TaskManager, SequenceTheorems, WellFoundedInduction, TLAPS

-----------------------------------------------------------------------------
(* The order of a list without repetitions. *)

IsList(l) == l \in Seq(Tasks) /\ IsInjective(l)

LEMMA ListIs ==
    ASSUME NEW l, IsList(l)
    PROVE  /\ Len(l) \in Nat /\ DOMAIN l = 1..Len(l)
           /\ \A i \in 1..Len(l) : l[i] \in Tasks
           /\ \A i, j \in 1..Len(l) : l[i] = l[j] => i = j
           /\ \A t : t \in Range(l) <=> \E i \in 1..Len(l) : l[i] = t
           /\ Range(l) \subseteq Tasks
           /\ \A a, b : Before(l, a, b) <=>
                 \E i, j \in 1..Len(l) : i < j /\ l[i] = a /\ l[j] = b
<1>1. Len(l) \in Nat /\ DOMAIN l = 1..Len(l) /\ \A i \in 1..Len(l) : l[i] \in Tasks
  BY DEF IsList
<1>2. \A i, j \in 1..Len(l) : l[i] = l[j] => i = j
  BY <1>1 DEF IsList, IsInjective
<1>3. \A t : t \in Range(l) <=> \E i \in 1..Len(l) : l[i] = t
  BY <1>1 DEF Range
<1>4. \A a, b : Before(l, a, b) <=>
         \E i, j \in 1..Len(l) : i < j /\ l[i] = a /\ l[j] = b
  BY <1>1 DEF Before
<1> QED BY <1>1, <1>2, <1>3, <1>4

LEMMA OneOrder ==
    ASSUME NEW l, IsList(l), NEW a, NEW b, Before(l, a, b)
    PROVE  a # b /\ ~Before(l, b, a) /\ a \in Range(l) /\ b \in Range(l)
<1>1. PICK i \in 1..Len(l), j \in 1..Len(l) : i < j /\ l[i] = a /\ l[j] = b
  BY ListIs
<1>2. a # b
  BY <1>1, ListIs
<1>3. ASSUME NEW m \in 1..Len(l), NEW n \in 1..Len(l), m < n, l[m] = b, l[n] = a
      PROVE  FALSE
  <2>1. m = j /\ n = i
    BY <1>1, <1>3, ListIs
  <2> QED BY <1>1, <1>3, <2>1, ListIs
<1>4. ~Before(l, b, a)
  BY <1>3, ListIs
<1>5. a \in Range(l) /\ b \in Range(l)
  BY <1>1, ListIs
<1> QED BY <1>2, <1>4, <1>5

\* What follows a task is its successor and what follows that.
LEMMA SuccIs ==
    ASSUME NEW l, IsList(l), NEW t \in Range(l)
    PROVE  \/ Succ(l, t) = NULL /\ \A b : ~Before(l, t, b)
           \/ /\ Succ(l, t) \in Range(l) /\ Succ(l, t) # NULL
              /\ \A b : Before(l, t, b) <=>
                           b = Succ(l, t) \/ Before(l, Succ(l, t), b)
<1>1. PICK i \in 1..Len(l) : l[i] = t
  BY ListIs
<1>2. Len(l) \in Nat /\ i \in Nat /\ DOMAIN l = 1..Len(l)
  BY ListIs
<1> DEFINE c == CHOOSE j \in DOMAIN l : l[j] = t
<1>3. c \in 1..Len(l) /\ l[c] = t
  BY <1>1, <1>2
<1>4. c = i
  BY <1>1, <1>3, ListIs
<1>5. Succ(l, t) = IF i = Len(l) THEN NULL ELSE l[i + 1]
  <2>1. Succ(l, t) = IF c = Len(l) THEN NULL ELSE l[c + 1]
    BY DEF Succ
  <2> HIDE DEF c
  <2> QED BY <1>4, <2>1
<1> HIDE DEF c
<1>6. \A b : Before(l, t, b) <=> \E j \in 1..Len(l) : i < j /\ l[j] = b
  BY <1>1, ListIs
<1>7. CASE i = Len(l)
  BY <1>2, <1>5, <1>6, <1>7
<1>8. CASE i # Len(l)
  <2>1. i + 1 \in 1..Len(l) /\ Succ(l, t) = l[i + 1]
    <3>1. \A m \in Nat : i \in 1..m /\ i # m => i + 1 \in 1..m
      OBVIOUS
    <3>2. i + 1 \in 1..Len(l)
      BY <1>2, <1>8, <3>1
    <3> QED BY <1>5, <1>8, <3>2
  <2>2. Succ(l, t) \in Range(l) /\ Succ(l, t) # NULL
    BY <2>1, ListIs, TaskManagerAssumption
  <2>3. \A b : Before(l, Succ(l, t), b) <=>
           \E j \in 1..Len(l) : i + 1 < j /\ l[j] = b
    BY <2>1, ListIs
  <2>4. \A j \in 1..Len(l) : i < j <=> j = i + 1 \/ i + 1 < j
    BY <1>2
  <2> QED BY <1>6, <2>1, <2>2, <2>3, <2>4
<1> QED BY <1>7, <1>8

\* task_manager_add: the new tasks come before all others.
LEMMA AddIs ==
    ASSUME NEW l, IsList(l), NEW new \in SeqOf(StreamerTasks \ Range(l), 2),
           IsInjective(new)
    PROVE  /\ IsList(Add(l, new))
           /\ Range(Add(l, new)) = Range(l) \cup Range(new)
           /\ Range(new) \subseteq StreamerTasks \ Range(l)
           /\ \A b : \A a \in Range(l) :
                 Before(Add(l, new), a, b) <=> Before(l, a, b)
<1> DEFINE S == StreamerTasks \ Range(l)
           n == Len(new)
           m == Len(l)
           r == Reverse(new)
           c == Add(l, new)
<1>1. n \in Nat /\ new \in [1..n -> S]
  <2>1. PICK k \in 0..2 : new \in [1..k -> S]
    BY DEF SeqOf
  <2>2. Len(new) = k
    BY <2>1
  <2> QED BY <2>1, <2>2
<1>2. /\ Range(new) \subseteq S /\ \A i \in 1..n : new[i] \in Range(new)
      /\ \A t \in Range(new) : \E i \in 1..n : new[i] = t
  BY <1>1 DEF Range
<1>3. \A i, j \in 1..n : new[i] = new[j] => i = j
  BY <1>1 DEF IsInjective
<1>4. /\ r \in Seq(Tasks) /\ Len(r) = n
      /\ \A i \in 1..n : n - i + 1 \in 1..n /\ r[i] = new[n - i + 1]
  BY <1>1 DEF Reverse, StreamerTasks
<1>5. /\ m \in Nat /\ l \in Seq(Tasks) /\ DOMAIN l = 1..m
      /\ \A i \in 1..m : l[i] \in Range(l)
      /\ \A t \in Range(l) : \E i \in 1..m : l[i] = t
      /\ \A i, j \in 1..m : l[i] = l[j] => i = j
  BY ListIs DEF IsList
<1> HIDE DEF n, m, r, S
<1>6. /\ c \in Seq(Tasks) /\ Len(c) = n + m /\ DOMAIN c = 1..(n + m)
      /\ \A i \in 1..n : c[i] = r[i]
      /\ \A i \in 1..m : c[n + i] = l[i]
  <2>1. c = r \o l
    BY DEF c, Add, r
  <2>2. Len(l) = m
    BY DEF m
  <2> HIDE DEF c
  <2>3. c \in Seq(Tasks)
    BY <1>4, <1>5, <2>1
  <2>6. Len(c) = n + m
    <3>1. r \in Seq(Tasks) /\ l \in Seq(Tasks)
      BY <1>4, <1>5
    <3>2. Len(r \o l) = Len(r) + Len(l)
      BY <3>1, ConcatProperties
    <3> QED BY <1>4, <2>1, <2>2, <3>2
  <2>7. DOMAIN c = 1..(n + m)
    BY <2>3, <2>6, LenProperties
  <2>4. \A i \in 1..n : c[i] = r[i]
    BY <1>1, <1>4, <1>5, <2>1, <2>2
  <2>5. \A i \in 1..m : c[n + i] = l[i]
    BY <1>1, <1>4, <1>5, <2>1, <2>2
  <2> QED BY <2>3, <2>4, <2>5, <2>6, <2>7
<1> HIDE DEF c
<1>7. \A i \in 1..(n + m) : \/ i \in 1..n /\ c[i] = new[n - i + 1]
                            \/ i - n \in 1..m /\ c[i] = l[i - n]
  <2>1. \A i \in 1..(n + m) : i \in 1..n \/ (i - n \in 1..m /\ i = n + (i - n))
    BY <1>1, <1>5
  <2> QED BY <1>4, <1>6, <2>1
<1>8. IsInjective(c)
  <2>1. ASSUME NEW i \in 1..n, NEW j \in 1..m
        PROVE  new[n - i + 1] # l[j]
    BY <1>2, <1>4, <1>5 DEF S
  <2>2. ASSUME NEW i \in 1..(n + m), NEW j \in 1..(n + m), c[i] = c[j]
        PROVE  i = j
    <3>1. \A k \in 1..n : /\ n - k + 1 \in 1..n
                          /\ c[k] = new[n - k + 1]
      BY <1>4, <1>6
    <3>2. CASE i \in 1..n /\ j \in 1..n
      <4>1. n - i + 1 = n - j + 1
        BY <1>3, <2>2, <3>1, <3>2
      <4> QED BY <1>1, <3>2, <4>1
    <3>3. CASE i \notin 1..n /\ j \notin 1..n
      <4>1. i - n = j - n
        BY <1>5, <1>7, <2>2, <3>3
      <4> QED BY <1>1, <4>1
    <3>4. CASE i \in 1..n /\ j \notin 1..n
      <4>1. j - n \in 1..m /\ c[j] = l[j - n]
        BY <1>7, <3>4
      <4> QED BY <2>1, <2>2, <3>1, <3>4, <4>1
    <3>5. CASE i \notin 1..n /\ j \in 1..n
      <4>1. i - n \in 1..m /\ c[i] = l[i - n]
        BY <1>7, <3>5
      <4> QED BY <2>1, <2>2, <3>1, <3>5, <4>1
    <3> QED BY <3>2, <3>3, <3>4, <3>5
  <2> QED BY <1>6, <2>2 DEF IsInjective
<1>9. Range(c) = Range(l) \cup Range(new)
  <2>1. ASSUME NEW t \in Range(c)
        PROVE  t \in Range(l) \cup Range(new)
    <3>1. PICK i \in 1..(n + m) : c[i] = t
      BY <1>6 DEF Range
    <3> QED BY <1>2, <1>4, <1>5, <1>7, <3>1
  <2>2. ASSUME NEW i \in 1..n
        PROVE  new[i] \in Range(c)
    <3>1. n - i + 1 \in 1..n /\ n - (n - i + 1) + 1 = i /\ n - i + 1 \in 1..(n + m)
      BY <1>1, <1>5
    <3>2. c[n - i + 1] = new[i]
      BY <1>4, <1>6, <3>1
    <3> QED BY <1>6, <3>1, <3>2 DEF Range
  <2>3. ASSUME NEW i \in 1..m
        PROVE  l[i] \in Range(c)
    <3>1. n + i \in 1..(n + m)
      BY <1>1, <1>5
    <3> QED BY <1>6, <3>1 DEF Range
  <2> QED BY <1>2, <1>5, <2>1, <2>2, <2>3
<1>10. ASSUME NEW a \in Range(l), NEW b
       PROVE  Before(c, a, b) <=> Before(l, a, b)
  <2>1. ASSUME NEW i \in 1..m, NEW j \in 1..m, i < j, l[i] = a, l[j] = b
        PROVE  Before(c, a, b)
    <3>1. n + i \in 1..(n + m) /\ n + j \in 1..(n + m) /\ n + i < n + j
      BY <1>1, <1>5, <2>1
    <3> QED BY <1>6, <2>1, <3>1 DEF Before
  <2>2. ASSUME NEW i \in 1..(n + m), NEW j \in 1..(n + m), i < j, c[i] = a,
               c[j] = b
        PROVE  Before(l, a, b)
    <3>1. i \notin 1..n
      BY <1>2, <1>4, <1>6, <2>2 DEF S
    <3>2. j \notin 1..n
      BY <1>1, <1>5, <2>2, <3>1
    <3>3. /\ i - n \in 1..m /\ j - n \in 1..m
          /\ l[i - n] = a /\ l[j - n] = b
      BY <1>7, <2>2, <3>1, <3>2
    <3>4. i - n < j - n
      BY <1>1, <1>5, <2>2
    <3> QED BY <1>5, <3>3, <3>4 DEF Before
  <2> QED BY <1>5, <1>6, <2>1, <2>2 DEF Before
<1>11. IsList(c)
  BY <1>6, <1>8 DEF IsList
<1>12. Range(new) \subseteq StreamerTasks \ Range(l)
  BY <1>2 DEF S
<1> QED BY <1>9, <1>10, <1>11, <1>12 DEF c

\* task_manager_destroy_task: the rest keeps its order.
LEMMA DestroyIs ==
    ASSUME NEW l, IsList(l), NEW gone, NEW s \in Destroy(l, gone)
    PROVE  /\ IsList(s) /\ Range(s) = Range(l) \ gone
           /\ \A a, b \in Range(s) : Before(s, a, b) <=> Before(l, a, b)
<1>1. /\ Range(s) = Range(l) \ gone
      /\ \A i, j \in DOMAIN s : i < j => Before(l, s[i], s[j])
  BY DEF Destroy
<1>2. PICK m \in Nat : s \in [1..m -> Range(l) \ gone]
  BY ListIs DEF Destroy, SeqOf
<1>3. \A i \in 1..m : s[i] \in Range(s)
  BY <1>2 DEF Range
<1>4. \A i, j \in 1..m : s[i] = s[j] => i = j
  <2>1. ASSUME NEW i \in 1..m, NEW j \in 1..m, s[i] = s[j], i < j
        PROVE  FALSE
    BY <1>1, <1>2, <2>1, OneOrder
  <2> QED BY <1>2, <2>1
<1>5. s \in Seq(Tasks)
  BY <1>2, ListIs
<1>6. IsList(s)
  BY <1>2, <1>4, <1>5 DEF IsList, IsInjective
<1>7. ASSUME NEW a \in Range(s), NEW b \in Range(s), Before(l, a, b)
      PROVE  Before(s, a, b)
  <2>1. PICK i \in 1..m, j \in 1..m : s[i] = a /\ s[j] = b
    BY <1>2 DEF Range
  <2>2. i # j
    BY <1>7, <2>1, OneOrder
  <2>3. ~(j < i)
    BY <1>1, <1>2, <1>7, <2>1, OneOrder
  <2>4. i < j
    BY <1>2, <2>2, <2>3
  <2> QED BY <1>2, <2>1, <2>4 DEF Before
<1>8. ASSUME NEW a, NEW b, Before(s, a, b)
      PROVE  Before(l, a, b)
  BY <1>1, <1>8 DEF Before
<1> QED BY <1>1, <1>6, <1>7, <1>8

-----------------------------------------------------------------------------
(* What a callback makes of the list. *)

\* The tasks main created are behind all others.
BootLast(l) ==
    \A a, b \in Tasks : Before(l, a, b) /\ a \in Range(Boot) => b \in Range(Boot)

\* The sweep has visited the tasks of the poll up to the cursor, and has the
\* rest of the list before it.
SweepInv ==
    /\ Range(Boot) \subseteq Listed /\ BootLast(list)
    /\ event # "none" => pos \in Listed /\ Rest = due \ seen

LEMMA BootTasks ==
    /\ Range(Boot) \subseteq Tasks /\ Mongoose \in Tasks /\ Purger \in Tasks
    /\ StreamerTasks \cap Range(Boot) = {}
BY TaskManagerAssumption DEF Range, StreamerTasks

\* A callback leaves the rest of the sweep alone.
LEMMA CallbackIs ==
    ASSUME TypeOK, SweepInv, NEW t \in Listed, NEW l \in Callback(t)
    PROVE  /\ IsList(l) /\ Range(Boot) \subseteq Range(l) /\ BootLast(l)
           /\ t \in Range(l)
           /\ \A b : Before(l, t, b) <=> Before(list, t, b)
<1> USE DEF Listed
<1>1. IsList(list)
  BY DEF TypeOK, IsList
<1>2. CASE l = list
  BY <1>1, <1>2 DEF SweepInv
<1>3. ASSUME NEW new \in SeqOf(StreamerTasks \ Listed, 2), IsInjective(new),
             l = Add(list, new)
      PROVE  /\ IsList(l) /\ Range(Boot) \subseteq Range(l) /\ BootLast(l)
             /\ t \in Range(l)
             /\ \A b : Before(l, t, b) <=> Before(list, t, b)
  <2>1. /\ IsList(l) /\ Range(l) = Range(list) \cup Range(new)
        /\ Range(new) \subseteq StreamerTasks \ Range(list)
        /\ \A b : \A a \in Range(list) : Before(l, a, b) <=> Before(list, a, b)
    BY <1>1, <1>3, AddIs
  <2>2. BootLast(l)
    BY <2>1 DEF BootLast, SweepInv
  <2> QED BY <2>1, <2>2 DEF SweepInv
<1>4. ASSUME NEW gone \in SUBSET (StreamerTasks \cap Listed), t = Purger,
             l \in Destroy(list, gone)
      PROVE  /\ IsList(l) /\ Range(Boot) \subseteq Range(l) /\ BootLast(l)
             /\ t \in Range(l)
             /\ \A b : Before(l, t, b) <=> Before(list, t, b)
  <2>1. /\ IsList(l) /\ Range(l) = Range(list) \ gone
        /\ \A a, b \in Range(l) : Before(l, a, b) <=> Before(list, a, b)
    BY <1>1, <1>4, DestroyIs
  <2>2. Range(Boot) \cap gone = {} /\ t \in Range(Boot)
    BY <1>4, TaskManagerAssumption DEF StreamerTasks
  <2>3. Range(Boot) \subseteq Range(l) /\ t \in Range(l)
    BY <2>1, <2>2 DEF SweepInv
  <2>4. \A a, b : Before(l, a, b) => a \in Range(l) /\ b \in Range(l)
    BY <2>1, OneOrder
  <2>5. BootLast(l)
    BY <2>1, <2>4 DEF BootLast, SweepInv
  <2>6. ASSUME NEW b, Before(list, t, b)
        PROVE  b \in Range(l)
    <3>1. b \in Range(list)
      BY <1>1, <2>6, OneOrder
    <3>2. t \in Tasks /\ b \in Tasks
      BY <1>1, <3>1, ListIs
    <3>3. b \in Range(Boot)
      BY <2>2, <2>6, <3>2 DEF BootLast, SweepInv
    <3> QED BY <2>3, <3>3
  <2> QED BY <2>1, <2>3, <2>4, <2>5, <2>6
<1> QED BY <1>2, <1>3, <1>4 DEF Callback

-----------------------------------------------------------------------------
(* Times. *)

LEMMA TimeoutsAre == Timeouts \subseteq Nat
BY TaskManagerAssumption DEF Timeouts

\* A timer may always be set to less.
LEMMA LessTime ==
    ASSUME NEW time \in Timeouts, NEW less \in Nat, less <= time
    PROVE  less \in Timeouts
BY TaskManagerAssumption DEF Timeouts

LEMMA PeriodIs ==
    ASSUME NEW t \in Tasks
    PROVE  Period[t] \in Timeouts /\ Period[t] \in Nat
BY TaskManagerAssumption DEF Timeouts

LEMMA TypedTimes ==
    ASSUME TypeOK, NEW t \in Tasks
    PROVE  tte[t] \in Nat /\ armed[t] \in Nat
<1>1. tte[t] \in Timeouts /\ armed[t] \in Timeouts
  BY DEF TypeOK
<1> QED BY <1>1, TimeoutsAre

LEMMA TimesAre ==
    ASSUME NEW set \in SUBSET Tasks, NEW time \in Times(set), NEW t \in set
    PROVE  time[t] \in Timeouts /\ (t \notin Reinit => time[t] = Period[t])
<1>1. /\ Period[t] \in 1..MaxTimeout
      /\ Shortest \in Nat /\ MaxTimeout \in Nat
  BY TaskManagerAssumption
<1>2. time[t] \in Rearmed(t)
  BY DEF Times
<1>3. IF t \in Reinit THEN time[t] \in Shortest..MaxTimeout
      ELSE time[t] = Period[t]
  BY <1>2 DEF Rearmed
<1> QED BY <1>1, <1>3 DEF Timeouts

LEMMA LeastIs ==
    ASSUME NEW S \in SUBSET Nat, S # {}
    PROVE  Min(S) \in S /\ \A y \in S : Min(S) <= y
<1>1. PICK x \in S : \A y \in S : <<y, x>> \notin OpToRel(<, Nat)
  BY WFMin, NatLessThanWellFounded
<1>2. \A y \in S : ~(y < x)
  BY <1>1 DEF OpToRel
<1>3. \A y \in S : x <= y
  BY <1>2
<1> QED BY <1>1, <1>3 DEF Min

LEMMA MinToType ==
    ASSUME TypeOK
    PROVE  MinTo \in Nat
<1>1. Listed \subseteq Tasks
  BY ListIs DEF TypeOK, IsList, Listed
<1>2. {PollTimeout} \cup {tte[t] : t \in Listed} \in SUBSET Nat
  BY <1>1, TypedTimes, TaskManagerAssumption
<1> QED BY <1>2, LeastIs DEF MinTo

LEMMA ElapsedIs ==
    ASSUME NEW d \in Nat
    PROVE  Elapsed(d) \in Nat /\ Elapsed(d) <= d
BY DEF Elapsed

LEMMA LeftIs ==
    ASSUME TypeOK, NEW t \in Tasks
    PROVE  Left(t) \in Nat /\ Left(t) <= tte[t]
<1>1. tte[t] \in Nat /\ slept \in Nat
  BY TypedTimes DEF TypeOK
<1> QED BY <1>1 DEF Left

\* Every wait is so many half milliseconds.
LEMMA Waits ==
    ASSUME TypeOK, SelectTimeout \/ SelectReady \/ SelectError
    PROVE  \E d \in Nat :
              /\ Wait(d)
              /\ \/ UNCHANGED <<event, pos, slept, ready, seen, due>>
                 \/ \E e \in {"timeout", "ready"} :
                       \E fds \in SUBSET (watched \cap Listed) :
                          StartSweep(d, e, fds)
<1>1. 2 * MinTo \in Nat /\ 2 * MinTo + Overrun \in Nat
  BY MinToType, TaskManagerAssumption
<1>2. CASE SelectTimeout
  <2>1. PICK d \in (2 * MinTo)..(2 * MinTo + Overrun) :
           Wait(d) /\ StartSweep(d, "timeout", {})
    BY <1>2 DEF SelectTimeout
  <2>2. d \in Nat
    BY <1>1, <2>1
  <2> QED BY <2>1, <2>2
<1>3. CASE SelectReady
  <2>1. PICK d \in 0..(2 * MinTo + Overrun), fds \in SUBSET (watched \cap Listed) :
           Wait(d) /\ StartSweep(d, "ready", fds)
    BY <1>3 DEF SelectReady
  <2>2. d \in Nat
    BY <1>1, <2>1
  <2> QED BY <2>1, <2>2
<1>4. CASE SelectError
  <2>1. PICK d \in 0..(2 * MinTo) :
           Wait(d) /\ UNCHANGED <<event, pos, slept, ready, seen, due>>
    BY <1>4 DEF SelectError
  <2>2. d \in Nat
    BY <1>1, <2>1
  <2> QED BY <2>1, <2>2
<1> QED BY <1>2, <1>3, <1>4

\* The shorter of a wait and what the timer was set to.
LEMMA WaitedIs ==
    ASSUME TypeOK, NEW d \in Nat, Wait(d), NEW t \in Tasks
    PROVE  /\ waited'[t] \in Nat
           /\ t \in Listed => \/ waited'[t] = armed[t]
                              \/ waited'[t] = waited[t] + d
<1>1. waited[t] \in Nat /\ waited[t] + d \in Nat /\ armed[t] \in Nat
  BY TypedTimes DEF TypeOK
<1>2. Min({waited[t] + d, armed[t]}) \in {waited[t] + d, armed[t]}
  BY <1>1, LeastIs
<1>3. waited'[t] = IF t \in Listed THEN Min({waited[t] + d, armed[t]})
                   ELSE waited[t]
  BY DEF Wait
<1> QED BY <1>1, <1>2, <1>3

-----------------------------------------------------------------------------
(* The steps. *)

\* What a visit does to the timers: nothing but charge the task, or set it
\* and the new tasks again.
Visited(t) ==
    \/ /\ ~Due(t) /\ list' = list
       /\ tte' = [tte EXCEPT ![t] = Left(t)]
       /\ UNCHANGED <<armed, waited, watched>>
       /\ expired' = NULL
    \/ /\ Due(t) /\ list' \in Callback(t)
       /\ Arm((Range(list') \ Listed) \cup {t})
       /\ expired' = IF event = "timeout" THEN t ELSE NULL

LEMMA VisitIs ==
    ASSUME TypeOK, SweepInv, NEW t \in Tasks, Visit(t)
    PROVE  /\ Visited(t) /\ list' \in Callback(t)
           /\ t \in Listed /\ pos = t /\ event # "none"
           /\ Advance(Succ(list', t))
BY DEF Visit, Visited, Trigger, SweepInv, Callback

\* Setting timers again.
LEMMA ArmIs ==
    ASSUME TypeOK, NEW set \in SUBSET Tasks, Arm(set)
    PROVE  /\ tte' \in [Tasks -> Timeouts] /\ armed' \in [Tasks -> Timeouts]
           /\ waited' \in [Tasks -> Nat] /\ watched' \subseteq Reinit
           /\ \A t \in Tasks \ Reinit : tte'[t] <= Period[t]
           /\ \A t \in set : tte'[t] = armed'[t] /\ waited'[t] = 0
           /\ \A t \in Tasks \ set : /\ tte'[t] = tte[t] /\ armed'[t] = armed[t]
                                     /\ waited'[t] = waited[t]
<1>1. PICK time \in Times(set) :
         /\ tte' = [s \in Tasks |-> IF s \in set THEN time[s] ELSE tte[s]]
         /\ armed' = [s \in Tasks |-> IF s \in set THEN time[s] ELSE armed[s]]
  BY DEF Arm
<1>2. \A s \in set : time[s] \in Timeouts
  BY TimesAre
<1>7. \A s \in set : s \notin Reinit => time[s] <= Period[s]
  <2> SUFFICES ASSUME NEW s \in set, s \notin Reinit
               PROVE  time[s] <= Period[s]
    OBVIOUS
  <2>1. time[s] = Period[s]
    BY TimesAre
  <2>2. Period[s] \in Nat
    BY PeriodIs
  <2> QED BY <2>1, <2>2
<1>3. /\ tte \in [Tasks -> Timeouts] /\ armed \in [Tasks -> Timeouts]
      /\ waited \in [Tasks -> Nat]
      /\ \A t \in Tasks \ Reinit : tte[t] <= Period[t]
  BY DEF TypeOK
<1>4. /\ tte' \in [Tasks -> Timeouts] /\ armed' \in [Tasks -> Timeouts]
      /\ \A t \in Tasks \ Reinit : tte'[t] <= Period[t]
      /\ \A t \in set : tte'[t] = armed'[t]
      /\ \A t \in Tasks \ set : tte'[t] = tte[t] /\ armed'[t] = armed[t]
  <2>1. \A t \in Tasks :
           IF t \in set THEN tte'[t] = time[t] /\ armed'[t] = time[t]
           ELSE tte'[t] = tte[t] /\ armed'[t] = armed[t]
    BY <1>1
  <2>2. \A t \in Tasks : tte'[t] \in Timeouts /\ armed'[t] \in Timeouts
    <3>1. /\ \A t \in set : time[t] \in Timeouts
          /\ \A t \in Tasks : tte[t] \in Timeouts /\ armed[t] \in Timeouts
      BY <1>2, <1>3
    <3> QED BY <2>1, <3>1
  <2>3. tte' \in [Tasks -> Timeouts] /\ armed' \in [Tasks -> Timeouts]
    <3> QED BY <1>1, <2>2
  <2>4. \A t \in Tasks \ Reinit : tte'[t] <= Period[t]
    BY <1>3, <1>7, <2>1
  <2> QED BY <2>1, <2>3, <2>4
<1>5. waited' = [s \in Tasks |-> IF s \in set THEN 0 ELSE waited[s]]
  BY DEF Arm
<1>6. /\ waited' \in [Tasks -> Nat] /\ \A t \in set : waited'[t] = 0
      /\ \A t \in Tasks \ set : waited'[t] = waited[t]
  BY <1>3, <1>5
<1>8. watched' \subseteq Reinit
  BY DEF Arm, TypeOK
<1> QED BY <1>4, <1>6, <1>8

LEMMA TypeInit == Init => TypeOK
<1> SUFFICES ASSUME Init PROVE TypeOK
  OBVIOUS
<1>1. PICK time \in Times(Range(Boot)) :
         armed = [t \in Tasks |-> IF t \in Range(Boot) THEN time[t] ELSE Period[t]]
  BY DEF Init
<1>2. \A t \in Range(Boot) : /\ time[t] \in Timeouts
                             /\ t \notin Reinit => time[t] = Period[t]
  <2> DEFINE boot == Range(Boot)
  <2>1. boot \in SUBSET Tasks /\ time \in Times(boot)
    BY <1>1, BootTasks
  <2> HIDE DEF boot
  <2>2. \A t \in boot : /\ time[t] \in Timeouts
                        /\ t \notin Reinit => time[t] = Period[t]
    BY <2>1, TimesAre
  <2> QED BY <2>2 DEF boot
<1>3. /\ armed \in [Tasks -> Timeouts]
      /\ \A t \in Tasks \ Reinit : armed[t] <= Period[t]
  <2>2. ASSUME NEW t \in Tasks
        PROVE  /\ armed[t] \in Timeouts
               /\ t \notin Reinit => armed[t] <= Period[t]
    <3>1. Period[t] \in Timeouts /\ Period[t] <= Period[t]
      BY PeriodIs
    <3>2. armed[t] = IF t \in Range(Boot) THEN time[t] ELSE Period[t]
      BY <1>1
    <3> QED BY <1>2, <3>1, <3>2
  <2> QED BY <1>1, <2>2
<1>4. list \in Seq(Tasks) /\ IsInjective(list)
  BY TaskManagerAssumption DEF Init
<1> QED BY <1>3, <1>4 DEF Init, TypeOK

LEMMA TypeStep ==
    ASSUME TypeOK, SweepInv, [Next]_vars
    PROVE  TypeOK'
<1>1. IsList(list) /\ Listed \subseteq Tasks
  BY ListIs DEF TypeOK, IsList, Listed
<1>2. CASE SelectTimeout \/ SelectReady \/ SelectError
  <2>1. PICK d \in Nat :
           /\ Wait(d)
           /\ \/ UNCHANGED <<event, pos, slept, ready, seen, due>>
              \/ \E e \in {"timeout", "ready"} :
                    \E fds \in SUBSET (watched \cap Listed) :
                       StartSweep(d, e, fds)
    BY <1>2, Waits
  <2>2. waited' \in [Tasks -> Nat]
    <3>1. \A t \in Tasks : waited'[t] \in Nat
      BY <2>1, WaitedIs
    <3> QED BY <2>1, <3>1 DEF Wait
  <2>3. /\ UNCHANGED <<list, tte, watched, armed>> /\ expired' = NULL
    BY <2>1 DEF Wait
  <2>4. ASSUME NEW e \in {"timeout", "ready"},
               NEW fds \in SUBSET (watched \cap Listed), StartSweep(d, e, fds)
        PROVE  /\ event' \in {"none", "timeout", "ready"} /\ slept' \in Nat
               /\ pos' \in Tasks \cup {NULL} /\ ready' \subseteq Reinit
               /\ seen' \subseteq Tasks /\ due' \subseteq Tasks
    <3>1. list # <<>>
      BY <1>1, TaskManagerAssumption, ListIs DEF SweepInv, Listed
    <3>2. pos' \in Tasks
      BY <1>1, <2>4, <3>1 DEF StartSweep, IsList
    <3> QED BY <1>1, <2>4, <3>2, ElapsedIs DEF StartSweep, TypeOK
  <2>5. /\ event' \in {"none", "timeout", "ready"} /\ slept' \in Nat
        /\ pos' \in Tasks \cup {NULL} /\ ready' \subseteq Reinit
        /\ seen' \subseteq Tasks /\ due' \subseteq Tasks
    BY <2>1, <2>4 DEF TypeOK
  <2> QED BY <2>2, <2>3, <2>5 DEF TypeOK
<1>3. ASSUME NEW t \in Tasks, Visit(t)
      PROVE  TypeOK'
  <2>1. /\ Visited(t) /\ list' \in Callback(t) /\ t \in Listed
        /\ pos = t /\ Advance(Succ(list', t))
    BY <1>3, VisitIs
  <2>2. IsList(list') /\ t \in Range(list') /\ Range(list') \subseteq Tasks
    BY <2>1, CallbackIs, ListIs
  <2>3. pos' \in Tasks \cup {NULL}
    BY <2>1, <2>2, SuccIs DEF Advance
  <2>4. /\ event' \in {"none", "timeout", "ready"} /\ slept' \in Nat
        /\ ready' \subseteq Reinit /\ seen' \subseteq Tasks /\ due' \subseteq Tasks
    BY <2>1 DEF Advance, TypeOK
  <2>5. /\ tte' \in [Tasks -> Timeouts] /\ armed' \in [Tasks -> Timeouts]
        /\ waited' \in [Tasks -> Nat] /\ watched' \subseteq Reinit
        /\ \A s \in Tasks \ Reinit : tte'[s] <= Period[s]
    <3>1. CASE tte' = [tte EXCEPT ![t] = Left(t)] /\ UNCHANGED <<armed, waited, watched>>
      <4>1. /\ Left(t) \in Nat /\ Left(t) <= tte[t]
            /\ tte[t] \in Timeouts /\ tte[t] \in Nat /\ Period[t] \in Nat
            /\ t \notin Reinit => tte[t] <= Period[t]
        BY LeftIs, PeriodIs, TimeoutsAre DEF TypeOK
      <4>2. /\ Left(t) \in Timeouts
            /\ t \notin Reinit => Left(t) <= Period[t]
        <5>1. Left(t) \in Timeouts
          BY <4>1, LessTime
        <5>2. t \notin Reinit => Left(t) <= Period[t]
          BY <4>1
        <5> QED BY <5>1, <5>2
      <4>3. /\ tte \in [Tasks -> Timeouts] /\ UNCHANGED <<armed, waited, watched>>
            /\ tte' = [tte EXCEPT ![t] = Left(t)]
        BY <3>1 DEF TypeOK
      <4>4. tte' \in [Tasks -> Timeouts]
        BY <4>2, <4>3
      <4>5. \A s \in Tasks \ Reinit : tte'[s] <= Period[s]
        BY <4>2, <4>3 DEF TypeOK
      <4> QED BY <4>3, <4>4, <4>5 DEF TypeOK
    <3>2. CASE Arm((Range(list') \ Listed) \cup {t})
      BY <2>2, <3>2, ArmIs
    <3> QED BY <2>1, <3>1, <3>2 DEF Visited
  <2>6. expired' \in Tasks \cup {NULL}
    BY <2>1 DEF Visited
  <2> QED BY <2>2, <2>3, <2>4, <2>5, <2>6 DEF TypeOK, IsList
<1>4. CASE UNCHANGED vars
  BY <1>4 DEF vars, TypeOK
<1> QED BY <1>2, <1>3, <1>4 DEF Next, Sweep

LEMMA SweepInit == Init => SweepInv
<1> SUFFICES ASSUME Init PROVE SweepInv
  OBVIOUS
<1>1. list = Boot /\ IsList(Boot) /\ event = "none"
  BY TaskManagerAssumption DEF Init, IsList
<1>2. BootLast(Boot)
  BY <1>1, OneOrder DEF BootLast
<1> QED BY <1>1, <1>2 DEF SweepInv, Listed

LEMMA SweepStep ==
    ASSUME TypeOK, SweepInv, TypeOK', [Next]_vars
    PROVE  SweepInv'
<1>1. IsList(list)
  BY DEF TypeOK, IsList
<1>2. CASE SelectTimeout \/ SelectReady \/ SelectError
  <2>1. PICK d \in Nat :
           /\ Wait(d)
           /\ \/ UNCHANGED <<event, pos, slept, ready, seen, due>>
              \/ \E e \in {"timeout", "ready"} :
                    \E fds \in SUBSET (watched \cap Listed) :
                       StartSweep(d, e, fds)
    BY <1>2, Waits
  <2>2. list' = list /\ event = "none"
    BY <2>1 DEF Wait
  <2>3. CASE UNCHANGED <<event, pos, slept, ready, seen, due>>
    BY <2>2, <2>3 DEF SweepInv, Listed
  <2>4. CASE \E e, fds : StartSweep(d, e, fds)
    <3>1. pos' = Head(list) /\ seen' = {} /\ due' = Listed
      BY <2>4 DEF StartSweep
    <3>2. list # <<>>
      BY <1>1, TaskManagerAssumption, ListIs DEF SweepInv, Listed
    <3>3. Len(list) \in Nat /\ 1 \in 1..Len(list) /\ pos' = list[1]
      BY <1>1, <3>1, <3>2 DEF IsList
    <3>4. pos' \in Listed
      BY <1>1, <3>3, ListIs DEF Listed
    <3>5. ASSUME NEW t \in Listed
          PROVE  t = pos' \/ Before(list, pos', t)
      <4>1. PICK i \in 1..Len(list) : list[i] = t
        BY <1>1, ListIs DEF Listed
      <4>2. i = 1 \/ 1 < i
        BY <3>3, <4>1
      <4> QED BY <1>1, <3>3, <4>1, <4>2, ListIs
    <3>6. Rest' = Listed
      BY <2>2, <3>4, <3>5 DEF Rest, Listed
    <3> QED BY <2>2, <3>1, <3>4, <3>6 DEF SweepInv, Listed
  <2> QED BY <2>1, <2>3, <2>4
<1>3. ASSUME NEW t \in Tasks, Visit(t)
      PROVE  SweepInv'
  <2>1. /\ list' \in Callback(t) /\ t \in Listed /\ pos = t /\ event # "none"
        /\ Advance(Succ(list', t))
    BY <1>3, VisitIs
  <2>2. /\ IsList(list') /\ Range(Boot) \subseteq Range(list')
        /\ BootLast(list') /\ t \in Range(list')
        /\ \A b : Before(list', t, b) <=> Before(list, t, b)
    BY <2>1, CallbackIs
  <2>3. CASE Succ(list', t) = NULL
    BY <2>1, <2>2, <2>3 DEF Advance, SweepInv, Listed
  <2>4. CASE Succ(list', t) # NULL
    <3>1. /\ pos' = Succ(list', t) /\ seen' = seen \cup {t} /\ due' = due
      BY <2>1, <2>4 DEF Advance
    <3>2. /\ pos' \in Range(list')
          /\ \A b : Before(list', t, b) <=> b = pos' \/ Before(list', pos', b)
      BY <2>2, <2>4, <3>1, SuccIs
    <3>3. Rest' = {b \in Range(list') : Before(list', t, b)}
      BY <3>2 DEF Rest, Listed
    <3>4. Rest' = {b \in Listed : Before(list, t, b)}
      BY <1>1, <2>2, <3>3, OneOrder DEF Listed
    <3>5. ~Before(list, t, t)
      BY <1>1, OneOrder
    <3>6. Rest = {b \in Listed : b = t \/ Before(list, t, b)}
      BY <2>1 DEF Rest
    <3>7. Rest' = Rest \ {t}
      BY <2>1, <3>4, <3>5, <3>6
    <3>8. Rest' = due' \ seen'
      BY <2>1, <3>1, <3>7 DEF SweepInv
    <3> QED BY <2>2, <3>2, <3>8 DEF SweepInv, Listed
  <2> QED BY <2>3, <2>4
<1>4. CASE UNCHANGED vars
  BY <1>4 DEF vars, SweepInv, Listed, Rest
<1> QED BY <1>2, <1>3, <1>4 DEF Next, Sweep

TaskInv == TypeOK /\ SweepInv

LEMMA TaskInductive == Spec => []TaskInv
<1>1. Init => TaskInv
  BY TypeInit, SweepInit DEF TaskInv
<1>2. TaskInv /\ [Next]_vars => TaskInv'
  BY TypeStep, SweepStep DEF TaskInv
<1> QED BY <1>1, <1>2, PTL DEF Spec

\* The list of tasks has no repetitions, a time that was subtracted from a
\* timer never takes it out of the range of a timeout, and a task without a
\* reinit function never waits for more than its period; the other timers are
\* whatever mongoose or the streaming library asked for.
THEOREM TaskTypes == Spec => []TypeOK
<1>1. TaskInv => TypeOK
  BY DEF TaskInv
<1> QED BY TaskInductive, <1>1, PTL

\* list_for_each_entry in task_manager_poll: whatever the callbacks add to
\* and take from the list, the cursor rests on a task of the list, and the
\* sweep has before it exactly the tasks of the poll it has not visited.
THEOREM SweepsExact == Spec => []SweepExact
<1>1. TaskInv => SweepExact
  BY DEF TaskInv, SweepInv, SweepExact, Rest
<1> QED BY TaskInductive, <1>1, PTL

-----------------------------------------------------------------------------
(* The timers. *)

LEMMA TimersStep ==
    ASSUME TaskInv, TaskInv', TimersHonest, [Next]_vars
    PROVE  TimersHonest'
<1> USE DEF TaskInv
<1>1. IsList(list) /\ Listed \subseteq Tasks
  BY ListIs DEF TypeOK, IsList, Listed
<1>2. \A t \in Tasks : tte[t] \in Nat /\ armed[t] \in Nat /\ waited[t] \in Nat
  BY TypedTimes DEF TypeOK
<1>3. CASE SelectTimeout \/ SelectReady \/ SelectError
  <2>1. PICK d \in Nat :
           /\ Wait(d)
           /\ \/ UNCHANGED <<event, pos, slept, ready, seen, due>>
              \/ \E e \in {"timeout", "ready"} :
                    \E fds \in SUBSET (watched \cap Listed) :
                       StartSweep(d, e, fds)
    BY <1>3, Waits
  <2>2. event = "none" /\ UNCHANGED <<list, tte, armed>>
    BY <2>1 DEF Wait
  <2>3. event' = "none" \/ slept' = Elapsed(d)
    BY <2>1, <2>2 DEF StartSweep
  <2> SUFFICES ASSUME NEW t \in Listed
               PROVE  (Remaining(t) + waited[t] >= armed[t])'
    BY <2>2 DEF TimersHonest, Listed
  <2>4. tte[t] + waited[t] >= armed[t]
    BY <2>2 DEF TimersHonest, Remaining
  <2>5. waited'[t] \in Nat /\ (waited'[t] = armed[t] \/ waited'[t] = waited[t] + d)
    BY <1>1, <2>1, WaitedIs
  <2>6. (Remaining(t) = tte[t])' \/ (Remaining(t) = Left(t) /\ slept = Elapsed(d))'
    BY <2>3 DEF Remaining
  <2>7. Elapsed(d) \in Nat /\ Elapsed(d) <= d
    BY ElapsedIs
  <2>8. ASSUME NEW x \in Nat, x + d >= tte[t]
        PROVE  x + waited'[t] >= armed[t]
    BY <1>1, <1>2, <2>4, <2>5, <2>8
  <2> QED BY <1>1, <1>2, <2>2, <2>6, <2>7, <2>8 DEF Left
<1>4. ASSUME NEW t \in Tasks, Visit(t)
      PROVE  TimersHonest'
  <2>1. /\ Visited(t) /\ list' \in Callback(t) /\ t \in Listed
        /\ pos = t /\ event # "none" /\ Advance(Succ(list', t))
    BY <1>4, VisitIs
  <2>2. /\ IsList(list') /\ t \in Range(list') /\ Listed' \subseteq Tasks
        /\ \A b : Before(list', t, b) <=> Before(list, t, b)
    BY <2>1, CallbackIs, ListIs DEF Listed
  <2>3. Rest = due \ seen /\ t \in Rest /\ Rest \subseteq Listed
    BY <2>1 DEF SweepInv, Rest
  <2>4. due' = due /\ seen' = seen \cup {t}
    BY <2>1 DEF Advance
  <2>5. \/ event' = "none" /\ \A b : ~Before(list, t, b)
        \/ event' # "none" /\ slept' = slept
    <3>1. Succ(list', t) = NULL => \A b : ~Before(list', t, b)
      BY <2>2, SuccIs
    <3> QED BY <2>1, <2>2, <3>1 DEF Advance
  <2>6. ASSUME NEW s \in Listed, s # t, tte'[s] = tte[s]
        PROVE  Remaining(s)' = Remaining(s)
    <3>1. CASE event' = "none" /\ \A b : ~Before(list, t, b)
      <4>1. s \notin Rest
        BY <2>1, <2>6, <3>1 DEF Rest
      <4> QED BY <2>3, <2>6, <3>1, <4>1 DEF Remaining
    <3>2. CASE event' # "none" /\ slept' = slept
      BY <2>1, <2>4, <2>6, <3>2 DEF Remaining, Left
    <3> QED BY <2>5, <3>1, <3>2
  <2>7. ASSUME NEW s, s = t \/ s \notin Listed
        PROVE  Remaining(s)' = tte'[s]
    BY <2>3, <2>4, <2>7 DEF Remaining
  <2> SUFFICES ASSUME NEW s \in Listed'
               PROVE  (Remaining(s) + waited[s] >= armed[s])'
    BY DEF TimersHonest
  <2>8. s \in Tasks
    BY <2>2
  <2>9. CASE Arm((Range(list') \ Listed) \cup {t}) /\ (s = t \/ s \notin Listed)
    <3>1. tte'[s] = armed'[s] /\ waited'[s] = 0
      BY <2>2, <2>8, <2>9, ArmIs DEF Listed
    <3>2. armed'[s] \in Nat
      BY <2>8, TimeoutsAre DEF TypeOK
    <3> QED BY <2>7, <2>9, <3>1, <3>2
  <2>10. CASE s \in Listed /\ s # t
    <3>1. tte'[s] = tte[s] /\ armed'[s] = armed[s] /\ waited'[s] = waited[s]
      <4>1. CASE Arm((Range(list') \ Listed) \cup {t})
        BY <2>2, <2>8, <2>10, <4>1, ArmIs DEF Listed
      <4>2. CASE tte' = [tte EXCEPT ![t] = Left(t)] /\ UNCHANGED <<armed, waited>>
        BY <2>8, <2>10, <4>2 DEF TypeOK
      <4> QED BY <2>1, <4>1, <4>2 DEF Visited
    <3>2. Remaining(s) + waited[s] >= armed[s]
      BY <2>10 DEF TimersHonest
    <3> QED BY <2>6, <2>10, <3>1, <3>2
  <2>11. CASE /\ tte' = [tte EXCEPT ![t] = Left(t)]
              /\ UNCHANGED <<list, armed, waited>> /\ s = t
    <3>1. Remaining(t) = Left(t) /\ tte'[t] = Left(t)
      BY <2>1, <2>3, <2>11 DEF Remaining, TypeOK
    <3>2. Remaining(t) + waited[t] >= armed[t]
      BY <2>1 DEF TimersHonest
    <3> QED BY <2>7, <2>11, <3>1, <3>2
  <2> QED BY <2>1, <2>9, <2>10, <2>11 DEF Visited, Listed
<1>5. CASE UNCHANGED vars
  BY <1>5 DEF vars, TimersHonest, Remaining, Left, Listed
<1> QED BY <1>3, <1>4, <1>5 DEF Next, Sweep

LEMMA TimersInductive == Spec => []TimersHonest
<1>1. Init => TimersHonest
  <2> SUFFICES ASSUME Init, NEW t \in Listed
               PROVE  Remaining(t) + waited[t] >= armed[t]
    BY DEF TimersHonest
  <2>1. t \in Tasks
    BY BootTasks DEF Init, Listed
  <2>2. Remaining(t) = armed[t] /\ waited[t] = 0
    BY <2>1 DEF Init, Remaining
  <2>3. armed[t] \in Nat
    BY <2>1, TypeInit, TypedTimes
  <2> QED BY <2>2, <2>3
<1>2. TaskInv /\ TaskInv' /\ TimersHonest /\ [Next]_vars => TimersHonest'
  BY TimersStep
<1> QED BY TaskInductive, <1>1, <1>2, PTL DEF Spec

\* task_manager_poll and stopwatch_select: a timer is wound down by time
\* spent in select alone, at most twice as fast as that time passes, whatever
\* wakes select and however late it returns.
THEOREM TimersAlwaysHonest == Spec => []TimersHonest
BY TimersInductive

\* A task whose timer expires has really waited for half of what the timer
\* was set to.
THEOREM NoTaskTooEarly == Spec => NeverTooEarly
<1> DEFINE Patient == \A t \in Listed : expired' = t => waited[t] >= armed[t]
<1>1. TaskInv /\ TimersHonest /\ [Next]_vars => [Patient]_vars
  <2> SUFFICES ASSUME TaskInv, TimersHonest, Next, NEW t \in Listed, expired' = t
               PROVE  waited[t] >= armed[t]
    OBVIOUS
  <2> USE DEF TaskInv
  <2>1. t \in Tasks /\ t # NULL
    BY ListIs, TaskManagerAssumption DEF TypeOK, IsList, Listed
  <2>2. Visit(t) /\ event = "timeout" /\ Due(t)
    <3>1. ASSUME SelectTimeout \/ SelectReady \/ SelectError
          PROVE  FALSE
      BY <2>1, <3>1, Waits DEF Wait
    <3>2. PICK s \in Tasks : Visit(s)
      BY <3>1 DEF Next, Sweep
    <3>3. s = t /\ event = "timeout" /\ Due(t)
      BY <2>1, <3>2, VisitIs DEF Visited
    <3> QED BY <3>2, <3>3
  <2>3. pos = t /\ Left(t) = 0
    BY <2>2 DEF Visit, Due
  <2>4. Remaining(t) = 0
    BY <2>2, <2>3 DEF SweepInv, Rest, Remaining
  <2>5. 0 + waited[t] >= armed[t]
    BY <2>4 DEF TimersHonest
  <2>6. waited[t] \in Nat
    BY <2>1 DEF TypeOK
  <2> QED BY <2>5, <2>6
<1> QED BY TaskInductive, TimersInductive, <1>1, PTL DEF NeverTooEarly, Spec

-----------------------------------------------------------------------------
(* Why no sweep goes on for ever and the purge has its turn. *)

\* list_for_each_entry: every iteration leaves a task less to visit, whatever
\* its callback adds to the list, and no poll begins before the sweep is over.
SweepShrinks ==
    [][event # "none" =>
          \/ event' = "none"
          \/ /\ due' = due /\ seen \subseteq seen'
             /\ pos \in due \ seen /\ pos \notin due' \ seen']_vars

\* Every sweep ends.
THEOREM SweepsShrink == Spec => SweepShrinks
<1> DEFINE Shrunk == event # "none" =>
          \/ event' = "none"
          \/ /\ due' = due /\ seen \subseteq seen'
             /\ pos \in due \ seen /\ pos \notin due' \ seen'
<1>1. TaskInv /\ [Next]_vars => [Shrunk]_vars
  <2> SUFFICES ASSUME TaskInv, Next, event # "none"
               PROVE  Shrunk
    OBVIOUS
  <2>1. PICK t \in Tasks : Visit(t)
    BY Waits DEF Next, Sweep, SelectTimeout, SelectReady, SelectError, Wait
  <2>2. due' = due /\ seen' = seen \cup {pos}
    BY <2>1 DEF Visit, Advance
  <2>3. pos \in Rest /\ Rest = due \ seen
    BY DEF TaskInv, SweepInv, Rest
  <2> QED BY <2>2, <2>3
<1>2. SweepShrinks <=> [][Shrunk]_vars
  BY DEF SweepShrinks
<1> HIDE DEF Shrunk
<1> QED BY TaskInductive, <1>1, <1>2, PTL DEF Spec

\* The timer of the purge goes down until it expires: neither another task
\* nor an event that wakes select sets it again.
PurgerCountsDown == [][expired' = Purger \/ tte'[Purger] <= tte[Purger]]_vars

\* Nothing sets the timer of the purge back.
THEOREM PurgerAlwaysCountsDown == Spec => PurgerCountsDown
<1> DEFINE Down == expired' = Purger \/ tte'[Purger] <= tte[Purger]
<1>1. TaskInv /\ [Next]_vars => [Down]_vars
  <2> SUFFICES ASSUME TaskInv, Next PROVE Down
    OBVIOUS
  <2>0. Purger \in Tasks /\ Purger \in Listed /\ tte[Purger] \in Nat
    BY BootTasks, TypedTimes, TaskManagerAssumption DEF TaskInv, SweepInv, Listed
  <2>1. CASE UNCHANGED tte
    BY <2>0, <2>1
  <2>2. ASSUME NEW t \in Tasks, Visit(t), ~Due(t)
        PROVE  Down
    <3>1. tte' = [tte EXCEPT ![t] = Left(t)]
      BY <2>2 DEF Visit
    <3>2. Left(Purger) <= tte[Purger]
      BY <2>0 DEF Left, TaskInv, TypeOK
    <3> QED BY <2>0, <3>1, <3>2 DEF TaskInv, TypeOK
  <2>3. ASSUME NEW t \in Tasks, Visit(t), Due(t)
        PROVE  Down
    <3>1. Trigger(t) /\ expired' = IF event = "timeout" THEN t ELSE NULL
      BY <2>3 DEF Visit
    <3>2. CASE t = Purger
      <4>1. event = "timeout"
        BY <2>3, <3>2, TaskManagerAssumption DEF Due, TaskInv, TypeOK, Visit
      <4> QED BY <3>1, <3>2, <4>1
    <3>3. CASE t # Purger
      <4>1. Purger \notin (Range(list') \ Listed) \cup {t}
        BY <2>0, <3>3
      <4>2. tte'[Purger] = tte[Purger]
        BY <2>0, <3>1, <4>1 DEF Trigger, Arm
      <4> QED BY <2>0, <4>2
    <3> QED BY <3>2, <3>3
  <2> HIDE DEF Down
  <2> QED BY <2>1, <2>2, <2>3 DEF Next, Sweep, SelectTimeout, SelectReady,
                                  SelectError, Wait
<1>2. PurgerCountsDown <=> [][Down]_vars
  BY DEF PurgerCountsDown
<1> HIDE DEF Down
<1> QED BY TaskInductive, <1>1, <1>2, PTL DEF Spec

===============================================================================
