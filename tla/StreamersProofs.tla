--------------------------- MODULE StreamersProofs ---------------------------
(***************************************************************************)
(* The table of streamers for every number of names, addresses, clients    *)
(* and mountpoints: its types, the tasks that serve it, its ports, and the *)
(* table of leases it implements.  Then the callbacks of the creations:    *)
(* the pointers they carry, the client they answer, and the answer every   *)
(* client is owed; each of these theorems assumes away the faults that the *)
(* violated runs show to be necessary.                                     *)
(***************************************************************************)
EXTENDS Streamers, PortsProofs

Calls == [Conn -> Call \cup {None}]

-----------------------------------------------------------------------------
(* The requests to Janus are well-typed. *)

LEMMA ConnectType ==
    ASSUME NEW cs \in Calls, NEW r \in Call, NEW h
    PROVE  Request(cs, h, r) \subseteq Calls
BY DEF Request, Connect, FreeConn, Calls

LEMMA ZeroAge == 0 \in 0..(Interval + 1)
BY StreamersAssumption

LEMMA LaterType ==
    ASSUME NEW n \in 0..(Interval + 1)
    PROVE  Later(n) \in 0..(Interval + 1)
BY StreamersAssumption DEF Later

LEMMA CreateType ==
    ASSUME NEW p \in PsAddr, NEW i \in Ids, NEW c \in Conn, call \in Calls
    PROVE  /\ CreateStreamingPoint(call, p, c) \subseteq Calls
           /\ CreateVideoroom(call, p, i, c) \subseteq Calls
<1>1. NewCall("create_mount", p, None, None, c) \in Call
  BY ZeroAge DEF NewCall, Call, CallRecord, Ops, Creations
<1>2. NewCall("create_room", p, i, None, c) \in Call
  BY ZeroAge DEF NewCall, Call, CallRecord, Ops, Creations
<1> QED BY <1>1, <1>2, ConnectType DEF CreateStreamingPoint, CreateVideoroom

LEMMA DestroyType ==
    ASSUME NEW i \in Ids, call \in Calls,
           NEW num \in MountIds \cup ParticipantIds \cup {None}
    PROVE  /\ DestroyStreamingPoint(call, num) \subseteq Calls
           /\ DestroyVideoroom(call, i) \subseteq Calls
           /\ ForwardRtp(call, i, num) \subseteq Calls
<1>1. /\ NewCall("destroy_mount", None, None, num, None) \in Call
      /\ NewCall("destroy_room", None, i, None, None) \in Call
      /\ NewCall("forward", None, i, num, None) \in Call
  BY ZeroAge DEF NewCall, Call, CallRecord, Ops, Creations
<1> QED
  BY <1>1, ConnectType
  DEF DestroyStreamingPoint, DestroyVideoroom, ForwardRtp

LEMMA MarkType ==
    ASSUME NEW cs \in Calls, NEW x
    PROVE  MarkStale(cs, x) \in Calls /\ MarkGone(cs, x) \in Calls
<1>1. \A r \in Call : /\ [r EXCEPT !.stale = TRUE] \in Call
                      /\ [r EXCEPT !.gone = TRUE] \in Call
  BY DEF Call, CallRecord
<1> QED BY <1>1 DEF MarkStale, MarkGone, Calls

LEMMA WaitedType ==
    ASSUME NEW cs \in Calls
    PROVE  Waited(cs) \in Calls
<1>1. ASSUME NEW r \in Call
      PROVE  [r EXCEPT !.wait = Later(@)] \in Call
  <2>1. Later(r.wait) \in 0..(Interval + 1)
    BY LaterType DEF Call, CallRecord
  <2> QED BY <2>1 DEF Call, CallRecord
<1> QED BY <1>1 DEF Waited, Calls

-----------------------------------------------------------------------------
(* The table of streamers. *)

\* Base ports are whole strides from the first, one per streamer.
PortsInv ==
    /\ \A p \in Live : \E k \in 0..Cardinality(PsAddr) :
          ps[p].port = InitialPort + Stride * k
    /\ \A p, q \in Live : ps[p].port = ps[q].port => p = q

\* What the destruction loops have still to visit is in the table, and the
\* table is empty once the manager is destroyed.
LoopInv ==
    /\ phase = "purging" => doomed \subseteq Orphans
    /\ phase = "destroying" => doomed = Live
    /\ ~JanusAlive \/ phase = "sleeping" => Live = {}

TableInv == TypeOK /\ TasksServeLive /\ PortsInv /\ LoopInv

\* A port assigned to a new streamer is a whole stride away from all others.
LEMMA AssignPortLive ==
    ASSUME TypeOK
    PROVE  LET used == {ps[q].port : q \in Live}
           IN  \E k \in 0..Cardinality(PsAddr) :
                  /\ AssignPort(used) = InitialPort + Stride * k
                  /\ AssignPort(used) \notin used
<1> DEFINE used == {ps[q].port : q \in Live}
           f == [q \in Live |-> ps[q].port]
<1>1. IsFiniteSet(Live) /\ Cardinality(Live) <= Cardinality(PsAddr)
  BY StreamersAssumption, FS_Subset DEF Live
<1>2. f \in Surjection(Live, used)
  BY DEF Surjection
<1>3. IsFiniteSet(used) /\ Cardinality(used) <= Cardinality(Live)
  <2> HIDE DEF f, used
  <2> QED BY <1>1, <1>2, FS_Surjection
<1>4. /\ Cardinality(used) \in Nat
      /\ Cardinality(Live) \in Nat
      /\ Cardinality(PsAddr) \in Nat
  <2> HIDE DEF used
  <2> QED BY <1>1, <1>3, StreamersAssumption, FS_CardinalityType
<1>5. Cardinality(used) <= Cardinality(PsAddr)
  <2> HIDE DEF used
  <2> QED BY <1>1, <1>3, <1>4
<1>6. InitialPort + Stride * Cardinality(used) < PortSpace
  <2> HIDE DEF used
  <2> QED
    BY <1>4, <1>5, InitialPortOdd, PortsAssumption, PortsSuffice, SMT
    DEF Stride
<1>7. PICK k \in 0..Cardinality(used) :
         /\ AssignPort(used) = InitialPort + Stride * k
         /\ AssignPort(used) \notin used
  <2> HIDE DEF used
  <2> QED BY <1>3, <1>6, AssignPortFresh
<1>8. k \in 0..Cardinality(PsAddr)
  <2> HIDE DEF used
  <2> QED BY <1>4, <1>5
<1> QED BY <1>7, <1>8

LEMMA AssignPortType ==
    ASSUME TypeOK
    PROVE  AssignPort({ps[q].port : q \in Live}) \in Nat
BY AssignPortLive, InitialPortOdd, StreamersAssumption, FS_CardinalityType, SMT
DEF Stride

LEMMA TableInit == Init => TableInv
BY StreamersAssumption
DEF Init, TableInv, TypeOK, TasksServeLive, PortsInv, LoopInv, Live, Phases,
    JanusAlive, HttpStates

LEMMA TypeStep ==
    ASSUME TableInv, [Next]_vars
    PROVE  TypeOK'
<1> USE DEF TableInv, TypeOK, Calls
<1>1. ASSUME NEW c \in Conn, Open(c) \/ Leave(c) \/ Rejected(c)
      PROVE  TypeOK'
  <2>1. MarkGone(call, c) \in Calls
    BY MarkType
  <2>2. CASE Leave(c)
    BY <2>1, <2>2 DEF Leave, HttpStates
  <2>3. CASE Open(c) \/ Rejected(c)
    BY <2>3 DEF Open, Rejected, Answer, HttpStates
  <2> QED BY <1>1, <2>2, <2>3
<1>2. ASSUME NEW c \in Conn, NEW i \in Ids, PostChannel(c, i) \/ PostSource(c, i)
      PROVE  TypeOK'
  <2>1. PICK p \in PsAddr, source \in BOOLEAN, hosted \in BOOLEAN,
             calls \in SUBSET Calls :
           Launch(c, p, i, source, hosted, calls)
    <3>1. CASE PostChannel(c, i)
      BY <3>1, CreateType DEF PostChannel, FreePs
    <3>2. CASE PostSource(c, i)
      BY <3>2, CreateType DEF PostSource, FreePs
    <3> QED BY <1>2, <3>1, <3>2
  <2>2. AssignPort({ps[q].port : q \in Live}) \in Nat
    BY AssignPortType
  <2>3. PICK psc \in BOOLEAN :
           /\ ps' = [ps EXCEPT ![p] =
                       [id |-> i, source |-> source, hosted |-> hosted,
                        psc |-> psc,
                        port |-> AssignPort({ps[q].port : q \in Live}),
                        age |-> 0, jid |-> None]]
           /\ tasks' = [tasks EXCEPT ![p] = Scheduled(source, psc)]
    BY <2>1 DEF Launch
  <2>4. ps' \in [PsAddr -> PStreamer \cup {None}]
    <3> DEFINE port == AssignPort({ps[q].port : q \in Live})
    <3>1. port \in Nat
      BY <2>2
    <3>2. ps' = [ps EXCEPT ![p] =
                       [id |-> i, source |-> source, hosted |-> hosted,
                        psc |-> psc, port |-> port, age |-> 0, jid |-> None]]
      BY <2>3
    <3> HIDE DEF port
    <3> QED BY <3>1, <3>2, StreamersAssumption DEF PStreamer
  <2> QED BY <2>1, <2>3, <2>4 DEF Launch, Scheduled, Answer, HttpStates
<1>3. ASSUME NEW p \in Live, Touch(p)
      PROVE  ps' \in [PsAddr -> PStreamer \cup {None}]
  BY <1>3, StreamersAssumption DEF Touch, PStreamer, Live
<1>4. ASSUME NEW c \in Conn, NEW i \in Ids, UpdateChannel(c, i)
      PROVE  TypeOK'
  <2>1. ps' \in [PsAddr -> PStreamer \cup {None}]
    BY <1>4, <1>3 DEF UpdateChannel, Named
  <2> QED BY <1>4, <2>1 DEF UpdateChannel, Answer, HttpStates
<1>5. ASSUME NEW c \in Conn, NEW i \in Ids, NEW num \in ParticipantIds,
             UpdateSource(c, i, num)
      PROVE  TypeOK'
  <2>1. PICK p \in Live :
          IF ps[p].source
          THEN /\ ps' = [ps EXCEPT ![p] = [@ EXCEPT !.age = 0, !.jid = num]]
               /\ call' \in ForwardRtp(call, i, num)
          ELSE Touch(p) /\ UNCHANGED call
    BY <1>5 DEF UpdateSource, Named
  <2>2. ps' \in [PsAddr -> PStreamer \cup {None}]
    <3>1. CASE Touch(p)
      BY <3>1, <1>3
    <3>2. CASE ps' = [ps EXCEPT ![p] = [@ EXCEPT !.age = 0, !.jid = num]]
      <4>1. ps[p] \in PStreamer
        BY DEF Live
      <4>2. [ps[p] EXCEPT !.age = 0, !.jid = num] \in PStreamer
        BY <4>1, ZeroAge DEF PStreamer
      <4> QED BY <3>2, <4>2
    <3> QED BY <2>1, <3>1, <3>2
  <2>3. call' \in Calls
    BY <2>1, DestroyType
  <2> QED BY <1>5, <2>2, <2>3 DEF UpdateSource, Answer, HttpStates
<1>6. ASSUME NEW h \in {"streaming", "videoroom"}, Attach(h)
      PROVE  TypeOK'
  BY <1>6 DEF Attach
<1>7. ASSUME NEW k \in Conn, Transmit(k)
      PROVE  TypeOK'
  <2>1. call[k] \in Call
    BY <1>7 DEF Transmit
  <2>2. [call[k] EXCEPT !.stage = "sent"] \in Call
    BY <2>1 DEF Call, CallRecord
  <2> QED BY <1>7, <2>2 DEF Transmit
<1>8. ASSUME NEW k \in Conn, HandleReply(k)
      PROVE  TypeOK'
  <2>1. call[k] \in Call
    BY <1>8 DEF HandleReply
  <2>2. ps' \in [PsAddr -> PStreamer \cup {None}]
    BY <1>8, <2>1 DEF HandleReply, StoreReply, PStreamer, Live, Call, CallRecord
  <2>3. [call[k] EXCEPT !.stage = "closing"] \in Call
    BY <2>1 DEF Call, CallRecord
  <2> QED BY <1>8, <2>2, <2>3 DEF HandleReply
<1>9. ASSUME NEW k \in Conn, CloseCall(k)
      PROVE  TypeOK'
  <2>1. http' \in [Conn -> HttpStates]
    BY <1>9 DEF CloseCall, Trigger, Outcome, Answer, HttpStates
  <2> QED BY <1>9, <2>1 DEF CloseCall
<1>10. ASSUME NEW k \in Conn, JanusServe(k)
       PROVE  TypeOK'
  <2>1. call[k] \in Call
    BY <1>10 DEF JanusServe
  <2>2. PICK num \in MountIds \cup ParticipantIds \cup {None} :
          /\ JanusDoes(call[k], num)
          /\ call' = [call EXCEPT ![k] =
                     [@ EXCEPT !.stage = "answered", !.num = num]]
    BY <1>10 DEF JanusServe
  <2>3. call' \in Calls
    <3>1. [call[k] EXCEPT !.stage = "answered", !.num = num] \in Call
      BY <2>1 DEF Call, CallRecord
    <3> QED BY <2>2, <3>1
  <2>4. mounts' \subseteq MountIds
    BY <2>2 DEF JanusDoes
  <2>5. rooms' \subseteq Ids
    BY <2>1, <2>2 DEF JanusDoes, Call, Creations
  <2> QED BY <1>10, <2>3, <2>4, <2>5 DEF JanusServe
<1>11. CASE Tick
  <2>1. ASSUME NEW p \in Live
        PROVE  [ps[p] EXCEPT !.age = Later(@)] \in PStreamer
    <3>1. ps[p] \in PStreamer
      BY DEF Live
    <3>2. Later(ps[p].age) \in 0..(Interval + 1)
      BY <3>1, LaterType DEF PStreamer
    <3> QED BY <3>1, <3>2 DEF PStreamer
  <2>2. ps' \in [PsAddr -> PStreamer \cup {None}]
    BY <1>11, <2>1 DEF Tick
  <2>3. call' \in Calls
    BY <1>11, WaitedType DEF Tick
  <2> QED BY <1>11, <2>2, <2>3 DEF Tick
<1>12. CASE PurgeStart \/ Signal
  BY <1>12 DEF PurgeStart, Signal, Orphans, Live, Phases
<1>13. ASSUME NEW p \in PsAddr, PurgeOne(p) \/ DestroyOne(p)
       PROVE  TypeOK'
  <2>1. ps[p] \in PStreamer
    BY <1>13 DEF PurgeOne, DestroyOne, LoopInv, Orphans, Live
  <2>2. PICK calls \in SUBSET Calls : Dispose(p, calls)
    BY <1>13, <2>1, DestroyType DEF PurgeOne, DestroyOne, PStreamer
  <2>3. call' \in Calls
    BY <2>2, MarkType DEF Dispose
  <2>4. /\ doomed' \subseteq PsAddr
        /\ ps' \in [PsAddr -> PStreamer \cup {None}]
        /\ tasks' \in [PsAddr -> SUBSET TaskKinds]
    BY <2>2 DEF Dispose
  <2>5. phase' \in Phases
    BY <1>13 DEF PurgeOne, DestroyOne, Phases
  <2>6. UNCHANGED <<handles, http, mounts, rooms>>
    BY <1>13 DEF PurgeOne, DestroyOne
  <2> QED BY <2>3, <2>4, <2>5, <2>6
<1>14. CASE JanusDestroy \/ TaskManagerDestroy \/ Exit \/ Exited
  BY <1>14 DEF JanusDestroy, TaskManagerDestroy, Exit, Exited, Phases, vars
<1>15. CASE UNCHANGED vars
  BY <1>15 DEF vars
<1> QED
  BY <1>1, <1>2, <1>4, <1>5, <1>6, <1>7, <1>8, <1>9, <1>10, <1>11, <1>12,
     <1>13, <1>14, <1>15 DEF Next, Client, Poll, Purge, Shutdown

\* The four ways a step treats the table and its tasks.
Kept ==
    /\ Live' = Live
    /\ tasks' = tasks
    /\ \A p \in Live : /\ ps'[p].source = ps[p].source
                       /\ ps'[p].psc = ps[p].psc
                       /\ ps'[p].port = ps[p].port

Added(p) ==
    /\ p \notin Live
    /\ Live' = Live \cup {p}
    /\ \A q \in Live : ps'[q] = ps[q]
    /\ tasks' = [tasks EXCEPT ![p] = Scheduled(ps'[p].source, ps'[p].psc)]
    /\ ps'[p].port = AssignPort({ps[q].port : q \in Live})

Removed(p) ==
    /\ p \in Live
    /\ Live' = Live \ {p}
    /\ \A q \in Live' : ps'[q] = ps[q]
    /\ tasks' = [tasks EXCEPT ![p] = {}]

LEMMA DisposeRemoves ==
    ASSUME TypeOK, NEW p \in Live, NEW calls, Dispose(p, calls)
    PROVE  Removed(p)
BY DEF Dispose, Removed, Live, TypeOK

LEMMA LaunchAdds ==
    ASSUME TypeOK, NEW c, NEW p \in FreePs, NEW i \in Ids,
           NEW source \in BOOLEAN, NEW hosted \in BOOLEAN, NEW calls,
           Launch(c, p, i, source, hosted, calls)
    PROVE  /\ Added(p)
           /\ ps'[p].age = 0
           /\ UNCHANGED <<phase, doomed>>
<1> DEFINE port == AssignPort({ps[q].port : q \in Live})
           r(psc) == [id |-> i, source |-> source, hosted |-> hosted,
                      psc |-> psc, port |-> port, age |-> 0, jid |-> None]
<1>1. PICK psc \in BOOLEAN :
         /\ ps' = [ps EXCEPT ![p] = r(psc)]
         /\ tasks' = [tasks EXCEPT ![p] = Scheduled(source, psc)]
         /\ UNCHANGED <<phase, doomed>>
  BY DEF Launch
<1>2. p \in PsAddr /\ p \notin Live
  BY DEF FreePs
<1>3. port \in Nat
  BY AssignPortType
<1> HIDE DEF port
<1>4. r(psc) # None
  <2>1. r(psc) \in PStreamer
    BY <1>3, StreamersAssumption DEF PStreamer
  <2> QED BY <2>1, NoneAssumption
<1>5. Live' = Live \cup {p} /\ \A q \in Live : ps'[q] = ps[q]
  <2> HIDE DEF r
  <2> QED BY <1>1, <1>2, <1>4 DEF Live, TypeOK
<1>6. ps'[p] = r(psc)
  BY <1>1, <1>2 DEF TypeOK
<1>7. port = AssignPort({ps[q].port : q \in Live})
  BY DEF port
<1>8. /\ ps'[p].source = source /\ ps'[p].psc = psc
      /\ ps'[p].port = port /\ ps'[p].age = 0
  BY <1>6
<1> HIDE DEF r
<1> QED BY <1>1, <1>2, <1>5, <1>7, <1>8 DEF Added

LEMMA TableSteps ==
    ASSUME TableInv, [Next]_vars
    PROVE  \/ Kept
           \/ \E p \in PsAddr : Added(p)
           \/ \E p \in PsAddr : Removed(p)
           \/ Live = {} /\ TaskManagerDestroy
<1> USE DEF TableInv
<1>1. ASSUME NEW c \in Conn, NEW i \in Ids, PostChannel(c, i) \/ PostSource(c, i)
      PROVE  \E p \in PsAddr : Added(p)
  <2>1. CASE PostChannel(c, i)
    BY <2>1, LaunchAdds DEF PostChannel, FreePs
  <2>2. CASE PostSource(c, i)
    BY <2>2, LaunchAdds DEF PostSource, FreePs
  <2> QED BY <1>1, <2>1, <2>2
<1>2. ASSUME NEW p \in Live, Touch(p), UNCHANGED tasks
      PROVE  Kept
  <2>1. [ps[p] EXCEPT !.age = 0] \in PStreamer
    BY StreamersAssumption DEF TypeOK, PStreamer, Live
  <2>2. ps'[p] = [ps[p] EXCEPT !.age = 0]
    BY <1>2 DEF Touch, TypeOK, Live
  <2>3. Live' = Live
    BY <1>2, <2>1, <2>2, NoneAssumption DEF Touch, TypeOK, Live
  <2> QED BY <1>2, <2>2, <2>3 DEF Touch, Kept, TypeOK, Live, PStreamer
<1>3. ASSUME NEW c \in Conn, NEW i \in Ids, UpdateChannel(c, i)
      PROVE  Kept
  BY <1>3, <1>2 DEF UpdateChannel, Named
<1>4. ASSUME NEW c \in Conn, NEW i \in Ids, NEW num \in ParticipantIds,
             UpdateSource(c, i, num)
      PROVE  Kept
  <2>1. PICK p \in Live :
          \/ ps' = [ps EXCEPT ![p] = [@ EXCEPT !.age = 0, !.jid = num]]
          \/ Touch(p)
    BY <1>4 DEF UpdateSource, Named
  <2>2. UNCHANGED tasks
    BY <1>4 DEF UpdateSource
  <2>3. CASE ps' = [ps EXCEPT ![p] = [@ EXCEPT !.age = 0, !.jid = num]]
    <3>1. /\ ps[p] \in PStreamer
          /\ [ps[p] EXCEPT !.age = 0, !.jid = num] \in PStreamer
      BY ZeroAge DEF TypeOK, Live, PStreamer
    <3>2. /\ ps'[p] = [ps[p] EXCEPT !.age = 0, !.jid = num]
          /\ \A q \in PsAddr \ {p} : ps'[q] = ps[q]
      BY <2>3 DEF TypeOK, Live
    <3>3. Live' = Live
      BY <3>1, <3>2, NoneAssumption DEF Live
    <3>4. /\ ps'[p].source = ps[p].source
          /\ ps'[p].psc = ps[p].psc
          /\ ps'[p].port = ps[p].port
      BY <3>1, <3>2 DEF PStreamer
    <3> QED BY <2>2, <3>2, <3>3, <3>4 DEF Kept, Live
  <2> QED BY <1>2, <2>1, <2>2, <2>3
<1>5. ASSUME NEW k \in Conn, HandleReply(k)
      PROVE  Kept
  <2>1. call[k] \in Call /\ UNCHANGED tasks
    BY <1>5 DEF HandleReply, TypeOK
  <2>2. CASE UNCHANGED ps
    BY <2>1, <2>2 DEF Kept, Live
  <2>3. ASSUME NEW p \in Live, NEW v \in MountIds \cup ParticipantIds \cup {None},
               ps' = [ps EXCEPT ![p].jid = v]
        PROVE  Kept
    <3>1. [ps[p] EXCEPT !.jid = v] \in PStreamer
      BY DEF TypeOK, PStreamer, Live
    <3>2. ps'[p] = [ps[p] EXCEPT !.jid = v]
      BY <2>3 DEF TypeOK, Live
    <3>3. Live' = Live
      BY <2>3, <3>1, <3>2, NoneAssumption DEF TypeOK, Live
    <3> QED BY <2>1, <2>3, <3>2, <3>3 DEF Kept, TypeOK, Live, PStreamer
  <2>4. \A p \in Live : ps[p].jid \in MountIds \cup ParticipantIds \cup {None}
    BY DEF TypeOK, PStreamer, Live
  <2> QED
    BY <1>5, <2>1, <2>2, <2>3, <2>4
    DEF HandleReply, StoreReply, Call, CallRecord
<1>6. CASE Tick
  <2>1. ASSUME NEW p \in Live
        PROVE  [ps[p] EXCEPT !.age = Later(@)] \in PStreamer
    <3>1. ps[p] \in PStreamer /\ Later(ps[p].age) \in 0..(Interval + 1)
      BY LaterType DEF TypeOK, Live, PStreamer
    <3> QED BY <3>1 DEF PStreamer
  <2>2. \A p \in Live : ps[p] \in PStreamer
    BY DEF TypeOK, Live
  <2>3. Live' = Live
    BY <1>6, <2>1, <2>2, NoneAssumption DEF Tick, Live
  <2> QED BY <1>6, <2>2, <2>3 DEF Tick, Kept, Live, PStreamer
<1>7. ASSUME NEW p \in PsAddr, PurgeOne(p) \/ DestroyOne(p)
      PROVE  Removed(p)
  <2>1. p \in Live
    BY <1>7 DEF PurgeOne, DestroyOne, LoopInv, Orphans
  <2> QED BY <1>7, <2>1, DisposeRemoves DEF PurgeOne, DestroyOne
<1>8. CASE TaskManagerDestroy
  BY <1>8 DEF TaskManagerDestroy, LoopInv, JanusAlive
<1>9. CASE UNCHANGED <<ps, tasks>>
  BY <1>9 DEF Kept, Live
<1> QED
  BY <1>1, <1>3, <1>4, <1>5, <1>6, <1>7, <1>8, <1>9
  DEF Next, Client, Poll, Purge, Shutdown, vars, Open, Leave, Rejected,
      Attach, Transmit, CloseCall, JanusServe, PurgeStart, Signal,
      JanusDestroy, Exit, Exited

LEMMA TasksStep ==
    ASSUME TableInv, [Next]_vars
    PROVE  TasksServeLive'
<1> USE DEF TableInv
<1>1. CASE Kept
  BY <1>1 DEF Kept, TasksServeLive
<1>2. ASSUME NEW p \in PsAddr, Added(p)
      PROVE  TasksServeLive'
  <2>1. tasks'[p] = Scheduled(ps'[p].source, ps'[p].psc)
    BY <1>2 DEF Added, TypeOK
  <2>2. \A q \in PsAddr \ {p} :
           tasks'[q] = tasks[q] /\ (q \in Live' <=> q \in Live)
    BY <1>2 DEF Added, TypeOK
  <2> QED BY <1>2, <2>1, <2>2 DEF Added, TasksServeLive
<1>3. ASSUME NEW p \in PsAddr, Removed(p)
      PROVE  TasksServeLive'
  <2>1. tasks'[p] = {} /\ p \notin Live'
    BY <1>3 DEF Removed, TypeOK
  <2>2. \A q \in PsAddr \ {p} :
           tasks'[q] = tasks[q] /\ (q \in Live' <=> q \in Live)
    BY <1>3 DEF Removed, TypeOK
  <2> QED BY <1>3, <2>1, <2>2 DEF Removed, TasksServeLive
<1>4. CASE Live = {} /\ TaskManagerDestroy
  BY <1>4 DEF TaskManagerDestroy, TasksServeLive, Live
<1> QED BY <1>1, <1>2, <1>3, <1>4, TableSteps

LEMMA PortsStep ==
    ASSUME TableInv, [Next]_vars
    PROVE  PortsInv'
<1> USE DEF TableInv
<1>1. CASE Kept
  BY <1>1 DEF Kept, PortsInv
<1>2. ASSUME NEW p \in PsAddr, Added(p)
      PROVE  PortsInv'
  <2> DEFINE used == {ps[q].port : q \in Live}
  <2>1. PICK k \in 0..Cardinality(PsAddr) :
           /\ AssignPort(used) = InitialPort + Stride * k
           /\ AssignPort(used) \notin used
    BY AssignPortLive
  <2>2. ps'[p].port = AssignPort(used)
    BY <1>2 DEF Added
  <2>3. \A q \in Live : ps[q].port # ps'[p].port
    BY <2>1, <2>2
  <2>4. Live' = Live \cup {p} /\ \A q \in Live : ps'[q] = ps[q]
    BY <1>2 DEF Added
  <2>5. ps'[p].port = InitialPort + Stride * k
    BY <2>1, <2>2
  <2> HIDE DEF used
  <2>6. \A q \in Live' : \E j \in 0..Cardinality(PsAddr) :
           ps'[q].port = InitialPort + Stride * j
    <3> SUFFICES ASSUME NEW q \in Live'
                 PROVE  \E j \in 0..Cardinality(PsAddr) :
                           ps'[q].port = InitialPort + Stride * j
      OBVIOUS
    <3>1. CASE q = p
      BY <3>1, <2>5
    <3>2. CASE q \in Live
      BY <3>2, <2>4 DEF PortsInv
    <3> QED BY <3>1, <3>2, <2>4
  <2>7. \A q, s \in Live' : ps'[q].port = ps'[s].port => q = s
    BY <2>3, <2>4 DEF PortsInv
  <2> QED BY <2>6, <2>7 DEF PortsInv
<1>3. ASSUME NEW p \in PsAddr, Removed(p)
      PROVE  PortsInv'
  BY <1>3 DEF Removed, PortsInv
<1>4. CASE Live = {} /\ TaskManagerDestroy
  BY <1>4 DEF TaskManagerDestroy, PortsInv, Live
<1> QED BY <1>1, <1>2, <1>3, <1>4, TableSteps

LEMMA LoopStep ==
    ASSUME TableInv, [Next]_vars
    PROVE  LoopInv'
<1> USE DEF TableInv
<1>1. CASE phase' = "running"
  BY <1>1 DEF LoopInv, JanusAlive
<1>2. CASE UNCHANGED <<phase, doomed, ps>>
  BY <1>2 DEF LoopInv, JanusAlive, Live, Orphans
<1>3. CASE PurgeStart \/ Signal
  BY <1>3 DEF PurgeStart, Signal, LoopInv, JanusAlive, Live, Orphans
<1>4. ASSUME NEW p \in PsAddr, PurgeOne(p)
      PROVE  LoopInv'
  <2>1. /\ phase = "purging" /\ p \in doomed /\ doomed' = doomed \ {p}
        /\ ps' = [ps EXCEPT ![p] = None] /\ phase' \in {"purging", "running"}
    BY <1>4 DEF PurgeOne, Dispose
  <2>2. doomed' \subseteq Orphans'
    BY <2>1 DEF LoopInv, Orphans, Live, TypeOK
  <2> QED BY <2>1, <2>2 DEF LoopInv, JanusAlive
<1>5. ASSUME NEW p \in PsAddr, DestroyOne(p)
      PROVE  LoopInv'
  <2>1. /\ phase = "destroying" /\ p \in doomed /\ doomed' = doomed \ {p}
        /\ ps' = [ps EXCEPT ![p] = None]
        /\ phase' = IF doomed = {p} THEN "sleeping" ELSE "destroying"
    BY <1>5 DEF DestroyOne, Dispose
  <2>2. doomed' = Live'
    BY <2>1 DEF LoopInv, Live, TypeOK
  <2> QED BY <2>1, <2>2 DEF LoopInv, JanusAlive
<1>6. CASE JanusDestroy \/ TaskManagerDestroy \/ Exit
  BY <1>6 DEF JanusDestroy, TaskManagerDestroy, Exit, LoopInv, JanusAlive, Live
<1>7. ASSUME NEW c \in Conn, Client(c)
      PROVE  LoopInv'
  <2>1. CASE Leave(c)
    BY <2>1, <1>2 DEF Leave
  <2>2. CASE ~Leave(c)
    BY <1>7, <2>2, <1>1
    DEF Client, Open, Rejected, PostChannel, PostSource, Launch,
        UpdateChannel, UpdateSource, CanRequest
  <2> QED BY <2>1, <2>2
<1>8. ASSUME NEW k \in Conn, Poll(k) \/ JanusServe(k)
      PROVE  LoopInv'
  BY <1>8, <1>1, <1>2
  DEF Poll, Transmit, HandleReply, CloseCall, JanusServe
<1>9. CASE Tick \/ \E h \in {"streaming", "videoroom"} : Attach(h)
  BY <1>9, <1>1 DEF Tick, Attach
<1>10. CASE Exited \/ UNCHANGED vars
  BY <1>10, <1>2 DEF Exited, vars
<1> QED
  BY <1>3, <1>4, <1>5, <1>6, <1>7, <1>8, <1>9, <1>10
  DEF Next, Purge, Shutdown

\* Two whole strides are further apart than a port range is long.
LEMMA RangesApart ==
    ASSUME TypeOK, PortsInv
    PROVE  PortsDisjoint
<1>1. \A p \in Live : \E k \in Nat : ps[p].port = InitialPort + Stride * k
  BY StreamersAssumption, FS_CardinalityType DEF PortsInv
<1>2. \A p \in Live : ps[p].port % 2 = 1
  BY <1>1, InitialPortOdd, SMT DEF Stride
<1>3. ASSUME NEW p \in Live, NEW q \in Live, p # q
      PROVE  PortRange(ps[p].port) \cap PortRange(ps[q].port) = {}
  <2>1. PICK j \in Nat, k \in Nat : /\ ps[p].port = InitialPort + Stride * j
                                    /\ ps[q].port = InitialPort + Stride * k
    BY <1>1
  <2>2. ps[p].port # ps[q].port
    BY <1>3 DEF PortsInv
  <2>3. ASSUME NEW x \in PortRange(ps[p].port) \cap PortRange(ps[q].port)
        PROVE  FALSE
    BY <2>1, <2>2, <2>3, InitialPortOdd, SMT DEF PortRange, Stride
  <2> QED BY <2>3
<1> QED BY <1>2, <1>3 DEF PortsDisjoint

\* The types, the tasks, the ports and the destruction loops together are
\* preserved by every step.
LEMMA TableInductive == Spec => []TableInv
<1>1. TableInv /\ [Next]_vars => TableInv'
  BY TypeStep, TasksStep, PortsStep, LoopStep DEF TableInv
<1> QED BY TableInit, <1>1, PTL DEF Spec

\* The variables of the program and of Janus keep their types.
THEOREM TypeCorrect == Spec => []TypeOK
<1>1. TableInv => TypeOK
  BY DEF TableInv
<1> QED BY TableInductive, <1>1, PTL

\* pstreamer_schedule_tasks and pstreamer_deinit: the task manager never
\* holds a task of a streamer that was freed, misses one of a streamer that
\* lives, or has a task left when it is destroyed.
THEOREM TasksServeLiveAlways == Spec => []TasksServeLive
<1>1. TableInv => TasksServeLive
  BY DEF TableInv
<1> QED BY TableInductive, <1>1, PTL

\* assign_streaming_ports: live streamers never share a port, whatever the
\* order in which streamers are created, purged and created again.
THEOREM PortsDisjointAlways == Spec => []PortsDisjoint
<1>1. TableInv => PortsDisjoint
  BY RangesApart DEF TableInv
<1> QED BY TableInductive, <1>1, PTL

-----------------------------------------------------------------------------
(* The manager implements the lease table. *)

Names == {ps[p].id : p \in Live}
NamesUnique == \A p, q \in Live : ps[p].id = ps[q].id => p = q
LeaseMap == [i \in Names |-> LeaseOf(CHOOSE p \in Live : ps[p].id = i)]
Serving == phase \in {"running", "purging"}

\* Five ways a step treats the leases.
LeasesKept ==
    /\ Live' = Live
    /\ \A p \in Live : ps'[p].id = ps[p].id /\ LeaseOf(p)' = LeaseOf(p)
    /\ Serving' => Serving

Granted(p) ==
    /\ Added(p)
    /\ ps'[p].id \in Ids \ Names
    /\ ps'[p].source \in BOOLEAN /\ ps'[p].age = 0
    /\ Serving /\ Serving'

Renewed(p) ==
    /\ p \in Live /\ Live' = Live
    /\ \A q \in Live : /\ ps'[q].id = ps[q].id
                       /\ ps'[q].source = ps[q].source
                       /\ ps'[q].age = IF q = p THEN 0 ELSE ps[q].age
    /\ Serving /\ Serving'

Aged ==
    /\ Live' = Live
    /\ \A p \in Live : /\ ps'[p].id = ps[p].id
                       /\ ps'[p].source = ps[p].source
                       /\ ps'[p].age = Leases!Older(ps[p].age)
    /\ Serving /\ Serving'

Ended(p) ==
    /\ Removed(p)
    /\ IF Serving THEN Serving' /\ ps[p].age > Interval ELSE ~Serving'

LEMMA LaunchGrants ==
    ASSUME TypeOK, NEW c, NEW p \in FreePs, NEW i \in Ids,
           NEW source \in BOOLEAN, NEW hosted \in BOOLEAN, NEW calls,
           Launch(c, p, i, source, hosted, calls), Named(i) = {}, phase = "running"
    PROVE  Granted(p)
<1>1. Added(p) /\ ps'[p].age = 0 /\ phase' = phase
  BY LaunchAdds
<1>2. ps'[p].id = i /\ ps'[p].source = source
  BY DEF Launch, FreePs, TypeOK
<1>3. i \notin Names
  BY DEF Names, Named
<1> QED BY <1>1, <1>2, <1>3 DEF Granted, Serving

LEMMA TouchRenews ==
    ASSUME TypeOK, NEW p \in Live, Touch(p), phase = "running", phase' = phase
    PROVE  Renewed(p)
<1>1. [ps[p] EXCEPT !.age = 0] \in PStreamer
  BY StreamersAssumption DEF TypeOK, PStreamer, Live
<1>2. ps'[p] = [ps[p] EXCEPT !.age = 0]
  BY DEF Touch, TypeOK, Live
<1>3. Live' = Live
  BY <1>1, <1>2, NoneAssumption DEF Touch, TypeOK, Live
<1> QED BY <1>2, <1>3 DEF Touch, Renewed, TypeOK, Live, PStreamer, Serving

LEMMA SourceUpdateRenews ==
    ASSUME TypeOK, NEW p \in Live, NEW num \in ParticipantIds,
           ps' = [ps EXCEPT ![p] = [@ EXCEPT !.age = 0, !.jid = num]],
           phase = "running", phase' = phase
    PROVE  Renewed(p)
<1>1. /\ ps[p] \in PStreamer
      /\ [ps[p] EXCEPT !.age = 0, !.jid = num] \in PStreamer
  BY ZeroAge DEF TypeOK, Live, PStreamer
<1>2. /\ ps'[p] = [ps[p] EXCEPT !.age = 0, !.jid = num]
      /\ \A q \in PsAddr \ {p} : ps'[q] = ps[q]
  BY DEF TypeOK, Live
<1>3. Live' = Live
  BY <1>1, <1>2, NoneAssumption DEF Live
<1>4. ps'[p].id = ps[p].id /\ ps'[p].source = ps[p].source /\ ps'[p].age = 0
  BY <1>1, <1>2 DEF PStreamer
<1> QED BY <1>2, <1>3, <1>4 DEF Renewed, Live, Serving

LEMMA ReplyKeepsLeases ==
    ASSUME TypeOK, NEW k \in Conn, HandleReply(k)
    PROVE  LeasesKept
<1>1. call[k] \in Call /\ phase' = phase
  BY DEF HandleReply, TypeOK
<1>2. CASE UNCHANGED ps
  BY <1>1, <1>2 DEF LeasesKept, Live, LeaseOf, Serving
<1>3. ASSUME NEW p \in Live,
             NEW v \in MountIds \cup ParticipantIds \cup {None},
             ps' = [ps EXCEPT ![p].jid = v]
      PROVE  LeasesKept
  <2>1. ps[p] \in PStreamer /\ [ps[p] EXCEPT !.jid = v] \in PStreamer
    BY DEF TypeOK, PStreamer, Live
  <2>2. /\ ps'[p] = [ps[p] EXCEPT !.jid = v]
        /\ \A q \in PsAddr \ {p} : ps'[q] = ps[q]
    BY <1>3 DEF TypeOK, Live
  <2>3. Live' = Live
    BY <2>1, <2>2, NoneAssumption DEF Live
  <2>4. /\ ps'[p].id = ps[p].id /\ ps'[p].source = ps[p].source
        /\ ps'[p].age = ps[p].age
    BY <2>1, <2>2 DEF PStreamer
  <2> QED BY <1>1, <2>2, <2>3, <2>4 DEF LeasesKept, LeaseOf, Live, Serving
<1>4. \A p \in Live : ps[p].jid \in MountIds \cup ParticipantIds \cup {None}
  BY DEF TypeOK, PStreamer, Live
<1> QED
  BY <1>1, <1>2, <1>3, <1>4 DEF HandleReply, StoreReply, Call, CallRecord

LEMMA TickAges ==
    ASSUME TypeOK, Tick
    PROVE  Aged
<1>1. ASSUME NEW p \in Live
      PROVE  ps[p] \in PStreamer /\ [ps[p] EXCEPT !.age = Later(@)] \in PStreamer
  <2>1. ps[p] \in PStreamer /\ Later(ps[p].age) \in 0..(Interval + 1)
    BY LaterType DEF TypeOK, Live, PStreamer
  <2> QED BY <2>1 DEF PStreamer
<1>2. Live' = Live
  BY <1>1, NoneAssumption DEF Tick, Live
<1>3. \A p \in Live : ps'[p] = [ps[p] EXCEPT !.age = Later(@)]
  BY DEF Tick, Live
<1>4. ASSUME NEW p \in Live
      PROVE  /\ ps'[p].id = ps[p].id /\ ps'[p].source = ps[p].source
             /\ ps'[p].age = Later(ps[p].age)
  BY <1>1, <1>3 DEF PStreamer
<1>5. phase = "running" /\ phase' = phase
  BY DEF Tick
<1>6. \A p \in Live : Later(ps[p].age) = Leases!Older(ps[p].age)
  BY DEF Later, Leases!Older
<1> QED BY <1>2, <1>4, <1>5, <1>6 DEF Aged, Serving

LEMMA PostGrants ==
    ASSUME TypeOK, NEW c \in Conn, NEW i \in Ids,
           PostChannel(c, i) \/ PostSource(c, i)
    PROVE  \E p \in PsAddr : Granted(p)
<1>1. CASE PostChannel(c, i)
  BY <1>1, LaunchGrants DEF PostChannel, FreePs, CanRequest
<1>2. CASE PostSource(c, i)
  BY <1>2, LaunchGrants DEF PostSource, FreePs, CanRequest
<1> QED BY <1>1, <1>2

LEMMA LeaseSteps ==
    ASSUME TableInv, [Next]_vars
    PROVE  \/ LeasesKept \/ Aged
           \/ \E c \in Conn, i \in Ids : PostChannel(c, i) \/ PostSource(c, i)
           \/ \E p \in PsAddr : Renewed(p) \/ Ended(p)
<1> USE DEF TableInv
<1>2. ASSUME NEW c \in Conn, NEW i \in Ids, UpdateChannel(c, i)
      PROVE  \E p \in PsAddr : Renewed(p)
  BY <1>2, TouchRenews DEF UpdateChannel, Named, CanRequest, Live
<1>3. ASSUME NEW c \in Conn, NEW i \in Ids, NEW num \in ParticipantIds,
             UpdateSource(c, i, num)
      PROVE  \E p \in PsAddr : Renewed(p)
  <2>1. PICK p \in Live :
          \/ ps' = [ps EXCEPT ![p] = [@ EXCEPT !.age = 0, !.jid = num]]
          \/ Touch(p)
    BY <1>3 DEF UpdateSource, Named
  <2>2. p \in PsAddr /\ phase = "running" /\ phase' = phase
    BY <1>3 DEF UpdateSource, CanRequest, Live
  <2> QED BY <2>1, <2>2, TouchRenews, SourceUpdateRenews
<1>4. ASSUME NEW k \in Conn, HandleReply(k)
      PROVE  LeasesKept
  BY <1>4, ReplyKeepsLeases
<1>5. CASE Tick
  BY <1>5, TickAges
<1>6. ASSUME NEW p \in PsAddr, PurgeOne(p) \/ DestroyOne(p)
      PROVE  Ended(p)
  <2>1. p \in Live /\ (phase = "purging" => ps[p].age > Interval)
    BY <1>6 DEF PurgeOne, DestroyOne, LoopInv, Orphans
  <2>2. Removed(p)
    BY <1>6, <2>1, DisposeRemoves DEF PurgeOne, DestroyOne
  <2> QED BY <1>6, <2>1, <2>2 DEF PurgeOne, DestroyOne, Ended, Serving
<1>7. CASE UNCHANGED ps /\ (Serving' => Serving)
  BY <1>7 DEF LeasesKept, Live, LeaseOf
<1>8. ASSUME NEW c \in Conn, Open(c) \/ Leave(c) \/ Rejected(c)
      PROVE  LeasesKept
  BY <1>8 DEF Open, Leave, Rejected, LeasesKept, Live, LeaseOf, Serving
<1>9. ASSUME NEW k \in Conn, Transmit(k) \/ CloseCall(k) \/ JanusServe(k)
      PROVE  LeasesKept
  BY <1>9
  DEF Transmit, CloseCall, JanusServe, LeasesKept, Live, LeaseOf, Serving
<1>10. ASSUME \/ \E h \in {"streaming", "videoroom"} : Attach(h)
              \/ PurgeStart \/ Signal \/ JanusDestroy \/ TaskManagerDestroy
              \/ Exit \/ Exited \/ UNCHANGED vars
       PROVE  LeasesKept
  BY <1>10
  DEF Attach, PurgeStart, Signal, JanusDestroy, TaskManagerDestroy, Exit,
      Exited, vars, LeasesKept, Live, LeaseOf, Serving
<1> QED
  BY <1>2, <1>3, <1>4, <1>5, <1>6, <1>8, <1>9, <1>10
  DEF Next, Client, Poll, Purge, Shutdown

-----------------------------------------------------------------------------
(* What the map makes of them. *)

\* A table of leases is the map when it has the lease of each streamer under
\* its name.
MapDetermined ==
    NamesUnique =>
        \A g : /\ g = [i \in DOMAIN g |-> g[i]] /\ DOMAIN g = Names
               /\ \A p \in Live : g[ps[p].id] = LeaseOf(p)
               => g = LeaseMap

LEMMA MapIs == MapDetermined
<1> SUFFICES ASSUME NamesUnique, NEW f,
                    f = [i \in DOMAIN f |-> f[i]], DOMAIN f = Names,
                    \A p \in Live : f[ps[p].id] = LeaseOf(p)
             PROVE  f = LeaseMap
  BY DEF MapDetermined
<1>1. ASSUME NEW i \in Names
      PROVE  f[i] = LeaseOf(CHOOSE p \in Live : ps[p].id = i)
  <2>1. (CHOOSE p \in Live : ps[p].id = i) \in Live
        /\ ps[CHOOSE p \in Live : ps[p].id = i].id = i
    BY DEF Names
  <2> QED BY <2>1
<1>2. LeaseMap = [i \in Names |-> f[i]]
  BY <1>1 DEF LeaseMap
<1> QED BY <1>2

LEMMA MapHas ==
    NamesUnique =>
        /\ LeaseMap = [i \in DOMAIN LeaseMap |-> LeaseMap[i]]
        /\ DOMAIN LeaseMap = Names
        /\ \A p \in Live : LeaseMap[ps[p].id] = LeaseOf(p)
<1> SUFFICES ASSUME NamesUnique
             PROVE  /\ LeaseMap = [i \in DOMAIN LeaseMap |-> LeaseMap[i]]
                    /\ DOMAIN LeaseMap = Names
                    /\ \A p \in Live : LeaseMap[ps[p].id] = LeaseOf(p)
  OBVIOUS
<1>1. ASSUME NEW p \in Live
      PROVE  LeaseMap[ps[p].id] = LeaseOf(p)
  <2>1. (CHOOSE q \in Live : ps[q].id = ps[p].id) = p
    BY DEF NamesUnique
  <2> QED BY <2>1 DEF LeaseMap, Names
<1> QED BY <1>1 DEF LeaseMap

LEMMA UniqueStep ==
    ASSUME TableInv, NamesUnique, [Next]_vars
    PROVE  NamesUnique'
<1>1. CASE LeasesKept
  BY <1>1 DEF LeasesKept, NamesUnique
<1>2. CASE Aged
  BY <1>2 DEF Aged, NamesUnique
<1>3. ASSUME NEW p \in PsAddr, Granted(p)
      PROVE  NamesUnique'
  BY <1>3 DEF Granted, Added, NamesUnique, Names
<1>4. ASSUME NEW p \in PsAddr, Renewed(p)
      PROVE  NamesUnique'
  BY <1>4 DEF Renewed, NamesUnique
<1>5. ASSUME NEW p \in PsAddr, Ended(p)
      PROVE  NamesUnique'
  BY <1>5 DEF Ended, Removed, NamesUnique
<1> QED
  BY <1>1, <1>2, <1>3, <1>4, <1>5, LeaseSteps, PostGrants DEF TableInv

LEMMA NextMap ==
    ASSUME NamesUnique',
           NEW f, f = [i \in DOMAIN f |-> f[i]], DOMAIN f = Names',
           \A p \in Live' : f[ps'[p].id] = LeaseOf(p)'
    PROVE  f = LeaseMap'
<1>1. MapDetermined'
  BY MapIs, PTL
<1> QED BY <1>1 DEF MapDetermined

LEMMA KeptMaps ==
    ASSUME NamesUnique, NamesUnique', LeasesKept
    PROVE  LeaseMap' = LeaseMap
<1>1. Names' = Names
  BY DEF LeasesKept, Names
<1> DEFINE f == LeaseMap
<1>2. f = [i \in DOMAIN f |-> f[i]] /\ DOMAIN f = Names'
  BY <1>1, MapHas
<1>3. \A p \in Live' : f[ps'[p].id] = LeaseOf(p)'
  BY MapHas DEF LeasesKept
<1> HIDE DEF f
<1>4. f = LeaseMap'
  BY <1>2, <1>3, NextMap
<1> QED BY <1>4 DEF f

LEMMA GrantedMaps ==
    ASSUME NamesUnique, NamesUnique', NEW p \in PsAddr, Granted(p)
    PROVE  LeaseMap' = [j \in Names \cup {ps'[p].id} |->
                          IF j = ps'[p].id
                          THEN [source |-> ps'[p].source, age |-> 0]
                          ELSE LeaseMap[j]]
<1> DEFINE f == [j \in Names \cup {ps'[p].id} |->
                   IF j = ps'[p].id
                   THEN [source |-> ps'[p].source, age |-> 0]
                   ELSE LeaseMap[j]]
<1>1. Live' = Live \cup {p} /\ \A q \in Live : ps'[q] = ps[q]
  BY DEF Granted, Added
<1>2. Names' = Names \cup {ps'[p].id}
  BY <1>1 DEF Names
<1>3. f[ps'[p].id] = LeaseOf(p)'
  BY DEF Granted, LeaseOf
<1>4. ASSUME NEW q \in Live
      PROVE  f[ps'[q].id] = LeaseOf(q)'
  <2>1. ps'[q] = ps[q] /\ ps[q].id \in Names /\ ps[q].id # ps'[p].id
    BY <1>1 DEF Granted, Names
  <2>2. f[ps'[q].id] = LeaseMap[ps[q].id]
    BY <2>1
  <2> QED BY <2>1, <2>2, MapHas DEF LeaseOf
<1>5. f = [i \in DOMAIN f |-> f[i]] /\ DOMAIN f = Names'
  BY <1>2
<1> HIDE DEF f
<1>6. f = LeaseMap'
  BY <1>1, <1>3, <1>4, <1>5, NextMap
<1> QED BY <1>6 DEF f

LEMMA RenewedMaps ==
    ASSUME NamesUnique, NamesUnique', NEW p \in PsAddr, Renewed(p)
    PROVE  LeaseMap' = [LeaseMap EXCEPT ![ps[p].id].age = 0]
<1> DEFINE f == [LeaseMap EXCEPT ![ps[p].id].age = 0]
<1>1. Names' = Names
  BY DEF Renewed, Names
<1>2. f = [i \in DOMAIN f |-> f[i]] /\ DOMAIN f = Names'
  BY <1>1, MapHas
<1>3. ASSUME NEW q \in Live
      PROVE  f[ps'[q].id] = LeaseOf(q)'
  <2>1. /\ ps'[q].id = ps[q].id /\ ps'[q].source = ps[q].source
        /\ ps'[q].age = IF q = p THEN 0 ELSE ps[q].age
        /\ LeaseMap[ps[q].id] = [source |-> ps[q].source, age |-> ps[q].age]
        /\ ps[q].id \in DOMAIN LeaseMap
    BY MapHas DEF Renewed, LeaseOf, Names
  <2>2. CASE q = p
    <3>1. f[ps[p].id] = [source |-> ps[p].source, age |-> 0]
      BY <2>1, <2>2
    <3> QED BY <2>1, <2>2, <3>1 DEF LeaseOf
  <2>3. CASE q # p
    <3>1. ps[q].id # ps[p].id
      BY <2>3 DEF Renewed, NamesUnique
    <3>2. f[ps[q].id] = LeaseMap[ps[q].id]
      BY <2>1, <3>1
    <3> QED BY <2>1, <2>3, <3>2 DEF LeaseOf
  <2> QED BY <2>2, <2>3
<1>4. Live' = Live
  BY DEF Renewed
<1> HIDE DEF f
<1>5. f = LeaseMap'
  BY <1>2, <1>3, <1>4, NextMap
<1> QED BY <1>5 DEF f

LEMMA AgedMaps ==
    ASSUME NamesUnique, NamesUnique', Aged
    PROVE  LeaseMap' =
              [i \in Names |->
                 [LeaseMap[i] EXCEPT !.age = Leases!Older(@)]]
<1> DEFINE f == [i \in Names |->
                   [LeaseMap[i] EXCEPT !.age = Leases!Older(@)]]
<1>1. Names' = Names /\ Live' = Live
  BY DEF Aged, Names
<1>2. ASSUME NEW q \in Live
      PROVE  f[ps'[q].id] = LeaseOf(q)'
  <2>1. /\ ps'[q].id = ps[q].id /\ ps'[q].source = ps[q].source
        /\ ps'[q].age = Leases!Older(ps[q].age)
        /\ LeaseMap[ps[q].id] = [source |-> ps[q].source, age |-> ps[q].age]
        /\ ps[q].id \in Names
    BY MapHas DEF Aged, LeaseOf, Names
  <2> QED BY <2>1 DEF LeaseOf
<1>3. f = [i \in DOMAIN f |-> f[i]] /\ DOMAIN f = Names'
  BY <1>1
<1> HIDE DEF f
<1>4. f = LeaseMap'
  BY <1>1, <1>2, <1>3, NextMap
<1> QED BY <1>4 DEF f

LEMMA EndedMaps ==
    ASSUME NamesUnique, NamesUnique', NEW p \in PsAddr, Ended(p)
    PROVE  LeaseMap' = [j \in Names \ {ps[p].id} |-> LeaseMap[j]]
<1> DEFINE f == [j \in Names \ {ps[p].id} |-> LeaseMap[j]]
<1>1. p \in Live /\ Live' = Live \ {p} /\ \A q \in Live' : ps'[q] = ps[q]
  BY DEF Ended, Removed
<1>2. Names' = Names \ {ps[p].id}
  BY <1>1 DEF Names, NamesUnique
<1>3. ASSUME NEW q \in Live'
      PROVE  f[ps'[q].id] = LeaseOf(q)'
  <2>1. ps'[q] = ps[q] /\ q \in Live /\ ps[q].id \in Names \ {ps[p].id}
    BY <1>1 DEF Names, NamesUnique
  <2> QED BY <2>1, MapHas DEF LeaseOf
<1>4. f = [i \in DOMAIN f |-> f[i]] /\ DOMAIN f = Names'
  BY <1>2
<1> HIDE DEF f
<1>5. f = LeaseMap'
  BY <1>3, <1>4, NextMap
<1> QED BY <1>5 DEF f

\* The names under which the map has leases are those held.
LEMMA HeldNames == Leases!Held = Names
BY DEF Leases!Held, Names

LEMMA GrantStep ==
    ASSUME NamesUnique, NamesUnique', NEW p \in PsAddr, Granted(p)
    PROVE  Leases!Next
<1>1. PICK i, source : i = ps'[p].id /\ source = ps'[p].source
  OBVIOUS
<1>2. LeaseMap' = [j \in Names \cup {i} |->
                     IF j = i THEN [source |-> source, age |-> 0]
                     ELSE LeaseMap[j]]
  BY <1>1, GrantedMaps
<1>3. i \in Ids \ Leases!Held /\ source \in BOOLEAN /\ Serving /\ Serving'
  BY <1>1, HeldNames DEF Granted
<1>4. Leases!Grant(i, source)
  BY <1>2, <1>3 DEF Leases!Grant, Leases!Held, LeaseMap, Names, Serving
<1> QED BY <1>3, <1>4 DEF Leases!Next

LEMMA RenewStep ==
    ASSUME NamesUnique, NamesUnique', NEW p \in PsAddr, Renewed(p)
    PROVE  Leases!Next
<1>1. PICK i : i = ps[p].id
  OBVIOUS
<1>2. LeaseMap' = [LeaseMap EXCEPT ![i].age = 0]
  BY <1>1, RenewedMaps
<1>3. i \in Leases!Held /\ Serving /\ Serving'
  BY <1>1, HeldNames DEF Renewed, Names
<1>4. Leases!Renew(i)
  BY <1>2, <1>3 DEF Leases!Renew, LeaseMap, Names, Serving
<1> QED BY <1>3, <1>4 DEF Leases!Next

LEMMA AgeStep ==
    ASSUME NamesUnique, NamesUnique', Aged
    PROVE  Leases!Next
<1>1. LeaseMap' = [i \in Names |->
                     [LeaseMap[i] EXCEPT !.age = Leases!Older(@)]]
  BY AgedMaps
<1>2. Leases!Tick
  BY <1>1 DEF Aged, Leases!Tick, Leases!Held, LeaseMap, Names, Serving
<1> QED BY <1>2 DEF Leases!Next

LEMMA EndStep ==
    ASSUME NamesUnique, NamesUnique', NEW p \in PsAddr, Ended(p)
    PROVE  Leases!Next
<1>1. PICK i : i = ps[p].id
  OBVIOUS
<1>2. LeaseMap' = [j \in Names \ {i} |-> LeaseMap[j]]
  BY <1>1, EndedMaps
<1>3. i \in Leases!Held
  BY <1>1, HeldNames DEF Ended, Removed, Names
<1>4. Leases!Remove(i)
  BY <1>2 DEF Leases!Remove, Leases!Held, LeaseMap, Names
<1>5. CASE Serving
  <2>1. Serving' /\ ps[p].age > Interval /\ p \in Live
    BY <1>5 DEF Ended, Removed
  <2>2. LeaseMap[i].age > Interval
    <3>1. LeaseMap[i] = LeaseOf(p)
      BY <1>1, <2>1, MapHas
    <3>2. LeaseOf(p).age = ps[p].age
      BY DEF LeaseOf
    <3> QED BY <2>1, <3>1, <3>2
  <2>3. Leases!Expire(i)
    BY <1>4, <1>5, <2>1, <2>2 DEF Leases!Expire, LeaseMap, Names, Serving
  <2> QED BY <1>3, <2>3 DEF Leases!Next
<1>6. CASE ~Serving
  <2>1. ~Serving'
    BY <1>6 DEF Ended
  <2>2. Leases!Revoke(i)
    BY <1>4, <1>6, <2>1 DEF Leases!Revoke, Serving
  <2> QED BY <1>3, <2>2 DEF Leases!Next
<1> QED BY <1>5, <1>6

LEMMA KeepStep ==
    ASSUME NamesUnique, NamesUnique', LeasesKept
    PROVE  Leases!Next \/ UNCHANGED Leases!vars
<1>1. LeaseMap' = LeaseMap
  BY KeptMaps
<1>2. CASE Serving' = Serving
  BY <1>1, <1>2 DEF Leases!vars, LeaseMap, Names, Serving
<1>3. CASE Serving /\ ~Serving'
  <2>1. /\ phase \in {"running", "purging"}
        /\ (phase' \in {"running", "purging"}) = FALSE
    BY <1>3 DEF Serving
  <2>2. Leases!Close
    BY <1>1, <2>1, Zenon DEF Leases!Close, LeaseMap, Names
  <2> QED BY <2>2 DEF Leases!Next
<1> QED BY <1>2, <1>3 DEF LeasesKept, Serving

\* A name is under one streamer at a time.
LEMMA NamesInductive == Spec => []NamesUnique
<1>1. Init => NamesUnique
  BY DEF Init, NamesUnique, Live
<1>2. TableInv /\ NamesUnique /\ [Next]_vars => NamesUnique'
  BY UniqueStep
<1> QED BY <1>1, <1>2, TableInductive, PTL DEF Spec

\* pstreamer_manager_create_streamer, pstreamer_touch, the purge and the
\* teardown: whatever fails on the way to Janus and back, clients see a table
\* of leases, in which a name is held by one streamer, a lease that is renewed
\* in time is never taken away, and nothing is granted after the signal.
THEOREM LeasesImplemented == Spec => ImplementsLeases
<1>1. Init => Leases!Init
  <2> SUFFICES ASSUME Init PROVE Leases!Init
    OBVIOUS
  <2>1. Live = {} /\ phase = "running"
    BY DEF Init, Live
  <2> QED BY <2>1 DEF Leases!Init
<1>2. TableInv /\ NamesUnique /\ NamesUnique' /\ [Next]_vars
         => [Leases!Next]_(Leases!vars)
  <2> SUFFICES ASSUME TableInv, NamesUnique, NamesUnique', [Next]_vars
               PROVE  Leases!Next \/ UNCHANGED Leases!vars
    BY DEF Leases!vars
  <2> QED
    BY LeaseSteps, PostGrants, GrantStep, RenewStep, AgeStep, EndStep,
       KeepStep DEF TableInv
<1> QED
  BY <1>1, <1>2, TableInductive, NamesInductive, PTL
  DEF Spec, ImplementsLeases, Leases!Spec

-----------------------------------------------------------------------------
(* The callbacks of the creations. *)

Creation(k) == call[k] # None /\ call[k].op \in Creations

LEMMA CreationType ==
    ASSUME TypeOK, NEW k \in Conn, Creation(k)
    PROVE  /\ k \in Pending /\ call[k] \in Call
           /\ call[k].ps \in PsAddr /\ call[k].client \in Conn
           /\ call[k].wait \in 0..(Interval + 1) /\ call[k].stale \in BOOLEAN
BY DEF Creation, TypeOK, Pending, Call, CallRecord

\* Only creations know a client.
LEMMA ClientsOfCreations ==
    ASSUME TypeOK, NEW k \in Pending, call[k].client # None
    PROVE  Creation(k)
BY DEF Creation, TypeOK, Pending, Call

-----------------------------------------------------------------------------
(* What a step does to the creations in flight. *)

\* Nothing that a property of the callbacks looks at changes.
SameCall(r, s) ==
    /\ r.op = s.op /\ r.ps = s.ps /\ r.client = s.client
    /\ r.gone = s.gone /\ r.stale = s.stale /\ r.wait = s.wait

\* Calls are added that carry no callback, and none is lost.
Quiet(cs, ds) ==
    \A k \in Conn :
        \/ cs[k] # None /\ ds[k] # None /\ SameCall(ds[k], cs[k])
        \/ cs[k] = None /\ (ds[k] # None => ds[k].op \notin Creations)

LEMMA RequestQuiet ==
    ASSUME call \in Calls, NEW r \in Call, r.op \notin Creations, NEW h,
           NEW cs \in Request(call, h, r)
    PROVE  Quiet(call, cs)
<1>1. Quiet(call, call)
  BY DEF Quiet, SameCall
<1>2. ASSUME NEW k \in FreeConn, cs = [call EXCEPT ![k] = r]
      PROVE  Quiet(call, cs)
  <2>1. k \in Conn /\ call[k] = None
    BY DEF FreeConn, ActiveConn
  <2>2. cs[k] = r /\ \A j \in Conn \ {k} : cs[j] = call[j]
    BY <1>2, <2>1 DEF Calls
  <2> QED BY <2>1, <2>2 DEF Quiet, SameCall
<1> QED BY <1>1, <1>2 DEF Request, Connect

LEMMA DestroyQuiet ==
    ASSUME call \in Calls, NEW i \in Ids,
           NEW num \in MountIds \cup ParticipantIds \cup {None},
           NEW cs \in DestroyStreamingPoint(call, num)
                        \cup DestroyVideoroom(call, i)
                        \cup ForwardRtp(call, i, num)
    PROVE  Quiet(call, cs)
<1>1. /\ NewCall("destroy_mount", None, None, num, None) \in Call
      /\ NewCall("destroy_room", None, i, None, None) \in Call
      /\ NewCall("forward", None, i, num, None) \in Call
  BY ZeroAge DEF NewCall, Call, CallRecord, Ops, Creations
<1>2. /\ NewCall("destroy_mount", None, None, num, None).op \notin Creations
      /\ NewCall("destroy_room", None, i, None, None).op \notin Creations
      /\ NewCall("forward", None, i, num, None).op \notin Creations
  BY DEF NewCall, Creations
<1>3. Quiet(call, call)
  BY DEF Quiet, SameCall
<1>4. CASE cs \in DestroyStreamingPoint(call, num)
  BY <1>1, <1>2, <1>3, <1>4, RequestQuiet DEF DestroyStreamingPoint
<1>5. CASE cs \in DestroyVideoroom(call, i)
  BY <1>1, <1>2, <1>5, RequestQuiet DEF DestroyVideoroom
<1>6. CASE cs \in ForwardRtp(call, i, num)
  BY <1>1, <1>2, <1>6, RequestQuiet DEF ForwardRtp
<1> QED BY <1>4, <1>5, <1>6

\* A creation with callback (p, c) is put on a free connection.
Begun(k, p, c) ==
    /\ k \in FreeConn
    /\ \E r \in Call :
          /\ call' = [call EXCEPT ![k] = r]
          /\ r.op \in Creations /\ r.ps = p /\ r.client = c
          /\ r.gone = FALSE /\ r.stale = FALSE /\ r.wait = 0

LEMMA CreateBegins ==
    ASSUME call \in Calls, NEW p \in PsAddr, NEW i \in Ids, NEW c \in Conn,
           call' \in CreateStreamingPoint(call, p, c)
                       \cup CreateVideoroom(call, p, i, c)
    PROVE  call' = call \/ \E k \in Conn : Begun(k, p, c)
<1>1. /\ NewCall("create_mount", p, None, None, c) \in Call
      /\ NewCall("create_room", p, i, None, c) \in Call
  BY ZeroAge DEF NewCall, Call, CallRecord, Ops, Creations
<1>2. ASSUME NEW r \in Call, NEW h, call' \in Request(call, h, r),
             r.op \in Creations, r.ps = p, r.client = c,
             r.gone = FALSE, r.stale = FALSE, r.wait = 0
      PROVE  call' = call \/ \E k \in Conn : Begun(k, p, c)
  BY <1>2 DEF Request, Connect, Begun, FreeConn
<1>3. \A op \in Creations, j \in {None, i} :
         LET r == NewCall(op, p, j, None, c)
         IN  /\ r.op \in Creations /\ r.ps = p /\ r.client = c
             /\ r.gone = FALSE /\ r.stale = FALSE /\ r.wait = 0
  BY DEF NewCall
<1>4. {"create_mount", "create_room"} = Creations
  BY DEF Creations
<1> QED
  BY <1>1, <1>2, <1>3, <1>4 DEF CreateStreamingPoint, CreateVideoroom

\* pstreamer_deinit marks the callbacks of the streamer it frees, and only
\* those.
LEMMA DisposeQuiet ==
    ASSUME TypeOK, NEW p \in Live, NEW calls,
           calls \in {DestroyStreamingPoint(call, ps[p].jid),
                      DestroyVideoroom(call, ps[p].id)},
           Dispose(p, calls)
    PROVE  \A k \in Conn :
              /\ Creation(k)' <=> Creation(k)
              /\ Creation(k) =>
                    /\ call'[k].client = call[k].client
                    /\ call'[k].gone = call[k].gone
                    /\ call'[k].ps = call[k].ps
                    /\ call'[k].wait = call[k].wait
                    /\ IF call[k].ps = p THEN call'[k].stale
                       ELSE call'[k].stale = call[k].stale
<1>1. ps[p] \in PStreamer /\ call \in Calls
  BY DEF TypeOK, Live, Calls
<1>2. /\ ps[p].id \in Ids
      /\ ps[p].jid \in MountIds \cup ParticipantIds \cup {None}
  BY <1>1 DEF PStreamer
<1>3. PICK cs \in calls : call' = MarkStale(cs, p)
  BY DEF Dispose
<1>4. cs \in Calls /\ Quiet(call, cs)
  BY <1>1, <1>2, DestroyType, DestroyQuiet
<1>5. ASSUME NEW k \in Conn
      PROVE  /\ (cs[k] # None <=> call'[k] # None)
             /\ cs[k] # None =>
                   /\ call'[k].op = cs[k].op
                   /\ call'[k].client = cs[k].client
                   /\ call'[k].gone = cs[k].gone
                   /\ call'[k].ps = cs[k].ps
                   /\ call'[k].wait = cs[k].wait
                   /\ IF cs[k].ps = p THEN call'[k].stale
                      ELSE call'[k].stale = cs[k].stale
  <2>1. CASE cs[k] # None /\ cs[k].ps = p
    <3>1. cs[k] \in Call /\ [cs[k] EXCEPT !.stale = TRUE] \in Call
      BY <1>4, <2>1 DEF Calls, Call, CallRecord
    <3>2. call'[k] = [cs[k] EXCEPT !.stale = TRUE]
      BY <1>3, <2>1 DEF MarkStale
    <3>3. call'[k] # None
      BY <3>1, <3>2, NoneAssumption
    <3> QED BY <2>1, <3>1, <3>2, <3>3 DEF Call, CallRecord
  <2>2. CASE ~(cs[k] # None /\ cs[k].ps = p)
    <3>1. call'[k] = cs[k]
      BY <1>3, <2>2 DEF MarkStale
    <3> QED BY <2>2, <3>1
  <2> QED BY <2>1, <2>2
<1> QED BY <1>4, <1>5 DEF Quiet, SameCall, Creation

\* The progress of a call inside Janus changes nothing of its callback.
LEMMA ProgressQuiet ==
    ASSUME TypeOK, NEW k \in Conn,
           Transmit(k) \/ HandleReply(k) \/ JanusServe(k)
    PROVE  Quiet(call, call')
<1>1. call[k] \in Call
  BY DEF TypeOK, Transmit, HandleReply, JanusServe
<1>2. PICK t \in {"sent", "closing", "answered"},
           num \in MountIds \cup ParticipantIds \cup {None} :
         call'[k] = [call[k] EXCEPT !.stage = t, !.num = num]
  <2>1. CASE Transmit(k) \/ HandleReply(k)
    <3>1. PICK t \in {"sent", "closing"} : call'[k] = [call[k] EXCEPT !.stage = t]
      BY <2>1 DEF Transmit, HandleReply, TypeOK
    <3>2. [call[k] EXCEPT !.stage = t]
            = [call[k] EXCEPT !.stage = t, !.num = call[k].num]
      BY <1>1 DEF Call, CallRecord
    <3>3. call[k].num \in MountIds \cup ParticipantIds \cup {None}
      BY <1>1 DEF Call, CallRecord
    <3> QED BY <3>1, <3>2, <3>3
  <2>2. CASE JanusServe(k)
    BY <2>2 DEF JanusServe, TypeOK
  <2> QED BY <2>1, <2>2
<1>3. SameCall(call'[k], call[k]) /\ call'[k] \in Call
  BY <1>1, <1>2 DEF SameCall, Call, CallRecord
<1>4. call[k] # None /\ call'[k] # None
  BY <1>1, <1>3, NoneAssumption
<1>5. \A j \in Conn \ {k} : call'[j] = call[j]
  BY DEF TypeOK, Transmit, HandleReply, JanusServe
<1> QED BY <1>3, <1>4, <1>5 DEF Quiet, SameCall

LEMMA UpdateQuiet ==
    ASSUME TypeOK, NEW c \in Conn, NEW i \in Ids, NEW num \in ParticipantIds,
           UpdateSource(c, i, num)
    PROVE  Quiet(call, call')
<1>1. CASE UNCHANGED call
  BY <1>1 DEF Quiet, SameCall
<1>2. CASE call' \in ForwardRtp(call, i, num)
  BY <1>2, DestroyQuiet DEF TypeOK, Calls
<1> QED BY <1>1, <1>2 DEF UpdateSource

\* A client's close marks the callbacks that would answer it.
LEMMA LeaveMarks ==
    ASSUME TypeOK, NEW c \in Conn, Leave(c)
    PROVE  \A k \in Conn :
              /\ Creation(k)' <=> Creation(k)
              /\ Creation(k) =>
                    /\ call'[k].client = call[k].client
                    /\ call'[k].gone = (call[k].gone \/ call[k].client = c)
                    /\ call'[k].ps = call[k].ps
                    /\ call'[k].stale = call[k].stale
                    /\ call'[k].wait = call[k].wait
<1> SUFFICES ASSUME NEW k \in Conn
             PROVE  /\ Creation(k)' <=> Creation(k)
                    /\ Creation(k) =>
                          /\ call'[k].client = call[k].client
                          /\ call'[k].gone = (call[k].gone \/ call[k].client = c)
                          /\ call'[k].ps = call[k].ps
                          /\ call'[k].stale = call[k].stale
                          /\ call'[k].wait = call[k].wait
  OBVIOUS
<1>1. call' = MarkGone(call, c)
  BY DEF Leave
<1>2. CASE call[k] # None /\ call[k].client = c
  <2>1. call[k] \in Call /\ [call[k] EXCEPT !.gone = TRUE] \in Call
    BY <1>2 DEF TypeOK, Call, CallRecord
  <2>2. call'[k] = [call[k] EXCEPT !.gone = TRUE]
    BY <1>1, <1>2 DEF MarkGone
  <2>3. call'[k] # None
    BY <2>1, <2>2, NoneAssumption
  <2> QED BY <1>2, <2>1, <2>2, <2>3 DEF Creation, Call, CallRecord
<1>3. CASE ~(call[k] # None /\ call[k].client = c)
  <2>1. call'[k] = call[k]
    BY <1>1, <1>3 DEF MarkGone
  <2>2. Creation(k) => call[k].gone \in BOOLEAN
    BY DEF Creation, TypeOK, Call, CallRecord
  <2> QED BY <1>3, <2>1, <2>2 DEF Creation
<1> QED BY <1>2, <1>3

\* Time adds to the wait of the creations and leaves the rest of the calls.
LEMMA TickWaits ==
    ASSUME TypeOK, Tick, NEW k \in Conn
    PROVE  /\ call'[k] # None <=> call[k] # None
           /\ Creation(k)' <=> Creation(k)
           /\ call[k] # None =>
                 /\ call'[k].op = call[k].op /\ call'[k].ps = call[k].ps
                 /\ call'[k].client = call[k].client
                 /\ call'[k].gone = call[k].gone /\ call'[k].stale = call[k].stale
                 /\ call'[k].stage = call[k].stage /\ call'[k].num = call[k].num
                 /\ call'[k].id = call[k].id
           /\ Creation(k) => call'[k].wait = Later(call[k].wait)
<1>1. call' = Waited(call)
  BY DEF Tick
<1>2. CASE Creation(k)
  <2>1. call[k] \in Call /\ [call[k] EXCEPT !.wait = Later(@)] \in Call
    <3>1. call[k] \in Call /\ Later(call[k].wait) \in 0..(Interval + 1)
      BY <1>2, CreationType, LaterType
    <3> QED BY <3>1 DEF Call, CallRecord
  <2>2. call'[k] = [call[k] EXCEPT !.wait = Later(@)]
    BY <1>1, <1>2 DEF Waited, Creation
  <2>3. call'[k] # None
    BY <2>1, <2>2, NoneAssumption
  <2> QED BY <1>2, <2>1, <2>2, <2>3 DEF Creation, Call, CallRecord
<1>3. CASE ~Creation(k)
  <2>1. call'[k] = call[k]
    BY <1>1, <1>3 DEF Waited, Creation
  <2> QED BY <1>3, <2>1 DEF Creation
<1> QED BY <1>2, <1>3

-----------------------------------------------------------------------------
(* The pointers of a creation. *)

\* A creation points to its streamer k at p, which is no older than it.
Points(k, p) == p \in Live /\ ps[p].age <= call[k].wait

\* The streamer of a creation lives and is no older than the creation, unless
\* the purge has taken it, after a wait as long as any lease.
PointersInv ==
    phase \in {"running", "purging"} =>
        \A k \in Conn : Creation(k) =>
            IF call[k].stale THEN call[k].wait > Interval
            ELSE Points(k, call[k].ps)

\* Ages do not grow and no streamer goes.
NoOlder ==
    /\ Live \subseteq Live'
    /\ \A p \in Live : ps'[p].age <= ps[p].age

LEMMA PointersKept ==
    ASSUME TypeOK, PointersInv, NoOlder, Quiet(call, call'),
           phase \in {"running", "purging"}, TypeOK'
    PROVE  PointersInv'
<1> SUFFICES ASSUME NEW k \in Conn, Creation(k)'
             PROVE  IF call'[k].stale THEN call'[k].wait > Interval
                    ELSE /\ call'[k].ps \in Live'
                         /\ ps'[call'[k].ps].age <= call'[k].wait
  BY DEF PointersInv, Points
<1>1. Creation(k) /\ SameCall(call'[k], call[k])
  BY DEF Quiet, Creation, SameCall
<1>2. CASE call[k].stale
  BY <1>1, <1>2 DEF PointersInv, SameCall
<1>3. CASE ~call[k].stale
  <2> DEFINE p == call[k].ps
  <2>1. p \in Live /\ ps[p].age <= call[k].wait /\ p \in Live'
        /\ ps'[p].age <= ps[p].age
    BY <1>1, <1>3 DEF PointersInv, Points, NoOlder
  <2>2. ps[p] \in PStreamer /\ ps'[p] \in PStreamer
    BY <2>1, NoneAssumption DEF TypeOK, Live
  <2>3. ps[p].age \in Int /\ ps'[p].age \in Int
    BY <2>2 DEF PStreamer
  <2>4. call[k].wait \in Int
    BY <1>1, CreationType
  <2>5. ps'[p].age <= call[k].wait
    <3> HIDE DEF p
    <3> QED BY <2>1, <2>3, <2>4
  <2> QED BY <1>1, <1>3, <2>1, <2>5 DEF SameCall
<1> QED BY <1>2, <1>3

\* Renewals and the replies of Janus leave the streamers in place.
LEMMA UpdatesNoOlder ==
    ASSUME TypeOK, TypeOK', NEW c \in Conn, NEW i,
           \/ UpdateChannel(c, i)
           \/ \E num \in ParticipantIds : UpdateSource(c, i, num)
           \/ HandleReply(c)
    PROVE  NoOlder
<1>1. \A p \in Live : ps[p] \in PStreamer /\ ps[p].age \in 0..(Interval + 1)
  BY DEF Live, TypeOK, PStreamer
<1>2. CASE UNCHANGED ps
  BY <1>1, <1>2, StreamersAssumption DEF NoOlder, Live
<1>3. ASSUME NEW p \in Live, NEW a \in 0..(Interval + 1),
             a <= ps[p].age,
             NEW j \in MountIds \cup ParticipantIds \cup {None},
             ps' = [ps EXCEPT ![p] = [@ EXCEPT !.age = a, !.jid = j]]
      PROVE  NoOlder
  <2>1. [ps[p] EXCEPT !.age = a, !.jid = j] \in PStreamer
    BY <1>1 DEF PStreamer
  <2>2. /\ ps'[p] = [ps[p] EXCEPT !.age = a, !.jid = j]
        /\ \A q \in PsAddr \ {p} : ps'[q] = ps[q]
    BY <1>3 DEF TypeOK, Live
  <2>3. ps'[p].age = a
    BY <1>1, <2>2 DEF PStreamer
  <2>4. Live' = Live
    BY <2>1, <2>2, NoneAssumption DEF Live
  <2> QED
    BY <1>1, <1>3, <2>2, <2>3, <2>4, StreamersAssumption DEF NoOlder, Live
<1>4. \A p \in Live : 0 <= ps[p].age /\ ps[p].age <= ps[p].age
  BY <1>1, StreamersAssumption
<1>5. \A p \in Live, v \in MountIds \cup ParticipantIds \cup {None} :
         /\ [ps[p] EXCEPT !.age = 0] = [ps[p] EXCEPT !.age = 0, !.jid = ps[p].jid]
         /\ [ps[p] EXCEPT !.jid = v] = [ps[p] EXCEPT !.age = ps[p].age, !.jid = v]
         /\ ps[p].jid \in MountIds \cup ParticipantIds \cup {None}
  BY <1>1 DEF PStreamer
<1>6. ASSUME NEW p \in Live, Touch(p)
      PROVE  NoOlder
  <2>1. ps' = [ps EXCEPT ![p] = [@ EXCEPT !.age = 0, !.jid = ps[p].jid]]
    BY <1>6, <1>5 DEF Touch
  <2> QED BY <2>1, <1>3, <1>4, <1>5, ZeroAge
<1>7. CASE UpdateChannel(c, i)
  BY <1>6, <1>7 DEF UpdateChannel, Named
<1>8. CASE \E num \in ParticipantIds : UpdateSource(c, i, num)
  <2>1. PICK num \in ParticipantIds, p \in Live :
           \/ ps' = [ps EXCEPT ![p] = [@ EXCEPT !.age = 0, !.jid = num]]
           \/ Touch(p)
    BY <1>8 DEF UpdateSource, Named
  <2>2. CASE ps' = [ps EXCEPT ![p] = [@ EXCEPT !.age = 0, !.jid = num]]
    BY <2>2, <1>3, <1>4, ZeroAge
  <2> QED BY <2>1, <2>2, <1>6
<1>9. CASE HandleReply(c)
  <2>1. call[c] \in Call
    BY <1>9 DEF HandleReply, TypeOK
  <2>2. call[c].num \in MountIds \cup ParticipantIds \cup {None}
    BY <2>1 DEF Call, CallRecord
  <2>3. \/ UNCHANGED ps
        \/ \E p \in Live, v \in MountIds \cup ParticipantIds \cup {None} :
              ps' = [ps EXCEPT ![p].jid = v]
    <3>1. CASE UNCHANGED ps
      BY <3>1
    <3>2. CASE ~UNCHANGED ps
      <4> DEFINE q == call[c].ps
      <4>1. /\ q \in Live
            /\ \E v \in {None, ps[q].jid, call[c].num} :
                  ps' = [ps EXCEPT ![q].jid = v]
        BY <1>9, <3>2 DEF HandleReply, StoreReply
      <4>2. PICK v \in {None, ps[q].jid, call[c].num} :
               ps' = [ps EXCEPT ![q].jid = v]
        BY <4>1
      <4> HIDE DEF q
      <4>3. v \in MountIds \cup ParticipantIds \cup {None}
        BY <4>1, <1>5, <2>2
      <4> QED BY <4>1, <4>2, <4>3
    <3> QED BY <3>1, <3>2
  <2>4. ASSUME NEW p \in Live, NEW v \in MountIds \cup ParticipantIds \cup {None},
               ps' = [ps EXCEPT ![p].jid = v]
        PROVE  NoOlder
    <3>1. ps' = [ps EXCEPT ![p] = [@ EXCEPT !.age = ps[p].age, !.jid = v]]
      BY <2>4, <1>5
    <3> QED BY <3>1, <1>1, <1>3, <1>4
  <2> QED BY <2>3, <2>4, <1>2
<1> QED BY <1>7, <1>8, <1>9

LEMMA PointersStep ==
    ASSUME TableInv, TypeOK', PointersInv, [Next]_vars
    PROVE  PointersInv'
<1> USE DEF TableInv
<1>1. CASE phase' \notin {"running", "purging"}
  BY <1>1 DEF PointersInv
<1>2. ASSUME UNCHANGED <<ps, call>>, phase \in {"running", "purging"}
      PROVE  PointersInv'
  BY <1>2 DEF PointersInv, Points, Creation, Live
<1>3. ASSUME \/ \E c \in Conn : Open(c) \/ Rejected(c)
             \/ \E h \in {"streaming", "videoroom"} : Attach(h)
             \/ PurgeStart \/ UNCHANGED vars
      PROVE  PointersInv'
  BY <1>1, <1>2, <1>3 DEF Open, Rejected, CanRequest, PurgeStart, Attach, vars
<1>4. ASSUME NEW c \in Conn, Leave(c)
      PROVE  PointersInv'
  BY <1>1, <1>4, LeaveMarks DEF Leave, PointersInv, Points, Live
<1>5. ASSUME NEW c \in Conn, NEW i \in Ids, PostChannel(c, i) \/ PostSource(c, i)
      PROVE  PointersInv'
  <2>1. PICK p \in FreePs, source \in BOOLEAN, hosted \in BOOLEAN :
           \/ Launch(c, p, i, source, hosted, CreateStreamingPoint(call, p, c))
           \/ Launch(c, p, i, source, hosted, CreateVideoroom(call, p, i, c))
    BY <1>5 DEF PostChannel, PostSource
  <2>2. Added(p) /\ ps'[p].age = 0
    BY <2>1, LaunchAdds
  <2>3. p \in PsAddr
    BY DEF FreePs
  <2>4. call' = call \/ \E k \in Conn : Begun(k, p, c)
    BY <2>1, <2>3, CreateBegins DEF Launch, TypeOK, Calls
  <2>5. phase = "running"
    BY <1>5 DEF PostChannel, PostSource, CanRequest
  <2>6. \A k \in Conn : Creation(k) =>
           IF call[k].stale THEN call[k].wait > Interval
           ELSE call[k].ps \in Live' /\ ps'[call[k].ps].age <= call[k].wait
    BY <2>2, <2>5 DEF PointersInv, Points, Added
  <2>7. CASE call' = call
    BY <2>6, <2>7 DEF PointersInv, Points, Creation
  <2>8. ASSUME NEW k \in Conn, Begun(k, p, c)
        PROVE  PointersInv'
    <3>1. /\ \A j \in Conn \ {k} : call'[j] = call[j]
          /\ call'[k].stale = FALSE /\ call'[k].ps = p /\ call'[k].wait = 0
      BY <2>8 DEF Begun, TypeOK
    <3>2. p \in Live' /\ ps'[p].age <= 0
      BY <2>2 DEF Added
    <3> QED BY <2>6, <3>1, <3>2 DEF PointersInv, Points, Creation
  <2> QED BY <2>4, <2>7, <2>8
<1>6. ASSUME NEW c \in Conn, NEW i \in Ids, UpdateChannel(c, i)
      PROVE  PointersInv'
  <2>1. Quiet(call, call') /\ phase = "running"
    BY <1>6 DEF UpdateChannel, CanRequest, Quiet, SameCall
  <2> QED BY <1>6, <2>1, UpdatesNoOlder, PointersKept
<1>7. ASSUME NEW c \in Conn, NEW i \in Ids, NEW num \in ParticipantIds,
             UpdateSource(c, i, num)
      PROVE  PointersInv'
  <2>1. Quiet(call, call') /\ phase = "running"
    BY <1>7, UpdateQuiet DEF UpdateSource, CanRequest
  <2>2. NoOlder
    BY <1>7, UpdatesNoOlder
  <2> QED BY <2>1, <2>2, PointersKept
<1>8. ASSUME NEW k \in Conn, Transmit(k) \/ HandleReply(k) \/ JanusServe(k)
      PROVE  PointersInv'
  <2>1. Quiet(call, call')
    BY <1>8, ProgressQuiet
  <2>2. UNCHANGED ps \/ HandleReply(k)
    BY <1>8 DEF Transmit, JanusServe
  <2>3. NoOlder
    <3>1. CASE UNCHANGED ps
      BY <3>1, StreamersAssumption DEF NoOlder, Live, TypeOK, PStreamer
    <3>2. CASE HandleReply(k)
      BY <3>2, UpdatesNoOlder
    <3> QED BY <2>2, <3>1, <3>2
  <2>4. phase' = phase
    BY <1>8 DEF Transmit, HandleReply, JanusServe
  <2> QED BY <1>1, <2>1, <2>3, <2>4, PointersKept
<1>9. ASSUME NEW k \in Conn, CloseCall(k)
      PROVE  PointersInv'
  BY <1>1, <1>9 DEF CloseCall, PointersInv, Points, Creation, Live, TypeOK
<1>10. CASE Tick
  <2>1. Aged /\ phase = "running"
    BY <1>10, TickAges DEF Tick
  <2>2. ASSUME NEW k \in Conn, Creation(k)'
        PROVE  IF call'[k].stale THEN call'[k].wait > Interval
               ELSE Points(k, call[k].ps)' /\ call'[k].ps = call[k].ps
    <3>1. /\ Creation(k) /\ call'[k].ps = call[k].ps
          /\ call'[k].stale = call[k].stale
          /\ call'[k].wait = Later(call[k].wait)
      BY <1>10, <2>2, TickWaits DEF Creation
    <3>2. call[k].wait \in 0..(Interval + 1)
      BY <3>1, CreationType
    <3>3. CASE call[k].stale
      <4>1. call[k].wait > Interval
        BY <2>1, <3>1, <3>3 DEF PointersInv
      <4>2. Later(call[k].wait) > Interval
        BY <3>2, <4>1, StreamersAssumption DEF Later
      <4> QED BY <3>1, <3>3, <4>2
    <3>4. CASE ~call[k].stale
      <4> DEFINE p == call[k].ps
      <4>1. p \in Live /\ ps[p].age <= call[k].wait
        BY <2>1, <3>1, <3>4 DEF PointersInv, Points
      <4>2. ps[p].age \in 0..(Interval + 1)
        BY <4>1 DEF TypeOK, Live, PStreamer
      <4>3. p \in Live' /\ ps'[p].age = Leases!Older(ps[p].age)
        BY <2>1, <4>1 DEF Aged
      <4>4. Leases!Older(ps[p].age) <= Later(call[k].wait)
        <5> HIDE DEF p
        <5> QED BY <3>2, <4>1, <4>2, StreamersAssumption DEF Leases!Older, Later
      <4> QED BY <3>1, <3>4, <4>3, <4>4 DEF Points
    <3> QED BY <3>3, <3>4
  <2> QED BY <2>2 DEF PointersInv, Points
<1>11. ASSUME NEW p \in PsAddr, PurgeOne(p)
       PROVE  PointersInv'
  <2>1. p \in Live /\ p \in doomed /\ phase = "purging" /\ ps[p].age > Interval
    BY <1>11 DEF PurgeOne, LoopInv, Orphans
  <2>2. /\ Removed(p)
        /\ \A k \in Conn :
              /\ Creation(k)' <=> Creation(k)
              /\ Creation(k) =>
                    /\ call'[k].ps = call[k].ps
                    /\ call'[k].wait = call[k].wait
                    /\ IF call[k].ps = p THEN call'[k].stale
                       ELSE call'[k].stale = call[k].stale
    BY <1>11, <2>1, DisposeQuiet, DisposeRemoves DEF PurgeOne
  <2>3. ASSUME NEW k \in Conn, Creation(k), call[k].ps = p
        PROVE  call[k].wait > Interval
    <3>1. ps[p].age \in Int /\ Interval \in Int /\ call[k].wait \in Int
      BY <2>1, <2>3, CreationType, StreamersAssumption DEF TypeOK, Live, PStreamer
    <3>2. call[k].wait > Interval \/ ps[p].age <= call[k].wait
      BY <2>1, <2>3 DEF PointersInv, Points
    <3> QED BY <2>1, <3>1, <3>2
  <2>4. ASSUME NEW k \in Conn, Creation(k), call[k].ps # p, ~call[k].stale
        PROVE  call[k].ps \in Live' /\ ps'[call[k].ps].age <= call[k].wait
    BY <2>1, <2>2, <2>4 DEF PointersInv, Points, Removed
  <2>5. ASSUME NEW k \in Conn, Creation(k), call[k].stale
        PROVE  call[k].wait > Interval
    BY <2>1, <2>5 DEF PointersInv
  <2> QED BY <2>2, <2>3, <2>4, <2>5 DEF PointersInv, Points
<1>12. CASE Signal \/ Shutdown \/ Exited
  <2>1. phase' \in {"sleeping", "destroying", "janus_gone", "freeing", "exited"}
    BY <1>12
    DEF Signal, Shutdown, DestroyOne, JanusDestroy, TaskManagerDestroy, Exit,
        Exited, vars
  <2> QED BY <2>1, <1>1
<1> QED
  BY <1>1, <1>2, <1>3, <1>4, <1>5, <1>6, <1>7, <1>8, <1>9, <1>10, <1>11, <1>12
  DEF Next, Client, Poll, Purge

\* Whatever fails, and however long Janus takes: the purge frees no streamer
\* that a creation in flight points to (data[0] and scc->ps of
\* pstreamer_manager_create_streamer) before that creation is older than the
\* interval a streamer survives without a renewal.
THEOREM CreationsNeverDangle == Spec => []NoDanglingCreation
<1>1. Init => PointersInv
  BY DEF Init, PointersInv, Creation
<1>2. TableInv /\ TableInv' /\ PointersInv /\ [Next]_vars => PointersInv'
  BY PointersStep DEF TableInv
<1>3. PointersInv => NoDanglingCreation
  BY DEF PointersInv, Points, NoDanglingCreation, Creation, Pending
<1> QED BY TableInductive, <1>1, <1>2, <1>3, PTL DEF Spec

-----------------------------------------------------------------------------
(* The client a creation answers. *)

\* A creation has its client for itself: it waits or it has gone.
ClientsInv ==
    \A k \in Conn : Creation(k) =>
        /\ http[call[k].client] = IF call[k].gone THEN "closed" ELSE "waiting"
        /\ \A j \in Conn :
              Creation(j) /\ call[j].client = call[k].client => j = k

\* The creations in flight, their clients and whether those have gone.
Steady ==
    \A k \in Conn :
        /\ Creation(k)' <=> Creation(k)
        /\ Creation(k) => /\ call'[k].client = call[k].client
                          /\ call'[k].gone = call[k].gone

\* An answer to a request that does not wait for Janus, or a new connection.
Answered(c) ==
    /\ http[c] # "waiting"
    /\ http[c] = "closed" => c \in FreeConn
    /\ \E code \in {"idle", "ok", "error"} : http' = [http EXCEPT ![c] = code]

LEMMA QuietSteady == Quiet(call, call') => Steady
BY DEF Quiet, SameCall, Steady, Creation

LEMMA SameSteady == UNCHANGED call => Steady
BY DEF Steady, Creation

LEMMA CallSteps ==
    ASSUME TableInv, [Next]_vars
    PROVE  \/ Steady /\ UNCHANGED http
           \/ Steady /\ \E c \in Conn : Answered(c)
           \/ \E c \in Conn : Leave(c)
           \/ \E k \in Conn : CloseCall(k)
           \/ \E c \in Conn, i \in Ids : PostChannel(c, i) \/ PostSource(c, i)
<1> USE DEF TableInv
<1>1. ASSUME NEW c \in Conn, Open(c)
      PROVE  Steady /\ Answered(c)
  <2>1. c \in FreeConn /\ http[c] = "closed"
    BY <1>1 DEF Open, FreeConn, ActiveConn
  <2> QED BY <1>1, <2>1, SameSteady DEF Open, Answered
<1>2. ASSUME NEW c \in Conn, CanRequest(c), NEW code \in {"ok", "error"},
             Answer(c, code)
      PROVE  Answered(c)
  BY <1>2 DEF Answer, Answered, CanRequest
<1>3. ASSUME NEW c \in Conn, Rejected(c)
      PROVE  Steady /\ Answered(c)
  BY <1>2, <1>3, SameSteady DEF Rejected
<1>4. ASSUME NEW c \in Conn, NEW i \in Ids, UpdateChannel(c, i)
      PROVE  Steady /\ Answered(c)
  BY <1>2, <1>4, SameSteady DEF UpdateChannel
<1>5. ASSUME NEW c \in Conn, NEW i \in Ids, NEW num \in ParticipantIds,
             UpdateSource(c, i, num)
      PROVE  Steady /\ Answered(c)
  <2>1. Steady
    BY <1>5, UpdateQuiet, QuietSteady
  <2> QED BY <1>2, <1>5, <2>1 DEF UpdateSource
<1>6. ASSUME NEW k \in Conn, Transmit(k) \/ HandleReply(k) \/ JanusServe(k)
      PROVE  Steady /\ UNCHANGED http
  BY <1>6, ProgressQuiet, QuietSteady DEF Transmit, HandleReply, JanusServe
<1>7. ASSUME NEW p \in PsAddr, PurgeOne(p) \/ DestroyOne(p)
      PROVE  Steady /\ UNCHANGED http
  <2>1. p \in Live
    BY <1>7 DEF PurgeOne, DestroyOne, LoopInv, Orphans
  <2>2. CASE PurgeOne(p)
    BY <2>1, <2>2, DisposeQuiet DEF PurgeOne, Steady
  <2>3. CASE DestroyOne(p)
    BY <2>1, <2>3, DisposeQuiet DEF DestroyOne, Steady
  <2> QED BY <1>7, <2>2, <2>3
<1>8. CASE UNCHANGED <<call, http>>
  BY <1>8, SameSteady
<1>9. CASE Tick
  BY <1>9, TickWaits DEF Tick, Steady, Creation
<1> QED
  BY <1>1, <1>3, <1>4, <1>5, <1>6, <1>7, <1>8, <1>9
  DEF Next, Client, Poll, Purge, Shutdown, vars, Attach, PurgeStart,
      Signal, JanusDestroy, TaskManagerDestroy, Exit, Exited

\* Without "reuse" no connection opens at an address a callback still holds.
LEMMA ClientsStep ==
    ASSUME "reuse" \notin Faults, TableInv, TableInv', ClientsInv, [Next]_vars
    PROVE  ClientsInv'
<1> USE DEF TableInv
<1>1. ASSUME NEW k \in Conn, Creation(k)
      PROVE  call[k].client \in Conn
  BY <1>1, CreationType
<1>2. CASE Steady /\ UNCHANGED http
  BY <1>2 DEF Steady, ClientsInv
<1>3. ASSUME NEW c \in Conn, Steady, Answered(c)
      PROVE  ClientsInv'
  <2>1. \A k \in Conn : Creation(k) => call[k].client # c
    <3> SUFFICES ASSUME NEW k \in Conn, Creation(k), call[k].client = c
                 PROVE  FALSE
      OBVIOUS
    <3>1. http[c] = "closed"
      BY <1>3 DEF ClientsInv, Answered
    <3>2. k \in Pending
      BY DEF Creation, Pending
    <3>3. c \notin FreeConn
      BY <3>2 DEF FreeConn
    <3> QED BY <1>3, <3>1, <3>3 DEF Answered
  <2>2. \A d \in Conn \ {c} : http'[d] = http[d]
    BY <1>3 DEF Answered, TypeOK
  <2>3. \A k \in Conn : Creation(k) => http'[call[k].client] = http[call[k].client]
    BY <1>1, <2>1, <2>2
  <2> QED BY <1>3, <2>3 DEF Steady, ClientsInv
<1>4. ASSUME NEW c \in Conn, Leave(c)
      PROVE  ClientsInv'
  <2>1. /\ http'[c] = "closed"
        /\ \A d \in Conn \ {c} : http'[d] = http[d]
    BY <1>4 DEF Leave, TypeOK
  <2>2. \A k \in Conn : Creation(k) => call[k].gone \in BOOLEAN
    BY DEF Creation, TypeOK, Call, CallRecord
  <2>3. \A k \in Conn :
           /\ Creation(k)' <=> Creation(k)
           /\ Creation(k) =>
                 /\ call'[k].client = call[k].client
                 /\ call'[k].gone = (call[k].gone \/ call[k].client = c)
    BY <1>4, LeaveMarks
  <2>4. ASSUME NEW k \in Conn, Creation(k)
        PROVE  http'[call[k].client] = IF call'[k].gone THEN "closed"
                                       ELSE "waiting"
    <3>1. CASE call[k].client = c
      BY <2>1, <2>3, <2>4, <3>1
    <3>2. CASE call[k].client # c
      BY <1>1, <2>1, <2>2, <2>3, <2>4, <3>2 DEF ClientsInv
    <3> QED BY <3>1, <3>2
  <2> QED BY <2>3, <2>4 DEF ClientsInv
<1>5. ASSUME NEW k \in Conn, CloseCall(k)
      PROVE  ClientsInv'
  <2>1. \A j \in Conn : /\ Creation(j)' <=> Creation(j) /\ j # k
                        /\ j # k => call'[j] = call[j]
    BY <1>5 DEF CloseCall, Creation, TypeOK
  <2>2. \A j \in Conn : Creation(j) /\ j # k =>
           http'[call[j].client] = http[call[j].client]
    <3>1. CASE UNCHANGED http
      BY <3>1
    <3>2. CASE ~UNCHANGED http
      <4>1. /\ Creation(k)
            /\ \A d \in Conn \ {call[k].client} : http'[d] = http[d]
        BY <1>5, <3>2 DEF CloseCall, Trigger, Answer, Creation, TypeOK
      <4> QED BY <1>1, <4>1 DEF ClientsInv
    <3> QED BY <3>1, <3>2
  <2> QED BY <2>1, <2>2 DEF ClientsInv
<1>6. ASSUME NEW c \in Conn, NEW i \in Ids, PostChannel(c, i) \/ PostSource(c, i)
      PROVE  ClientsInv'
  <2>1. PICK p \in FreePs, source \in BOOLEAN, hosted \in BOOLEAN :
           \/ Launch(c, p, i, source, hosted, CreateStreamingPoint(call, p, c))
           \/ Launch(c, p, i, source, hosted, CreateVideoroom(call, p, i, c))
    BY <1>6 DEF PostChannel, PostSource
  <2>2. p \in PsAddr
    BY DEF FreePs
  <2>3. call' = call \/ \E k \in Conn : Begun(k, p, c)
    BY <2>1, <2>2, CreateBegins DEF Launch, TypeOK, Calls
  <2>4. /\ http'[c] = "waiting"
        /\ \A d \in Conn \ {c} : http'[d] = http[d]
    BY <2>1 DEF Launch, Answer, TypeOK
  <2>5. http[c] \notin {"closed", "waiting"}
    BY <1>6 DEF PostChannel, PostSource, CanRequest
  <2>6. \A k \in Conn : Creation(k) =>
           /\ call[k].client # c
           /\ http'[call[k].client] = http[call[k].client]
    BY <1>1, <2>4, <2>5 DEF ClientsInv
  <2>7. CASE call' = call
    BY <2>6, <2>7 DEF ClientsInv, Creation
  <2>8. ASSUME NEW k \in Conn, Begun(k, p, c)
        PROVE  ClientsInv'
    <3>1. /\ \A j \in Conn \ {k} : call'[j] = call[j]
          /\ call'[k].client = c /\ call'[k].gone = FALSE
          /\ ~Creation(k)
      BY <2>8 DEF Begun, TypeOK, FreeConn, ActiveConn, Creation
    <3>2. \A j \in Conn \ {k} : Creation(j)' <=> Creation(j)
      BY <3>1 DEF Creation
    <3> QED BY <2>4, <2>6, <3>1, <3>2 DEF ClientsInv
  <2> QED BY <2>3, <2>7, <2>8
<1> QED BY <1>2, <1>3, <1>4, <1>5, <1>6, CallSteps

LEMMA ClientsInductive ==
    ASSUME "reuse" \notin Faults
    PROVE  Spec => []ClientsInv
<1>1. Init => ClientsInv
  BY DEF Init, ClientsInv, Creation
<1>2. TableInv /\ TableInv' /\ ClientsInv /\ [Next]_vars => ClientsInv'
  BY ClientsStep
<1> QED BY TableInductive, <1>1, <1>2, PTL DEF Spec

\* streamer_creation_callback: while no address is reused, a client that is
\* still connected is waiting for exactly the creation that will answer it.
THEOREM NobodyAnsweredTwice ==
    ASSUME "reuse" \notin Faults
    PROVE  Spec => []NoDoubleAnswer
<1>1. TableInv /\ ClientsInv => NoDoubleAnswer
  <2> SUFFICES ASSUME TableInv, ClientsInv,
                      NEW k \in Pending, NEW j \in Pending,
                      call[k].op \in Creations, ~call[k].gone
               PROVE  /\ http[call[k].client] = "waiting"
                      /\ call[j].client = call[k].client => j = k
    BY DEF NoDoubleAnswer
  <2>1. Creation(k) /\ k \in Conn /\ j \in Conn
    BY DEF Creation, Pending
  <2>2. http[call[k].client] = "waiting"
    BY <2>1 DEF ClientsInv
  <2>3. ASSUME call[j].client = call[k].client
        PROVE  j = k
    <3>1. call[k].client \in Conn
      BY <2>1, CreationType DEF TableInv
    <3>2. call[j].client # None
      BY <2>3, <3>1, StreamersAssumption
    <3>3. Creation(j)
      BY <3>2, ClientsOfCreations DEF TableInv
    <3> QED BY <2>1, <2>3, <3>3 DEF ClientsInv
  <2> QED BY <2>2, <2>3
<1> QED BY TableInductive, ClientsInductive, <1>1, PTL

\* streamer_creation_callback_trigger: while no address is reused, the end
\* of a creation whose client has gone answers nobody.
THEOREM AnswersReachAskers ==
    ASSUME "reuse" \notin Faults
    PROVE  Spec => AnswerReachesAsker
<1> DEFINE Dropped == \A k \in Conn :
              (call[k] # None /\ call[k].op \in Creations /\ call[k].gone
                 /\ call'[k] = None) => UNCHANGED http
<1>1. TableInv /\ ClientsInv /\ [Next]_vars => [Dropped]_vars
  <2> SUFFICES ASSUME TableInv, ClientsInv, [Next]_vars, NEW k \in Conn,
                      Creation(k), call[k].gone, call'[k] = None
               PROVE  UNCHANGED http
    BY DEF Creation
  <2>1. CASE Steady
    BY <2>1 DEF Steady, Creation
  <2>2. ASSUME NEW c \in Conn, Leave(c)
        PROVE  FALSE
    BY <2>2, LeaveMarks DEF TableInv, Creation
  <2>3. ASSUME NEW j \in Conn, CloseCall(j)
        PROVE  UNCHANGED http
    <3>1. j = k
      BY <2>3 DEF CloseCall, TableInv, TypeOK, Creation
    <3>2. http[call[k].client] = "closed"
      BY DEF ClientsInv
    <3> QED BY <2>3, <3>1, <3>2 DEF CloseCall, Trigger
  <2>4. ASSUME NEW c \in Conn, NEW i \in Ids, PostChannel(c, i) \/ PostSource(c, i)
        PROVE  FALSE
    <3>1. PICK p \in PsAddr :
             call' \in CreateStreamingPoint(call, p, c)
                          \cup CreateVideoroom(call, p, i, c)
      BY <2>4 DEF PostChannel, PostSource, Launch, FreePs
    <3>2. call' = call \/ \E n \in Conn : Begun(n, p, c)
      BY <3>1, CreateBegins DEF TableInv, TypeOK, Calls
    <3> QED
      BY <3>2, NoneAssumption
      DEF Begun, Creation, FreeConn, ActiveConn, TableInv, TypeOK
  <2> QED BY <2>1, <2>2, <2>3, <2>4, CallSteps
<1> QED BY TableInductive, ClientsInductive, <1>1, PTL DEF AnswerReachesAsker, Spec

-----------------------------------------------------------------------------
(* The answer a client is owed. *)

\* The request of a client that still waits.
Owes(k, c) == Creation(k) /\ call[k].client = c /\ ~call[k].gone

OwedInv ==
    phase \in {"running", "purging"} =>
        \A c \in Conn : http[c] = "waiting" => \E k \in Conn : Owes(k, c)

\* With its handle and a free connection a request is always sent.
LEMMA RequestSent ==
    ASSUME "noconn" \notin Faults, EnoughConn(1), call \in Calls, NEW r \in Call,
           NEW h \in handles, NEW cs \in Request(call, h, r)
    PROVE  cs # call
<1>1. FreeConn # {}
  BY FS_EmptySet DEF EnoughConn
<1>2. PICK k \in FreeConn : cs = [call EXCEPT ![k] = r]
  BY <1>1 DEF Request, Connect
<1>3. k \in Conn /\ call[k] = None
  BY DEF FreeConn, ActiveConn
<1>4. cs[k] = r
  BY <1>2, <1>3 DEF Calls
<1> QED BY <1>3, <1>4, NoneAssumption

LEMMA OwedStep ==
    ASSUME "noconn" \notin Faults, "unready" \notin Faults,
           TableInv, TableInv', OwedInv, [Next]_vars
    PROVE  OwedInv'
<1> USE DEF TableInv
<1> SUFFICES ASSUME phase' \in {"running", "purging"},
                    NEW d \in Conn, http'[d] = "waiting"
             PROVE  \E k \in Conn : Owes(k, d)'
  BY DEF OwedInv
<1>1. phase \in {"running", "purging"}
  BY DEF Next, Client, Poll, Purge, Shutdown, Open, Leave, PostChannel,
         PostSource, Launch, Rejected, UpdateChannel, UpdateSource, CanRequest,
         Transmit, HandleReply, CloseCall, JanusServe, Attach, Tick, PurgeStart,
         PurgeOne, Signal, DestroyOne, JanusDestroy, TaskManagerDestroy, Exit,
         Exited, vars
<1>2. ASSUME http[d] = "waiting", Steady
      PROVE  \E k \in Conn : Owes(k, d)'
  BY <1>1, <1>2 DEF OwedInv, Owes, Steady
<1>3. CASE Steady /\ UNCHANGED http
  BY <1>2, <1>3
<1>4. ASSUME NEW c \in Conn, Steady, Answered(c)
      PROVE  \E k \in Conn : Owes(k, d)'
  BY <1>2, <1>4 DEF Answered, TypeOK
<1>5. ASSUME NEW c \in Conn, Leave(c)
      PROVE  \E k \in Conn : Owes(k, d)'
  <2>1. d # c /\ http[d] = "waiting"
    BY <1>5 DEF Leave, TypeOK
  <2>2. PICK k \in Conn : Owes(k, d)
    BY <1>1, <2>1 DEF OwedInv
  <2>3. /\ Creation(k)'
        /\ call'[k].client = call[k].client
        /\ call'[k].gone = (call[k].gone \/ call[k].client = c)
    BY <1>5, <2>2, LeaveMarks DEF Owes
  <2> QED BY <2>1, <2>2, <2>3 DEF Owes
<1>6. ASSUME NEW j \in Conn, CloseCall(j)
      PROVE  \E k \in Conn : Owes(k, d)'
  <2>1. CASE UNCHANGED http /\ ~Owes(j, d)
    BY <1>1, <1>6, <2>1 DEF CloseCall, OwedInv, Owes, Creation, TypeOK
  <2>2. CASE ~UNCHANGED http /\ ~Owes(j, d)
    <3>1. \E c \in Conn, code \in {"ok", "error"} : http' = [http EXCEPT ![c] = code]
      BY <1>6, <2>2, CreationType
      DEF CloseCall, Trigger, Outcome, Answer, Creation
    <3>2. http[d] = "waiting"
      BY <3>1 DEF TypeOK
    <3> QED BY <1>1, <1>6, <2>2, <3>2 DEF CloseCall, OwedInv, Owes, Creation, TypeOK
  <2>3. CASE Owes(j, d)
    <3>1. call[j].op \in Creations /\ call[j].client = d
      BY <2>3 DEF Owes, Creation
    <3>2. PICK code \in {"ok", "error"} :
             http[d] # "closed" => http' = [http EXCEPT ![d] = code]
      BY <1>6, <3>1 DEF CloseCall, Trigger, Outcome, Answer
    <3>3. http[d] = "closed"
      BY <3>2 DEF TypeOK
    <3>4. UNCHANGED http
      BY <1>6, <3>1, <3>3 DEF CloseCall, Trigger
    <3> QED BY <3>3, <3>4
  <2> QED BY <2>1, <2>2, <2>3
<1>7. ASSUME NEW c \in Conn, NEW i \in Ids, PostChannel(c, i) \/ PostSource(c, i)
      PROVE  \E k \in Conn : Owes(k, d)'
  <2>1. PICK p \in FreePs, source \in BOOLEAN, hosted \in BOOLEAN :
           \/ /\ PostChannel(c, i)
              /\ Launch(c, p, i, source, hosted, CreateStreamingPoint(call, p, c))
           \/ /\ PostSource(c, i)
              /\ Launch(c, p, i, source, hosted, CreateVideoroom(call, p, i, c))
    BY <1>7 DEF PostChannel, PostSource
  <2>2. p \in PsAddr /\ call \in Calls
    BY DEF FreePs, TypeOK, Calls
  <2>3. /\ NewCall("create_mount", p, None, None, c) \in Call
        /\ NewCall("create_room", p, i, None, c) \in Call
    BY <2>2, ZeroAge DEF NewCall, Call, CallRecord, Ops, Creations
  <2>4. call' # call
    <3>1. CASE PostChannel(c, i) /\ call' \in CreateStreamingPoint(call, p, c)
      BY <2>2, <2>3, <3>1, RequestSent
      DEF PostChannel, CreateStreamingPoint, Ready
    <3>2. CASE PostSource(c, i) /\ call' \in CreateVideoroom(call, p, i, c)
      BY <2>2, <2>3, <3>2, RequestSent
      DEF PostSource, CreateVideoroom, Ready
    <3> QED BY <2>1, <3>1, <3>2 DEF Launch
  <2>5. PICK k \in Conn : Begun(k, p, c)
    BY <2>1, <2>2, <2>4, CreateBegins DEF Launch
  <2>6. /\ Owes(k, c)' /\ ~Creation(k)
        /\ \A j \in Conn \ {k} : call'[j] = call[j]
    BY <2>2, <2>5, NoneAssumption
    DEF Begun, Owes, Creation, Calls, FreeConn, ActiveConn
  <2>7. CASE d = c
    BY <2>6, <2>7
  <2>8. CASE d # c
    <3>1. http[d] = "waiting"
      BY <2>1, <2>8 DEF Launch, Answer, TypeOK
    <3>2. PICK j \in Conn : Owes(j, d)
      BY <1>1, <3>1 DEF OwedInv
    <3>3. j # k
      BY <2>6, <3>2 DEF Owes
    <3> QED BY <2>6, <3>2, <3>3 DEF Owes, Creation
  <2> QED BY <2>7, <2>8
<1> QED BY <1>3, <1>4, <1>5, <1>6, <1>7, CallSteps

\* streamer_create and source_streamer_create: a client that posts after
\* Janus granted its handles, while connections can be had, has a request on
\* its way whose end will answer it.
THEOREM AnswersOwed ==
    ASSUME "noconn" \notin Faults, "unready" \notin Faults
    PROVE  Spec => []AnswerOwed
<1>1. Init => OwedInv
  BY DEF Init, OwedInv
<1>2. TableInv /\ TableInv' /\ OwedInv /\ [Next]_vars => OwedInv'
  BY OwedStep
<1>3. OwedInv => AnswerOwed
  BY DEF OwedInv, AnswerOwed, Owes, Creation, Pending
<1> QED BY TableInductive, <1>1, <1>2, <1>3, PTL DEF Spec

-----------------------------------------------------------------------------
(* Why the loops end. *)

Less(new, old) == new \subseteq old /\ new # old

Connected == {c \in Conn : http[c] # "closed"}
InJanus == {k \in Pending : call[k].stage = "sent"}

NextPhase ==
    \/ phase = "destroying" /\ phase' = "sleeping"
    \/ phase = "sleeping" /\ phase' = "janus_gone"
    \/ phase = "janus_gone" /\ phase' = "freeing"
    \/ phase = "freeing" /\ phase' = "exited"

\* context_deinit: once the signal arrived, every step brings the exit
\* nearer: it ends a phase, destroys one of the streamers the loop has still
\* to visit, closes a connection, or is one of Janus, which gets no new
\* request to serve.  (The order is lexicographic and its sets are finite.)
TeardownShrinks ==
    [][~Serving =>
          \/ NextPhase
          \/ /\ phase' = phase
             /\ \/ Less(doomed', doomed)
                \/ /\ doomed' = doomed
                   /\ \/ Less(Connected', Connected)
                      \/ Connected' = Connected /\ Less(Pending', Pending)
                      \/ /\ Connected' = Connected /\ Pending' = Pending
                         /\ Less(InJanus', InJanus)]_vars

\* Janus serves a request and leaves its connection as it is.
LEMMA ServeShrinks ==
    ASSUME TypeOK, NEW k \in Conn, JanusServe(k)
    PROVE  Pending' = Pending /\ Less(InJanus', InJanus)
<1>1. /\ call[k] # None /\ call[k].stage = "sent"
      /\ \E num \in MountIds \cup ParticipantIds \cup {None} :
            call' = [call EXCEPT ![k] =
                        [@ EXCEPT !.stage = "answered", !.num = num]]
  BY DEF JanusServe
<1>2. call[k] \in Call
  BY <1>1 DEF TypeOK
<1>3. call'[k].stage = "answered"
  BY <1>1, <1>2 DEF TypeOK, Call, CallRecord
<1>4. \A j \in Conn \ {k} : call'[j] = call[j]
  BY <1>1 DEF TypeOK
<1>5. call'[k] # None
  BY <1>1, ProgressQuiet DEF Quiet
<1>6. Pending' = Pending
  BY <1>1, <1>4, <1>5 DEF Pending
<1>7. k \in InJanus /\ k \notin InJanus'
  BY <1>1, <1>3 DEF InJanus, Pending
<1>8. InJanus' \subseteq InJanus
  <2>1. \A j \in InJanus' : j \in Conn \ {k} /\ j \in Pending'
    BY <1>7 DEF InJanus, Pending
  <2> QED BY <1>4, <1>6, <2>1 DEF InJanus
<1> QED BY <1>6, <1>7, <1>8 DEF Less

\* mg_mgr_free closes the connections, those of clients and those to Janus.
LEMMA LeaveShrinks ==
    ASSUME TypeOK, NEW c \in Conn, Leave(c)
    PROVE  Less(Connected', Connected)
BY DEF TypeOK, Leave, Connected, Less

LEMMA CloseShrinks ==
    ASSUME TypeOK, NEW k \in Conn, CloseCall(k)
    PROVE  Connected' = Connected /\ Less(Pending', Pending)
<1>1. Connected' = Connected
  <2>1. CASE UNCHANGED http
    BY <2>1 DEF Connected
  <2>2. CASE /\ http[call[k].client] # "closed"
             /\ \E code \in {"ok", "error"} : Answer(call[k].client, code)
    BY <2>2 DEF Connected, Answer, TypeOK
  <2>3. Outcome(call[k]) \subseteq {"ok", "error"}
    BY DEF Outcome
  <2> QED BY <2>1, <2>2, <2>3 DEF CloseCall, Trigger
<1>2. Less(Pending', Pending)
  BY DEF CloseCall, Pending, Less, TypeOK
<1> QED BY <1>1, <1>2

\* The teardown ends.
THEOREM TeardownsShrink == Spec => TeardownShrinks
<1> DEFINE Nearer ==
        ~Serving =>
          \/ NextPhase
          \/ /\ phase' = phase
             /\ \/ Less(doomed', doomed)
                \/ /\ doomed' = doomed
                   /\ \/ Less(Connected', Connected)
                      \/ Connected' = Connected /\ Less(Pending', Pending)
                      \/ /\ Connected' = Connected /\ Pending' = Pending
                         /\ Less(InJanus', InJanus)
<1>1. TypeOK /\ [Next]_vars => [Nearer]_vars
  <2> SUFFICES ASSUME TypeOK, Next, ~Serving, vars' # vars PROVE Nearer
    OBVIOUS
  <2>0. phase \notin {"running", "purging"}
    BY DEF Serving
  <2>1. CASE \E k \in Conn : JanusServe(k)
    <3>1. /\ Connected' = Connected /\ doomed' = doomed /\ phase' = phase
          /\ Pending' = Pending /\ Less(InJanus', InJanus)
      BY <2>1, ServeShrinks DEF JanusServe, Connected
    <3> QED BY <3>1
  <2>2. CASE \E c \in Conn : Client(c)
    <3>1. PICK c \in Conn : Leave(c)
      BY <2>0, <2>2 DEF Client, Open, Rejected, PostChannel, PostSource,
                        UpdateChannel, UpdateSource, CanRequest
    <3>2. Less(Connected', Connected) /\ phase' = phase /\ doomed' = doomed
      BY <3>1, LeaveShrinks DEF Leave
    <3> QED BY <3>2
  <2>3. CASE \E k \in Conn : Poll(k)
    <3>1. PICK k \in Conn : CloseCall(k)
      BY <2>0, <2>3 DEF Poll, Transmit, HandleReply
    <3>2. /\ Connected' = Connected /\ Less(Pending', Pending)
          /\ phase' = phase /\ doomed' = doomed
      BY <3>1, CloseShrinks DEF CloseCall
    <3> QED BY <3>2
  <2>4. CASE Shutdown
    <3>1. ASSUME NEW p \in PsAddr, DestroyOne(p)
          PROVE  Nearer
      <4>1. /\ phase = "destroying" /\ p \in doomed /\ doomed' = doomed \ {p}
            /\ phase' = IF doomed = {p} THEN "sleeping" ELSE "destroying"
        BY <3>1 DEF DestroyOne, Dispose
      <4>2. Less(doomed', doomed)
        BY <4>1 DEF Less
      <4> QED BY <4>1, <4>2 DEF NextPhase
    <3>2. CASE JanusDestroy \/ TaskManagerDestroy \/ Exit
      BY <3>2 DEF JanusDestroy, TaskManagerDestroy, Exit, NextPhase
    <3> QED BY <2>4, <3>1, <3>2 DEF Shutdown
  <2>5. ~(\E h \in {"streaming", "videoroom"} : Attach(h)) /\ ~Tick
        /\ ~Purge /\ ~Signal /\ ~Exited
    BY <2>0 DEF Attach, Tick, Purge, PurgeStart, PurgeOne, Signal, Exited
  <2> HIDE DEF Nearer
  <2> QED BY <2>1, <2>2, <2>3, <2>4, <2>5 DEF Next
<1>2. TeardownShrinks <=> [][Nearer]_vars
  BY DEF TeardownShrinks
<1> HIDE DEF Nearer
<1> QED BY TypeCorrect, <1>1, <1>2, PTL DEF Spec

-----------------------------------------------------------------------------
\* The loop of the purge has still to visit all streamers whose lease is over.
PurgeInv == phase = "purging" => doomed = Orphans

\* pstreamer_manager_remove_orphans: nothing but Janus interrupts the loop,
\* each turn destroys one of the streamers whose lease is over, and when it
\* returns there is none.
PurgeTakesAll ==
    [][phase = "purging" =>
          \/ phase' = "running" /\ Orphans' = {}
          \/ /\ phase' = "purging"
             /\ \/ Less(Orphans', Orphans)
                \/ Orphans' = Orphans /\ Less(InJanus', InJanus)]_vars

LEMMA PurgeOneTakes ==
    ASSUME TypeOK, PurgeInv, NEW p \in PsAddr, PurgeOne(p)
    PROVE  /\ p \in Orphans /\ Orphans' = Orphans \ {p} /\ doomed' = Orphans'
           /\ phase' = IF Orphans' = {} THEN "running" ELSE "purging"
<1>1. /\ phase = "purging" /\ p \in doomed /\ doomed' = doomed \ {p}
      /\ ps' = [ps EXCEPT ![p] = None]
      /\ phase' = IF doomed = {p} THEN "running" ELSE "purging"
  BY DEF PurgeOne, Dispose
<1>2. doomed = Orphans
  BY <1>1 DEF PurgeInv
<1>3. Orphans' = Orphans \ {p}
  BY <1>1 DEF Orphans, Live, TypeOK
<1> QED BY <1>1, <1>2, <1>3

LEMMA OnlyPurge ==
    ASSUME phase = "purging", Next
    PROVE  \/ \E p \in PsAddr : PurgeOne(p)
           \/ \E k \in Conn : JanusServe(k)
BY DEF Next, Client, Open, Leave, Rejected, PostChannel, PostSource,
       UpdateChannel, UpdateSource, CanRequest, Poll, Transmit, HandleReply,
       CloseCall, Attach, Tick, Purge, PurgeStart, Signal, Shutdown,
       DestroyOne, JanusDestroy, TaskManagerDestroy, Exit, Exited

LEMMA PurgeStep ==
    ASSUME TypeOK, PurgeInv, [Next]_vars
    PROVE  PurgeInv'
<1>1. CASE UNCHANGED vars
  BY <1>1 DEF vars, PurgeInv, Orphans, Live
<1>2. CASE phase = "purging" /\ Next
  <2>1. CASE \E k \in Conn : JanusServe(k)
    BY <2>1 DEF JanusServe, PurgeInv, Orphans, Live
  <2> QED BY <1>2, <2>1, OnlyPurge, PurgeOneTakes DEF PurgeInv
<1>3. CASE phase # "purging" /\ Next
  <2>1. CASE PurgeStart
    BY <2>1 DEF PurgeStart, PurgeInv, Orphans, Live
  <2>2. CASE ~PurgeStart
    <3>1. ASSUME NEW c \in Conn, NEW i \in Ids, PostChannel(c, i) \/ PostSource(c, i)
          PROVE  phase' = phase
      BY <3>1 DEF PostChannel, PostSource, Launch
    <3> QED BY <1>3, <2>2, <3>1
    DEF Next, Client, Open, Leave, Rejected,
        UpdateChannel, UpdateSource, CanRequest, Poll, Transmit, HandleReply,
        CloseCall, JanusServe, Attach, Tick, Purge, PurgeOne, Signal,
        Shutdown, DestroyOne, JanusDestroy, TaskManagerDestroy, Exit, Exited,
        vars, PurgeInv
  <2> QED BY <2>1, <2>2
<1> QED BY <1>1, <1>2, <1>3

\* The purge destroys every streamer whose lease is over before the program
\* serves again.
THEOREM PurgesTakeAll == Spec => PurgeTakesAll
<1> DEFINE Taken ==
        phase = "purging" =>
          \/ phase' = "running" /\ Orphans' = {}
          \/ /\ phase' = "purging"
             /\ \/ Less(Orphans', Orphans)
                \/ Orphans' = Orphans /\ Less(InJanus', InJanus)
<1>1. TypeOK /\ PurgeInv /\ [Next]_vars => [Taken]_vars
  <2> SUFFICES ASSUME TypeOK, PurgeInv, Next, phase = "purging" PROVE Taken
    OBVIOUS
  <2>1. ASSUME NEW p \in PsAddr, PurgeOne(p) PROVE Taken
    BY <2>1, PurgeOneTakes DEF Less
  <2>2. ASSUME NEW k \in Conn, JanusServe(k) PROVE Taken
    <3>1. Less(InJanus', InJanus)
      BY <2>2, ServeShrinks
    <3>2. Orphans' = Orphans /\ phase' = "purging"
      BY <2>2 DEF JanusServe, Orphans, Live
    <3> QED BY <3>1, <3>2
  <2> HIDE DEF Taken
  <2> QED BY <2>1, <2>2, OnlyPurge
<1>2. PurgeTakesAll <=> [][Taken]_vars
  BY DEF PurgeTakesAll
<1>3. Init => PurgeInv
  BY DEF Init, PurgeInv
<1>4. TypeOK /\ PurgeInv /\ [Next]_vars => PurgeInv'
  BY PurgeStep
<1> HIDE DEF Taken
<1> QED BY TypeCorrect, <1>1, <1>2, <1>3, <1>4, PTL DEF Spec

=============================================================================
