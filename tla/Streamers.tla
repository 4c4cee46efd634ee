------------------------------ MODULE Streamers ------------------------------
(***************************************************************************)
(* The core of PeerStreamer-ng: the streamer manager, the HTTP handlers    *)
(* that create and renew streamers, the requests they send to the Janus    *)
(* gateway, the callbacks that answer a client when Janus is done, the     *)
(* purge of streamers nobody renews, and the teardown of the program.      *)
(*                                                                         *)
(* The program is one thread: an action is one callback run to its end, or *)
(* one iteration of a loop that nothing else can interrupt (the phases     *)
(* "purging" and "destroying").  Janus is another process, so its steps    *)
(* interleave with everything.  Addresses returned by malloc are values    *)
(* that may come back after free: PsAddr for struct pstreamer, Conn for    *)
(* struct mg_connection, which the clients' connections and the program's  *)
(* own connections to Janus share.                                         *)
(***************************************************************************)
EXTENDS Ports

CONSTANTS
    Ids,            \* names of streamers (the last segment of the URI)
    PsAddr,         \* addresses a struct pstreamer can have
    Conn,           \* addresses a struct mg_connection can have
    MountIds,       \* identifiers Janus gives to mountpoints
    ParticipantIds, \* identifiers a client gives to a publisher
    Interval,       \* seconds without a renewal that a streamer survives
    Faults,         \* what may go wrong in a behaviour, out of FaultKinds
    None            \* NULL, a free address, an absent value

FaultKinds == {
    "unready",  \* clients post before Janus granted its plugin handles
    "noconn",   \* mg_connect_http fails and returns NULL
    "drop",     \* a connection to Janus closes before its reply is read
    "refuse",   \* Janus answers with an error and does nothing
    "reuse",    \* an address is reused while a callback still holds it
    "nopsc"}    \* psinstance_create fails

ASSUME StreamersAssumption ==
    /\ IsFiniteSet(PsAddr) /\ IsFiniteSet(Conn)
    /\ Interval \in Nat
    /\ Faults \subseteq FaultKinds
    /\ None \notin Ids \cup PsAddr \cup Conn \cup MountIds \cup ParticipantIds

\* Every streamer the addresses leave room for has ports of its own.
ASSUME PortsSuffice ==
    InitialPort + Stride * Cardinality(PsAddr) + 4 < PortSpace

VARIABLES
    phase,      \* what main is doing
    doomed,     \* streamers the running destruction loop has still to visit
    ps,         \* ps[p]: the struct pstreamer at p, or None; all of them are
                \* in the manager's ordered set
    tasks,      \* tasks[p]: tasks of the task manager that serve p's psc
    handles,    \* plugin handles Janus has granted so far
    http,       \* http[c]: state of the client connection at c
    call,       \* call[k]: the request to Janus on the connection at k
    mounts,     \* mountpoints that exist inside Janus
    rooms       \* video rooms that exist inside Janus

vars == <<phase, doomed, ps, tasks, handles, http, call, mounts, rooms>>

-----------------------------------------------------------------------------
Phases == {"running", "purging", "destroying", "sleeping", "janus_gone",
           "freeing", "exited"}

TaskKinds == {"topology", "offer", "msg", "net_helper", "inject"}

\* The tasks pstreamer_schedule_tasks creates: none without a psinstance.
Scheduled(source, psc) ==
    {t \in TaskKinds : psc /\ (t = "inject" => source)}

\* hosted is history: the streamer was posted as a source, in a room of its
\* own.  source is what pstreamer_is_source says, that its port is 0.
PStreamer ==
    [id: Ids, source: BOOLEAN, hosted: BOOLEAN, psc: BOOLEAN, port: Nat,
     age: 0..(Interval + 1),                       \* now - last_beat
     jid: MountIds \cup ParticipantIds \cup {None}]  \* janus_streaming_id

Creations == {"create_mount", "create_room"}
Ops == Creations \cup {"destroy_mount", "destroy_room", "forward"}

\* gone, stale and wait are history: the client that asked has closed its
\* connection, the streamer the callback points to has been freed, the time a
\* creation has been in flight.
CallRecord ==
    [op: Ops,
     stage: {"queued", "sent", "answered", "closing"},
     ps: PsAddr \cup {None},
     id: Ids \cup {None},
     num: MountIds \cup ParticipantIds \cup {None},
     client: Conn \cup {None},
     gone: BOOLEAN, stale: BOOLEAN, wait: 0..(Interval + 1)]

\* Only creations carry a callback (scc), and it has both its pointers.
Call ==
    {r \in CallRecord :
        /\ r.op \in Creations => r.ps \in PsAddr /\ r.client \in Conn
        /\ r.op \notin Creations => r.ps = None /\ r.client = None
        /\ r.op = "create_room" => r.id \in Ids}

\* "ok" stands for 200, "error" for 400, 404, 409 and 500.
HttpStates == {"closed", "idle", "waiting", "ok", "error"}

\* NULL is no structure.
ASSUME NoneAssumption == None \notin PStreamer \cup Call

TypeOK ==
    /\ phase \in Phases
    /\ doomed \subseteq PsAddr
    /\ ps \in [PsAddr -> PStreamer \cup {None}]
    /\ tasks \in [PsAddr -> SUBSET TaskKinds]
    /\ handles \subseteq {"streaming", "videoroom"}
    /\ http \in [Conn -> HttpStates]
    /\ call \in [Conn -> Call \cup {None}]
    /\ mounts \subseteq MountIds
    /\ rooms \subseteq Ids

Init ==
    /\ phase = "running"
    /\ doomed = {}
    /\ ps = [p \in PsAddr |-> None]
    /\ tasks = [p \in PsAddr |-> {}]
    /\ handles = {}
    /\ http = [c \in Conn |-> "closed"]
    /\ call = [k \in Conn |-> None]
    /\ mounts = {}
    /\ rooms = {}

-----------------------------------------------------------------------------
Live == {p \in PsAddr : ps[p] # None}
Named(i) == {p \in Live : ps[p].id = i}
Pending == {k \in Conn : call[k] # None}

\* struct mg_connection addresses in mongoose's list, and those malloc can
\* return: without "reuse", not one that a callback still compares against.
ActiveConn == {c \in Conn : http[c] # "closed" \/ call[c] # None}
FreeConn ==
    {c \in Conn \ ActiveConn :
        "reuse" \in Faults \/ \A k \in Pending : call[k].client # c}

FreePs ==
    {p \in PsAddr \ Live :
        "reuse" \in Faults \/ \A k \in Pending : call[k].ps # p}

\* Without "noconn" the process never runs out of connections.
EnoughConn(n) == "noconn" \in Faults \/ Cardinality(FreeConn) >= n

NewCall(op, p, i, num, c) ==
    [op |-> op, stage |-> "queued", ps |-> p, id |-> i, num |-> num,
     client |-> c, gone |-> FALSE, stale |-> FALSE, wait |-> 0]

\* mg_connect_http: the calls in flight after trying to add r to cs.
Connect(cs, r) ==
    {[cs EXCEPT ![k] = r] : k \in FreeConn}
        \cup (IF "noconn" \in Faults \/ FreeConn = {} THEN {cs} ELSE {})

\* Every request function of janus_instance gives up without its handle.
Request(cs, handle, r) == IF handle \in handles THEN Connect(cs, r) ELSE {cs}

CreateStreamingPoint(cs, p, c) ==
    Request(cs, "streaming", NewCall("create_mount", p, None, None, c))
DestroyStreamingPoint(cs, num) ==
    IF num = None THEN {cs}
    ELSE Request(cs, "streaming",
                 NewCall("destroy_mount", None, None, num, None))
CreateVideoroom(cs, p, i, c) ==
    Request(cs, "videoroom", NewCall("create_room", p, i, None, c))
DestroyVideoroom(cs, i) ==
    Request(cs, "videoroom", NewCall("destroy_room", None, i, None, None))
ForwardRtp(cs, i, num) ==
    Request(cs, "videoroom", NewCall("forward", None, i, num, None))

MarkStale(cs, p) ==
    [k \in Conn |-> IF cs[k] # None /\ cs[k].ps = p
                    THEN [cs[k] EXCEPT !.stale = TRUE] ELSE cs[k]]
MarkGone(cs, c) ==
    [k \in Conn |-> IF cs[k] # None /\ cs[k].client = c
                    THEN [cs[k] EXCEPT !.gone = TRUE] ELSE cs[k]]

-----------------------------------------------------------------------------
(* The clients' connections and requests. *)

Open(c) ==
    /\ phase = "running"
    /\ c \in FreeConn
    /\ http' = [http EXCEPT ![c] = "idle"]
    /\ UNCHANGED <<phase, doomed, ps, tasks, handles, call, mounts, rooms>>

\* The client closes, or mg_mgr_free closes the connection at the end.
Leave(c) ==
    /\ phase \in {"running", "freeing"}
    /\ http[c] # "closed"
    /\ http' = [http EXCEPT ![c] = "closed"]
    /\ call' = MarkGone(call, c)
    /\ UNCHANGED <<phase, doomed, ps, tasks, handles, mounts, rooms>>

CanRequest(c) == phase = "running" /\ http[c] \notin {"closed", "waiting"}

Answer(c, code) == http' = [http EXCEPT ![c] = code]

\* The part of pstreamer_manager_create_streamer, of
\* pstreamer_manager_create_source_streamer and of their callers that runs
\* when the name is free: the client is left waiting for Janus.
Launch(c, p, i, source, hosted, calls) ==
    \E psc \in IF "nopsc" \in Faults THEN BOOLEAN ELSE {TRUE} :
        /\ ps' = [ps EXCEPT ![p] =
                    [id |-> i, source |-> source, hosted |-> hosted,
                     psc |-> psc,
                     port |-> AssignPort({ps[q].port : q \in Live}),
                     age |-> 0, jid |-> None]]
        /\ tasks' = [tasks EXCEPT ![p] = Scheduled(source, psc)]
        /\ call' \in calls
        /\ Answer(c, "waiting")
        /\ UNCHANGED <<phase, doomed, handles, mounts, rooms>>

Ready(handle) == "unready" \in Faults \/ handle \in handles

\* The port of a channel is the atoi of a text.  One that reads as 0 makes a
\* source of the streamer, with a mountpoint and without a room.
PostChannel(c, i) ==
    /\ CanRequest(c)
    /\ Named(i) = {}
    /\ Ready("streaming") /\ EnoughConn(1)
    /\ \E p \in FreePs, source \in BOOLEAN :
          Launch(c, p, i, source, FALSE, CreateStreamingPoint(call, p, c))

\* Mutant of PostSource: the lookup of the name is forgotten.
PostSourceUnchecked(c, i) ==
    /\ CanRequest(c)
    /\ Ready("videoroom") /\ EnoughConn(1)
    /\ \E p \in FreePs :
          Launch(c, p, i, TRUE, TRUE, CreateVideoroom(call, p, i, c))

PostSource(c, i) ==
    /\ CanRequest(c)
    /\ Named(i) = {}
    /\ Ready("videoroom") /\ EnoughConn(1)
    /\ \E p \in FreePs :
          Launch(c, p, i, TRUE, TRUE, CreateVideoroom(call, p, i, c))

\* What changes nothing but the client: a POST under a name in use (409) or
\* for an unknown channel (400), an UPDATE of a name not in use (404).
Rejected(c) ==
    /\ CanRequest(c)
    /\ Answer(c, "error")
    /\ UNCHANGED <<phase, doomed, ps, tasks, handles, call, mounts, rooms>>

\* Mutant of Touch: the beat lands in the past.
TouchInThePast(p) == ps' = [ps EXCEPT ![p].age = Interval + 2]
Touch(p) == ps' = [ps EXCEPT ![p].age = 0]

UpdateChannel(c, i) ==
    /\ CanRequest(c)
    /\ \E p \in Named(i) : Touch(p)
    /\ Answer(c, "ok")
    /\ UNCHANGED <<phase, doomed, tasks, handles, call, mounts, rooms>>

\* An UPDATE of a source that names the publisher: for a source, Janus is
\* asked to forward the publisher's media and its id is kept as jid.
UpdateSource(c, i, num) ==
    /\ CanRequest(c)
    /\ EnoughConn(1)
    /\ \E p \in Named(i) :
          IF ps[p].source
          THEN /\ ps' = [ps EXCEPT ![p] = [@ EXCEPT !.age = 0, !.jid = num]]
               /\ call' \in ForwardRtp(call, i, num)
          ELSE Touch(p) /\ UNCHANGED call
    /\ Answer(c, "ok")
    /\ UNCHANGED <<phase, doomed, tasks, handles, mounts, rooms>>

-----------------------------------------------------------------------------
(* The connections to Janus, as the poll of mongoose serves them. *)

\* The reply to an attach request arrives (module JanusInstance).
Attach(h) ==
    /\ phase = "running"
    /\ h \notin handles
    /\ handles' = handles \cup {h}
    /\ UNCHANGED <<phase, doomed, ps, tasks, http, call, mounts, rooms>>

Transmit(k) ==
    /\ phase = "running"
    /\ call[k] # None /\ call[k].stage = "queued"
    /\ call' = [call EXCEPT ![k].stage = "sent"]
    /\ UNCHANGED <<phase, doomed, ps, tasks, handles, http, mounts, rooms>>

\* janus_instance_streaming_point_handler stores the id it finds in the
\* reply at data[0], whatever lives there now; an error status leaves the
\* slot alone, an error inside a 200 zeroes it.
StoreReply(r) ==
    IF r.op = "create_mount" /\ r.ps \in Live
    THEN \E v \in IF r.num = None THEN {None, ps[r.ps].jid} ELSE {r.num} :
            ps' = [ps EXCEPT ![r.ps].jid = v]
    ELSE UNCHANGED ps

\* What the creation callback tells the client: for a room always success,
\* for a mountpoint whether *mp_id is set (freed memory reads as anything).
Outcome(r) ==
    CASE r.op = "create_room" -> {"ok"}
      [] r.op # "create_room" /\ r.ps \notin Live -> {"ok", "error"}
      [] OTHER -> {IF ps[r.ps].jid # None THEN "ok" ELSE "error"}

\* Mutant of Trigger: a failed creation is not answered.
TriggerOnSuccess(r) ==
    IF http[r.client] # "closed" /\ "ok" \in Outcome(r)
    THEN Answer(r.client, "ok")
    ELSE UNCHANGED http

\* Mutant of Trigger: the connection is used without looking for it.
TriggerBlindly(r) == \E code \in Outcome(r) : Answer(r.client, code)

\* streamer_creation_callback_trigger: look for the client's address among
\* the active connections and answer it there.  With "reuse" a connection to
\* Janus may have it: the bytes then go to Janus and no client is answered.
Trigger(r) ==
    IF http[r.client] # "closed"
    THEN \E code \in Outcome(r) : Answer(r.client, code)
    ELSE UNCHANGED http

\* Mutant of HandleReply: the reply triggers the callback, and so will CLOSE.
HandleReplyTwice(k) ==
    /\ phase = "running"
    /\ call[k] # None /\ call[k].stage = "answered"
    /\ StoreReply(call[k])
    /\ IF call[k].op \in Creations THEN Trigger(call[k]) ELSE UNCHANGED http
    /\ call' = [call EXCEPT ![k].stage = "closing"]
    /\ UNCHANGED <<phase, doomed, tasks, handles, mounts, rooms>>

HandleReply(k) ==
    /\ phase = "running"
    /\ call[k] # None /\ call[k].stage = "answered"
    /\ StoreReply(call[k])
    /\ call' = [call EXCEPT ![k].stage = "closing"]
    /\ UNCHANGED <<phase, doomed, tasks, handles, http, mounts, rooms>>

\* Mutant of CloseCall: the connection closes as soon as the request is out.
CloseCallEarly(k) ==
    /\ phase \in {"running", "freeing"}
    /\ call[k] # None
    /\ call[k].stage # "queued" \/ phase = "freeing"
    /\ IF call[k].op \in Creations THEN Trigger(call[k]) ELSE UNCHANGED http
    /\ call' = [call EXCEPT ![k] = None]
    /\ UNCHANGED <<phase, doomed, ps, tasks, handles, mounts, rooms>>

CloseCall(k) ==
    /\ phase \in {"running", "freeing"}
    /\ call[k] # None
    /\ \/ call[k].stage = "closing"
       \/ "drop" \in Faults
       \/ phase = "freeing"
    /\ IF call[k].op \in Creations THEN Trigger(call[k]) ELSE UNCHANGED http
    /\ call' = [call EXCEPT ![k] = None]
    /\ UNCHANGED <<phase, doomed, ps, tasks, handles, mounts, rooms>>

-----------------------------------------------------------------------------
(* Time and the purge of the streamers nobody renews. *)

\* Ages and waits saturate past Interval.
Later(n) == IF n <= Interval THEN n + 1 ELSE n

Waited(cs) ==
    [k \in Conn |-> IF cs[k] # None /\ cs[k].op \in Creations
                    THEN [cs[k] EXCEPT !.wait = Later(@)] ELSE cs[k]]

\* Janus takes as long as it likes: nothing in the program times it out.
Tick ==
    /\ phase = "running"
    /\ ps' = [p \in PsAddr |-> IF p \in Live
                               THEN [ps[p] EXCEPT !.age = Later(@)] ELSE ps[p]]
    /\ call' = Waited(call)
    /\ UNCHANGED <<phase, doomed, tasks, handles, http, mounts, rooms>>

\* Mutant of Orphans: off by one.
OrphansEarly == {p \in Live : ps[p].age >= Interval}
\* Mutant of Orphans: streamers without a mountpoint are overlooked.
OrphansWithMount == {p \in Live : ps[p].age > Interval /\ ps[p].jid # None}

Orphans == {p \in Live : ps[p].age > Interval}

\* pstreamer_manager_remove_orphans collects first, then destroys.
PurgeStart ==
    /\ phase = "running"
    /\ Orphans # {}
    /\ EnoughConn(Cardinality(Orphans))
    /\ phase' = "purging"
    /\ doomed' = Orphans
    /\ UNCHANGED <<ps, tasks, handles, http, call, mounts, rooms>>

\* Mutant of Dispose: the inject task survives its psinstance.
DisposeKeepingInject(p, calls) ==
    /\ call' \in {MarkStale(cs, p) : cs \in calls}
    /\ tasks' = [tasks EXCEPT ![p] = @ \cap {"inject"}]
    /\ ps' = [ps EXCEPT ![p] = None]
    /\ doomed' = doomed \ {p}

\* pstreamer_deinit and the free that follows it, after the requests to
\* Janus in calls were made.
Dispose(p, calls) ==
    /\ call' \in {MarkStale(cs, p) : cs \in calls}
    /\ tasks' = [tasks EXCEPT ![p] = {}]
    /\ ps' = [ps EXCEPT ![p] = None]
    /\ doomed' = doomed \ {p}

\* Mutant of PurgeOne: Janus is not told.
PurgeOneSilently(p) ==
    /\ phase = "purging"
    /\ p \in doomed
    /\ Dispose(p, {call})
    /\ phase' = IF doomed = {p} THEN "running" ELSE "purging"
    /\ UNCHANGED <<handles, http, mounts, rooms>>

\* Mutant of PurgeOne: the streamer stays in the set after its teardown.
PurgeOneKeeping(p) ==
    /\ phase = "purging"
    /\ p \in doomed
    /\ call' \in DestroyStreamingPoint(call, ps[p].jid)
    /\ doomed' = doomed \ {p}
    /\ phase' = IF doomed = {p} THEN "running" ELSE "purging"
    /\ UNCHANGED <<ps, tasks, handles, http, mounts, rooms>>

\* Mutant of PurgeOne: a source takes its room along.
PurgeOneWithRoom(p) ==
    /\ phase = "purging"
    /\ p \in doomed
    /\ Dispose(p, IF ps[p].source THEN DestroyVideoroom(call, ps[p].id)
                  ELSE DestroyStreamingPoint(call, ps[p].jid))
    /\ phase' = IF doomed = {p} THEN "running" ELSE "purging"
    /\ UNCHANGED <<handles, http, mounts, rooms>>

\* pstreamer_manager_destroy_streamer: a mountpoint is what it asks Janus to
\* destroy, also for a source, whose jid is the publisher's id.
PurgeOne(p) ==
    /\ phase = "purging"
    /\ p \in doomed
    /\ Dispose(p, DestroyStreamingPoint(call, ps[p].jid))
    /\ phase' = IF doomed = {p} THEN "running" ELSE "purging"
    /\ UNCHANGED <<handles, http, mounts, rooms>>

-----------------------------------------------------------------------------
(* The end of main: context_deinit. *)

Signal ==
    /\ phase = "running"
    /\ EnoughConn(Cardinality(Live))
    /\ phase' = IF Live = {} THEN "sleeping" ELSE "destroying"
    /\ doomed' = Live
    /\ UNCHANGED <<ps, tasks, handles, http, call, mounts, rooms>>

\* Mutant of DestroyOne: the loop does not end.
DestroyOneForever(p) ==
    /\ phase = "destroying"
    /\ p \in doomed
    /\ Dispose(p, IF ps[p].source THEN DestroyVideoroom(call, ps[p].id)
                  ELSE DestroyStreamingPoint(call, ps[p].jid))
    /\ UNCHANGED <<phase, handles, http, mounts, rooms>>

\* One iteration of pstreamer_manager_destroy; the structures are freed
\* together after the loop, which nothing can observe.
DestroyOne(p) ==
    /\ phase = "destroying"
    /\ p \in doomed
    /\ Dispose(p, IF ps[p].source THEN DestroyVideoroom(call, ps[p].id)
                  ELSE DestroyStreamingPoint(call, ps[p].jid))
    /\ phase' = IF doomed = {p} THEN "sleeping" ELSE "destroying"
    /\ UNCHANGED <<handles, http, mounts, rooms>>

\* sleep(1) ends; janus_instance_destroy signals the Janus process.
JanusDestroy ==
    /\ phase = "sleeping"
    /\ phase' = "janus_gone"
    /\ UNCHANGED <<doomed, ps, tasks, handles, http, call, mounts, rooms>>

\* task_manager_destroy and pschannel_bucket_destroy; mg_mgr_free is next.
TaskManagerDestroy ==
    /\ phase = "janus_gone"
    /\ phase' = "freeing"
    /\ tasks' = [p \in PsAddr |-> {}]
    /\ UNCHANGED <<doomed, ps, handles, http, call, mounts, rooms>>

Exit ==
    /\ phase = "freeing"
    /\ ActiveConn = {}
    /\ phase' = "exited"
    /\ UNCHANGED <<doomed, ps, tasks, handles, http, call, mounts, rooms>>

Exited == phase = "exited" /\ UNCHANGED vars

-----------------------------------------------------------------------------
(* The Janus process. *)

JanusAlive == phase \notin {"janus_gone", "freeing", "exited"}

\* What Janus may do with request r, and the mountpoint its reply names.
JanusDoes(r, num) ==
    \/ /\ r.op = "create_mount"
       /\ num \in MountIds \ mounts
       /\ mounts' = mounts \cup {num}
       /\ UNCHANGED rooms
    \/ /\ r.op = "create_room" /\ num = None
       /\ rooms' = rooms \cup {r.id}
       /\ UNCHANGED mounts
    \/ /\ r.op = "destroy_mount" /\ num = r.num
       /\ mounts' = mounts \ {num}
       /\ UNCHANGED rooms
    \/ /\ r.op = "destroy_room" /\ num = None
       /\ rooms' = rooms \ {r.id}
       /\ UNCHANGED mounts
    \/ /\ r.op = "forward" /\ num = r.num
       /\ UNCHANGED <<mounts, rooms>>
    \/ /\ r.op = "create_mount" /\ num = None
       /\ "refuse" \in Faults \/ mounts = MountIds
       /\ UNCHANGED <<mounts, rooms>>
    \/ /\ r.op = "create_room" /\ num = None
       /\ "refuse" \in Faults
       /\ UNCHANGED <<mounts, rooms>>

JanusServe(k) ==
    /\ JanusAlive
    /\ call[k] # None /\ call[k].stage = "sent"
    /\ \E num \in MountIds \cup ParticipantIds \cup {None} :
          /\ JanusDoes(call[k], num)
          /\ call' = [call EXCEPT ![k] =
                        [@ EXCEPT !.stage = "answered", !.num = num]]
    /\ UNCHANGED <<phase, doomed, ps, tasks, handles, http>>

-----------------------------------------------------------------------------
Client(c) ==
    \/ Open(c) \/ Leave(c) \/ Rejected(c)
    \/ \E i \in Ids :
          \/ PostChannel(c, i) \/ PostSource(c, i)
          \/ UpdateChannel(c, i)
          \/ \E num \in ParticipantIds : UpdateSource(c, i, num)

Poll(k) == Transmit(k) \/ HandleReply(k) \/ CloseCall(k)

Purge == PurgeStart \/ \E p \in PsAddr : PurgeOne(p)

Shutdown ==
    \/ \E p \in PsAddr : DestroyOne(p)
    \/ JanusDestroy \/ TaskManagerDestroy \/ Exit

Next ==
    \/ \E c \in Conn : Client(c)
    \/ \E k \in Conn : Poll(k) \/ JanusServe(k)
    \/ \E h \in {"streaming", "videoroom"} : Attach(h)
    \/ Tick \/ Purge \/ Signal \/ Shutdown \/ Exited

Spec == Init /\ [][Next]_vars

\* The poll loop comes back to every connection, the purge task to the
\* manager, and the teardown runs to its end; Janus answers what it is sent.
\* A client that waits for nothing closes in the end, so that connections
\* come free again and again.  Requests, signals and time owe nothing.
FairSpec ==
    /\ Spec
    /\ \A k \in Conn : WF_vars(Poll(k)) /\ WF_vars(JanusServe(k))
    /\ \A c \in Conn :
          WF_vars((phase = "freeing" \/ http[c] # "waiting") /\ Leave(c))
    /\ SF_vars(Purge)
    /\ WF_vars(Shutdown)

-----------------------------------------------------------------------------
(* Properties. *)

\* assign_streaming_ports: the port ranges of two live streamers never
\* overlap, and base ports are odd so that the RTP ports the players use are
\* even.
PortsDisjoint ==
    /\ \A p \in Live : ps[p].port % 2 = 1
    /\ \A p, q \in Live :
          p # q => PortRange(ps[p].port) \cap PortRange(ps[q].port) = {}

\* pstreamer_schedule_tasks and pstreamer_deinit: while the task manager
\* runs, its tasks are those of the live streamers that have a psinstance,
\* so no task calls into a psinstance that was destroyed, and none is left
\* when the task manager goes ("must be destroyed before task managers!").
TasksServeLive ==
    \A p \in PsAddr :
        tasks[p] = IF p \in Live THEN Scheduled(ps[p].source, ps[p].psc)
                   ELSE {}

\* streamer_creation_callback: a creation in flight whose client is still
\* connected belongs to a client that waits, and to no other creation: no
\* client can be answered twice or for a request it did not make.
NoDoubleAnswer ==
    \A k, j \in Pending :
        (call[k].op \in Creations /\ ~call[k].gone)
            => /\ http[call[k].client] = "waiting"
               /\ call[j].client = call[k].client => j = k \/ call[j].gone

\* streamer_create and source_streamer_create: a client that posted and has
\* no answer yet will get one, because a request to Janus carries its
\* callback.
AnswerOwed ==
    phase \in {"running", "purging"} =>
        \A c \in Conn : http[c] = "waiting" =>
            \E k \in Pending : call[k].client = c /\ ~call[k].gone

\* The pointers a creation carries (data[0] = &ps->janus_streaming_id and
\* scc->ps) stay those of its live streamer for Interval: only when Janus has
\* been at it for longer may the purge have freed the streamer, so that the
\* reply is stored in freed memory and the callback reads it.
NoDanglingCreation ==
    phase \in {"running", "purging"} =>
        \A k \in Pending : call[k].op \in Creations =>
            IF call[k].stale THEN call[k].wait > Interval
            ELSE call[k].ps \in Live

\* janus_streaming_id of a streamer, when it is a mountpoint's, names one that
\* exists in Janus, that no other streamer uses and that no request still to
\* be served destroys.
OwnMount ==
    \A p \in Live : ps[p].jid \in MountIds =>
        /\ ps[p].jid \in mounts
        /\ \A q \in Live \ {p} : ps[q].jid # ps[p].jid
        /\ \A k \in Pending :
              call[k].op = "destroy_mount" /\ call[k].num = ps[p].jid
                => call[k].stage \notin {"queued", "sent"}

\* The program knows of mountpoint m: a live streamer keeps its number, a
\* reply that brings it is still to be read, or its destruction is under way.
Accounted(m) ==
    \/ \E p \in Live : ps[p].jid = m
    \/ \E k \in Pending :
          /\ call[k].num = m
          /\ \/ call[k].op = "create_mount" /\ call[k].stage = "answered"
             \/ call[k].op = "destroy_mount" /\ call[k].stage \in {"queued", "sent"}

\* The reply that brings m comes after the purge took the streamer.
AnsweredLate(m) ==
    \E k \in Pending :
        call[k].op = "create_mount" /\ call[k].num = m /\ call[k].stale

\* m belongs to a channel whose port reads as 0, and an UPDATE puts the
\* publisher's id in its place or the teardown destroys a room instead.
TakenForSource(m) ==
    \E p \in Live :
        /\ ps[p].jid = m /\ ps[p].source /\ ~ps[p].hosted
        /\ phase = "destroying" \/ p \in Live'

\* While Janus runs no mountpoint leaks inside it, neither by the purge nor by
\* the teardown, but in these two cases: what exists in Janus is known to the
\* program from its creation to its destruction.
MountsAccounted ==
    [][JanusAlive' =>
          \A m \in mounts' :
              (m \in mounts => Accounted(m))
                  => Accounted(m)' \/ AnsweredLate(m) \/ TakenForSource(m)]_vars

\* A live streamer posted as a source has its room in Janus, unless the
\* request that creates it is in flight: the purge of a namesake never takes
\* the room away.
SourceHasRoom ==
    phase \in {"running", "purging"} =>
        \A p \in Live : ps[p].hosted =>
            \/ ps[p].id \in rooms
            \/ \E k \in Pending :
                  call[k].op = "create_room" /\ call[k].id = ps[p].id

\* The answer of a creation whose client has gone is dropped
\* (streamer_creation_callback.c: "we now look for the correct connection as
\* the one we have might have died in the meantime").
AnswerReachesAsker ==
    [][\A k \in Conn :
          (call[k] # None /\ call[k].op \in Creations /\ call[k].gone
             /\ call'[k] = None) => UNCHANGED http]_vars

\* source_streamer_creation_handler answers 200 ("Source room created and
\* served") only when the room exists.
RoomBeforeAnswer ==
    [][\A k \in Conn :
          (phase = "running" /\ call[k] # None /\ call[k].op = "create_room"
             /\ ~call[k].gone /\ call'[k] = None
             /\ http'[call[k].client] = "ok")
                => call[k].id \in rooms]_vars

\* context_deinit: when Janus is terminated it has been sent every request to
\* tear down a mountpoint or a room ("let janus get the http notications for
\* interrupting streaming sessions").
NotifiedBeforeKill ==
    phase = "janus_gone" =>
        ~\E k \in Pending : /\ call[k].op \in {"destroy_mount", "destroy_room"}
                            /\ call[k].stage = "queued"

\* The manager implements the lease table: names are unique, a streamer goes
\* only after Interval without a renewal or at the end.
LeaseOf(p) == [source |-> ps[p].source, age |-> ps[p].age]

Leases == INSTANCE LeaseTable WITH
    lease <- [i \in {ps[p].id : p \in Live} |->
                LeaseOf(CHOOSE p \in Live : ps[p].id = i)],
    open <- phase \in {"running", "purging"}

ImplementsLeases == Leases!Spec

\* Every POST is answered in the end, or its connection closes.
CreationAnswered ==
    \A c \in Conn : http[c] = "waiting" ~> http[c] # "waiting"

\* A streamer whose lease ran out is destroyed, unless it is renewed.
ExpiredPurged ==
    \A p \in PsAddr :
        (p \in Live /\ ps[p].age > Interval)
            ~> (p \notin Live \/ ps[p].age <= Interval)

\* Once the signal arrived the program exits.
ShutdownCompletes == (phase # "running" /\ phase # "purging") ~> (phase = "exited")
=============================================================================
