---------------------------- MODULE JanusInstance ----------------------------
(***************************************************************************)
(* How PeerStreamer-ng gets and keeps its session with the Janus gateway:  *)
(* after the launch it asks for a session, with the session for a handle   *)
(* of each plugin it uses, and a heartbeat keeps the session from timing   *)
(* out.  Nothing is ever asked twice.  Janus is another process; requests  *)
(* and replies take time, the heartbeat comes late when the program is     *)
(* busy, and the faults listed below may happen.  Behaviours in which      *)
(* nothing goes wrong are told apart by the variable faults, for what only *)
(* they promise.                                                           *)
(***************************************************************************)
EXTENDS Naturals

CONSTANTS
    Conn,           \* addresses a struct mg_connection can have
    SessionIds,     \* identifiers Janus gives to sessions
    HandleIds,      \* identifiers Janus gives to plugin handles
    BeatPeriod,     \* time between two heartbeats
    MaxLate,        \* how late a heartbeat can be
    MaxDelay,       \* how long a request and its reply can take
    SessionTimeout, \* idle time after which Janus forgets a session
    Faults,         \* what may go wrong in a behaviour, out of FaultKinds
    None            \* NULL, and the identifier 0

FaultKinds == {
    "noconn",   \* mg_connect_http fails and returns NULL
    "drop",     \* a connection to Janus closes before its reply is read
    "refuse",   \* Janus answers with an error
    "slowboot", \* Janus does not listen yet when the launch has slept
    "crash"}    \* the Janus process ends, and may be started again

Plugins == {"streaming", "videoroom"}

ASSUME JanusAssumption ==
    /\ BeatPeriod \in Nat \ {0} /\ SessionTimeout \in Nat \ {0}
    /\ MaxLate \in Nat /\ MaxDelay \in Nat \ {0}
    /\ Faults \subseteq FaultKinds
    /\ None \notin SessionIds \cup HandleIds

\* The periods of the program: 30 s between heartbeats, 60 s of patience.
ASSUME TimingAssumption ==
    /\ MaxDelay <= BeatPeriod
    /\ BeatPeriod + MaxLate + MaxDelay < SessionTimeout

VARIABLES
    faults,     \* what may go wrong in this behaviour: nothing, or Faults
    session,    \* management_session
    handle,     \* streaming_plugin_handle and videoroom_plugin_handle
    beating,    \* the heartbeat task exists
    since,      \* time since the heartbeat task last ran or was created
    call,       \* call[k]: the request to Janus on the connection at k
    listening,  \* Janus accepts connections
    jsession,   \* the session Janus holds for the program
    jhandle,    \* the plugin handles of that session
    idle        \* time since Janus last saw a request of that session

vars == <<faults, session, handle, beating, since, call, listening, jsession,
          jhandle, idle>>

Ids == SessionIds \cup HandleIds \cup {None}

\* An answer with code 200 may still be an error, then it names no id.
Call ==
    [kind: {"create", "keepalive"} \cup Plugins,
     session: SessionIds \cup {None},
     stage: {"queued", "sent", "answered"},
     ok: BOOLEAN, id: Ids, age: 0..MaxDelay]

ASSUME NoneAssumption == None \notin Call

TypeOK ==
    /\ faults \in {{}, Faults}
    /\ session \in SessionIds \cup {None}
    /\ handle \in [Plugins -> HandleIds \cup {None}]
    /\ beating \in BOOLEAN
    /\ since \in 0..(BeatPeriod + MaxLate)
    /\ call \in [Conn -> Call \cup {None}]
    /\ listening \in BOOLEAN
    /\ jsession \in SessionIds \cup {None}
    /\ jhandle \in [Plugins -> HandleIds \cup {None}]
    /\ idle \in 0..SessionTimeout

Pending == {k \in Conn : call[k] # None}
FreeConn == Conn \ Pending

NewCall(kind, s) ==
    [kind |-> kind, session |-> s, stage |-> "queued", ok |-> FALSE,
     id |-> None, age |-> 0]

\* mg_connect_http: the calls in flight after trying to add r to cs.
Connect(cs, r) ==
    {[cs EXCEPT ![k] = r] : k \in {k \in Conn : cs[k] = None}}
        \cup (IF "noconn" \in faults THEN {cs} ELSE {})

\* janus_instance_launch: only when the request for a session could be
\* queued is there a heartbeat.
Init ==
    /\ faults \in {{}, Faults}
    /\ session = None
    /\ handle = [p \in Plugins |-> None]
    /\ call \in Connect([k \in Conn |-> None], NewCall("create", None))
    /\ beating = (Pending # {})
    /\ since = 0
    /\ listening \in IF "slowboot" \in faults THEN BOOLEAN ELSE {TRUE}
    /\ jsession = None
    /\ jhandle = [p \in Plugins |-> None]
    /\ idle = 0

-----------------------------------------------------------------------------
(* The connections to Janus, as the poll of mongoose serves them. *)

\* Connecting fails while Janus does not listen, and the request is gone.
Transmit(k) ==
    /\ call[k] # None /\ call[k].stage = "queued"
    /\ call' = [call EXCEPT ![k] =
                  IF listening THEN [@ EXCEPT !.stage = "sent"] ELSE None]
    /\ UNCHANGED <<faults, session, handle, beating, since, listening,
                   jsession, jhandle, idle>>

Drop(k) ==
    /\ "drop" \in faults
    /\ call[k] # None
    /\ call' = [call EXCEPT ![k] = None]
    /\ UNCHANGED <<faults, session, handle, beating, since, listening,
                   jsession, jhandle, idle>>

Answered(k) == call[k] # None /\ call[k].stage = "answered"

\* Mutant of SessionReply: only the handle of one plugin is asked for.
SessionReplyOneHandle(k) ==
    /\ Answered(k) /\ call[k].kind = "create"
    /\ IF call[k].ok
       THEN /\ session' = call[k].id
            /\ call' \in {[cs EXCEPT ![k] = None] :
                  cs \in Connect(call, NewCall("streaming", session'))}
       ELSE /\ call' = [call EXCEPT ![k] = None]
            /\ UNCHANGED session
    /\ UNCHANGED <<faults, handle, beating, since, listening, jsession,
                   jhandle, idle>>

\* janus_instance_session_handler: with a session, ask for both handles.  The
\* session is stored and the handles are asked for although the answer may
\* have been an error that names no session.
SessionReply(k) ==
    /\ Answered(k) /\ call[k].kind = "create"
    /\ IF call[k].ok
       THEN /\ session' = call[k].id
            /\ call' \in {[ds EXCEPT ![k] = None] :
                  ds \in UNION {Connect(cs, NewCall("videoroom", session')) :
                     cs \in Connect(call, NewCall("streaming", session'))}}
       ELSE /\ call' = [call EXCEPT ![k] = None]
            /\ UNCHANGED session
    /\ UNCHANGED <<faults, handle, beating, since, listening, jsession,
                   jhandle, idle>>

\* Mutant of PluginReply: the handler of one plugin was copied from the other.
PluginReplyCopied(k) ==
    /\ Answered(k) /\ call[k].kind \in Plugins
    /\ handle' = IF call[k].ok
                 THEN [handle EXCEPT !["streaming"] = call[k].id]
                 ELSE handle
    /\ call' = [call EXCEPT ![k] = None]
    /\ UNCHANGED <<faults, session, beating, since, listening, jsession,
                   jhandle, idle>>

\* Mutant of PluginReply: the id is stored where the session handler stores it.
PluginReplyAsSession(k) ==
    /\ Answered(k) /\ call[k].kind \in Plugins
    /\ session' = IF call[k].ok THEN call[k].id ELSE session
    /\ call' = [call EXCEPT ![k] = None]
    /\ UNCHANGED <<faults, handle, beating, since, listening, jsession,
                   jhandle, idle>>

\* janus_instance_streaming_plugin_handler and its twin for the video rooms.
PluginReply(k) ==
    /\ Answered(k) /\ call[k].kind \in Plugins
    /\ handle' = IF call[k].ok
                 THEN [handle EXCEPT ![call[k].kind] = call[k].id]
                 ELSE handle
    /\ call' = [call EXCEPT ![k] = None]
    /\ UNCHANGED <<faults, session, beating, since, listening, jsession,
                   jhandle, idle>>

\* Mutant of KeepaliveReply: an error makes the program forget its handles.
KeepaliveReplyForgetting(k) ==
    /\ Answered(k) /\ call[k].kind = "keepalive"
    /\ handle' = IF call[k].ok THEN handle ELSE [p \in Plugins |-> None]
    /\ call' = [call EXCEPT ![k] = None]
    /\ UNCHANGED <<faults, session, beating, since, listening, jsession,
                   jhandle, idle>>

\* janus_instance_generic_handler: nothing is learnt from the answer.
KeepaliveReply(k) ==
    /\ Answered(k) /\ call[k].kind = "keepalive"
    /\ call' = [call EXCEPT ![k] = None]
    /\ UNCHANGED <<faults, session, handle, beating, since, listening,
                   jsession, jhandle, idle>>

-----------------------------------------------------------------------------
(* The heartbeat and time. *)

\* Mutant of Heartbeat: the task beats only until the handles are there.
HeartbeatUntilReady ==
    /\ beating /\ since >= BeatPeriod
    /\ since' = 0
    /\ call' \in IF session = None \/ handle["videoroom"] # None THEN {call}
                 ELSE Connect(call, NewCall("keepalive", session))
    /\ UNCHANGED <<faults, session, handle, beating, listening, jsession,
                   jhandle, idle>>

\* Without a session there is nothing to keep alive.
Heartbeat ==
    /\ beating /\ since >= BeatPeriod
    /\ since' = 0
    /\ call' \in IF session = None THEN {call}
                 ELSE Connect(call, NewCall("keepalive", session))
    /\ UNCHANGED <<faults, session, handle, beating, listening, jsession,
                   jhandle, idle>>

Tick ==
    /\ beating => since < BeatPeriod + MaxLate
    /\ \A k \in Pending : call[k].age < MaxDelay
    /\ since' = IF beating THEN since + 1 ELSE since
    /\ call' = [k \in Conn |-> IF call[k] = None THEN None
                               ELSE [call[k] EXCEPT !.age = @ + 1]]
    /\ idle' = IF jsession # None /\ idle < SessionTimeout THEN idle + 1
               ELSE idle
    /\ UNCHANGED <<faults, session, handle, beating, listening, jsession,
                   jhandle>>

-----------------------------------------------------------------------------
(* The Janus process. *)

Listen ==
    /\ ~listening
    /\ listening' = TRUE
    /\ UNCHANGED <<faults, session, handle, beating, since, call, jsession,
                   jhandle, idle>>

Reply(k, ok, id) ==
    call' = [call EXCEPT ![k] =
               [@ EXCEPT !.stage = "answered", !.ok = ok, !.id = id]]

Sent(k) == call[k] # None /\ call[k].stage = "sent"

ServeCreate(k) ==
    /\ Sent(k) /\ call[k].kind = "create"
    /\ \E s \in SessionIds :
          /\ Reply(k, TRUE, s)
          /\ jsession' = s
    /\ jhandle' = [p \in Plugins |-> None]
    /\ idle' = 0
    /\ UNCHANGED <<faults, session, handle, beating, since, listening>>

\* Any request of the session starts its idle time anew.
Known(k) == jsession # None /\ call[k].session = jsession

ServeAttach(k) ==
    /\ Sent(k) /\ call[k].kind \in Plugins /\ Known(k)
    /\ \E h \in HandleIds \ {jhandle[p] : p \in Plugins} :
          /\ Reply(k, TRUE, h)
          /\ jhandle' = [jhandle EXCEPT ![call[k].kind] = h]
    /\ idle' = 0
    /\ UNCHANGED <<faults, session, handle, beating, since, listening,
                   jsession>>

ServeKeepalive(k) ==
    /\ Sent(k) /\ call[k].kind = "keepalive" /\ Known(k)
    /\ Reply(k, TRUE, None)
    /\ idle' = 0
    /\ UNCHANGED <<faults, session, handle, beating, since, listening,
                   jsession, jhandle>>

\* An error, because Janus does not know the session or for a reason of its
\* own: mostly in an answer with code 200, from which an id of 0 is read.
Refuse(k) ==
    /\ Sent(k)
    /\ "refuse" \in faults \/ (call[k].kind # "create" /\ ~Known(k))
    /\ \E ok \in BOOLEAN : Reply(k, ok, None)
    /\ UNCHANGED <<faults, session, handle, beating, since, listening,
                   jsession, jhandle, idle>>

\* Its connections break, and all it knew is gone; Listen is its restart.
Crash ==
    /\ "crash" \in faults
    /\ listening
    /\ listening' = FALSE
    /\ jsession' = None
    /\ jhandle' = [p \in Plugins |-> None]
    /\ call' = [k \in Conn |-> IF Sent(k) THEN None ELSE call[k]]
    /\ UNCHANGED <<faults, session, handle, beating, since, idle>>

Reap ==
    /\ jsession # None /\ idle >= SessionTimeout
    /\ jsession' = None
    /\ jhandle' = [p \in Plugins |-> None]
    /\ UNCHANGED <<faults, session, handle, beating, since, call, listening,
                   idle>>

-----------------------------------------------------------------------------
Poll(k) ==
    \/ Transmit(k) \/ Drop(k)
    \/ SessionReply(k) \/ PluginReply(k) \/ KeepaliveReply(k)

Serve(k) == ServeCreate(k) \/ ServeAttach(k) \/ ServeKeepalive(k) \/ Refuse(k)

Next ==
    \/ \E k \in Conn : Poll(k) \/ Serve(k)
    \/ Heartbeat \/ Tick \/ Listen \/ Crash \/ Reap

Spec == Init /\ [][Next]_vars

\* The poll loop serves every connection, the heartbeat runs, and Janus
\* starts to listen and answers.
FairSpec ==
    /\ Spec
    /\ \A k \in Conn : WF_vars(Poll(k)) /\ WF_vars(Serve(k))
    /\ WF_vars(Heartbeat) /\ WF_vars(Listen)

-----------------------------------------------------------------------------
(* Properties. *)

\* janus_instance_heartbeat: while nothing is lost, the session the program
\* uses is one that Janus still holds, so that no mountpoint or room is asked
\* of a session that has timed out, whatever the timing of the first beats.
SessionKept == faults = {} /\ session # None => jsession = session

\* The handles stored for each plugin are those Janus granted for that plugin
\* in the stored session.
HandlesGranted ==
    \A p \in Plugins : handle[p] # None =>
        /\ session # None
        /\ jsession = session => jhandle[p] = handle[p]

\* What Streamers assumes of this module: handles are granted one at a time
\* and never withdrawn (its action Attach), whatever goes wrong.
Granted == {p \in Plugins : handle[p] # None}
GrantsHandles ==
    Granted = {} /\ [][\E p \in Plugins \ Granted :
                          Granted' = Granted \cup {p}]_Granted

\* The launch ends with the program able to serve: "let janus bootstrap"
\* before the only request for a session.
BecomesReady == faults = {} => <>[](Granted = Plugins)
=============================================================================
