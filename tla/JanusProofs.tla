----------------------------- MODULE JanusProofs -----------------------------
(***************************************************************************)
(* The session with Janus for any number of connections, any faults and    *)
(* any periods that leave the heartbeat enough time: the handles are only  *)
(* ever gained, and while nothing is lost the session never times out.     *)
(***************************************************************************)
EXTENDS JanusInstance, TLAPS

\* A call whose answer names an identifier of what was asked for.
TypedCall ==
    {r \in Call :
        /\ r.kind = "create" => r.id \in SessionIds \cup {None}
        /\ r.kind \in Plugins => r.id \in HandleIds \cup {None}}

TypedInv == TypeOK /\ call \in [Conn -> TypedCall \cup {None}]

LEMMA NewCallType ==
    ASSUME NEW kind \in {"create", "keepalive"} \cup Plugins,
           NEW s \in SessionIds \cup {None}
    PROVE  NewCall(kind, s) \in TypedCall
<1>1. 0 \in 0..MaxDelay
    BY JanusAssumption
<1> QED
    BY <1>1 DEF NewCall, TypedCall, Call, Ids, Plugins

LEMMA ConnectType ==
    ASSUME NEW cs \in [Conn -> TypedCall \cup {None}], NEW r \in TypedCall,
           NEW ds \in Connect(cs, r)
    PROVE  ds \in [Conn -> TypedCall \cup {None}]
BY DEF Connect

\* What the connections carry after one more request: what they carried, and
\* at most the new one where there was none.
LEMMA ConnectAdds ==
    ASSUME NEW cs \in [Conn -> TypedCall \cup {None}], NEW r \in TypedCall,
           NEW ds \in Connect(cs, r)
    PROVE  /\ \A k \in Conn : ds[k] = cs[k] \/ (ds[k] = r /\ cs[k] = None)
           /\ \A k, l \in Conn : ds[k] # cs[k] /\ ds[l] # cs[l] => k = l
BY DEF Connect

\* Without faults of mg_connect_http the request is on a connection.
LEMMA ConnectPlaces ==
    ASSUME "noconn" \notin faults,
           NEW cs \in [Conn -> TypedCall \cup {None}], NEW r \in TypedCall,
           NEW ds \in Connect(cs, r)
    PROVE  \E k \in Conn : cs[k] = None /\ ds[k] = r
BY DEF Connect

-----------------------------------------------------------------------------
(* Type correctness. *)

LEMMA TypeInit == Init => TypedInv
<1> SUFFICES ASSUME Init PROVE TypedInv
    OBVIOUS
<1>1. NewCall("create", None) \in TypedCall
    BY NewCallType
<1>2. [k \in Conn |-> None] \in [Conn -> TypedCall \cup {None}]
    OBVIOUS
<1>3. call \in [Conn -> TypedCall \cup {None}]
    BY <1>1, <1>2, ConnectType DEF Init
<1>4. call \in [Conn -> Call \cup {None}]
    BY <1>3 DEF TypedCall
<1>5. beating \in BOOLEAN /\ listening \in BOOLEAN
    BY DEF Init
<1> QED
    BY <1>3, <1>4, <1>5, JanusAssumption DEF Init, TypeOK, TypedInv

\* Serving a request that was sent: the answer is a call of the right type.
LEMMA ReplyType ==
    ASSUME TypedInv, NEW k \in Conn, Sent(k), NEW ok \in BOOLEAN,
           NEW id \in Ids, Reply(k, ok, id),
           call[k].kind = "create" => id \in SessionIds \cup {None},
           call[k].kind \in Plugins => id \in HandleIds \cup {None}
    PROVE  call' \in [Conn -> TypedCall \cup {None}]
<1>1. call[k] \in TypedCall
    BY DEF TypedInv, Sent
<1>2. [call[k] EXCEPT !.stage = "answered", !.ok = ok, !.id = id] \in TypedCall
    BY <1>1 DEF TypedCall, Call
<1> QED
    BY <1>2 DEF Reply, TypedInv

LEMMA TypeStep == TypedInv /\ [Next]_vars => TypedInv'
<1> SUFFICES ASSUME TypedInv, [Next]_vars PROVE TypedInv'
    OBVIOUS
<1>0. /\ 0 \in 0..(BeatPeriod + MaxLate)
      /\ 0 \in 0..SessionTimeout
      /\ None \in Ids
    BY JanusAssumption DEF Ids
<1>a. ASSUME call' \in [Conn -> TypedCall \cup {None}]
      PROVE  call' \in [Conn -> Call \cup {None}]
    BY <1>a DEF TypedCall
<1>1. CASE UNCHANGED vars
    BY <1>1 DEF vars, TypedInv, TypeOK
<1>2. ASSUME NEW k \in Conn, Transmit(k) PROVE TypedInv'
    <2>1. call[k] \in TypedCall
        BY <1>2 DEF Transmit, TypedInv
    <2>2. [call[k] EXCEPT !.stage = "sent"] \in TypedCall
        BY <2>1 DEF TypedCall, Call
    <2>3. call' \in [Conn -> TypedCall \cup {None}]
        BY <1>2, <2>2 DEF Transmit, TypedInv
    <2> QED
        BY <1>2, <2>3, <1>a DEF Transmit, TypedInv, TypeOK
<1>3. ASSUME NEW k \in Conn, Drop(k) PROVE TypedInv'
    BY <1>3 DEF Drop, TypedInv, TypeOK
<1>4. ASSUME NEW k \in Conn, SessionReply(k) PROVE TypedInv'
    <2>1. call[k] \in TypedCall
        BY <1>4 DEF SessionReply, Answered, TypedInv
    <2>2. CASE ~call[k].ok
        BY <1>4, <2>2 DEF SessionReply, TypedInv, TypeOK
    <2>3. CASE call[k].ok
        <3>1. session' \in SessionIds \cup {None}
            BY <1>4, <2>1, <2>3 DEF SessionReply, TypedCall
        <3>2. PICK cs \in Connect(call, NewCall("streaming", session')) :
                 \E ds \in Connect(cs, NewCall("videoroom", session')) :
                    call' = [ds EXCEPT ![k] = None]
            BY <1>4, <2>3 DEF SessionReply
        <3>3. /\ NewCall("streaming", session') \in TypedCall
              /\ NewCall("videoroom", session') \in TypedCall
            BY <3>1, NewCallType DEF Plugins
        <3>4. cs \in [Conn -> TypedCall \cup {None}]
            BY <3>2, <3>3, ConnectType DEF TypedInv
        <3>5. call' \in [Conn -> TypedCall \cup {None}]
            <4>1. PICK ds \in Connect(cs, NewCall("videoroom", session')) :
                     call' = [ds EXCEPT ![k] = None]
                BY <3>2
            <4>2. ds \in [Conn -> TypedCall \cup {None}]
                BY <4>1, <3>3, <3>4, ConnectType
            <4> QED
                BY <4>1, <4>2
        <3> QED
            BY <1>4, <3>1, <3>5, <1>a DEF SessionReply, TypedInv, TypeOK
    <2> QED
        BY <2>2, <2>3
<1>5. ASSUME NEW k \in Conn, PluginReply(k) PROVE TypedInv'
    <2>1. call[k] \in TypedCall /\ call[k].kind \in Plugins
        BY <1>5 DEF PluginReply, Answered, TypedInv
    <2>2. handle' \in [Plugins -> HandleIds \cup {None}]
        BY <1>5, <2>1 DEF PluginReply, TypedCall, TypedInv, TypeOK
    <2> QED
        BY <1>5, <2>2 DEF PluginReply, TypedInv, TypeOK
<1>6. ASSUME NEW k \in Conn, KeepaliveReply(k) PROVE TypedInv'
    BY <1>6 DEF KeepaliveReply, TypedInv, TypeOK
<1>7. CASE Heartbeat
    <2>1. call' \in [Conn -> TypedCall \cup {None}]
        BY <1>7, NewCallType, ConnectType DEF Heartbeat, TypedInv, TypeOK
    <2> QED
        BY <1>7, <2>1, <1>a, <1>0 DEF Heartbeat, TypedInv, TypeOK
<1>8. CASE Tick
    <2>1. ASSUME NEW k \in Conn, call[k] # None
          PROVE  [call[k] EXCEPT !.age = @ + 1] \in TypedCall
        <3>1. call[k] \in TypedCall /\ call[k].age < MaxDelay
            BY <2>1, <1>8 DEF Tick, TypedInv, Pending
        <3>2. call[k].age \in 0..MaxDelay
            BY <3>1 DEF TypedCall, Call
        <3>3. call[k].age + 1 \in 0..MaxDelay
            BY <3>1, <3>2, JanusAssumption
        <3> QED
            BY <3>1, <3>3 DEF TypedCall, Call
    <2>2. call' \in [Conn -> TypedCall \cup {None}]
        BY <1>8, <2>1 DEF Tick, TypedInv
    <2>3. since' \in 0..(BeatPeriod + MaxLate) /\ idle' \in 0..SessionTimeout
        BY <1>8, JanusAssumption DEF Tick, TypedInv, TypeOK
    <2> QED
        BY <1>8, <2>2, <2>3, <1>a DEF Tick, TypedInv, TypeOK
<1>9. CASE Listen
    BY <1>9 DEF Listen, TypedInv, TypeOK
<1>10. CASE Reap
    BY <1>10 DEF Reap, TypedInv, TypeOK
<1>11. ASSUME NEW k \in Conn, ServeCreate(k) PROVE TypedInv'
    <2>1. PICK s \in SessionIds : Reply(k, TRUE, s) /\ jsession' = s
        BY <1>11 DEF ServeCreate
    <2>2. call' \in [Conn -> TypedCall \cup {None}]
        BY <1>11, <2>1, ReplyType DEF ServeCreate, Ids, Plugins
    <2> QED
        BY <1>11, <2>1, <2>2, <1>a, <1>0 DEF ServeCreate, TypedInv, TypeOK
<1>12. ASSUME NEW k \in Conn, ServeAttach(k) PROVE TypedInv'
    <2>1. PICK h \in HandleIds : /\ Reply(k, TRUE, h)
                                 /\ jhandle' = [jhandle EXCEPT ![call[k].kind] = h]
        BY <1>12 DEF ServeAttach
    <2>2. call' \in [Conn -> TypedCall \cup {None}]
        BY <1>12, <2>1, ReplyType DEF ServeAttach, Ids, Plugins
    <2> QED
        BY <1>12, <2>1, <2>2, <1>a, <1>0 DEF ServeAttach, TypedInv, TypeOK
<1>13. ASSUME NEW k \in Conn, ServeKeepalive(k) PROVE TypedInv'
    <2>1. call' \in [Conn -> TypedCall \cup {None}]
        BY <1>13, <1>0, ReplyType DEF ServeKeepalive
    <2> QED
        BY <1>13, <2>1, <1>a, <1>0 DEF ServeKeepalive, TypedInv, TypeOK
<1>14. ASSUME NEW k \in Conn, Refuse(k) PROVE TypedInv'
    <2>1. PICK ok \in BOOLEAN : Reply(k, ok, None)
        BY <1>14 DEF Refuse
    <2>2. call' \in [Conn -> TypedCall \cup {None}]
        BY <1>14, <2>1, <1>0, ReplyType DEF Refuse
    <2> QED
        BY <1>14, <2>2, <1>a DEF Refuse, TypedInv, TypeOK
<1>15. CASE Crash
    BY <1>15 DEF Crash, TypedInv, TypeOK
<1> QED
    BY <1>1, <1>2, <1>3, <1>4, <1>5, <1>6, <1>7, <1>8, <1>9, <1>10, <1>11,
       <1>12, <1>13, <1>14, <1>15 DEF Next, Poll, Serve

\* The state of the session handshake keeps its types, whatever goes wrong.
THEOREM SessionTypes == Spec => []TypeOK
<1>1. TypedInv => TypeOK
    BY DEF TypedInv
<1> QED
    BY <1>1, TypeInit, TypeStep, PTL DEF Spec

-----------------------------------------------------------------------------
(* Nothing is asked twice, so that nothing granted is lost. *)

Asks(k, kind) == call[k] # None /\ call[k].kind = kind

AskedOnce ==
    /\ \A k, l \in Conn : \A kind \in {"create"} \cup Plugins :
          Asks(k, kind) /\ Asks(l, kind) => k = l
    /\ \A k \in Conn : Asks(k, "create") =>
          /\ session = None
          /\ \A p \in Plugins : handle[p] = None
          /\ \A l \in Conn : \A p \in Plugins : ~Asks(l, p)
    /\ \A k \in Conn : \A p \in Plugins : Asks(k, p) => handle[p] = None

LEMMA AskedInit == Init => AskedOnce
<1> SUFFICES ASSUME Init PROVE AskedOnce
    OBVIOUS
<1> DEFINE none == [k \in Conn |-> None]
           r == NewCall("create", None)
<1>1. r \in TypedCall /\ r.kind = "create"
    BY NewCallType DEF NewCall
<1>2. none \in [Conn -> {None}] /\ call \in Connect(none, r)
    BY DEF Init
<1>3. /\ \A k \in Conn : call[k] = None \/ call[k] = r
      /\ \A k, l \in Conn : call[k] # None /\ call[l] # None => k = l
    BY <1>2 DEF Connect
<1> HIDE DEF r, none
<1> QED
    BY <1>1, <1>3 DEF Init, AskedOnce, Asks, Plugins

\* Calls that go on, end, or are heartbeats disturb nothing.
LEMMA AskedKept ==
    ASSUME AskedOnce, UNCHANGED <<session, handle>>,
           \A k \in Conn : call'[k] # None /\ call'[k].kind # "keepalive" =>
              call[k] # None /\ call[k].kind = call'[k].kind
    PROVE  AskedOnce'
<1>1. \A k \in Conn : \A kind \in {"create"} \cup Plugins :
         Asks(k, kind)' => Asks(k, kind)
    BY DEF Asks, Plugins
<1> QED
    BY <1>1 DEF AskedOnce

LEMMA AskedBySession ==
    ASSUME TypedInv, AskedOnce, NEW k \in Conn, SessionReply(k)
    PROVE  AskedOnce'
<1>1. Asks(k, "create") /\ UNCHANGED handle
    BY DEF SessionReply, Answered, Asks
<1>2. CASE ~call[k].ok
    BY <1>2, AskedKept DEF SessionReply, TypedInv
<1>3. CASE call[k].ok
    <2>1. /\ \A l \in Conn : Asks(l, "create") => l = k
          /\ \A l \in Conn : \A p \in Plugins : ~Asks(l, p)
          /\ \A p \in Plugins : handle[p] = None
        BY <1>1 DEF AskedOnce
    <2> DEFINE s == NewCall("streaming", session')
               v == NewCall("videoroom", session')
    <2>2. /\ s.kind = "streaming" /\ v.kind = "videoroom"
        BY DEF NewCall
    <2>3. PICK cs \in Connect(call, s) :
             \E ds \in Connect(cs, v) : call' = [ds EXCEPT ![k] = None]
        BY <1>3 DEF SessionReply
    <2>4. PICK ds \in Connect(cs, v) : call' = [ds EXCEPT ![k] = None]
        BY <2>3
    <2>5. s \in TypedCall /\ v \in TypedCall
        <3>1. call[k] \in TypedCall
            BY <1>1 DEF Asks, TypedInv
        <3>2. session' \in SessionIds \cup {None}
            BY <1>3, <1>1, <3>1 DEF SessionReply, TypedCall, Asks
        <3> QED
            BY <3>2, NewCallType DEF Plugins
    <2> HIDE DEF s, v
    <2>6. cs \in [Conn -> TypedCall \cup {None}]
        BY <2>3, <2>5, ConnectType DEF TypedInv
    <2>7. ds \in [Conn -> TypedCall \cup {None}]
        BY <2>4, <2>5, <2>6, ConnectType
    <2>8. /\ \A l \in Conn : cs[l] = call[l] \/ cs[l] = s
          /\ \A l, m \in Conn : cs[l] # call[l] /\ cs[m] # call[m] => l = m
        BY <2>3, <2>5, ConnectAdds DEF TypedInv
    <2>9. /\ \A l \in Conn : ds[l] = cs[l] \/ ds[l] = v
          /\ \A l, m \in Conn : ds[l] # cs[l] /\ ds[m] # cs[m] => l = m
        BY <2>4, <2>5, <2>6, ConnectAdds
    <2>10. \A l \in Conn : call'[l] = IF l = k THEN None ELSE ds[l]
        BY <2>4, <2>7
    <2>11. \A l \in Conn : ~Asks(l, "create")'
        BY <2>1, <2>2, <2>8, <2>9, <2>10 DEF Asks
    <2>12. \A l \in Conn : Asks(l, "streaming")' => cs[l] # call[l]
        BY <2>1, <2>2, <2>8, <2>9, <2>10 DEF Asks, Plugins
    <2>13. \A l \in Conn : Asks(l, "videoroom")' => ds[l] # cs[l]
        BY <2>1, <2>2, <2>8, <2>9, <2>10 DEF Asks, Plugins
    <2> QED
        BY <1>1, <2>1, <2>8, <2>9, <2>11, <2>12, <2>13 DEF AskedOnce, Plugins
<1> QED
    BY <1>2, <1>3

\* The answer for a plugin ends the only request for it.
LEMMA AskedByPlugin ==
    ASSUME TypedInv, AskedOnce, NEW k \in Conn, PluginReply(k)
    PROVE  AskedOnce'
<1> DEFINE p == call[k].kind
<1>1. p \in Plugins /\ Asks(k, p) /\ UNCHANGED session
    BY DEF PluginReply, Answered, Asks
<1>2. \A q \in Plugins : q # p => handle'[q] = handle[q]
    BY DEF PluginReply, TypedInv, TypeOK
<1>3. \A l \in Conn : call'[l] = IF l = k THEN None ELSE call[l]
    BY DEF PluginReply, TypedInv
<1> HIDE DEF p
<1>4. \A l \in Conn : \A kind \in {"create"} \cup Plugins :
         Asks(l, kind)' => Asks(l, kind) /\ l # k /\ kind # p
    BY <1>1, <1>3 DEF Asks, AskedOnce
<1> QED
    BY <1>1, <1>2, <1>4 DEF AskedOnce

LEMMA AskedStep == TypedInv /\ AskedOnce /\ [Next]_vars => AskedOnce'
<1> SUFFICES ASSUME TypedInv, AskedOnce, [Next]_vars PROVE AskedOnce'
    OBVIOUS
<1>1. CASE UNCHANGED vars
    BY <1>1, AskedKept DEF vars
<1>2. ASSUME NEW k \in Conn, Transmit(k) PROVE AskedOnce'
    <2>1. call[k] \in Call
        BY <1>2 DEF Transmit, TypedInv, TypeOK
    <2>2. [call[k] EXCEPT !.stage = "sent"].kind = call[k].kind
        BY <2>1 DEF Call
    <2> QED
        BY <1>2, <2>2, AskedKept DEF Transmit, TypedInv
<1>3. ASSUME NEW k \in Conn, Drop(k) PROVE AskedOnce'
    BY <1>3, AskedKept DEF Drop, TypedInv
<1>4. ASSUME NEW k \in Conn, KeepaliveReply(k) PROVE AskedOnce'
    BY <1>4, AskedKept DEF KeepaliveReply, TypedInv
<1>5. CASE Heartbeat
    <2>1. CASE session = None
        BY <1>5, <2>1, AskedKept DEF Heartbeat
    <2>2. CASE session # None
        <3> DEFINE r == NewCall("keepalive", session)
        <3>1. r \in TypedCall /\ r.kind = "keepalive"
            BY NewCallType DEF NewCall, TypedInv, TypeOK
        <3>2. call' \in Connect(call, r)
            BY <1>5, <2>2 DEF Heartbeat
        <3> HIDE DEF r
        <3>3. \A k \in Conn : call'[k] = call[k] \/ call'[k] = r
            BY <3>1, <3>2, ConnectAdds DEF TypedInv
        <3> QED
            BY <1>5, <3>1, <3>3, AskedKept DEF Heartbeat
    <2> QED
        BY <2>1, <2>2
<1>6. CASE Tick
    <2>1. \A k \in Conn : call[k] # None => call[k] \in Call
        BY DEF TypedInv, TypeOK
    <2>2. \A k \in Conn : call[k] # None =>
             [call[k] EXCEPT !.age = @ + 1].kind = call[k].kind
        BY <2>1 DEF Call
    <2> QED
        BY <1>6, <2>2, AskedKept DEF Tick
<1>7. CASE Listen
    BY <1>7, AskedKept DEF Listen
<1>8. CASE Reap
    BY <1>8, AskedKept DEF Reap
<1>9. ASSUME NEW k \in Conn, Serve(k) PROVE AskedOnce'
    <2>1. /\ UNCHANGED <<session, handle>>
          /\ Sent(k)
          /\ \E ok \in BOOLEAN, id \in Ids : Reply(k, ok, id)
        BY <1>9 DEF Serve, ServeCreate, ServeAttach, ServeKeepalive, Refuse, Ids
    <2>2. PICK ok \in BOOLEAN, id \in Ids : Reply(k, ok, id)
        BY <2>1
    <2>3. call[k] \in Call
        BY <2>1 DEF Sent, TypedInv, TypeOK
    <2>4. [call[k] EXCEPT !.stage = "answered", !.ok = ok, !.id = id].kind
             = call[k].kind
        BY <2>3 DEF Call
    <2> QED
        BY <2>1, <2>2, <2>4, AskedKept DEF Reply, Sent, TypedInv
<1>10. CASE Crash
    BY <1>10, AskedKept DEF Crash
<1> QED
    BY <1>1, <1>2, <1>3, <1>4, <1>5, <1>6, <1>7, <1>8, <1>9, <1>10,
       AskedBySession, AskedByPlugin DEF Next, Poll

\* Streamers takes the handles as granted one at a time and never withdrawn:
\* so they are, however many requests fail, are refused or come too late.
THEOREM HandlesOnlyGained == Spec => GrantsHandles
<1> DEFINE A == \E p \in Plugins \ Granted : Granted' = Granted \cup {p}
<1>1. Init => Granted = {}
    BY DEF Init, Granted
<1>2. TypedInv /\ AskedOnce /\ [Next]_vars => [A]_Granted
    <2> SUFFICES ASSUME TypedInv, AskedOnce, [Next]_vars, UNCHANGED handle
                        \/ \E k \in Conn : PluginReply(k)
                 PROVE  [A]_Granted
        BY DEF Next, vars, Poll, Serve, Transmit, Drop, SessionReply,
               KeepaliveReply, Heartbeat, Tick, Listen, Crash, Reap,
               ServeCreate, ServeAttach, ServeKeepalive, Refuse
    <2>1. CASE UNCHANGED handle
        BY <2>1 DEF Granted
    <2>2. ASSUME NEW k \in Conn, PluginReply(k) PROVE [A]_Granted
        <3> DEFINE p == call[k].kind
        <3>1. p \in Plugins /\ Asks(k, p)
            BY <2>2 DEF PluginReply, Answered, Asks
        <3>2. p \notin Granted
            BY <3>1 DEF AskedOnce, Granted
        <3>3. \A q \in Plugins : q # p => handle'[q] = handle[q]
            BY <2>2 DEF PluginReply, TypedInv, TypeOK
        <3> HIDE DEF p
        <3>4. Granted' = Granted \/ Granted' = Granted \cup {p}
            BY <3>1, <3>2, <3>3 DEF Granted
        <3> QED
            BY <3>1, <3>2, <3>4
    <2> QED
        BY <2>1, <2>2
<1> HIDE DEF A
<1>3. Spec => Granted = {} /\ [][A]_Granted
    BY <1>1, <1>2, TypeInit, TypeStep, AskedInit, AskedStep, PTL DEF Spec
<1> QED
    BY <1>3 DEF GrantsHandles, A

-----------------------------------------------------------------------------
(* The handles are those of the stored session. *)

\* A handle that was granted to the program, whether it has read of it or not.
GrantedFor(p, h) ==
    session # None /\ (jsession = session => jhandle[p] = h)

\* Requests for a handle are made in the stored session, which stays the same
\* while there are any, and what their answers name was granted in it.
GrantInv ==
    /\ \A p \in Plugins : handle[p] # None => GrantedFor(p, handle[p])
    /\ \A k \in Conn : \A p \in Plugins : Asks(k, p) =>
          /\ call[k].session = session
          /\ call[k].id # None => GrantedFor(p, call[k].id)

LEMMA GrantInit == Init => GrantInv
<1> SUFFICES ASSUME Init PROVE GrantInv
    OBVIOUS
<1> DEFINE r == NewCall("create", None)
           none == [k \in Conn |-> None]
<1>1. r \in TypedCall /\ r.kind = "create"
    BY NewCallType DEF NewCall
<1>2. none \in [Conn -> {None}] /\ call \in Connect(none, r)
    BY DEF Init
<1>3. \A k \in Conn : call[k] = None \/ call[k] = r
    BY <1>2 DEF Connect
<1> HIDE DEF r, none
<1> QED
    BY <1>1, <1>3 DEF Init, GrantInv, Asks, Plugins

\* Requests that go on without being answered, and a Janus that forgets at
\* most, change nothing of it.
LEMMA GrantKept ==
    ASSUME GrantInv, UNCHANGED <<session, handle>>,
           UNCHANGED <<jsession, jhandle>> \/ jsession' = None,
           \A k \in Conn : call'[k] # None /\ call'[k].kind # "keepalive" =>
              /\ call[k] # None /\ call[k].kind = call'[k].kind
              /\ call[k].session = call'[k].session
              /\ call'[k].id = call[k].id \/ call'[k].id = None
    PROVE  GrantInv'
<1>1. ASSUME NEW p \in Plugins, NEW h, GrantedFor(p, h)
      PROVE  GrantedFor(p, h)'
    BY <1>1 DEF GrantedFor
<1>2. ASSUME NEW k \in Conn, NEW p \in Plugins, Asks(k, p)'
      PROVE  Asks(k, p) /\ (call'[k].session = session')
             /\ (call'[k].id # None => GrantedFor(p, call[k].id)')
    <2>1. Asks(k, p) /\ call'[k].session = call[k].session
          /\ (call'[k].id = call[k].id \/ call'[k].id = None)
        BY <1>2 DEF Asks, Plugins
    <2> QED
        BY <1>1, <2>1 DEF GrantInv
<1>3. \A p \in Plugins : handle'[p] # None => GrantedFor(p, handle[p])'
    BY <1>1 DEF GrantInv
<1> QED
    BY <1>2, <1>3 DEF GrantInv

\* With the session there are no handles yet, and the requests for them have
\* not been answered.
LEMMA GrantBySession ==
    ASSUME TypedInv, AskedOnce, GrantInv, NEW k \in Conn, SessionReply(k)
    PROVE  GrantInv'
<1>1. Asks(k, "create")
    BY DEF SessionReply, Answered, Asks
<1>2. CASE ~call[k].ok
    BY <1>2, GrantKept DEF SessionReply, TypedInv
<1>3. CASE call[k].ok
    <2>1. /\ \A l \in Conn : \A p \in Plugins : ~Asks(l, p)
          /\ \A p \in Plugins : handle'[p] = None
        BY <1>1 DEF AskedOnce, SessionReply
    <2> DEFINE s == NewCall("streaming", session')
               v == NewCall("videoroom", session')
    <2>2. /\ s.id = None /\ v.id = None
          /\ s.session = session' /\ v.session = session'
        BY DEF NewCall
    <2>3. PICK cs \in Connect(call, s) :
             \E ds \in Connect(cs, v) : call' = [ds EXCEPT ![k] = None]
        BY <1>3 DEF SessionReply
    <2>4. PICK ds \in Connect(cs, v) : call' = [ds EXCEPT ![k] = None]
        BY <2>3
    <2>5. s \in TypedCall /\ v \in TypedCall
        <3>1. call[k] \in TypedCall
            BY <1>1 DEF Asks, TypedInv
        <3>2. session' \in SessionIds \cup {None}
            BY <1>3, <1>1, <3>1 DEF SessionReply, TypedCall, Asks
        <3> QED
            BY <3>2, NewCallType DEF Plugins
    <2> HIDE DEF s, v
    <2>6. cs \in [Conn -> TypedCall \cup {None}]
        BY <2>3, <2>5, ConnectType DEF TypedInv
    <2>7. ds \in [Conn -> TypedCall \cup {None}]
        BY <2>4, <2>5, <2>6, ConnectType
    <2>8. \A l \in Conn : cs[l] = call[l] \/ cs[l] = s
        BY <2>3, <2>5, ConnectAdds DEF TypedInv
    <2>9. \A l \in Conn : ds[l] = cs[l] \/ ds[l] = v
        BY <2>4, <2>5, <2>6, ConnectAdds
    <2>10. \A l \in Conn : call'[l] = IF l = k THEN None ELSE ds[l]
        BY <2>4, <2>7
    <2>11. \A l \in Conn : \A p \in Plugins : Asks(l, p)' =>
              call'[l].session = session' /\ call'[l].id = None
        BY <2>1, <2>2, <2>8, <2>9, <2>10 DEF Asks
    <2> QED
        BY <2>1, <2>11 DEF GrantInv
<1> QED
    BY <1>2, <1>3

LEMMA GrantByPlugin ==
    ASSUME TypedInv, GrantInv, NEW k \in Conn, PluginReply(k)
    PROVE  GrantInv'
<1> DEFINE p == call[k].kind
<1>1. /\ p \in Plugins /\ Asks(k, p)
      /\ UNCHANGED <<session, jsession, jhandle>>
    BY DEF PluginReply, Answered, Asks
<1>2. /\ \A q \in Plugins : q # p => handle'[q] = handle[q]
      /\ handle'[p] \in {handle[p], call[k].id}
    BY <1>1 DEF PluginReply, TypedInv, TypeOK
<1>3. \A l \in Conn : call'[l] = IF l = k THEN None ELSE call[l]
    BY DEF PluginReply, TypedInv
<1> HIDE DEF p
<1>4. \A q \in Plugins : handle'[q] # None => GrantedFor(q, handle[q])'
    BY <1>1, <1>2 DEF GrantInv, GrantedFor
<1>5. \A l \in Conn : \A q \in Plugins : Asks(l, q)' =>
         Asks(l, q) /\ call'[l] = call[l]
    BY <1>3 DEF Asks
<1> QED
    BY <1>1, <1>4, <1>5 DEF GrantInv, GrantedFor

\* Janus gives a session to a program that stores none, and a handle to one
\* that stores none for this plugin.
LEMMA GrantByServe ==
    ASSUME TypedInv, AskedOnce, GrantInv, NEW k \in Conn, Serve(k)
    PROVE  GrantInv'
<1>1. ASSUME NEW ok \in BOOLEAN, NEW id \in Ids, Sent(k), Reply(k, ok, id)
      PROVE  /\ \A l \in Conn : l # k => call'[l] = call[l]
             /\ call[k] # None
             /\ call'[k].kind = call[k].kind /\ call'[k].id = id
             /\ call'[k].session = call[k].session
    <2>1. call[k] \in Call
        BY <1>1 DEF Sent, TypedInv, TypeOK
    <2>2. call'[k] = [call[k] EXCEPT !.stage = "answered", !.ok = ok, !.id = id]
        BY <1>1 DEF Reply, TypedInv
    <2>3. \A l \in Conn : l # k => call'[l] = call[l]
        BY <1>1 DEF Reply, TypedInv
    <2> QED
        BY <1>1, <2>1, <2>2, <2>3 DEF Call, Sent
<1>2. CASE ServeCreate(k)
    <2>1. PICK s \in SessionIds : Reply(k, TRUE, s) /\ jsession' = s
        BY <1>2 DEF ServeCreate
    <2>2. /\ Sent(k) /\ Asks(k, "create")
          /\ UNCHANGED <<session, handle>>
        BY <1>2 DEF ServeCreate, Sent, Asks
    <2>3. /\ \A p \in Plugins : handle'[p] = None
          /\ \A l \in Conn : \A p \in Plugins : ~Asks(l, p)
        BY <2>2 DEF AskedOnce
    <2>4. \A l \in Conn : \A p \in Plugins : ~Asks(l, p)'
        BY <1>1, <2>1, <2>2, <2>3 DEF Asks, Ids, Plugins
    <2> QED
        BY <2>3, <2>4 DEF GrantInv
<1>3. CASE ServeAttach(k)
    <2> DEFINE p == call[k].kind
    <2>1. PICK h \in HandleIds : /\ Reply(k, TRUE, h)
                                 /\ jhandle' = [jhandle EXCEPT ![p] = h]
        BY <1>3 DEF ServeAttach
    <2>2. /\ Sent(k) /\ p \in Plugins /\ Asks(k, p)
          /\ jsession # None /\ call[k].session = jsession
          /\ UNCHANGED <<session, handle, jsession>>
        BY <1>3 DEF ServeAttach, Sent, Asks, Known
    <2>3. session = jsession /\ handle[p] = None
        BY <2>2 DEF GrantInv, AskedOnce
    <2>4. /\ jhandle'[p] = h
          /\ \A q \in Plugins : q # p => jhandle'[q] = jhandle[q]
        BY <2>1, <2>2 DEF TypedInv, TypeOK
    <2>5. \A l \in Conn : Asks(l, p) => l = k
        BY <2>2 DEF AskedOnce
    <2>6. /\ \A l \in Conn : l # k => call'[l] = call[l]
          /\ call'[k].kind = p /\ call'[k].id = h
          /\ call'[k].session = call[k].session
        BY <1>1, <2>1, <2>2 DEF Ids
    <2> HIDE DEF p
    <2>7. \A q \in Plugins : handle'[q] # None => GrantedFor(q, handle[q])'
        BY <2>2, <2>3, <2>4 DEF GrantInv, GrantedFor
    <2>8. ASSUME NEW l \in Conn, NEW q \in Plugins, Asks(l, q)'
          PROVE  /\ call'[l].session = session'
                 /\ call'[l].id # None => GrantedFor(q, call[l].id)'
        <3>1. CASE l = k
            BY <2>2, <2>3, <2>4, <2>6, <2>8, <3>1 DEF Asks, GrantedFor
        <3>2. CASE l # k
            <4>1. Asks(l, q) /\ call'[l] = call[l] /\ q # p
                BY <2>5, <2>6, <2>8, <3>2 DEF Asks
            <4> QED
                BY <2>2, <2>4, <4>1 DEF GrantInv, GrantedFor
        <3> QED
            BY <3>1, <3>2
    <2> QED
        BY <2>7, <2>8 DEF GrantInv
<1>4. CASE ServeKeepalive(k) \/ Refuse(k)
    <2>1. PICK ok \in BOOLEAN : Reply(k, ok, None)
        BY <1>4 DEF ServeKeepalive, Refuse
    <2>2. Sent(k) /\ UNCHANGED <<session, handle, jsession, jhandle>>
        BY <1>4 DEF ServeKeepalive, Refuse
    <2>3. \A l \in Conn : call'[l] # None =>
             /\ call[l] # None /\ call[l].kind = call'[l].kind
             /\ call[l].session = call'[l].session
             /\ call'[l].id = call[l].id \/ call'[l].id = None
        BY <1>1, <2>1, <2>2 DEF Ids
    <2> QED
        BY <2>2, <2>3, GrantKept
<1> QED
    BY <1>2, <1>3, <1>4 DEF Serve

LEMMA GrantStep ==
    TypedInv /\ AskedOnce /\ GrantInv /\ [Next]_vars => GrantInv'
<1> SUFFICES ASSUME TypedInv, AskedOnce, GrantInv, [Next]_vars PROVE GrantInv'
    OBVIOUS
<1>1. CASE UNCHANGED vars
    BY <1>1, GrantKept DEF vars
<1>2. ASSUME NEW k \in Conn, Transmit(k) PROVE GrantInv'
    <2>1. call[k] \in Call
        BY <1>2 DEF Transmit, TypedInv, TypeOK
    <2>2. \A l \in Conn : call'[l] # None =>
             /\ call[l] # None /\ call[l].kind = call'[l].kind
             /\ call[l].session = call'[l].session /\ call'[l].id = call[l].id
        <3>1. \A l \in Conn : l # k => call'[l] = call[l]
            BY <1>2 DEF Transmit, TypedInv
        <3>2. call'[k] # None => call'[k] = [call[k] EXCEPT !.stage = "sent"]
            BY <1>2 DEF Transmit, TypedInv
        <3> QED
            BY <1>2, <2>1, <3>1, <3>2 DEF Transmit, Call
    <2> QED
        BY <1>2, <2>2, GrantKept DEF Transmit
<1>3. ASSUME NEW k \in Conn, Drop(k) \/ KeepaliveReply(k) PROVE GrantInv'
    BY <1>3, GrantKept DEF Drop, KeepaliveReply, TypedInv
<1>4. CASE Heartbeat
    <2>1. CASE session = None
        BY <1>4, <2>1, GrantKept DEF Heartbeat
    <2>2. CASE session # None
        <3> DEFINE r == NewCall("keepalive", session)
        <3>1. r \in TypedCall /\ r.kind = "keepalive"
            BY NewCallType DEF NewCall, TypedInv, TypeOK
        <3>2. call' \in Connect(call, r)
            BY <1>4, <2>2 DEF Heartbeat
        <3> HIDE DEF r
        <3>3. \A k \in Conn : call'[k] = call[k] \/ call'[k] = r
            BY <3>1, <3>2, ConnectAdds DEF TypedInv
        <3> QED
            BY <1>4, <3>1, <3>3, GrantKept DEF Heartbeat
    <2> QED
        BY <2>1, <2>2
<1>5. CASE Tick
    <2>1. \A k \in Conn : call[k] # None => call[k] \in Call
        BY DEF TypedInv, TypeOK
    <2>2. \A k \in Conn : call[k] # None =>
             /\ [call[k] EXCEPT !.age = @ + 1].kind = call[k].kind
             /\ [call[k] EXCEPT !.age = @ + 1].session = call[k].session
             /\ [call[k] EXCEPT !.age = @ + 1].id = call[k].id
        BY <2>1 DEF Call
    <2> QED
        BY <1>5, <2>2, GrantKept DEF Tick
<1>6. CASE Listen \/ Crash \/ Reap
    BY <1>6, GrantKept DEF Listen, Crash, Reap
<1> QED
    BY <1>1, <1>2, <1>3, <1>4, <1>5, <1>6, GrantBySession, GrantByPlugin,
       GrantByServe DEF Next, Poll

\* Whatever is lost, refused, late or restarted: a stored handle is the one
\* Janus granted for its plugin in the stored session.
THEOREM HandlesOfSession == Spec => []HandlesGranted
<1>1. GrantInv => HandlesGranted
    BY DEF GrantInv, GrantedFor, HandlesGranted
<1> QED
    BY <1>1, TypeInit, TypeStep, AskedInit, AskedStep, GrantInit, GrantStep,
       PTL DEF Spec

-----------------------------------------------------------------------------
(* The session is refreshed in time. *)

\* A request that Janus has not served yet and that will start its patience
\* with the session anew.
Refreshing(k) ==
    /\ call[k] # None
    /\ call[k].stage # "answered" /\ call[k].kind # "create"
    /\ call[k].session = session

RefreshInv ==
    /\ beating /\ listening
    /\ \A k \in Conn : Asks(k, "create") =>
          IF call[k].stage = "answered"
          THEN /\ call[k].ok /\ call[k].id = jsession
               /\ jsession # None /\ idle <= call[k].age
          ELSE jsession = None
    /\ session = None /\ jsession # None => \E k \in Conn : Asks(k, "create")
    /\ session # None =>
          /\ jsession = session
          /\ \/ idle <= since
             \/ \E k \in Conn : /\ Refreshing(k)
                                /\ idle <= BeatPeriod + MaxLate + call[k].age

LEMMA RefreshInit == Init /\ faults = {} => RefreshInv
<1> SUFFICES ASSUME Init, faults = {} PROVE RefreshInv
    OBVIOUS
<1> DEFINE none == [k \in Conn |-> None]
           r == NewCall("create", None)
<1>1. r \in TypedCall /\ r.kind = "create" /\ r.stage = "queued"
    BY NewCallType DEF NewCall
<1>2. none \in [Conn -> TypedCall \cup {None}] /\ call \in Connect(none, r)
    BY DEF Init
<1> HIDE DEF r, none
<1>3. PICK k \in Conn : call[k] = r
    BY <1>1, <1>2, ConnectPlaces
<1>4. \A l \in Conn : call[l] # None => call[l] = r
    <2>1. \A l \in Conn : call[l] = none[l] \/ call[l] = r
        BY <1>1, <1>2, ConnectAdds
    <2> QED
        BY <2>1 DEF none
<1>5. beating /\ listening
    BY <1>1, <1>3, NoneAssumption DEF Init, Pending, TypedCall
<1> QED
    BY <1>1, <1>4, <1>5 DEF Init, RefreshInv, Asks

\* Enough for a step that takes no time and is not about the session: the
\* request for a session and the requests that refresh it go on.
LEMMA RefreshKept ==
    ASSUME RefreshInv,
           UNCHANGED <<session, beating, since, listening, jsession, idle>>,
           \A k \in Conn : Asks(k, "create") \/ Asks(k, "create")' =>
              /\ Asks(k, "create") /\ Asks(k, "create")'
              /\ call'[k].stage = "answered" <=> call[k].stage = "answered"
              /\ call'[k].ok = call[k].ok /\ call'[k].id = call[k].id
              /\ call'[k].age = call[k].age,
           \A k \in Conn : session # None /\ Refreshing(k) =>
              Refreshing(k)' /\ call'[k].age = call[k].age
    PROVE  RefreshInv'
<1>1. (beating /\ listening)'
    BY DEF RefreshInv
<1>2. (\A k \in Conn : Asks(k, "create") =>
          IF call[k].stage = "answered"
          THEN /\ call[k].ok /\ call[k].id = jsession
               /\ jsession # None /\ idle <= call[k].age
          ELSE jsession = None)'
    BY DEF RefreshInv
<1>3. (session = None /\ jsession # None => \E k \in Conn : Asks(k, "create"))'
    BY DEF RefreshInv
<1>4. (session # None =>
          /\ jsession = session
          /\ \/ idle <= since
             \/ \E k \in Conn : /\ Refreshing(k)
                                /\ idle <= BeatPeriod + MaxLate + call[k].age)'
    BY DEF RefreshInv
<1> QED
    BY <1>1, <1>2, <1>3, <1>4 DEF RefreshInv

\* Janus never waits long enough to forget the session.
LEMMA NeverReaped ==
    ASSUME TypedInv, RefreshInv, jsession # None
    PROVE  idle < SessionTimeout
<1>1. /\ BeatPeriod \in Nat /\ MaxLate \in Nat /\ MaxDelay \in Nat
      /\ SessionTimeout \in Nat
      /\ idle \in Nat /\ since \in Nat /\ since <= BeatPeriod + MaxLate
      /\ BeatPeriod + MaxLate + MaxDelay < SessionTimeout
    BY JanusAssumption, TimingAssumption DEF TypedInv, TypeOK
<1>2. ASSUME NEW k \in Conn, call[k] # None
      PROVE  call[k].age \in Nat /\ call[k].age <= MaxDelay
    <2>1. call[k].age \in 0..MaxDelay
        BY <1>2 DEF TypedInv, TypeOK, Call
    <2> QED
        BY <1>1, <2>1
<1>3. CASE session = None
    <2>1. PICK k \in Conn : Asks(k, "create")
        BY <1>3 DEF RefreshInv
    <2>2. idle <= call[k].age
        BY <2>1 DEF RefreshInv
    <2> QED
        BY <1>1, <1>2, <2>1, <2>2 DEF Asks
<1>4. CASE session # None
    <2>1. CASE idle <= since
        BY <1>1, <2>1
    <2>2. ASSUME NEW k \in Conn, Refreshing(k),
                 idle <= BeatPeriod + MaxLate + call[k].age
          PROVE  idle < SessionTimeout
        <3>1. call[k].age \in Nat /\ call[k].age <= MaxDelay
            BY <1>2, <2>2 DEF Refreshing
        <3> QED
            BY <1>1, <2>2, <3>1
    <2> QED
        BY <1>4, <2>1, <2>2 DEF RefreshInv
<1> QED
    BY <1>3, <1>4

\* With the session come the requests for the handles, which refresh it.
LEMMA RefreshBySession ==
    ASSUME faults = {}, TypedInv, AskedOnce, RefreshInv,
           NEW k \in Conn, SessionReply(k)
    PROVE  RefreshInv'
<1>1. Asks(k, "create") /\ call[k].stage = "answered"
    BY DEF SessionReply, Answered, Asks
<1>2. /\ call[k].ok /\ call[k].id = jsession /\ jsession # None
      /\ idle <= call[k].age
    BY <1>1 DEF RefreshInv
<1>3. /\ session' = jsession
      /\ UNCHANGED <<beating, since, listening, jsession, idle>>
    BY <1>2 DEF SessionReply
<1> DEFINE s == NewCall("streaming", session')
           v == NewCall("videoroom", session')
<1>4. /\ s \in TypedCall /\ v \in TypedCall
      /\ s.kind = "streaming" /\ v.kind = "videoroom"
      /\ s.stage = "queued" /\ s.session = session' /\ s.age = 0
    BY <1>3, NewCallType DEF NewCall, Plugins, TypedInv, TypeOK
<1>5. PICK cs \in Connect(call, s) :
         \E ds \in Connect(cs, v) : call' = [ds EXCEPT ![k] = None]
    BY <1>2 DEF SessionReply
<1>6. PICK ds \in Connect(cs, v) : call' = [ds EXCEPT ![k] = None]
    BY <1>5
<1> HIDE DEF s, v
<1>7. cs \in [Conn -> TypedCall \cup {None}]
    BY <1>4, <1>5, ConnectType DEF TypedInv
<1>8. ds \in [Conn -> TypedCall \cup {None}]
    BY <1>4, <1>6, <1>7, ConnectType
<1>9. /\ \A l \in Conn : cs[l] = call[l] \/ (cs[l] = s /\ call[l] = None)
      /\ \A l \in Conn : ds[l] = cs[l] \/ (ds[l] = v /\ cs[l] = None)
    BY <1>4, <1>5, <1>6, <1>7, ConnectAdds DEF TypedInv
<1>10. PICK l \in Conn : call[l] = None /\ cs[l] = s
    BY <1>4, <1>5, ConnectPlaces DEF TypedInv
<1>11. s # None
    BY <1>4, NoneAssumption DEF TypedCall
<1>12. l # k /\ call'[l] = s
    BY <1>1, <1>6, <1>8, <1>9, <1>10, <1>11 DEF Asks
<1>13. \A m \in Conn : ~Asks(m, "create")'
    <2>1. \A m \in Conn : Asks(m, "create") => m = k
        BY <1>1 DEF AskedOnce
    <2>2. \A m \in Conn : call'[m] = IF m = k THEN None ELSE ds[m]
        BY <1>6, <1>8
    <2> QED
        BY <1>4, <1>9, <2>1, <2>2 DEF Asks
<1>14. Refreshing(l)'
    BY <1>4, <1>11, <1>12 DEF Refreshing
<1>15. idle' <= BeatPeriod + MaxLate + call'[l].age
    <2>1. call[k].age \in 0..MaxDelay
        BY <1>1 DEF Asks, TypedInv, TypeOK, Call
    <2>2. idle \in Nat
        BY JanusAssumption DEF TypedInv, TypeOK
    <2>3. idle <= BeatPeriod + MaxLate
        BY <1>2, <2>1, <2>2, JanusAssumption, TimingAssumption
    <2> QED
        BY <1>3, <1>4, <1>12, <2>2, <2>3, JanusAssumption
<1> QED
    BY <1>2, <1>3, <1>13, <1>14, <1>15 DEF RefreshInv

\* A heartbeat that finds the session refreshed since the last one asks for
\* it to be refreshed again; otherwise the older request is still on its way.
LEMMA RefreshByHeartbeat ==
    ASSUME faults = {}, TypedInv, RefreshInv, Heartbeat
    PROVE  RefreshInv'
<1>1. /\ since' = 0 /\ since \in Nat /\ since <= BeatPeriod + MaxLate
      /\ idle \in Nat /\ BeatPeriod \in Nat /\ MaxLate \in Nat
      /\ UNCHANGED <<session, beating, listening, jsession, idle>>
    BY JanusAssumption DEF Heartbeat, TypedInv, TypeOK
<1>2. CASE session = None
    BY <1>1, <1>2 DEF Heartbeat, RefreshInv, Asks
<1>3. CASE session # None
    <2> DEFINE r == NewCall("keepalive", session)
    <2>1. /\ r \in TypedCall /\ r.kind = "keepalive" /\ r.stage = "queued"
          /\ r.session = session /\ r.age = 0 /\ r # None
        <3>1. /\ r \in TypedCall /\ r.kind = "keepalive" /\ r.stage = "queued"
              /\ r.session = session /\ r.age = 0
            BY NewCallType DEF NewCall, TypedInv, TypeOK
        <3> QED
            BY <3>1, NoneAssumption DEF TypedCall
    <2>2. call' \in Connect(call, r)
        BY <1>3 DEF Heartbeat
    <2> HIDE DEF r
    <2>3. \A k \in Conn : call'[k] = call[k] \/ (call'[k] = r /\ call[k] = None)
        BY <2>1, <2>2, ConnectAdds DEF TypedInv
    <2>4. \A k \in Conn : Asks(k, "create")' =>
             Asks(k, "create") /\ call'[k] = call[k]
        BY <2>1, <2>3 DEF Asks
    <2>5. \E k \in Conn : /\ Refreshing(k)'
                          /\ idle <= BeatPeriod + MaxLate + call'[k].age
        <3>1. CASE idle <= since
            <4>1. PICK k \in Conn : call'[k] = r
                BY <2>1, <2>2, ConnectPlaces DEF TypedInv
            <4>2. Refreshing(k)'
                BY <1>1, <2>1, <4>1 DEF Refreshing
            <4> QED
                BY <1>1, <2>1, <3>1, <4>1, <4>2
        <3>2. ASSUME NEW k \in Conn, Refreshing(k),
                     idle <= BeatPeriod + MaxLate + call[k].age
              PROVE  /\ Refreshing(k)'
                     /\ idle <= BeatPeriod + MaxLate + call'[k].age
            BY <1>1, <2>3, <3>2 DEF Refreshing
        <3> QED
            BY <1>3, <3>1, <3>2 DEF RefreshInv
    <2> QED
        BY <1>1, <1>3, <2>4, <2>5 DEF RefreshInv
<1> QED
    BY <1>2, <1>3

\* Time goes by for Janus no faster than for the heartbeat and the requests.
LEMMA RefreshByTick ==
    ASSUME TypedInv, RefreshInv, Tick
    PROVE  RefreshInv'
<1>1. /\ idle \in Nat /\ since \in Nat /\ BeatPeriod \in Nat /\ MaxLate \in Nat
      /\ since' = since + 1 /\ idle' \in Nat /\ idle' <= idle + 1
      /\ UNCHANGED <<session, beating, listening, jsession>>
    BY JanusAssumption DEF Tick, TypedInv, TypeOK, RefreshInv
<1>2. ASSUME NEW k \in Conn, call[k] # None
      PROVE  /\ call'[k] # None /\ call'[k].kind = call[k].kind
             /\ call'[k].stage = call[k].stage /\ call'[k].ok = call[k].ok
             /\ call'[k].id = call[k].id /\ call'[k].session = call[k].session
             /\ call[k].age \in Nat /\ call'[k].age = call[k].age + 1
    <2>1. call[k] \in TypedCall /\ call'[k] = [call[k] EXCEPT !.age = @ + 1]
        BY <1>2 DEF Tick, TypedInv
    <2>2. call[k].age \in 0..MaxDelay /\ call[k].age < MaxDelay
        BY <1>2, <2>1 DEF TypedCall, Call, Tick, Pending
    <2>3. call'[k] \in Call
        <3>1. call[k].age + 1 \in 0..MaxDelay
            BY <2>2, JanusAssumption
        <3> QED
            BY <2>1, <3>1 DEF TypedCall, Call
    <2> QED
        BY <2>1, <2>2, <2>3, NoneAssumption DEF TypedCall, Call
<1>3. ASSUME NEW k \in Conn
      PROVE  call'[k] # None => call[k] # None
    BY <1>3 DEF Tick
<1>4. \A k \in Conn : Asks(k, "create") <=> Asks(k, "create")'
    BY <1>2, <1>3 DEF Asks
<1>5. \A k \in Conn : Refreshing(k) => Refreshing(k)'
    BY <1>1, <1>2 DEF Refreshing
<1>6. (\A k \in Conn : Asks(k, "create") =>
          IF call[k].stage = "answered"
          THEN /\ call[k].ok /\ call[k].id = jsession
               /\ jsession # None /\ idle <= call[k].age
          ELSE jsession = None)'
    <2> SUFFICES ASSUME NEW k \in Conn, Asks(k, "create")
                 PROVE  (IF call[k].stage = "answered"
                         THEN /\ call[k].ok /\ call[k].id = jsession
                              /\ jsession # None /\ idle <= call[k].age
                         ELSE jsession = None)'
        BY <1>4
    <2> QED
        BY <1>1, <1>2 DEF RefreshInv, Asks
<1>7. (session # None =>
          /\ jsession = session
          /\ \/ idle <= since
             \/ \E k \in Conn : /\ Refreshing(k)
                                /\ idle <= BeatPeriod + MaxLate + call[k].age)'
    <2> SUFFICES ASSUME session # None
                 PROVE  \/ idle' <= since'
                        \/ \E k \in Conn :
                              /\ Refreshing(k)'
                              /\ idle' <= BeatPeriod + MaxLate + call'[k].age
        BY <1>1 DEF RefreshInv
    <2>1. CASE idle <= since
        BY <1>1, <2>1
    <2>2. ASSUME NEW k \in Conn, Refreshing(k),
                 idle <= BeatPeriod + MaxLate + call[k].age
          PROVE  /\ Refreshing(k)'
                 /\ idle' <= BeatPeriod + MaxLate + call'[k].age
        BY <1>1, <1>2, <1>5, <2>2 DEF Refreshing
    <2> QED
        BY <2>1, <2>2 DEF RefreshInv
<1> QED
    BY <1>1, <1>4, <1>6, <1>7 DEF RefreshInv

\* Janus answers a request of the session, or the one for a session.
LEMMA RefreshByServe ==
    ASSUME faults = {}, TypedInv, AskedOnce, RefreshInv,
           NEW k \in Conn, Serve(k)
    PROVE  RefreshInv'
<1>0. /\ since \in Nat
      /\ \A l \in Conn : call[l] # None => call[l].age \in Nat
    BY JanusAssumption DEF TypedInv, TypeOK, Call
<1>1. ASSUME NEW ok \in BOOLEAN, NEW id \in Ids, Sent(k), Reply(k, ok, id)
      PROVE  /\ \A l \in Conn : l # k => call'[l] = call[l]
             /\ call[k] # None /\ call[k].stage = "sent"
             /\ call'[k] # None
             /\ call'[k].kind = call[k].kind /\ call'[k].age = call[k].age
             /\ call'[k].stage = "answered"
             /\ call'[k].ok = ok /\ call'[k].id = id
    <2>1. call[k] \in Call
        BY <1>1 DEF Sent, TypedInv, TypeOK
    <2>2. call'[k] = [call[k] EXCEPT !.stage = "answered", !.ok = ok, !.id = id]
        BY <1>1 DEF Reply, TypedInv
    <2>3. call'[k] \in Call
        BY <1>1, <2>1, <2>2 DEF Call
    <2>4. \A l \in Conn : l # k => call'[l] = call[l]
        BY <1>1 DEF Reply, TypedInv
    <2>5. /\ call'[k].kind = call[k].kind /\ call'[k].age = call[k].age
          /\ call'[k].stage = "answered"
          /\ call'[k].ok = ok /\ call'[k].id = id
        BY <2>1, <2>2 DEF Call
    <2> QED
        BY <1>1, <2>3, <2>4, <2>5, NoneAssumption DEF Sent
<1>2. CASE ServeCreate(k)
    <2>1. PICK s \in SessionIds : Reply(k, TRUE, s) /\ jsession' = s
        BY <1>2 DEF ServeCreate
    <2>2. Sent(k) /\ Asks(k, "create") /\ session = None
        BY <1>2 DEF ServeCreate, Sent, Asks, AskedOnce
    <2>3. /\ \A l \in Conn : Asks(l, "create") => l = k
          /\ s # None /\ s \in Ids
        BY <2>2, JanusAssumption DEF AskedOnce, Ids
    <2>4. /\ \A l \in Conn : Asks(l, "create")' => l = k
          /\ Asks(k, "create")'
          /\ call'[k].ok /\ call'[k].id = s /\ call'[k].stage = "answered"
          /\ call'[k].age \in Nat
        BY <1>0, <1>1, <2>1, <2>2, <2>3 DEF Asks
    <2>5. idle' = 0 /\ idle' <= call'[k].age
        BY <1>2, <2>4 DEF ServeCreate
    <2> QED
        BY <1>2, <2>1, <2>2, <2>3, <2>4, <2>5 DEF ServeCreate, RefreshInv
<1>3. CASE ServeAttach(k) \/ ServeKeepalive(k)
    <2>1. /\ Sent(k) /\ call[k].kind # "create"
          /\ idle' = 0
          /\ UNCHANGED <<session, beating, since, listening, jsession>>
          /\ \E ok \in BOOLEAN, id \in Ids : Reply(k, ok, id)
        BY <1>3 DEF ServeAttach, ServeKeepalive, Plugins, Ids
    <2>2. /\ \A l \in Conn : l # k => call'[l] = call[l]
          /\ call'[k] # None /\ call'[k].kind = call[k].kind
        BY <1>1, <2>1
    <2>3. \A l \in Conn : /\ Asks(l, "create") <=> Asks(l, "create")'
                          /\ Asks(l, "create") => call'[l] = call[l]
        BY <2>1, <2>2 DEF Asks, Sent
    <2>4. idle' <= since' /\ \A l \in Conn : call[l] # None => idle' <= call[l].age
        BY <1>0, <2>1
    <2> QED
        BY <2>1, <2>3, <2>4 DEF RefreshInv, Asks
<1>4. CASE Refuse(k)
    <2>1. PICK ok \in BOOLEAN : Reply(k, ok, None)
        BY <1>4 DEF Refuse
    <2>2. /\ Sent(k) /\ call[k].kind # "create" /\ ~Known(k)
          /\ UNCHANGED <<session, beating, since, listening, jsession, idle>>
        BY <1>4 DEF Refuse
    <2>3. session # None => ~Refreshing(k)
        BY <2>2 DEF Known, Refreshing, RefreshInv
    <2>4. /\ \A l \in Conn : l # k => call'[l] = call[l]
          /\ call'[k] # None /\ call'[k].kind = call[k].kind
        BY <1>1, <2>1, <2>2 DEF Ids
    <2>5. \A l \in Conn : Asks(l, "create") \/ Asks(l, "create")' =>
             Asks(l, "create") /\ Asks(l, "create")' /\ call'[l] = call[l]
        BY <2>2, <2>4 DEF Asks
    <2>6. \A l \in Conn : session # None /\ Refreshing(l) =>
             Refreshing(l)' /\ call'[l] = call[l]
        BY <2>2, <2>3, <2>4 DEF Refreshing
    <2> QED
        BY <2>2, <2>5, <2>6, RefreshKept
<1> QED
    BY <1>2, <1>3, <1>4 DEF Serve

\* Nothing goes wrong in such a behaviour, Janus does not crash either.
LEMMA RefreshStep ==
    ASSUME faults = {}
    PROVE  TypedInv /\ AskedOnce /\ RefreshInv /\ [Next]_vars => RefreshInv'
<1> SUFFICES ASSUME TypedInv, AskedOnce, RefreshInv, [Next]_vars
             PROVE  RefreshInv'
    OBVIOUS
<1>1. CASE UNCHANGED vars
    BY <1>1 DEF vars, RefreshInv, Asks, Refreshing
<1>2. ASSUME NEW k \in Conn, Transmit(k) PROVE RefreshInv'
    <2>1. /\ call[k] \in Call /\ call[k].stage = "queued"
          /\ UNCHANGED <<session, beating, since, listening, jsession, idle>>
        BY <1>2 DEF Transmit, TypedInv, TypeOK
    <2>2. /\ call'[k] = [call[k] EXCEPT !.stage = "sent"]
          /\ \A l \in Conn : l # k => call'[l] = call[l]
        BY <1>2 DEF Transmit, TypedInv, RefreshInv
    <2>3. /\ call'[k].kind = call[k].kind /\ call'[k].session = call[k].session
          /\ call'[k].stage = "sent" /\ call'[k].age = call[k].age
          /\ call'[k].ok = call[k].ok /\ call'[k].id = call[k].id
        BY <2>1, <2>2 DEF Call
    <2>4. call[k] # None /\ call'[k] # None
        <3>1. call'[k] \in Call
            BY <2>1, <2>2 DEF Call
        <3> QED
            BY <2>1, <3>1, NoneAssumption
    <2>5. \A l \in Conn : Asks(l, "create") \/ Asks(l, "create")' =>
             /\ Asks(l, "create") /\ Asks(l, "create")'
             /\ call'[l].stage = "answered" <=> call[l].stage = "answered"
             /\ call'[l].ok = call[l].ok /\ call'[l].id = call[l].id
             /\ call'[l].age = call[l].age
        BY <2>1, <2>2, <2>3, <2>4 DEF Asks
    <2>6. \A l \in Conn : session # None /\ Refreshing(l) =>
             Refreshing(l)' /\ call'[l].age = call[l].age
        BY <2>1, <2>2, <2>3, <2>4 DEF Refreshing
    <2> QED
        BY <2>1, <2>5, <2>6, RefreshKept
<1>3. ASSUME NEW k \in Conn, PluginReply(k) \/ KeepaliveReply(k)
      PROVE  RefreshInv'
    <2>1. /\ call[k].stage = "answered" /\ call[k].kind # "create"
          /\ \A l \in Conn : call'[l] = IF l = k THEN None ELSE call[l]
          /\ UNCHANGED <<session, beating, since, listening, jsession, idle>>
        BY <1>3 DEF PluginReply, KeepaliveReply, Answered, Plugins, TypedInv
    <2>2. \A l \in Conn : Asks(l, "create") \/ Asks(l, "create")' =>
             Asks(l, "create") /\ Asks(l, "create")' /\ call'[l] = call[l]
        BY <2>1 DEF Asks
    <2>3. \A l \in Conn : session # None /\ Refreshing(l) =>
             Refreshing(l)' /\ call'[l] = call[l]
        BY <2>1 DEF Refreshing
    <2> QED
        BY <2>1, <2>2, <2>3, RefreshKept
<1>4. CASE Listen
    BY <1>4 DEF Listen, RefreshInv
<1>5. CASE Reap
    BY <1>5, NeverReaped, JanusAssumption DEF Reap, TypedInv, TypeOK
<1>6. ASSUME NEW k \in Conn, Drop(k) PROVE RefreshInv'
    BY <1>6 DEF Drop
<1>7. CASE Crash
    BY <1>7 DEF Crash
<1> QED
    BY <1>1, <1>2, <1>3, <1>4, <1>5, <1>6, <1>7, RefreshBySession,
       RefreshByHeartbeat, RefreshByTick, RefreshByServe DEF Next, Poll

\* Whatever the number of connections and the periods, as long as a beat, its
\* delay and the way of the request fit into the patience of Janus, the
\* heartbeat keeps the session when no request fails.
THEOREM SessionNeverLost == Spec => []SessionKept
<1> DEFINE Calm == faults = {} => RefreshInv
<1>1. Calm => SessionKept
    BY DEF RefreshInv, SessionKept
<1>2. Init => TypedInv /\ AskedOnce /\ Calm
    BY TypeInit, AskedInit, RefreshInit
<1>3. [Next]_vars => UNCHANGED faults
    BY DEF Next, vars, Poll, Serve, Transmit, Drop, SessionReply, PluginReply,
           KeepaliveReply, Heartbeat, Tick, Listen, Crash, Reap, ServeCreate,
           ServeAttach, ServeKeepalive, Refuse
<1>4. TypedInv /\ AskedOnce /\ Calm /\ [Next]_vars
         => (TypedInv /\ AskedOnce /\ Calm)'
    BY <1>3, TypeStep, AskedStep, RefreshStep
<1> HIDE DEF Calm
<1> QED
    BY <1>1, <1>2, <1>4, PTL DEF Spec
=============================================================================
