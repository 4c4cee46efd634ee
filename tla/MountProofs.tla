------------------------------ MODULE MountProofs ------------------------------
(***************************************************************************)
(* What the manager believes of Janus: the mountpoint a streamer names is  *)
(* its own whatever fails, the room of a source exists when Janus does     *)
(* what it is asked, and a mountpoint is forgotten in two ways only when   *)
(* every request gets through.                                             *)
(***************************************************************************)
EXTENDS StreamersProofs

-----------------------------------------------------------------------------
(* Who has a claim on a mountpoint. *)

Owns(p, m) == p \in Live /\ ps[p].jid = m

\* Request r has made m and not stored its number, or will destroy m.
Holds(r, m) ==
    /\ r # None /\ r.num = m
    /\ \/ r.op = "create_mount" /\ r.stage = "answered"
       \/ r.op = "destroy_mount" /\ r.stage \in {"queued", "sent"}
Carries(k, m) == Holds(call[k], m)

\* A mountpoint somebody has a claim on exists, and no two have one.
ClaimsInv ==
    \A m \in MountIds :
        /\ \A p \in PsAddr : Owns(p, m) => m \in mounts
        /\ \A k \in Conn : Carries(k, m) => m \in mounts
        /\ \A p, q \in PsAddr : Owns(p, m) /\ Owns(q, m) => p = q
        /\ \A j, k \in Conn : Carries(j, m) /\ Carries(k, m) => j = k
        /\ \A p \in PsAddr, k \in Conn : ~(Owns(p, m) /\ Carries(k, m))

-----------------------------------------------------------------------------
(* The ways a claim moves. *)

\* Claims end, and nothing else happens to them.
Fewer ==
    /\ mounts' = mounts
    /\ \A m \in MountIds :
          /\ \A p \in PsAddr : Owns(p, m)' => Owns(p, m)
          /\ \A k \in Conn : Carries(k, m)' => Carries(k, m)

\* The claim of call k passes to streamer p.
Stored(k, p) ==
    /\ mounts' = mounts
    /\ \A m \in MountIds :
          /\ \A q \in PsAddr : Owns(q, m)' => \/ Owns(q, m)
                                              \/ q = p /\ Carries(k, m)
          /\ \A j \in Conn : Carries(j, m)' => Carries(j, m) /\ j # k

\* The claim of streamer p passes to call k.
Passed(p, k) ==
    /\ mounts' = mounts
    /\ \A m \in MountIds :
          /\ \A q \in PsAddr : Owns(q, m)' => Owns(q, m) /\ q # p
          /\ \A j \in Conn : Carries(j, m)' => \/ Carries(j, m)
                                               \/ j = k /\ Owns(p, m)

\* Janus makes mountpoint n for call k.
Made(k, n) ==
    /\ n \notin mounts /\ mounts' = mounts \cup {n}
    /\ \A m \in MountIds :
          /\ \A q \in PsAddr : Owns(q, m)' => Owns(q, m)
          /\ \A j \in Conn : Carries(j, m)' => \/ Carries(j, m)
                                               \/ j = k /\ m = n

\* Janus destroys mountpoint n for call k.
Unmade(k, n) ==
    /\ n \in MountIds => Carries(k, n)
    /\ mounts' = mounts \ {n}
    /\ \A m \in MountIds :
          /\ \A q \in PsAddr : Owns(q, m)' => Owns(q, m)
          /\ \A j \in Conn : Carries(j, m)' => Carries(j, m) /\ j # k

LEMMA ClaimsKept ==
    ASSUME ClaimsInv,
           \/ Fewer
           \/ \E k \in Conn, p \in PsAddr : Stored(k, p) \/ Passed(p, k)
           \/ \E n : \E k \in Conn : Made(k, n) \/ Unmade(k, n)
    PROVE  ClaimsInv'
<1>1. CASE Fewer
  BY <1>1, Zenon DEF ClaimsInv, Fewer
<1>2. ASSUME NEW k \in Conn, NEW p \in PsAddr, Stored(k, p)
      PROVE  ClaimsInv'
  BY <1>2, SMT DEF ClaimsInv, Stored
<1>3. ASSUME NEW k \in Conn, NEW p \in PsAddr, Passed(p, k)
      PROVE  ClaimsInv'
  BY <1>3, SMT DEF ClaimsInv, Passed
<1>4. ASSUME NEW k \in Conn, NEW n, Made(k, n)
      PROVE  ClaimsInv'
  BY <1>4, SMT DEF ClaimsInv, Made
<1>5. ASSUME NEW k \in Conn, NEW n, Unmade(k, n)
      PROVE  ClaimsInv'
  BY <1>5, SMT DEF ClaimsInv, Unmade
<1> QED BY <1>1, <1>2, <1>3, <1>4, <1>5
-----------------------------------------------------------------------------
(* What an assignment does to the claims. *)

LEMMA StreamerSet ==
    ASSUME TypeOK, NEW p \in PsAddr, NEW x, ps' = [ps EXCEPT ![p] = x]
    PROVE  \A q \in PsAddr, m \in MountIds :
              Owns(q, m)' <=> IF q = p THEN x # None /\ x.jid = m ELSE Owns(q, m)
BY DEF TypeOK, Owns, Live

LEMMA CallSet ==
    ASSUME TypeOK, NEW k \in Conn, NEW r, call' = [call EXCEPT ![k] = r]
    PROVE  \A j \in Conn, m \in MountIds :
              Carries(j, m)' <=> IF j = k THEN Holds(r, m) ELSE Carries(j, m)
<1>1. \A j \in Conn : call'[j] = IF j = k THEN r ELSE call[j]
  BY DEF TypeOK
<1> QED BY <1>1 DEF Carries

LEMMA SameStreamers ==
    ASSUME UNCHANGED ps
    PROVE  \A q \in PsAddr, m \in MountIds : Owns(q, m)' <=> Owns(q, m)
BY DEF Owns, Live

LEMMA SameCarriers ==
    ASSUME UNCHANGED call
    PROVE  \A k \in Conn, m \in MountIds : Carries(k, m)' <=> Carries(k, m)
BY DEF Carries

\* The marks of history change nothing Janus sees.
SameRequest(r, s) ==
    /\ r # None <=> s # None
    /\ s # None => /\ r.op = s.op /\ r.id = s.id /\ r.num = s.num
                   /\ r.stage = s.stage /\ r.client = s.client

LEMMA MarkedSame ==
    ASSUME NEW cs \in Calls, NEW x
    PROVE  /\ \A k \in Conn : SameRequest(MarkStale(cs, x)[k], cs[k])
           /\ \A k \in Conn : SameRequest(MarkGone(cs, x)[k], cs[k])
<1> SUFFICES ASSUME NEW k \in Conn
             PROVE  /\ SameRequest(MarkStale(cs, x)[k], cs[k])
                    /\ SameRequest(MarkGone(cs, x)[k], cs[k])
  OBVIOUS
<1>1. CASE cs[k] = None
  BY <1>1 DEF MarkStale, MarkGone, SameRequest
<1>2. CASE cs[k] # None
  <2>1. cs[k] \in Call
    BY <1>2 DEF Calls
  <2>2. /\ [cs[k] EXCEPT !.stale = TRUE] \in Call
        /\ [cs[k] EXCEPT !.gone = TRUE] \in Call
    BY <2>1 DEF Call, CallRecord
  <2>3. /\ SameRequest([cs[k] EXCEPT !.stale = TRUE], cs[k])
        /\ SameRequest([cs[k] EXCEPT !.gone = TRUE], cs[k])
        /\ SameRequest(cs[k], cs[k])
    BY <1>2, <2>1, <2>2, NoneAssumption DEF SameRequest, Call, CallRecord
  <2> QED BY <2>3 DEF MarkStale, MarkGone
<1> QED BY <1>1, <1>2

LEMMA TickSame ==
    ASSUME TypeOK, Tick
    PROVE  \A k \in Conn : SameRequest(call'[k], call[k])
BY TickWaits DEF SameRequest

\* A request takes a free connection, or none.
LEMMA RequestTakes ==
    ASSUME NEW h, NEW r, NEW cs \in Request(call, h, r)
    PROVE  \/ cs = call
           \/ \E k \in Conn : call[k] = None /\ cs = [call EXCEPT ![k] = r]
BY DEF Request, Connect, FreeConn, ActiveConn

-----------------------------------------------------------------------------
(* The steps. *)

LEMMA LaunchRecord ==
    ASSUME TypeOK, NEW c \in Conn, NEW p \in FreePs, NEW i \in Ids,
           NEW source \in BOOLEAN, NEW hosted \in BOOLEAN, NEW calls,
           Launch(c, p, i, source, hosted, calls)
    PROVE  \E x \in PStreamer :
              /\ ps' = [ps EXCEPT ![p] = x]
              /\ x.id = i /\ x.source = source /\ x.hosted = hosted
              /\ x.jid = None
<1> DEFINE port == AssignPort({ps[q].port : q \in Live})
           r(psc) == [id |-> i, source |-> source, hosted |-> hosted,
                      psc |-> psc, port |-> port, age |-> 0, jid |-> None]
<1>1. PICK psc \in BOOLEAN : ps' = [ps EXCEPT ![p] = r(psc)]
  BY DEF Launch
<1>2. port \in Nat
  BY AssignPortType
<1> HIDE DEF port
<1>3. r(psc) \in PStreamer
  BY <1>2, ZeroAge DEF PStreamer
<1>4. /\ r(psc).id = i /\ r(psc).source = source /\ r(psc).hosted = hosted
      /\ r(psc).jid = None
  OBVIOUS
<1> HIDE DEF r
<1> QED BY <1>1, <1>3, <1>4

\* A channel has a mountpoint and no room of its own, a source a room.
LEMMA PostLaunches ==
    ASSUME NEW c \in Conn, NEW i \in Ids, PostChannel(c, i) \/ PostSource(c, i)
    PROVE  \E p \in FreePs, source \in BOOLEAN :
              \/ Launch(c, p, i, source, FALSE, CreateStreamingPoint(call, p, c))
              \/ /\ PostSource(c, i)
                 /\ Launch(c, p, i, source, TRUE, CreateVideoroom(call, p, i, c))
<1>1. CASE PostChannel(c, i)
  BY <1>1 DEF PostChannel
<1>2. CASE PostSource(c, i)
  BY <1>2 DEF PostSource
<1> QED BY <1>1, <1>2

LEMMA LaunchClaims ==
    ASSUME TypeOK, NEW c \in Conn, NEW i \in Ids,
           PostChannel(c, i) \/ PostSource(c, i)
    PROVE  Fewer
<1>1. PICK p \in FreePs, source \in BOOLEAN :
         \/ Launch(c, p, i, source, FALSE, CreateStreamingPoint(call, p, c))
         \/ Launch(c, p, i, source, TRUE, CreateVideoroom(call, p, i, c))
  BY PostLaunches
<1>2. PICK x \in PStreamer : ps' = [ps EXCEPT ![p] = x] /\ x.jid = None
  <2>1. ASSUME NEW hosted \in BOOLEAN, NEW calls,
               Launch(c, p, i, source, hosted, calls)
        PROVE  \E x \in PStreamer : ps' = [ps EXCEPT ![p] = x] /\ x.jid = None
    BY <2>1, LaunchRecord
  <2> QED BY <1>1, <2>1
<1>3. \A q \in PsAddr, m \in MountIds : Owns(q, m)' => Owns(q, m)
  <2>1. p \in PsAddr /\ None \notin MountIds
    BY StreamersAssumption DEF FreePs
  <2> QED BY <1>2, <2>1, StreamerSet
<1>4. \E r : /\ \A m \in MountIds : ~Holds(r, m)
             /\ \/ call' = call
                \/ \E k \in Conn : call' = [call EXCEPT ![k] = r]
  <2> DEFINE r1 == NewCall("create_mount", p, None, None, c)
             r2 == NewCall("create_room", p, i, None, c)
  <2>1. \A m \in MountIds : ~Holds(r1, m) /\ ~Holds(r2, m)
    BY DEF Holds, NewCall
  <2>2. call' \in Request(call, "streaming", r1) \cup Request(call, "videoroom", r2)
    BY <1>1 DEF Launch, CreateStreamingPoint, CreateVideoroom
  <2> HIDE DEF r1, r2
  <2>3. CASE call' \in Request(call, "streaming", r1)
    BY <2>1, <2>3, RequestTakes
  <2>4. CASE call' \in Request(call, "videoroom", r2)
    BY <2>1, <2>4, RequestTakes
  <2> QED BY <2>2, <2>3, <2>4
<1>5. PICK r : /\ \A m \in MountIds : ~Holds(r, m)
               /\ \/ call' = call
                  \/ \E k \in Conn : call' = [call EXCEPT ![k] = r]
  BY <1>4
<1>6. \A k \in Conn, m \in MountIds : Carries(k, m)' => Carries(k, m)
  BY <1>5, CallSet, SameCarriers
<1> QED BY <1>1, <1>3, <1>6 DEF Launch, Fewer

LEMMA TouchClaims ==
    ASSUME TypeOK, NEW p \in Live, Touch(p)
    PROVE  \A q \in PsAddr, m \in MountIds : Owns(q, m)' => Owns(q, m)
<1>1. ps[p] \in PStreamer /\ p \in PsAddr
  BY DEF TypeOK, Live
<1>2. [ps[p] EXCEPT !.age = 0].jid = ps[p].jid
  BY <1>1 DEF PStreamer
<1> DEFINE x == [ps[p] EXCEPT !.age = 0]
<1>3. ps' = [ps EXCEPT ![p] = x] /\ x.jid = ps[p].jid
  BY <1>2 DEF Touch
<1> HIDE DEF x
<1>4. \A q \in PsAddr, m \in MountIds :
         Owns(q, m)' <=> IF q = p THEN x # None /\ x.jid = m ELSE Owns(q, m)
  BY <1>1, <1>3, StreamerSet
<1> QED BY <1>3, <1>4 DEF Owns

LEMMA UpdateClaims ==
    ASSUME MountIds \cap ParticipantIds = {}, TypeOK, NEW c \in Conn,
           NEW i \in Ids,
           UpdateChannel(c, i) \/ \E num \in ParticipantIds : UpdateSource(c, i, num)
    PROVE  Fewer
<1>1. CASE UpdateChannel(c, i)
  BY <1>1, TouchClaims, SameCarriers DEF UpdateChannel, Named, Fewer
<1>2. ASSUME NEW num \in ParticipantIds, UpdateSource(c, i, num)
      PROVE  Fewer
  <2>1. PICK p \in Live :
           \/ /\ ps' = [ps EXCEPT ![p] = [@ EXCEPT !.age = 0, !.jid = num]]
              /\ call' \in ForwardRtp(call, i, num)
           \/ Touch(p) /\ UNCHANGED call
    BY <1>2 DEF UpdateSource, Named
  <2>2. mounts' = mounts
    BY <1>2 DEF UpdateSource
  <2>3. CASE Touch(p) /\ UNCHANGED call
    BY <2>2, <2>3, TouchClaims, SameCarriers DEF Fewer
  <2>4. CASE /\ ps' = [ps EXCEPT ![p] = [@ EXCEPT !.age = 0, !.jid = num]]
             /\ call' \in ForwardRtp(call, i, num)
    <3>1. ps[p] \in PStreamer /\ p \in PsAddr /\ num \notin MountIds
      BY DEF TypeOK, Live
    <3>2. [ps[p] EXCEPT !.age = 0, !.jid = num].jid = num
      BY <3>1 DEF PStreamer
    <3>3. \A q \in PsAddr, m \in MountIds : Owns(q, m)' => Owns(q, m)
      <4> DEFINE x == [ps[p] EXCEPT !.age = 0, !.jid = num]
      <4>1. ps' = [ps EXCEPT ![p] = x] /\ x.jid \notin MountIds
        BY <2>4, <3>1, <3>2
      <4> HIDE DEF x
      <4> QED BY <3>1, <4>1, StreamerSet
    <3>4. \A m \in MountIds : ~Holds(NewCall("forward", None, i, num, None), m)
      BY DEF Holds, NewCall
    <3>5. \A k \in Conn, m \in MountIds : Carries(k, m)' => Carries(k, m)
      BY <2>4, <3>4, RequestTakes, CallSet, SameCarriers DEF ForwardRtp
    <3> QED BY <2>2, <3>3, <3>5 DEF Fewer
  <2> QED BY <2>1, <2>3, <2>4
<1> QED BY <1>1, <1>2

\* A reply passes the claim of the call on, or drops it.
LEMMA ReplyClaims ==
    ASSUME TypeOK, NEW k \in Conn, HandleReply(k)
    PROVE  Fewer \/ \E p \in PsAddr : Stored(k, p)
<1> DEFINE r == [call[k] EXCEPT !.stage = "closing"]
<1>1. call[k] \in Call /\ call[k] # None /\ call[k].stage = "answered"
  BY DEF HandleReply, TypeOK
<1>2. r.op = call[k].op /\ r.stage = "closing"
  BY <1>1 DEF Call, CallRecord
<1>3. call' = [call EXCEPT ![k] = r] /\ mounts' = mounts
  BY DEF HandleReply
<1> HIDE DEF r
<1>4. \A m \in MountIds : ~Holds(r, m)
  BY <1>2 DEF Holds
<1>5. \A j \in Conn, m \in MountIds : Carries(j, m)' => Carries(j, m) /\ j # k
  BY <1>3, <1>4, CallSet
<1>6. CASE UNCHANGED ps
  BY <1>3, <1>5, <1>6, SameStreamers DEF Fewer
<1>7. CASE ~UNCHANGED ps
  <2> DEFINE p == call[k].ps
  <2>1. /\ call[k].op = "create_mount" /\ p \in Live
        /\ \E v \in {None, ps[p].jid, call[k].num} :
              /\ v = call[k].num \/ call[k].num = None
              /\ ps' = [ps EXCEPT ![p].jid = v]
    BY <1>7 DEF HandleReply, StoreReply
  <2>2. p \in PsAddr /\ ps[p] \in PStreamer
    BY <2>1 DEF TypeOK, Live
  <2>3. PICK v \in {None, ps[p].jid, call[k].num} :
               ps' = [ps EXCEPT ![p].jid = v]
    BY <2>1
  <2> HIDE DEF p
  <2> DEFINE x == [ps[p] EXCEPT !.jid = v]
  <2>4. ps' = [ps EXCEPT ![p] = x] /\ x.jid = v
    BY <2>2, <2>3 DEF PStreamer
  <2> HIDE DEF x
  <2>5. \A q \in PsAddr, m \in MountIds :
           Owns(q, m)' <=> IF q = p THEN x # None /\ x.jid = m ELSE Owns(q, m)
    BY <2>2, <2>4, StreamerSet
  <2>6. \A m \in MountIds : v = m => Owns(p, m) \/ Carries(k, m)
    BY <1>1, <2>1, <2>3, StreamersAssumption DEF Owns, Carries, Holds
  <2>7. Stored(k, p)
    BY <1>3, <1>5, <2>4, <2>5, <2>6 DEF Stored
  <2> QED BY <2>2, <2>7
<1> QED BY <1>6, <1>7

\* What Janus does with a request moves its claim at most.
LEMMA ServeClaims ==
    ASSUME MountIds \cap ParticipantIds = {}, TypeOK, NEW k \in Conn,
           JanusServe(k)
    PROVE  Fewer \/ \E n : Made(k, n) \/ Unmade(k, n)
<1>1. call[k] \in Call /\ call[k] # None /\ call[k].stage = "sent"
  BY DEF JanusServe, TypeOK
<1>2. PICK n \in MountIds \cup ParticipantIds \cup {None} :
         /\ JanusDoes(call[k], n)
         /\ call' = [call EXCEPT ![k] =
                       [@ EXCEPT !.stage = "answered", !.num = n]]
  BY DEF JanusServe
<1> DEFINE r == [call[k] EXCEPT !.stage = "answered", !.num = n]
<1>3. r.op = call[k].op /\ r.stage = "answered" /\ r.num = n
  BY <1>1 DEF Call, CallRecord
<1>4. call' = [call EXCEPT ![k] = r]
  BY <1>2
<1> HIDE DEF r
<1>5. \A j \in Conn, m \in MountIds :
         Carries(j, m)' <=> IF j = k THEN Holds(r, m) ELSE Carries(j, m)
  BY <1>4, CallSet
<1>6. \A q \in PsAddr, m \in MountIds : Owns(q, m)' <=> Owns(q, m)
  BY SameStreamers DEF JanusServe
<1>7. CASE call[k].op = "create_mount" /\ n \in MountIds
  <2>1. n \notin mounts /\ mounts' = mounts \cup {n}
    BY <1>2, <1>7, StreamersAssumption DEF JanusDoes
  <2>2. \A m \in MountIds : Holds(r, m) => m = n
    BY <1>3 DEF Holds
  <2> QED BY <1>5, <1>6, <2>1, <2>2 DEF Made
<1>8. CASE call[k].op = "destroy_mount"
  <2>1. n = call[k].num /\ mounts' = mounts \ {n}
    BY <1>2, <1>8 DEF JanusDoes
  <2>2. Carries(k, n)
    BY <1>1, <1>8, <2>1 DEF Carries, Holds
  <2>3. \A m \in MountIds : ~Holds(r, m)
    BY <1>3, <1>8 DEF Holds
  <2> QED BY <1>5, <1>6, <2>1, <2>2, <2>3 DEF Unmade
<1>9. CASE /\ call[k].op # "destroy_mount"
           /\ ~(call[k].op = "create_mount" /\ n \in MountIds)
  <2>1. mounts' = mounts
    BY <1>2, <1>9 DEF JanusDoes
  <2>2. \A m \in MountIds : ~Holds(r, m)
    BY <1>3, <1>9 DEF Holds
  <2> QED BY <1>5, <1>6, <2>1, <2>2 DEF Fewer
<1> QED BY <1>7, <1>8, <1>9

\* A client's close, the request leaving and the connection closing.
LEMMA PollClaims ==
    ASSUME TypeOK, NEW k \in Conn, Leave(k) \/ Transmit(k) \/ CloseCall(k)
    PROVE  Fewer
<1>1. \A q \in PsAddr, m \in MountIds : Owns(q, m)' <=> Owns(q, m)
  BY SameStreamers DEF Leave, Transmit, CloseCall
<1>2. mounts' = mounts
  BY DEF Leave, Transmit, CloseCall
<1>3. CASE Leave(k)
  <2>1. call' = MarkGone(call, k) /\ call \in Calls
    BY <1>3 DEF Leave, TypeOK, Calls
  <2>2. \A j \in Conn : SameRequest(call'[j], call[j])
    BY <2>1, MarkedSame
  <2> QED BY <1>1, <1>2, <2>2 DEF Fewer, Carries, Holds, SameRequest
<1>4. CASE Transmit(k)
  <2> DEFINE r == [call[k] EXCEPT !.stage = "sent"]
  <2>1. call[k] \in Call /\ call[k].stage = "queued" /\ call[k] # None
    BY <1>4 DEF Transmit, TypeOK
  <2>2. r.op = call[k].op /\ r.num = call[k].num /\ r.stage = "sent"
    BY <2>1 DEF Call, CallRecord
  <2>3. call' = [call EXCEPT ![k] = r]
    BY <1>4 DEF Transmit
  <2> HIDE DEF r
  <2>4. \A m \in MountIds : Holds(r, m) => Carries(k, m)
    BY <2>1, <2>2 DEF Holds, Carries
  <2>5. \A j \in Conn, m \in MountIds : Carries(j, m)' => Carries(j, m)
    BY <2>3, <2>4, CallSet
  <2> QED BY <1>1, <1>2, <2>5 DEF Fewer
<1>5. CASE CloseCall(k)
  <2>1. call' = [call EXCEPT ![k] = None] /\ \A m : ~Holds(None, m)
    BY <1>5 DEF CloseCall, Holds
  <2>2. \A j \in Conn, m \in MountIds : Carries(j, m)' => Carries(j, m)
    BY <2>1, CallSet
  <2> QED BY <1>1, <1>2, <2>2 DEF Fewer
<1> QED BY <1>3, <1>4, <1>5

\* pstreamer_deinit passes its claim to the request it sends, or drops it.
LEMMA DisposeClaims ==
    ASSUME TypeOK, NEW p \in Live, NEW calls, mounts' = mounts,
           calls \in {DestroyStreamingPoint(call, ps[p].jid),
                      DestroyVideoroom(call, ps[p].id)},
           Dispose(p, calls)
    PROVE  Fewer \/ \E k \in Conn : Passed(p, k)
<1>1. ps[p] \in PStreamer /\ p \in PsAddr /\ call \in Calls
  BY DEF TypeOK, Live, Calls
<1>2. /\ ps[p].id \in Ids
      /\ ps[p].jid \in MountIds \cup ParticipantIds \cup {None}
  BY <1>1 DEF PStreamer
<1>3. PICK cs \in calls : call' = MarkStale(cs, p)
  BY DEF Dispose
<1>4. cs \in Calls
  BY <1>1, <1>2, DestroyType
<1>5. \A j \in Conn, m \in MountIds : Holds(call'[j], m) <=> Holds(cs[j], m)
  BY <1>3, <1>4, MarkedSame DEF Holds, SameRequest
<1>6. ps' = [ps EXCEPT ![p] = None]
  BY DEF Dispose
<1>7. \A q \in PsAddr, m \in MountIds : Owns(q, m)' => Owns(q, m) /\ q # p
  BY <1>1, <1>6, StreamerSet
<1> DEFINE r1 == NewCall("destroy_mount", None, None, ps[p].jid, None)
           r2 == NewCall("destroy_room", None, ps[p].id, None, None)
<1>8. \A m \in MountIds : (Holds(r1, m) => Owns(p, m)) /\ ~Holds(r2, m)
  BY DEF Holds, NewCall, Owns
<1>9. \/ cs = call
      \/ cs \in Request(call, "streaming", r1)
      \/ cs \in Request(call, "videoroom", r2)
  BY DEF DestroyStreamingPoint, DestroyVideoroom
<1> HIDE DEF r1, r2
<1>10. \/ cs = call
       \/ \E k \in Conn, r \in {r1, r2} : cs = [call EXCEPT ![k] = r]
  <2>1. CASE cs \in Request(call, "streaming", r1)
    BY <2>1, RequestTakes
  <2>2. CASE cs \in Request(call, "videoroom", r2)
    BY <2>2, RequestTakes
  <2> QED BY <1>9, <2>1, <2>2
<1>11. CASE cs = call
  BY <1>5, <1>7, <1>11 DEF Fewer, Carries
<1>12. ASSUME NEW k \in Conn, NEW r \in {r1, r2}, cs = [call EXCEPT ![k] = r]
       PROVE  Passed(p, k)
  <2>1. \A j \in Conn : cs[j] = IF j = k THEN r ELSE call[j]
    BY <1>1, <1>12 DEF Calls
  <2>2. \A m \in MountIds : Holds(r, m) => Owns(p, m)
    BY <1>8, <1>12
  <2>3. \A j \in Conn, m \in MountIds :
           Carries(j, m)' => Carries(j, m) \/ (j = k /\ Owns(p, m))
    BY <1>5, <2>1, <2>2 DEF Carries
  <2> QED BY <1>7, <2>3 DEF Passed
<1> QED BY <1>10, <1>11, <1>12

\* Time changes the ages of the streamers only.
LEMMA TickStreamers ==
    ASSUME TypeOK, Tick
    PROVE  /\ Live' = Live
           /\ \A p \in Live : /\ ps'[p].id = ps[p].id
                              /\ ps'[p].source = ps[p].source
                              /\ ps'[p].hosted = ps[p].hosted
                              /\ ps'[p].jid = ps[p].jid
<1>1. Live' = Live
  BY TickAges DEF Aged
<1>2. \A p \in Live : /\ ps[p] \in PStreamer
                      /\ ps'[p] = [ps[p] EXCEPT !.age = Later(@)]
  BY DEF Tick, TypeOK, Live
<1> QED BY <1>1, <1>2 DEF PStreamer

LEMMA ClaimsStep ==
    ASSUME MountIds \cap ParticipantIds = {}, TableInv, ClaimsInv, [Next]_vars
    PROVE  ClaimsInv'
<1> USE DEF TableInv
<1>1. ASSUME NEW k \in Conn, Leave(k) \/ Transmit(k) \/ CloseCall(k)
      PROVE  ClaimsInv'
  BY <1>1, PollClaims, ClaimsKept
<1>2. ASSUME NEW c \in Conn, NEW i \in Ids,
             \/ PostChannel(c, i) \/ PostSource(c, i)
             \/ UpdateChannel(c, i)
             \/ \E num \in ParticipantIds : UpdateSource(c, i, num)
      PROVE  ClaimsInv'
  BY <1>2, LaunchClaims, UpdateClaims, ClaimsKept
<1>3. ASSUME NEW k \in Conn, HandleReply(k)
      PROVE  ClaimsInv'
  BY <1>3, ReplyClaims, ClaimsKept
<1>4. ASSUME NEW k \in Conn, JanusServe(k)
      PROVE  ClaimsInv'
  BY <1>4, ServeClaims, ClaimsKept
<1>5. ASSUME NEW p \in PsAddr, PurgeOne(p) \/ DestroyOne(p)
      PROVE  ClaimsInv'
  <2>1. p \in Live /\ mounts' = mounts
    BY <1>5 DEF PurgeOne, DestroyOne, LoopInv, Orphans
  <2>2. Fewer \/ \E k \in Conn : Passed(p, k)
    BY <1>5, <2>1, DisposeClaims DEF PurgeOne, DestroyOne
  <2> QED BY <2>1, <2>2, ClaimsKept
<1>6. CASE Tick
  <2>1. \A p \in PsAddr, m \in MountIds : Owns(p, m)' => Owns(p, m)
    BY <1>6, TickStreamers DEF Owns
  <2>2. \A k \in Conn, m \in MountIds : Carries(k, m)' => Carries(k, m)
    BY <1>6, TickSame DEF Carries, Holds, SameRequest
  <2> QED BY <1>6, <2>1, <2>2, ClaimsKept DEF Tick, Fewer
<1>7. CASE UNCHANGED <<ps, call, mounts>>
  <2>1. Fewer
    BY <1>7, SameStreamers, SameCarriers DEF Fewer
  <2> QED BY <2>1, ClaimsKept
<1> QED
  BY <1>1, <1>2, <1>3, <1>4, <1>5, <1>6, <1>7
  DEF Next, Client, Poll, Purge, Shutdown, vars, Open, Rejected, Attach,
      PurgeStart, Signal, JanusDestroy, TaskManagerDestroy, Exit, Exited

\* janus_streaming_id: the mountpoint a streamer names exists, is no other
\* streamer's, and no request on its way destroys it, whatever fails and
\* whether a peer or a source keeps the number; the numbers of publishers and
\* of mountpoints are taken to differ, because the purge of a source destroys
\* the mountpoint with its publisher's number.
THEOREM MountsAreOwn ==
    ASSUME MountIds \cap ParticipantIds = {}
    PROVE  Spec => []OwnMount
<1>1. Init => ClaimsInv
  BY DEF Init, ClaimsInv, Owns, Carries, Holds, Live
<1>2. TableInv /\ ClaimsInv /\ [Next]_vars => ClaimsInv'
  BY ClaimsStep
<1>3. ClaimsInv => OwnMount
  <2> SUFFICES ASSUME ClaimsInv, NEW p \in Live, ps[p].jid \in MountIds
               PROVE  /\ ps[p].jid \in mounts
                      /\ \A q \in Live \ {p} : ps[q].jid # ps[p].jid
                      /\ \A k \in Pending :
                            (call[k].op = "destroy_mount" /\ call[k].num = ps[p].jid)
                              => call[k].stage \notin {"queued", "sent"}
    BY DEF OwnMount
  <2> DEFINE m == ps[p].jid
  <2>1. m \in MountIds /\ p \in PsAddr /\ Owns(p, m)
    BY DEF Owns, Live
  <2>2. m \in mounts
    BY <2>1 DEF ClaimsInv
  <2>3. ASSUME NEW q \in Live \ {p}
        PROVE  ps[q].jid # m
    BY <2>1 DEF ClaimsInv, Owns, Live
  <2>4. ASSUME NEW k \in Pending, call[k].op = "destroy_mount", call[k].num = m
        PROVE  call[k].stage \notin {"queued", "sent"}
    BY <2>1, <2>4 DEF ClaimsInv, Carries, Holds, Pending
  <2> QED BY <2>2, <2>3, <2>4
<1> QED BY TableInductive, <1>1, <1>2, <1>3, PTL DEF Spec

-----------------------------------------------------------------------------
(* What a step that posts nothing makes of a streamer. *)

\* A creation of a mountpoint whose number is not stored yet.
OpenMount(r) == r # None /\ r.op = "create_mount" /\ r.stage # "closing"

\* An UPDATE gives v to p, or the reply that call k waits for does.
Republished(p, v) == ps[p].source /\ v \in ParticipantIds
Replied(k, p, v) ==
    /\ phase = "running" /\ call[k].ps = p /\ v \in {None, call[k].num}
    /\ OpenMount(call[k]) /\ ~OpenMount(call'[k])

Gets(p, v) ==
    \/ v = ps[p].jid
    \/ Republished(p, v)
    \/ \E k \in Conn : Replied(k, p, v)

StreamersStay ==
    \A p \in Live' :
        /\ p \in Live
        /\ ps'[p].id = ps[p].id /\ ps'[p].hosted = ps[p].hosted
        /\ Gets(p, ps'[p].jid)

LEMMA StreamerStays ==
    ASSUME TypeOK, NEW p \in Live, NEW x \in PStreamer,
           ps' = [ps EXCEPT ![p] = x],
           x.id = ps[p].id, x.hosted = ps[p].hosted, Gets(p, x.jid)
    PROVE  StreamersStay
<1>1. p \in PsAddr /\ ps'[p] = x /\ \A q \in PsAddr \ {p} : ps'[q] = ps[q]
  BY DEF Live, TypeOK
<1> SUFFICES ASSUME NEW q \in Live'
             PROVE  /\ q \in Live
                    /\ ps'[q].id = ps[q].id /\ ps'[q].hosted = ps[q].hosted
                    /\ Gets(q, ps'[q].jid)
  BY DEF StreamersStay
<1>2. CASE q = p
  BY <1>1, <1>2
<1>3. CASE q # p
  BY <1>1, <1>3 DEF Live, Gets
<1> QED BY <1>2, <1>3

LEMMA ReplyStays ==
    ASSUME TypeOK, NEW k \in Conn, HandleReply(k)
    PROVE  StreamersStay
<1>1. CASE UNCHANGED ps
  BY <1>1 DEF StreamersStay, Live, Gets
<1>2. CASE ~UNCHANGED ps
  <2>1. PICK p \in Live :
           /\ p = call[k].ps /\ call[k].op = "create_mount"
           /\ \E v \in {None, ps[p].jid, call[k].num} :
                 ps' = [ps EXCEPT ![p].jid = v]
    BY <1>2 DEF HandleReply, StoreReply
  <2>2. PICK v \in {None, ps[p].jid, call[k].num} :
               ps' = [ps EXCEPT ![p].jid = v]
    BY <2>1
  <2>3. /\ ps[p] \in PStreamer /\ call[k] \in Call /\ call[k] # None
        /\ call[k].stage = "answered" /\ phase = "running"
        /\ call' = [call EXCEPT ![k].stage = "closing"]
    BY DEF TypeOK, Live, HandleReply
  <2>4. v \in MountIds \cup ParticipantIds \cup {None}
    BY <2>2, <2>3 DEF PStreamer, Call, CallRecord
  <2> DEFINE x == [ps[p] EXCEPT !.jid = v]
  <2>5. x \in PStreamer
    BY <2>3, <2>4 DEF PStreamer
  <2>6. x.id = ps[p].id /\ x.hosted = ps[p].hosted /\ x.jid = v
    BY <2>3 DEF PStreamer
  <2>7. ps' = [ps EXCEPT ![p] = x]
    BY <2>2
  <2> HIDE DEF x
  <2>8. call'[k].stage = "closing"
    BY <2>3 DEF TypeOK, Call, CallRecord
  <2>9. OpenMount(call[k]) /\ ~OpenMount(call'[k])
    BY <2>1, <2>3, <2>8 DEF OpenMount
  <2>10. Gets(p, v)
    BY <2>1, <2>2, <2>3, <2>9 DEF Gets, Replied
  <2> QED BY <2>5, <2>6, <2>7, <2>10, StreamerStays
<1> QED BY <1>1, <1>2

LEMMA UpdateStays ==
    ASSUME TypeOK, NEW c \in Conn, NEW i \in Ids,
           UpdateChannel(c, i) \/ \E num \in ParticipantIds : UpdateSource(c, i, num)
    PROVE  StreamersStay
<1>1. ASSUME NEW p \in Live, Touch(p)
      PROVE  StreamersStay
  <2> DEFINE x == [ps[p] EXCEPT !.age = 0]
  <2>1. ps[p] \in PStreamer
    BY DEF TypeOK, Live
  <2>2. x \in PStreamer
    BY <2>1, ZeroAge DEF PStreamer
  <2>3. x.id = ps[p].id /\ x.hosted = ps[p].hosted /\ x.jid = ps[p].jid
    BY <2>1 DEF PStreamer
  <2>4. ps' = [ps EXCEPT ![p] = x]
    BY <1>1 DEF Touch
  <2> HIDE DEF x
  <2> QED BY <2>2, <2>3, <2>4, StreamerStays DEF Gets
<1>2. ASSUME NEW num \in ParticipantIds, UpdateSource(c, i, num)
      PROVE  StreamersStay
  <2>1. PICK p \in Live :
           \/ /\ ps[p].source
              /\ ps' = [ps EXCEPT ![p] = [@ EXCEPT !.age = 0, !.jid = num]]
           \/ Touch(p)
    BY <1>2 DEF UpdateSource, Named
  <2>2. CASE /\ ps[p].source
             /\ ps' = [ps EXCEPT ![p] = [@ EXCEPT !.age = 0, !.jid = num]]
    <3> DEFINE x == [ps[p] EXCEPT !.age = 0, !.jid = num]
    <3>1. ps[p] \in PStreamer
      BY DEF TypeOK, Live
    <3>2. x \in PStreamer
      BY <3>1, ZeroAge DEF PStreamer
    <3>3. x.id = ps[p].id /\ x.hosted = ps[p].hosted /\ x.jid = num
      BY <3>1 DEF PStreamer
    <3>4. ps' = [ps EXCEPT ![p] = x]
      BY <2>2
    <3> HIDE DEF x
    <3> QED BY <2>2, <3>2, <3>3, <3>4, StreamerStays DEF Gets, Republished
  <2> QED BY <1>1, <2>1, <2>2
<1>3. CASE UpdateChannel(c, i)
  BY <1>1, <1>3 DEF UpdateChannel, Named
<1> QED BY <1>2, <1>3

LEMMA StreamerSteps ==
    ASSUME TableInv, [Next]_vars
    PROVE  \/ StreamersStay
           \/ \E c \in Conn, i \in Ids : PostChannel(c, i) \/ PostSource(c, i)
<1> USE DEF TableInv
<1>1. ASSUME UNCHANGED ps
      PROVE  StreamersStay
  BY <1>1 DEF StreamersStay, Live, Gets
<1>2. CASE Tick
  BY <1>2, TickStreamers DEF StreamersStay, Gets
<1>3. ASSUME NEW p \in PsAddr, PurgeOne(p) \/ DestroyOne(p)
      PROVE  StreamersStay
  <2>1. p \in Live
    BY <1>3 DEF PurgeOne, DestroyOne, LoopInv, Orphans
  <2>2. Removed(p)
    BY <1>3, <2>1, DisposeRemoves DEF PurgeOne, DestroyOne
  <2> QED BY <2>2 DEF Removed, StreamersStay, Gets
<1>4. ASSUME NEW c \in Conn, Client(c)
      PROVE  \/ StreamersStay
             \/ \E i \in Ids : PostChannel(c, i) \/ PostSource(c, i)
  <2>1. CASE Open(c) \/ Leave(c) \/ Rejected(c)
    <3>1. UNCHANGED ps
      BY <2>1 DEF Open, Leave, Rejected
    <3> QED BY <1>1, <3>1
  <2> QED BY <1>4, <2>1, UpdateStays DEF Client
<1>5. ASSUME NEW k \in Conn, Poll(k) \/ JanusServe(k)
      PROVE  StreamersStay
  <2>1. CASE Transmit(k) \/ CloseCall(k) \/ JanusServe(k)
    <3>1. UNCHANGED ps
      BY <2>1 DEF Transmit, CloseCall, JanusServe
    <3> QED BY <1>1, <3>1
  <2> QED BY <1>5, <2>1, ReplyStays DEF Poll
<1> QED
  BY <1>1, <1>2, <1>3, <1>4, <1>5
  DEF Next, Purge, Shutdown, vars, Attach, PurgeStart, Signal, JanusDestroy,
      TaskManagerDestroy, Exit, Exited

-----------------------------------------------------------------------------
(* The rooms of the sources, when Janus does what it is asked. *)

RoomCall(r, i) == r # None /\ r.op = "create_room" /\ r.id = i
Done(r) == r.stage \in {"answered", "closing"}

\* While the program serves, nobody asks for the end of a room, a room that
\* Janus has answered for exists, and a source has a room or will have it.
RoomInv ==
    Serving =>
        /\ \A k \in Conn : call[k] # None => call[k].op # "destroy_room"
        /\ \A k \in Conn, i \in Ids :
              RoomCall(call[k], i) /\ Done(call[k]) => i \in rooms
        /\ \A p \in Live : ps[p].hosted =>
              ps[p].id \in rooms \/ \E k \in Conn : RoomCall(call[k], ps[p].id)

\* A request for a room stays until Janus has answered it, and none is taken
\* for answered before its room exists.
RoomsKept ==
    /\ rooms \subseteq rooms'
    /\ \A k \in Conn : call'[k] # None => call'[k].op # "destroy_room"
    /\ \A k \in Conn, i \in Ids :
          /\ RoomCall(call[k], i) => RoomCall(call'[k], i) \/ i \in rooms
          /\ RoomCall(call'[k], i) /\ Done(call'[k]) =>
                \/ RoomCall(call[k], i) /\ Done(call[k])
                \/ i \in rooms'

SourcesKept ==
    \A p \in PsAddr : p \in Live' /\ ps'[p].hosted =>
        \/ p \in Live /\ ps[p].hosted /\ ps[p].id = ps'[p].id
        \/ \E k \in Conn : RoomCall(call'[k], ps'[p].id)

LEMMA RoomsHold ==
    ASSUME TypeOK, TypeOK', RoomInv, Serving, RoomsKept, SourcesKept
    PROVE  RoomInv'
<1>1. \A p \in Live : p \in PsAddr /\ ps[p].id \in Ids
  BY DEF TypeOK, Live, PStreamer
<1>2. \A p \in Live' : p \in PsAddr /\ ps'[p].id \in Ids
  BY DEF TypeOK, Live, PStreamer
<1>3. \A k \in Conn, i \in Ids : RoomCall(call'[k], i) /\ Done(call'[k]) => i \in rooms'
  BY DEF RoomInv, RoomsKept
<1>4. ASSUME NEW p \in Live', ps'[p].hosted
      PROVE  ps'[p].id \in rooms' \/ \E k \in Conn : RoomCall(call'[k], ps'[p].id)
  <2>1. CASE \E k \in Conn : RoomCall(call'[k], ps'[p].id)
    BY <2>1
  <2>2. CASE p \in Live /\ ps[p].hosted /\ ps[p].id = ps'[p].id
    BY <1>1, <2>2 DEF RoomInv, RoomsKept
  <2> QED BY <1>2, <1>4, <2>1, <2>2 DEF SourcesKept
<1>5. \A k \in Conn : call'[k] # None => call'[k].op # "destroy_room"
  BY DEF RoomsKept
<1> QED BY <1>3, <1>4, <1>5 DEF RoomInv

\* Every request changes like this while the program serves.
LEMMA CallSetRooms ==
    ASSUME call \in Calls, RoomInv, Serving, NEW k \in Conn, NEW r,
           call' = [call EXCEPT ![k] = r], rooms \subseteq rooms',
           r # None => r.op # "destroy_room",
           call[k] # None /\ call[k].op = "create_room" =>
              \/ r # None /\ r.op = "create_room" /\ r.id = call[k].id
              \/ call[k].id \in rooms,
           r # None /\ r.op = "create_room" /\ Done(r) => r.id \in rooms'
    PROVE  RoomsKept
<1>1. \A j \in Conn : call'[j] = IF j = k THEN r ELSE call[j]
  BY DEF Calls
<1> QED BY <1>1 DEF RoomsKept, RoomInv, RoomCall

\* A request sent, or none, and marks of history.
LEMMA RequestRooms ==
    ASSUME call \in Calls, RoomInv, Serving, rooms' = rooms, NEW h, NEW r, NEW cs,
           r.op # "destroy_room", r.stage = "queued",
           cs = call \/ cs \in Request(call, h, r),
           \A k \in Conn : SameRequest(call'[k], cs[k])
    PROVE  RoomsKept
<1>1. \A k \in Conn :
         \/ cs[k] = call[k]
         \/ call[k] = None /\ cs[k] = r
  BY RequestTakes DEF Calls
<1> QED BY <1>1 DEF RoomsKept, RoomInv, RoomCall, Done, SameRequest

LEMMA CallRooms ==
    ASSUME TypeOK, RoomInv, Serving, NEW k \in Conn, call[k] # None
    PROVE  /\ call[k] \in Call /\ call[k].op # "destroy_room"
           /\ call[k].op = "create_room" /\ Done(call[k]) => call[k].id \in rooms
<1>1. call[k] \in Call
  BY DEF TypeOK
<1>2. call[k].op = "create_room" => call[k].id \in Ids
  BY <1>1 DEF Call
<1> QED BY <1>1, <1>2 DEF RoomInv, RoomCall

LEMMA ProgressRooms ==
    ASSUME TypeOK, RoomInv, Serving, Serving', NEW k \in Conn,
           "drop" \notin Faults, "refuse" \notin Faults,
           \/ Transmit(k) \/ HandleReply(k) \/ CloseCall(k) \/ JanusServe(k)
    PROVE  RoomsKept
<1>1. call \in Calls /\ call[k] # None
  BY DEF TypeOK, Calls, Transmit, HandleReply, CloseCall, JanusServe
<1>2. /\ call[k] \in Call /\ call[k].op # "destroy_room"
      /\ call[k].op = "create_room" /\ Done(call[k]) => call[k].id \in rooms
  BY <1>1, CallRooms
<1>3. CASE Transmit(k) \/ HandleReply(k)
  <2>1. PICK t \in {"sent", "closing"} : /\ call' = [call EXCEPT ![k].stage = t]
                                         /\ t = "closing" => Done(call[k])
    BY <1>3 DEF Transmit, HandleReply, Done
  <2> DEFINE r == [call[k] EXCEPT !.stage = t]
  <2>2. /\ call' = [call EXCEPT ![k] = r]
        /\ r.op = call[k].op /\ r.id = call[k].id /\ r.stage = t /\ r \in Call
    BY <1>2, <2>1 DEF Call, CallRecord
  <2>3. rooms' = rooms
    BY <1>3 DEF Transmit, HandleReply
  <2> HIDE DEF r
  <2>4. /\ r # None /\ r.op # "destroy_room"
        /\ r.op = "create_room" /\ Done(r) => r.id \in rooms'
    BY <1>2, <2>1, <2>2, <2>3, NoneAssumption DEF Done
  <2> QED BY <1>1, <2>2, <2>3, <2>4, CallSetRooms
<1>4. CASE CloseCall(k)
  <2>1. Done(call[k]) /\ call' = [call EXCEPT ![k] = None] /\ rooms' = rooms
    BY <1>4 DEF CloseCall, Serving, Done
  <2> QED BY <1>1, <1>2, <2>1, CallSetRooms
<1>5. CASE JanusServe(k)
  <2>1. PICK n \in MountIds \cup ParticipantIds \cup {None} :
           /\ JanusDoes(call[k], n)
           /\ call' = [call EXCEPT ![k] =
                         [@ EXCEPT !.stage = "answered", !.num = n]]
    BY <1>5 DEF JanusServe
  <2> DEFINE r == [call[k] EXCEPT !.stage = "answered", !.num = n]
  <2>2. /\ call' = [call EXCEPT ![k] = r]
        /\ r.op = call[k].op /\ r.id = call[k].id /\ r \in Call
    BY <1>2, <2>1 DEF Call, CallRecord
  <2>3. /\ rooms \subseteq rooms'
        /\ call[k].op = "create_room" => call[k].id \in rooms'
    BY <1>2, <2>1 DEF JanusDoes
  <2> HIDE DEF r
  <2>4. r # None
    BY <2>2, NoneAssumption
  <2> QED BY <1>1, <1>2, <2>2, <2>3, <2>4, CallSetRooms
<1> QED BY <1>3, <1>4, <1>5

LEMMA OthersRooms ==
    ASSUME TableInv, RoomInv, Serving, Serving', [Next]_vars,
           "drop" \notin Faults, "refuse" \notin Faults
    PROVE  RoomsKept
<1> USE DEF TableInv
<1>1. call \in Calls
  BY DEF TypeOK, Calls
<1>2. \A cs, k : SameRequest(cs[k], cs[k])
  BY DEF SameRequest
<1>3. ASSUME NEW h, NEW r, call' = call \/ call' \in Request(call, h, r),
             r.op # "destroy_room", r.stage = "queued", rooms' = rooms
      PROVE  RoomsKept
  BY <1>1, <1>2, <1>3, RequestRooms
<1>4. \A p, i, c, num :
         /\ NewCall("create_mount", p, None, None, c).op # "destroy_room"
         /\ NewCall("create_mount", p, None, None, c).stage = "queued"
         /\ NewCall("create_room", p, i, None, c).op # "destroy_room"
         /\ NewCall("create_room", p, i, None, c).stage = "queued"
         /\ NewCall("forward", None, i, num, None).op # "destroy_room"
         /\ NewCall("forward", None, i, num, None).stage = "queued"
         /\ NewCall("destroy_mount", None, None, num, None).op # "destroy_room"
         /\ NewCall("destroy_mount", None, None, num, None).stage = "queued"
  BY DEF NewCall
<1>5. ASSUME NEW c \in Conn, NEW i \in Ids, PostChannel(c, i) \/ PostSource(c, i)
      PROVE  RoomsKept
  <2>1. PICK p \in PsAddr :
           \/ call' \in Request(call, "streaming",
                                NewCall("create_mount", p, None, None, c))
           \/ call' \in Request(call, "videoroom",
                                NewCall("create_room", p, i, None, c))
    BY <1>5 DEF PostChannel, PostSource, Launch, FreePs, CreateStreamingPoint,
                CreateVideoroom
  <2>2. rooms' = rooms
    BY <1>5 DEF PostChannel, PostSource, Launch
  <2> QED BY <1>3, <1>4, <2>1, <2>2
<1>6. ASSUME NEW c \in Conn, NEW i \in Ids, NEW num \in ParticipantIds,
             UpdateSource(c, i, num)
      PROVE  RoomsKept
  <2>1. /\ rooms' = rooms
        /\ \/ call' = call
           \/ call' \in Request(call, "videoroom",
                                NewCall("forward", None, i, num, None))
    BY <1>6 DEF UpdateSource, ForwardRtp
  <2> QED BY <1>3, <1>4, <2>1
<1>7. ASSUME NEW c \in Conn, Leave(c)
      PROVE  RoomsKept
  <2>1. rooms' = rooms /\ \A k \in Conn : SameRequest(call'[k], call[k])
    BY <1>1, <1>7, MarkedSame DEF Leave
  <2> QED BY <1>1, <1>4, <2>1, RequestRooms
<1>8. ASSUME NEW k \in Conn, Poll(k) \/ JanusServe(k)
      PROVE  RoomsKept
  BY <1>8, ProgressRooms DEF Poll
<1>9. ASSUME NEW p \in PsAddr, PurgeOne(p)
      PROVE  RoomsKept
  <2>1. p \in Live /\ rooms' = rooms
    BY <1>9 DEF PurgeOne, LoopInv, Orphans
  <2>2. PICK cs \in DestroyStreamingPoint(call, ps[p].jid) :
           call' = MarkStale(cs, p)
    BY <1>9 DEF PurgeOne, Dispose
  <2>3. ps[p] \in PStreamer
    BY <2>1 DEF TypeOK, Live
  <2>4. /\ ps[p].id \in Ids
        /\ ps[p].jid \in MountIds \cup ParticipantIds \cup {None}
    BY <2>3 DEF PStreamer
  <2>5. cs \in Calls
    BY <1>1, <2>2, <2>4, DestroyType
  <2>6. \A k \in Conn : SameRequest(call'[k], cs[k])
    BY <2>2, <2>5, MarkedSame
  <2>7. \/ cs = call
        \/ cs \in Request(call, "streaming",
                          NewCall("destroy_mount", None, None, ps[p].jid, None))
    BY <2>2 DEF DestroyStreamingPoint
  <2> QED BY <1>1, <1>4, <2>1, <2>6, <2>7, RequestRooms
<1>10. ASSUME NEW p \in PsAddr, DestroyOne(p)
       PROVE  RoomsKept
  BY <1>10 DEF DestroyOne, Serving
<1>11. CASE UNCHANGED <<call, rooms>>
  BY <1>3, <1>4, <1>11
<1>13. CASE Tick
  <2>1. rooms' = rooms /\ \A k \in Conn : SameRequest(call'[k], call[k])
    BY <1>13, TickSame DEF Tick
  <2> QED BY <1>1, <1>4, <2>1, RequestRooms
<1>12. ASSUME NEW c \in Conn, Client(c)
       PROVE  RoomsKept
  BY <1>5, <1>6, <1>7, <1>11, <1>12 DEF Client, Open, Rejected, UpdateChannel
<1> QED
  BY <1>8, <1>9, <1>10, <1>11, <1>12, <1>13
  DEF Next, Purge, Shutdown, vars, Attach, PurgeStart, Signal,
      JanusDestroy, TaskManagerDestroy, Exit, Exited

LEMMA LaunchedSources ==
    ASSUME "noconn" \notin Faults, "unready" \notin Faults, TableInv,
           NEW c \in Conn, NEW i \in Ids, PostChannel(c, i) \/ PostSource(c, i)
    PROVE  SourcesKept
<1> USE DEF TableInv
<1>1. PICK p \in FreePs, source \in BOOLEAN :
         \/ Launch(c, p, i, source, FALSE, CreateStreamingPoint(call, p, c))
         \/ /\ PostSource(c, i)
            /\ Launch(c, p, i, source, TRUE, CreateVideoroom(call, p, i, c))
  BY PostLaunches
<1>2. PICK hosted \in BOOLEAN,
           calls \in {CreateStreamingPoint(call, p, c), CreateVideoroom(call, p, i, c)} :
         /\ Launch(c, p, i, source, hosted, calls)
         /\ hosted => PostSource(c, i) /\ calls = CreateVideoroom(call, p, i, c)
  BY <1>1
<1>3. Live' = Live \cup {p} /\ \A q \in Live : ps'[q] = ps[q]
  <2>1. Added(p)
    BY <1>2, LaunchAdds
  <2> QED BY <2>1 DEF Added
<1>4. ps'[p].id = i /\ ps'[p].hosted = hosted
  <2>1. ASSUME NEW cs, Launch(c, p, i, source, hosted, cs)
        PROVE  \E x \in PStreamer :
                  /\ ps' = [ps EXCEPT ![p] = x]
                  /\ x.id = i /\ x.hosted = hosted /\ x.jid = None
    BY <2>1, LaunchRecord
  <2> QED BY <1>2, <2>1 DEF TypeOK, FreePs
<1>5. CASE ~hosted
  BY <1>3, <1>4, <1>5, Zenon DEF SourcesKept
<1>6. CASE hosted
  <2> DEFINE r == NewCall("create_room", p, i, None, c)
  <2>1. r \in Call /\ r.op = "create_room" /\ r.id = i
    BY ZeroAge DEF NewCall, Call, CallRecord, Ops, Creations, FreePs
  <2>2. call' \in Request(call, "videoroom", r)
    BY <1>2, <1>6 DEF Launch, CreateVideoroom
  <2> HIDE DEF r
  <2>3. call \in Calls /\ EnoughConn(1) /\ "videoroom" \in handles
    BY <1>2, <1>6 DEF PostSource, Ready, TypeOK, Calls
  <2>4. call' # call
    BY <2>1, <2>2, <2>3, RequestSent
  <2>5. PICK k \in Conn : call' = [call EXCEPT ![k] = r]
    BY <2>2, <2>4, RequestTakes
  <2>6. RoomCall(call'[k], i)
    BY <2>1, <2>3, <2>5, NoneAssumption DEF Calls, RoomCall
  <2> QED BY <1>3, <1>4, <2>6 DEF SourcesKept
<1> QED BY <1>5, <1>6

LEMMA RoomStep ==
    ASSUME Faults \cap {"drop", "refuse", "noconn", "unready"} = {},
           TableInv, TypeOK', RoomInv, [Next]_vars
    PROVE  RoomInv'
<1>1. CASE ~Serving'
  BY <1>1 DEF RoomInv
<1>2. CASE Serving'
  <2>1. Serving
    BY <1>2
    DEF Serving, Next, Client, Poll, Purge, Shutdown, Open, Leave,
        PostChannel, PostSource, Launch, Rejected, UpdateChannel, UpdateSource,
        CanRequest, Transmit, HandleReply, CloseCall, JanusServe, Attach, Tick,
        PurgeStart, PurgeOne, Signal, DestroyOne, JanusDestroy,
        TaskManagerDestroy, Exit, Exited, vars
  <2>2. RoomsKept
    BY <1>2, <2>1, OthersRooms
  <2>3. ASSUME StreamersStay
        PROVE  SourcesKept
    BY <2>3 DEF StreamersStay, SourcesKept
  <2>4. SourcesKept
    BY <2>3, LaunchedSources, StreamerSteps
  <2> QED BY <2>1, <2>2, <2>4, RoomsHold DEF TableInv
<1> QED BY <1>1, <1>2

LEMMA RoomsInductive ==
    ASSUME Faults \cap {"drop", "refuse", "noconn", "unready"} = {}
    PROVE  Spec => []RoomInv
<1>1. Init => RoomInv
  BY DEF Init, RoomInv, RoomCall, Live
<1>2. TableInv /\ TableInv' /\ RoomInv /\ [Next]_vars => RoomInv'
  BY RoomStep DEF TableInv
<1> QED BY TableInductive, <1>1, <1>2, PTL DEF Spec

\* source_streamer_creation_handler and the purge: while Janus does what it
\* is asked and requests can be made, a live source has its room, or the
\* request for it is on its way, also when its name was used before.
THEOREM SourcesHaveRooms ==
    ASSUME Faults \cap {"drop", "refuse", "noconn", "unready"} = {}
    PROVE  Spec => []SourceHasRoom
<1>1. RoomInv => SourceHasRoom
  <2> SUFFICES ASSUME RoomInv, Serving, NEW p \in Live, ps[p].hosted
               PROVE  \/ ps[p].id \in rooms
                      \/ \E k \in Pending :
                            call[k].op = "create_room" /\ call[k].id = ps[p].id
    BY DEF SourceHasRoom, Serving
  <2> QED BY DEF RoomInv, RoomCall, Pending
<1> QED BY RoomsInductive, <1>1, PTL

\* streamer_creation_callback with a room: under the same assumptions success
\* is told only of a room that exists.
THEOREM RoomsBeforeAnswers ==
    ASSUME Faults \cap {"drop", "refuse", "noconn", "unready"} = {}
    PROVE  Spec => RoomBeforeAnswer
<1> DEFINE Roomed == \A k \in Conn :
              (phase = "running" /\ call[k] # None /\ call[k].op = "create_room"
                 /\ ~call[k].gone /\ call'[k] = None
                 /\ http'[call[k].client] = "ok") => call[k].id \in rooms
<1>1. TableInv /\ RoomInv /\ [Next]_vars => [Roomed]_vars
  <2> SUFFICES ASSUME TableInv, RoomInv, [Next]_vars, phase = "running",
                      NEW k \in Conn, call[k] # None,
                      call[k].op = "create_room", call'[k] = None
               PROVE  call[k].id \in rooms
    OBVIOUS
  <2>1. Creation(k) /\ ~(Creation(k)')
    BY DEF Creation, Creations
  <2>2. ~Steady
    BY <2>1 DEF Steady
  <2>3. ASSUME NEW c \in Conn, Leave(c)
        PROVE  FALSE
    BY <2>1, <2>3, LeaveMarks DEF TableInv
  <2>4. ASSUME NEW c \in Conn, NEW i \in Ids, PostChannel(c, i) \/ PostSource(c, i)
        PROVE  FALSE
    <3>1. PICK p \in PsAddr :
             call' \in CreateStreamingPoint(call, p, c)
                          \cup CreateVideoroom(call, p, i, c)
      BY <2>4 DEF PostChannel, PostSource, Launch, FreePs
    <3>2. call' = call \/ \E n \in Conn : Begun(n, p, c)
      BY <3>1, CreateBegins DEF TableInv, TypeOK, Calls
    <3> QED BY <3>2 DEF Begun, FreeConn, ActiveConn, TableInv, TypeOK
  <2>5. ASSUME NEW j \in Conn, CloseCall(j)
        PROVE  call[k].id \in rooms
    <3>1. j = k /\ Done(call[k])
      BY <2>5 DEF CloseCall, TableInv, TypeOK, Done
    <3> QED BY <3>1, CallRooms DEF TableInv, Serving
  <2> QED BY <2>2, <2>3, <2>4, <2>5, CallSteps
<1> QED BY TableInductive, RoomsInductive, <1>1, PTL DEF RoomBeforeAnswer, Spec

-----------------------------------------------------------------------------
(* No mountpoint is forgotten: the converse of the claims.  What the       *)
(* creations in flight point to comes first.                               *)

\* No creation begins, and those whose streamer goes become stale.
CreationsKept ==
    \A k \in Conn : Creation(k)' =>
        /\ Creation(k) /\ call'[k].ps = call[k].ps /\ call'[k].op = call[k].op
        /\ OpenMount(call'[k]) => OpenMount(call[k])
        /\ call[k].stale => call'[k].stale
        /\ call'[k].stale => call[k].stale \/ call[k].ps \notin Live'

\* What the destruction of a streamer makes of the requests.
Told(p, cs) ==
    /\ cs \in Calls /\ call' = MarkStale(cs, p)
    /\ \/ cs = call
       \/ \E r : \E k \in FreeConn :
             /\ cs = [call EXCEPT ![k] = r]
             /\ r.op \notin Creations /\ r.client = None

LEMMA DisposeTells ==
    ASSUME TableInv, NEW p \in PsAddr, PurgeOne(p) \/ DestroyOne(p)
    PROVE  /\ p \in Live
           /\ \E cs \in DestroyStreamingPoint(call, ps[p].jid)
                          \cup DestroyVideoroom(call, ps[p].id) :
                 /\ Told(p, cs)
                 /\ \/ phase = "destroying" /\ ps[p].source
                    \/ cs \in DestroyStreamingPoint(call, ps[p].jid)
<1>1. p \in Live
  BY DEF PurgeOne, DestroyOne, TableInv, LoopInv, Orphans
<1>2. ps[p] \in PStreamer /\ call \in Calls
  BY <1>1 DEF TableInv, TypeOK, Live, Calls
<1>3. /\ ps[p].id \in Ids
      /\ ps[p].jid \in MountIds \cup ParticipantIds \cup {None}
  BY <1>2 DEF PStreamer
<1>4. PICK cs \in DestroyStreamingPoint(call, ps[p].jid)
                    \cup DestroyVideoroom(call, ps[p].id) :
         /\ call' = MarkStale(cs, p)
         /\ \/ phase = "destroying" /\ ps[p].source
            \/ cs \in DestroyStreamingPoint(call, ps[p].jid)
  BY DEF PurgeOne, DestroyOne, Dispose
<1>5. cs \in Calls
  BY <1>2, <1>3, <1>4, DestroyType
<1> DEFINE r1 == NewCall("destroy_mount", None, None, ps[p].jid, None)
           r2 == NewCall("destroy_room", None, ps[p].id, None, None)
<1>6. /\ r1.op \notin Creations /\ r1.client = None
      /\ r2.op \notin Creations /\ r2.client = None
  BY DEF NewCall, Creations
<1>7. \/ cs = call
      \/ cs \in Request(call, "streaming", r1)
      \/ cs \in Request(call, "videoroom", r2)
  BY <1>4 DEF DestroyStreamingPoint, DestroyVideoroom
<1> HIDE DEF r1, r2
<1>8. \/ cs = call
      \/ \E k \in FreeConn, r \in {r1, r2} : cs = [call EXCEPT ![k] = r]
  BY <1>7 DEF Request, Connect
<1>9. Told(p, cs)
  BY <1>4, <1>5, <1>6, <1>8 DEF Told
<1> QED BY <1>1, <1>4, <1>9

LEMMA CreationSteps ==
    ASSUME TableInv, [Next]_vars
    PROVE  \/ CreationsKept
           \/ \E c \in Conn, i \in Ids : PostChannel(c, i) \/ PostSource(c, i)
<1> USE DEF TableInv
<1>1. call \in Calls
  BY DEF TypeOK, Calls
<1>2. ASSUME UNCHANGED call
      PROVE  CreationsKept
  BY <1>2 DEF CreationsKept, Creation
<1>3. ASSUME NEW k \in Conn, Transmit(k) \/ HandleReply(k) \/ JanusServe(k)
      PROVE  CreationsKept
  <2>1. Quiet(call, call')
    BY <1>3, ProgressQuiet
  <2>2. /\ \A j \in Conn \ {k} : call'[j] = call[j]
        /\ call[k].stage # "closing"
    BY <1>3 DEF Transmit, HandleReply, JanusServe, TypeOK
  <2> QED BY <2>1, <2>2 DEF CreationsKept, Quiet, SameCall, Creation, OpenMount
<1>4. ASSUME NEW k \in Conn, CloseCall(k)
      PROVE  CreationsKept
  BY <1>4 DEF CloseCall, TypeOK, CreationsKept, Creation
<1>5. ASSUME NEW c \in Conn, Leave(c)
      PROVE  CreationsKept
  <2>1. \A k \in Conn : SameRequest(call'[k], call[k])
    BY <1>1, <1>5, MarkedSame DEF Leave
  <2> QED
    BY <1>5, <2>1, LeaveMarks
    DEF CreationsKept, Creation, SameRequest, OpenMount
<1>6. ASSUME NEW c \in Conn, NEW i \in Ids, NEW num \in ParticipantIds,
             UpdateSource(c, i, num)
      PROVE  CreationsKept
  <2>1. call' = call \/ call' \in ForwardRtp(call, i, num)
    BY <1>6 DEF UpdateSource
  <2>2. NewCall("forward", None, i, num, None).op \notin Creations
    BY DEF NewCall, Creations
  <2>3. ASSUME call' \in ForwardRtp(call, i, num)
        PROVE  CreationsKept
    BY <1>1, <1>2, <2>2, <2>3, RequestTakes
    DEF ForwardRtp, CreationsKept, Creation, Calls
  <2> QED BY <1>2, <2>1, <2>3
<1>7. ASSUME NEW p \in PsAddr, PurgeOne(p) \/ DestroyOne(p)
      PROVE  CreationsKept
  <2>1. PICK cs : Told(p, cs)
    BY <1>7, DisposeTells
  <2>2. \A k \in Conn : SameRequest(call'[k], cs[k])
    BY <2>1, MarkedSame DEF Told
  <2>3. \A k \in Conn : \/ cs[k] = call[k]
                        \/ cs[k].op \notin Creations
    BY <1>1, <2>1 DEF Told, Calls, FreeConn
  <2>4. \A k \in Conn : Creation(k)' =>
           /\ Creation(k) /\ call'[k].ps = call[k].ps
           /\ call[k].stale => call'[k].stale
           /\ call'[k].stale => call[k].stale \/ call[k].ps \notin Live'
    <3>1. PICK calls \in {DestroyStreamingPoint(call, ps[p].jid),
                          DestroyVideoroom(call, ps[p].id)} : Dispose(p, calls)
      BY <1>7 DEF PurgeOne, DestroyOne
    <3>2. p \in Live
      BY <1>7, DisposeTells
    <3>3. p \notin Live'
      BY <3>1, <3>2, DisposeRemoves DEF Removed
    <3> QED BY <3>1, <3>2, <3>3, DisposeQuiet
  <2> QED BY <2>2, <2>3, <2>4 DEF CreationsKept, Creation, SameRequest, OpenMount
<1>8. ASSUME NEW c \in Conn, Client(c)
      PROVE  \/ CreationsKept
             \/ \E i \in Ids : PostChannel(c, i) \/ PostSource(c, i)
  BY <1>2, <1>5, <1>6, <1>8 DEF Client, Open, Rejected, UpdateChannel
<1>9. ASSUME NEW k \in Conn, Poll(k) \/ JanusServe(k)
      PROVE  CreationsKept
  BY <1>3, <1>4, <1>9 DEF Poll
<1>10. CASE Tick
  BY <1>10, TickWaits DEF CreationsKept, Creation, OpenMount
<1> QED
  BY <1>2, <1>7, <1>8, <1>9, <1>10
  DEF Next, Purge, Shutdown, vars, Attach, PurgeStart, Signal,
      JanusDestroy, TaskManagerDestroy, Exit, Exited

LEMMA PostBegins ==
    ASSUME TableInv, NEW c \in Conn, NEW i \in Ids,
           PostChannel(c, i) \/ PostSource(c, i)
    PROVE  /\ UNCHANGED <<phase, doomed, handles, mounts>>
           /\ \E p \in FreePs :
                 /\ Added(p) /\ ps'[p].jid = None
                 /\ \/ call' = call
                    \/ \E k \in Conn, r \in Call :
                          /\ call[k] = None /\ call' = [call EXCEPT ![k] = r]
                          /\ r.op \in Creations /\ r.ps = p /\ r.stage = "queued"
                          /\ r.stale = FALSE
                          /\ r.op = "create_mount" =>
                                "streaming" \in handles /\ ~ps'[p].hosted
<1> USE DEF TableInv
<1>1. PICK p \in FreePs, source \in BOOLEAN :
         \/ Launch(c, p, i, source, FALSE, CreateStreamingPoint(call, p, c))
         \/ Launch(c, p, i, source, TRUE, CreateVideoroom(call, p, i, c))
  BY PostLaunches
<1>2. PICK hosted \in BOOLEAN,
           calls \in {CreateStreamingPoint(call, p, c), CreateVideoroom(call, p, i, c)} :
         /\ Launch(c, p, i, source, hosted, calls)
         /\ hosted => calls = CreateVideoroom(call, p, i, c)
         /\ ~hosted => calls = CreateStreamingPoint(call, p, c)
  BY <1>1
<1>3. Added(p) /\ p \in PsAddr
  BY <1>2, LaunchAdds DEF FreePs
<1>4. ps'[p].hosted = hosted /\ ps'[p].jid = None
  <2>1. ASSUME NEW cs, Launch(c, p, i, source, hosted, cs)
        PROVE  \E x \in PStreamer :
                  /\ ps' = [ps EXCEPT ![p] = x]
                  /\ x.id = i /\ x.hosted = hosted /\ x.jid = None
    BY <2>1, LaunchRecord
  <2> QED BY <1>2, <1>3, <2>1 DEF TypeOK
<1> DEFINE r1 == NewCall("create_mount", p, None, None, c)
           r2 == NewCall("create_room", p, i, None, c)
<1>5. /\ r1 \in Call /\ r1.op = "create_mount" /\ r1.ps = p /\ r1.stage = "queued"
      /\ r2 \in Call /\ r2.op = "create_room" /\ r2.ps = p /\ r2.stage = "queued"
      /\ r1.stale = FALSE /\ r2.stale = FALSE
  BY <1>3, ZeroAge DEF NewCall, Call, CallRecord, Ops, Creations
<1>6. \/ ~hosted /\ call' \in Request(call, "streaming", r1)
      \/ call' \in Request(call, "videoroom", r2)
  BY <1>2 DEF Launch, CreateStreamingPoint, CreateVideoroom
<1> HIDE DEF r1, r2
<1>7. call' = call \/ \E k \in Conn, r \in Call :
         /\ call[k] = None /\ call' = [call EXCEPT ![k] = r]
         /\ r.op \in Creations /\ r.ps = p /\ r.stage = "queued"
         /\ r.stale = FALSE
         /\ r.op = "create_mount" => "streaming" \in handles /\ ~hosted
  <2>1. CASE ~hosted /\ call' \in Request(call, "streaming", r1)
    <3>1. call' # call => "streaming" \in handles
      BY <2>1 DEF Request
    <3>2. \/ call' = call
          \/ \E k \in Conn : call[k] = None /\ call' = [call EXCEPT ![k] = r1]
      BY <2>1, RequestTakes
    <3> QED BY <1>5, <2>1, <3>1, <3>2 DEF Creations
  <2>2. CASE call' \in Request(call, "videoroom", r2)
    <3>1. \/ call' = call
          \/ \E k \in Conn : call[k] = None /\ call' = [call EXCEPT ![k] = r2]
      BY <2>2, RequestTakes
    <3> QED BY <1>5, <3>1 DEF Creations
  <2> QED BY <1>6, <2>1, <2>2
<1>8. UNCHANGED <<phase, doomed, handles, mounts>>
  BY <1>2 DEF Launch
<1>9. ~hosted => ~ps'[p].hosted
  BY <1>4
<1> QED BY <1>3, <1>4, <1>7, <1>8, <1>9

\* No two creations are for one streamer, and a stale one is for none: malloc
\* does not return the address while the callback holds it.
AloneInv ==
    /\ \A j, k \in Conn :
          Creation(j) /\ Creation(k) /\ call[j].ps = call[k].ps => j = k
    /\ \A k \in Conn : Creation(k) /\ call[k].stale => call[k].ps \notin Live

\* Only a channel has a mountpoint, and none yet while its creation is open.
Unset(p) == ~ps[p].hosted /\ ps[p].jid \notin MountIds
FreshInv ==
    /\ \A p \in Live : ps[p].hosted => ps[p].jid \notin MountIds
    /\ Serving => \A k \in Conn :
          OpenMount(call[k]) /\ ~call[k].stale => Unset(call[k].ps)

\* Who speaks of mountpoints has the handle to speak with.
HandleInv ==
    (mounts # {} \/ \E k \in Conn : call[k] # None /\ call[k].op = "create_mount")
        => "streaming" \in handles

LEMMA AloneStep ==
    ASSUME "reuse" \notin Faults, TableInv, AloneInv, [Next]_vars
    PROVE  AloneInv'
<1>1. CASE CreationsKept /\ StreamersStay
  BY <1>1 DEF CreationsKept, StreamersStay, AloneInv
<1>2. ASSUME NEW c \in Conn, NEW i \in Ids, PostChannel(c, i) \/ PostSource(c, i)
      PROVE  AloneInv'
  <2>1. PICK p \in FreePs :
           /\ Added(p)
           /\ \/ call' = call
              \/ \E k \in Conn, r \in Call :
                    /\ call[k] = None /\ call' = [call EXCEPT ![k] = r]
                    /\ r.ps = p /\ r.stale = FALSE
    BY <1>2, PostBegins
  <2>2. \A k \in Conn : Creation(k) => call[k].ps # p
    BY DEF FreePs, Creation, Pending
  <2>3. Live' = Live \cup {p}
    BY <2>1 DEF Added
  <2>4. CASE call' = call
    BY <2>2, <2>3, <2>4 DEF AloneInv, Creation
  <2>5. ASSUME NEW k \in Conn, NEW r \in Call, call' = [call EXCEPT ![k] = r],
               r.ps = p, r.stale = FALSE
        PROVE  AloneInv'
    <3>1. \A j \in Conn : call'[j] = IF j = k THEN r ELSE call[j]
      BY <2>5 DEF TableInv, TypeOK
    <3>2. \A j \in Conn \ {k} : Creation(j)' => Creation(j) /\ call'[j].ps # p
      BY <2>2, <3>1 DEF Creation
    <3> QED BY <2>3, <2>5, <3>1, <3>2 DEF AloneInv
  <2> QED BY <2>1, <2>4, <2>5
<1> QED BY <1>1, <1>2, CreationSteps, StreamerSteps

LEMMA HandleStep ==
    ASSUME TableInv, HandleInv, [Next]_vars
    PROVE  HandleInv'
<1> USE DEF TableInv
<1>1. handles \subseteq handles'
  BY DEF Next, Client, Poll, Purge, Shutdown, Open, Leave, PostChannel,
         PostSource, Launch, Rejected, UpdateChannel, UpdateSource,
         Transmit, HandleReply, CloseCall, JanusServe, Attach, Tick, PurgeStart,
         PurgeOne, Signal, DestroyOne, JanusDestroy, TaskManagerDestroy, Exit,
         Exited, vars
<1>2. \/ mounts' \subseteq mounts
      \/ \E k \in Conn : call[k] # None /\ call[k].op = "create_mount"
  <2>1. CASE UNCHANGED mounts
    BY <2>1
  <2>2. ASSUME NEW k \in Conn, JanusServe(k)
        PROVE  mounts' \subseteq mounts \/ call[k].op = "create_mount"
    BY <2>2 DEF JanusServe, JanusDoes
  <2> QED
    BY <2>1, <2>2
    DEF JanusServe, Next, Client, Poll, Purge, Shutdown, Open, Leave,
        PostChannel, PostSource, Launch, Rejected, UpdateChannel, UpdateSource,
        Transmit, HandleReply, CloseCall, Attach, Tick, PurgeStart, PurgeOne,
        Signal, DestroyOne, JanusDestroy, TaskManagerDestroy, Exit, Exited, vars
<1>3. mounts' # {} => "streaming" \in handles
  BY <1>2 DEF HandleInv
<1>4. CASE CreationsKept
  <2>1. ASSUME NEW k \in Conn, call'[k] # None, call'[k].op = "create_mount"
        PROVE  "streaming" \in handles
    BY <1>4, <2>1 DEF CreationsKept, Creation, Creations, HandleInv
  <2> QED BY <1>1, <1>3, <2>1 DEF HandleInv
<1>5. ASSUME NEW c \in Conn, NEW i \in Ids, PostChannel(c, i) \/ PostSource(c, i)
      PROVE  HandleInv'
  <2>1. \/ call' = call
        \/ \E k \in Conn, r \in Call :
              /\ call' = [call EXCEPT ![k] = r]
              /\ r.op = "create_mount" => "streaming" \in handles
    BY <1>5, PostBegins
  <2>2. ASSUME NEW k \in Conn, call'[k] # None, call'[k].op = "create_mount"
        PROVE  "streaming" \in handles
    BY <2>1, <2>2 DEF HandleInv, TypeOK
  <2> QED BY <1>1, <1>3, <2>2 DEF HandleInv
<1> QED BY <1>4, <1>5, CreationSteps

\* A reply that is stored reaches a channel without a mountpoint.
LEMMA ReplyIsFresh ==
    ASSUME TableInv, AloneInv, FreshInv, NEW k \in Conn, NEW p \in Live, NEW v,
           Replied(k, p, v)
    PROVE  Unset(p)
<1>1. Creation(k) /\ Serving
  BY DEF Replied, OpenMount, Creation, Creations, Serving
<1>2. ~call[k].stale
  BY <1>1 DEF AloneInv, Replied
<1> QED BY <1>1, <1>2 DEF FreshInv, Replied

LEMMA FreshStep ==
    ASSUME MountIds \cap ParticipantIds = {}, TableInv, AloneInv, PointersInv,
           PointersInv', FreshInv, [Next]_vars
    PROVE  FreshInv'
<1>1. ASSUME Serving'
      PROVE  Serving
  BY <1>1
  DEF Serving, Next, Client, Poll, Purge, Shutdown, Open, Leave,
      PostChannel, PostSource, Launch, Rejected, UpdateChannel, UpdateSource,
      CanRequest, Transmit, HandleReply, CloseCall, JanusServe, Attach, Tick,
      PurgeStart, PurgeOne, Signal, DestroyOne, JanusDestroy,
      TaskManagerDestroy, Exit, Exited, vars
<1>2. ASSUME CreationsKept, StreamersStay
      PROVE  FreshInv'
  <2>1. ASSUME NEW p \in Live', ps'[p].hosted
        PROVE  ps'[p].jid \notin MountIds
    <3>1. p \in Live /\ ps[p].hosted /\ Gets(p, ps'[p].jid)
      BY <1>2, <2>1 DEF StreamersStay
    <3>2. \A k \in Conn : \A v : ~Replied(k, p, v)
      BY <3>1, ReplyIsFresh DEF Unset
    <3> QED BY <3>1, <3>2 DEF Gets, Republished, FreshInv
  <2>2. ASSUME Serving', NEW k \in Conn, OpenMount(call'[k]), ~call'[k].stale
        PROVE  ~ps'[call'[k].ps].hosted /\ ps'[call'[k].ps].jid \notin MountIds
    <3>1. PICK p : p = call[k].ps
      OBVIOUS
    <3>2. /\ Creation(k) /\ Creation(k)' /\ call'[k].ps = p
          /\ OpenMount(call[k]) /\ ~call[k].stale
      BY <1>2, <2>2, <3>1 DEF CreationsKept, OpenMount, Creation, Creations
    <3>3. p \in Live'
      BY <2>2, <3>2 DEF PointersInv, Points, Serving
    <3>4. /\ p \in Live /\ ps'[p].hosted = ps[p].hosted
          /\ Gets(p, ps'[p].jid)
      BY <1>2, <3>3 DEF StreamersStay
    <3>5. Unset(p)
      BY <1>1, <2>2, <3>1, <3>2 DEF FreshInv
    <3>6. ASSUME NEW j \in Conn, NEW v, Replied(j, p, v)
          PROVE  FALSE
      <4>1. j = k
        BY <3>1, <3>2, <3>6 DEF AloneInv, Replied, OpenMount, Creation, Creations
      <4> QED BY <2>2, <3>6, <4>1 DEF Replied
    <3> QED BY <3>2, <3>4, <3>5, <3>6 DEF Gets, Republished, Unset
  <2> QED BY <2>1, <2>2 DEF FreshInv, Unset
<1>3. ASSUME NEW c \in Conn, NEW i \in Ids, PostChannel(c, i) \/ PostSource(c, i)
      PROVE  FreshInv'
  <2>1. PICK p \in FreePs :
           /\ Added(p) /\ ps'[p].jid = None
           /\ \/ call' = call
              \/ \E n \in Conn, r \in Call :
                    /\ call[n] = None /\ call' = [call EXCEPT ![n] = r]
                    /\ r.ps = p
                    /\ r.op = "create_mount" => ~ps'[p].hosted
    BY <1>3, PostBegins
  <2>2. ps'[p].jid \notin MountIds
    BY <2>1, StreamersAssumption
  <2>3. \A q \in Live' : ps'[q].hosted => ps'[q].jid \notin MountIds
    BY <2>1, <2>2 DEF Added, FreshInv
  <2>4. ASSUME Serving', NEW k \in Conn, OpenMount(call'[k]), ~call'[k].stale
        PROVE  ~ps'[call'[k].ps].hosted /\ ps'[call'[k].ps].jid \notin MountIds
    <3>1. CASE call'[k] = call[k]
      <4>1. PICK q : q = call[k].ps
        OBVIOUS
      <4>2. q \in Live /\ Unset(q)
        BY <1>1, <2>4, <3>1, <4>1
        DEF PointersInv, Points, FreshInv, Serving, OpenMount, Creation, Creations
      <4>3. ps'[q] = ps[q]
        BY <2>1, <4>2 DEF Added
      <4> QED BY <3>1, <4>1, <4>2, <4>3 DEF Unset
    <3>2. CASE call'[k] # call[k]
      <4>1. call'[k].ps = p /\ (call'[k].op = "create_mount" => ~ps'[p].hosted)
        BY <2>1, <3>2 DEF TableInv, TypeOK
      <4> QED BY <2>2, <2>4, <4>1 DEF OpenMount
    <3> QED BY <3>1, <3>2
  <2> QED BY <2>3, <2>4 DEF FreshInv, Unset
<1> QED BY <1>2, <1>3, CreationSteps, StreamerSteps

-----------------------------------------------------------------------------
(* A destruction loop has a connection for every streamer it visits. *)

ConnInv ==
    phase \in {"purging", "destroying"} =>
        Cardinality(FreeConn) >= Cardinality(doomed)

LEMMA FreeConnFinite ==
    /\ IsFiniteSet(FreeConn) /\ Cardinality(FreeConn) \in Nat
    /\ \A k : Cardinality(FreeConn \ {k}) >= Cardinality(FreeConn) - 1
<1>1. IsFiniteSet(FreeConn)
  BY StreamersAssumption, FS_Subset DEF FreeConn
<1> QED BY <1>1, FS_CardinalityType, FS_RemoveElement

LEMMA ConnStep ==
    ASSUME "noconn" \notin Faults, TableInv, TypeOK', ConnInv, [Next]_vars
    PROVE  ConnInv'
<1> USE DEF TableInv
<1>1. CASE phase' \notin {"purging", "destroying"}
  BY <1>1 DEF ConnInv
<1>2. ASSUME UNCHANGED <<http, call>>
      PROVE  FreeConn' = FreeConn
  BY <1>2 DEF FreeConn, ActiveConn, Pending
<1>3. CASE PurgeStart \/ Signal
  <2>1. EnoughConn(Cardinality(doomed')) /\ UNCHANGED <<http, call>>
    BY <1>3 DEF PurgeStart, Signal
  <2> QED BY <1>2, <2>1 DEF EnoughConn, ConnInv
<1>4. CASE UNCHANGED <<phase, doomed, http, call>>
  BY <1>2, <1>4 DEF ConnInv
<1>5. ASSUME NEW p \in PsAddr, PurgeOne(p) \/ DestroyOne(p)
      PROVE  ConnInv'
  <2>1. /\ phase \in {"purging", "destroying"} /\ p \in doomed
        /\ doomed' = doomed \ {p} /\ http' = http
    BY <1>5 DEF PurgeOne, DestroyOne, Dispose
  <2>2. IsFiniteSet(doomed)
    BY StreamersAssumption, FS_Subset DEF TypeOK
  <2>3. /\ Cardinality(doomed) \in Nat /\ Cardinality(doomed') \in Nat
        /\ Cardinality(doomed') = Cardinality(doomed) - 1
    BY <2>1, <2>2, FS_CardinalityType, FS_RemoveElement
  <2>4. PICK cs : Told(p, cs)
    BY <1>5, DisposeTells
  <2>5. \A k \in Conn : SameRequest(call'[k], cs[k])
    BY <2>4, MarkedSame DEF Told
  <2>6. ASSUME NEW k \in FreeConn, NEW r, cs = [call EXCEPT ![k] = r],
               r.client = None
        PROVE  \A j \in Conn : cs[j] = call[j] \/ (j = k /\ cs[j].client = None)
    BY <2>6 DEF TypeOK, FreeConn
  <2>7. PICK k \in Conn \cup {None} :
           \A j \in Conn : cs[j] = call[j] \/ (j = k /\ cs[j].client = None)
    <3>1. CASE cs = call
      BY <3>1
    <3>2. FreeConn \subseteq Conn
      BY DEF FreeConn
    <3>3. cs = call \/ \E r : \E n \in FreeConn :
             cs = [call EXCEPT ![n] = r] /\ r.client = None
      BY <2>4 DEF Told
    <3> QED BY <2>6, <3>1, <3>2, <3>3
  <2>8. FreeConn \ {k} \subseteq FreeConn'
    <3> SUFFICES ASSUME NEW c \in FreeConn, c # k
                 PROVE  c \in FreeConn'
      OBVIOUS
    <3>1. c \in Conn /\ http[c] = "closed" /\ call[c] = None /\ c # None
      BY StreamersAssumption DEF FreeConn, ActiveConn
    <3>2. call'[c] = None
      BY <2>5, <2>7, <3>1 DEF SameRequest
    <3>3. ASSUME NEW j \in Conn, call'[j] # None, call'[j].client = c
          PROVE  "reuse" \in Faults
      <4>1. cs[j] # None /\ cs[j].client = c
        BY <2>5, <3>3 DEF SameRequest
      <4>2. call[j] = cs[j]
        BY <2>7, <3>1, <4>1
      <4> QED BY <4>1, <4>2 DEF FreeConn, Pending
    <3> QED BY <2>1, <3>1, <3>2, <3>3 DEF FreeConn, ActiveConn, Pending
  <2>9. /\ Cardinality(FreeConn \ {k}) >= Cardinality(FreeConn) - 1
        /\ Cardinality(FreeConn) \in Nat
    BY FreeConnFinite
  <2>10. IsFiniteSet(FreeConn')
    BY StreamersAssumption, FS_Subset DEF FreeConn
  <2>11. /\ Cardinality(FreeConn \ {k}) <= Cardinality(FreeConn')
         /\ Cardinality(FreeConn \ {k}) \in Nat /\ Cardinality(FreeConn') \in Nat
    BY <2>8, <2>10, FS_Subset, FS_CardinalityType
  <2>12. Cardinality(FreeConn) >= Cardinality(doomed)
    BY <2>1 DEF ConnInv
  <2> QED BY <2>3, <2>9, <2>11, <2>12 DEF ConnInv
<1>6. ASSUME NEW k \in Conn, JanusServe(k)
      PROVE  ConnInv'
  <2>1. UNCHANGED <<phase, doomed, http>> /\ call[k] # None
    BY <1>6 DEF JanusServe
  <2>2. Quiet(call, call')
    BY <1>6, ProgressQuiet
  <2>3. \A j \in Conn : /\ call'[j] # None <=> call[j] # None
                        /\ call[j] # None => call'[j].client = call[j].client
    <3>1. \A j \in Conn \ {k} : call'[j] = call[j]
      BY <1>6 DEF JanusServe, TypeOK
    <3> QED BY <2>1, <2>2, <3>1 DEF Quiet, SameCall
  <2>4. FreeConn' = FreeConn
    BY <2>1, <2>3 DEF FreeConn, ActiveConn, Pending
  <2> QED BY <2>1, <2>4 DEF ConnInv
<1>7. ASSUME NEW c \in Conn, Client(c)
      PROVE  ConnInv'
  BY <1>1, <1>7
  DEF Client, Open, Leave, Rejected, PostChannel, PostSource, Launch,
      UpdateChannel, UpdateSource, CanRequest
<1>8. ASSUME NEW k \in Conn, Poll(k)
      PROVE  ConnInv'
  BY <1>1, <1>8 DEF Poll, Transmit, HandleReply, CloseCall
<1>9. CASE Tick
  BY <1>1, <1>9 DEF Tick
<1> QED
  BY <1>1, <1>3, <1>4, <1>5, <1>6, <1>7, <1>8, <1>9
  DEF Next, Purge, Shutdown, vars, Attach, JanusDestroy,
      TaskManagerDestroy, Exit, Exited

-----------------------------------------------------------------------------
(* Where the program's knowledge of a mountpoint goes. *)

LEMMA AccountedIs ==
    ASSUME NEW m
    PROVE  Accounted(m) <=> \/ \E p \in PsAddr : Owns(p, m)
                            \/ \E k \in Conn : Carries(k, m)
BY DEF Accounted, Owns, Live, Carries, Holds, Pending

LEMMA AccountedNextIs ==
    ASSUME NEW m
    PROVE  Accounted(m)' <=> \/ \E p \in PsAddr : Owns(p, m)'
                             \/ \E k \in Conn : Carries(k, m)'
BY DEF Accounted, Owns, Live, Carries, Holds, Pending

\* Only the destruction loops take streamers away.
LEMMA LiveStays ==
    ASSUME TableInv, [Next]_vars
    PROVE  \/ Live \subseteq Live'
           \/ \E p \in PsAddr : PurgeOne(p) \/ DestroyOne(p)
<1> USE DEF TableInv
<1>1. ASSUME UNCHANGED ps
      PROVE  Live \subseteq Live'
  BY <1>1 DEF Live
<1>2. CASE Tick
  BY <1>2, TickStreamers
<1>3. ASSUME NEW p \in Live, phase = "running", phase' = phase,
             \/ Touch(p)
             \/ \E num \in ParticipantIds :
                   ps' = [ps EXCEPT ![p] = [@ EXCEPT !.age = 0, !.jid = num]]
      PROVE  Live \subseteq Live'
  BY <1>3, TouchRenews, SourceUpdateRenews DEF Renewed
<1>4. ASSUME NEW c \in Conn, NEW i \in Ids,
             \/ UpdateChannel(c, i)
             \/ \E num \in ParticipantIds : UpdateSource(c, i, num)
      PROVE  Live \subseteq Live'
  <2>1. phase = "running" /\ phase' = phase
    BY <1>4 DEF UpdateChannel, UpdateSource, CanRequest
  <2>2. \E p \in Live :
           \/ Touch(p)
           \/ \E num \in ParticipantIds :
                 ps' = [ps EXCEPT ![p] = [@ EXCEPT !.age = 0, !.jid = num]]
    BY <1>4 DEF UpdateChannel, UpdateSource, Named
  <2> QED BY <1>3, <2>1, <2>2
<1>5. ASSUME NEW c \in Conn, NEW i \in Ids, PostChannel(c, i) \/ PostSource(c, i)
      PROVE  Live \subseteq Live'
  BY <1>5, PostGrants DEF Granted, Added
<1>6. ASSUME NEW k \in Conn, Poll(k) \/ JanusServe(k)
      PROVE  Live \subseteq Live'
  <2>1. CASE Transmit(k) \/ CloseCall(k) \/ JanusServe(k)
    <3>1. UNCHANGED ps
      BY <2>1 DEF Transmit, CloseCall, JanusServe
    <3> QED BY <1>1, <3>1
  <2> QED BY <1>6, <2>1, ReplyKeepsLeases DEF Poll, LeasesKept
<1>7. ASSUME NEW c \in Conn, Client(c)
      PROVE  Live \subseteq Live'
  <2>1. CASE Open(c) \/ Leave(c) \/ Rejected(c)
    <3>1. UNCHANGED ps
      BY <2>1 DEF Open, Leave, Rejected
    <3> QED BY <1>1, <3>1
  <2> QED BY <1>4, <1>5, <1>7, <2>1 DEF Client
<1> QED
  BY <1>1, <1>2, <1>6, <1>7
  DEF Next, Purge, Shutdown, vars, Attach, PurgeStart, Signal, JanusDestroy,
      TaskManagerDestroy, Exit, Exited

\* A streamer that stays keeps its mountpoint, or an UPDATE of a channel
\* taken for a source puts the publisher's number in its place.
LEMMA OwnerKeeps ==
    ASSUME MountIds \cap ParticipantIds = {}, TableInv, AloneInv, FreshInv,
           [Next]_vars, NEW m \in MountIds, NEW p \in PsAddr, Owns(p, m),
           p \in Live'
    PROVE  Owns(p, m)' \/ TakenForSource(m)
<1>1. p \in Live /\ ps[p].jid = m /\ ~ps[p].hosted
  BY DEF Owns, FreshInv
<1>2. CASE StreamersStay
  <2>1. Gets(p, ps'[p].jid)
    BY <1>2 DEF StreamersStay
  <2>2. ASSUME NEW k \in Conn
        PROVE  ~Replied(k, p, ps'[p].jid)
    BY <1>1, ReplyIsFresh DEF Unset
  <2>3. CASE ps'[p].jid = ps[p].jid
    BY <1>1, <2>3 DEF Owns
  <2>4. CASE Republished(p, ps'[p].jid)
    BY <1>1, <2>4 DEF Republished, TakenForSource
  <2> QED BY <2>1, <2>2, <2>3, <2>4 DEF Gets
<1>3. ASSUME NEW c \in Conn, NEW i \in Ids, PostChannel(c, i) \/ PostSource(c, i)
      PROVE  Owns(p, m)'
  <2>1. PICK q \in FreePs : Added(q)
    BY <1>3, PostBegins DEF TableInv
  <2> QED BY <1>1, <2>1 DEF Added, Owns
<1> QED BY <1>2, <1>3, StreamerSteps

\* The destruction of a streamer passes its mountpoint to a request, but the
\* teardown destroys a room for a channel taken for a source.
LEMMA DisposeAccounts ==
    ASSUME "noconn" \notin Faults, TableInv, FreshInv, HandleInv, ConnInv,
           NEW p \in PsAddr, PurgeOne(p) \/ DestroyOne(p),
           NEW m \in mounts, Owns(p, m)
    PROVE  (\E k \in Conn : Carries(k, m)') \/ TakenForSource(m)
<1> USE DEF TableInv
<1>1. /\ phase \in {"purging", "destroying"} /\ p \in doomed /\ m \in MountIds
      /\ p \in Live /\ ps[p].jid = m /\ ~ps[p].hosted
  BY DEF PurgeOne, DestroyOne, Owns, FreshInv, TypeOK
<1>2. PICK cs : /\ Told(p, cs)
                /\ \/ phase = "destroying" /\ ps[p].source
                   \/ cs \in DestroyStreamingPoint(call, ps[p].jid)
  BY DisposeTells
<1>3. CASE phase = "destroying" /\ ps[p].source
  BY <1>1, <1>3 DEF TakenForSource
<1>4. CASE cs \in DestroyStreamingPoint(call, ps[p].jid)
  <2>1. "streaming" \in handles /\ m # None
    BY <1>1, StreamersAssumption DEF HandleInv
  <2> DEFINE r == NewCall("destroy_mount", None, None, m, None)
  <2>2. cs \in Connect(call, r)
    BY <1>1, <1>4, <2>1 DEF DestroyStreamingPoint, Request
  <2>3. r \in Call
    BY <1>1, ZeroAge DEF NewCall, Call, CallRecord, Ops, Creations
  <2>4. Holds(r, m)
    <3>1. r # None
      BY <2>3, NoneAssumption
    <3>2. r.num = m /\ r.op = "destroy_mount" /\ r.stage = "queued"
      BY DEF NewCall
    <3> HIDE DEF r
    <3> QED BY <3>1, <3>2 DEF Holds
  <2> HIDE DEF r
  <2>5. FreeConn # {}
    <3>1. IsFiniteSet(doomed)
      BY StreamersAssumption, FS_Subset DEF TypeOK
    <3>2. Cardinality(doomed) # 0 /\ Cardinality(doomed) \in Nat
      BY <1>1, <3>1, FS_CardinalityType, FS_EmptySet
    <3>3. Cardinality(FreeConn) >= Cardinality(doomed)
      BY <1>1 DEF ConnInv
    <3>4. Cardinality(FreeConn) # 0
      BY <3>2, <3>3, FreeConnFinite
    <3> QED BY <3>4, FS_EmptySet
  <2>6. PICK k \in FreeConn : cs = [call EXCEPT ![k] = r]
    BY <2>2, <2>5 DEF Connect
  <2>7. k \in Conn /\ cs[k] = r
    BY <2>6 DEF FreeConn, TypeOK
  <2>8. Holds(call'[k], m)
    BY <1>2, <2>4, <2>7, MarkedSame DEF Told, Holds, SameRequest
  <2> QED BY <2>7, <2>8 DEF Carries
<1> QED BY <1>2, <1>3, <1>4

-----------------------------------------------------------------------------
(* What becomes of a call that carries a mountpoint's number. *)

CarriersKeep == \A k \in Conn, m \in MountIds : Carries(k, m) => Carries(k, m)'

\* A request in a free place disturbs no other.
LEMMA RequestKeeps ==
    ASSUME TypeOK, NEW h, NEW r, call' \in Request(call, h, r)
    PROVE  CarriersKeep
<1>1. CASE call' = call
  BY <1>1 DEF CarriersKeep, Carries
<1>2. ASSUME NEW k \in Conn, call[k] = None, call' = [call EXCEPT ![k] = r]
      PROVE  CarriersKeep
  BY <1>2 DEF TypeOK, CarriersKeep, Carries, Holds
<1> QED BY <1>1, <1>2, RequestTakes

LEMMA ClientCarries ==
    ASSUME TableInv, NEW c \in Conn, Client(c)
    PROVE  CarriersKeep
<1> USE DEF TableInv
<1>1. ASSUME UNCHANGED call
      PROVE  CarriersKeep
  BY <1>1 DEF CarriersKeep, Carries
<1>2. ASSUME Leave(c)
      PROVE  CarriersKeep
  <2>1. call' = MarkGone(call, c) /\ call \in Calls
    BY <1>2 DEF Leave, TypeOK, Calls
  <2>2. \A k \in Conn : SameRequest(call'[k], call[k])
    BY <2>1, MarkedSame
  <2> QED BY <2>2 DEF CarriersKeep, Carries, Holds, SameRequest
<1>3. ASSUME NEW i \in Ids, PostChannel(c, i) \/ PostSource(c, i)
      PROVE  CarriersKeep
  <2>1. PICK p \in FreePs :
           call' \in CreateStreamingPoint(call, p, c) \cup CreateVideoroom(call, p, i, c)
    BY <1>3, PostLaunches DEF Launch
  <2> QED BY <2>1, RequestKeeps DEF CreateStreamingPoint, CreateVideoroom
<1>4. ASSUME NEW i \in Ids, NEW num \in ParticipantIds, UpdateSource(c, i, num)
      PROVE  CarriersKeep
  BY <1>1, <1>4, RequestKeeps DEF UpdateSource, ForwardRtp
<1> QED
  BY <1>1, <1>2, <1>3, <1>4 DEF Client, Open, Rejected, UpdateChannel

\* The number of a new mountpoint reaches the streamer it was made for, if
\* that one is still there.
LEMMA ReplyCarries ==
    ASSUME TableInv, PointersInv, NEW k \in Conn, HandleReply(k),
           NEW j \in Conn, NEW m \in MountIds, Carries(j, m)
    PROVE  \/ Carries(j, m)' \/ AnsweredLate(m)
           \/ \E p \in PsAddr : Owns(p, m)'
<1> USE DEF TableInv
<1>1. /\ phase = "running" /\ call[k] \in Call /\ call[k].stage = "answered"
      /\ \A n \in Conn \ {k} : call'[n] = call[n]
  BY DEF HandleReply, TypeOK
<1>2. CASE j # k
  BY <1>1, <1>2 DEF Carries
<1>3. CASE j = k /\ call[k].stale
  BY <1>1, <1>3 DEF Carries, Holds, AnsweredLate, Pending
<1>4. CASE j = k /\ ~call[k].stale
  <2>1. PICK p : p = call[k].ps
    OBVIOUS
  <2>2. call[k].op = "create_mount" /\ call[k].num = m /\ call[k] # None
    BY <1>1, <1>4 DEF Carries, Holds
  <2>3. p \in Live
    BY <1>1, <1>4, <2>1, <2>2
    DEF PointersInv, Points, Creation, Creations
  <2>4. p \in PsAddr /\ ps[p] \in PStreamer /\ m # None
    BY <2>3, StreamersAssumption DEF Live, TypeOK
  <2>5. ps' = [ps EXCEPT ![p].jid = m]
    BY <2>1, <2>2, <2>3, <2>4 DEF HandleReply, StoreReply
  <2> DEFINE x == [ps[p] EXCEPT !.jid = m]
  <2>6. x \in PStreamer
    BY <2>4 DEF PStreamer
  <2>7. x # None /\ x.jid = m
    BY <2>4, <2>6, NoneAssumption DEF PStreamer
  <2>8. ps' = [ps EXCEPT ![p] = x]
    BY <2>5
  <2> HIDE DEF x
  <2>9. Owns(p, m)'
    BY <2>4, <2>7, <2>8, StreamerSet
  <2> QED BY <2>4, <2>9
<1> QED BY <1>2, <1>3, <1>4

\* Janus destroys the mountpoint of the one request it serves by that.
LEMMA ServeCarries ==
    ASSUME TableInv, NEW k \in Conn, JanusServe(k),
           NEW j \in Conn, NEW m \in MountIds, Carries(j, m)
    PROVE  Carries(j, m)' \/ m \notin mounts'
<1>1. PICK n : JanusDoes(call[k], n)
  BY DEF JanusServe
<1>2. /\ \A i \in Conn \ {k} : call'[i] = call[i]
      /\ call[k].stage = "sent"
  BY DEF JanusServe, TableInv, TypeOK
<1>3. CASE j # k
  BY <1>2, <1>3 DEF Carries
<1>4. CASE j = k
  <2>1. call[k].op = "destroy_mount" /\ call[k].num = m
    BY <1>2, <1>4 DEF Carries, Holds
  <2> QED BY <1>1, <2>1 DEF JanusDoes
<1> QED BY <1>3, <1>4

\* A new mountpoint is known to the request that made it.
LEMMA ServeMakes ==
    ASSUME TableInv, NEW k \in Conn, JanusServe(k),
           NEW m \in mounts', m \notin mounts
    PROVE  \E j \in Conn : Carries(j, m)'
<1>1. PICK n \in MountIds \cup ParticipantIds \cup {None} :
         /\ JanusDoes(call[k], n)
         /\ call' = [call EXCEPT ![k] =
                       [@ EXCEPT !.stage = "answered", !.num = n]]
  BY DEF JanusServe
<1>2. m = n /\ call[k].op = "create_mount" /\ call[k] \in Call
  BY <1>1 DEF JanusDoes, JanusServe, TableInv, TypeOK
<1> DEFINE r == [call[k] EXCEPT !.stage = "answered", !.num = n]
<1>3. r \in Call
  BY <1>2 DEF Call, CallRecord
<1>4. r # None /\ r.op = "create_mount" /\ r.stage = "answered" /\ r.num = m
  BY <1>2, <1>3, NoneAssumption DEF Call, CallRecord
<1>5. call'[k] = r
  BY <1>1 DEF TableInv, TypeOK
<1> HIDE DEF r
<1> QED BY <1>4, <1>5 DEF Carries, Holds

LEMMA CarrierSteps ==
    ASSUME "drop" \notin Faults, TableInv, PointersInv, [Next]_vars, JanusAlive',
           NEW j \in Conn, NEW m \in MountIds, Carries(j, m)
    PROVE  \/ Carries(j, m)' \/ AnsweredLate(m) \/ m \notin mounts'
           \/ \E p \in PsAddr : Owns(p, m)'
<1> USE DEF TableInv
<1>1. CASE UNCHANGED call
  BY <1>1 DEF Carries
<1>2. CASE Tick
  BY <1>2, TickSame DEF Carries, Holds, SameRequest
<1>3. ASSUME NEW p \in PsAddr, PurgeOne(p) \/ DestroyOne(p)
      PROVE  Carries(j, m)'
  <2>1. PICK cs : Told(p, cs)
    BY <1>3, DisposeTells
  <2>2. Holds(call'[j], m) <=> Holds(cs[j], m)
    BY <2>1, MarkedSame DEF Told, Holds, SameRequest
  <2>3. cs[j] = call[j]
    <3>1. ASSUME NEW n \in FreeConn, NEW r, cs = [call EXCEPT ![n] = r]
          PROVE  cs[j] = call[j]
      BY <3>1 DEF TypeOK, FreeConn, ActiveConn, Carries, Holds
    <3> QED BY <2>1, <3>1 DEF Told
  <2> QED BY <2>2, <2>3 DEF Carries
<1>4. ASSUME NEW k \in Conn, Transmit(k)
      PROVE  Carries(j, m)'
  <2>1. call[k] \in Call /\ call[k].stage = "queued"
    BY <1>4 DEF Transmit, TypeOK
  <2> DEFINE r == [call[k] EXCEPT !.stage = "sent"]
  <2>2. r \in Call
    BY <2>1 DEF Call, CallRecord
  <2>3. /\ r # None /\ r.op = call[k].op /\ r.num = call[k].num
        /\ r.stage = "sent"
    BY <2>1, <2>2, NoneAssumption DEF Call, CallRecord
  <2>4. call' = [call EXCEPT ![k] = r]
    BY <1>4 DEF Transmit
  <2> HIDE DEF r
  <2>5. Carries(k, m) => Holds(r, m)
    BY <2>1, <2>3 DEF Carries, Holds
  <2> QED BY <2>4, <2>5, CallSet
<1>5. ASSUME NEW k \in Conn, CloseCall(k)
      PROVE  Carries(j, m)'
  <2>1. call[k].stage = "closing" /\ call' = [call EXCEPT ![k] = None]
    BY <1>5 DEF CloseCall, JanusAlive
  <2>2. j # k
    BY <2>1 DEF Carries, Holds
  <2> QED BY <2>1, <2>2, CallSet
<1>6. ASSUME NEW c \in Conn, Client(c)
      PROVE  Carries(j, m)'
  BY <1>6, ClientCarries DEF CarriersKeep
<1> QED
  BY <1>1, <1>2, <1>3, <1>4, <1>5, <1>6, ReplyCarries, ServeCarries
  DEF Next, Poll, Purge, Shutdown, vars, Attach, PurgeStart, Signal,
      JanusDestroy, TaskManagerDestroy, Exit, Exited

LEMMA MountSteps ==
    ASSUME [Next]_vars
    PROVE  mounts' = mounts \/ \E k \in Conn : JanusServe(k)
BY DEF Next, Client, Poll, Purge, Shutdown, Open, Leave, PostChannel, PostSource,
       Launch, Rejected, UpdateChannel, UpdateSource, Transmit, HandleReply,
       CloseCall, Attach, Tick, PurgeStart, PurgeOne, Signal, DestroyOne,
       JanusDestroy, TaskManagerDestroy, Exit, Exited, vars

MountsInv == PointersInv /\ AloneInv /\ FreshInv /\ HandleInv /\ ConnInv

LEMMA AccountStep ==
    ASSUME Faults \cap {"noconn", "drop", "reuse"} = {},
           MountIds \cap ParticipantIds = {},
           TableInv, TypeOK', MountsInv, [Next]_vars, JanusAlive',
           NEW m \in mounts', m \in mounts => Accounted(m)
    PROVE  Accounted(m)' \/ AnsweredLate(m) \/ TakenForSource(m)
<1>1. m \in MountIds
  BY DEF TypeOK
<1>2. CASE m \notin mounts
  BY <1>2, MountSteps, ServeMakes, AccountedNextIs
<1>3. ASSUME NEW p \in PsAddr, Owns(p, m), m \in mounts
      PROVE  Accounted(m)' \/ TakenForSource(m)
  <2>1. CASE p \in Live'
    BY <1>1, <1>3, <2>1, OwnerKeeps, AccountedNextIs DEF MountsInv
  <2>2. CASE p \notin Live'
    <3>1. PICK q \in PsAddr : PurgeOne(q) \/ DestroyOne(q)
      BY <1>3, <2>2, LiveStays DEF Owns
    <3>2. Removed(q)
      BY <3>1, DisposeTells, DisposeRemoves DEF PurgeOne, DestroyOne, TableInv
    <3>3. p = q
      BY <1>3, <2>2, <3>2 DEF Removed, Owns
    <3> QED BY <1>3, <3>1, <3>3, DisposeAccounts, AccountedNextIs DEF MountsInv
  <2> QED BY <2>1, <2>2
<1>4. ASSUME NEW k \in Conn, Carries(k, m)
      PROVE  Accounted(m)' \/ AnsweredLate(m)
  BY <1>1, <1>4, CarrierSteps, AccountedNextIs DEF MountsInv
<1> QED BY <1>2, <1>3, <1>4, AccountedIs

\* pstreamer_manager_destroy_streamer: no mountpoint is forgotten inside
\* Janus, also when it refuses requests or is slow, as long as connections to
\* it are to be had and last until the reply, and malloc returns no address a
\* callback still holds; but one is whose reply comes after the purge took
\* its streamer, and one whose channel has a port that reads as 0, by an
\* UPDATE of it as a source or by the teardown.
THEOREM MountsAccountedFor ==
    ASSUME Faults \cap {"noconn", "drop", "reuse"} = {},
           MountIds \cap ParticipantIds = {}
    PROVE  Spec => MountsAccounted
<1> DEFINE Known == JanusAlive' =>
              \A m \in mounts' :
                  (m \in mounts => Accounted(m))
                      => Accounted(m)' \/ AnsweredLate(m) \/ TakenForSource(m)
<1>1. Init => MountsInv
  BY DEF Init, MountsInv, PointersInv, AloneInv, FreshInv, HandleInv, ConnInv,
         Creation, OpenMount, Live
<1>2. TableInv /\ TableInv' /\ MountsInv /\ [Next]_vars => MountsInv'
  <2> SUFFICES ASSUME TableInv, TableInv', MountsInv, [Next]_vars
               PROVE  MountsInv'
    OBVIOUS
  <2>1. TypeOK'
    BY DEF TableInv
  <2>2. PointersInv'
    BY <2>1, PointersStep DEF MountsInv
  <2>3. AloneInv'
    BY AloneStep DEF MountsInv
  <2>4. FreshInv'
    BY <2>2, FreshStep DEF MountsInv
  <2>5. HandleInv'
    BY HandleStep DEF MountsInv
  <2>6. ConnInv'
    BY <2>1, ConnStep DEF MountsInv
  <2> QED BY <2>2, <2>3, <2>4, <2>5, <2>6 DEF MountsInv
<1>3. TableInv /\ TableInv' /\ MountsInv /\ [Next]_vars => [Known]_vars
  BY AccountStep DEF TableInv
<1> QED BY TableInductive, <1>1, <1>2, <1>3, PTL DEF Spec, MountsAccounted

===============================================================================
