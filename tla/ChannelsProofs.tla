--------------------------- MODULE ChannelsProofs ---------------------------
(***************************************************************************)
(* The channel list for every number of streamers, nodes, names and lines  *)
(* of the file: its types, and that neither the refresh nor an edit of the *)
(* file takes a channel out under a source or under a client that waits.   *)
(***************************************************************************)
EXTENDS Channels, PortsProofs

-----------------------------------------------------------------------------
(* The addresses of streamers. *)

LEMMA ZeroNumber == 0 \in Numbers
BY PortsAssumption, SMT DEF Numbers

LEMMA InitialPortNumber == InitialPort \in Nat /\ Stride \in Nat
BY InitialPortOdd DEF Stride

\* A new streamer gets a port of the 16 bit space.
LEMMA AssignPortNumber ==
    ASSUME Live \subseteq Ids
    PROVE  AssignPort({ps[k].port : k \in Live}) \in Numbers
<1> DEFINE used == {ps[k].port : k \in Live}
           f == [k \in Live |-> ps[k].port]
<1>1. IsFiniteSet(Live) /\ Cardinality(Live) <= Cardinality(Ids)
  BY ChannelsAssumption, FS_Subset DEF Live
<1>2. f \in Surjection(Live, used)
  BY DEF Surjection
<1>3. IsFiniteSet(used) /\ Cardinality(used) <= Cardinality(Live)
  <2> HIDE DEF f, used
  <2> QED BY <1>1, <1>2, FS_Surjection
<1>4. /\ Cardinality(used) \in Nat
      /\ Cardinality(Live) \in Nat
      /\ Cardinality(Ids) \in Nat
  <2> HIDE DEF used
  <2> QED BY <1>1, <1>3, ChannelsAssumption, FS_CardinalityType
<1>5. InitialPort + Stride * Cardinality(used) < PortSpace
  <2> HIDE DEF used
  <2> QED
    BY <1>1, <1>3, <1>4, InitialPortOdd, PortsAssumption,
       ChannelsAssumption, SMT
    DEF Stride
<1>6. PICK k \in 0..Cardinality(used) :
         AssignPort(used) = InitialPort + Stride * k
  <2> HIDE DEF used
  <2> QED BY <1>3, <1>5, AssignPortFresh
<1>7. AssignPort(used) \in Numbers
  <2> HIDE DEF used
  <2> QED
    BY <1>4, <1>5, <1>6, InitialPortOdd, PortsAssumption, SMT
    DEF Stride, Numbers
<1> QED BY <1>7

LEMMA AtoiNumber ==
    ASSUME NEW t \in Numbers \cup Odd
    PROVE  Atoi(t) \in Numbers
BY ChannelsAssumption DEF Atoi

LEMMA SourceKeyType ==
    ASSUME NEW s \in Streamer
    PROVE  SourceKey(s) \in Keys
BY ChannelsAssumption DEF SourceKey, Streamer, Keys

-----------------------------------------------------------------------------
(* What the operations of the bucket leave in a list. *)

LEMMA InsertKeeps ==
    ASSUME NEW l, IsListing(l), NEW key \in Keys, NEW name \in Names
    PROVE  /\ IsListing(Insert(l, key, name))
           /\ DOMAIN Insert(l, key, name) = DOMAIN l \cup {key}
BY DEF Insert, IsListing

LEMMA EmptyListing == IsListing(<<>>) /\ DOMAIN <<>> = {}
BY DEF IsListing

LEMMA LoadLocalKeeps ==
    ASSUME TypeOK, NEW l, IsListing(l)
    PROVE  /\ IsListing(LoadLocal(l))
           /\ DOMAIN LoadLocal(l) =
                DOMAIN l \cup {SourceKey(ps[i]) : i \in NamedSources(ps)}
<1> DEFINE sources == NamedSources(ps)
           At(k) == {i \in sources : SourceKey(ps[i]) = k}
           D == DOMAIN l \cup {SourceKey(ps[i]) : i \in sources}
           v(k) == IF At(k) = {} THEN l[k]
                   ELSE ps[CHOOSE i \in At(k) : TRUE].name
<1>1. LoadLocal(l) = [k \in D |-> v(k)]
  BY DEF LoadLocal
<1>2. \A i \in sources : ps[i] \in Streamer /\ ps[i].name \in Names
  BY DEF TypeOK, NamedSources, Live, Streamer
<1>3. D \subseteq Keys
  BY <1>2, SourceKeyType DEF IsListing
<1>4. \A k \in D : v(k) \in Names
  <2> TAKE k \in D
  <2>1. CASE At(k) = {}
    BY <2>1 DEF IsListing
  <2>2. CASE At(k) # {}
    <3>1. (CHOOSE i \in At(k) : TRUE) \in At(k)
      BY <2>2
    <3>2. (CHOOSE i \in At(k) : TRUE) \in sources
      BY <3>1
    <3> QED BY <3>2, <2>2, <1>2
  <2> QED BY <2>1, <2>2
<1> HIDE DEF D, v
<1>5. DOMAIN LoadLocal(l) = D
  BY <1>1
<1>6. LoadLocal(l) \in [D -> Names]
  BY <1>1, <1>4
<1>7. IsListing(LoadLocal(l))
  BY <1>3, <1>5, <1>6 DEF IsListing
<1> QED BY <1>5, <1>7 DEF D

LEMMA LastLine ==
    ASSUME NEW S, S \subseteq Nat, S # {}, NEW b \in Nat, S \subseteq 1..b
    PROVE  \E n \in S : \A m \in S : m <= n
<1> DEFINE back == {b - m : m \in S}
<1>1. back \subseteq Nat /\ back # {}
  <2>1. \A m \in S : b - m \in Nat
    <3> HIDE DEF back
    <3>1. \A m \in S : m \in 1..b
      OBVIOUS
    <3> QED BY <3>1, SMT
  <2> QED BY <2>1, Zenon
<1> HIDE DEF back
<1>2. PICK k \in back : \A j \in back : <<j, k>> \notin OpToRel(<, Nat)
  BY <1>1, WFMin, NatLessThanWellFounded
<1>3. \A j \in back : k <= j
  <2>1. \A j \in back : ~(j < k)
    BY <1>1, <1>2 DEF OpToRel
  <2> QED BY <1>1, <2>1, SMT
<1>4. PICK n \in S : k = b - n
  BY DEF back
<1>5. \A m \in S : b - m \in back
  BY DEF back
<1>6. \A m \in S : m <= n
  BY <1>3, <1>4, <1>5, SMT
<1> QED BY <1>6

LEMMA LoadFileKeeps ==
    ASSUME TypeOK, NEW l, IsListing(l)
    PROVE  /\ IsListing(LoadFile(l))
           /\ DOMAIN LoadFile(l) = DOMAIN l \cup {k \in Keys : InFile(file, k)}
<1>1. CASE file = None
  BY <1>1 DEF LoadFile, InFile
<1>2. CASE file # None
  <2> DEFINE At(k) == {n \in DOMAIN file : file[n].key = k}
             Last(k) == CHOOSE n \in At(k) : \A m \in At(k) : m <= n
             D == DOMAIN l \cup {file[n].key : n \in DOMAIN file}
             v(k) == IF At(k) = {} THEN l[k] ELSE file[Last(k)].name
  <2>1. LoadFile(l) = [k \in D |-> v(k)]
    BY <1>2 DEF LoadFile
  <2>2. /\ file \in Seq(Lines)
        /\ DOMAIN file = 1..Len(file) /\ Len(file) \in Nat
    BY <1>2 DEF TypeOK
  <2>3. \A n \in DOMAIN file : file[n].key \in Keys /\ file[n].name \in Names
    BY <2>2, ChannelsAssumption
  <2>4. D \subseteq Keys
    BY <2>3 DEF IsListing
  <2>5. \A k \in D : v(k) \in Names
    <3> TAKE k \in D
    <3>1. CASE At(k) = {}
      BY <3>1 DEF IsListing
    <3>2. CASE At(k) # {}
      <4>1. At(k) \subseteq 1..Len(file) /\ At(k) \subseteq Nat
        BY <2>2, SMT
      <4>2. \E n \in At(k) : \A m \in At(k) : m <= n
        <5> HIDE DEF At
        <5> QED BY <3>2, <4>1, <2>2, LastLine
      <4>3. Last(k) \in At(k)
        <5> HIDE DEF At
        <5> QED BY <4>2
      <4>4. Last(k) \in DOMAIN file
        <5> HIDE DEF Last
        <5> QED BY <4>3
      <4> QED BY <4>4, <3>2, <2>3
    <3> QED BY <3>1, <3>2
  <2> HIDE DEF v
  <2>6. DOMAIN LoadFile(l) = D
    BY <2>1
  <2>7. IsListing(LoadFile(l))
    <3> HIDE DEF D
    <3>1. LoadFile(l) \in [D -> Names]
      BY <2>1, <2>5
    <3> QED BY <2>4, <2>6, <3>1 DEF IsListing
  <2>8. {file[n].key : n \in DOMAIN file} = {k \in Keys : InFile(file, k)}
    BY <1>2, <2>3 DEF InFile
  <2> QED BY <2>6, <2>7, <2>8
<1> QED BY <1>1, <1>2

-----------------------------------------------------------------------------
(* The inductive invariant. *)

\* A source with a name is listed, and so is the channel of a client that
\* waits, which the next refresh will find again.
ListInv ==
    /\ \A i \in NamedSources(ps) : SourceKey(ps[i]) \in DOMAIN list
    /\ \A i \in provided :
          /\ SourceKey(ps[i]) \in DOMAIN list
          /\ Provided(ps, file, SourceKey(ps[i]))

ChannelsInv == TypeOK /\ ListInv

\* A request keeps its mark only while its channel is provided.
LEMMA StillProvidedType ==
    ASSUME TypeOK, provided' = StillProvided,
           \A i \in DOMAIN ps \cap DOMAIN ps' :
              ps[i].waiting => ps'[i].waiting
    PROVE  /\ provided' \subseteq provided \cap DOMAIN ps'
           /\ provided' \subseteq {i \in DOMAIN ps' : ps'[i].waiting}
           /\ \A i \in provided' : Provided(ps', file', SourceKey(ps'[i]))
BY DEF StillProvided, TypeOK, Live

LEMMA RefreshType ==
    ASSUME TypeOK, NEW saved \in BOOLEAN, Refresh(saved)
    PROVE  TypeOK'
<1>1. IsListing(LoadLocal(<<>>))
  BY EmptyListing, LoadLocalKeeps
<1>2. IsListing(list')
  BY <1>1, LoadFileKeeps DEF Refresh
<1>3. IsListing(out')
  BY <1>1 DEF Refresh, Saved, TypeOK
<1>4. provided' \subseteq {i \in DOMAIN ps' : ps'[i].waiting}
  BY StillProvidedType DEF Refresh
<1> QED BY <1>2, <1>3, <1>4 DEF TypeOK, Live, IsListing, Refresh

\* What Launch leaves of the streamers.
LEMMA LaunchType ==
    ASSUME TypeOK, NEW i \in Ids, i \notin Live, NEW host \in Hosts,
           NEW src \in Numbers, NEW waits \in BOOLEAN,
           Launch(i, host, src, waits)
    PROVE  /\ DOMAIN ps' = Live \cup {i}
           /\ ps' \in [Live \cup {i} -> Streamer]
           /\ \A j \in Live : ps'[j] = ps[j]
           /\ ps'[i].name = None /\ ps'[i].waiting = waits
<1> DEFINE port == AssignPort({ps[k].port : k \in Live})
           new == [port |-> port, host |-> host, src |-> src,
                   name |-> None, waiting |-> waits]
<1>1. port \in Numbers
  BY AssignPortNumber DEF TypeOK
<1>2. ps' = [j \in Live \cup {i} |-> IF j = i THEN new ELSE ps[j]]
  BY DEF Launch
<1> HIDE DEF port
<1>3. new \in Streamer
  BY <1>1 DEF Streamer
<1>4. new.name = None /\ new.waiting = waits
  OBVIOUS
<1> HIDE DEF new
<1> QED BY <1>2, <1>3, <1>4 DEF TypeOK

LEMMA PostType ==
    ASSUME TypeOK, NEW i \in Ids
    PROVE  /\ \A key \in DOMAIN list : PostChannel(i, key) => TypeOK'
           /\ PostSource(i) => TypeOK'
<1>1. ASSUME NEW key \in DOMAIN list, PostChannel(i, key) PROVE TypeOK'
  <2>1. key[1] \in Hosts /\ Atoi(key[2]) \in Numbers
    BY AtoiNumber DEF TypeOK, IsListing, Keys
  <2>2. i \notin Live /\ Launch(i, key[1], Atoi(key[2]), TRUE)
    BY <1>1 DEF PostChannel
  <2>3. /\ DOMAIN ps' = Live \cup {i}
        /\ ps' \in [Live \cup {i} -> Streamer]
        /\ \A j \in Live : ps'[j] = ps[j]
        /\ ps'[i].waiting
    BY <2>1, <2>2, LaunchType
  <2>4. provided' \subseteq {j \in DOMAIN ps' : ps'[j].waiting}
    BY <1>1, <2>3 DEF PostChannel, TypeOK, Live
  <2> QED BY <1>1, <2>3, <2>4 DEF PostChannel, TypeOK, Live, IsListing
<1>2. ASSUME PostSource(i) PROVE TypeOK'
  <2>1. i \notin Live /\ Launch(i, Me, 0, FALSE)
    BY <1>2 DEF PostSource
  <2>2. /\ DOMAIN ps' = Live \cup {i}
        /\ ps' \in [Live \cup {i} -> Streamer]
        /\ \A j \in Live : ps'[j] = ps[j]
    BY <2>1, ZeroNumber, ChannelsAssumption, LaunchType
  <2>3. provided' \subseteq {j \in DOMAIN ps' : ps'[j].waiting}
    BY <1>2, <2>1, <2>2 DEF PostSource, TypeOK, Live
  <2> QED BY <1>2, <2>2, <2>3 DEF PostSource, TypeOK, Live, IsListing
<1> QED BY <1>1, <1>2

\* A name changes nothing else of a streamer, its address least of all.
LEMMA NameType ==
    ASSUME TypeOK, NEW i \in Live, NEW name \in Names,
           ps' = SetDisplayName(i, name)
    PROVE  /\ ps' \in [Live -> Streamer] /\ DOMAIN ps' = Live
           /\ \A j \in Live : /\ ps'[j].waiting = ps[j].waiting
                              /\ SourceKey(ps'[j]) = SourceKey(ps[j])
                              /\ IsSource(ps'[j]) = IsSource(ps[j])
                              /\ j # i => ps'[j] = ps[j]
           /\ ps'[i].name = name
<1>1. ps' = [ps EXCEPT ![i] = [ps[i] EXCEPT !.name = name]]
  BY DEF SetDisplayName
<1>2. ps[i] \in Streamer
  BY DEF TypeOK
<1>3. [ps[i] EXCEPT !.name = name] \in Streamer
  BY <1>2 DEF Streamer
<1>4. ps' \in [Live -> Streamer] /\ DOMAIN ps' = Live
  BY <1>1, <1>3 DEF TypeOK
<1>5. ps'[i] = [ps[i] EXCEPT !.name = name]
  BY <1>1 DEF TypeOK
<1>6. /\ ps'[i].name = name /\ ps'[i].waiting = ps[i].waiting
      /\ ps'[i].port = ps[i].port /\ ps'[i].host = ps[i].host
      /\ ps'[i].src = ps[i].src
  BY <1>5, <1>2 DEF Streamer
<1>7. \A j \in Live : j # i => ps'[j] = ps[j]
  BY <1>1 DEF TypeOK
<1> QED BY <1>4, <1>6, <1>7 DEF SourceKey, IsSource

LEMMA RenameType ==
    ASSUME TypeOK, NEW i \in Ids, NEW name \in Display, Rename(i, name)
    PROVE  TypeOK'
<1>1. i \in Live /\ name \in Names /\ ps' = SetDisplayName(i, name)
  BY ChannelsAssumption DEF Rename
<1>2. /\ ps' \in [Live -> Streamer] /\ DOMAIN ps' = Live
      /\ \A j \in Live : ps'[j].waiting = ps[j].waiting
  BY <1>1, NameType
<1>3. IsListing(list')
  <2>1. SourceKey(ps[i]) \in Keys
    BY <1>1, SourceKeyType DEF TypeOK
  <2> QED BY <1>1, <2>1, InsertKeeps DEF Rename, TypeOK
<1>4. provided' \subseteq {j \in DOMAIN ps' : ps'[j].waiting}
  BY <1>2, StillProvidedType DEF Rename, Live
<1> QED BY <1>2, <1>3, <1>4 DEF Rename, TypeOK, Live, IsListing

\* The end of a request leaves name and address of its streamer alone.
LEMMA AnswerKeeps ==
    ASSUME TypeOK, NEW i \in Ids, AnswerChannel(i)
    PROVE  /\ ps' \in [Live -> Streamer] /\ DOMAIN ps' = Live
           /\ \A j \in Live : /\ j # i => ps'[j] = ps[j]
                              /\ SourceKey(ps'[j]) = SourceKey(ps[j])
                              /\ IsSource(ps'[j]) = IsSource(ps[j])
                              /\ ps'[j].name = ps[j].name
<1>1. /\ i \in Live
      /\ ps' = [ps EXCEPT ![i] = [ps[i] EXCEPT !.waiting = FALSE]]
  BY DEF AnswerChannel
<1>2. ps[i] \in Streamer
  BY <1>1 DEF TypeOK
<1>3. [ps[i] EXCEPT !.waiting = FALSE] \in Streamer
  BY <1>2 DEF Streamer
<1>4. ps' \in [Live -> Streamer] /\ DOMAIN ps' = Live
  BY <1>1, <1>3 DEF TypeOK
<1>5. ps'[i] = [ps[i] EXCEPT !.waiting = FALSE]
  BY <1>1 DEF TypeOK
<1>6. /\ ps'[i].name = ps[i].name /\ ps'[i].port = ps[i].port
      /\ ps'[i].host = ps[i].host /\ ps'[i].src = ps[i].src
  BY <1>5, <1>2 DEF Streamer
<1>7. \A j \in Live : j # i => ps'[j] = ps[j]
  BY <1>1 DEF TypeOK
<1> QED BY <1>4, <1>6, <1>7 DEF SourceKey, IsSource

LEMMA AnswerType ==
    ASSUME TypeOK, NEW i \in Ids, AnswerChannel(i)
    PROVE  TypeOK'
<1>1. provided' \subseteq {j \in DOMAIN ps' : ps'[j].waiting}
  BY AnswerKeeps DEF AnswerChannel, TypeOK, Live
<1> QED BY <1>1, AnswerKeeps DEF AnswerChannel, TypeOK, Live, IsListing

LEMMA DestroyType ==
    ASSUME TypeOK, NEW i \in Ids, Destroy(i)
    PROVE  TypeOK'
<1>1. /\ ps' \in [Live \ {i} -> Streamer] /\ DOMAIN ps' = Live \ {i}
      /\ \A j \in Live \ {i} : ps'[j] = ps[j]
  BY DEF Destroy, TypeOK
<1>2. provided' \subseteq {j \in DOMAIN ps' : ps'[j].waiting}
  BY <1>1, StillProvidedType DEF Destroy, Live
<1> QED BY <1>1, <1>2 DEF Destroy, TypeOK, Live, IsListing

LEMMA EditType ==
    ASSUME TypeOK, Edit
    PROVE  TypeOK'
<1>1. file' = None \/ file' \in Seq(Lines)
  <2>1. ASSUME file # None, NEW l \in Lines, file' = Append(file, l)
        PROVE  file' \in Seq(Lines)
    BY <2>1 DEF TypeOK
  <2>2. <<>> \in Seq(Lines)
    OBVIOUS
  <2> QED BY <2>1, <2>2 DEF Edit
<1>2. provided' \subseteq {j \in DOMAIN ps' : ps'[j].waiting}
  BY StillProvidedType DEF Edit
<1> QED BY <1>1, <1>2 DEF Edit, TypeOK, Live, IsListing

LEMMA RestartType ==
    ASSUME TypeOK, Restart
    PROVE  TypeOK'
<1>1. DOMAIN ps' = {} /\ ps' \in [{} -> Streamer]
  BY DEF Restart
<1>2. IsListing(list')
  BY EmptyListing DEF Restart
<1> QED BY <1>1, <1>2 DEF Restart, TypeOK, Live, IsListing

LEMMA InitType == Init => TypeOK
<1> SUFFICES ASSUME Init PROVE TypeOK
  OBVIOUS
<1>1. file = None \/ file \in Seq(Lines)
  <2>1. \A l \in Lines : <<l>> \in Seq(Lines)
    OBVIOUS
  <2> QED BY <2>1 DEF Init
<1>2. IsListing(list) /\ IsListing(out)
  BY EmptyListing DEF Init
<1> QED BY <1>1, <1>2 DEF Init, TypeOK, Live

LEMMA StepType == TypeOK /\ [Next]_vars => TypeOK'
<1> SUFFICES ASSUME TypeOK, [Next]_vars PROVE TypeOK'
  OBVIOUS
<1>1. CASE UNCHANGED vars
  BY <1>1 DEF vars, TypeOK, Live, IsListing
<1>2. CASE \E saved \in BOOLEAN : Refresh(saved)
  BY <1>2, RefreshType
<1>3. ASSUME NEW i \in Ids,
             \/ \E key \in DOMAIN list : PostChannel(i, key)
             \/ PostSource(i)
             \/ \E name \in Display : Rename(i, name)
             \/ AnswerChannel(i) \/ Destroy(i)
      PROVE  TypeOK'
  BY <1>3, PostType, RenameType, AnswerType, DestroyType
<1>4. CASE Edit \/ Restart
  BY <1>4, EditType, RestartType
<1> QED BY <1>1, <1>2, <1>3, <1>4 DEF Next

\* The state of the channel list keeps its types: whatever text a client
\* sends as a port, what is stored is a 16 bit number.
THEOREM ChannelTypes == Spec => []TypeOK
BY InitType, StepType, PTL DEF Spec

-----------------------------------------------------------------------------
(* No step takes out what must stay. *)

LEMMA RefreshLists ==
    ASSUME ChannelsInv, NEW saved \in BOOLEAN, Refresh(saved)
    PROVE  ListInv'
<1> USE DEF ChannelsInv
<1> DEFINE local == {SourceKey(ps[i]) : i \in NamedSources(ps)}
           filed == {k \in Keys : InFile(file, k)}
<1>1. IsListing(LoadLocal(<<>>)) /\ DOMAIN LoadLocal(<<>>) = local
  BY EmptyListing, LoadLocalKeeps
<1>2. DOMAIN list' = local \cup filed
  BY <1>1, LoadFileKeeps DEF Refresh
<1>3. /\ provided' \subseteq DOMAIN ps'
      /\ \A i \in provided' : Provided(ps', file', SourceKey(ps'[i]))
  BY StillProvidedType DEF Refresh
<1>4. \A i \in provided' : SourceKey(ps'[i]) \in DOMAIN list'
  <2> TAKE i \in provided'
  <2>1. ps'[i] \in Streamer
    BY <1>3 DEF TypeOK, Live, Refresh
  <2>2. SourceKey(ps'[i]) \in Keys
    BY <2>1, SourceKeyType
  <2> QED BY <1>2, <1>3, <2>2 DEF Provided, Refresh
<1>5. \A i \in NamedSources(ps') : SourceKey(ps'[i]) \in DOMAIN list'
  BY <1>2 DEF Refresh
<1> QED BY <1>3, <1>4, <1>5 DEF ListInv

\* A new streamer has no name yet, and all others are as before.
LEMMA LaunchSources ==
    ASSUME TypeOK, NEW i \in Ids, i \notin Live, NEW host \in Hosts,
           NEW src \in Numbers, NEW waits \in BOOLEAN,
           Launch(i, host, src, waits)
    PROVE  /\ NamedSources(ps') = NamedSources(ps)
           /\ \A j \in NamedSources(ps) : ps'[j] = ps[j]
           /\ \A k \in Keys : Provided(ps, file, k) => Provided(ps', file, k)
<1>1. /\ DOMAIN ps' = Live \cup {i}
      /\ \A j \in Live : ps'[j] = ps[j]
      /\ ps'[i].name = None
  BY LaunchType
<1>2. NamedSources(ps') = NamedSources(ps)
  BY <1>1 DEF NamedSources, Live
<1>3. \A j \in NamedSources(ps) : ps'[j] = ps[j]
  BY <1>1 DEF NamedSources, Live
<1> QED BY <1>2, <1>3 DEF Provided

LEMMA PostLists ==
    ASSUME ChannelsInv, NEW i \in Ids
    PROVE  /\ \A key \in DOMAIN list : PostChannel(i, key) => ListInv'
           /\ PostSource(i) => ListInv'
<1> USE DEF ChannelsInv
<1>0. \A j \in provided : j \in Live /\ SourceKey(ps[j]) \in Keys
  BY SourceKeyType DEF TypeOK
<1>1. ASSUME NEW key \in DOMAIN list, PostChannel(i, key) PROVE ListInv'
  <2>1. key \in Keys /\ key[1] \in Hosts /\ Atoi(key[2]) \in Numbers
    BY AtoiNumber DEF TypeOK, IsListing, Keys
  <2>2. i \notin Live /\ Launch(i, key[1], Atoi(key[2]), TRUE)
    BY <1>1 DEF PostChannel
  <2>3. \A j \in Live : ps'[j] = ps[j]
    BY <2>1, <2>2, LaunchType
  <2>4. /\ NamedSources(ps') = NamedSources(ps)
        /\ \A j \in NamedSources(ps) : ps'[j] = ps[j]
        /\ \A k \in Keys : Provided(ps, file, k) => Provided(ps', file, k)
    BY <2>1, <2>2, LaunchSources
  <2>5. list' = list /\ file' = file
    BY <1>1 DEF PostChannel
  <2>6. \A j \in provided' :
           \/ j \in provided
           \/ /\ j = i /\ SourceKey(ps'[i]) = key
              /\ Provided(ps, file, key)
    BY <1>1 DEF PostChannel
  <2>7. \A j \in provided' : /\ SourceKey(ps'[j]) \in DOMAIN list
                             /\ Provided(ps', file, SourceKey(ps'[j]))
    BY <1>0, <2>1, <2>3, <2>4, <2>6 DEF ListInv
  <2> QED BY <2>4, <2>5, <2>7 DEF ListInv
<1>2. ASSUME PostSource(i) PROVE ListInv'
  <2>1. i \notin Live /\ Launch(i, Me, 0, FALSE)
    BY <1>2 DEF PostSource
  <2>2. \A j \in Live : ps'[j] = ps[j]
    BY <2>1, ZeroNumber, ChannelsAssumption, LaunchType
  <2>3. /\ NamedSources(ps') = NamedSources(ps)
        /\ \A j \in NamedSources(ps) : ps'[j] = ps[j]
        /\ \A k \in Keys : Provided(ps, file, k) => Provided(ps', file, k)
    BY <2>1, ZeroNumber, ChannelsAssumption, LaunchSources
  <2>4. list' = list /\ file' = file /\ provided' = provided
    BY <1>2 DEF PostSource
  <2>5. \A j \in provided : /\ SourceKey(ps'[j]) \in DOMAIN list
                            /\ Provided(ps', file, SourceKey(ps'[j]))
    BY <1>0, <2>2, <2>3 DEF ListInv
  <2> QED BY <2>3, <2>4, <2>5 DEF ListInv
<1> QED BY <1>1, <1>2

LEMMA RenameLists ==
    ASSUME ChannelsInv, NEW i \in Ids, NEW name \in Display,
           Rename(i, name)
    PROVE  ListInv'
<1> USE DEF ChannelsInv
<1>1. i \in Live /\ name \in Names /\ ps' = SetDisplayName(i, name)
  BY ChannelsAssumption DEF Rename
<1>2. /\ DOMAIN ps' = Live
      /\ \A j \in Live : /\ ps'[j].waiting = ps[j].waiting
                         /\ SourceKey(ps'[j]) = SourceKey(ps[j])
                         /\ IsSource(ps'[j]) = IsSource(ps[j])
                         /\ j # i => ps'[j] = ps[j]
  BY <1>1, NameType
<1>3. DOMAIN list' = DOMAIN list \cup {SourceKey(ps[i])}
  <2>1. SourceKey(ps[i]) \in Keys
    BY <1>1, SourceKeyType DEF TypeOK
  <2> QED BY <1>1, <2>1, InsertKeeps DEF Rename, TypeOK
<1>4. NamedSources(ps') \subseteq NamedSources(ps) \cup {i}
  BY <1>2 DEF NamedSources, Live
<1>5. \A j \in NamedSources(ps') : SourceKey(ps'[j]) \in DOMAIN list'
  BY <1>1, <1>2, <1>3, <1>4 DEF ListInv, NamedSources, Live
<1>6. /\ provided' \subseteq provided \cap DOMAIN ps'
      /\ \A j \in provided' : Provided(ps', file', SourceKey(ps'[j]))
  BY <1>2, StillProvidedType DEF Rename, Live
<1>7. \A j \in provided' : SourceKey(ps'[j]) \in DOMAIN list'
  BY <1>2, <1>3, <1>6 DEF ListInv
<1> QED BY <1>5, <1>6, <1>7 DEF ListInv

LEMMA AnswerLists ==
    ASSUME ChannelsInv, NEW i \in Ids, AnswerChannel(i)
    PROVE  ListInv'
<1> USE DEF ChannelsInv
<1>1. /\ DOMAIN ps' = Live
      /\ \A j \in Live : /\ SourceKey(ps'[j]) = SourceKey(ps[j])
                         /\ IsSource(ps'[j]) = IsSource(ps[j])
                         /\ ps'[j].name = ps[j].name
  BY AnswerKeeps
<1>2. NamedSources(ps') = NamedSources(ps)
  BY <1>1 DEF NamedSources, Live
<1>3. /\ list' = list /\ file' = file /\ provided' \subseteq provided
      /\ provided \subseteq Live
  BY DEF AnswerChannel, TypeOK
<1>4. \A k \in Keys : Provided(ps, file, k) => Provided(ps', file, k)
  BY <1>1, <1>2 DEF Provided, NamedSources, Live
<1>5. \A j \in Live : SourceKey(ps[j]) \in Keys
  BY SourceKeyType DEF TypeOK
<1>6. \A j \in NamedSources(ps') : SourceKey(ps'[j]) \in DOMAIN list'
  BY <1>1, <1>2, <1>3 DEF ListInv, NamedSources, Live
<1>7. \A j \in provided' : /\ SourceKey(ps'[j]) \in DOMAIN list'
                           /\ Provided(ps', file', SourceKey(ps'[j]))
  BY <1>1, <1>3, <1>4, <1>5 DEF ListInv
<1> QED BY <1>6, <1>7 DEF ListInv

LEMMA DestroyLists ==
    ASSUME ChannelsInv, NEW i \in Ids, Destroy(i)
    PROVE  ListInv'
<1> USE DEF ChannelsInv
<1>1. /\ DOMAIN ps' = Live \ {i} /\ list' = list
      /\ \A j \in Live \ {i} : ps'[j] = ps[j]
  BY DEF Destroy
<1>2. /\ provided' \subseteq provided \cap DOMAIN ps'
      /\ \A j \in provided' : Provided(ps', file', SourceKey(ps'[j]))
  BY <1>1, StillProvidedType DEF Destroy, Live
<1>3. \A j \in NamedSources(ps') :
         j \in NamedSources(ps) /\ ps'[j] = ps[j]
  BY <1>1 DEF NamedSources, Live
<1> QED BY <1>1, <1>2, <1>3 DEF ListInv

LEMMA OtherLists ==
    ASSUME ChannelsInv, Edit \/ Restart
    PROVE  ListInv'
<1> USE DEF ChannelsInv
<1>1. CASE Edit
  <2>1. /\ provided' \subseteq provided \cap DOMAIN ps'
        /\ \A j \in provided' : Provided(ps', file', SourceKey(ps'[j]))
    BY <1>1, StillProvidedType DEF Edit
  <2> QED BY <1>1, <2>1 DEF ListInv, Edit
<1>2. CASE Restart
  BY <1>2 DEF Restart, ListInv, NamedSources
<1> QED BY <1>1, <1>2

LEMMA ChannelsInvInit == Init => ChannelsInv
BY InitType DEF Init, ChannelsInv, ListInv, NamedSources

LEMMA ChannelsInvStep == ChannelsInv /\ [Next]_vars => ChannelsInv'
<1> SUFFICES ASSUME ChannelsInv, [Next]_vars PROVE ListInv'
  BY StepType DEF ChannelsInv
<1>1. CASE UNCHANGED vars
  BY <1>1 DEF vars, ChannelsInv, ListInv
<1>2. CASE \E saved \in BOOLEAN : Refresh(saved)
  BY <1>2, RefreshLists
<1>3. ASSUME NEW i \in Ids,
             \/ \E key \in DOMAIN list : PostChannel(i, key)
             \/ PostSource(i)
             \/ \E name \in Display : Rename(i, name)
             \/ AnswerChannel(i) \/ Destroy(i)
      PROVE  ListInv'
  BY <1>3, PostLists, RenameLists, AnswerLists, DestroyLists
<1>4. CASE Edit \/ Restart
  BY <1>4, OtherLists
<1> QED BY <1>1, <1>2, <1>3, <1>4 DEF Next

-----------------------------------------------------------------------------
(* The theorems. *)

\* From its naming on a source is among the channels, whatever happens to
\* the file and however the refresh falls.
THEOREM NamedSourcesListed == Spec => []NamedSourceListed
<1>1. ChannelsInv => NamedSourceListed
  <2> SUFFICES ASSUME ChannelsInv, NEW i \in SourceIndex, ps[i].name # None
               PROVE  \E ch \in ChannelIndex : ch.key = SourceKey(ps[i])
    BY DEF NamedSourceListed
  <2>1. SourceKey(ps[i]) \in DOMAIN list
    BY DEF ChannelsInv, ListInv, NamedSources, SourceIndex, Live
  <2> DEFINE K == SourceKey(ps[i])
             ch == [key |-> K, name |-> list[K]]
  <2>2. ch \in ChannelIndex
    BY <2>1 DEF ChannelIndex
  <2>3. ch.key = K
    OBVIOUS
  <2> QED BY <2>2, <2>3
<1> QED BY <1>1, ChannelsInvInit, ChannelsInvStep, PTL DEF Spec

\* The second lookup of a request finds what the first one found, as long as
\* the file or a source provides the channel.
THEOREM AnswersNamed == Spec => []AnswerNamed
<1>1. ChannelsInv => AnswerNamed
  <2> SUFFICES ASSUME ChannelsInv, NEW i \in provided
               PROVE  AnsweredName(i) # None
    BY DEF AnswerNamed
  <2>1. SourceKey(ps[i]) \in DOMAIN list
    BY DEF ChannelsInv, ListInv
  <2>2. list[SourceKey(ps[i])] \in Names
    BY <2>1 DEF ChannelsInv, TypeOK, IsListing
  <2> QED BY <2>1, <2>2, ChannelsAssumption DEF AnsweredName, Find
<1> QED BY <1>1, ChannelsInvInit, ChannelsInvStep, PTL DEF Spec

\* What load_local_streams puts into an empty list: sources under their own
\* names.
LEMMA LocalNames ==
    \A k \in DOMAIN LoadLocal(<<>>) :
        \E i \in NamedSources(ps) :
            SourceKey(ps[i]) = k /\ ps[i].name = LoadLocal(<<>>)[k]
<1> DEFINE sources == NamedSources(ps)
           At(k) == {i \in sources : SourceKey(ps[i]) = k}
           D == DOMAIN <<>> \cup {SourceKey(ps[i]) : i \in sources}
           At1(k) == CHOOSE i \in At(k) : TRUE
           v(k) == IF At(k) = {} THEN <<>>[k] ELSE ps[At1(k)].name
<1>1. LoadLocal(<<>>) = [k \in D |-> v(k)]
  BY DEF LoadLocal
<1>2. \A k \in D : At(k) # {}
  OBVIOUS
<1>3. \A k \in D : At1(k) \in At(k)
  BY <1>2
<1>4. \A k \in D : v(k) = ps[At1(k)].name
  BY <1>2
<1>5. \A k \in D : At1(k) \in sources /\ SourceKey(ps[At1(k)]) = k
  BY <1>3
<1> HIDE DEF D, v, At1
<1>6. DOMAIN LoadLocal(<<>>) = D /\ \A k \in D : LoadLocal(<<>>)[k] = v(k)
  BY <1>1
<1> QED BY <1>4, <1>5, <1>6

\* The dump holds own sources only, under the names they have, whatever the
\* file says.
THEOREM DumpsAreOwn == Spec => DumpIsOwn
<1> DEFINE A == out' # out =>
                  \A k \in DOMAIN out' :
                      \E i \in NamedSources(ps) :
                          SourceKey(ps[i]) = k /\ ps[i].name = out'[k]
<1>1. [Next]_vars => A
  <2> SUFFICES ASSUME Next, out' # out PROVE A
    BY DEF vars
  <2>1. \E saved \in BOOLEAN : Refresh(saved)
    BY DEF Next, PostChannel, PostSource, Rename, AnswerChannel, Destroy,
           Edit, Restart
  <2>2. out' = LoadLocal(<<>>)
    BY <2>1 DEF Refresh, Saved
  <2> QED BY <2>2, LocalNames
<1>2. DumpIsOwn <=> [][A]_vars
  BY DEF DumpIsOwn
<1> HIDE DEF A
<1> QED BY <1>1, <1>2, PTL DEF Spec

-----------------------------------------------------------------------------
(* What a refresh leaves. *)

\* The list has what the sources and the file provide, the dump what the
\* sources do.
Follows ==
    /\ \A k \in DOMAIN list : Provided(ps, file, k)
    /\ \A k \in DOMAIN out :
          \E i \in NamedSources(ps) : SourceKey(ps[i]) = k

\* pschannel_populate_task_callback: one refresh whose dump can be opened is
\* enough to take out whatever was withdrawn since the last, from the list
\* and from the dump.
RefreshFollows == [][Refresh(TRUE) => Follows']_vars

\* A refresh would change neither.
Settled == list = LoadFile(LoadLocal(<<>>)) /\ out = LoadLocal(<<>>)

\* What weak fairness of the refresh says, spelled out: again and again it runs
\* or would change nothing.
RefreshRuns == []<>Settled \/ []<><<Refresh(TRUE)>>_vars

LEMMA LoadedFollows ==
    ASSUME TypeOK
    PROVE  /\ \A k \in DOMAIN LoadFile(LoadLocal(<<>>)) : Provided(ps, file, k)
           /\ \A k \in DOMAIN LoadLocal(<<>>) :
                 \E i \in NamedSources(ps) : SourceKey(ps[i]) = k
<1> DEFINE local == {SourceKey(ps[i]) : i \in NamedSources(ps)}
           filed == {k \in Keys : InFile(file, k)}
<1>1. IsListing(LoadLocal(<<>>)) /\ DOMAIN LoadLocal(<<>>) = local
  BY EmptyListing, LoadLocalKeeps
<1>2. DOMAIN LoadFile(LoadLocal(<<>>)) = local \cup filed
  BY <1>1, LoadFileKeeps
<1> QED BY <1>1, <1>2 DEF Provided

LEMMA RefreshLeaves ==
    ASSUME TypeOK, Refresh(TRUE)
    PROVE  Follows'
<1>1. /\ list' = LoadFile(LoadLocal(<<>>)) /\ out' = LoadLocal(<<>>)
      /\ ps' = ps /\ file' = file
  BY DEF Refresh, Saved
<1>2. \A k : Provided(ps', file', k) = Provided(ps, file, k)
  BY <1>1
<1> QED BY <1>1, <1>2, LoadedFollows DEF Follows

\* One refresh is enough.
THEOREM RefreshesFollow == Spec => RefreshFollows
<1> DEFINE A == Refresh(TRUE) => Follows'
<1>1. TypeOK => A
  BY RefreshLeaves
<1>2. RefreshFollows <=> [][A]_vars
  BY DEF RefreshFollows
<1> HIDE DEF A
<1> QED BY ChannelTypes, <1>1, <1>2, PTL DEF Spec

\* What was withdrawn leaves the list and the dump as long as the task manager
\* comes back to the refresh, whatever clients and editors do in between.
THEOREM ListsFollowRefreshes == Spec /\ RefreshRuns => ListsFollow
<1>1. TypeOK /\ Settled => Follows
  BY LoadedFollows DEF Settled, Follows
<1>2. TypeOK /\ Refresh(TRUE) => Follows'
  BY RefreshLeaves
<1>3. ListsFollow <=> []<>Follows
  BY DEF ListsFollow, Follows
<1> QED BY ChannelTypes, <1>1, <1>2, <1>3, PTL DEF Spec, RefreshRuns

=============================================================================
