------------------------------ MODULE Channels ------------------------------
(***************************************************************************)
(* The channel list (pschannel.c): what a client may watch, kept by the    *)
(* address a channel is served at.  Three writers meet in it: the refresh  *)
(* task, which each second rebuilds it from the local sources and the      *)
(* channel file and dumps the sources for other nodes; the clients that    *)
(* name a source; and whoever edits the file.  Its readers are the         *)
(* requests for a channel: one looks it up when the streamer is asked for  *)
(* and once more when Janus has answered.                                  *)
(*                                                                         *)
(* Requests and task callbacks run in one thread, so each is one action.   *)
(* Quality and SDP file of a channel are left out; both are only copied.   *)
(***************************************************************************)
EXTENDS Ports, Sequences

CONSTANTS
    Ids,            \* identifiers of streamers, from the URIs of requests
    Names,          \* names of channels
    Display,        \* the names clients give to sources
    Me,             \* the address of this node
    Hosts,          \* the addresses of nodes, Me among them
    Odd,            \* texts of ports that are not what sprintf prints
    OddValue,       \* what atoi and a uint16_t make of them
    Lines,          \* the lines somebody may write into the file
    MaxLines,       \* bound: lines of the file
    None            \* no name, no file

Numbers == 0..(PortSpace - 1)
Keys == Hosts \X (Numbers \cup Odd)

\* As in Streamers, there are ports for all streamers.
ASSUME ChannelsAssumption ==
    /\ Me \in Hosts
    /\ Odd \cap Numbers = {}
    /\ OddValue \in [Odd -> Numbers]
    /\ Lines \subseteq [key : Keys, name : Names]
    /\ Display \subseteq Names
    /\ None \notin Names
    /\ IsFiniteSet(Ids)
    /\ InitialPort + Stride * Cardinality(Ids) < PortSpace

VARIABLES
    ps,         \* streamers by id
    list,       \* pschannel_bucket: name of each channel, by key
    file,       \* the channel file, None when it cannot be opened
    out,        \* the file the local sources are dumped to
    provided    \* history: requests whose channel was never withdrawn

vars == <<ps, list, file, out, provided>>

\* A streamer: base port, source_ip and source_port, display_name, and
\* whether the request for its channel still waits for Janus.
Streamer == [port : Numbers, host : Hosts, src : Numbers,
             name : Names \cup {None}, waiting : BOOLEAN]

\* The channels of a list or of a dump.
IsListing(l) ==
    /\ DOMAIN l \subseteq Keys
    /\ l \in [DOMAIN l -> Names]

Init ==
    /\ ps = <<>>
    /\ list = <<>>
    /\ file \in {None} \cup {<<l>> : l \in Lines}
    /\ out = <<>>
    /\ provided = {}

-----------------------------------------------------------------------------
(* Streamers and their addresses. *)

Live == DOMAIN ps

\* Mutant of Atoi: the text is kept.
AtoiText(text) == text

\* ps->source_port = atoi(source_port)
Atoi(text) == IF text \in Odd THEN OddValue[text] ELSE text

\* pstreamer_is_source: a request for port 0 makes a source, too.
IsSource(s) == s.src = 0

\* pstreamer_source_ipaddr and pstreamer_source_port: a source is served by
\* its own psinstance; for others the number is printed, not the text the
\* client had sent.
SourceKey(s) == IF IsSource(s) THEN <<Me, s.port>> ELSE <<s.host, s.src>>

\* The sources load_local_streams inserts.
NamedSources(streamers) ==
    {i \in DOMAIN streamers :
        IsSource(streamers[i]) /\ streamers[i].name # None}

-----------------------------------------------------------------------------
(* The operations of the bucket. *)

\* pschannel_bucket_insert: a channel at the same address is overridden.
Insert(l, key, name) ==
    [k \in DOMAIN l \cup {key} |-> IF k = key THEN name ELSE l[k]]

\* pschannel_bucket_find
Find(l, key) == IF key \in DOMAIN l THEN l[key] ELSE None

\* pschannel_bucket_load_local_streams
LoadLocal(l) ==
    LET sources == NamedSources(ps)
        At(k) == {i \in sources : SourceKey(ps[i]) = k}
    IN  [k \in DOMAIN l \cup {SourceKey(ps[i]) : i \in sources} |->
            IF At(k) = {} THEN l[k] ELSE ps[CHOOSE i \in At(k) : TRUE].name]

\* pschannel_bucket_loadfile: line by line, so the last line of a key stays.
LoadFile(l) ==
    IF file = None THEN l
    ELSE LET At(k) == {n \in DOMAIN file : file[n].key = k}
             Last(k) == CHOOSE n \in At(k) : \A m \in At(k) : m <= n
         IN  [k \in DOMAIN l \cup {file[n].key : n \in DOMAIN file} |->
                IF At(k) = {} THEN l[k] ELSE file[Last(k)].name]

\* pschannel_bucket_save2file: what the dump holds afterwards, if it can be
\* opened.
Saved(l, opened) == IF opened THEN l ELSE out

-----------------------------------------------------------------------------
(* What brings a channel into the list of the next refresh. *)

InFile(f, k) == f # None /\ \E n \in DOMAIN f : f[n].key = k

Provided(streamers, f, k) ==
    \/ InFile(f, k)
    \/ \E i \in NamedSources(streamers) : SourceKey(streamers[i]) = k

\* The requests still waiting whose channel stays provided by this step.
StillProvided ==
    {i \in provided \cap DOMAIN ps' :
        Provided(ps', file', SourceKey(ps'[i]))}

-----------------------------------------------------------------------------
(* The refresh task. *)

\* Mutant of Refresh: dump after the file was loaded.
RefreshDumpLast(saved) ==
    /\ list' = LoadFile(LoadLocal(<<>>))
    /\ out' = Saved(list', saved)
    /\ UNCHANGED <<ps, file>>
    /\ provided' = StillProvided

\* Mutant of Refresh: the local sources are dumped and left out of the list.
RefreshDropping(saved) ==
    /\ list' = LoadFile(<<>>)
    /\ out' = Saved(LoadLocal(<<>>), saved)
    /\ UNCHANGED <<ps, file>>
    /\ provided' = StillProvided

\* Mutant of Refresh: the dump adds to the one before.
RefreshAppending(saved) ==
    /\ list' = LoadFile(LoadLocal(<<>>))
    /\ out' = Saved(LoadLocal(out), saved)
    /\ UNCHANGED <<ps, file>>
    /\ provided' = StillProvided

\* pschannel_populate_task_callback: reset, load the local streams, dump
\* them (saved: the dump can be opened), load the file.
Refresh(saved) ==
    /\ list' = LoadFile(LoadLocal(<<>>))
    /\ out' = Saved(LoadLocal(<<>>), saved)
    /\ UNCHANGED <<ps, file>>
    /\ provided' = StillProvided

-----------------------------------------------------------------------------
(* Requests. *)

Launch(i, host, src, waits) ==
    ps' = [j \in Live \cup {i} |->
             IF j = i THEN [port |-> AssignPort({ps[k].port : k \in Live}),
                            host |-> host, src |-> src,
                            name |-> None, waiting |-> waits]
             ELSE ps[j]]

\* streamer_create; with the name taken it answers 409 and with a channel
\* that is not listed 400, both without changing anything.
PostChannel(i, key) ==
    /\ i \notin Live
    /\ Find(list, key) # None
    /\ Launch(i, key[1], Atoi(key[2]), TRUE)
    /\ provided' = IF /\ Provided(ps, file, key)
                      /\ SourceKey(ps'[i]) = key
                   THEN provided \cup {i} ELSE provided
    /\ UNCHANGED <<list, file, out>>

\* source_streamer_create: its answer does not read the list.
PostSource(i) ==
    /\ i \notin Live
    /\ Launch(i, Me, 0, FALSE)
    /\ UNCHANGED <<list, file, out, provided>>

\* pstreamer_set_display_name
SetDisplayName(i, name) == [ps EXCEPT ![i].name = name]

\* Mutant of Rename: the list waits for the refresh.
RenameLater(i, name) ==
    /\ i \in Live
    /\ ps' = SetDisplayName(i, name)
    /\ UNCHANGED <<list, file, out>>
    /\ provided' = StillProvided

\* source_streamer_update with a channel_name: any streamer takes the name,
\* and the list shows it at once.
Rename(i, name) ==
    /\ i \in Live
    /\ ps' = SetDisplayName(i, name)
    /\ list' = Insert(list, SourceKey(ps[i]), name)
    /\ UNCHANGED <<file, out>>
    /\ provided' = StillProvided

\* streamer_creation_handler looks the channel up again, at the address the
\* streamer has now: the name it adds to a 200 answer, or None.
AnsweredName(i) == Find(list, SourceKey(ps[i]))

\* It is called when Janus has settled the request, one way or the other.
AnswerChannel(i) ==
    /\ i \in Live
    /\ ps[i].waiting
    /\ ps' = [ps EXCEPT ![i].waiting = FALSE]
    /\ provided' = provided \ {i}
    /\ UNCHANGED <<list, file, out>>

\* pstreamer_manager_destroy_streamer, by the purge, also of a streamer whose
\* creation was lost or is still with Janus (Streamers shows what the late
\* answer meets).
Destroy(i) ==
    /\ i \in Live
    /\ ps' = [j \in Live \ {i} |-> ps[j]]
    /\ UNCHANGED <<list, file, out>>
    /\ provided' = StillProvided

-----------------------------------------------------------------------------
(* The environment. *)

\* Somebody writes the next line, starts the file anew, or moves it away.
Edit ==
    /\ \/ /\ file # None /\ Len(file) < MaxLines
          /\ \E l \in Lines : file' = Append(file, l)
       \/ file # <<>> /\ file' = <<>>
       \/ file # None /\ file' = None
    /\ UNCHANGED <<ps, list, out>>
    /\ provided' = StillProvided

\* The program ends and is started again: only the files remain.
Restart ==
    /\ ps' = <<>>
    /\ list' = <<>>
    /\ provided' = {}
    /\ UNCHANGED <<file, out>>

-----------------------------------------------------------------------------
Next ==
    \/ \E saved \in BOOLEAN : Refresh(saved)
    \/ \E i \in Ids :
          \/ \E key \in DOMAIN list : PostChannel(i, key)
          \/ PostSource(i)
          \/ \E name \in Display : Rename(i, name)
          \/ AnswerChannel(i) \/ Destroy(i)
    \/ Edit
    \/ Restart

Spec == Init /\ [][Next]_vars

\* The task manager comes back to the refresh task again and again (what
\* TaskManager!PurgeRuns shows for a task of its kind), and now and then the
\* dump can be written.  Requests, Janus and editors owe nothing.
FairSpec == Spec /\ WF_vars(Refresh(TRUE))

-----------------------------------------------------------------------------
(* What the index requests answer, and properties. *)

\* channel_index: pschannel_bucket_to_json
ChannelIndex == {[key |-> k, name |-> list[k]] : k \in DOMAIN list}

\* source_index: pstreamer_manager_sources_to_json
SourceIndex == {i \in Live : IsSource(ps[i])}

TypeOK ==
    /\ Live \subseteq Ids
    /\ ps \in [Live -> Streamer]
    /\ IsListing(list)
    /\ file = None \/ file \in Seq(Lines)
    /\ IsListing(out)
    /\ provided \subseteq {i \in Live : ps[i].waiting}

\* Each source of GET sources that has a name is among GET channels, from
\* its naming on: the rebuild of the list, a file that is missing or half
\* written, and lines for the same address never take it out.
NamedSourceListed ==
    \A i \in SourceIndex : ps[i].name # None =>
        \E ch \in ChannelIndex : ch.key = SourceKey(ps[i])

\* streamer_creation_handler: the client that asked for a channel is told its
\* name, however many refreshes, edits and requests come before Janus
\* answers, unless the channel was withdrawn meanwhile or the port was not
\* written the way sprintf prints it.
AnswerNamed == \A i \in provided : AnsweredName(i) # None

\* pschannel_bucket_save2file runs before the file is loaded: the dump other
\* nodes import never hands on a channel that came from the file, only the
\* sources this node serves, each under its own name.
DumpIsOwn ==
    [][out' # out =>
          \A k \in DOMAIN out' :
              \E i \in NamedSources(ps) :
                  SourceKey(ps[i]) = k /\ ps[i].name = out'[k]]_vars

\* pschannel_bucket_reset: a channel whose source was purged, whose line was
\* removed, or that a viewer had named leaves the list in the end; and the
\* dump follows, so that a source that was purged is not handed on to other
\* nodes for ever, not even when the program was started again in between.
ListsFollow ==
    []<>(/\ \A k \in DOMAIN list : Provided(ps, file, k)
         /\ \A k \in DOMAIN out :
               \E i \in NamedSources(ps) : SourceKey(ps[i]) = k)
=============================================================================
