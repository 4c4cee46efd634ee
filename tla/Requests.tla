------------------------------ MODULE Requests ------------------------------
(***************************************************************************)
(* What the program makes of the texts it is sent: the router (router.c)   *)
(* and its table (routes.c) choose the handler of a request, the handler   *)
(* takes the id from the URI; a reply of Janus is searched for its id; a   *)
(* line of the channel file is cut into fields.                            *)
(***************************************************************************)
EXTENDS Tokens

CONSTANTS
    Sizes,          \* initial sizes of the table of routes
    Methods,        \* methods of requests
    Uris,           \* URIs of requests
    Replies,        \* bodies of answers of Janus
    FileLines,      \* lines of the channel file
    AlNum,          \* the symbols a-z, A-Z and 0-9, and words of them
    Figures         \* the symbols that stand for a number

Texts == Uris \cup Replies \cup FileLines

\* tokens_create keeps lengths in a uint32_t.
ASSUME RequestsAssumption ==
    /\ Sizes \subseteq Nat
    /\ Texts \subseteq Seq(Symbols)
    /\ \A t \in Texts : Len(t) < Width

ASSUME SymbolsAssumption ==
    /\ {"channels", "sources", "id:"} \subseteq Words
    /\ " " \in Blanks /\ "/" \notin AlNum
    /\ AlNum \cap Blanks = {}
    /\ "{" \notin Blanks \cup Figures

\* Janus prints an object over several lines, or it is empty; a member is
\* indented, and behind its name come a blank and a value that does not
\* stand alone when it has one character, as a comma or the newline follows.
AsPrinted(t) ==
    /\ t # <<>> /\ t[1] = "{"
    /\ Len(t) > 1 => t[2] # " "
    /\ \A p \in DOMAIN t : t[p] = "id:" =>
          /\ p + 2 \in DOMAIN t
          /\ t[p - 1] = " " /\ t[p + 1] = " "
          /\ t[p + 2] \notin Blanks \cup {","}
          /\ \/ t[p + 2] \in Words
             \/ p + 2 = Len(t)
             \/ t[p + 3] # " "

ASSUME RepliesAssumption == \A t \in Replies : AsPrinted(t)

VARIABLES
    routes,         \* routes and route_num
    route_max,      \* how many routes there is memory for
    use,            \* what the text at hand is
    method,         \* the method of the request at hand
    at,             \* the route to be tried next
    handler         \* the handler of the request, once it is chosen

vars == <<tokenVars, routes, route_max, use, method, at, handler>>

-----------------------------------------------------------------------------
(* The table. *)

Route(m, word, id, h) == [method |-> m, word |-> word, id |-> id, handler |-> h]

\* load_path_handlers; with an id the pattern is ^[/]+word[/]+[a-zA-Z0-9]+$,
\* without one it is ^[/]+word$
PathHandlers == <<
    Route("GET", "channels", FALSE, "channel_index"),
    Route("POST", "channels", TRUE, "streamer_create"),
    Route("UPDATE", "channels", TRUE, "streamer_update"),
    Route("GET", "sources", FALSE, "source_index"),
    Route("POST", "sources", TRUE, "source_streamer_create"),
    Route("UPDATE", "sources", TRUE, "source_streamer_update")>>

Slashes(u, a, b) == a <= b /\ \A p \in a..b : u[p] = "/"

\* regexec
Matches(r, u) ==
    \E a \in 1..(Len(u) - 1) :
        /\ Slashes(u, 1, a)
        /\ u[a + 1] = r.word
        /\ IF r.id
           THEN \E b \in (a + 2)..(Len(u) - 1) :
                   /\ Slashes(u, a + 2, b)
                   /\ \A p \in (b + 1)..Len(u) : u[p] \in AlNum
           ELSE Len(u) = a + 1

Handles(r, m, u) == r.method = m /\ Matches(r, u)

Grown(max) == IF max # 0 THEN max * 2 ELSE 2

-----------------------------------------------------------------------------
Init ==
    /\ TokensInit
    /\ routes = <<>>
    /\ route_max \in Sizes
    /\ use = "none" /\ method = "none" /\ at = 1 /\ handler = "none"

\* router_add_route, once for each route of load_path_handlers.
AddRoute ==
    /\ Len(routes) < Len(PathHandlers)
    /\ route_max' = IF Len(routes) >= route_max THEN Grown(route_max)
                    ELSE route_max
    /\ routes' = Append(routes, PathHandlers[Len(routes) + 1])
    /\ UNCHANGED <<tokenVars, use, method, at, handler>>

\* The program is up and deals with no text.
Ready ==
    /\ Len(routes) = Len(PathHandlers)
    /\ use = "none"

\* ev_handler hands a request to router_handle.
Receive ==
    /\ Ready
    /\ use' = "request"
    /\ method' \in Methods
    /\ text' \in Uris
    /\ at' = 1 /\ handler' = "none"
    /\ UNCHANGED <<delim, stage, np, n, i, sv, routes, route_max>>

Routing == use = "request" /\ handler = "none"

\* A handler of a URI with an id calls mg_uri_field, which cuts it up.
CallHandler(r) ==
    /\ handler' = r.handler
    /\ IF r.id THEN TokensCreate(text, "/") ELSE UNCHANGED tokenVars
    /\ UNCHANGED <<routes, route_max, use, method, at>>

\* Mutant of TryRoute: the method is not looked at.
TryPath ==
    /\ Routing
    /\ at <= Len(routes)
    /\ IF Matches(routes[at], text)
       THEN CallHandler(routes[at])
       ELSE /\ at' = at + 1
            /\ UNCHANGED <<tokenVars, routes, route_max, use, method, handler>>

\* One turn of the loop of router_handle.
TryRoute ==
    /\ Routing
    /\ at <= Len(routes)
    /\ IF Handles(routes[at], method, text)
       THEN CallHandler(routes[at])
       ELSE /\ at' = at + 1
            /\ UNCHANGED <<tokenVars, routes, route_max, use, method, handler>>

\* router_handle found none: mg_serve_http serves a file.
ServeFile ==
    /\ Routing
    /\ at > Len(routes)
    /\ handler' = "mg_serve_http"
    /\ UNCHANGED <<tokenVars, routes, route_max, use, method, at>>

\* pschannel_bucket_loadfile and janus_instance_msg_get_id.
ReadText ==
    /\ Ready
    /\ \/ use' = "line" /\ \E l \in FileLines : TokensCreate(l, ",")
       \/ use' = "reply" /\ \E t \in Replies : TokensCreate(t, " ")
    /\ UNCHANGED <<routes, route_max, method, at, handler>>

Tokenize ==
    /\ TokensStep
    /\ UNCHANGED <<routes, route_max, use, method, at, handler>>

\* The caller is done with its tokens.
TokensDestroy ==
    /\ use # "none" /\ ~Routing
    /\ stage \in {"idle", "done"}
    /\ text' = <<>> /\ delim' = NoToken
    /\ stage' = "idle"
    /\ np' = 1 /\ n' = 0 /\ i' = 0 /\ sv' = <<>>
    /\ use' = "none" /\ method' = "none" /\ at' = 1 /\ handler' = "none"
    /\ UNCHANGED <<routes, route_max>>

Next ==
    \/ AddRoute
    \/ Receive \/ TryRoute \/ ServeFile
    \/ ReadText \/ Tokenize \/ TokensDestroy

Spec == Init /\ [][Next]_vars

-----------------------------------------------------------------------------
(* What the callers take from the tokens. *)

\* mg_uri_field
UriField(pos) == sv[pos]

\* sscanf of a number: what follows it does not matter.
Number(token) ==
    IF token # <<>> /\ token[1] \in Figures THEN token[1] ELSE "0"

\* janus_instance_msg_get_id cuts off a comma.
Uncomma(token) ==
    IF token[Len(token)] = "," THEN SubSeq(token, 1, Len(token) - 1) ELSE token

\* janus_instance_msg_get_id: without an id it reads the slot after the one
\* tokens_check returned all the same, which is slot 0.
MsgGetId ==
    LET s == TokensCheck(<<"id:">>)
    IN  IF s > 0 THEN Number(Uncomma(sv[(s + 1) % Width])) ELSE "0"

-----------------------------------------------------------------------------
(* Properties. *)

\* The arrays are as long as they are used.  Tokens are written into the
\* slots that were counted, and into each of them; a route is written into
\* a table that was grown for it ("Capability is automatically increased
\* when needed", router.h); and a line that ends in a newline has the token
\* whose first character pschannel_bucket_loadfile looks at.
FitsMemory ==
    /\ SlotsExact
    /\ Len(routes) <= route_max
    /\ (use = "line" /\ stage = "done" /\ text[Len(text)] = "nl") => n > 0

\* Each request comes to the one handler whose pattern its URI has, in
\* whatever order the routes were added, and if there is none, to the files.
\* A handler that needs an id finds it in the second token: the last segment
\* of the URI, however many slashes there are and however short it is.
IdOf(u) ==
    SubSeq(u, (CHOOSE p \in 1..Len(u) :
                 u[p] = "/" /\ \A q \in (p+1)..Len(u) : u[q] # "/") + 1, Len(u))

Dispatched ==
    (use = "request" /\ ~Routing /\ stage \in {"idle", "done"}) =>
        LET fit == {k \in DOMAIN PathHandlers :
                      Handles(PathHandlers[k], method, text)}
        IN  \/ fit = {} /\ handler = "mg_serve_http"
            \/ \E k \in fit :
                  /\ fit = {k}
                  /\ handler = PathHandlers[k].handler
                  /\ PathHandlers[k].id =>
                        n = 2 /\ UriField(1) = IdOf(text)

\* In an answer Janus prints, the number of the first "id" is found, whatever
\* comes before and after it; without an id, or with one that is no number,
\* the result is 0, although the search then goes on in slot 0.
IdFound ==
    (use = "reply" /\ stage = "done") =>
        LET ids == {p \in 1..Len(text) : text[p] = "id:"}
            first == CHOOSE p \in ids : \A q \in ids : p <= q
        IN  MsgGetId = IF ids = {} THEN "0" ELSE Number(<<text[first + 2]>>)
=============================================================================
