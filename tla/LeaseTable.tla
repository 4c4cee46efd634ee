----------------------------- MODULE LeaseTable -----------------------------
(***************************************************************************)
(* What the streamer manager promises to the HTTP clients, without ports,  *)
(* tasks, Janus or memory: a streamer name is leased to one streamer at a  *)
(* time, every renewal restarts its clock, a lease is taken away while the *)
(* service is open only when it has not been renewed for longer than       *)
(* Interval, and nothing is granted or renewed once the service closes.    *)
(***************************************************************************)
EXTENDS Naturals

CONSTANTS
    Ids,        \* the names under which streamers are created
    Interval    \* how long a lease lasts without a renewal

VARIABLES
    lease,      \* the leases of the names that are held
    open        \* FALSE once the service is shutting down

vars == <<lease, open>>

Held == DOMAIN lease

Init == /\ lease = [i \in {} |-> 0]
        /\ open = TRUE

Grant(i, source) ==
    /\ open
    /\ lease' = [j \in Held \cup {i} |->
                   IF j = i THEN [source |-> source, age |-> 0] ELSE lease[j]]
    /\ UNCHANGED open

Renew(i) ==
    /\ open
    /\ lease' = [lease EXCEPT ![i].age = 0]
    /\ UNCHANGED open

\* Ages saturate past Interval.
Older(age) == IF age <= Interval THEN age + 1 ELSE age

\* Time passes for every lease at once.
Tick ==
    /\ open
    /\ lease' = [i \in Held |-> [lease[i] EXCEPT !.age = Older(@)]]
    /\ UNCHANGED open

Remove(i) == lease' = [j \in Held \ {i} |-> lease[j]]

Expire(i) ==
    /\ open
    /\ lease[i].age > Interval
    /\ Remove(i)
    /\ UNCHANGED open

Close ==
    /\ open
    /\ open' = FALSE
    /\ UNCHANGED lease

Revoke(i) ==
    /\ ~open
    /\ Remove(i)
    /\ UNCHANGED open

\* Only a free name is granted, only a held one renewed or taken away.
Next == \/ \E i \in Ids \ Held, s \in BOOLEAN : Grant(i, s)
        \/ \E i \in Held : Renew(i) \/ Expire(i) \/ Revoke(i)
        \/ Tick
        \/ Close

Spec == Init /\ [][Next]_vars
=============================================================================
