------------------------------ MODULE IntBucket ------------------------------
(***************************************************************************)
(* The bag of integers in which a task keeps its descriptors: an ascending *)
(* array with a count for each integer, searched by bisection.  A search   *)
(* is made of the steps of its loop.  A caller that iterates has the       *)
(* bucket for itself, as the task manager has.                             *)
(***************************************************************************)
EXTENDS Integers

CONSTANTS
    Values,     \* the integers that may be stored
    Size,       \* capacity of a new bucket
    IncSize,    \* INT_BUCKET_INC_SIZE, by how much the capacity grows
    Wrap        \* counts are taken modulo this, the range of uint32_t

ASSUME BucketAssumption ==
    /\ Values \subseteq Nat
    /\ Size \in Nat /\ IncSize \in Nat \ {0} /\ Wrap \in Nat \ {0}

NULL == -1      \* an iteration that has not begun or has ended

VARIABLES
    n_elements, integers, occurrences, size,    \* struct int_bucket
    call,       \* the operation that searches, "none" between two
    n, occurr,  \* its arguments
    a, b,       \* the part of the array the search has narrowed n down to
    iter,       \* the element last returned to the caller that iterates
    bag,        \* history: the counts of what was inserted since the flush
    given       \* history: the integers the iteration has returned

vars == <<n_elements, integers, occurrences, size, call, n, occurr, a, b,
          iter, bag, given>>

array == <<n_elements, integers, occurrences, size, bag>>

Indices == 0..(n_elements - 1)
Counts == 0..(Wrap - 1)

TypeOK ==
    /\ n_elements \in Nat /\ size \in Nat
    /\ integers \in [Indices -> Values]
    /\ occurrences \in [Indices -> Counts]
    /\ call \in {"none", "insert", "iter"}
    /\ n \in Values /\ occurr \in Counts
    /\ a \in Nat /\ b \in Nat
    /\ iter \in Indices \cup {NULL}
    /\ bag \in [Values -> Counts \cup {NULL}]
    /\ given \subseteq Values

Init ==
    /\ n_elements = 0 /\ size = Size
    /\ integers = [j \in {} |-> NULL] /\ occurrences = [j \in {} |-> NULL]
    /\ call = "none" /\ n \in Values /\ occurr \in Counts
    /\ a = 0 /\ b = 0
    /\ iter = NULL
    /\ bag = [v \in Values |-> NULL] /\ given = {}

Stored == {v \in Values : bag[v] # NULL}

-----------------------------------------------------------------------------
(* int_bucket_check_pos. *)

Search(op, v) ==
    /\ call = "none"
    /\ call' = op /\ n' = v
    /\ a' = 0
    /\ b' = IF n_elements > 0 THEN n_elements - 1 ELSE 0

i == (a + b) \div 2

\* Mutant of Narrow: the guard against going below 0 is missing.
NarrowBelow ==
    /\ call # "none" /\ a < b
    /\ a' = IF n > integers[i] THEN i + 1
            ELSE IF n = integers[i] THEN i ELSE a
    /\ b' = IF n < integers[i] THEN i - 1
            ELSE IF n = integers[i] THEN i ELSE b
    /\ UNCHANGED <<array, call, n, occurr, iter, given>>

\* Mutant of Narrow: both bounds move when the middle is n itself.
NarrowBoth ==
    /\ call # "none" /\ a < b
    /\ a' = IF n >= integers[i] THEN i + 1 ELSE a
    /\ b' = IF n <= integers[i] THEN IF i > 0 THEN i - 1 ELSE 0 ELSE b
    /\ UNCHANGED <<array, call, n, occurr, iter, given>>

\* One turn of the loop.
Narrow ==
    /\ call # "none" /\ a < b
    /\ a' = IF n > integers[i] THEN i + 1
            ELSE IF n = integers[i] THEN i ELSE a
    /\ b' = IF n < integers[i] THEN IF i > 0 THEN i - 1 ELSE 0
            ELSE IF n = integers[i] THEN i ELSE b
    /\ UNCHANGED <<array, call, n, occurr, iter, given>>

\* Mutant of Pos: the last comparison is missing.
PosUnadjusted == i
\* What the search returns when the loop is left.
Pos == IF n_elements > 0 /\ n > integers[i] THEN i + 1 ELSE i

Found == call # "none" /\ a >= b

-----------------------------------------------------------------------------
InsertCall ==
    /\ iter = NULL
    /\ \E v \in Values : Search("insert", v)
    /\ occurr' \in Counts
    /\ UNCHANGED <<array, iter, given>>

Present == Pos < n_elements /\ integers[Pos] = n

\* Mutant of Count: the count is replaced.
CountAnew ==
    /\ occurrences' = [occurrences EXCEPT ![Pos] = occurr]
    /\ UNCHANGED <<n_elements, integers, size>>

Count ==
    /\ occurrences' = [occurrences EXCEPT ![Pos] = (@ + occurr) % Wrap]
    /\ UNCHANGED <<n_elements, integers, size>>

\* The array f after memmove made room at p for v.
Moved(f, p, v) ==
    [j \in 0..n_elements |-> IF j < p THEN f[j]
                             ELSE IF j = p THEN v ELSE f[j - 1]]

\* Mutant of Grown: the capacity is looked at before it is used up.
GrownLate == IF n_elements > size THEN size + IncSize ELSE size
Grown == IF n_elements + 1 >= size THEN size + IncSize ELSE size

Place ==
    /\ size' = Grown
    /\ integers' = Moved(integers, Pos, n)
    /\ occurrences' = Moved(occurrences, Pos, occurr)
    /\ n_elements' = n_elements + 1

\* int_bucket_insert.
Insert ==
    /\ Found /\ call = "insert"
    /\ IF Present THEN Count ELSE Place
    /\ bag' = [bag EXCEPT ![n] = IF @ = NULL THEN occurr
                                 ELSE (@ + occurr) % Wrap]
    /\ call' = "none"
    /\ UNCHANGED <<n, occurr, a, b, iter, given>>

Flush ==
    /\ call = "none" /\ iter = NULL
    /\ n_elements' = 0
    /\ integers' = [j \in {} |-> NULL] /\ occurrences' = [j \in {} |-> NULL]
    /\ bag' = [v \in Values |-> NULL]
    /\ UNCHANGED <<size, call, n, occurr, a, b, iter, given>>

\* int_bucket_iter with NULL: the first element.
IterFirst ==
    /\ call = "none" /\ iter = NULL /\ n_elements > 0
    /\ iter' = 0 /\ given' = {integers[0]}
    /\ UNCHANGED <<array, call, n, occurr, a, b>>

IterCall ==
    /\ iter # NULL
    /\ Search("iter", integers[iter])
    /\ UNCHANGED <<array, occurr, iter, given>>

\* Mutant of More: the last element is taken for the end.
MoreButLast == Pos < n_elements - 2
More == Pos < n_elements - 1

\* int_bucket_iter with an element: the one after it, or the end.
Iter ==
    /\ Found /\ call = "iter"
    /\ iter' = IF More THEN iter + 1 ELSE NULL
    /\ given' = IF More THEN given \cup {integers[iter + 1]} ELSE {}
    /\ call' = "none"
    /\ UNCHANGED <<array, n, occurr, a, b>>

\* The caller has seen enough.
Leave ==
    /\ call = "none" /\ iter # NULL
    /\ iter' = NULL /\ given' = {}
    /\ UNCHANGED <<array, call, n, occurr, a, b>>

Next == Narrow \/ InsertCall \/ Insert \/ Flush \/ IterFirst \/ IterCall
            \/ Iter \/ Leave

Spec == Init /\ [][Next]_vars

-----------------------------------------------------------------------------
(* Properties. *)

\* int_bucket_insert: the integers stay in ascending order, each of them once,
\* which is what every later search relies on.
Ascending ==
    \A j, k \in Indices : j < k => integers[j] < integers[k]

\* The bucket counts what was inserted, each integer on its own.
Contents ==
    /\ Stored = {integers[j] : j \in Indices}
    /\ \A j \in Indices : bag[integers[j]] = occurrences[j]

\* memmove and the stores that follow stay in the memory of the arrays.
Fits == n_elements <= size

\* int_bucket_iter: each call returns another integer, and there is no other
\* only when all have been returned.
IterExact ==
    [][call = "iter" /\ call' = "none" =>
          IF iter' = NULL THEN given = Stored
          ELSE integers[iter'] \notin given]_vars

\* Every turn of the loop in int_bucket_check_pos leaves less to search, so
\* that the search ends.
SearchShrinks ==
    [][call # "none" /\ call' = call =>
          b' - a' < b - a /\ b' - a' >= -1]_vars
=============================================================================
