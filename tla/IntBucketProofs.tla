--------------------------- MODULE IntBucketProofs ---------------------------
(***************************************************************************)
(* The bisection of int_bucket.c finds the place of an integer in a bucket *)
(* of any size, and what insertions and iterations make of it.             *)
(***************************************************************************)
EXTENDS IntBucket, TLAPS

\* While a search goes on, everything left of a is too small, everything
\* right of b too large, and the middle is an element.
SearchInv ==
    call # "none" =>
        IF n_elements = 0 THEN a = 0 /\ b = 0
        ELSE /\ a \in Indices /\ b \in Indices /\ a <= b + 1
             /\ \A j \in Indices : j < a => integers[j] < n
             /\ \A j \in Indices : j > b => integers[j] > n

\* An iteration has returned the elements up to iter.
IterInv ==
    /\ call = "insert" => iter = NULL
    /\ call = "iter" => iter # NULL /\ n = integers[iter]
    /\ iter # NULL => given = {integers[j] : j \in 0..iter}

BucketInv ==
    TypeOK /\ Ascending /\ Contents /\ Fits /\ SearchInv /\ IterInv

LEMMA Middle ==
    ASSUME a \in Nat, b \in Nat
    PROVE  /\ i \in Nat
           /\ a < b => a <= i /\ i < b
           /\ a = b => i = a
           /\ a = b + 1 => i = b
BY DEF i

\* What a search compares are numbers.
LEMMA Compared ==
    ASSUME TypeOK
    PROVE  n \in Nat /\ \A j \in Indices : integers[j] \in Nat
BY BucketAssumption DEF TypeOK

LEMMA SearchStarts ==
    ASSUME TypeOK, NEW op, NEW v, Search(op, v), UNCHANGED array
    PROVE  SearchInv' /\ a' \in Nat /\ b' \in Nat
BY DEF Search, SearchInv, TypeOK, array, Indices

LEMMA SearchNarrows ==
    ASSUME BucketInv, Narrow
    PROVE  /\ SearchInv' /\ a' \in Nat /\ b' \in Nat
           /\ b' - a' < b - a /\ b' - a' >= -1
<1>1. /\ n_elements \in Nat /\ n_elements # 0 /\ call # "none"
      /\ a \in Indices /\ b \in Indices /\ a < b
      /\ \A j \in Indices : j < a => integers[j] < n
      /\ \A j \in Indices : j > b => integers[j] > n
    BY DEF BucketInv, TypeOK, SearchInv, Narrow, Indices
<1>2. /\ i \in Indices /\ a <= i /\ i < b
    BY <1>1, Middle DEF Indices
<1>3. /\ n \in Nat /\ \A j \in Indices : integers[j] \in Nat
      /\ \A j, k \in Indices : j < k => integers[j] < integers[k]
    BY Compared DEF BucketInv, Ascending
<1>4. /\ UNCHANGED <<n_elements, integers, n, call>> /\ Indices' = Indices
    BY DEF Narrow, array, Indices
<1>5. CASE n > integers[i]
    <2>1. a' = i + 1 /\ b' = b
        BY <1>2, <1>3, <1>5 DEF Narrow
    <2>2. \A j \in Indices : j < i + 1 => integers[j] < n
        <3> SUFFICES ASSUME NEW j \in Indices, j < i + 1
                     PROVE  integers[j] < n
            OBVIOUS
        <3>1. j = i \/ j < i
            BY <1>2 DEF Indices
        <3> QED
            BY <1>2, <1>3, <1>5, <3>1
    <2> QED
        BY <1>1, <1>2, <1>4, <2>1, <2>2 DEF SearchInv, Indices
<1>6. CASE n < integers[i]
    <2>1. a' = a /\ b' = IF i > 0 THEN i - 1 ELSE 0
        BY <1>2, <1>3, <1>6 DEF Narrow
    <2>2. \A j \in Indices : j >= i => integers[j] > n
        <3> SUFFICES ASSUME NEW j \in Indices, j >= i
                     PROVE  integers[j] > n
            OBVIOUS
        <3>1. j = i \/ i < j
            BY <1>2 DEF Indices
        <3> QED
            BY <1>2, <1>3, <1>6, <3>1
    <2>3. \A j \in Indices : j > b' => j >= i
        BY <1>2, <2>1 DEF Indices
    <2> QED
        BY <1>1, <1>2, <1>4, <2>1, <2>2, <2>3 DEF SearchInv, Indices
<1>7. CASE n = integers[i]
    <2>1. a' = i /\ b' = i
        BY <1>2, <1>3, <1>7 DEF Narrow
    <2> QED
        BY <1>1, <1>2, <1>3, <1>4, <1>7, <2>1 DEF SearchInv, Indices
<1> QED
    BY <1>2, <1>3, <1>5, <1>6, <1>7

\* The search returns the place of n: what is before it is smaller, and what
\* is not before it is not.
LEMMA PosSplits ==
    ASSUME BucketInv, Found
    PROVE  /\ Pos \in 0..n_elements
           /\ \A j \in Indices : j < Pos => integers[j] < n
           /\ \A j \in Indices : j > Pos => integers[j] > n
           /\ Pos \in Indices => integers[Pos] >= n
<1>0. n_elements \in Nat /\ a \in Nat /\ b \in Nat
    BY DEF BucketInv, TypeOK
<1>1. CASE n_elements = 0
    <2>1. Pos = 0
        BY <1>0, <1>1, Middle DEF BucketInv, SearchInv, Found, Pos
    <2> QED
        BY <1>1, <2>1 DEF Indices
<1>2. CASE n_elements # 0
    <2>1. /\ a \in Indices /\ b \in Indices /\ (a = b \/ a = b + 1)
          /\ \A j \in Indices : j < a => integers[j] < n
          /\ \A j \in Indices : j > b => integers[j] > n
        BY <1>0, <1>2 DEF BucketInv, SearchInv, Found, Indices
    <2>2. /\ i \in Indices /\ (i = a \/ i = a - 1) /\ i = b
        BY <1>0, <2>1, Middle DEF Indices
    <2>3. n \in Nat /\ \A j \in Indices : integers[j] \in Nat
        BY Compared DEF BucketInv
    <2>4. CASE n > integers[i]
        <3>1. Pos = i + 1
            BY <1>0, <1>2, <2>4 DEF Pos
        <3> QED
            BY <1>0, <2>1, <2>2, <2>3, <2>4, <3>1 DEF Indices
    <2>5. CASE ~(n > integers[i])
        <3>1. Pos = i
            BY <2>5 DEF Pos
        <3>2. i = a
            BY <2>1, <2>2, <2>3, <2>5 DEF Indices
        <3> QED
            BY <1>0, <2>1, <2>2, <2>3, <2>5, <3>1, <3>2 DEF Indices
    <2> QED
        BY <2>4, <2>5
<1> QED
    BY <1>1, <1>2
-----------------------------------------------------------------------------
(* The operations. *)

LEMMA BucketInit == Init => BucketInv
<1> SUFFICES ASSUME Init PROVE BucketInv
    OBVIOUS
<1>1. Indices = {}
    BY DEF Init, Indices
<1>2. TypeOK
    BY <1>1, BucketAssumption DEF Init, TypeOK
<1>3. Contents
    BY <1>1 DEF Init, Contents, Stored
<1> QED
    BY <1>1, <1>2, <1>3, BucketAssumption
       DEF Init, BucketInv, Ascending, Fits, SearchInv, IterInv, NULL

\* A count is added to.
LEMMA CountStep ==
    ASSUME BucketInv, Insert, Present
    PROVE  BucketInv'
<1>1. /\ Pos \in Indices /\ integers[Pos] = n
      /\ UNCHANGED <<n_elements, integers, size, n, occurr, a, b, iter, given>>
      /\ occurrences' = [occurrences EXCEPT ![Pos] = (@ + occurr) % Wrap]
      /\ call' = "none" /\ iter = NULL /\ Indices' = Indices
      /\ bag' = [bag EXCEPT ![n] = IF @ = NULL THEN occurr
                                   ELSE (@ + occurr) % Wrap]
    <2>1. Pos \in 0..n_elements
        BY PosSplits DEF Insert
    <2> QED
        BY <2>1 DEF Insert, Present, Count, BucketInv, TypeOK, IterInv, Indices
<1>2. /\ bag[n] = occurrences[Pos] /\ occurrences[Pos] \in Counts
      /\ n \in Values /\ occurr \in Counts
    BY <1>1 DEF BucketInv, Contents, TypeOK
<1>3. (occurrences[Pos] + occurr) % Wrap \in Counts
    BY <1>2, BucketAssumption DEF Counts
<1>4. bag' = [bag EXCEPT ![n] = (occurrences[Pos] + occurr) % Wrap]
    <2>1. bag[n] # NULL
        BY <1>2, BucketAssumption DEF Counts, NULL
    <2> QED
        BY <1>1, <1>2, <2>1
<1>5. TypeOK'
    BY <1>1, <1>3, <1>4 DEF BucketInv, TypeOK, Counts
<1>6. Contents'
    <2>1. \A j \in Indices : integers[j] = n => j = Pos
        BY <1>1, Compared DEF BucketInv, Ascending, Indices
    <2>2. \A j \in Indices : bag'[integers[j]] = occurrences'[j]
        BY <1>1, <1>2, <1>4, <2>1 DEF BucketInv, Contents, TypeOK
    <2>3. Stored' = Stored
        BY <1>2, <1>3, <1>4, BucketAssumption
           DEF Stored, BucketInv, TypeOK, Counts, NULL
    <2> QED
        BY <1>1, <2>2, <2>3 DEF BucketInv, Contents
<1> QED
    BY <1>1, <1>5, <1>6
       DEF BucketInv, Ascending, Fits, SearchInv, IterInv

\* An integer that was missing gets its place.
LEMMA PlaceStep ==
    ASSUME BucketInv, Insert, ~Present
    PROVE  BucketInv'
<1>1. /\ Pos \in 0..n_elements /\ n_elements \in Nat /\ size \in Nat
      /\ n \in Values /\ n \in Nat /\ occurr \in Counts
      /\ \A j \in Indices : integers[j] \in Nat
      /\ integers \in [Indices -> Values] /\ occurrences \in [Indices -> Counts]
    BY PosSplits, Compared DEF Insert, BucketInv, TypeOK
<1>2. /\ \A j \in Indices : j < Pos => integers[j] < n
      /\ \A j \in Indices : j >= Pos => integers[j] > n
    <2>1. \A j \in Indices : j > Pos => integers[j] > n
        BY PosSplits DEF Insert
    <2>2. Pos \in Indices => integers[Pos] > n
        <3> SUFFICES ASSUME Pos \in Indices PROVE integers[Pos] > n
            OBVIOUS
        <3>1. integers[Pos] >= n
            BY PosSplits DEF Insert
        <3>2. integers[Pos] # n
            BY <1>1 DEF Present, Indices
        <3> QED
            BY <1>1, <3>1, <3>2
    <2>3. \A j \in Indices : j < Pos => integers[j] < n
        BY PosSplits DEF Insert
    <2> QED
        BY <1>1, <2>1, <2>2, <2>3 DEF Indices
<1>3. /\ n_elements' = n_elements + 1 /\ Indices' = 0..n_elements
      /\ integers' = Moved(integers, Pos, n)
      /\ occurrences' = Moved(occurrences, Pos, occurr)
      /\ size' = Grown /\ call' = "none" /\ iter = NULL
      /\ UNCHANGED <<n, occurr, a, b, iter, given>>
      /\ bag' = [bag EXCEPT ![n] = IF @ = NULL THEN occurr
                                   ELSE (@ + occurr) % Wrap]
    BY <1>1 DEF Insert, Place, Indices, BucketInv, IterInv
<1> DEFINE p == Pos
<1>4. p \in 0..n_elements /\ p = Pos
    BY <1>1
<1> HIDE DEF p
<1>5. ASSUME NEW j \in 0..n_elements
      PROVE  /\ j < p => /\ j \in Indices
                         /\ integers'[j] = integers[j]
                         /\ occurrences'[j] = occurrences[j]
             /\ j = p => integers'[j] = n /\ occurrences'[j] = occurr
             /\ j > p => /\ j - 1 \in Indices /\ j - 1 >= p
                         /\ integers'[j] = integers[j - 1]
                         /\ occurrences'[j] = occurrences[j - 1]
    BY <1>1, <1>3, <1>4 DEF Moved, Indices
<1>6. Ascending'
    <2> SUFFICES ASSUME NEW j \in 0..n_elements, NEW k \in 0..n_elements, j < k
                 PROVE  integers'[j] < integers'[k]
        BY <1>3 DEF Ascending
    <2>1. \A l, m \in Indices : l < m => integers[l] < integers[m]
        BY DEF BucketInv, Ascending
    <2>2. CASE k < p
        BY <1>1, <1>4, <1>5, <2>1, <2>2
    <2>3. CASE k = p
        BY <1>1, <1>2, <1>4, <1>5, <2>3
    <2>4. CASE j = p
        BY <1>1, <1>2, <1>4, <1>5, <2>4
    <2>5. CASE j < p /\ p < k
        <3>1. integers[j] < n /\ n < integers[k - 1]
            BY <1>1, <1>2, <1>4, <1>5, <2>5
        <3> QED
            BY <1>1, <1>5, <2>5, <3>1
    <2>6. CASE p < j
        BY <1>1, <1>4, <1>5, <2>1, <2>6
    <2> QED
        BY <1>1, <1>4, <2>2, <2>3, <2>4, <2>5, <2>6
<1>7. /\ integers' \in [0..n_elements -> Values]
      /\ occurrences' \in [0..n_elements -> Counts]
    <2>1. \A j \in 0..n_elements : integers'[j] \in Values
                                   /\ occurrences'[j] \in Counts
        BY <1>1, <1>4, <1>5
    <2> QED
        BY <1>3, <2>1 DEF Moved
<1>8. n \notin Stored /\ \A j \in Indices : integers[j] # n
    <2>1. \A j \in Indices : integers[j] # n
        BY <1>1, <1>2 DEF Indices
    <2> QED
        BY <2>1 DEF BucketInv, Contents
<1>9. bag' = [bag EXCEPT ![n] = occurr] /\ bag \in [Values -> Counts \cup {NULL}]
    <2>1. bag[n] = NULL
        BY <1>1, <1>8 DEF Stored
    <2> QED
        BY <1>3, <2>1 DEF BucketInv, TypeOK
<1>10. TypeOK'
    <2>1. n_elements' \in Nat /\ size' \in Nat
        BY <1>1, <1>3, BucketAssumption DEF Grown
    <2>2. bag' \in [Values -> Counts \cup {NULL}]
        BY <1>1, <1>9
    <2>3. integers' \in [Indices' -> Values] /\ occurrences' \in [Indices' -> Counts]
        BY <1>3, <1>7
    <2>4. (call \in {"none", "insert", "iter"} /\ n \in Values
             /\ a \in Nat /\ b \in Nat /\ given \subseteq Values)'
        BY <1>3 DEF BucketInv, TypeOK
    <2>5. occurr' \in Counts /\ iter' = NULL
        BY <1>1, <1>3
    <2> QED
        BY <2>1, <2>2, <2>3, <2>4, <2>5 DEF TypeOK, Counts
<1>11. Contents'
    <2>1. \A j \in 0..n_elements : bag'[integers'[j]] = occurrences'[j]
        BY <1>1, <1>4, <1>5, <1>8, <1>9 DEF BucketInv, Contents
    <2>2. Stored' = Stored \cup {n}
        BY <1>1, <1>9, BucketAssumption DEF Stored, Counts, NULL
    <2>3. \A j \in Indices : \E k \in 0..n_elements : integers'[k] = integers[j]
        <3> SUFFICES ASSUME NEW j \in Indices
                     PROVE  \E k \in 0..n_elements : integers'[k] = integers[j]
            OBVIOUS
        <3>1. CASE j < p
            BY <1>1, <1>5, <3>1 DEF Indices
        <3>2. CASE j >= p
            <4>1. j + 1 \in 0..n_elements /\ j + 1 > p /\ (j + 1) - 1 = j
                BY <1>1, <1>4, <3>2 DEF Indices
            <4> QED
                BY <1>5, <4>1
        <3> QED
            BY <1>1, <1>4, <3>1, <3>2 DEF Indices
    <2>4. \A k \in 0..n_elements :
             integers'[k] = n \/ \E j \in Indices : integers'[k] = integers[j]
        BY <1>1, <1>4, <1>5
    <2>5. Stored' = {integers'[k] : k \in 0..n_elements}
        <3>1. Stored = {integers[j] : j \in Indices}
            BY DEF BucketInv, Contents
        <3>2. \E k \in 0..n_elements : integers'[k] = n
            BY <1>4, <1>5
        <3> QED
            BY <2>2, <2>3, <2>4, <3>1, <3>2
    <2> QED
        BY <1>3, <2>1, <2>5 DEF Contents
<1>12. Fits'
    BY <1>1, <1>3, BucketAssumption DEF Fits, Grown, BucketInv
<1> QED
    BY <1>3, <1>6, <1>10, <1>11, <1>12 DEF BucketInv, SearchInv, IterInv, NULL
\* The next element of an iteration, or its end.
LEMMA IterStep ==
    ASSUME BucketInv, Iter
    PROVE  /\ BucketInv'
           /\ IF iter' = NULL THEN given = Stored
              ELSE integers[iter'] \notin given
<1>1. /\ iter \in Indices /\ n = integers[iter] /\ n_elements \in Nat
      /\ given = {integers[j] : j \in 0..iter}
      /\ Stored = {integers[j] : j \in Indices}
      /\ \A j, k \in Indices : j < k => integers[j] < integers[k]
      /\ \A j \in Indices : integers[j] \in Nat
      /\ \A j \in Indices : integers[j] \in Values
    BY Compared DEF Iter, BucketInv, TypeOK, IterInv, Contents, Ascending
<1>2. Pos = iter
    <2>1. /\ Pos \in 0..n_elements
          /\ \A j \in Indices : j < Pos => integers[j] < n
          /\ \A j \in Indices : j > Pos => integers[j] > n
        BY PosSplits DEF Iter
    <2>2. ~(iter < Pos) /\ ~(iter > Pos)
        BY <1>1, <2>1
    <2> QED
        BY <1>1, <2>1, <2>2 DEF Indices
<1>3. /\ UNCHANGED <<n_elements, integers, occurrences, size, bag, n, occurr, a, b>>
      /\ Indices' = Indices /\ call' = "none"
    BY DEF Iter, array, Indices
<1>4. CASE More
    <2>1. /\ iter' = iter + 1 /\ iter' \in Indices /\ iter' # NULL
          /\ given' = given \cup {integers[iter + 1]}
        BY <1>1, <1>2, <1>4 DEF Iter, More, Indices, NULL
    <2>2. \A j \in 0..iter : j \in Indices /\ integers[j] # integers[iter']
        BY <1>1, <2>1 DEF Indices
    <2>3. given' = {integers[j] : j \in 0..iter'}
        <3>1. 0..iter' = 0..iter \cup {iter + 1}
            BY <1>1, <2>1 DEF Indices
        <3> QED
            BY <1>1, <2>1, <3>1
    <2>4. TypeOK'
        BY <1>1, <1>3, <2>1 DEF BucketInv, TypeOK, Counts
    <2>5. IterInv'
        BY <1>3, <2>1, <2>3 DEF IterInv
    <2> QED
        BY <1>1, <1>3, <2>1, <2>2, <2>4, <2>5
           DEF BucketInv, Ascending, Contents, Stored, Fits, SearchInv
<1>5. CASE ~More
    <2>1. iter' = NULL /\ given' = {}
        BY <1>5 DEF Iter
    <2>2. 0..iter = Indices
        BY <1>1, <1>2, <1>5 DEF More, Indices
    <2>3. given = Stored
        BY <1>1, <2>2
    <2>4. TypeOK'
        BY <1>3, <2>1 DEF BucketInv, TypeOK, Counts
    <2>5. IterInv'
        BY <1>3, <2>1 DEF IterInv
    <2> QED
        BY <1>3, <2>1, <2>3, <2>4, <2>5
           DEF BucketInv, Ascending, Contents, Stored, Fits, SearchInv
<1> QED
    BY <1>4, <1>5

LEMMA BucketStep == BucketInv /\ [Next]_vars => BucketInv'
<1> SUFFICES ASSUME BucketInv, [Next]_vars PROVE BucketInv'
    OBVIOUS
<1>1. CASE UNCHANGED vars
    BY <1>1 DEF vars, BucketInv, TypeOK, Indices, Counts, Ascending, Contents,
                Stored, Fits, SearchInv, IterInv
\* What is left to show when the array stays as it is.
<1>2. ASSUME UNCHANGED array, TypeOK', SearchInv', IterInv' PROVE BucketInv'
    BY <1>2 DEF array, BucketInv, Indices, Ascending, Contents, Stored, Fits
<1>3. CASE Narrow
    <2>1. SearchInv' /\ a' \in Nat /\ b' \in Nat
        BY <1>3, SearchNarrows
    <2>2. TypeOK'
        BY <1>3, <2>1 DEF Narrow, array, BucketInv, TypeOK, Indices, Counts
    <2>3. IterInv'
        BY <1>3 DEF Narrow, array, BucketInv, IterInv
    <2> QED
        BY <1>2, <1>3, <2>1, <2>2, <2>3 DEF Narrow
<1>4. CASE InsertCall
    <2>1. PICK v \in Values : Search("insert", v)
        BY <1>4 DEF InsertCall
    <2>2. SearchInv' /\ a' \in Nat /\ b' \in Nat
        BY <1>4, <2>1, SearchStarts DEF InsertCall, BucketInv
    <2>3. TypeOK'
        BY <1>4, <2>1, <2>2
           DEF InsertCall, Search, array, BucketInv, TypeOK, Indices, Counts
    <2>4. IterInv'
        BY <1>4, <2>1 DEF InsertCall, Search, array, BucketInv, IterInv
    <2> QED
        BY <1>2, <1>4, <2>2, <2>3, <2>4 DEF InsertCall
<1>5. CASE Insert
    BY <1>5, CountStep, PlaceStep
<1>6. CASE Flush
    <2>1. /\ Indices' = {} /\ call' = "none" /\ iter' = NULL
          /\ n_elements' = 0 /\ size' = size /\ size \in Nat
          /\ bag' = [v \in Values |-> NULL]
        BY <1>6 DEF Flush, Indices, BucketInv, TypeOK
    <2>2. TypeOK'
        BY <1>6, <2>1 DEF Flush, BucketInv, TypeOK, Counts
    <2>3. Contents'
        BY <2>1 DEF Contents, Stored
    <2> QED
        BY <2>1, <2>2, <2>3
           DEF BucketInv, Ascending, Fits, SearchInv, IterInv
<1>7. CASE IterFirst
    <2>1. 0 \in Indices /\ integers[0] \in Values /\ iter' = 0
        BY <1>7 DEF IterFirst, BucketInv, TypeOK, Indices
    <2>2. TypeOK'
        BY <1>7, <2>1 DEF IterFirst, array, BucketInv, TypeOK, Indices, Counts
    <2>3. SearchInv'
        BY <1>7 DEF IterFirst, SearchInv
    <2>4. IterInv'
        <3>1. 0..iter' = {0}
            BY <2>1
        <3> QED
            BY <1>7, <2>1, <3>1 DEF IterFirst, array, IterInv
    <2> QED
        BY <1>2, <1>7, <2>2, <2>3, <2>4 DEF IterFirst
<1>8. CASE IterCall
    <2>1. /\ Search("iter", integers[iter]) /\ iter # NULL
          /\ UNCHANGED <<array, occurr, iter, given>>
        BY <1>8 DEF IterCall
    <2>2. SearchInv' /\ a' \in Nat /\ b' \in Nat
        BY <2>1, SearchStarts DEF BucketInv
    <2>3. integers[iter] \in Values
        BY <2>1 DEF BucketInv, TypeOK
    <2>4. TypeOK'
        BY <2>1, <2>2, <2>3
           DEF Search, array, BucketInv, TypeOK, Indices, Counts
    <2>5. IterInv'
        BY <2>1 DEF Search, array, BucketInv, IterInv
    <2> QED
        BY <1>2, <2>1, <2>2, <2>4, <2>5
<1>9. CASE Iter
    BY <1>9, IterStep
<1>10. CASE Leave
    <2>1. TypeOK' /\ SearchInv' /\ IterInv'
        BY <1>10 DEF Leave, array, BucketInv, TypeOK, Indices, Counts,
                     SearchInv, IterInv
    <2> QED
        BY <1>2, <1>10, <2>1 DEF Leave
<1> QED
    BY <1>1, <1>3, <1>4, <1>5, <1>6, <1>7, <1>8, <1>9, <1>10 DEF Next

LEMMA BucketInductive == Spec => []BucketInv
BY BucketInit, BucketStep, PTL DEF Spec

\* The indices of a search stay inside the array, and the unsigned ones never
\* go below 0, whatever is inserted in whatever order.
THEOREM BucketTypes == Spec => []TypeOK
<1>1. BucketInv => TypeOK
    BY DEF BucketInv
<1> QED
    BY <1>1, BucketInductive, PTL

\* int_bucket_insert puts every integer at the place the search found, which
\* is the right one in a bucket of any size.
THEOREM BucketOrdered == Spec => []Ascending
<1>1. BucketInv => Ascending
    BY DEF BucketInv
<1> QED
    BY <1>1, BucketInductive, PTL

\* The bucket holds what was inserted, as often as it was, and memmove loses
\* and overwrites nothing.
THEOREM BucketContents == Spec => []Contents
<1>1. BucketInv => Contents
    BY DEF BucketInv
<1> QED
    BY <1>1, BucketInductive, PTL

\* int_bucket_insert grows the arrays before it writes into them, for any
\* initial size.
THEOREM BucketFits == Spec => []Fits
<1>1. BucketInv => Fits
    BY DEF BucketInv
<1> QED
    BY <1>1, BucketInductive, PTL

\* An iteration returns every integer of the bucket, and none twice.
THEOREM IterationsExact == Spec => IterExact
<1> DEFINE A == call = "iter" /\ call' = "none" =>
                   IF iter' = NULL THEN given = Stored
                   ELSE integers[iter'] \notin given
<1>1. BucketInv /\ [Next]_vars => [A]_vars
    <2> SUFFICES ASSUME BucketInv, Next, call = "iter", call' = "none"
                 PROVE  A
        OBVIOUS
    <2>1. Iter
        BY DEF Next, Narrow, InsertCall, Search, Insert, Flush, IterFirst,
               IterCall, Leave
    <2> QED
        BY <2>1, IterStep
<1> HIDE DEF A
<1>2. Spec => [][A]_vars
    BY <1>1, BucketInit, BucketStep, PTL DEF Spec
<1> QED
    BY <1>2 DEF IterExact, A

\* The bisection ends in a bucket of any size.
THEOREM SearchesShrink == Spec => SearchShrinks
<1> DEFINE A == call # "none" /\ call' = call =>
                   b' - a' < b - a /\ b' - a' >= -1
<1>1. BucketInv /\ [Next]_vars => [A]_vars
    <2> SUFFICES ASSUME BucketInv, Next, call # "none", call' = call
                 PROVE  A
        OBVIOUS
    <2>1. Narrow
        BY DEF Next, InsertCall, Search, Insert, Flush, IterFirst, IterCall,
               Iter, Leave
    <2> QED
        BY <2>1, SearchNarrows
<1> HIDE DEF A
<1>2. Spec => [][A]_vars
    BY <1>1, BucketInit, BucketStep, PTL DEF Spec
<1> QED
    BY <1>2 DEF SearchShrinks, A
=============================================================================
