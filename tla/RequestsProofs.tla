--------------------------- MODULE RequestsProofs ---------------------------
(***************************************************************************)
(* The tokenizer on texts of any length that is less than a uint32_t      *)
(* holds: its two walks come to the same number of tokens and cut what     *)
(* they should.  From that, for every URI the one handler it belongs to    *)
(* and its id, and for every answer Janus prints its first id.  And the    *)
(* table of routes is never written past its end, whatever size it began   *)
(* with.                                                                   *)
(***************************************************************************)
EXTENDS Requests, FiniteSetTheorems, SequenceTheorems, TLAPS

-----------------------------------------------------------------------------
(* Positions in a text. *)

\* A set of positions that is not empty has a least one.
LEMMA LeastPosition ==
    ASSUME NEW S, S \subseteq Nat, S # {}
    PROVE  \E p \in S : \A q \in S : p <= q
<1>1. PICK p \in S : \A q \in S : <<q, p>> \notin OpToRel(<, Nat)
  BY WFMin, NatLessThanWellFounded
<1>2. \A q \in S : ~(q < p)
  BY <1>1 DEF OpToRel
<1>3. \A q \in S : p <= q
  BY <1>2
<1> QED BY <1>3

\* A walk is at the beginning of a piece.
AtPiece == /\ text \in Seq(Symbols) /\ np \in 1..(Len(text) + 1)
           /\ np = 1 \/ np - 1 \in Delims

\* The tokens the walk has come past.
Passed(p) == {e \in TokenEnds : e < p}

\* strchr finds the first delimiter of the rest.
LEMMA FirstDelim ==
    ASSUME AtPiece, HasDelim
    PROVE  /\ Nnp \in np..Len(text) /\ Nnp \in Delims
           /\ \A q \in np..(Nnp - 1) : q \notin Delims
<1> DEFINE S == {p \in Rest : text[p] = delim}
<1>0. Len(text) \in Nat /\ np \in Nat /\ np >= 1
  BY DEF AtPiece
<1>1. S # {} /\ S \subseteq Nat
  BY <1>0 DEF HasDelim, Rest
<1>2. PICK p \in S : \A q \in S : p <= q
  <2> HIDE DEF S
  <2> QED BY <1>1, LeastPosition
<1>3. p \in Rest /\ text[p] = delim /\ \A q \in np..(p-1) : text[q] # delim
  BY <1>0, <1>2 DEF Rest
<1>4. /\ Nnp \in Rest /\ text[Nnp] = delim
      /\ \A q \in np..(Nnp - 1) : text[q] # delim
  BY <1>3 DEF Nnp
<1> HIDE DEF S
<1>5. Nnp \in 1..Len(text)
  BY <1>0, <1>4 DEF Rest
<1> QED BY <1>4, <1>5 DEF Delims, Rest

\* A piece begins at the one place before which a delimiter is and behind
\* which none is.
LEMMA StartAt ==
    ASSUME NEW e \in Nat, NEW a \in 1..e, a = 1 \/ a - 1 \in Delims,
           \A q \in a..(e - 1) : q \notin Delims
    PROVE  Start(e) = a
<1> DEFINE Begins(b) == /\ b = 1 \/ b - 1 \in Delims
                        /\ \A q \in b..(e-1) : q \notin Delims
<1>1. a \in 1..e /\ Begins(a)
  OBVIOUS
<1>2. \A b, c \in 1..e : Begins(b) /\ Begins(c) => ~(b < c)
  <2> SUFFICES ASSUME NEW b \in 1..e, NEW c \in 1..e,
                      Begins(b), Begins(c), b < c
               PROVE  FALSE
    OBVIOUS
  <2>1. c - 1 \in Delims
    OBVIOUS
  <2>2. c - 1 \in b..(e-1)
    OBVIOUS
  <2> QED BY <2>1, <2>2
<1>3. \A b \in 1..e : Begins(b) => b = a
  <2> TAKE b \in 1..e
  <2> HAVE Begins(b)
  <2>1. ~(b < a) /\ ~(a < b)
    BY <1>1, <1>2
  <2> QED BY <2>1
<1>4. Start(e) = CHOOSE b \in 1..e : Begins(b)
  BY DEF Start
<1> HIDE DEF Begins
<1> QED BY <1>1, <1>3, <1>4

\* The piece before e begins where the walk is.
LEMMA StartHere ==
    ASSUME AtPiece, NEW e \in np..(Len(text) + 1),
           \A q \in np..(e - 1) : q \notin Delims
    PROVE  Start(e) = np
<1>1. e \in Nat /\ np \in 1..e /\ (np = 1 \/ np - 1 \in Delims)
  BY DEF AtPiece
<1> QED BY <1>1, StartAt

\* There are finitely many tokens.
LEMMA EndsFinite ==
    ASSUME text \in Seq(Symbols)
    PROVE  /\ IsFiniteSet(TokenEnds)
           /\ \A p : IsFiniteSet(Passed(p)) /\ Cardinality(Passed(p)) \in Nat
           /\ Cardinality(TokenEnds) \in Nat
<1>1. TokenEnds \subseteq 1..(Len(text) + 1)
  BY DEF TokenEnds, Delims
<1>2. IsFiniteSet(1..(Len(text) + 1))
  BY FS_Interval
<1>3. IsFiniteSet(TokenEnds)
  BY <1>1, <1>2, FS_Subset
<1>4. \A p : IsFiniteSet(Passed(p))
  BY <1>3, FS_Subset DEF Passed
<1> QED BY <1>3, <1>4, FS_CardinalityType

\* One turn of a loop comes past one piece, which may make a token.
LEMMA TurnPiece ==
    ASSUME AtPiece, HasDelim
    PROVE  /\ Nnp \in np..Len(text) /\ Nnp \in Delims /\ Start(Nnp) = np
           /\ Passed(Nnp) = Passed(np)
           /\ Passed(Nnp + 1) = IF Long(np, Nnp) THEN Passed(np) \cup {Nnp}
                                ELSE Passed(np)
<1>0. Len(text) \in Nat /\ np \in Nat /\ np >= 1 /\ text \in Seq(Symbols)
  BY DEF AtPiece
<1>1. /\ Nnp \in np..Len(text) /\ Nnp \in Delims
      /\ \A q \in np..(Nnp - 1) : q \notin Delims
  BY FirstDelim
<1>2. Start(Nnp) = np
  <2>1. Nnp \in np..(Len(text) + 1)
    BY <1>0, <1>1
  <2> QED BY <1>1, <2>1, StartHere
<1>3. Nnp \in TokenEnds <=> Long(np, Nnp)
  <2>1. Nnp # Len(text) + 1
    BY <1>0, <1>1
  <2> QED BY <1>1, <1>2, <2>1 DEF TokenEnds
<1>4. \A e \in TokenEnds : /\ e < Nnp <=> e < np
                           /\ e < Nnp + 1 <=> e < np \/ e = Nnp
  <2> TAKE e \in TokenEnds
  <2>1. e \in Delims \/ e = Len(text) + 1
    BY DEF TokenEnds
  <2>2. e \in Delims => e \in 1..Len(text) /\ ~(e \in np..(Nnp - 1))
    BY <1>1 DEF Delims
  <2> QED BY <1>0, <1>1, <2>1, <2>2
<1>5. Passed(Nnp) = Passed(np)
  BY <1>4 DEF Passed
<1>6. CASE Long(np, Nnp)
  BY <1>1, <1>2, <1>3, <1>4, <1>5, <1>6 DEF Passed
<1>7. CASE ~Long(np, Nnp)
  BY <1>1, <1>2, <1>3, <1>4, <1>5, <1>7 DEF Passed
<1> QED BY <1>6, <1>7

\* So a turn adds one to the number of tokens come past, or nothing.
LEMMA TurnPasses ==
    ASSUME AtPiece, HasDelim
    PROVE  /\ Nnp + 1 \in 1..(Len(text) + 1) /\ Nnp \in Delims
           /\ Cardinality(Passed(Nnp + 1)) =
                IF Long(np, Nnp) THEN Cardinality(Passed(np)) + 1
                ELSE Cardinality(Passed(np))
<1>1. Len(text) \in Nat /\ np \in Nat /\ np >= 1 /\ text \in Seq(Symbols)
  BY DEF AtPiece
<1>2. Nnp \notin Passed(np) /\ Nnp + 1 \in 1..(Len(text) + 1)
  BY <1>1, TurnPiece DEF Passed
<1> QED BY <1>1, <1>2, TurnPiece, EndsFinite, FS_AddElement

\* After the last delimiter there is one more piece.
LEMMA EndPiece ==
    ASSUME AtPiece, ~HasDelim
    PROVE  /\ Start(Len(text) + 1) = np
           /\ Len(text) + 1 \notin Passed(np)
           /\ Passed(Len(text) + 1) = Passed(np)
           /\ TokenEnds = IF np <= Len(text)
                          THEN Passed(np) \cup {Len(text) + 1}
                          ELSE Passed(np)
<1>0. Len(text) \in Nat /\ np \in Nat /\ np >= 1 /\ np <= Len(text) + 1
      /\ text \in Seq(Symbols)
  BY DEF AtPiece
<1>1. \A q \in Delims : q < np
  BY <1>0 DEF HasDelim, Rest, Delims
<1>2. Start(Len(text) + 1) = np
  <2>1. Len(text) + 1 \in np..(Len(text) + 1)
    BY <1>0
  <2>2. \A q \in np..Len(text) : q \notin Delims
    BY <1>0, <1>1
  <2>3. (Len(text) + 1) - 1 = Len(text)
    BY <1>0
  <2> QED BY <2>1, <2>2, <2>3, StartHere
<1>3. Len(text) + 1 \in TokenEnds <=> np <= Len(text)
  <2>1. Len(text) + 1 \notin Delims
    BY <1>0 DEF Delims
  <2> QED BY <1>0, <1>2, <2>1 DEF TokenEnds
<1>4. TokenEnds = IF np <= Len(text) THEN Passed(np) \cup {Len(text) + 1}
                  ELSE Passed(np)
  <2>1. \A e \in TokenEnds : e < np \/ e = Len(text) + 1
    BY <1>1 DEF TokenEnds
  <2>2. CASE np <= Len(text)
    BY <2>1, <2>2, <1>3 DEF Passed
  <2>3. CASE ~(np <= Len(text))
    BY <2>1, <2>3, <1>3 DEF Passed
  <2> QED BY <2>2, <2>3
<1>5. Passed(Len(text) + 1) = Passed(np)
  <2>1. \A e \in TokenEnds : e < Len(text) + 1 <=> e < np
    <3> TAKE e \in TokenEnds
    <3>1. e \in Delims \/ e = Len(text) + 1
      BY DEF TokenEnds
    <3>2. e \in Delims => e \in Nat /\ e < np
      BY <1>1 DEF Delims
    <3> QED BY <1>0, <3>1, <3>2
  <2> QED BY <2>1 DEF Passed
<1>6. Len(text) + 1 \notin Passed(np)
  BY <1>0 DEF Passed
<1> QED BY <1>2, <1>4, <1>5, <1>6

\* After the last piece every token was come past.
LEMMA EndPasses ==
    ASSUME AtPiece, ~HasDelim
    PROVE  Cardinality(TokenEnds) =
              IF np <= Len(text) THEN Cardinality(Passed(np)) + 1
              ELSE Cardinality(Passed(np))
<1>1. text \in Seq(Symbols)
  BY DEF AtPiece
<1> QED BY <1>1, EndPiece, EndsFinite, FS_AddElement

-----------------------------------------------------------------------------
(* The inductive invariant of the tokenizer. *)

Counted == n = Cardinality(TokenEnds)

\* In each walk the counter is the number of tokens come past.
TokensInv ==
    /\ text \in Seq(Symbols)
    /\ stage \in {"idle", "count", "fill", "done"}
    /\ stage = "idle" => sv = <<>>
    /\ stage = "count" =>
          AtPiece /\ n = Cardinality(Passed(np)) /\ i = 0 /\ sv = <<>>
    /\ stage = "fill" =>
          /\ AtPiece /\ Counted
          /\ i = Cardinality(Passed(np)) /\ DOMAIN sv = 0..(i-1)
    /\ stage = "done" =>
          AtPiece /\ ~HasDelim /\ Counted /\ DOMAIN sv = 0..(n-1)

\* At the beginning of a text none was.
LEMMA NothingPassed ==
    ASSUME text \in Seq(Symbols)
    PROVE  Passed(1) = {} /\ Cardinality(Passed(1)) = 0
<1>1. \A e \in TokenEnds : e \in Nat /\ e >= 1
  BY DEF TokenEnds, Delims
<1>2. Passed(1) = {}
  BY <1>1 DEF Passed
<1> QED BY <1>2, FS_EmptySet

LEMMA EmptyDomain == DOMAIN <<>> = {} /\ DOMAIN <<>> = 0..(0 - 1)
OBVIOUS

\* The slots filled are those counted.
LEMMA SlotsFromInv == TokensInv => SlotsExact
<1> SUFFICES ASSUME TokensInv PROVE SlotsExact
  OBVIOUS
<1>1. text \in Seq(Symbols) /\ stage \in {"idle", "count", "fill", "done"}
  BY DEF TokensInv
<1>2. CASE stage \in {"idle", "count"}
  BY <1>2, EmptyDomain DEF TokensInv, SlotsExact
<1>3. CASE stage = "fill"
  <2>1. /\ n = Cardinality(TokenEnds) /\ i = Cardinality(Passed(np))
        /\ DOMAIN sv = 0..(i-1)
    BY <1>3 DEF TokensInv, Counted
  <2>2. Passed(np) \subseteq TokenEnds
    BY DEF Passed
  <2>3. i <= n /\ i \in Nat /\ n \in Nat
    BY <1>1, <2>1, <2>2, EndsFinite, FS_Subset
  <2>4. 0..(i-1) \subseteq 0..(n-1)
    BY <2>3
  <2> QED BY <1>3, <2>1, <2>4 DEF SlotsExact
<1>4. CASE stage = "done"
  BY <1>4 DEF TokensInv, SlotsExact
<1> QED BY <1>1, <1>2, <1>3, <1>4

\* A step that leaves text and delimiter alone leaves the pieces alone.
LEMMA SameText ==
    ASSUME text' = text, delim' = delim
    PROVE  /\ TokenEnds' = TokenEnds /\ Delims' = Delims
           /\ \A p : Passed(p)' = Passed(p)
BY DEF TokenEnds, Delims, Start, Long, Passed

\* A call of tokens_create begins the first walk.
LEMMA CreateKeeps ==
    ASSUME NEW t \in Seq(Symbols), NEW d, TokensCreate(t, d)
    PROVE  TokensInv'
<1>1. /\ text' = t /\ stage' = "count" /\ np' = 1 /\ n' = 0 /\ i' = 0
      /\ sv' = <<>>
  BY DEF TokensCreate
<1>2. AtPiece'
  BY <1>1 DEF AtPiece
<1>3. (text \in Seq(Symbols) => Cardinality(Passed(1)) = 0)'
  BY NothingPassed, PTL
<1>4. Cardinality(Passed(np))' = 0
  <2>1. Cardinality(Passed(np))' = Cardinality(Passed(1))'
    BY <1>1
  <2> QED BY <1>1, <1>3, <2>1
<1> QED BY <1>1, <1>2, <1>4 DEF TokensInv

\* Every turn of either walk keeps the invariant.
LEMMA StepKeeps ==
    ASSUME TokensInv, TokensStep
    PROVE  TokensInv'
<1>1. text' = text /\ delim' = delim
  BY DEF TokensStep, CountStep, CountEnd, FillStep, FillEnd
<1>2. /\ TokenEnds' = TokenEnds /\ Delims' = Delims
      /\ \A p : Passed(p)' = Passed(p)
  BY <1>1, SameText
<1>3. Passed(np)' = Passed(np')
  BY <1>2 DEF Passed
<1>4. text \in Seq(Symbols)
  BY DEF TokensInv
<1>5. ASSUME CountStep PROVE TokensInv'
  <2>1. /\ AtPiece /\ HasDelim /\ n = Cardinality(Passed(np)) /\ i = 0
        /\ sv = <<>>
    BY <1>5 DEF CountStep, TokensInv
  <2>2. /\ stage' = "count" /\ np' = Nnp + 1 /\ i' = 0 /\ sv' = <<>>
        /\ n' = IF Long(np, Nnp) THEN n + 1 ELSE n
    BY <1>5, <2>1 DEF CountStep
  <2>3. n' = Cardinality(Passed(np'))
    BY <2>1, <2>2, TurnPasses
  <2>4. AtPiece'
    <3>1. np' \in 1..(Len(text) + 1) /\ np' - 1 \in Delims
      <4>1. Nnp \in Nat
        BY <2>1, TurnPasses, <1>4 DEF Delims
      <4> QED BY <2>1, <2>2, <4>1, TurnPasses
    <3> QED BY <1>1, <1>2, <1>4, <3>1 DEF AtPiece
  <2> QED BY <1>1, <1>3, <1>4, <2>2, <2>3, <2>4 DEF TokensInv
<1>6. ASSUME CountEnd PROVE TokensInv'
  <2>1. /\ AtPiece /\ ~HasDelim /\ n = Cardinality(Passed(np)) /\ i = 0
        /\ sv = <<>>
    BY <1>6 DEF CountEnd, TokensInv
  <2>2. /\ stage' = "fill" /\ np' = 1 /\ i' = 0 /\ sv' = <<>>
        /\ n' = IF np <= Len(text) THEN n + 1 ELSE n
    BY <1>6, <2>1 DEF CountEnd
  <2>3. n' = Cardinality(TokenEnds)
    BY <2>1, <2>2, EndPasses
  <2>4. i' = Cardinality(Passed(np'))
    BY <1>4, <2>2, NothingPassed
  <2>5. AtPiece'
    BY <1>1, <1>4, <2>2 DEF AtPiece
  <2>6. DOMAIN sv' = 0..(i' - 1)
    BY <2>2, EmptyDomain
  <2> QED
    BY <1>1, <1>2, <1>3, <1>4, <2>2, <2>3, <2>4, <2>5, <2>6
    DEF TokensInv, Counted
<1>7. ASSUME FillStep PROVE TokensInv'
  <2>1. /\ AtPiece /\ HasDelim /\ n = Cardinality(TokenEnds)
        /\ i = Cardinality(Passed(np)) /\ DOMAIN sv = 0..(i-1)
    BY <1>7 DEF FillStep, TokensInv, Counted
  <2>2. /\ stage' = "fill" /\ np' = Nnp + 1 /\ n' = n
    BY <1>7 DEF FillStep
  <2>3. i \in Nat
    BY <1>4, <2>1, EndsFinite
  <2>4. i' = Cardinality(Passed(np')) /\ DOMAIN sv' = 0..(i' - 1)
    <3>1. CASE Long(np, Nnp)
      <4>1. i' = i + 1
            /\ sv' = Store(SubstringTrim(np, Nnp - np))
        BY <1>7, <3>1 DEF FillStep
      <4>2. DOMAIN sv' = DOMAIN sv \cup {i}
        BY <4>1 DEF Store
      <4>3. 0..(i-1) \cup {i} = 0..((i + 1) - 1)
        BY <2>3
      <4>4. i + 1 = Cardinality(Passed(Nnp + 1))
        BY <2>1, <3>1, TurnPasses
      <4> QED BY <2>1, <2>2, <4>1, <4>2, <4>3, <4>4
    <3>2. CASE ~Long(np, Nnp)
      <4>1. i' = i /\ sv' = sv
        BY <1>7, <3>2 DEF FillStep
      <4>2. i = Cardinality(Passed(Nnp + 1))
        BY <2>1, <3>2, TurnPasses
      <4> QED BY <2>1, <2>2, <4>1, <4>2
    <3> QED BY <3>1, <3>2
  <2>5. AtPiece'
    <3>1. np' \in 1..(Len(text) + 1) /\ np' - 1 \in Delims
      <4>1. Nnp \in Nat
        BY <2>1, TurnPasses, <1>4 DEF Delims
      <4> QED BY <2>1, <2>2, <4>1, TurnPasses
    <3> QED BY <1>1, <1>2, <1>4, <3>1 DEF AtPiece
  <2> QED
    BY <1>1, <1>2, <1>3, <1>4, <2>1, <2>2, <2>4, <2>5
    DEF TokensInv, Counted
<1>8. ASSUME FillEnd PROVE TokensInv'
  <2>1. /\ AtPiece /\ ~HasDelim /\ n = Cardinality(TokenEnds)
        /\ i = Cardinality(Passed(np)) /\ DOMAIN sv = 0..(i-1)
    BY <1>8 DEF FillEnd, TokensInv, Counted
  <2>2. stage' = "done" /\ np' = np /\ n' = n
    BY <1>8 DEF FillEnd
  <2>3. i \in Nat
    BY <1>4, <2>1, EndsFinite
  <2>4. DOMAIN sv' = 0..(n - 1)
    <3>1. CASE np <= Len(text)
      <4>1. sv' = Store(SubstringTrim(np, Len(text) + 1 - np))
        BY <1>8, <3>1 DEF FillEnd
      <4>2. DOMAIN sv' = DOMAIN sv \cup {i}
        BY <4>1 DEF Store
      <4>3. 0..(i-1) \cup {i} = 0..((i + 1) - 1)
        BY <2>3
      <4>4. n = i + 1
        BY <2>1, <3>1, EndPasses
      <4> QED BY <2>1, <4>2, <4>3, <4>4
    <3>2. CASE ~(np <= Len(text))
      <4>1. sv' = sv
        BY <1>8, <3>2 DEF FillEnd
      <4>2. n = i
        BY <2>1, <3>2, EndPasses
      <4> QED BY <2>1, <4>1, <4>2
    <3> QED BY <3>1, <3>2
  <2>5. AtPiece' /\ ~HasDelim'
    BY <1>1, <1>2, <2>1, <2>2 DEF AtPiece, HasDelim, Rest
  <2> QED
    BY <1>1, <1>2, <1>4, <2>1, <2>2, <2>4, <2>5 DEF TokensInv, Counted
<1> QED BY <1>5, <1>6, <1>7, <1>8 DEF TokensStep

-----------------------------------------------------------------------------
(* The callers and the table of routes. *)

\* The callers have tokens made of the texts they hold, and of no other.
CallersInv ==
    /\ use = "none" => stage = "idle"
    /\ use = "line" => stage # "idle" /\ delim = "," /\ text # <<>>
    /\ text \in Seq(Symbols)

\* The table has memory for its routes.
TableInv ==
    /\ Len(routes) \in Nat /\ route_max \in Nat
    /\ Len(routes) <= route_max
    /\ \E S : routes \in Seq(S)

RequestsInv == TokensInv /\ CallersInv /\ TableInv

\* The last piece of a line that ends in a newline is not empty.
LEMMA LineHasToken ==
    ASSUME RequestsInv, use = "line", stage = "done",
           text[Len(text)] = "nl"
    PROVE  n > 0
<1>1. /\ AtPiece /\ ~HasDelim /\ n = Cardinality(TokenEnds)
      /\ text \in Seq(Symbols) /\ text # <<>> /\ delim = ","
  BY DEF RequestsInv, TokensInv, CallersInv, Counted
<1>2. Len(text) \in Nat /\ Len(text) # 0
  <2>1. text \in Seq(Symbols) /\ text # <<>>
    BY <1>1
  <2> QED BY <2>1
<1>3. Len(text) \notin Delims
  <2>1. text[Len(text)] # delim
    BY <1>1
  <2> QED BY <2>1 DEF Delims
<1>4. np <= Len(text)
  <2>1. np \in 1..(Len(text) + 1) /\ (np = 1 \/ np - 1 \in Delims)
    BY <1>1 DEF AtPiece
  <2>2. np # Len(text) + 1
    <3> SUFFICES ASSUME np = Len(text) + 1 PROVE FALSE
      OBVIOUS
    <3>1. np # 1 /\ np - 1 = Len(text)
      BY <1>2
    <3> QED BY <2>1, <3>1, <1>3
  <2> QED BY <1>2, <2>1, <2>2
<1>5. Cardinality(TokenEnds) = Cardinality(Passed(np)) + 1
  BY <1>1, <1>4, EndPasses
<1>6. Cardinality(Passed(np)) \in Nat
  BY <1>1, EndsFinite
<1>7. n = Cardinality(Passed(np)) + 1
  BY <1>1, <1>5
<1> QED BY <1>6, <1>7

LEMMA InitInv == Init => RequestsInv
<1> SUFFICES ASSUME Init PROVE RequestsInv
  OBVIOUS
<1>1. TokensInv /\ CallersInv
  BY DEF Init, TokensInit, TokensInv, CallersInv
<1>2. TableInv
  <2>1. routes = <<>> /\ route_max \in Nat
    BY RequestsAssumption DEF Init
  <2>2. <<>> \in Seq({}) /\ Len(<<>>) = 0
    OBVIOUS
  <2> QED BY <2>1, <2>2 DEF TableInv
<1> QED BY <1>1, <1>2 DEF RequestsInv

\* The table grows before a route is written behind its end.
LEMMA AddRouteKeeps ==
    ASSUME RequestsInv, AddRoute
    PROVE  TableInv'
<1> DEFINE r == PathHandlers[Len(routes) + 1]
<1>1. PICK S : routes \in Seq(S)
  BY DEF RequestsInv, TableInv
<1>2. routes' = Append(routes, r)
  BY DEF AddRoute
<1> HIDE DEF r
<1>3. routes \in Seq(S \cup {r})
  BY <1>1
<1>4. routes' \in Seq(S \cup {r}) /\ Len(routes') = Len(routes) + 1
  BY <1>2, <1>3
<1>5. /\ Len(routes) \in Nat /\ route_max \in Nat
      /\ Len(routes) <= route_max
  BY DEF RequestsInv, TableInv
<1>6. route_max' = IF Len(routes) >= route_max
                   THEN IF route_max # 0 THEN route_max * 2 ELSE 2
                   ELSE route_max
  BY DEF AddRoute, Grown
<1>7. route_max' \in Nat /\ Len(routes) + 1 <= route_max'
  BY <1>5, <1>6, SMT
<1> QED BY <1>4, <1>5, <1>7 DEF TableInv

\* A handler that needs the id of a URI has it cut.
LEMMA CallHandlerKeeps ==
    ASSUME RequestsInv, Routing, NEW r, CallHandler(r)
    PROVE  TokensInv' /\ CallersInv'
<1>1. text \in Seq(Symbols) /\ use' = use /\ use = "request"
  BY DEF RequestsInv, TokensInv, Routing, CallHandler
<1>2. CASE r.id
  <2>1. TokensCreate(text, "/")
    BY <1>2 DEF CallHandler
  <2>2. TokensInv'
    BY <1>1, <2>1, CreateKeeps
  <2>3. text' = text
    BY <2>1 DEF TokensCreate
  <2> QED BY <1>1, <2>2, <2>3 DEF CallersInv
<1>3. CASE ~r.id
  <2>1. UNCHANGED tokenVars
    BY <1>3 DEF CallHandler
  <2> QED
    BY <1>1, <2>1
    DEF RequestsInv, TokensInv, CallersInv, tokenVars, AtPiece, Counted,
        Passed, TokenEnds, Delims, Start, Long, HasDelim, Rest
<1> QED BY <1>2, <1>3

LEMMA StepInv == RequestsInv /\ [Next]_vars => RequestsInv'
<1> SUFFICES ASSUME RequestsInv, [Next]_vars PROVE RequestsInv'
  OBVIOUS
<1>0. ASSUME UNCHANGED tokenVars PROVE TokensInv'
  BY <1>0
  DEF RequestsInv, TokensInv, tokenVars, AtPiece, Counted, Passed, TokenEnds,
      Delims, Start, Long, HasDelim, Rest
<1>1. CASE UNCHANGED vars
  BY <1>1, <1>0 DEF vars, RequestsInv, CallersInv, TableInv, tokenVars
<1>2. CASE AddRoute
  BY <1>2, <1>0, AddRouteKeeps
  DEF AddRoute, RequestsInv, CallersInv, tokenVars
<1>3. CASE Receive
  <2>1. /\ stage = "idle" /\ stage' = "idle" /\ sv' = <<>>
        /\ use' = "request" /\ text' \in Seq(Symbols)
    BY <1>3, RequestsAssumption
    DEF Texts, Receive, Ready, RequestsInv, CallersInv, TokensInv
  <2>2. TableInv'
    BY <1>3 DEF Receive, RequestsInv, TableInv
  <2> QED BY <2>1, <2>2 DEF RequestsInv, TokensInv, CallersInv
<1>4. CASE TryRoute
  <2>1. Routing /\ UNCHANGED <<routes, route_max, use>>
    BY <1>4 DEF TryRoute, CallHandler
  <2>2. TableInv'
    BY <2>1 DEF RequestsInv, TableInv
  <2>3. CASE Handles(routes[at], method, text)
    <3>1. CallHandler(routes[at])
      BY <1>4, <2>3 DEF TryRoute
    <3> QED BY <2>1, <2>2, <3>1, CallHandlerKeeps DEF RequestsInv
  <2>4. CASE ~Handles(routes[at], method, text)
    <3>1. UNCHANGED tokenVars
      BY <1>4, <2>4 DEF TryRoute
    <3> QED BY <2>1, <2>2, <3>1, <1>0 DEF RequestsInv, CallersInv, tokenVars
  <2> QED BY <2>3, <2>4
<1>5. CASE ServeFile
  BY <1>5, <1>0 DEF ServeFile, RequestsInv, CallersInv, TableInv, tokenVars
<1>6. CASE ReadText
  <2>1. UNCHANGED <<routes, route_max>>
    BY <1>6 DEF ReadText
  <2>2. TableInv'
    BY <2>1 DEF RequestsInv, TableInv
  <2>3. CASE use' = "line" /\ \E l \in FileLines : TokensCreate(l, ",")
    <3>1. PICK l \in FileLines : TokensCreate(l, ",")
      BY <2>3
    <3>2. l \in Seq(Symbols)
      BY RequestsAssumption DEF Texts
    <3>3. TokensInv'
      BY <3>1, <3>2, CreateKeeps
    <3>4. text' = l /\ l # <<>> /\ delim' = "," /\ stage' = "count"
      BY <3>1 DEF TokensCreate
    <3> QED BY <2>2, <2>3, <3>2, <3>3, <3>4 DEF RequestsInv, CallersInv
  <2>4. CASE use' = "reply" /\ \E t \in Replies : TokensCreate(t, " ")
    <3>1. PICK t \in Replies : TokensCreate(t, " ")
      BY <2>4
    <3>2. t \in Seq(Symbols)
      BY RequestsAssumption DEF Texts
    <3>3. TokensInv'
      BY <3>1, <3>2, CreateKeeps
    <3>4. text' = t
      BY <3>1 DEF TokensCreate
    <3> QED BY <2>2, <2>4, <3>2, <3>3, <3>4 DEF RequestsInv, CallersInv
  <2> QED BY <1>6, <2>3, <2>4 DEF ReadText
<1>7. CASE Tokenize
  <2>1. TokensInv'
    BY <1>7, StepKeeps DEF Tokenize, RequestsInv
  <2>2. UNCHANGED <<routes, route_max, use>>
    BY <1>7 DEF Tokenize
  <2>3. text' = text /\ delim' = delim /\ stage # "idle" /\ stage' # "idle"
    BY <1>7
    DEF Tokenize, TokensStep, CountStep, CountEnd, FillStep, FillEnd
  <2>4. TableInv'
    BY <2>2 DEF RequestsInv, TableInv
  <2> QED BY <2>1, <2>2, <2>3, <2>4 DEF RequestsInv, CallersInv
<1>8. CASE TokensDestroy
  <2>1. /\ stage' = "idle" /\ sv' = <<>> /\ text' = <<>> /\ use' = "none"
        /\ UNCHANGED <<routes, route_max>>
    BY <1>8 DEF TokensDestroy
  <2>2. <<>> \in Seq(Symbols)
    OBVIOUS
  <2> QED
    BY <2>1, <2>2 DEF RequestsInv, TokensInv, CallersInv, TableInv
<1> QED
  BY <1>1, <1>2, <1>3, <1>4, <1>5, <1>6, <1>7, <1>8 DEF Next

\* The two walks over a text agree however long it is and whatever it holds,
\* and the table grows before it is written, from every initial size.
THEOREM MemoryFits == Spec => []FitsMemory
<1>1. RequestsInv => FitsMemory
  BY SlotsFromInv, LineHasToken DEF RequestsInv, TableInv, FitsMemory
<1> QED BY <1>1, InitInv, StepInv, PTL DEF Spec

-----------------------------------------------------------------------------
(* Where pieces begin and how many blanks are around them. *)

\* The remainders that the unsigned differences of tokens.c come to.
LEMMA Remainders ==
    ASSUME NEW W \in Nat \ {0}, NEW r \in 0..(W - 1)
    PROVE  r % W = r /\ (W + r) % W = r /\ (2 * W + r) % W = r
<1>1. r % W = r
  OBVIOUS
<1>2. (W + r) % W = r
  OBVIOUS
<1>3. (2 * W + r) % W = r
  OBVIOUS
<1> QED BY <1>1, <1>2, <1>3

\* The piece before e goes back to the last delimiter or to the beginning.
LEMMA StartBegins ==
    ASSUME text \in Seq(Symbols), NEW e \in 1..(Len(text) + 1)
    PROVE  /\ Start(e) \in 1..e
           /\ Start(e) = 1 \/ Start(e) - 1 \in Delims
           /\ \A q \in Start(e)..(e - 1) : q \notin Delims
<1> DEFINE Begins(a) == /\ a = 1 \/ a - 1 \in Delims
                        /\ \A q \in a..(e-1) : q \notin Delims
           T == {k \in 0..(e - 1) : e - k = 1 \/ e - k - 1 \in Delims}
<1>0. Len(text) \in Nat /\ e \in Nat /\ e >= 1
  OBVIOUS
<1>1. PICK k \in T : \A j \in T : k <= j
  <2>1. e - 1 \in 0..(e - 1) /\ e - (e - 1) = 1
    BY <1>0
  <2>2. e - 1 \in T
    BY <2>1
  <2>3. T \subseteq 0..(e - 1)
    OBVIOUS
  <2> HIDE DEF T
  <2>4. T # {} /\ T \subseteq Nat
    BY <1>0, <2>2, <2>3
  <2> QED BY <2>4, LeastPosition
<1>2. k \in 0..(e - 1) /\ e - k \in 1..e
  BY <1>0
<1>3. ASSUME NEW q \in (e - k)..(e - 1), q \in Delims
      PROVE  FALSE
  <2>1. q \in Nat /\ e - k <= q /\ q <= e - 1
    BY <1>0, <1>2
  <2>2. e - 1 - q \in 0..(e - 1) /\ e - (e - 1 - q) - 1 = q
    BY <1>0, <2>1
  <2>3. e - 1 - q \in T
    BY <1>3, <2>2
  <2>4. e - 1 - q < k
    BY <1>0, <1>2, <2>1
  <2> HIDE DEF T
  <2> QED BY <1>0, <1>1, <1>2, <2>2, <2>3, <2>4
<1>4. Begins(e - k)
  BY <1>1, <1>3
<1>5. Start(e) = CHOOSE a \in 1..e : Begins(a)
  BY DEF Start
<1> HIDE DEF Begins, T
<1>6. Start(e) \in 1..e /\ Begins(Start(e))
  BY <1>2, <1>4, <1>5
<1> USE DEF Begins
<1> QED BY <1>6

\* The blanks counted from the front are all there are.
LEMMA LeadingBlanks ==
    ASSUME NEW a \in Nat, NEW l \in Nat
    PROVE  /\ Leading(a, l) \in 0..l
           /\ \A q \in 0..(Leading(a, l) - 1) : text[a + q] \in Blanks
           /\ Leading(a, l) < l => text[a + Leading(a, l)] \notin Blanks
<1> DEFINE Ends(k) == /\ \A q \in 0..(k-1) : text[a + q] \in Blanks
                      /\ k < l => text[a + k] \notin Blanks
           T == {k \in 0..l : k = l \/ text[a + k] \notin Blanks}
<1>1. PICK k \in T : \A j \in T : k <= j
  <2>1. T # {} /\ T \subseteq Nat
    OBVIOUS
  <2> HIDE DEF T
  <2> QED BY <2>1, LeastPosition
<1>2. ASSUME NEW q \in 0..(k - 1) PROVE text[a + q] \in Blanks
  <2>1. q \in 0..l /\ ~(k <= q)
    OBVIOUS
  <2>2. q \notin T
    <3> HIDE DEF T
    <3> QED BY <1>1, <2>1
  <2> QED BY <2>1, <2>2
<1>3. k \in 0..l /\ Ends(k)
  BY <1>1, <1>2
<1>4. Leading(a, l) = CHOOSE j \in 0..l : Ends(j)
  BY DEF Leading
<1> HIDE DEF Ends
<1>5. Leading(a, l) \in 0..l /\ Ends(Leading(a, l))
  BY <1>3, <1>4
<1> USE DEF Ends
<1> QED BY <1>5

\* So are those counted from the back.
LEMMA TrailingBlanks ==
    ASSUME NEW a \in Nat, NEW l \in Nat
    PROVE  /\ Trailing(a, l) \in 0..l
           /\ \A q \in 0..(Trailing(a, l) - 1) : text[a + l - 1 - q] \in Blanks
           /\ Trailing(a, l) < l =>
                 text[a + l - 1 - Trailing(a, l)] \notin Blanks
<1> DEFINE Ends(k) == /\ \A q \in 0..(k-1) : text[a + l - 1 - q] \in Blanks
                      /\ k < l => text[a + l - 1 - k] \notin Blanks
           T == {k \in 0..l : k = l \/ text[a + l - 1 - k] \notin Blanks}
<1>1. PICK k \in T : \A j \in T : k <= j
  <2>1. T # {} /\ T \subseteq Nat
    OBVIOUS
  <2> HIDE DEF T
  <2> QED BY <2>1, LeastPosition
<1>2. ASSUME NEW q \in 0..(k - 1) PROVE text[a + l - 1 - q] \in Blanks
  <2>1. q \in 0..l /\ ~(k <= q)
    OBVIOUS
  <2>2. q \notin T
    <3> HIDE DEF T
    <3> QED BY <1>1, <2>1
  <2> QED BY <2>1, <2>2
<1>3. k \in 0..l /\ Ends(k)
  BY <1>1, <1>2
<1>4. Trailing(a, l) = CHOOSE j \in 0..l : Ends(j)
  BY DEF Trailing
<1> HIDE DEF Ends
<1>5. Trailing(a, l) \in 0..l /\ Ends(Trailing(a, l))
  BY <1>3, <1>4
<1> USE DEF Ends
<1> QED BY <1>5

-----------------------------------------------------------------------------
(* The token of a piece. *)

\* The token that substring_trim makes of the piece that ends before e.
TokenOf(e) == SubstringTrim(Start(e), e - Start(e))

\* A piece that makes a token has symbols, and no delimiter among them.
LEMMA Pieces ==
    ASSUME text \in Seq(Symbols), NEW e \in TokenEnds
    PROVE  /\ e \in 1..(Len(text) + 1) /\ e \in Nat /\ Len(text) \in Nat
           /\ Start(e) \in 1..(e - 1) /\ Start(e) \in Nat
           /\ \A q \in Start(e)..(e - 1) : q \notin Delims
           /\ Start(e) = 1 \/ Start(e) - 1 \in Delims
<1>1. e \in 1..(Len(text) + 1) /\ Len(text) \in Nat
  BY DEF TokenEnds, Delims
<1>2. /\ Start(e) \in 1..e
      /\ Start(e) = 1 \/ Start(e) - 1 \in Delims
      /\ \A q \in Start(e)..(e - 1) : q \notin Delims
  BY <1>1, StartBegins
<1>3. Start(e) < e
  <2>1. CASE Long(Start(e), e)
    <3>1. e - Start(e) >= 1
      BY <1>1, <1>2, <2>1 DEF Long
    <3> QED BY <1>1, <1>2, <3>1
  <2>2. CASE ~Long(Start(e), e)
    BY <2>2 DEF TokenEnds
  <2> QED BY <2>1, <2>2
<1> QED BY <1>1, <1>2, <1>3

\* A piece of blanks makes an empty token: the difference wraps to something.
LEMMA BlankPieces ==
    ASSUME text \in Seq(Symbols), Len(text) < Width, NEW e \in TokenEnds,
           \A q \in Start(e)..(e - 1) : text[q] \in Blanks
    PROVE  TokenOf(e) = <<>> /\ Trimmed(e) = <<>>
<1> DEFINE a == Start(e)
           l == e - a
<1>1. /\ e \in Nat /\ Len(text) \in Nat /\ a \in 1..(e - 1) /\ a \in Nat
      /\ e <= Len(text) + 1
  BY Pieces
<1>2. l \in Nat /\ l > 0 /\ l < Width /\ a + l = e /\ Width \in Nat \ {0}
  BY <1>1, TokensAssumption
<1>3. \A q \in a..(e - 1) : text[q] \in Blanks
  OBVIOUS
<1> HIDE DEF a
<1>4. \A q \in 0..(l - 1) : /\ a + q \in a..(e - 1)
                            /\ a + l - 1 - q \in a..(e - 1)
  BY <1>1
<1> HIDE DEF l
<1>5. Leading(a, l) = l
  <2>1. Leading(a, l) \in 0..l
        /\ (Leading(a, l) < l => text[a + Leading(a, l)] \notin Blanks)
    BY <1>1, <1>2, LeadingBlanks
  <2>2. Leading(a, l) < l => Leading(a, l) \in 0..(l - 1)
    BY <2>1, <1>2
  <2>3. ~(Leading(a, l) < l)
    BY <1>3, <1>4, <2>1, <2>2
  <2> QED BY <1>2, <2>1, <2>3
<1>6. Trailing(a, l) = l
  <2>1. Trailing(a, l) \in 0..l
        /\ (Trailing(a, l) < l => text[a + l - 1 - Trailing(a, l)] \notin Blanks)
    BY <1>1, <1>2, TrailingBlanks
  <2>2. Trailing(a, l) < l => Trailing(a, l) \in 0..(l - 1)
    BY <2>1, <1>2
  <2>3. ~(Trailing(a, l) < l)
    BY <1>3, <1>4, <2>1, <2>2
  <2> QED BY <1>2, <2>1, <2>3
<1>7. (l + 2 * Width - l - l) % Width > 0
  <2> DEFINE r == Width - l
  <2>1. r \in 0..(Width - 1) /\ r > 0
    BY <1>2
  <2>2. l + 2 * Width - l - l = Width + r
    BY <1>2
  <2> HIDE DEF r
  <2>3. (Width + r) % Width = r
    BY <1>2, <2>1, Remainders
  <2> QED BY <2>1, <2>2, <2>3
<1>8. SubstringTrim(a, l) = Strndup(a + l, l - l)
  BY <1>5, <1>6, <1>7 DEF SubstringTrim
<1>9. Strndup(a + l, l - l) = <<>>
  <2>1. (a + l) + (l - l) - 1 <= Len(text) /\ (a + l) + (l - l) - 1 = e - 1
    BY <1>1, <1>2
  <2>2. Strndup(a + l, l - l) = SubSeq(text, e, e - 1)
    BY <1>2, <2>1 DEF Strndup
  <2>3. e \in Int /\ e - 1 \in Int /\ e - 1 < e
    BY <1>1
  <2>4. SubSeq(text, e, e - 1) = <<>>
    BY <2>3, SubSeqEmpty
  <2> QED BY <2>2, <2>4
<1>10. TokenOf(e) = <<>>
  BY <1>8, <1>9 DEF TokenOf, a, l
<1>11. Trimmed(e) = <<>>
  <2>1. {q \in Start(e)..(e-1) : text[q] \notin Blanks} = {}
    BY <1>3 DEF a
  <2> QED BY <2>1 DEF Trimmed
<1> QED BY <1>10, <1>11

\* The token of any other piece begins where the piece without its leading
\* blanks does, and ends where it ends or behind it.
LEMMA InkPieces ==
    ASSUME text \in Seq(Symbols), Len(text) < Width, NEW e \in TokenEnds,
           NEW p \in Start(e)..(e - 1), text[p] \notin Blanks
    PROVE  \E f, t, u \in Nat :
              /\ Start(e) <= f /\ f <= t /\ t < e
              /\ t <= u /\ u <= Len(text)
              /\ text[f] \notin Blanks
              /\ \A q \in Start(e)..(f - 1) : text[q] \in Blanks
              /\ \A q \in (t + 1)..(e - 1) : text[q] \in Blanks
              /\ Trimmed(e) = SubSeq(text, f, t)
              /\ TokenOf(e) = SubSeq(text, f, u)
              /\ f = Start(e) => u = t
<1> DEFINE a == Start(e)
           l == e - a
           L == Leading(a, l)
           T == Trailing(a, l)
           f == a + L
           t == (e - 1) - T
           m == f + (l - T) - 1
           u == IF m <= Len(text) THEN m ELSE Len(text)
           ink == {q \in a..(e-1) : text[q] \notin Blanks}
<1>1. /\ e \in Nat /\ Len(text) \in Nat /\ a \in 1..(e - 1) /\ a \in Nat
      /\ e <= Len(text) + 1
  BY Pieces
<1>2. p \in a..(e - 1) /\ p \in ink
  OBVIOUS
<1> HIDE DEF a
<1>3. /\ l \in Nat /\ l > 0 /\ l < Width /\ a + l = e
      /\ Width \in Nat \ {0}
  BY <1>1, TokensAssumption
<1> HIDE DEF l
<1>4. /\ L \in 0..l
      /\ \A q \in 0..(L - 1) : text[a + q] \in Blanks
      /\ L < l => text[a + L] \notin Blanks
  BY <1>1, <1>3, LeadingBlanks
<1>5. /\ T \in 0..l
      /\ \A q \in 0..(T - 1) : text[a + l - 1 - q] \in Blanks
      /\ T < l => text[a + l - 1 - T] \notin Blanks
  BY <1>1, <1>3, TrailingBlanks
<1> HIDE DEF L, T
<1>6. \A q \in a..(f - 1) : text[q] \in Blanks
  <2> TAKE q \in a..(f - 1)
  <2>1. q - a \in 0..(L - 1) /\ a + (q - a) = q
    BY <1>1, <1>4
  <2> QED BY <1>4, <2>1
<1>7. \A q \in (t + 1)..(e - 1) : text[q] \in Blanks
  <2> TAKE q \in (t + 1)..(e - 1)
  <2>1. e - 1 - q \in 0..(T - 1) /\ a + l - 1 - (e - 1 - q) = q
    BY <1>1, <1>3, <1>5
  <2> QED BY <1>5, <2>1
<1>8. /\ f \in Nat /\ t \in Nat /\ a <= f /\ f <= p /\ p <= t /\ t < e
      /\ L < l /\ T < l
  <2>1. ~(p \in a..(f - 1)) /\ ~(p \in (t + 1)..(e - 1))
    BY <1>6, <1>7
  <2>2. f \in Nat /\ a <= f /\ t < e /\ t \in Int
    BY <1>1, <1>4, <1>5
  <2>3. f <= p /\ p <= t /\ p \in Nat
    BY <1>1, <1>2, <2>1, <2>2
  <2>4. L < l /\ T < l
    BY <1>1, <1>2, <1>3, <1>4, <1>5, <2>3
  <2> QED BY <2>2, <2>3, <2>4
<1>9. text[f] \notin Blanks /\ text[t] \notin Blanks
  <2>1. a + l - 1 - T = t
    BY <1>1, <1>3, <1>5
  <2> QED BY <1>4, <1>5, <1>8, <2>1
<1>10. f \in ink /\ \A r \in ink : f <= r
  <2>1. \A r \in ink : ~(r \in a..(f - 1)) /\ r \in a..(e - 1)
    BY <1>6
  <2>2. f \in a..(e - 1)
    BY <1>1, <1>8
  <2>3. f \in ink
    BY <1>9, <2>2
  <2> HIDE DEF ink, f
  <2>4. \A r \in ink : f <= r
    BY <1>1, <1>8, <2>1
  <2> QED BY <2>3, <2>4
<1>11. t \in ink /\ \A r \in ink : r <= t
  <2>1. \A r \in ink : ~(r \in (t + 1)..(e - 1)) /\ r \in a..(e - 1)
    BY <1>7
  <2>2. t \in a..(e - 1)
    BY <1>1, <1>8
  <2>3. t \in ink
    BY <1>9, <2>2
  <2> HIDE DEF ink, t
  <2>4. \A r \in ink : r <= t
    BY <1>1, <1>8, <2>1
  <2> QED BY <2>3, <2>4
<1>12. Trimmed(e) = SubSeq(text, f, t)
  <2>1. \A r \in ink : r \in Nat
    BY <1>1
  <2> HIDE DEF ink, f, t
  <2>2. (CHOOSE q \in ink : \A r \in ink : q <= r) = f
    <3>1. \A q \in ink : (\A r \in ink : q <= r) => q = f
      BY <1>10, <2>1
    <3> QED BY <1>10, <3>1
  <2>3. (CHOOSE q \in ink : \A r \in ink : r <= q) = t
    <3>1. \A q \in ink : (\A r \in ink : r <= q) => q = t
      BY <1>11, <2>1
    <3> QED BY <1>11, <3>1
  <2>4. ink # {}
    BY <1>10
  <2>5. ink = {q \in Start(e)..(e-1) : text[q] \notin Blanks}
    BY DEF ink, a
  <2> QED BY <2>2, <2>3, <2>4, <2>5 DEF Trimmed
<1>13. m = t + L /\ m \in Nat
  BY <1>1, <1>3, <1>4, <1>5, <1>8
<1>14. u \in Nat /\ t <= u /\ u <= Len(text)
  BY <1>1, <1>4, <1>8, <1>13
<1>15. TokenOf(e) = SubSeq(text, f, u)
  <2> DEFINE r == l - L - T
  <2>1. r \in 0..(Width - 1) /\ r > 0
    BY <1>1, <1>3, <1>4, <1>5, <1>8
  <2>2. l + 2 * Width - L - T = 2 * Width + r
    BY <1>3, <1>4, <1>5
  <2> HIDE DEF r
  <2>3. (2 * Width + r) % Width = r
    BY <1>3, <2>1, Remainders
  <2>4. SubstringTrim(a, l) = Strndup(f, l - T)
    BY <2>1, <2>2, <2>3 DEF SubstringTrim, L, T
  <2>5. Strndup(f, l - T) = SubSeq(text, f, u)
    BY DEF Strndup
  <2> QED BY <2>4, <2>5 DEF TokenOf, a, l
<1>16. f = a => u = t
  BY <1>1, <1>4, <1>8, <1>13
<1>17. a = Start(e)
  BY DEF a
<1>18. f \in Nat /\ t \in Nat /\ u \in Nat
  BY <1>8, <1>14
<1> HIDE DEF f, t, m, u, ink
<1>19. /\ a <= f /\ f <= t /\ t < e /\ t <= u /\ u <= Len(text)
      /\ text[f] \notin Blanks
  <2>1. p \in Nat
    BY <1>1, <1>2
  <2> QED BY <2>1, <1>8, <1>9, <1>14, <1>18
<1> USE <1>18
<1> WITNESS f \in Nat, t \in Nat, u \in Nat
<1> QED BY <1>6, <1>7, <1>12, <1>15, <1>16, <1>17, <1>19

-----------------------------------------------------------------------------
(* Tokens are faithful, and the slots have their ranks. *)

\* A slice begins with every shorter slice from the same position.
LEMMA Prefix ==
    ASSUME NEW S, NEW s \in Seq(S), NEW f \in 1..Len(s), NEW t \in f..Len(s),
           NEW u \in t..Len(s)
    PROVE  SubSeq(SubSeq(s, f, u), 1, t - f + 1) = SubSeq(s, f, t)
<1>1. /\ Len(s) \in Nat /\ f \in 1..Len(s) /\ u \in 1..Len(s)
      /\ 1 \in 1..(u - f + 1) /\ t - f + 1 \in 1..(u - f + 1)
      /\ f + 1 - 1 = f /\ f + (t - f + 1) - 1 = t
  OBVIOUS
<1>2. SubSeq(SubSeq(s, f, u), 1, t - f + 1)
         = SubSeq(s, f + 1 - 1, f + (t - f + 1) - 1)
  BY <1>1, SubSeqOfSubSeq
<1> QED BY <1>1, <1>2

\* The symbols of a slice.
LEMMA Slices ==
    ASSUME NEW S, NEW s \in Seq(S), NEW f \in 1..Len(s), NEW t \in f..Len(s)
    PROVE  /\ SubSeq(s, f, t) \in Seq(S)
           /\ Len(SubSeq(s, f, t)) = t - f + 1
           /\ \A j \in 1..(t - f + 1) : SubSeq(s, f, t)[j] = s[f + j - 1]
<1>1. f \in Int /\ t \in Int /\ f <= t /\ \A j \in f..t : s[j] \in S
  OBVIOUS
<1>2. \A j \in 1..(t - f + 1) : f + j - 1 = j + f - 1
  OBVIOUS
<1>3. /\ SubSeq(s, f, t) \in Seq(S)
      /\ Len(SubSeq(s, f, t)) = IF f <= t THEN t - f + 1 ELSE 0
      /\ \A j \in 1..(t - f + 1) : SubSeq(s, f, t)[j] = s[j + f - 1]
  <2>1. \A j \in 1..(t - f + 1) : SubSeq(s, f, t)[j] = s[f + j - 1]
    BY <1>1, SubSeqProperties
  <2>2. SubSeq(s, f, t) \in Seq(S)
    BY <1>1, SubSeqProperties
  <2>3. Len(SubSeq(s, f, t)) = IF f <= t THEN t - f + 1 ELSE 0
    BY <1>1, SubSeqProperties
  <2> QED BY <1>2, <2>1, <2>2, <2>3
<1> QED BY <1>1, <1>2, <1>3

\* The token of a piece is what TokensFaithful says.
LEMMA FaithfulPieces ==
    ASSUME text \in Seq(Symbols), Len(text) < Width, NEW e \in TokenEnds
    PROVE  /\ TokenOf(e) \in Seq(Symbols)
           /\ TokenOf(e) # NoToken
           /\ Len(TokenOf(e)) >= Len(Trimmed(e))
           /\ SubSeq(TokenOf(e), 1, Len(Trimmed(e))) = Trimmed(e)
           /\ text[Start(e)] \notin Blanks => TokenOf(e) = Trimmed(e)
<1>1. CASE \A q \in Start(e)..(e - 1) : text[q] \in Blanks
  <2>1. TokenOf(e) = <<>> /\ Trimmed(e) = <<>>
    BY <1>1, BlankPieces
  <2>2. SubSeq(<<>>, 1, 0) = <<>>
    BY SubSeqEmpty
  <2>3. <<>> \in Seq(Symbols) /\ Len(<<>>) = 0
    OBVIOUS
  <2>4. <<>> # NoToken
    BY <2>3, TokensAssumption
  <2> QED BY <2>1, <2>2, <2>3, <2>4
<1>2. CASE \E q \in Start(e)..(e - 1) : text[q] \notin Blanks
  <2>1. PICK q \in Start(e)..(e - 1) : text[q] \notin Blanks
    BY <1>2
  <2>2. PICK f \in Nat, t \in Nat, u \in Nat :
              /\ Start(e) <= f /\ f <= t /\ t < e
              /\ t <= u /\ u <= Len(text)
              /\ text[f] \notin Blanks
              /\ \A r \in Start(e)..(f - 1) : text[r] \in Blanks
              /\ \A r \in (t + 1)..(e - 1) : text[r] \in Blanks
              /\ Trimmed(e) = SubSeq(text, f, t)
              /\ TokenOf(e) = SubSeq(text, f, u)
              /\ f = Start(e) => u = t
    BY <2>1, InkPieces
  <2>3. /\ Len(text) \in Nat /\ Start(e) \in Nat /\ Start(e) >= 1
    BY Pieces
  <2>4. f \in 1..Len(text) /\ t \in f..Len(text) /\ u \in t..Len(text)
        /\ u \in f..Len(text) /\ t - f + 1 <= u - f + 1
    BY <2>2, <2>3
  <2>5. /\ TokenOf(e) \in Seq(Symbols) /\ Len(TokenOf(e)) = u - f + 1
        /\ Len(Trimmed(e)) = t - f + 1
    BY <2>2, <2>4, Slices
  <2>6. SubSeq(TokenOf(e), 1, Len(Trimmed(e))) = Trimmed(e)
    BY <2>2, <2>4, <2>5, Prefix
  <2>7. Len(TokenOf(e)) >= Len(Trimmed(e))
    BY <2>2, <2>4, <2>5
  <2>8. text[Start(e)] \notin Blanks => f = Start(e)
    <3>1. f # Start(e) => Start(e) \in Start(e)..(f - 1)
      BY <2>2, <2>3
    <3> QED BY <2>2, <3>1
  <2> QED BY <2>2, <2>5, <2>6, <2>7, <2>8, TokensAssumption
<1> QED BY <1>1, <1>2

-----------------------------------------------------------------------------
\* The slot of the piece that ends before e.
Rank(e) == Cardinality(Passed(e))

\* A later piece has a later slot, and the next piece the next.
LEMMA Ranks ==
    ASSUME text \in Seq(Symbols), NEW e \in TokenEnds, NEW p \in Nat, e < p
    PROVE  /\ Rank(e) \in Nat /\ Rank(p) \in Nat /\ Rank(e) < Rank(p)
           /\ (\A f \in TokenEnds : ~(e < f /\ f < p)) => Rank(p) = Rank(e) + 1
<1>1. \A f \in TokenEnds : f \in Nat
  BY Pieces
<1>2. e \notin Passed(e)
  BY <1>1 DEF Passed
<1>3. Passed(e) \cup {e} \subseteq Passed(p)
  BY <1>1 DEF Passed
<1>4. /\ IsFiniteSet(Passed(e)) /\ IsFiniteSet(Passed(p))
      /\ Rank(e) \in Nat /\ Rank(p) \in Nat
  BY EndsFinite DEF Rank
<1>5. Cardinality(Passed(e) \cup {e}) = Rank(e) + 1
  BY <1>2, <1>4, FS_AddElement DEF Rank
<1>6. Cardinality(Passed(e) \cup {e}) <= Rank(p)
  BY <1>3, <1>4, FS_Subset DEF Rank
<1>7. ASSUME \A f \in TokenEnds : ~(e < f /\ f < p)
      PROVE  Passed(p) = Passed(e) \cup {e}
  BY <1>1, <1>3, <1>7 DEF Passed
<1>8. Rank(e) < Rank(p)
  BY <1>4, <1>5, <1>6
<1> QED BY <1>4, <1>5, <1>7, <1>8 DEF Rank

\* Every slot is the slot of a piece.
LEMMA SlotsRanked ==
    ASSUME text \in Seq(Symbols), NEW s \in 0..(Cardinality(TokenEnds) - 1)
    PROVE  \E e \in TokenEnds : Rank(e) = s
<1> DEFINE c == Cardinality(TokenEnds)
           rank == [e \in TokenEnds |-> Rank(e)]
<1>1. IsFiniteSet(TokenEnds) /\ c \in Nat
  BY EndsFinite
<1>2. \A e, f \in TokenEnds : Rank(e) = Rank(f) => e = f
  <2> TAKE e, f \in TokenEnds
  <2>1. e \in Nat /\ f \in Nat
    BY Pieces
  <2>2. e < f => Rank(e) < Rank(f) /\ Rank(e) \in Nat /\ Rank(f) \in Nat
    BY <2>1, Ranks
  <2>3. f < e => Rank(f) < Rank(e) /\ Rank(e) \in Nat /\ Rank(f) \in Nat
    BY <2>1, Ranks
  <2> QED BY <2>1, <2>2, <2>3
<1>3. \A e \in TokenEnds : Rank(e) \in 0..(c - 1)
  <2> TAKE e \in TokenEnds
  <2>1. Passed(e) \subseteq TokenEnds \ {e}
    BY Pieces DEF Passed
  <2>2. Cardinality(TokenEnds \ {e}) = c - 1
    BY <1>1, FS_RemoveElement
  <2>3. IsFiniteSet(TokenEnds \ {e}) /\ Rank(e) \in Nat
    BY <1>1, FS_RemoveElement, EndsFinite DEF Rank
  <2>4. Rank(e) <= c - 1
    BY <2>1, <2>2, <2>3, FS_Subset DEF Rank
  <2> QED BY <1>1, <2>3, <2>4
<1>4. rank \in Injection(TokenEnds, 0..(c - 1))
  <2>1. rank \in [TokenEnds -> 0..(c - 1)]
    BY <1>3
  <2>2. \A e, f \in TokenEnds : rank[e] = rank[f] => e = f
    BY <1>2
  <2> HIDE DEF rank, c
  <2> QED BY <2>1, <2>2 DEF Injection, IsInjective
<1>5. IsFiniteSet(0..(c - 1)) /\ Cardinality(0..(c - 1)) = c
  <2> HIDE DEF c
  <2>1. /\ IsFiniteSet(0..(c - 1))
        /\ Cardinality(0..(c-1)) = IF 0 <= c - 1 THEN c - 1 - 0 + 1 ELSE 0
    BY <1>1, FS_Interval
  <2> QED BY <1>1, <2>1
<1>6. rank \in Surjection(TokenEnds, 0..(c - 1))
  <2> HIDE DEF rank
  <2> QED BY <1>1, <1>4, <1>5, FS_Injection
<1>7. \E e \in TokenEnds : rank[e] = s
  <2> HIDE DEF rank
  <2> QED BY <1>6 DEF Surjection
<1> QED BY <1>7

-----------------------------------------------------------------------------
(* The second walk fills the slots. *)

\* The slots filled so far hold the tokens of the pieces come past.
Filled ==
    /\ stage = "fill" => \A e \in Passed(np) : sv[Rank(e)] = TokenOf(e)
    /\ stage = "done" => \A e \in TokenEnds : sv[Rank(e)] = TokenOf(e)

\* A walk cuts the piece from where it begins.
LEMMA TokenStarts ==
    ASSUME NEW e, NEW a, Start(e) = a
    PROVE  TokenOf(e) = SubstringTrim(a, e - a)
BY DEF TokenOf

\* The token of the next piece goes into the slot of that piece.
LEMMA StoreFills ==
    ASSUME TokensInv, stage = "fill", Filled, NEW e \in TokenEnds,
           Passed(e) = Passed(np), sv' = Store(TokenOf(e))
    PROVE  \A f \in Passed(np) \cup {e} : sv'[Rank(f)] = TokenOf(f)
<1>1. /\ text \in Seq(Symbols) /\ np \in Nat /\ i = Rank(np)
      /\ DOMAIN sv = 0..(i - 1)
  <2>1. Len(text) \in Nat /\ np \in 1..(Len(text) + 1) /\ text \in Seq(Symbols)
    BY DEF TokensInv, AtPiece
  <2> QED BY <2>1 DEF TokensInv, Rank
<1>2. i \in Nat /\ Rank(e) = i
  BY <1>1, EndsFinite DEF Rank
<1>3. sv'[i] = TokenOf(e)
  BY DEF Store
<1>4. \A s \in 0..(i - 1) : sv'[s] = sv[s]
  BY <1>1, <1>2 DEF Store
<1>5. \A f \in Passed(np) : sv'[Rank(f)] = TokenOf(f)
  <2> TAKE f \in Passed(np)
  <2>1. f \in TokenEnds /\ f < np
    BY DEF Passed
  <2>2. Rank(f) \in Nat /\ Rank(f) < i
    BY <1>1, <2>1, Ranks
  <2>3. Rank(f) \in 0..(i - 1)
    BY <1>2, <2>2
  <2> QED BY <1>4, <2>3 DEF Filled
<1> QED BY <1>2, <1>3, <1>5

\* The pieces depend on the text and the delimiter alone.
LEMMA SamePieces ==
    ASSUME text' = text, delim' = delim
    PROVE  /\ TokenEnds' = TokenEnds
           /\ \A p : Passed(p)' = Passed(p) /\ Rank(p)' = Rank(p)
           /\ \A e : TokenOf(e)' = TokenOf(e)
BY DEF TokenEnds, Delims, Start, Long, Passed, Rank, TokenOf, SubstringTrim,
       Leading, Trailing, Strndup

\* No turn of a walk puts a token into another slot.
LEMMA StepFills ==
    ASSUME TokensInv, Filled, TokensStep
    PROVE  Filled'
<1>1. text' = text /\ delim' = delim
  BY DEF TokensStep, CountStep, CountEnd, FillStep, FillEnd
<1>2. /\ TokenEnds' = TokenEnds
      /\ \A p : Passed(p)' = Passed(p) /\ Rank(p)' = Rank(p)
      /\ \A e : TokenOf(e)' = TokenOf(e)
  BY <1>1, SamePieces
<1>3. Passed(np)' = Passed(np')
  BY <1>2 DEF Passed
<1>4. text \in Seq(Symbols) /\ Len(text) \in Nat
  BY DEF TokensInv
<1>5. CASE CountStep
  BY <1>5 DEF CountStep, Filled
<1>6. CASE CountEnd
  <2>1. stage' = "fill" /\ np' = 1
    BY <1>6 DEF CountEnd
  <2>2. Passed(np)' = {}
    BY <1>3, <1>4, <2>1, NothingPassed
  <2> QED BY <2>1, <2>2 DEF Filled
<1>7. CASE FillStep
  <2>1. /\ stage = "fill" /\ stage' = "fill" /\ AtPiece /\ HasDelim
        /\ np' = Nnp + 1
    BY <1>7 DEF FillStep, TokensInv
  <2>2. CASE Long(np, Nnp)
    <3>1. Passed(np)' = Passed(np) \cup {Nnp} /\ Passed(Nnp) = Passed(np)
      BY <1>3, <2>1, <2>2, TurnPiece
    <3>2. Nnp \in TokenEnds /\ Start(Nnp) = np
      BY <2>1, <2>2, TurnPiece DEF TokenEnds
    <3>3. sv' = Store(TokenOf(Nnp))
      BY <1>7, <2>2, <3>2 DEF FillStep, TokenOf
    <3>4. \A f \in Passed(np) \cup {Nnp} : sv'[Rank(f)] = TokenOf(f)
      BY <2>1, <3>1, <3>2, <3>3, StoreFills
    <3>5. \A f \in Passed(np)' : sv'[Rank(f)'] = TokenOf(f)'
      BY <1>2, <3>1, <3>4
    <3> QED BY <2>1, <3>5 DEF Filled
  <2>3. CASE ~Long(np, Nnp)
    <3>1. Passed(np)' = Passed(np) /\ sv' = sv
      BY <1>3, <1>7, <2>1, <2>3, TurnPiece DEF FillStep
    <3>2. \A f \in Passed(np)' : sv'[Rank(f)'] = TokenOf(f)'
      BY <1>2, <2>1, <3>1 DEF Filled
    <3> QED BY <2>1, <3>2 DEF Filled
  <2> QED BY <2>2, <2>3
<1>8. CASE FillEnd
  <2>0. PICK e \in Nat : e = Len(text) + 1
    BY <1>4
  <2>1. stage = "fill" /\ stage' = "done" /\ AtPiece /\ ~HasDelim
    BY <1>8 DEF FillEnd, TokensInv
  <2>2. /\ Start(e) = np /\ Passed(e) = Passed(np)
        /\ TokenEnds = IF np <= Len(text) THEN Passed(np) \cup {e}
                       ELSE Passed(np)
    BY <2>0, <2>1, EndPiece
  <2>3. \A f \in TokenEnds : sv'[Rank(f)] = TokenOf(f)
    <3>1. CASE np <= Len(text)
      <4>1. TokenOf(e) = SubstringTrim(np, e - np)
        BY <2>2, TokenStarts
      <4>3. sv' = Store(SubstringTrim(np, e - np))
        <5>1. Len(text) + 1 - np = e - np
          BY <1>4, <2>0, <2>1 DEF AtPiece
        <5> QED BY <1>8, <3>1, <5>1 DEF FillEnd
      <4>2. TokenEnds = Passed(np) \cup {e}
        BY <2>2, <3>1
      <4>4. e \in TokenEnds
        BY <4>2
      <4> QED BY <2>1, <2>2, <4>1, <4>2, <4>3, <4>4, StoreFills
    <3>2. CASE ~(np <= Len(text))
      BY <1>8, <2>1, <2>2, <3>2 DEF FillEnd, Filled
    <3> QED BY <3>1, <3>2
  <2>4. \A f \in TokenEnds' : sv'[Rank(f)'] = TokenOf(f)'
    BY <1>2, <2>3
  <2> QED BY <2>1, <2>4 DEF Filled
<1> QED BY <1>5, <1>6, <1>7, <1>8 DEF TokensStep

\* At rest or at work, the program holds a text that fits its lengths.
TextInv == text \in Texts \cup {<<>>}

\* The inductive invariant of all that follows.
FaithInv == RequestsInv /\ Filled /\ TextInv

LEMMA InitFaith == Init => FaithInv
<1> SUFFICES ASSUME Init PROVE FaithInv
  OBVIOUS
<1>1. stage = "idle" /\ text = <<>>
  BY DEF Init, TokensInit
<1> QED BY <1>1, InitInv DEF FaithInv, Filled, TextInv

\* No tokens are cut when a text is handed over, and none are lost when the
\* program looks elsewhere.
LEMMA CreateFills ==
    ASSUME NEW t, NEW d, TokensCreate(t, d)
    PROVE  Filled' /\ text' = t
BY DEF TokensCreate, Filled

LEMMA SameFilled ==
    ASSUME Filled, UNCHANGED tokenVars
    PROVE  Filled' /\ text' = text
<1>1. /\ text' = text /\ delim' = delim /\ stage' = stage /\ np' = np
      /\ sv' = sv
  BY DEF tokenVars
<1>2. /\ TokenEnds' = TokenEnds
      /\ \A p : Passed(p)' = Passed(p) /\ Rank(p)' = Rank(p)
      /\ \A e : TokenOf(e)' = TokenOf(e)
  BY <1>1, SamePieces
<1>3. Passed(np)' = Passed(np)
  BY <1>1, <1>2 DEF Passed
<1> QED BY <1>1, <1>2, <1>3 DEF Filled

LEMMA FaithStep == FaithInv /\ [Next]_vars => FaithInv'
<1> SUFFICES ASSUME FaithInv, [Next]_vars PROVE FaithInv'
  OBVIOUS
<1>0. RequestsInv' /\ RequestsInv /\ TokensInv /\ Filled
  BY StepInv DEF FaithInv, RequestsInv
<1> SUFFICES Filled' /\ TextInv'
  BY <1>0 DEF FaithInv
<1>1. ASSUME UNCHANGED tokenVars PROVE Filled' /\ TextInv'
  BY <1>1, SameFilled DEF FaithInv, TextInv
<1>2. CASE UNCHANGED vars
  BY <1>2, <1>1 DEF vars
<1>3. CASE AddRoute
  BY <1>3, <1>1 DEF AddRoute
<1>4. CASE Receive
  <2>1. stage' = "idle" /\ text' \in Texts
    BY <1>0, <1>4 DEF Receive, Ready, RequestsInv, CallersInv, Texts
  <2> QED BY <2>1 DEF Filled, TextInv
<1>5. CASE TryRoute
  <2>1. CASE UNCHANGED tokenVars
    BY <2>1, <1>1
  <2>2. CASE TokensCreate(text, "/")
    <3>1. Filled' /\ text' = text
      BY <2>2, CreateFills
    <3> QED BY <3>1 DEF FaithInv, TextInv
  <2> QED BY <1>5, <2>1, <2>2 DEF TryRoute, CallHandler
<1>6. CASE ServeFile
  BY <1>6, <1>1 DEF ServeFile
<1>7. CASE ReadText
  <2>1. PICK t \in Texts : \E d : TokensCreate(t, d)
    BY <1>7 DEF ReadText, Texts
  <2>2. Filled' /\ text' = t
    BY <2>1, CreateFills
  <2> QED BY <2>2 DEF TextInv
<1>8. CASE Tokenize
  <2>1. text' = text
    BY <1>8 DEF Tokenize, TokensStep, CountStep, CountEnd, FillStep, FillEnd
  <2> QED BY <1>0, <1>8, <2>1, StepFills DEF Tokenize, FaithInv, TextInv
<1>9. CASE TokensDestroy
  <2>1. stage' = "idle" /\ text' = <<>>
    BY <1>9 DEF TokensDestroy
  <2> QED BY <2>1 DEF Filled, TextInv
<1> QED
  BY <1>2, <1>3, <1>4, <1>5, <1>6, <1>7, <1>8, <1>9 DEF Next

\* Every text is shorter than Width.
LEMMA TextFits ==
    ASSUME FaithInv
    PROVE  text \in Seq(Symbols) /\ Len(text) < Width
<1>1. CASE text \in Texts
  BY <1>1, RequestsAssumption
<1>2. CASE text = <<>>
  <2>1. <<>> \in Seq(Symbols) /\ Len(<<>>) = 0
    OBVIOUS
  <2> QED BY <1>2, <2>1, TokensAssumption
<1> QED BY <1>1, <1>2 DEF FaithInv, TextInv

LEMMA FaithfulFromInv == FaithInv => TokensFaithful
<1> SUFFICES ASSUME FaithInv, stage = "done", NEW e \in TokenEnds
             PROVE  LET token == sv[Cardinality({f \in TokenEnds : f < e})]
                        piece == Trimmed(e)
                    IN  /\ token # NoToken
                        /\ Len(token) >= Len(piece)
                        /\ SubSeq(token, 1, Len(piece)) = piece
                        /\ text[Start(e)] \notin Blanks => token = piece
  BY DEF TokensFaithful
<1>1. sv[Cardinality({f \in TokenEnds : f < e})] = TokenOf(e)
  BY DEF FaithInv, Filled, Rank, Passed
<1> QED BY <1>1, TextFits, FaithfulPieces

\* Both walks of tokens_create agree on where the tokens are, and each token
\* begins with the text of its piece, whatever the text is.
THEOREM TokensAreFaithful == Spec => []TokensFaithful
BY InitFaith, FaithStep, FaithfulFromInv, PTL DEF Spec

-----------------------------------------------------------------------------
(* The routes. *)

\* The routes of load_path_handlers.
Count == 6

\* No two of them have the same method and the same word.
LEMMA Table ==
    /\ DOMAIN PathHandlers = 1..Count /\ Len(PathHandlers) = Count
    /\ \A k \in 1..Count : PathHandlers[k].word \in {"channels", "sources"}
    /\ \A j, k \in 1..Count :
          /\ PathHandlers[j].method = PathHandlers[k].method
          /\ PathHandlers[j].word = PathHandlers[k].word
          => j = k
<1>1. DOMAIN PathHandlers = 1..Count /\ Len(PathHandlers) = Count
  BY DEF PathHandlers, Count
<1>2. /\ PathHandlers[1].method = "GET" /\ PathHandlers[1].word = "channels"
      /\ PathHandlers[2].method = "POST" /\ PathHandlers[2].word = "channels"
      /\ PathHandlers[3].method = "UPDATE" /\ PathHandlers[3].word = "channels"
      /\ PathHandlers[4].method = "GET" /\ PathHandlers[4].word = "sources"
      /\ PathHandlers[5].method = "POST" /\ PathHandlers[5].word = "sources"
      /\ PathHandlers[6].method = "UPDATE" /\ PathHandlers[6].word = "sources"
  BY DEF PathHandlers, Route
<1>3. 1..Count = {1, 2, 3, 4, 5, 6}
  BY DEF Count
<1> QED BY <1>1, <1>2, <1>3

\* A URI has the word of at most one resource.
LEMMA OneWord ==
    ASSUME NEW u \in Seq(Symbols), NEW r, NEW s, Matches(r, u), Matches(s, u),
           r.word # "/", s.word # "/"
    PROVE  r.word = s.word
<1>1. PICK a \in 1..(Len(u) - 1) : Slashes(u, 1, a) /\ u[a + 1] = r.word
  BY DEF Matches
<1>2. PICK b \in 1..(Len(u) - 1) : Slashes(u, 1, b) /\ u[b + 1] = s.word
  BY DEF Matches
<1>3. a \in Nat /\ b \in Nat /\ a >= 1 /\ b >= 1
  OBVIOUS
<1>4. ~(a < b)
  <2>1. a < b => a + 1 \in 1..b
    BY <1>3
  <2> QED BY <1>1, <1>2, <2>1 DEF Slashes
<1>5. ~(b < a)
  <2>1. b < a => b + 1 \in 1..a
    BY <1>3
  <2> QED BY <1>1, <1>2, <2>1 DEF Slashes
<1>6. a = b
  BY <1>3, <1>4, <1>5
<1> QED BY <1>1, <1>2, <1>6

\* So at most one of them handles a request.
LEMMA OneRoute ==
    ASSUME NEW u \in Seq(Symbols), NEW m, NEW j \in 1..Count,
           NEW k \in 1..Count,
           Handles(PathHandlers[j], m, u), Handles(PathHandlers[k], m, u)
    PROVE  j = k
<1>1. /\ PathHandlers[j].word \in {"channels", "sources"}
      /\ PathHandlers[k].word \in {"channels", "sources"}
  BY Table
<1>2. PathHandlers[j].word # "/" /\ PathHandlers[k].word # "/"
  BY <1>1
<1>3. PathHandlers[j].word = PathHandlers[k].word
  BY <1>2, OneWord DEF Handles
<1>4. PathHandlers[j].method = PathHandlers[k].method
  BY DEF Handles
<1> QED BY <1>3, <1>4, Table

\* However many slashes it has, a URI with an id has two tokens: the word and
\* what follows the last slash.
LEMMA UriTokens ==
    ASSUME text \in Seq(Symbols), Len(text) < Width, delim = "/", NEW r,
           r.id, r.word \in {"channels", "sources"}, Matches(r, text)
    PROVE  \E w \in Nat :
              /\ TokenEnds = {w, Len(text) + 1} /\ w < Len(text) + 1
              /\ TokenOf(Len(text) + 1) = IdOf(text)
<1>0. Len(text) \in Nat
  OBVIOUS
<1>1. PICK a \in 1..(Len(text) - 1) :
         /\ Slashes(text, 1, a) /\ text[a + 1] = r.word
         /\ \E b \in (a + 2)..(Len(text) - 1) :
                   /\ Slashes(text, a + 2, b)
                   /\ \A p \in (b + 1)..Len(text) : text[p] \in AlNum
  BY DEF Matches
<1>2. PICK b \in (a + 2)..(Len(text) - 1) :
         /\ Slashes(text, a + 2, b)
         /\ \A p \in (b + 1)..Len(text) : text[p] \in AlNum
  BY <1>1
<1>3. PICK end \in Nat : end = Len(text) + 1
  BY <1>0
<1>4. /\ a \in Nat /\ b \in Nat /\ 1 <= a /\ a + 2 <= b /\ b + 1 < end
  BY <1>0, <1>3
<1>5. \A q \in 1..Len(text) :
         q \in Delims <=> q \in 1..a \/ q \in (a + 2)..b
  <2> TAKE q \in 1..Len(text)
  <2>1. \/ q \in 1..a \/ q = a + 1 \/ q \in (a + 2)..b
        \/ q \in (b + 1)..Len(text)
    BY <1>4
  <2>2. CASE q \in 1..a \/ q \in (a + 2)..b
    BY <1>1, <1>2, <2>2 DEF Slashes, Delims
  <2>3. CASE q = a + 1
    <3>1. text[q] # "/"
      BY <1>1, <2>3
    <3>2. ~(q \in 1..a) /\ ~(q \in (a + 2)..b)
      BY <1>4, <2>3
    <3> QED BY <3>1, <3>2 DEF Delims
  <2>4. CASE q \in (b + 1)..Len(text)
    <3>1. text[q] # "/"
      BY <1>2, <2>4, SymbolsAssumption
    <3>2. ~(q \in 1..a) /\ ~(q \in (a + 2)..b)
      BY <1>4, <2>4
    <3> QED BY <3>1, <3>2 DEF Delims
  <2> QED BY <2>1, <2>2, <2>3, <2>4
<1>6. \A q \in Delims : q \in 1..Len(text)
  BY DEF Delims
<1>7. \A q \in 1..a : Start(q) = q
  <2> TAKE q \in 1..a
  <2>1. q = 1 \/ (q - 1 \in 1..a /\ q - 1 \in 1..Len(text))
    BY <1>0, <1>3, <1>4
  <2>2. q = 1 \/ q - 1 \in Delims
    BY <1>5, <2>1
  <2>3. q \in Nat /\ q \in 1..q /\ \A p \in q..(q - 1) : p \notin Delims
    OBVIOUS
  <2> QED BY <2>2, <2>3, StartAt
<1>8. \A q \in (a + 3)..b : Start(q) = q
  <2> TAKE q \in (a + 3)..b
  <2>1. q - 1 \in (a + 2)..b /\ q - 1 \in 1..Len(text)
    BY <1>0, <1>3, <1>4
  <2>2. q - 1 \in Delims
    BY <1>5, <2>1
  <2>3. q \in Nat /\ q \in 1..q /\ \A p \in q..(q - 1) : p \notin Delims
    BY <1>4
  <2> QED BY <2>2, <2>3, StartAt
<1>9. Start(a + 2) = a + 1
  <2>1. a \in 1..a /\ a \in 1..Len(text) /\ (a + 1) - 1 = a
    BY <1>0, <1>3, <1>4
  <2>2. (a + 1) - 1 \in Delims
    BY <1>5, <2>1
  <2>3. \A p \in (a + 1)..((a + 2) - 1) : p \notin Delims
    <3> TAKE p \in (a + 1)..((a + 2) - 1)
    <3>1. p = a + 1 /\ p \in 1..Len(text)
      BY <1>0, <1>3, <1>4
    <3>2. ~(p \in 1..a) /\ ~(p \in (a + 2)..b)
      BY <1>4, <3>1
    <3> QED BY <1>5, <3>1, <3>2
  <2>4. a + 2 \in Nat /\ a + 1 \in 1..(a + 2)
    BY <1>4
  <2> QED BY <2>2, <2>3, <2>4, StartAt
<1>10. Start(end) = b + 1
  <2>1. b \in (a + 2)..b /\ b \in 1..Len(text) /\ (b + 1) - 1 = b
    BY <1>0, <1>3, <1>4
  <2>2. (b + 1) - 1 \in Delims
    BY <1>5, <2>1
  <2>3. \A p \in (b + 1)..(end - 1) : p \notin Delims
    <3> TAKE p \in (b + 1)..(end - 1)
    <3>1. p \in 1..Len(text) /\ ~(p \in 1..a) /\ ~(p \in (a + 2)..b)
      BY <1>0, <1>3, <1>4
    <3> QED BY <1>5, <3>1
  <2>4. b + 1 \in 1..end
    BY <1>4
  <2> QED BY <2>2, <2>3, <2>4, StartAt
<1>11. TokenEnds = {a + 2, end}
  <2>1. \A e \in Delims : Long(Start(e), e) <=> e = a + 2
    <3> TAKE e \in Delims
    <3>1. e \in 1..a \/ e = a + 2 \/ e \in (a + 3)..b
      BY <1>4, <1>5, <1>6
    <3>2. CASE e \in 1..a \/ e \in (a + 3)..b
      <4>1. Start(e) = e /\ e \in Nat /\ e # a + 2
        BY <1>4, <1>7, <1>8, <3>2
      <4>2. ~(e - e > 1) /\ ~(e - e = 1)
        BY <4>1
      <4> QED BY <4>1, <4>2 DEF Long
    <3>3. CASE e = a + 2
      <4>1. Start(e) = a + 1 /\ e - (a + 1) = 1
        BY <1>4, <1>9, <3>3
      <4>2. text[a + 1] \in Words
        BY <1>1, SymbolsAssumption
      <4> QED BY <3>3, <4>1, <4>2 DEF Long
    <3> QED BY <3>1, <3>2, <3>3
  <2>2. a + 2 \in Delims
    <3>1. a + 2 \in (a + 2)..b /\ a + 2 \in 1..Len(text)
      BY <1>0, <1>3, <1>4
    <3> QED BY <1>5, <3>1
  <2>3. Start(end) < end
    BY <1>4, <1>10
  <2>4. {e \in {Len(text) + 1} : Start(e) < e} = {end}
    BY <1>3, <2>3
  <2>5. {e \in Delims : Long(Start(e), e)} = {a + 2}
    BY <2>1, <2>2
  <2> QED BY <2>4, <2>5 DEF TokenEnds
<1>12. IdOf(text) = SubSeq(text, b + 1, Len(text))
  <2> DEFINE Last(p) == text[p] = "/" /\ \A q \in (p+1)..Len(text) : text[q] # "/"
  <2>1. \A p \in 1..Len(text) : text[p] = "/" <=> p \in Delims
    BY DEF Delims
  <2>2. \A p \in 1..Len(text) : Last(p) <=> p = b
    <3> TAKE p \in 1..Len(text)
    <3>1. b \in 1..Len(text) /\ b \in Delims
      <4>1. b \in (a + 2)..b /\ b \in 1..Len(text)
        BY <1>0, <1>3, <1>4
      <4> QED BY <1>5, <4>1
    <3>2. \A q \in (b + 1)..Len(text) : text[q] # "/"
      BY <1>2, SymbolsAssumption
    <3>3. ASSUME Last(p) PROVE p = b
      <4>1. p \in Delims
        BY <3>3, <2>1
      <4>2. p <= b
        BY <1>4, <1>5, <4>1
      <4>3. p < b => b \in (p + 1)..Len(text)
        BY <3>1
      <4>4. ~(p < b)
        BY <2>1, <3>1, <3>3, <4>3
      <4> QED BY <1>4, <4>2, <4>4
    <3>4. ASSUME p = b PROVE Last(p)
      BY <2>1, <3>1, <3>2, <3>4
    <3> QED BY <3>3, <3>4
  <2>3. b \in 1..Len(text)
    BY <1>0, <1>3, <1>4
  <2>4. IdOf(text) =
           SubSeq(text, (CHOOSE p \in 1..Len(text) : Last(p)) + 1, Len(text))
    BY DEF IdOf
  <2> HIDE DEF Last
  <2>5. (CHOOSE p \in 1..Len(text) : Last(p)) = b
    BY <2>2, <2>3
  <2> QED BY <2>4, <2>5
<1>13. TokenOf(end) = SubSeq(text, b + 1, Len(text))
  <2>1. \A q \in Start(end)..(end - 1) : text[q] \notin Blanks
    <3> TAKE q \in Start(end)..(end - 1)
    <3>1. q \in (b + 1)..Len(text)
      BY <1>0, <1>3, <1>4, <1>10
    <3> QED BY <1>2, <3>1, SymbolsAssumption
  <2>2. b + 1 \in Start(end)..(end - 1) /\ text[b + 1] \notin Blanks
    <3>1. b + 1 \in Start(end)..(end - 1)
      BY <1>4, <1>10
    <3> QED BY <2>1, <3>1
  <2>3. end \in TokenEnds
    BY <1>11
  <2>4. PICK f \in Nat, t \in Nat, u \in Nat :
              /\ Start(end) <= f /\ f <= t /\ t < end
              /\ t <= u /\ u <= Len(text)
              /\ \A q \in Start(end)..(f - 1) : text[q] \in Blanks
              /\ \A q \in (t + 1)..(end - 1) : text[q] \in Blanks
              /\ TokenOf(end) = SubSeq(text, f, u)
              /\ f = Start(end) => u = t
    BY <2>2, <2>3, InkPieces
  <2>5. f = b + 1
    <3>1. f # b + 1 => b + 1 \in Start(end)..(f - 1)
      BY <1>4, <1>10, <2>4
    <3> QED BY <2>2, <2>4, <3>1
  <2>6. t = Len(text)
    <3>1. t # Len(text) => end - 1 \in (t + 1)..(end - 1)
                           /\ end - 1 \in Start(end)..(end - 1)
      BY <1>0, <1>3, <1>4, <1>10, <2>4
    <3> QED BY <2>1, <2>4, <3>1
  <2> QED BY <1>10, <2>4, <2>5, <2>6
<1>14. a + 2 \in Nat /\ a + 2 < end
  BY <1>4
<1> QED BY <1>3, <1>11, <1>12, <1>13, <1>14

-----------------------------------------------------------------------------
(* The search for a route. *)

\* No route before the k-th handles the request.
NoneBefore(k) == \A j \in 1..(k - 1) : ~Handles(PathHandlers[j], method, text)

\* The program serves with the whole table; the search for a route has come
\* to at, and a handler that was chosen is that of a route that fits.
DispatchInv ==
    /\ Len(routes) <= Count
    /\ \A k \in 1..Len(routes) : routes[k] = PathHandlers[k]
    /\ use # "none" => Len(routes) = Count
    /\ Routing => stage = "idle" /\ at \in 1..(Count + 1) /\ NoneBefore(at)
    /\ (use = "request" /\ ~Routing) =>
          \/ /\ handler = "mg_serve_http" /\ stage = "idle"
             /\ NoneBefore(Count + 1)
          \/ /\ at \in 1..Count
             /\ Handles(PathHandlers[at], method, text)
             /\ handler = PathHandlers[at].handler
             /\ IF PathHandlers[at].id THEN stage # "idle" /\ delim = "/"
                ELSE stage = "idle"

LEMMA InitDispatch == Init => DispatchInv
<1> SUFFICES ASSUME Init PROVE DispatchInv
  OBVIOUS
<1>1. Len(routes) = 0 /\ use = "none"
  BY DEF Init
<1> QED BY <1>1 DEF DispatchInv, Routing, Count

\* Once a handler was chosen the search is over.
LEMMA NamedHandlers == \A k \in 1..Count : PathHandlers[k].handler # "none"
<1>1. /\ PathHandlers[1].handler = "channel_index"
      /\ PathHandlers[2].handler = "streamer_create"
      /\ PathHandlers[3].handler = "streamer_update"
      /\ PathHandlers[4].handler = "source_index"
      /\ PathHandlers[5].handler = "source_streamer_create"
      /\ PathHandlers[6].handler = "source_streamer_update"
  BY DEF PathHandlers, Route
<1>2. 1..Count = {1, 2, 3, 4, 5, 6}
  BY DEF Count
<1> QED BY <1>1, <1>2

\* A turn of the loop of router_handle.
LEMMA TryDispatch ==
    ASSUME FaithInv, DispatchInv, TryRoute
    PROVE  DispatchInv'
<1>1. /\ use = "request" /\ handler = "none" /\ at <= Len(routes)
      /\ UNCHANGED <<routes, use, method>>
  BY DEF TryRoute, Routing, CallHandler
<1>2. /\ Len(routes) = Count /\ stage = "idle" /\ at \in 1..(Count + 1)
      /\ NoneBefore(at) /\ Routing
  BY <1>1 DEF DispatchInv, Routing
<1>3. at \in 1..Count /\ routes[at] = PathHandlers[at]
  BY <1>1, <1>2 DEF DispatchInv
<1>4. CASE Handles(routes[at], method, text)
  <2>1. CallHandler(PathHandlers[at]) /\ at' = at
    BY <1>3, <1>4 DEF TryRoute, CallHandler
  <2>2. handler' = PathHandlers[at].handler /\ handler' # "none"
    BY <1>3, <2>1, NamedHandlers DEF CallHandler
  <2>3. text' = text
        /\ (IF PathHandlers[at].id THEN stage' # "idle" /\ delim' = "/"
            ELSE stage' = "idle")
    <3>1. CASE PathHandlers[at].id
      <4>1. TokensCreate(text, "/")
        BY <2>1, <3>1 DEF CallHandler
      <4> QED BY <3>1, <4>1 DEF TokensCreate
    <3>2. CASE ~PathHandlers[at].id
      BY <1>2, <2>1, <3>2 DEF CallHandler, tokenVars
    <3> QED BY <3>1, <3>2
  <2>4. Handles(PathHandlers[at'], method', text')
    BY <1>1, <1>3, <1>4, <2>1, <2>3
  <2>5. ~Routing'
    BY <2>2 DEF Routing
  <2> QED
    BY <1>1, <1>2, <1>3, <2>1, <2>2, <2>3, <2>4, <2>5 DEF DispatchInv
<1>5. CASE ~Handles(routes[at], method, text)
  <2>1. at' = at + 1 /\ UNCHANGED <<tokenVars, handler>>
    BY <1>5 DEF TryRoute
  <2>2. text' = text /\ stage' = stage
    BY <2>1 DEF tokenVars
  <2>3. NoneBefore(at)'
    <3>1. \A j \in 1..(at' - 1) : j \in 1..(at - 1) \/ j = at
      BY <1>3, <2>1
    <3>2. \A j \in 1..(at' - 1) : ~Handles(PathHandlers[j], method, text)
      BY <1>2, <1>3, <1>5, <3>1 DEF NoneBefore
    <3> QED BY <1>1, <2>2, <3>2 DEF NoneBefore
  <2>4. at' \in 1..(Count + 1)
    BY <1>3, <2>1 DEF Count
  <2>5. Routing'
    BY <1>1, <2>1 DEF Routing
  <2> QED BY <1>1, <1>2, <2>2, <2>3, <2>4, <2>5 DEF DispatchInv
<1> QED BY <1>4, <1>5

LEMMA DispatchStep ==
    FaithInv /\ DispatchInv /\ [Next]_vars => DispatchInv'
<1> SUFFICES ASSUME FaithInv, DispatchInv, [Next]_vars PROVE DispatchInv'
  OBVIOUS
<1>1. CASE UNCHANGED vars
  BY <1>1 DEF vars, tokenVars, DispatchInv, Routing, NoneBefore
<1>2. CASE AddRoute
  <2> DEFINE r == PathHandlers[Len(routes) + 1]
  <2>1. /\ Len(routes) < Count /\ routes' = Append(routes, r)
        /\ UNCHANGED <<tokenVars, use, method, at, handler>>
    BY <1>2, Table DEF AddRoute
  <2>2. use' = "none"
    <3>1. Len(routes) \in Nat
      BY DEF FaithInv, RequestsInv, TableInv
    <3> QED BY <2>1, <3>1 DEF DispatchInv, Count
  <2>3. PICK S : routes \in Seq(S)
    BY DEF FaithInv, RequestsInv, TableInv
  <2> HIDE DEF r
  <2>4. /\ Len(routes') = Len(routes) + 1 /\ Len(routes) \in Nat
        /\ \A k \in 1..Len(routes) : routes'[k] = routes[k]
        /\ routes'[Len(routes) + 1] = r
    BY <2>1, <2>3
  <2>5. Len(routes') <= Count
    BY <2>1, <2>4 DEF Count
  <2>6. \A k \in 1..Len(routes') : routes'[k] = PathHandlers[k]
    <3> TAKE k \in 1..Len(routes')
    <3>1. k \in 1..Len(routes) \/ k = Len(routes) + 1
      BY <2>4
    <3>2. r = PathHandlers[Len(routes) + 1]
      BY DEF r
    <3> QED BY <2>4, <3>1, <3>2 DEF DispatchInv
  <2> QED BY <2>2, <2>5, <2>6 DEF DispatchInv, Routing
<1>3. CASE Receive
  <2>1. /\ stage = "idle" /\ stage' = "idle" /\ use' = "request"
        /\ at' = 1 /\ handler' = "none" /\ routes' = routes
        /\ Len(routes) = Len(PathHandlers)
    BY <1>3 DEF Receive, Ready, FaithInv, RequestsInv, CallersInv
  <2>2. Routing' /\ Len(routes) = Count
    BY <2>1, Table DEF Routing
  <2>3. NoneBefore(at)' /\ at' \in 1..(Count + 1)
    BY <2>1 DEF NoneBefore, Count
  <2> QED BY <2>1, <2>2, <2>3 DEF DispatchInv
<1>4. CASE TryRoute
  BY <1>4, TryDispatch
<1>5. CASE ServeFile
  <2>1. /\ use = "request" /\ Routing /\ at > Len(routes)
        /\ handler' = "mg_serve_http"
        /\ UNCHANGED <<tokenVars, routes, use, method, at>>
    BY <1>5 DEF ServeFile, Routing
  <2>2. /\ Len(routes) = Count /\ at \in 1..(Count + 1) /\ NoneBefore(at)
        /\ stage = "idle"
    BY <2>1 DEF DispatchInv
  <2>3. at = Count + 1
    BY <2>1, <2>2 DEF Count
  <2>4. text' = text /\ stage' = "idle" /\ method' = method
    BY <2>1, <2>2 DEF tokenVars
  <2>5. NoneBefore(Count + 1)'
    BY <2>2, <2>3, <2>4 DEF NoneBefore
  <2>6. ~Routing'
    BY <2>1 DEF Routing
  <2> QED BY <2>1, <2>2, <2>4, <2>5, <2>6 DEF DispatchInv
<1>6. CASE ReadText
  <2>1. /\ Len(routes) = Len(PathHandlers) /\ routes' = routes
        /\ use' \in {"line", "reply"}
    BY <1>6 DEF ReadText, Ready
  <2> QED BY <2>1, Table DEF DispatchInv, Routing
<1>7. CASE Tokenize
  <2>1. /\ text' = text /\ delim' = delim /\ stage # "idle" /\ stage' # "idle"
        /\ UNCHANGED <<routes, use, method, at, handler>>
    BY <1>7
    DEF Tokenize, TokensStep, CountStep, CountEnd, FillStep, FillEnd
  <2>2. ~Routing /\ ~Routing'
    BY <2>1 DEF DispatchInv, Routing
  <2> QED BY <2>1, <2>2 DEF DispatchInv
<1>8. CASE TokensDestroy
  <2>1. use' = "none" /\ routes' = routes
    BY <1>8 DEF TokensDestroy
  <2> QED BY <2>1 DEF DispatchInv, Routing
<1> QED
  BY <1>1, <1>2, <1>3, <1>4, <1>5, <1>6, <1>7, <1>8 DEF Next

LEMMA DispatchedFromInv == FaithInv /\ DispatchInv => Dispatched
<1> DEFINE fit == {k \in DOMAIN PathHandlers :
                     Handles(PathHandlers[k], method, text)}
<1> SUFFICES ASSUME FaithInv, DispatchInv, use = "request", ~Routing,
                    stage \in {"idle", "done"}
             PROVE  \/ fit = {} /\ handler = "mg_serve_http"
                    \/ \E k \in fit :
                          /\ fit = {k}
                          /\ handler = PathHandlers[k].handler
                          /\ PathHandlers[k].id =>
                                n = 2 /\ UriField(1) = IdOf(text)
  BY DEF Dispatched
<1>1. fit = {k \in 1..Count : Handles(PathHandlers[k], method, text)}
  BY Table
<1>2. text \in Seq(Symbols) /\ Len(text) < Width
  BY TextFits
<1>3. CASE handler = "mg_serve_http" /\ NoneBefore(Count + 1)
  <2>1. (Count + 1) - 1 = Count
    BY DEF Count
  <2> QED BY <1>1, <1>3, <2>1 DEF NoneBefore
<1>4. CASE /\ at \in 1..Count
           /\ Handles(PathHandlers[at], method, text)
           /\ handler = PathHandlers[at].handler
           /\ IF PathHandlers[at].id THEN stage # "idle" /\ delim = "/"
              ELSE stage = "idle"
  <2>1. \A k \in fit : k = at
    BY <1>1, <1>2, <1>4, OneRoute
  <2>2. fit = {at} /\ at \in fit
    BY <1>1, <1>4, <2>1
  <2>3. ASSUME PathHandlers[at].id
        PROVE  n = 2 /\ UriField(1) = IdOf(text)
    <3>1. stage = "done" /\ delim = "/"
      BY <1>4, <2>3
    <3>2. /\ PathHandlers[at].word \in {"channels", "sources"}
          /\ Matches(PathHandlers[at], text)
      BY <1>4, Table DEF Handles
    <3>3. PICK w \in Nat :
              /\ TokenEnds = {w, Len(text) + 1} /\ w < Len(text) + 1
              /\ TokenOf(Len(text) + 1) = IdOf(text)
      BY <1>2, <2>3, <3>1, <3>2, UriTokens
    <3>4. PICK end \in Nat : end = Len(text) + 1
      BY <1>2
    <3>5. /\ n = Cardinality(TokenEnds)
          /\ \A e \in TokenEnds : sv[Rank(e)] = TokenOf(e)
      BY <3>1 DEF FaithInv, RequestsInv, TokensInv, Counted, Filled
    <3>6. Passed(end) = {w}
      BY <3>3, <3>4 DEF Passed
    <3>7. /\ IsFiniteSet({w}) /\ Cardinality({w}) = 1
          /\ TokenEnds = {w} \cup {end} /\ end \notin {w}
      <4>1. IsFiniteSet({w}) /\ Cardinality({w}) = 1
        BY FS_Singleton
      <4>2. TokenEnds = {w} \cup {end} /\ end \notin {w}
        BY <3>3, <3>4
      <4> QED BY <4>1, <4>2
    <3>8. Cardinality({w} \cup {end}) = Cardinality({w}) + 1
      BY <3>7, FS_AddElement
    <3>9. n = 2
      BY <3>5, <3>7, <3>8
    <3>10. Rank(end) = 1 /\ end \in TokenEnds
      BY <3>6, <3>7 DEF Rank
    <3> QED BY <3>3, <3>4, <3>5, <3>9, <3>10 DEF UriField
  <2> HIDE DEF fit
  <2> QED BY <1>4, <2>2, <2>3
<1> HIDE DEF fit
<1> QED BY <1>3, <1>4 DEF DispatchInv

\* router_handle chooses the one handler a URI and a method have, or none, and
\* the second token of a URI with an id is its last segment, however many
\* slashes the URI has.
THEOREM RequestsDispatched == Spec => []Dispatched
BY InitFaith, FaithStep, InitDispatch, DispatchStep, DispatchedFromInv, PTL
DEF Spec

-----------------------------------------------------------------------------
(* Tokens of an answer of Janus. *)

\* The token of a piece that begins with no blank begins as the piece does.
LEMMA FirstSymbol ==
    ASSUME text \in Seq(Symbols), Len(text) < Width, NEW e \in TokenEnds,
           text[Start(e)] \notin Blanks
    PROVE  /\ TokenOf(e) \in Seq(Symbols) /\ Len(TokenOf(e)) >= 1
           /\ TokenOf(e)[1] = text[Start(e)]
<1>1. /\ Start(e) \in 1..(e - 1) /\ Start(e) \in Nat /\ e \in Nat
      /\ Len(text) \in Nat
  BY Pieces
<1>2. Start(e) \in Start(e)..(e - 1)
  BY <1>1
<1>3. PICK f \in Nat, t \in Nat, u \in Nat :
              /\ Start(e) <= f /\ f <= t /\ t <= u /\ u <= Len(text)
              /\ \A q \in Start(e)..(f - 1) : text[q] \in Blanks
              /\ TokenOf(e) = SubSeq(text, f, u)
  BY <1>2, InkPieces
<1>4. f = Start(e)
  <2>1. f # Start(e) => Start(e) \in Start(e)..(f - 1)
    BY <1>1, <1>3
  <2> QED BY <1>3, <2>1
<1>5. f \in 1..Len(text) /\ u \in f..Len(text) /\ u - f + 1 >= 1
      /\ 1 \in 1..(u - f + 1) /\ f + 1 - 1 = f
  BY <1>1, <1>3, <1>4
<1>6. /\ TokenOf(e) \in Seq(Symbols) /\ Len(TokenOf(e)) = u - f + 1
      /\ TokenOf(e)[1] = text[f + 1 - 1]
  BY <1>3, <1>5, Slices
<1> QED BY <1>4, <1>5, <1>6

\* A sequence has a first element, or it is empty.
LEMMA NotEmpty ==
    ASSUME NEW S, NEW s \in Seq(S)
    PROVE  Len(s) >= 1 <=> s # <<>>
<1>1. Len(s) \in Nat /\ (Len(s) = 0 <=> s = <<>>)
  BY EmptySeq
<1> QED BY <1>1

\* What is left without the last element begins as before.
LEMMA AllButLast ==
    ASSUME NEW S, NEW s \in Seq(S), Len(s) >= 1, Len(s) # 1
    PROVE  /\ SubSeq(s, 1, Len(s) - 1) # <<>>
           /\ SubSeq(s, 1, Len(s) - 1)[1] = s[1]
<1> DEFINE l == Len(s) - 1
<1>1. /\ l \in 1..Len(s) /\ 1 \in 1..Len(s) /\ 1 \in 1..(l - 1 + 1)
      /\ l - 1 + 1 >= 1 /\ 1 + 1 - 1 = 1
  <2>1. Len(s) \in Nat
    OBVIOUS
  <2>2. \A m \in Nat : m >= 1 /\ m # 1 =>
           /\ m - 1 \in 1..m /\ 1 \in 1..m /\ 1 \in 1..(m - 1 - 1 + 1)
           /\ m - 1 - 1 + 1 >= 1
    OBVIOUS
  <2>3. 1 + 1 - 1 = 1
    OBVIOUS
  <2> QED BY <2>1, <2>2, <2>3, Zenon
<1> HIDE DEF l
<1>2. /\ SubSeq(s, 1, l) \in Seq(S)
      /\ Len(SubSeq(s, 1, l)) = l - 1 + 1
      /\ SubSeq(s, 1, l)[1] = s[1 + 1 - 1]
  BY <1>1, Slices
<1>3. SubSeq(s, 1, l) # <<>>
  <2>1. Len(SubSeq(s, 1, l)) >= 1
    BY <1>1, <1>2
  <2> QED BY <1>2, <2>1, NotEmpty
<1> QED BY <1>1, <1>2, <1>3 DEF l

\* What janus_instance_msg_get_id cuts off.
IsComma(c) == c = ","

\* The comma that is cut off does not come first.
LEMMA NumberFirst ==
    ASSUME NEW token \in Seq(Symbols), Len(token) >= 1, ~IsComma(token[1])
    PROVE  Number(Uncomma(token)) = Number(<<token[1]>>)
<1>1. Uncomma(token) # <<>> /\ Uncomma(token)[1] = token[1]
  <2>1. CASE IsComma(token[Len(token)])
    <3>1. Len(token) # 1
      BY <2>1
    <3>2. Uncomma(token) = SubSeq(token, 1, Len(token) - 1)
      BY <2>1 DEF Uncomma, IsComma
    <3> QED BY <3>1, <3>2, AllButLast
  <2>2. CASE ~IsComma(token[Len(token)])
    <3>1. Uncomma(token) = token
      BY <2>2 DEF Uncomma, IsComma
    <3>2. token # <<>>
      BY NotEmpty
    <3> QED BY <3>1, <3>2
  <2> QED BY <2>1, <2>2
<1> DEFINE c == token[1]
<1>2. <<c>> # <<>> /\ <<c>>[1] = c
  <2> HIDE DEF c
  <2> QED OBVIOUS
<1> QED BY <1>1, <1>2, Zenon DEF Number

\* The piece that begins at a has a token, and no other token ends in it.
LEMMA NextToken ==
    ASSUME text \in Seq(Symbols), NEW a \in 1..Len(text),
           a = 1 \/ a - 1 \in Delims, a \notin Delims,
           a + 1 \in Delims => text[a] \in Words
    PROVE  \E e \in TokenEnds : /\ Start(e) = a
                                /\ \A f \in TokenEnds : f < e => f < a
<1> DEFINE S == {q \in a..(Len(text) + 1) : q \in Delims \/ q = Len(text) + 1}
<1>0. Len(text) \in Nat /\ a \in Nat /\ a >= 1
  OBVIOUS
<1>1. PICK e \in S : \A q \in S : e <= q
  <2>1. Len(text) + 1 \in S /\ S \subseteq a..(Len(text) + 1)
    BY <1>0
  <2> HIDE DEF S
  <2>2. S # {} /\ S \subseteq Nat
    BY <1>0, <2>1
  <2> QED BY <2>2, LeastPosition
<1>2. e \in a..(Len(text) + 1) /\ (e \in Delims \/ e = Len(text) + 1)
  OBVIOUS
<1>3. e \in Nat /\ a < e
  <2>1. e # a
    BY <1>0, <1>2
  <2> QED BY <1>0, <1>2, <2>1
<1>4. \A q : (q \in Delims \/ q = Len(text) + 1) /\ q < e => q < a
  <2> SUFFICES ASSUME NEW q, q \in Delims \/ q = Len(text) + 1, q < e
               PROVE  q < a
    OBVIOUS
  <2>1. q \in Nat /\ q <= Len(text) + 1
    BY <1>0 DEF Delims
  <2>2. ~(q < a) => q \in S
    BY <1>0, <2>1
  <2>3. q \notin S
    <3> HIDE DEF S
    <3>1. \A r \in S : ~(r < e)
      <4>1. \A r \in S : r \in Nat
        BY <1>0 DEF S
      <4> QED BY <1>1, <1>3, <4>1
    <3> QED BY <3>1
  <2> QED BY <2>2, <2>3
<1> HIDE DEF S
<1>5. Start(e) = a
  <2>1. \A q \in a..(e - 1) : q \notin Delims
    <3> TAKE q \in a..(e - 1)
    <3>1. q < e /\ ~(q < a)
      BY <1>0, <1>3
    <3> QED BY <1>4, <3>1
  <2>2. a \in 1..e
    BY <1>0, <1>3
  <2> QED BY <1>3, <2>1, <2>2, StartAt
<1>6. e \in TokenEnds
  <2>1. CASE e = Len(text) + 1
    BY <1>3, <1>5, <2>1 DEF TokenEnds
  <2>2. CASE e \in Delims
    <3>1. Long(a, e)
      <4>1. CASE e = a + 1
        <5>1. e - a = 1 /\ text[a] \in Words
          BY <1>0, <2>2, <4>1
        <5> QED BY <5>1 DEF Long
      <4>2. CASE e # a + 1
        <5>1. e - a > 1
          BY <1>0, <1>3, <4>2
        <5> QED BY <5>1 DEF Long
      <4> QED BY <4>1, <4>2
    <3> QED BY <1>5, <2>2, <3>1 DEF TokenEnds
  <2> QED BY <1>2, <2>1, <2>2
<1>7. \A f \in TokenEnds : f < e => f < a
  BY <1>4 DEF TokenEnds
<1> QED BY <1>5, <1>6, <1>7

-----------------------------------------------------------------------------
(* An answer of Janus. *)

\* The ids of an answer.
Ids == {p \in 1..Len(text) : text[p] = "id:"}

\* A text as Janus prints it, cut at its blanks.
Answer == /\ text \in Seq(Symbols) /\ Len(text) < Width
          /\ delim = " " /\ AsPrinted(text)

\* An answer begins with a brace, and with no blank behind it.
LEMMA AnswerIs ==
    ASSUME Answer
    PROVE  /\ Len(text) \in Nat /\ Len(text) >= 1
           /\ \E c : c = text[1] /\ c = "{"
           /\ \A q \in 1..Len(text) : q \in Delims <=> text[q] = " "
           /\ 1 \notin Delims /\ 2 \notin Delims
<1>1. text \in Seq(Symbols) /\ text # <<>> /\ delim = " "
  BY DEF Answer, AsPrinted
<1>2. PICK c : c = text[1] /\ c = "{"
  BY Zenon DEF Answer, AsPrinted
<1>3. PICK d : d = text[2] /\ (Len(text) > 1 => d # " ")
  BY Zenon DEF Answer, AsPrinted
<1>4. Len(text) \in Nat /\ Len(text) >= 1
  <2>1. text \in Seq(Symbols) /\ text # <<>>
    BY <1>1
  <2> QED BY <2>1, NotEmpty
<1>5. \A q \in 1..Len(text) : q \in Delims <=> text[q] = " "
  BY <1>1 DEF Delims
<1>6. 1 \notin Delims
  <2>1. c # " "
    BY <1>2
  <2> QED BY <1>1, <1>2, <2>1, Zenon DEF Delims
<1>7. 2 \notin Delims
  <2>1. 2 \in 1..Len(text) => Len(text) > 1
    BY <1>4
  <2> QED BY <1>1, <1>3, <2>1, Zenon DEF Delims
<1> QED BY <1>1, <1>2, <1>4, <1>5, <1>6, <1>7, Zenon

\* The first slot has the token the answer begins with.
LEMMA FirstToken ==
    ASSUME Answer
    PROVE  \E e \in TokenEnds :
              Start(e) = 1 /\ Rank(e) = 0 /\ \A f \in TokenEnds : ~(f < e)
<1>1. /\ Len(text) \in Nat /\ 1 \in 1..Len(text) /\ text \in Seq(Symbols)
      /\ 1 \notin Delims /\ 1 + 1 \notin Delims
  <2>1. /\ Len(text) \in Nat /\ Len(text) >= 1
        /\ 1 \notin Delims /\ 2 \notin Delims
    BY AnswerIs
  <2>2. 1 \in 1..Len(text) /\ 1 + 1 = 2
    BY <2>1
  <2> QED BY <2>1, <2>2 DEF Answer
<1>2. PICK e \in TokenEnds : /\ Start(e) = 1
                             /\ \A f \in TokenEnds : f < e => f < 1
  BY <1>1, NextToken
<1>3. \A f \in TokenEnds : ~(f < e)
  <2>1. \A f \in TokenEnds : f \in Nat /\ ~(f < 1)
    BY <1>1, Pieces
  <2> QED BY <1>2, <2>1
<1>4. Passed(e) = {}
  BY <1>3 DEF Passed
<1> QED BY <1>2, <1>3, <1>4, FS_EmptySet DEF Rank

\* Each "id" of an answer is a token, and what follows it is the next.
LEMMA IdTokens ==
    ASSUME Answer, NEW p \in Ids
    PROVE  /\ p + 1 \in TokenEnds /\ Start(p + 1) = p /\ p >= 2
           /\ p + 2 \in 1..Len(text)
           /\ TokenOf(p + 1) = <<"id:">>
           /\ text[p + 2] \notin Blanks \cup {","}
           /\ \E e \in TokenEnds :
                 Start(e) = p + 2 /\ Rank(e) = Rank(p + 1) + 1
<1>1. /\ p \in 1..Len(text) /\ Len(text) \in Nat
      /\ text \in Seq(Symbols) /\ Len(text) < Width /\ DOMAIN text = 1..Len(text)
  <2>1. text \in Seq(Symbols) /\ Len(text) < Width
    BY DEF Answer
  <2>2. Len(text) \in Nat /\ DOMAIN text = 1..Len(text)
    BY <2>1
  <2>3. p \in 1..Len(text)
    BY DEF Ids
  <2> QED BY <2>1, <2>2, <2>3
<1>word. text[p] = "id:"
  BY DEF Ids
<1>value. p + 2 \in 1..Len(text)
  BY <1>1, <1>word, Zenon DEF Answer, AsPrinted
<1>2. /\ text[p - 1] = " " /\ text[p + 1] = " "
      /\ text[p + 2] \notin Blanks \cup {","}
      /\ \/ text[p + 2] \in Words
         \/ p + 2 = Len(text)
         \/ text[p + 3] # " "
  BY <1>1, <1>word, Zenon DEF Answer, AsPrinted
<1>3. p \in Nat /\ p >= 2
  <2>1. p # 1
    <3>1. PICK c : c = text[1] /\ c = "{"
      BY AnswerIs
    <3>2. text[p] # c
      BY <1>word, <3>1
    <3> QED BY <3>1, <3>2
  <2>2. p \in 1..Len(text)
    BY <1>1
  <2> QED BY <2>1, <2>2
<1>4. \A q \in 1..Len(text) : q \in Delims <=> text[q] = " "
  BY AnswerIs
<1>5. p - 1 \in Delims /\ p \notin Delims /\ p + 1 \in Delims
  <2>1. p - 1 \in 1..Len(text) /\ p + 1 \in 1..Len(text)
    BY <1>1, <1>value, <1>3
  <2>2. text[p] # " "
    BY <1>word
  <2> QED BY <1>1, <1>2, <1>4, <2>1, <2>2, Zenon
<1>6. Start(p + 1) = p
  <2>1. /\ p + 1 \in Nat /\ p \in 1..(p + 1)
        /\ \A q \in p..((p + 1) - 1) : q = p
    BY <1>3
  <2>2. \A q \in p..((p + 1) - 1) : q \notin Delims
    BY <1>5, <2>1
  <2> QED BY <1>5, <2>1, <2>2, StartAt
<1>7. p + 1 \in TokenEnds
  <2>1. (p + 1) - p = 1
    BY <1>3
  <2>2. text[p] \in Words
    BY <1>word, SymbolsAssumption
  <2> QED BY <1>5, <1>6, <2>1, <2>2 DEF TokenEnds, Long
<1>8. text[p] \notin Blanks
  BY <1>word, SymbolsAssumption, TokensAssumption
<1>9. TokenOf(p + 1) = <<"id:">>
  <2>1. p \in Start(p + 1)..((p + 1) - 1)
    BY <1>3, <1>6
  <2>2. PICK f \in Nat, t \in Nat, u \in Nat :
              /\ Start(p + 1) <= f /\ f <= t /\ t < p + 1
              /\ TokenOf(p + 1) = SubSeq(text, f, u)
              /\ f = Start(p + 1) => u = t
    BY <1>1, <1>7, <1>8, <2>1, InkPieces
  <2>3. f = p /\ t = p /\ u = p
    BY <1>3, <1>6, <2>2
  <2>4. p \in p..Len(text) /\ 1 \in 1..(p - p + 1) /\ p + 1 - 1 = p
        /\ p - p + 1 = 1
    BY <1>1, <1>3
  <2>5. /\ SubSeq(text, p, p) \in Seq(Symbols)
        /\ Len(SubSeq(text, p, p)) = p - p + 1
        /\ SubSeq(text, p, p)[1] = text[p + 1 - 1]
    BY <1>1, <2>4, Slices
  <2>6. TokenOf(p + 1) = SubSeq(text, p, p)
    BY <2>2, <2>3
  <2>7. \A s \in Seq(Symbols) : Len(s) = 1 => s = <<s[1]>>
    OBVIOUS
  <2>8. SubSeq(text, p, p) = <<text[p]>>
    BY <2>4, <2>5, <2>7
  <2> QED BY <1>word, <2>6, <2>8, Zenon
<1>10. \E e \in TokenEnds : /\ Start(e) = p + 2
                            /\ \A f \in TokenEnds : f < e => f < p + 2
  <2>1. /\ (p + 2) - 1 = p + 1 /\ (p + 2) + 1 = p + 3
    BY <1>3
  <2>2. (p + 2) - 1 \in Delims /\ p + 2 \notin Delims
    <3>1. text[p + 2] # " "
      BY <1>2, SymbolsAssumption
    <3>2. p + 2 \notin Delims
      BY <1>value, <1>4, <3>1, Zenon
    <3> QED BY <1>5, <2>1, <3>2
  <2>3. (p + 2) + 1 \in Delims => text[p + 2] \in Words
    <3>1. p + 3 \in Delims => p + 3 \in 1..Len(text)
      BY DEF Delims
    <3>2. p + 3 \in Delims => text[p + 3] = " "
      BY <1>4, <3>1, Zenon
    <3>3. p + 3 \in 1..Len(text) => p + 2 # Len(text)
      <4>1. p \in Nat /\ Len(text) \in Nat
        BY <1>1, <1>3
      <4>2. \A k, m \in Nat : k + 3 \in 1..m => k + 2 # m
        OBVIOUS
      <4> QED BY <4>1, <4>2, Zenon
    <3>4. p + 3 \in Delims => text[p + 2] \in Words
      BY <1>2, <3>1, <3>2, <3>3, Zenon
    <3> QED BY <2>1, <3>4
  <2> QED BY <1>1, <1>value, <2>2, <2>3, NextToken
<1>11. PICK e \in TokenEnds : /\ Start(e) = p + 2
                              /\ \A f \in TokenEnds : f < e => f < p + 2
  BY <1>10
<1>12. Rank(e) = Rank(p + 1) + 1
  <2>1. e \in Nat /\ p + 2 < e
    <3>1. Start(e) \in 1..(e - 1) /\ e \in Nat
      BY <1>1, Pieces
    <3> QED BY <1>3, <1>11, <3>1
  <2>2. \A f \in TokenEnds : ~(p + 1 < f /\ f < e)
    <3>1. \A f \in TokenEnds : f \in Nat
      BY <1>1, Pieces
    <3> QED BY <1>3, <1>11, <3>1
  <2>3. p + 1 < e
    BY <1>3, <2>1
  <2> QED BY <1>1, <1>7, <2>1, <2>2, <2>3, Ranks
<1> QED BY <1>value, <1>2, <1>3, <1>6, <1>7, <1>9, <1>11, <1>12

\* The token janus_instance_msg_get_id looks for.
IdWord == <<"id:">>

\* No other token is taken for an "id".
LEMMA TokensOfIds ==
    ASSUME Answer, NEW e \in TokenEnds, TokenOf(e) = IdWord
    PROVE  \E p \in Ids : e = p + 1
<1>1. text \in Seq(Symbols) /\ Len(text) < Width
  BY DEF Answer
<1>2. /\ e \in Nat /\ Start(e) \in 1..(e - 1) /\ Start(e) \in Nat
      /\ e <= Len(text) + 1 /\ Len(text) \in Nat
      /\ \A q \in Start(e)..(e - 1) : q \notin Delims
  BY <1>1, Pieces
<1>3. IdWord # <<>>
  BY DEF IdWord
<1>4. PICK q \in Start(e)..(e - 1) : text[q] \notin Blanks
  BY <1>1, <1>3, BlankPieces
<1>5. PICK f \in Nat, t \in Nat, u \in Nat :
              /\ Start(e) <= f /\ f <= t /\ t < e /\ t <= u /\ u <= Len(text)
              /\ TokenOf(e) = SubSeq(text, f, u)
  BY <1>1, <1>4, InkPieces
<1>6. f \in 1..Len(text) /\ u \in f..Len(text) /\ 1 \in 1..(u - f + 1)
      /\ f + 1 - 1 = f
  BY <1>2, <1>5
<1>7. Len(TokenOf(e)) = u - f + 1 /\ TokenOf(e)[1] = text[f + 1 - 1]
  BY <1>1, <1>5, <1>6, Slices
<1>8. f \in Ids
  <2>1. text[f] = IdWord[1]
    BY <1>6, <1>7
  <2>2. IdWord[1] = "id:"
    BY DEF IdWord
  <2> QED BY <1>6, <2>1, <2>2, Zenon DEF Ids
<1>9. f + 1 \in Delims
  <2>1. f + 1 \in TokenEnds /\ f + 2 \in 1..Len(text)
    BY <1>8, IdTokens, Zenon
  <2>2. f + 1 # Len(text) + 1
    BY <1>2, <1>5, <2>1
  <2> QED BY <2>1, <2>2 DEF TokenEnds
<1>10. ~(f + 1 \in Start(e)..(e - 1))
  BY <1>2, <1>9
<1>11. e = f + 1
  BY <1>2, <1>5, <1>10
<1> QED BY <1>8, <1>11

-----------------------------------------------------------------------------
(* The id of an answer. *)

\* The tokens that were counted are in their slots.
Stored == /\ n = Cardinality(TokenEnds)
          /\ \A e \in TokenEnds : sv[Rank(e)] = TokenOf(e)

\* The slot of a piece is one that was counted.
LEMMA RankBound ==
    ASSUME text \in Seq(Symbols), NEW e \in TokenEnds
    PROVE  Rank(e) \in 0..(Cardinality(TokenEnds) - 1)
<1>1. Len(text) \in Nat /\ Cardinality(TokenEnds) \in Nat
  BY EndsFinite
<1>2. PICK p \in Nat : p = Len(text) + 2
  BY <1>1
<1>3. \A f \in TokenEnds : f < p
  <2>1. \A f \in TokenEnds : f \in 1..(Len(text) + 1)
    BY Pieces
  <2> QED BY <1>1, <1>2, <2>1
<1>4. Rank(p) = Cardinality(TokenEnds)
  <2>1. Passed(p) = TokenEnds
    BY <1>3 DEF Passed
  <2> QED BY <2>1 DEF Rank
<1>5. Rank(e) \in Nat /\ Rank(e) < Rank(p)
  BY <1>3, Ranks
<1> QED BY <1>1, <1>4, <1>5

\* There are no more tokens than symbols, but for one.
LEMMA FewTokens ==
    ASSUME text \in Seq(Symbols)
    PROVE  Cardinality(TokenEnds) - 1 <= Len(text)
<1>1. Len(text) \in Nat /\ Cardinality(TokenEnds) \in Nat
  BY EndsFinite
<1>2. TokenEnds \subseteq 1..(Len(text) + 1)
  BY DEF TokenEnds, Delims
<1>3. /\ IsFiniteSet(1..(Len(text) + 1))
      /\ Cardinality(1..(Len(text) + 1)) = Len(text) + 1
  <2>1. Len(text) + 1 \in Int /\ 1 \in Int /\ 1 <= Len(text) + 1
        /\ Len(text) + 1 - 1 + 1 = Len(text) + 1
    BY <1>1
  <2>2. /\ IsFiniteSet(1..(Len(text) + 1))
        /\ Cardinality(1..(Len(text) + 1)) =
              IF 1 <= Len(text) + 1 THEN Len(text) + 1 - 1 + 1 ELSE 0
    BY <2>1, FS_Interval
  <2> QED BY <2>1, <2>2
<1>4. Cardinality(TokenEnds) <= Cardinality(1..(Len(text) + 1))
  BY <1>2, <1>3, FS_Subset
<1> QED BY <1>1, <1>3, <1>4

\* The slots tokens_check may find are those of the ids.
LEMMA MatchingIds ==
    ASSUME Answer, Stored, NEW s
    PROVE  s \in Matching(IdWord) <=> \E p \in Ids : s = Rank(p + 1)
<1>1. text \in Seq(Symbols)
  BY DEF Answer
<1>2. ASSUME s \in Matching(IdWord)
      PROVE  \E p \in Ids : s = Rank(p + 1)
  <2>1. s \in 0..(Cardinality(TokenEnds) - 1) /\ sv[s] = IdWord
    BY <1>2 DEF Matching, Stored
  <2>2. PICK e \in TokenEnds : Rank(e) = s
    BY <1>1, <2>1, SlotsRanked
  <2>3. TokenOf(e) = IdWord
    BY <2>1, <2>2 DEF Stored
  <2>4. PICK p \in Ids : e = p + 1
    BY <2>3, TokensOfIds
  <2> QED BY <2>2, <2>4
<1>3. ASSUME NEW p \in Ids, s = Rank(p + 1)
      PROVE  s \in Matching(IdWord)
  <2>1. p + 1 \in TokenEnds /\ TokenOf(p + 1) = IdWord
    BY IdTokens, Zenon DEF IdWord
  <2>2. s \in 0..(Cardinality(TokenEnds) - 1) /\ sv[s] = IdWord
    BY <1>1, <1>3, <2>1, RankBound DEF Stored
  <2> QED BY <2>2 DEF Matching, Stored
<1> QED BY <1>2, <1>3

\* The first id of an answer.
FirstId == CHOOSE p \in Ids : \A q \in Ids : p <= q

\* It is there if there is any.
LEMMA FirstIdIs ==
    ASSUME Ids # {}, text \in Seq(Symbols)
    PROVE  FirstId \in Ids /\ FirstId \in Nat /\ \A q \in Ids : FirstId <= q
<1>1. Ids \subseteq 1..Len(text)
  BY DEF Ids
<1>2. Ids \subseteq Nat
  <2>1. Len(text) \in Nat
    OBVIOUS
  <2> QED BY <1>1, <2>1
<1>3. \E p \in Ids : \A q \in Ids : p <= q
  BY <1>2, LeastPosition
<1>4. FirstId \in Ids /\ \A q \in Ids : FirstId <= q
  BY <1>3, Zenon DEF FirstId
<1> QED BY <1>2, <1>4

\* It is the one tokens_check finds.
LEMMA FirstSlot ==
    ASSUME Answer, Stored, Ids # {}
    PROVE  TokensCheck(IdWord) = Rank(FirstId + 1)
<1> DEFINE M == Matching(IdWord)
           low == Rank(FirstId + 1)
<1>1. text \in Seq(Symbols)
  BY DEF Answer
<1>2. FirstId \in Ids /\ FirstId \in Nat /\ \A q \in Ids : FirstId <= q
  BY <1>1, FirstIdIs
<1>3. FirstId + 1 \in TokenEnds
  BY <1>2, IdTokens
<1>4. low \in M
  BY <1>2, MatchingIds
<1>5. \A r \in M : r \in Nat /\ low <= r
  <2> SUFFICES ASSUME NEW r \in M PROVE r \in Nat /\ low <= r
    OBVIOUS
  <2>1. PICK p \in Ids : r = Rank(p + 1)
    BY MatchingIds
  <2>2. p + 1 \in TokenEnds /\ p + 1 \in Nat /\ p \in Nat
    <3>1. p + 1 \in TokenEnds
      BY IdTokens
    <3>2. p \in 1..Len(text)
      BY DEF Ids
    <3>3. p \in Nat
      <4>1. Len(text) \in Nat
        BY <1>1
      <4> QED BY <3>2, <4>1
    <3> QED BY <3>1, <3>3
  <2>3. r \in Nat /\ low \in Nat
    BY <1>1, <1>3, <2>1, <2>2, EndsFinite DEF Rank
  <2>4. CASE p = FirstId
    BY <2>1, <2>3, <2>4
  <2>5. CASE p # FirstId
    <3>1. FirstId + 1 < p + 1
      BY <1>2, <2>2, <2>5
    <3>2. low < r
      BY <1>1, <1>3, <2>1, <2>2, <3>1, Ranks
    <3> QED BY <2>3, <3>2
  <2> QED BY <2>4, <2>5
<1>6. M # {} /\ low \in Nat
  BY <1>4, <1>5
<1> HIDE DEF M, low
<1>7. PICK s : s = CHOOSE t \in M : \A r \in M : t <= r
  OBVIOUS
<1>8. s \in M /\ \A r \in M : s <= r
  BY <1>4, <1>5, <1>7, Zenon
<1>9. s = low
  BY <1>4, <1>5, <1>6, <1>8
<1> QED BY <1>6, <1>7, <1>9 DEF TokensCheck, M, low

\* janus_instance_msg_get_id, once tokens_check has answered.
LEMMA GetId ==
    ASSUME NEW s, s = TokensCheck(IdWord)
    PROVE  MsgGetId = IF s > 0 THEN Number(Uncomma(sv[(s + 1) % Width]))
                      ELSE "0"
BY Zenon DEF MsgGetId, IdWord

\* The token after the first "id" is read.
LEMMA IdNumber ==
    ASSUME Answer, Stored, Ids # {}
    PROVE  MsgGetId = Number(<<text[FirstId + 2]>>)
<1>1. text \in Seq(Symbols) /\ Len(text) < Width
  BY DEF Answer
<1>2. FirstId \in Ids /\ FirstId \in Nat
  BY <1>1, FirstIdIs
<1>3. PICK s : s = Rank(FirstId + 1)
  OBVIOUS
<1>4. /\ FirstId + 1 \in TokenEnds /\ Start(FirstId + 1) = FirstId
      /\ FirstId >= 2
  BY <1>2, IdTokens
<1>5. PICK e \in TokenEnds : Start(e) = FirstId + 2 /\ Rank(e) = s + 1
  BY <1>2, <1>3, IdTokens
<1>6. s \in Nat /\ s > 0
  <2>1. PICK f \in TokenEnds :
              Start(f) = 1 /\ Rank(f) = 0 /\ \A g \in TokenEnds : ~(g < f)
    BY FirstToken
  <2>2. f \in Nat
    BY <1>1, Pieces
  <2>3. f < FirstId + 1
    <3>1. f # FirstId + 1
      BY <1>2, <1>4, <2>1
    <3> QED BY <1>2, <1>4, <2>1, <2>2, <3>1
  <2>4. Rank(FirstId + 1) \in Nat /\ Rank(f) < Rank(FirstId + 1)
    <3>1. FirstId + 1 \in Nat
      BY <1>2
    <3> QED BY <1>1, <2>3, <3>1, Ranks
  <2> QED BY <1>3, <2>1, <2>4
<1>7. (s + 1) % Width = s + 1
  <2>1. s + 1 \in 0..(Cardinality(TokenEnds) - 1)
    BY <1>1, <1>5, RankBound
  <2>2. Cardinality(TokenEnds) \in Nat /\ Len(text) \in Nat
        /\ Cardinality(TokenEnds) - 1 <= Len(text)
    BY <1>1, EndsFinite, FewTokens
  <2>3. Width \in Nat \ {0} /\ s + 1 \in 0..(Width - 1)
    BY <1>1, <2>1, <2>2, TokensAssumption
  <2> QED BY <2>3, Remainders
<1>8. sv[s + 1] = TokenOf(e)
  BY <1>5 DEF Stored
<1>9. MsgGetId = Number(Uncomma(TokenOf(e)))
  <2>1. s = TokensCheck(IdWord)
    BY <1>3, FirstSlot
  <2>2. MsgGetId = IF s > 0 THEN Number(Uncomma(sv[(s + 1) % Width]))
                   ELSE "0"
    BY <2>1, GetId
  <2> QED BY <1>6, <1>7, <1>8, <2>2, Zenon
<1>10. /\ text[Start(e)] \notin Blanks /\ ~IsComma(text[Start(e)])
  <2>1. text[FirstId + 2] \notin Blanks \cup {","}
    BY <1>2, IdTokens, Zenon
  <2> QED BY <1>5, <2>1, Zenon DEF IsComma
<1>11. /\ TokenOf(e) \in Seq(Symbols) /\ Len(TokenOf(e)) >= 1
       /\ TokenOf(e)[1] = text[Start(e)]
  BY <1>1, <1>10, FirstSymbol
<1>12. Number(Uncomma(TokenOf(e))) = Number(<<TokenOf(e)[1]>>)
  BY <1>10, <1>11, NumberFirst
<1> QED BY <1>5, <1>9, <1>11, <1>12, Zenon

\* Without an "id" the slot that is read is the first, and no number.
LEMMA NoIdNumber ==
    ASSUME Answer, Stored, Ids = {}
    PROVE  MsgGetId = "0"
<1>1. text \in Seq(Symbols) /\ Len(text) < Width
  BY DEF Answer
<1>2. Width \in Nat /\ Width - 1 > 0
  <2>1. Len(text) \in Nat /\ Len(text) >= 1
    BY AnswerIs
  <2> QED BY <1>1, <2>1, TokensAssumption
<1>3. TokensCheck(IdWord) = Width - 1
  <2>1. Matching(IdWord) = {}
    BY MatchingIds
  <2> QED BY <2>1 DEF TokensCheck
<1>4. (Width - 1 + 1) % Width = 0
  <2>1. 0 \in 0..(Width - 1) /\ Width \in Nat \ {0}
    BY <1>2
  <2>2. (Width + 0) % Width = 0
    BY <2>1, Remainders
  <2>3. Width - 1 + 1 = Width + 0
    BY <1>2
  <2> QED BY <2>2, <2>3
<1>5. PICK e \in TokenEnds : Start(e) = 1 /\ Rank(e) = 0
  BY FirstToken
<1>6. MsgGetId = Number(Uncomma(TokenOf(e)))
  <2>1. PICK s : s = Width - 1
    OBVIOUS
  <2>2. MsgGetId = IF s > 0 THEN Number(Uncomma(sv[(s + 1) % Width]))
                   ELSE "0"
    BY <1>3, <2>1, GetId
  <2>3. s > 0 /\ (s + 1) % Width = 0
    BY <1>2, <1>4, <2>1
  <2>4. sv[0] = TokenOf(e)
    BY <1>5 DEF Stored
  <2> QED BY <2>2, <2>3, <2>4, Zenon
<1>7. PICK c : c = text[1] /\ c = "{"
  BY AnswerIs
<1>8. c \notin Blanks /\ ~IsComma(c) /\ c \notin Figures
  BY <1>7, SymbolsAssumption DEF IsComma
<1>9. text[Start(e)] = c
  BY <1>5, <1>7
<1>10. /\ TokenOf(e) \in Seq(Symbols) /\ Len(TokenOf(e)) >= 1
       /\ TokenOf(e)[1] = c
  <2>1. text[Start(e)] \notin Blanks
    BY <1>8, <1>9
  <2> QED BY <1>1, <1>9, <2>1, FirstSymbol
<1>11. Number(Uncomma(TokenOf(e))) = Number(<<c>>)
  <2>1. ~IsComma(TokenOf(e)[1])
    BY <1>8, <1>10
  <2>2. Number(Uncomma(TokenOf(e))) = Number(<<TokenOf(e)[1]>>)
    BY <1>10, <2>1, NumberFirst
  <2> QED BY <1>10, <2>2
<1>12. Number(<<c>>) = "0"
  <2>1. <<c>>[1] = c
    OBVIOUS
  <2> QED BY <1>8, <2>1, Zenon DEF Number
<1> QED BY <1>6, <1>11, <1>12

-----------------------------------------------------------------------------
\* An answer that is at hand is one of Janus', cut at its blanks.
ReplyInv == use = "reply" => text \in Replies /\ delim = " " /\ stage # "idle"

LEMMA InitReply == Init => ReplyInv
BY DEF Init, ReplyInv

LEMMA ReplyStep == ReplyInv /\ [Next]_vars => ReplyInv'
<1> SUFFICES ASSUME ReplyInv, [Next]_vars PROVE ReplyInv'
  OBVIOUS
<1>1. CASE UNCHANGED vars
  BY <1>1 DEF vars, tokenVars, ReplyInv
<1>2. CASE AddRoute
  BY <1>2 DEF AddRoute, tokenVars, ReplyInv
<1>3. CASE Receive
  BY <1>3 DEF Receive, ReplyInv
<1>4. CASE TryRoute
  <2>1. use = "request" /\ use' = use
    BY <1>4 DEF TryRoute, Routing, CallHandler
  <2> QED BY <2>1 DEF ReplyInv
<1>5. CASE ServeFile
  BY <1>5 DEF ServeFile, tokenVars, ReplyInv
<1>6. CASE ReadText
  BY <1>6 DEF ReadText, TokensCreate, ReplyInv
<1>7. CASE Tokenize
  <2>1. text' = text /\ delim' = delim /\ use' = use /\ stage' # "idle"
    BY <1>7
    DEF Tokenize, TokensStep, CountStep, CountEnd, FillStep, FillEnd
  <2>2. stage # "idle"
    BY <1>7
    DEF Tokenize, TokensStep, CountStep, CountEnd, FillStep, FillEnd
  <2> QED BY <2>1, <2>2 DEF ReplyInv
<1>8. CASE TokensDestroy
  BY <1>8 DEF TokensDestroy, ReplyInv
<1> QED
  BY <1>1, <1>2, <1>3, <1>4, <1>5, <1>6, <1>7, <1>8 DEF Next

LEMMA IdFromInv == FaithInv /\ ReplyInv => IdFound
<1> SUFFICES ASSUME FaithInv, ReplyInv, use = "reply", stage = "done"
             PROVE  MsgGetId = IF Ids = {} THEN "0"
                               ELSE Number(<<text[FirstId + 2]>>)
  BY Zenon DEF IdFound, Ids, FirstId
<1>1. Answer
  <2>1. text \in Replies /\ delim = " "
    BY DEF ReplyInv
  <2>2. AsPrinted(text)
    BY <2>1, RepliesAssumption
  <2>3. text \in Seq(Symbols) /\ Len(text) < Width
    BY TextFits
  <2> QED BY <2>1, <2>2, <2>3 DEF Answer
<1>2. Stored
  BY DEF FaithInv, RequestsInv, TokensInv, Counted, Filled, Stored
<1>3. CASE Ids = {}
  BY <1>1, <1>2, <1>3, NoIdNumber, Zenon
<1>4. CASE Ids # {}
  BY <1>1, <1>2, <1>4, IdNumber, Zenon
<1> QED BY <1>3, <1>4, Zenon

\* In every answer that is printed as Janus prints, janus_instance_msg_get_id
\* finds the first id; in one that has none it reads slot 0, past the wrap of
\* the unsigned sum, and finds no number there.
THEOREM IdsFound == Spec => []IdFound
BY InitFaith, FaithStep, InitReply, ReplyStep, IdFromInv, PTL DEF Spec

-----------------------------------------------------------------------------
(* Why the walks end. *)

\* tokens_create: each turn of a loop comes behind another delimiter, and the
\* last one ends the walk.
WalksAdvance ==
    [][Tokenize =>
          \/ stage = "count" /\ stage' = "fill"
          \/ stage = "fill" /\ stage' = "done"
          \/ /\ stage' = stage /\ text' = text
             /\ np < np' /\ np' <= Len(text) + 1]_vars

\* No walk is longer than the text.
THEOREM WalksAlwaysAdvance == Spec => WalksAdvance
<1> DEFINE Ahead == Tokenize =>
          \/ stage = "count" /\ stage' = "fill"
          \/ stage = "fill" /\ stage' = "done"
          \/ /\ stage' = stage /\ text' = text
             /\ np < np' /\ np' <= Len(text) + 1
<1>1. RequestsInv => Ahead
  <2> SUFFICES ASSUME RequestsInv, TokensStep PROVE Ahead
    BY DEF Tokenize
  <2>1. CASE CountEnd \/ FillEnd
    BY <2>1 DEF CountEnd, FillEnd
  <2>2. CASE CountStep \/ FillStep
    <3>1. /\ stage' = stage /\ text' = text /\ np' = Nnp + 1 /\ HasDelim
          /\ stage \in {"count", "fill"}
      BY <2>2 DEF CountStep, FillStep
    <3>2. AtPiece
      BY <3>1 DEF RequestsInv, TokensInv
    <3>3. Nnp \in np..Len(text)
      BY <3>1, <3>2, FirstDelim
    <3>4. np \in Nat /\ Len(text) \in Nat
      BY <3>2 DEF AtPiece
    <3>5. np < Nnp + 1 /\ Nnp + 1 <= Len(text) + 1
      BY <3>3, <3>4
    <3> QED BY <3>1, <3>5
  <2> HIDE DEF Ahead
  <2> QED BY <2>1, <2>2 DEF TokensStep
<1>2. WalksAdvance <=> [][Ahead]_vars
  BY DEF WalksAdvance
<1> HIDE DEF Ahead
<1> QED BY InitInv, StepInv, <1>1, <1>2, PTL DEF Spec

=============================================================================
