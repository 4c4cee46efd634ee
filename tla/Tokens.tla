------------------------------- MODULE Tokens -------------------------------
(***************************************************************************)
(* The tokenizer (tokens.c) that every text the program reads goes         *)
(* through: lines of the channel file, URIs of requests, replies of Janus. *)
(* tokens_create walks twice over the text, once to count the tokens and   *)
(* once to cut them out, and allocates in between; each step below is one  *)
(* turn of one of its two loops.                                           *)
(*                                                                         *)
(* A text is a sequence of symbols.  A symbol is a character, or it stands *)
(* for a word of several.  Positions count from 1, slots, as in C, from 0. *)
(***************************************************************************)
EXTENDS Naturals, Sequences, FiniteSets

CONSTANTS
    Symbols,        \* what texts are made of
    Words,          \* symbols that stand for more than one character
    Blanks,         \* the blank and the newline
    Width,          \* number of values of a uint32_t
    NoToken         \* NULL

ASSUME TokensAssumption ==
    /\ Words \cap Blanks = {}
    /\ Width \in Nat \ {0}
    /\ NoToken \notin Seq(Symbols)

VARIABLES
    text, delim,    \* the arguments of tokens_create
    stage,          \* "idle", or the loop it is in, or "done"
    np,             \* where the rest of the text begins
    n,              \* the tokens counted
    i,              \* the slot to fill next
    sv              \* the slots filled so far

tokenVars == <<text, delim, stage, np, n, i, sv>>

Rest == np..Len(text)

\* strchr finds another delimiter; the first one is at Nnp.
HasDelim == \E p \in Rest : text[p] = delim

Nnp == CHOOSE p \in Rest :
         text[p] = delim /\ \A q \in np..(p-1) : text[q] # delim

\* The text from position a to before position b has more than one
\* character (nnp - np > 1).
Long(a, b) == b - a > 1 \/ (b - a = 1 /\ text[a] \in Words)

-----------------------------------------------------------------------------
(* substring_trim *)

\* How many of the l symbols from position a on are blank before the first
\* that is not, and after the last.
Leading(a, l) ==
    CHOOSE k \in 0..l : /\ \A q \in 0..(k-1) : text[a + q] \in Blanks
                        /\ k < l => text[a + k] \notin Blanks
Trailing(a, l) ==
    CHOOSE k \in 0..l : /\ \A q \in 0..(k-1) : text[a + l - 1 - q] \in Blanks
                        /\ k < l => text[a + l - 1 - k] \notin Blanks

\* strndup: at most l symbols, and no more than there are.
Strndup(a, l) ==
    SubSeq(text, a, IF a + l - 1 <= Len(text) THEN a + l - 1 ELSE Len(text))

\* Mutant of SubstringTrim: trailing blanks stay.
SubstringKept(a, l) == Strndup(a + Leading(a, l), l - Leading(a, l))

\* The copy starts after the leading blanks and is not shortened by them, so
\* it runs on behind the piece.  A piece of blanks only is counted twice,
\* and the unsigned difference wraps: it gives an empty token.
SubstringTrim(a, l) ==
    IF (l + 2 * Width - Leading(a, l) - Trailing(a, l)) % Width > 0
    THEN Strndup(a + Leading(a, l), l - Trailing(a, l))
    ELSE NoToken

-----------------------------------------------------------------------------
(* tokens_create *)

TokensInit ==
    /\ text = <<>> /\ delim = NoToken
    /\ stage = "idle"
    /\ np = 1 /\ n = 0 /\ i = 0
    /\ sv = <<>>

\* The call; with an empty text it would return without a result.
TokensCreate(t, d) ==
    /\ stage \in {"idle", "done"}
    /\ t # <<>>
    /\ text' = t /\ delim' = d
    /\ stage' = "count"
    /\ np' = 1 /\ n' = 0 /\ i' = 0
    /\ sv' = <<>>

\* Mutant of CountStep: a piece of one character counts.
CountAny ==
    /\ stage = "count" /\ HasDelim
    /\ n' = IF Nnp > np THEN n + 1 ELSE n
    /\ np' = Nnp + 1
    /\ UNCHANGED <<text, delim, stage, i, sv>>

CountStep ==
    /\ stage = "count" /\ HasDelim
    /\ n' = IF Long(np, Nnp) THEN n + 1 ELSE n
    /\ np' = Nnp + 1
    /\ UNCHANGED <<text, delim, stage, i, sv>>

\* What follows the last delimiter counts from one character on.
CountEnd ==
    /\ stage = "count" /\ ~HasDelim
    /\ n' = IF np <= Len(text) THEN n + 1 ELSE n
    /\ np' = 1
    /\ stage' = "fill"
    /\ UNCHANGED <<text, delim, i, sv>>

Store(token) == [s \in DOMAIN sv \cup {i} |-> IF s = i THEN token ELSE sv[s]]

FillStep ==
    /\ stage = "fill" /\ HasDelim
    /\ IF Long(np, Nnp)
       THEN sv' = Store(SubstringTrim(np, Nnp - np)) /\ i' = i + 1
       ELSE UNCHANGED <<sv, i>>
    /\ np' = Nnp + 1
    /\ UNCHANGED <<text, delim, stage, n>>

FillEnd ==
    /\ stage = "fill" /\ ~HasDelim
    /\ sv' = IF np <= Len(text)
             THEN Store(SubstringTrim(np, Len(text) + 1 - np)) ELSE sv
    /\ stage' = "done"
    /\ UNCHANGED <<text, delim, np, n, i>>

TokensStep == CountStep \/ CountEnd \/ FillStep \/ FillEnd

-----------------------------------------------------------------------------
(* tokens_check: the slot of a token that is the target, or -1 as the      *)
(* uint32_t its caller keeps it in.                                        *)
Matching(target) == {s \in 0..(n-1) : sv[s] = target}

\* Mutant of TokensCheck: the last one is returned.
TokensCheckLast(target) ==
    IF Matching(target) = {} THEN Width - 1
    ELSE CHOOSE s \in Matching(target) : \A r \in Matching(target) : r <= s

TokensCheck(target) ==
    IF Matching(target) = {} THEN Width - 1
    ELSE CHOOSE s \in Matching(target) : \A r \in Matching(target) : s <= r

-----------------------------------------------------------------------------
(* The tokens of a text, from the positions of its delimiters.             *)

Delims == {p \in 1..Len(text) : text[p] = delim}

\* Where the piece that ends before position e begins.
Start(e) == CHOOSE a \in 1..e : /\ a = 1 \/ a - 1 \in Delims
                                /\ \A q \in a..(e-1) : q \notin Delims

\* The ends of the pieces that make tokens: those of several characters, and
\* the last one, unless it is empty.
TokenEnds ==
    {e \in Delims : Long(Start(e), e)}
    \cup {e \in {Len(text) + 1} : Start(e) < e}

\* The slots are as many as were counted: nothing is written behind them,
\* and in the end none is left for tokens_destroy or a caller to find as
\* malloc returned it.
SlotsExact ==
    /\ DOMAIN sv \subseteq 0..(n-1)
    /\ stage = "done" => DOMAIN sv = 0..(n-1)

\* The piece of the text that ends before e, without the blanks around it.
Trimmed(e) ==
    LET a == Start(e)
        ink == {q \in a..(e-1) : text[q] \notin Blanks}
        first == CHOOSE q \in ink : \A r \in ink : q <= r
        last == CHOOSE q \in ink : \A r \in ink : r <= q
    IN  IF ink = {} THEN <<>> ELSE SubSeq(text, first, last)

\* Every piece that counts has its token, in order.  The token begins with
\* the text of the piece, and it is that text if no blank came first.
TokensFaithful ==
    stage = "done" =>
        LET ends == TokenEnds
        IN  \A e \in ends :
              LET token == sv[Cardinality({f \in ends : f < e})]
                  piece == Trimmed(e)
              IN  /\ token # NoToken
                  /\ Len(token) >= Len(piece)
                  /\ SubSeq(token, 1, Len(piece)) = piece
                  /\ text[Start(e)] \notin Blanks => token = piece
=============================================================================
