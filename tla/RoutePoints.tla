---------------------------- MODULE RoutePoints ----------------------------
(* SplitRoutePoints: from the text of a route in PostgreSQL to the points of  *)
(* a trip in MongoDB.  A text is a sequence of characters, of which only the  *)
(* white space and the delimiters matter.  A step is one iteration of one of  *)
(* the loops.                                                                 *)
EXTENDS Integers, Sequences, FiniteSets

CONSTANTS Letters,    \* characters without a meaning of their own
          Blanks,     \* what isspace holds of
          MaxLength   \* bound on the length of the text of a client

Bar == "|"

ASSUME BlanksAssumption ==
  " " \in Blanks /\ Blanks \cap {"-", ">", ",", ";", Bar} = {}

Characters == Letters \cup Blanks \cup {"-", ">", ",", ";", Bar}

\* What the check constraint of routes lets through.
Texts == UNION {[1 .. n -> Characters] : n \in 1 .. MaxLength}

VARIABLES
  raw,      \* the text of the route
  stage,    \* "replace" or "split": the loop; "pad": behind both; "stored"
  pass,     \* which delimiter is being replaced
  text,     \* normalized
  pos,      \* where the search goes on (start, in the second loop)
  points    \* the points of the trip

(* History, which the code does not read. *)
VARIABLES
  origin,   \* where in raw each character of text was, or its arrow began
  cuts      \* from where to where in raw each point was cut

vars == <<raw, stage, pass, text, pos, points, origin, cuts>>

\* SplitRoutePoints is called with raw.
Init ==
  /\ raw \in Texts
  /\ stage = "replace"
  /\ pass = 1
  /\ text = raw
  /\ pos = 1
  /\ points = <<>>
  /\ origin = [i \in 1 .. Len(raw) |-> i]
  /\ cuts = <<>>

-----------------------------------------------------------------------------
(* The loop over the delimiters *)

\* Mutant: a dash is enough for an arrow.
LooseDelimiters == << <<"-">>, <<",">>, <<";">> >>

Delimiters == << <<"-", ">">>, <<",">>, <<";">> >>

\* Delimiter d begins at position k.
OccursAt(d, k) ==
  /\ k + Len(Delimiters[d]) - 1 <= Len(text)
  /\ \A i \in 1 .. Len(Delimiters[d]) : text[k + i - 1] = Delimiters[d][i]

\* Where find can find the delimiter, from pos on.
Found == {k \in pos .. Len(text) : OccursAt(pass, k)}

\* s with x in the place of n elements from p on.
Spliced(s, p, n, x) ==
  [k \in 1 .. Len(s) - n + 1 |->
     IF k < p THEN s[k] ELSE IF k = p THEN x ELSE s[k + n - 1]]

Replace ==
  /\ stage = "replace"
  /\ \E p \in Found :
       /\ \A q \in Found : p <= q
       /\ text' = Spliced(text, p, Len(Delimiters[pass]), Bar)
       /\ origin' = Spliced(origin, p, Len(Delimiters[pass]), origin[p])
       /\ pos' = p + 1
  /\ UNCHANGED <<raw, stage, pass, points, cuts>>

\* npos: on to the next delimiter, or to the loop over the tokens.
NextDelimiter ==
  /\ stage = "replace"
  /\ Found = {}
  /\ IF pass < Len(Delimiters)
     THEN pass' = pass + 1 /\ UNCHANGED stage
     ELSE stage' = "split" /\ UNCHANGED pass
  /\ pos' = 1
  /\ UNCHANGED <<raw, text, points, origin, cuts>>

-----------------------------------------------------------------------------
(* The loop over the tokens *)

\* The token that begins at pos ends before the first bar, or with the text.
Bars == {k \in pos .. Len(text) : text[k] = Bar}

EndsAt(e) == e \in Bars \cup {Len(text) + 1} /\ \A k \in Bars : e <= k

\* Where the token shows something.
Visible(e) == {k \in pos .. e - 1 : text[k] \notin Blanks}

\* From f to l, without the blanks in front of it and behind it.
TrimCopy(e, f, l) ==
  f \in Visible(e) /\ l \in Visible(e) /\ \A k \in Visible(e) : f <= k /\ k <= l

\* Mutant: the bar is read again.
SameStart(e) == e

NextStart(e) == e + 1

Advance(e) ==
  /\ stage' = IF e = Len(text) + 1 THEN "pad" ELSE "split"
  /\ pos' = NextStart(e)
  /\ UNCHANGED <<raw, pass, text, origin>>

Push ==
  /\ stage = "split"
  /\ \E e \in pos .. Len(text) + 1 :
       /\ EndsAt(e)
       /\ \E f, l \in pos .. e - 1 :
            /\ TrimCopy(e, f, l)
            /\ points' = Append(points, SubSeq(text, f, l))
            /\ cuts' = Append(cuts, <<origin[f], origin[l]>>)
       /\ Advance(e)

\* A token that is blank is no point.
Skip ==
  /\ stage = "split"
  /\ \E e \in pos .. Len(text) + 1 :
       /\ EndsAt(e)
       /\ Visible(e) = {}
       /\ Advance(e)
  /\ UNCHANGED <<points, cuts>>

\* Mutant: a route of one point is left alone.
NoPadding == IF points = <<>> THEN <<raw>> ELSE points

\* A trip has two points at least.
Padded ==
  IF points = <<>> THEN <<raw, raw>>
  ELSE IF Len(points) = 1 THEN <<points[1], points[1]>>
  ELSE points

\* What SplitRoutePoints returns is stored with the trip; its locals are gone.
Store ==
  /\ stage = "pad"
  /\ stage' = "stored"
  /\ points' = Padded
  /\ pass' = 1 /\ text' = <<>> /\ pos' = 1 /\ origin' = <<>>
  /\ UNCHANGED <<raw, cuts>>

-----------------------------------------------------------------------------

Next == Replace \/ NextDelimiter \/ Push \/ Skip \/ Store

Spec == Init /\ [][Next]_vars

\* A function that has been called runs on.
FairSpec == Spec /\ WF_vars(Next)

-----------------------------------------------------------------------------
(* Properties *)

Stored == stage = "stored"

\* What the validator of the collection asks of points (minItems: 2), without
\* which the insert of every trip on the route would be refused.
TwoPoints == Stored => Len(points) >= 2

ArrowAt(i) == i \in 1 .. Len(raw) - 1 /\ raw[i] = "-" /\ raw[i + 1] = ">"

Separates(i) == raw[i] \in {",", ";", Bar} \/ ArrowAt(i) \/ ArrowAt(i - 1)

Shows(i) == ~Separates(i) /\ raw[i] \notin Blanks

\* From i to j there is no separator, and nothing more to show on either side
\* before there is one.
IsStretch(i, j) ==
  /\ i <= j
  /\ \A k \in i .. j : ~Separates(k)
  /\ Shows(i) /\ Shows(j)
  /\ \A k \in 1 .. i - 1 : Shows(k) => \E m \in k .. i : Separates(m)
  /\ \A k \in j + 1 .. Len(raw) : Shows(k) => \E m \in j .. k : Separates(m)

\* The stretches of the text between two separators that show something, less
\* the blanks around them: their first and last positions.
Stretches ==
  {pair \in (1 .. Len(raw)) \X (1 .. Len(raw)) : IsStretch(pair[1], pair[2])}

\* Pairs of positions that follow each other in the text.
InOrder(pairs) ==
  \A m, n \in 1 .. Len(pairs) : m < n => pairs[m][2] < pairs[n][1]

\* What is written there.
Written(pairs) ==
  [n \in 1 .. Len(pairs) |-> SubSeq(raw, pairs[n][1], pairs[n][2])]

\* The points for the stretches at pairs: one stretch is stored twice, and a
\* text without any as it is.
PointsFor(pairs) ==
  CASE Len(pairs) = 0 -> <<raw, raw>>
    [] Len(pairs) = 1 -> Written(pairs) \o Written(pairs)
    [] OTHER -> Written(pairs)

\* The points are the stretches of the text between its separators, in their
\* order, each once: nothing is lost, invented, cut or left untrimmed, whatever
\* delimiters meet.
PointsAreStretches ==
  Stored =>
    \E pairs \in [1 .. Cardinality(Stretches) -> Stretches] :
      InOrder(pairs) /\ points = PointsFor(pairs)

\* Both loops come to their end, on every text.
SplitReturns == <>Stored
=============================================================================
