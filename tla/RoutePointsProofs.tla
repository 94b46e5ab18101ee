-------------------------- MODULE RoutePointsProofs --------------------------
(* The safety of RoutePoints for texts of every length, over every set of     *)
(* letters and white space, and points of every number.                       *)
(*                                                                            *)
(* A loop of the code is many steps of the specification, so that what it     *)
(* computes is an invariant.  In the first loop the text stays in step with   *)
(* raw (Ordered, Kept, Covered, Contiguous), and no delimiter is left behind  *)
(* (Replaced): a new bar neither completes an arrow nor makes another         *)
(* delimiter.  When it is over the bars are where raw has separators          *)
(* (BarsSeparate).  In the second loop the cuts are the stretches in front of *)
(* pos, all of them (AtToken), in their order: a token that shows something   *)
(* has one stretch in it (TokenIsStretch, OneStretch).                        *)
(*                                                                            *)
(* Stretches can be listed in one order only (OneList), so the cuts are the   *)
(* list of them that PointsAreStretches asks for.                             *)
EXTENDS RoutePoints, TLAPS, SequenceTheorems, FiniteSetTheorems

-----------------------------------------------------------------------------
(* The inductive invariant *)

\* The type invariant.
TypeOK ==
  /\ raw \in Seq(Characters)
  /\ stage \in {"replace", "split", "pad", "stored"}
  /\ pass \in 1 .. 3
  /\ text \in Seq(Characters)
  /\ pos \in Nat \ {0}
  /\ points \in Seq(Seq(Characters))
  /\ origin \in Seq(1 .. Len(raw)) /\ Len(origin) = Len(text)
  /\ cuts \in Seq((1 .. Len(raw)) \X (1 .. Len(raw)))

\* What a stage finds unused.
Unused ==
  /\ stage = "stored" => text = <<>> /\ pass = 1
  /\ stage = "replace" => points = <<>> /\ cuts = <<>>

(* While there is a text to work on *)

InText == stage \in {"replace", "split"}

\* The text is in the order of raw.
Ordered ==
  InText => \A j, k \in 1 .. Len(text) : j < k => origin[j] < origin[k]

\* A character is that of raw, or a bar in the place of a delimiter; the second
\* character of an arrow is gone.
Kept ==
  InText =>
    \A k \in 1 .. Len(text) :
      \/ text[k] = raw[origin[k]]
      \/ text[k] = Bar /\ raw[origin[k]] \in {",", ";"}
      \/ /\ text[k] = Bar /\ ArrowAt(origin[k])
         /\ \A j \in 1 .. Len(text) : origin[j] # origin[k] + 1

\* Nothing else is gone.
Covered ==
  InText =>
    \A i \in 1 .. Len(raw) :
      \E k \in 1 .. Len(text) :
        \/ origin[k] = i
        \/ origin[k] = i - 1 /\ ArrowAt(i - 1) /\ text[k] = Bar

\* Between two bars the text is as long as it was.
Contiguous ==
  InText =>
    \A j, k \in 1 .. Len(text) :
      j <= k /\ (\A m \in j .. k : text[m] # Bar) =>
        origin[k] - origin[j] = k - j

\* The delimiters of the passes before are gone, and those in front of pos.
Gone(d, k) ==
  \/ stage = "split"
  \/ stage = "replace" /\ d < pass
  \/ stage = "replace" /\ d = pass /\ k < pos

Replaced ==
  \A d \in 1 .. 3, k \in 1 .. Len(text) : Gone(d, k) => ~OccursAt(d, k)

\* The pair is a stretch in front of position k of the text.
Before(pair, k) == \A m \in k .. Len(text) : pair[2] < origin[m]

\* The loop over the tokens has cut the stretches in front of pos.
AtToken ==
  stage = "split" =>
    /\ pos <= Len(text) + 1
    /\ pos > 1 => text[pos - 1] = Bar
    /\ \A n \in 1 .. Len(cuts) : cuts[n] \in Stretches /\ Before(cuts[n], pos)
    /\ \A pair \in Stretches :
         Before(pair, pos) => \E n \in 1 .. Len(cuts) : cuts[n] = pair

\* And then all of them.
AllCut ==
  stage \in {"pad", "stored"} =>
    /\ \A n \in 1 .. Len(cuts) : cuts[n] \in Stretches
    /\ \A pair \in Stretches : \E n \in 1 .. Len(cuts) : cuts[n] = pair

CutsInOrder == InOrder(cuts)

\* The points are what is written there.
PointsAreCuts ==
  /\ stage \in {"split", "pad"} => points = Written(cuts)
  /\ stage = "stored" => points = PointsFor(cuts)

IInv ==
  /\ TypeOK /\ Unused
  /\ Ordered /\ Kept /\ Covered /\ Contiguous
  /\ Replaced
  /\ AtToken /\ AllCut /\ CutsInOrder /\ PointsAreCuts

-----------------------------------------------------------------------------
(* Texts and delimiters *)

\* A bar is a character, and white space is not a delimiter.
LEMMA CharacterFacts ==
  /\ Bar \in Characters /\ " " \in Characters
  /\ "-" \in Characters /\ ">" \in Characters
  /\ Bar = "|"
  /\ " " \in Blanks
  /\ "-" \notin Blanks /\ ">" \notin Blanks /\ "," \notin Blanks
  /\ ";" \notin Blanks /\ Bar \notin Blanks
  BY BlanksAssumption DEF Characters, Bar

\* The three delimiters.
LEMMA DelimiterFacts ==
  /\ Len(Delimiters) = 3
  /\ Len(Delimiters[1]) = 2 /\ Delimiters[1][1] = "-" /\ Delimiters[1][2] = ">"
  /\ Len(Delimiters[2]) = 1 /\ Delimiters[2][1] = ","
  /\ Len(Delimiters[3]) = 1 /\ Delimiters[3][1] = ";"
  BY DEF Delimiters

\* Where each of them occurs.
LEMMA OccursFacts ==
  ASSUME TypeOK, NEW k \in 1 .. Len(text)
  PROVE  /\ OccursAt(1, k) <=> /\ k + 1 \in 1 .. Len(text)
                               /\ text[k] = "-" /\ text[k + 1] = ">"
         /\ OccursAt(2, k) <=> text[k] = ","
         /\ OccursAt(3, k) <=> text[k] = ";"
<1>1. Len(text) \in Nat
  BY LenProperties DEF TypeOK
<1>2. OccursAt(2, k) <=> text[k] = ","
  <2>1. OccursAt(2, k) <=>
          k + 1 - 1 <= Len(text) /\ \A i \in 1 .. 1 : text[k + i - 1] = Delimiters[2][i]
    BY DelimiterFacts DEF OccursAt
  <2>2. (\A i \in 1 .. 1 : i = 1) /\ 1 \in 1 .. 1 /\ k + 1 - 1 = k /\ k <= Len(text)
    BY <1>1
  <2> QED
    BY <2>1, <2>2, DelimiterFacts
<1>3. OccursAt(3, k) <=> text[k] = ";"
  <2>1. OccursAt(3, k) <=>
          k + 1 - 1 <= Len(text) /\ \A i \in 1 .. 1 : text[k + i - 1] = Delimiters[3][i]
    BY DelimiterFacts DEF OccursAt
  <2>2. (\A i \in 1 .. 1 : i = 1) /\ 1 \in 1 .. 1 /\ k + 1 - 1 = k /\ k <= Len(text)
    BY <1>1
  <2> QED
    BY <2>1, <2>2, DelimiterFacts
<1>4. OccursAt(1, k) <=> /\ k + 1 \in 1 .. Len(text)
                         /\ text[k] = "-" /\ text[k + 1] = ">"
  <2>1. OccursAt(1, k) <=>
          k + 2 - 1 <= Len(text) /\ \A i \in 1 .. 2 : text[k + i - 1] = Delimiters[1][i]
    BY DelimiterFacts DEF OccursAt
  <2>2. /\ \A i \in 1 .. 2 : i = 1 \/ i = 2
        /\ 1 \in 1 .. 2 /\ 2 \in 1 .. 2
        /\ k + 1 - 1 = k /\ k + 2 - 1 = k + 1
        /\ k + 1 <= Len(text) <=> k + 1 \in 1 .. Len(text)
    BY <1>1
  <2> QED
    BY <2>1, <2>2, DelimiterFacts
<1> QED
  BY <1>2, <1>3, <1>4

\* The result of replace is a sequence, and this is where its elements are from.
LEMMA SplicedFacts ==
  ASSUME NEW S, NEW s \in Seq(S), NEW x \in S,
         NEW p \in 1 .. Len(s), NEW n \in Nat, 1 <= n, p + n - 1 <= Len(s)
  PROVE  /\ Spliced(s, p, n, x) \in Seq(S)
         /\ Len(Spliced(s, p, n, x)) = Len(s) - n + 1
         /\ \A k \in 1 .. Len(s) - n + 1 :
              Spliced(s, p, n, x)[k] =
                IF k < p THEN s[k] ELSE IF k = p THEN x ELSE s[k + n - 1]
<1> DEFINE e(k) == IF k < p THEN s[k] ELSE IF k = p THEN x ELSE s[k + n - 1]
<1> DEFINE m == Len(s) - n + 1
<1>1. Len(s) \in Nat /\ m \in Nat
  BY LenProperties
<1>2. \A k \in 1 .. m : e(k) \in S
  <2> TAKE k \in 1 .. m
  <2>1. CASE k < p
    BY <1>1, <2>1, ElementOfSeq
  <2>2. CASE k = p
    BY <2>2
  <2>3. CASE k > p
    <3>1. k + n - 1 \in 1 .. Len(s)
      BY <1>1, <2>3
    <3> QED
      BY <2>3, <3>1, ElementOfSeq
  <2> QED
    BY <1>1, <2>1, <2>2, <2>3
<1>3. Spliced(s, p, n, x) = [k \in 1 .. m |-> e(k)]
  BY DEF Spliced
<1>4. [k \in 1 .. m |-> e(k)] \in Seq(S)
  <2> HIDE DEF e
  <2> QED BY <1>1, <1>2, SeqDef
<1>5. Len([k \in 1 .. m |-> e(k)]) = m
  <2> HIDE DEF e
  <2> QED BY <1>1, <1>4, LenProperties
<1> QED
  BY <1>3, <1>4, <1>5

-----------------------------------------------------------------------------
(* The loop over the delimiters *)

\* How long the delimiter of this pass is.
Width == Len(Delimiters[pass])

\* Where in the text the k-th character is from, when the delimiter at p has
\* been replaced.
Source(p, k) == IF k <= p THEN k ELSE k + Width - 1

\* The delimiter at position p is replaced.
ReplacesAt(p) ==
  /\ p \in Found
  /\ \A q \in Found : p <= q
  /\ text' = Spliced(text, p, Width, Bar)
  /\ origin' = Spliced(origin, p, Width, origin[p])
  /\ pos' = p + 1
  /\ UNCHANGED <<raw, stage, pass, points, cuts>>

\* The lengths as numbers.
LEMMA Lengths ==
  ASSUME TypeOK
  PROVE  /\ Len(raw) \in Nat /\ Len(text) \in Nat /\ Len(cuts) \in Nat
         /\ Len(points) \in Nat
         /\ \A k \in 1 .. Len(text) :
              /\ text[k] \in Characters
              /\ origin[k] \in 1 .. Len(raw) /\ origin[k] \in Nat
         /\ \A i \in 1 .. Len(raw) : raw[i] \in Characters
         /\ \A n \in 1 .. Len(cuts) :
              /\ cuts[n] \in (1 .. Len(raw)) \X (1 .. Len(raw))
              /\ cuts[n][1] \in 1 .. Len(raw) /\ cuts[n][2] \in 1 .. Len(raw)
<1>1. /\ Len(raw) \in Nat /\ Len(text) \in Nat /\ Len(cuts) \in Nat
      /\ Len(points) \in Nat
  BY LenProperties DEF TypeOK
<1>2. ASSUME NEW k \in 1 .. Len(text)
      PROVE  text[k] \in Characters /\ origin[k] \in 1 .. Len(raw)
  BY ElementOfSeq DEF TypeOK
<1>3. ASSUME NEW i \in 1 .. Len(raw) PROVE raw[i] \in Characters
  BY ElementOfSeq DEF TypeOK
<1>4. ASSUME NEW n \in 1 .. Len(cuts)
      PROVE  cuts[n] \in (1 .. Len(raw)) \X (1 .. Len(raw))
  BY ElementOfSeq DEF TypeOK
<1> QED
  BY <1>1, <1>2, <1>3, <1>4

\* What a replacement does to the text and to its origin.
LEMMA ReplaceFacts ==
  ASSUME TypeOK, NEW p, ReplacesAt(p)
  PROVE  /\ p \in 1 .. Len(text) /\ p >= pos
         /\ Width = IF pass = 1 THEN 2 ELSE 1
         /\ p + Width - 1 <= Len(text)
         /\ OccursAt(pass, p)
         /\ text' \in Seq(Characters)
         /\ Len(text') = Len(text) - Width + 1
         /\ origin' \in Seq(1 .. Len(raw))
         /\ Len(origin') = Len(text')
         /\ text'[p] = Bar
         /\ \A k \in 1 .. Len(text') :
              /\ Source(p, k) \in 1 .. Len(text)
              /\ origin'[k] = origin[Source(p, k)]
              /\ k # p => text'[k] = text[Source(p, k)]
         /\ \A k \in 1 .. Len(text) :
              k # p + 1 \/ Width = 1 =>
                \E j \in 1 .. Len(text') : Source(p, j) = k
<1>1. p \in pos .. Len(text) /\ OccursAt(pass, p) /\ p \in 1 .. Len(text) /\ p >= pos
  BY Lengths DEF ReplacesAt, Found, TypeOK
<1>0. Len(text) \in Nat /\ p \in Nat
  BY <1>1, Lengths
<1>2. Width = IF pass = 1 THEN 2 ELSE 1
  <2>1. pass = 1 \/ pass = 2 \/ pass = 3
    BY DEF TypeOK
  <2> QED
    BY <2>1, DelimiterFacts DEF Width
<1>3. p + Width - 1 <= Len(text) /\ Width \in {1, 2} /\ Width \in Nat /\ 1 <= Width
  BY <1>1, <1>2 DEF OccursAt, Width
<1>4. /\ text' \in Seq(Characters)
      /\ Len(text') = Len(text) - Width + 1
      /\ \A k \in 1 .. Len(text) - Width + 1 :
           text'[k] = IF k < p THEN text[k] ELSE IF k = p THEN Bar
                      ELSE text[k + Width - 1]
  <2>1. text \in Seq(Characters) /\ Bar \in Characters
    BY CharacterFacts DEF TypeOK
  <2>2. text' = Spliced(text, p, Width, Bar)
    BY DEF ReplacesAt
  <2>3. /\ Spliced(text, p, Width, Bar) \in Seq(Characters)
        /\ Len(Spliced(text, p, Width, Bar)) = Len(text) - Width + 1
        /\ \A k \in 1 .. Len(text) - Width + 1 :
             Spliced(text, p, Width, Bar)[k] =
               IF k < p THEN text[k] ELSE IF k = p THEN Bar ELSE text[k + Width - 1]
    <3>1. Spliced(text, p, Width, Bar) \in Seq(Characters)
      BY <1>0, <1>1, <1>3, <2>1, SplicedFacts
    <3>2. Len(Spliced(text, p, Width, Bar)) = Len(text) - Width + 1
      BY <1>0, <1>1, <1>3, <2>1, SplicedFacts
    <3>3. ASSUME NEW k \in 1 .. Len(text) - Width + 1
          PROVE Spliced(text, p, Width, Bar)[k] =
               IF k < p THEN text[k] ELSE IF k = p THEN Bar ELSE text[k + Width - 1]
      BY <1>0, <1>1, <1>3, <2>1, SplicedFacts
    <3> QED BY <3>1, <3>2, <3>3
  <2> QED
    BY <2>2, <2>3
<1>5. /\ origin' \in Seq(1 .. Len(raw))
      /\ Len(origin') = Len(text')
      /\ \A k \in 1 .. Len(text) - Width + 1 :
           origin'[k] = IF k < p THEN origin[k] ELSE IF k = p THEN origin[p]
                        ELSE origin[k + Width - 1]
  <2> DEFINE positions == 1 .. Len(raw)
  <2> DEFINE x == origin[p]
  <2> DEFINE result == Spliced(origin, p, Width, x)
  <2>1. origin \in Seq(positions) /\ Len(origin) = Len(text)
    BY DEF TypeOK
  <2>2. x \in positions
    BY <1>1, Lengths
  <2>3. origin' = result
    BY DEF ReplacesAt
  <2>4. /\ p \in 1 .. Len(origin) /\ p + Width - 1 <= Len(origin)
        /\ Len(origin) \in Nat /\ p \in Nat /\ Width \in Nat /\ 1 <= Width
        /\ origin \in Seq(positions)
    BY <1>0, <1>1, <1>3, <2>1
  <2> HIDE DEF positions, x
  <2>5. result \in Seq(positions)
    BY <2>2, <2>4, SplicedFacts
  <2>6. Len(result) = Len(origin) - Width + 1
    BY <2>2, <2>4, SplicedFacts
  <2>7. ASSUME NEW k \in 1 .. Len(origin) - Width + 1
        PROVE  result[k] = IF k < p THEN origin[k] ELSE IF k = p THEN x
                           ELSE origin[k + Width - 1]
    BY <2>2, <2>4, SplicedFacts
  <2> HIDE DEF result
  <2> QED
    BY <1>4, <2>1, <2>3, <2>5, <2>6, <2>7 DEF positions, x
<1>6. Len(text) \in Nat
  BY Lengths
<1>7. p \in 1 .. Len(text') /\ text'[p] = Bar
  BY <1>1, <1>3, <1>4, <1>6
<1>8. ASSUME NEW k \in 1 .. Len(text')
      PROVE  /\ Source(p, k) \in 1 .. Len(text)
             /\ origin'[k] = origin[Source(p, k)]
             /\ k # p => text'[k] = text[Source(p, k)]
  <2>1. Source(p, k) = IF k <= p THEN k ELSE k + Width - 1
    BY DEF Source
  <2>0. k \in 1 .. Len(text) - Width + 1
    BY <1>4
  <2>2. CASE k < p
    <3>1. Source(p, k) = k /\ k \in 1 .. Len(text)
      BY <1>1, <1>3, <1>6, <2>0, <2>1, <2>2
    <3> QED
      BY <1>4, <1>5, <2>0, <2>2, <3>1
  <2>3. CASE k = p
    BY <1>1, <1>3, <1>4, <1>5, <1>6, <2>1, <2>3
  <2>4. CASE k > p
    <3>1. Source(p, k) = k + Width - 1 /\ Source(p, k) \in 1 .. Len(text)
          /\ ~(k < p) /\ k # p
      BY <1>1, <1>3, <1>6, <2>0, <2>1, <2>4
    <3> QED
      BY <1>4, <1>5, <2>0, <3>1
  <2> QED
    BY <1>1, <1>4, <1>6, <2>2, <2>3, <2>4
<1>9. ASSUME NEW k \in 1 .. Len(text), k # p + 1 \/ Width = 1
      PROVE  \E j \in 1 .. Len(text') : Source(p, j) = k
  <2>1. CASE k <= p
    <3>1. k \in 1 .. Len(text') /\ Source(p, k) = k
      BY <1>1, <1>3, <1>4, <1>6, <2>1 DEF Source
    <3> QED
      BY <3>1
  <2>2. CASE k > p
    <3>1. /\ k - (Width - 1) \in 1 .. Len(text')
          /\ Source(p, k - (Width - 1)) = k
      BY <1>1, <1>3, <1>4, <1>6, <1>9, <2>2 DEF Source
    <3> QED
      BY <3>1
  <2> QED
    BY <1>1, <1>6, <2>1, <2>2
<1> QED
  BY <1>1, <1>2, <1>3, <1>4, <1>5, <1>7, <1>8, <1>9

\* What the invariant says of the text, without the condition on the stage.
LEMMA TextFacts ==
  ASSUME IInv, InText
  PROVE  /\ \A j, k \in 1 .. Len(text) : j < k => origin[j] < origin[k]
         /\ \A j, k \in 1 .. Len(text) : origin[j] = origin[k] => j = k
         /\ \A j, k \in 1 .. Len(text) : origin[j] < origin[k] => j < k
         /\ \A k \in 1 .. Len(text) :
              \/ text[k] = raw[origin[k]]
              \/ text[k] = Bar /\ raw[origin[k]] \in {",", ";"}
              \/ /\ text[k] = Bar /\ ArrowAt(origin[k])
                 /\ \A j \in 1 .. Len(text) : origin[j] # origin[k] + 1
         /\ \A i \in 1 .. Len(raw) :
              \E k \in 1 .. Len(text) :
                \/ origin[k] = i
                \/ origin[k] = i - 1 /\ ArrowAt(i - 1) /\ text[k] = Bar
         /\ \A j, k \in 1 .. Len(text) :
              j <= k /\ (\A m \in j .. k : text[m] # Bar) =>
                origin[k] - origin[j] = k - j
<1>1. \A j, k \in 1 .. Len(text) : j < k => origin[j] < origin[k]
  BY DEF IInv, Ordered
<1>2. ASSUME NEW j \in 1 .. Len(text), NEW k \in 1 .. Len(text)
      PROVE  /\ origin[j] = origin[k] => j = k
             /\ origin[j] < origin[k] => j < k
  <2>1. j \in Nat /\ k \in Nat /\ origin[j] \in Nat /\ origin[k] \in Nat
    BY Lengths DEF IInv
  <2>2. j < k \/ j = k \/ k < j
    BY <2>1
  <2> QED
    BY <1>1, <2>1, <2>2
<1>3. Kept /\ Covered /\ Contiguous
  BY DEF IInv
<1> QED
  BY <1>1, <1>2, <1>3 DEF Kept, Covered, Contiguous

\* Two characters of the text are in the order of their origins.
LEMMA TextOrder ==
  ASSUME IInv, InText, NEW j \in 1 .. Len(text), NEW k \in 1 .. Len(text)
  PROVE  /\ j \in Nat /\ k \in Nat /\ origin[j] \in Nat /\ origin[k] \in Nat
         /\ j < k <=> origin[j] < origin[k]
         /\ j <= k <=> origin[j] <= origin[k]
         /\ j = k <=> origin[j] = origin[k]
<1>1. j \in Nat /\ k \in Nat /\ origin[j] \in Nat /\ origin[k] \in Nat
  BY Lengths DEF IInv
<1>2. /\ j < k => origin[j] < origin[k]
      /\ k < j => origin[k] < origin[j]
      /\ j = k => origin[j] = origin[k]
  BY DEF IInv, Ordered
<1> QED
  BY <1>1, <1>2

\* Characters from neighbouring positions are neighbours.
LEMMA Adjacent ==
  ASSUME IInv, InText, NEW j \in 1 .. Len(text), NEW k \in 1 .. Len(text),
         origin[k] = origin[j] + 1
  PROVE  k = j + 1
<1>1. /\ j \in Nat /\ k \in Nat /\ origin[j] \in Nat /\ origin[k] \in Nat
      /\ j < k <=> origin[j] < origin[k]
  BY TextOrder
<1>2. j < k
  BY <1>1
<1>3. CASE j + 1 < k
  <2>1. j + 1 \in 1 .. Len(text)
    BY <1>1, <1>3
  <2>2. j < j + 1
    BY <1>1
  <2>3. origin[j] < origin[j + 1] /\ origin[j + 1] \in Nat
    BY <2>1, <2>2, TextOrder
  <2>4. origin[j + 1] < origin[k]
    BY <1>3, <2>1, TextOrder
  <2> QED
    BY <1>1, <2>3, <2>4
<1> QED
  BY <1>1, <1>2, <1>3

\* An arrow in the text is an arrow in raw.
LEMMA ArrowOrigin ==
  ASSUME IInv, InText, NEW p \in 1 .. Len(text), OccursAt(1, p)
  PROVE  /\ p + 1 \in 1 .. Len(text)
         /\ origin[p + 1] = origin[p] + 1
         /\ ArrowAt(origin[p])
<1>t. TypeOK
  BY DEF IInv
<1>1. p + 1 \in 1 .. Len(text) /\ text[p] = "-" /\ text[p + 1] = ">"
  BY <1>t, OccursFacts
<1>2. text[p] # Bar /\ text[p + 1] # Bar
  BY <1>1 DEF Bar
<1>3. raw[origin[p]] = "-" /\ raw[origin[p + 1]] = ">"
  BY <1>1, <1>2, TextFacts
<1>4. origin[p + 1] - origin[p] = (p + 1) - p
  <2>1. \A m \in p .. p + 1 : m = p \/ m = p + 1
    OBVIOUS
  <2>2. \A m \in p .. p + 1 : text[m] # Bar
    BY <1>2, <2>1
  <2>3. p <= p + 1
    OBVIOUS
  <2> QED
    BY <1>1, <2>2, <2>3, TextFacts
<1>5. /\ origin[p] \in 1 .. Len(raw) /\ origin[p + 1] \in 1 .. Len(raw)
      /\ Len(raw) \in Nat
  BY <1>t, <1>1, Lengths
<1>6. origin[p + 1] = origin[p] + 1
  BY <1>4, <1>5
<1>7. origin[p] \in 1 .. Len(raw) - 1
  BY <1>5, <1>6
<1> QED
  BY <1>1, <1>3, <1>6, <1>7 DEF ArrowAt

\* A replacement keeps the text in step with raw.
LEMMA ReplaceText ==
  ASSUME IInv, stage = "replace", NEW p, ReplacesAt(p)
  PROVE  Ordered' /\ Kept' /\ Covered' /\ Contiguous'
<1>t. TypeOK /\ InText
  BY DEF IInv, InText
<1>n. Len(text) \in Nat /\ Len(text') \in Nat /\ p \in Nat /\ Width \in {1, 2}
  BY <1>t, Lengths, ReplaceFacts
<1>r. raw' = raw /\ \A i : ArrowAt(i)' = ArrowAt(i)
  BY DEF ReplacesAt, ArrowAt
<1>1. ASSUME NEW k \in 1 .. Len(text')
      PROVE  /\ Source(p, k) \in 1 .. Len(text)
             /\ origin'[k] = origin[Source(p, k)]
             /\ k # p => text'[k] = text[Source(p, k)]
             /\ origin'[k] \in Nat
  BY <1>t, ReplaceFacts, Lengths
<1>2. p \in 1 .. Len(text) /\ p \in 1 .. Len(text') /\ text'[p] = Bar /\ Source(p, p) = p
  <2>1. p \in 1 .. Len(text) /\ text'[p] = Bar /\ Len(text') = Len(text) - Width + 1
        /\ p + Width - 1 <= Len(text)
    BY <1>t, ReplaceFacts
  <2> QED
    BY <1>n, <2>1 DEF Source
<1>3. ASSUME NEW j \in 1 .. Len(text'), NEW k \in 1 .. Len(text')
      PROVE  j < k => Source(p, j) < Source(p, k)
  BY <1>n DEF Source
\* The arrow, if it is one.
<1>4. pass = 1 => /\ ArrowAt(origin[p])
                  /\ origin[p + 1] = origin[p] + 1
                  /\ p + 1 \in 1 .. Len(text)
                  /\ text[p + 1] # Bar
                  /\ \A k \in 1 .. Len(text') : Source(p, k) # p + 1
  <2> SUFFICES ASSUME pass = 1
               PROVE  /\ ArrowAt(origin[p])
                      /\ origin[p + 1] = origin[p] + 1
                      /\ p + 1 \in 1 .. Len(text)
                      /\ text[p + 1] # Bar
                      /\ \A k \in 1 .. Len(text') : Source(p, k) # p + 1
    OBVIOUS
  <2>1. OccursAt(1, p) /\ Width = 2
    BY <1>t, ReplaceFacts
  <2>2. ASSUME NEW k \in 1 .. Len(text') PROVE Source(p, k) # p + 1
    BY <1>n, <2>1 DEF Source
  <2>3. text[p + 1] = ">"
    BY <1>t, <1>2, <2>1, OccursFacts
  <2> QED
    BY <1>t, <1>2, <2>1, <2>2, <2>3, ArrowOrigin DEF Bar
<1>5. pass # 1 => Width = 1 /\ text[p] \in {",", ";"}
  <2>1. OccursAt(pass, p) /\ Width = IF pass = 1 THEN 2 ELSE 1
    BY <1>t, ReplaceFacts
  <2>2. pass = 1 \/ pass = 2 \/ pass = 3
    BY <1>t DEF TypeOK
  <2> QED
    BY <1>t, <1>2, <2>1, <2>2, OccursFacts
<1>6. Ordered'
  <2>1. ASSUME NEW j \in 1 .. Len(text'), NEW k \in 1 .. Len(text'), j < k
        PROVE  origin'[j] < origin'[k]
    <3>1. Source(p, j) < Source(p, k)
      BY <1>3, <2>1
    <3>2. origin[Source(p, j)] < origin[Source(p, k)]
      BY <1>t, <1>1, <3>1, TextFacts
    <3> QED
      BY <1>1, <3>2
  <2> QED
    BY <2>1 DEF Ordered
<1>7. Kept'
  <2>1. ASSUME NEW k \in 1 .. Len(text')
        PROVE  \/ text'[k] = raw[origin'[k]]
               \/ text'[k] = Bar /\ raw[origin'[k]] \in {",", ";"}
               \/ /\ text'[k] = Bar /\ ArrowAt(origin'[k])
                  /\ \A j \in 1 .. Len(text') : origin'[j] # origin'[k] + 1
    <3>1. CASE k # p
      <4> DEFINE m == Source(p, k)
      <4>1. m \in 1 .. Len(text) /\ origin'[k] = origin[m] /\ text'[k] = text[m]
        BY <1>1, <3>1
      <4>2. \/ text[m] = raw[origin[m]]
            \/ text[m] = Bar /\ raw[origin[m]] \in {",", ";"}
            \/ /\ text[m] = Bar /\ ArrowAt(origin[m])
               /\ \A j \in 1 .. Len(text) : origin[j] # origin[m] + 1
        BY <1>t, <4>1, TextFacts
      <4>3. ASSUME \A j \in 1 .. Len(text) : origin[j] # origin[m] + 1,
                   NEW j \in 1 .. Len(text')
            PROVE  origin'[j] # origin'[k] + 1
        BY <1>1, <4>1, <4>3
      <4> QED
        BY <4>1, <4>2, <4>3
    <3>2. CASE k = p /\ pass # 1
      <4>1. origin'[p] = origin[p]
        BY <1>1, <1>2
      <4>2. text[p] = raw[origin[p]]
        BY <1>t, <1>2, <1>5, <3>2, TextFacts DEF Bar
      <4> QED
        BY <1>2, <1>5, <3>2, <4>1, <4>2
    <3>3. CASE k = p /\ pass = 1
      <4>1. origin'[p] = origin[p]
        BY <1>1, <1>2
      <4>2. ASSUME NEW j \in 1 .. Len(text') PROVE origin'[j] # origin'[p] + 1
        <5>1. Source(p, j) \in 1 .. Len(text) /\ Source(p, j) # p + 1
          BY <1>1, <1>4, <3>3
        <5>2. origin[Source(p, j)] # origin[p + 1]
          BY <1>t, <1>4, <3>3, <5>1, TextFacts
        <5> QED
          BY <1>1, <1>4, <3>3, <4>1, <5>2
      <4> QED
        BY <1>2, <1>4, <3>3, <4>1, <4>2
    <3> QED
      BY <3>1, <3>2, <3>3
  <2> QED
    BY <1>r, <2>1 DEF Kept
<1>8. Covered'
  <2>1. ASSUME NEW i \in 1 .. Len(raw)
        PROVE  \E k \in 1 .. Len(text') :
                 \/ origin'[k] = i
                 \/ origin'[k] = i - 1 /\ ArrowAt(i - 1) /\ text'[k] = Bar
    <3>1. PICK k \in 1 .. Len(text) :
                 \/ origin[k] = i
                 \/ origin[k] = i - 1 /\ ArrowAt(i - 1) /\ text[k] = Bar
      BY <1>t, TextFacts
    <3>2. CASE k # p + 1 \/ Width = 1
      <4>1. PICK j \in 1 .. Len(text') : Source(p, j) = k
        BY <1>t, <3>2, ReplaceFacts
      <4>2. origin'[j] = origin[k] /\ (text[k] = Bar => text'[j] = Bar)
        BY <1>1, <1>2, <4>1
      <4> QED
        BY <3>1, <4>2
    <3>3. CASE k = p + 1 /\ Width # 1
      <4>1. pass = 1
        BY <1>5, <3>3
      <4>2. origin[p] + 1 = i /\ text[k] # Bar
        BY <1>4, <3>1, <3>3, <4>1
      <4>3. origin[p] \in Nat /\ origin'[p] = origin[p]
        BY <1>1, <1>2
      <4>4. origin[p] = i - 1
        BY <4>2, <4>3
      <4> QED
        BY <1>2, <1>4, <4>1, <4>3, <4>4
    <3> QED
      BY <3>2, <3>3
  <2> QED
    BY <1>r, <2>1 DEF Covered
<1>9. Contiguous'
  <2>1. ASSUME NEW j \in 1 .. Len(text'), NEW k \in 1 .. Len(text'), j <= k,
               \A m \in j .. k : text'[m] # Bar
        PROVE  origin'[k] - origin'[j] = k - j
    <3>1. k < p \/ p < j
      BY <1>2, <2>1
    <3> DEFINE d == IF k < p THEN 0 ELSE Width - 1
    <3>2. d \in Nat /\ Source(p, j) = j + d /\ Source(p, k) = k + d
      BY <1>n, <2>1, <3>1 DEF Source
    <3>3. ASSUME NEW m \in Source(p, j) .. Source(p, k) PROVE text[m] # Bar
      <4>1. m - d \in j .. k /\ m - d # p /\ Source(p, m - d) = m
        BY <1>n, <2>1, <3>1, <3>2 DEF Source
      <4>2. m - d \in 1 .. Len(text')
        BY <1>n, <2>1, <4>1
      <4> QED
        BY <1>1, <2>1, <4>1, <4>2
    <3>4. Source(p, j) <= Source(p, k)
      BY <2>1, <3>2
    <3>5. origin[Source(p, k)] - origin[Source(p, j)] = Source(p, k) - Source(p, j)
      BY <1>t, <1>1, <3>3, <3>4, TextFacts
    <3>6. Source(p, k) - Source(p, j) = k - j
      BY <3>2
    <3> QED
      BY <1>1, <3>5, <3>6
  <2> QED
    BY <2>1 DEF Contiguous
<1> QED
  BY <1>6, <1>7, <1>8, <1>9

\* A replacement leaves no delimiter behind it, and makes none.
LEMMA ReplaceGone ==
  ASSUME IInv, stage = "replace", NEW p, ReplacesAt(p)
  PROVE  Replaced'
<1>t. TypeOK /\ Replaced
  BY DEF IInv
<1>n. /\ Len(text) \in Nat /\ Len(text') \in Nat /\ p \in Nat /\ pos \in Nat
      /\ Width \in {1, 2} /\ pass \in 1 .. 3 /\ p \in 1 .. Len(text)
      /\ Len(text') = Len(text) - Width + 1
      /\ text' \in Seq(Characters)
      /\ OccursAt(pass, p)
      /\ Width = IF pass = 1 THEN 2 ELSE 1
  BY <1>t, Lengths, ReplaceFacts DEF TypeOK
<1>1. ASSUME NEW k \in 1 .. Len(text')
      PROVE  /\ k = p => text'[k] = "|"
             /\ k < p => k \in 1 .. Len(text) /\ text'[k] = text[k]
             /\ pass # 1 /\ k # p => k \in 1 .. Len(text) /\ text'[k] = text[k]
  <2>1. /\ Source(p, k) \in 1 .. Len(text)
        /\ text'[p] = Bar
        /\ k # p => text'[k] = text[Source(p, k)]
    BY <1>t, ReplaceFacts
  <2>2. /\ k < p => Source(p, k) = k
        /\ pass # 1 => Source(p, k) = k
    BY <1>n DEF Source
  <2> QED
    BY <1>n, <2>1, <2>2 DEF Bar
<1>2. ASSUME NEW k \in 1 .. Len(text')
      PROVE  /\ OccursAt(1, k)' => /\ k + 1 \in 1 .. Len(text')
                                   /\ text'[k] = "-" /\ text'[k + 1] = ">"
             /\ OccursAt(2, k)' => text'[k] = ","
             /\ OccursAt(3, k)' => text'[k] = ";"
  <2>1. OccursAt(2, k)' => text'[k] = ","
    <3> SUFFICES ASSUME OccursAt(2, k)' PROVE text'[k] = ","
      OBVIOUS
    <3>1. 1 \in 1 .. 1 /\ k + 1 - 1 = k
      BY <1>n
    <3> QED
      BY <3>1, DelimiterFacts DEF OccursAt
  <2>2. OccursAt(3, k)' => text'[k] = ";"
    <3> SUFFICES ASSUME OccursAt(3, k)' PROVE text'[k] = ";"
      OBVIOUS
    <3>1. 1 \in 1 .. 1 /\ k + 1 - 1 = k
      BY <1>n
    <3> QED
      BY <3>1, DelimiterFacts DEF OccursAt
  <2>3. OccursAt(1, k)' => /\ k + 1 \in 1 .. Len(text')
                           /\ text'[k] = "-" /\ text'[k + 1] = ">"
    <3> SUFFICES ASSUME OccursAt(1, k)'
                 PROVE  /\ k + 1 \in 1 .. Len(text')
                        /\ text'[k] = "-" /\ text'[k + 1] = ">"
      OBVIOUS
    <3>1. 1 \in 1 .. 2 /\ 2 \in 1 .. 2 /\ k + 1 - 1 = k /\ k + 2 - 1 = k + 1
      BY <1>n
    <3>2. /\ k + 2 - 1 <= Len(text')
          /\ text'[k + 1 - 1] = "-" /\ text'[k + 2 - 1] = ">"
      BY <3>1, DelimiterFacts DEF OccursAt
    <3> QED
      BY <1>n, <3>1, <3>2
  <2> QED
    BY <2>1, <2>2, <2>3
\* A delimiter in the new text was in the old one, unless the pass is about it.
<1>3. ASSUME NEW d \in 1 .. 3, NEW k \in 1 .. Len(text'), OccursAt(d, k)',
             pass # 1 \/ k < p
      PROVE  k # p /\ k \in 1 .. Len(text) /\ OccursAt(d, k)
  <2>1. CASE d = 1
    <3>1. k + 1 \in 1 .. Len(text') /\ text'[k] = "-" /\ text'[k + 1] = ">"
      BY <1>2, <1>3, <2>1
    <3>2. k # p /\ k + 1 # p
      BY <1>1, <3>1
    <3>3. k + 1 < p \/ pass # 1
      BY <1>n, <1>3, <3>2
    <3>4. /\ k \in 1 .. Len(text) /\ text[k] = "-"
          /\ k + 1 \in 1 .. Len(text) /\ text[k + 1] = ">"
      BY <1>1, <1>3, <3>1, <3>2, <3>3
    <3> QED
      BY <1>t, <2>1, <3>2, <3>4, OccursFacts
  <2>2. CASE d = 2
    <3>1. text'[k] = "," /\ k # p
      BY <1>1, <1>2, <1>3, <2>2
    <3>2. k \in 1 .. Len(text) /\ text[k] = ","
      BY <1>1, <1>3, <3>1
    <3> QED
      BY <1>t, <2>2, <3>1, <3>2, OccursFacts
  <2>3. CASE d = 3
    <3>1. text'[k] = ";" /\ k # p
      BY <1>1, <1>2, <1>3, <2>3
    <3>2. k \in 1 .. Len(text) /\ text[k] = ";"
      BY <1>1, <1>3, <3>1
    <3> QED
      BY <1>t, <2>3, <3>1, <3>2, OccursFacts
  <2>4. d = 1 \/ d = 2 \/ d = 3
    OBVIOUS
  <2> QED
    BY <2>1, <2>2, <2>3, <2>4
<1>4. ASSUME NEW d \in 1 .. 3, NEW k \in 1 .. Len(text'), Gone(d, k)', OccursAt(d, k)'
      PROVE  FALSE
  <2>1. d < pass \/ (d = pass /\ k < p + 1)
    BY <1>4 DEF Gone, ReplacesAt
  <2>2. pass # 1 \/ k < p
    <3>1. CASE pass = 1 /\ k = p
      <4>1. d = 1 /\ text'[k] = "|"
        BY <1>n, <1>1, <2>1, <3>1
      <4> QED
        BY <1>2, <1>4, <4>1
    <3> QED
      BY <1>n, <2>1, <3>1
  <2>3. k # p /\ k \in 1 .. Len(text) /\ OccursAt(d, k)
    BY <1>3, <1>4, <2>2
  <2>4. CASE d < pass \/ k < pos
    <3>1. Gone(d, k)
      BY <2>1, <2>4 DEF Gone
    <3> QED
      BY <1>t, <2>3, <3>1 DEF Replaced
  <2>5. CASE d = pass /\ ~(k < pos)
    <3>1. k \in Found
      BY <1>n, <2>3, <2>5 DEF Found
    <3>2. p <= k
      BY <3>1 DEF ReplacesAt
    <3>3. k < p
      BY <1>n, <2>1, <2>3, <2>5
    <3> QED
      BY <1>n, <3>2, <3>3
  <2> QED
    BY <1>n, <2>1, <2>4, <2>5
<1> QED
  BY <1>4 DEF Replaced

\* What is said of raw alone changes with raw alone.
LEMMA SameRaw ==
  ASSUME UNCHANGED raw
  PROVE  /\ \A i : Separates(i)' = Separates(i)
         /\ Stretches' = Stretches
<1>1. \A i : ArrowAt(i)' = ArrowAt(i)
  BY DEF ArrowAt
<1>2. \A i : Separates(i)' = Separates(i)
  BY <1>1 DEF Separates
<1>3. \A i : Shows(i)' = Shows(i)
  BY <1>2 DEF Shows
<1>4. \A i, j : IsStretch(i, j)' = IsStretch(i, j)
  BY <1>2, <1>3 DEF IsStretch
<1> QED
  BY <1>2, <1>4 DEF Stretches

\* What is said of the text changes with the text, or is said no more.
LEMMA SameText ==
  ASSUME Ordered, Kept, Covered, Contiguous, UNCHANGED <<raw, text, origin>>,
         InText' => InText
  PROVE  Ordered' /\ Kept' /\ Covered' /\ Contiguous'
<1>1. CASE ~InText'
  BY <1>1 DEF Ordered, Kept, Covered, Contiguous
<1>2. CASE InText'
  <2>1. InText /\ raw' = raw /\ text' = text /\ origin' = origin
    BY <1>2
  <2>2. \A i : ArrowAt(i)' <=> ArrowAt(i)
    BY <2>1 DEF ArrowAt
  <2>3. Ordered'
    BY <2>1 DEF Ordered
  <2>4. Contiguous'
    BY <2>1 DEF Contiguous
  <2>5. Kept'
    BY <2>1, <2>2 DEF Kept
  <2>6. Covered'
    BY <2>1, <2>2 DEF Covered
  <2> QED
    BY <2>3, <2>4, <2>5, <2>6
<1> QED
  BY <1>1, <1>2

\* The step that replaces a delimiter.
LEMMA ReplaceStep == IInv /\ Replace => IInv'
<1> SUFFICES ASSUME IInv, Replace PROVE IInv'
  OBVIOUS
<1>1. stage = "replace" /\ UNCHANGED <<raw, stage, pass, points, cuts>>
  BY DEF Replace
<1>2. PICK p : ReplacesAt(p)
  BY DEF Replace, ReplacesAt, Width
<1>3. TypeOK'
  <2>1. TypeOK
    BY DEF IInv
  <2>2. /\ text' \in Seq(Characters)
        /\ origin' \in Seq(1 .. Len(raw)) /\ Len(origin') = Len(text')
        /\ p \in 1 .. Len(text)
    BY <1>2, <2>1, ReplaceFacts
  <2>3. pos' \in Nat \ {0}
    BY <1>2, <2>1, <2>2, Lengths DEF ReplacesAt
  <2> QED
    BY <1>1, <2>1, <2>2, <2>3 DEF TypeOK
<1>4. Ordered' /\ Kept' /\ Covered' /\ Contiguous' /\ Replaced'
  BY <1>1, <1>2, ReplaceText, ReplaceGone
<1>5. Unused' /\ AtToken' /\ AllCut' /\ CutsInOrder' /\ PointsAreCuts'
  BY <1>1 DEF IInv, Unused, AtToken, AllCut, CutsInOrder, InOrder, PointsAreCuts
<1> QED
  BY <1>3, <1>4, <1>5 DEF IInv

\* A pass that is over has left none of its delimiters.
LEMMA PassOver ==
  ASSUME IInv, stage = "replace", Found = {}, NEW d \in 1 .. 3, d <= pass,
         NEW k \in 1 .. Len(text)
  PROVE  ~OccursAt(d, k)
<1>1. TypeOK /\ Replaced /\ pass \in 1 .. 3 /\ pos \in Nat /\ Len(text) \in Nat
  BY Lengths DEF IInv, TypeOK
<1>2. CASE d < pass \/ k < pos
  <2>1. Gone(d, k)
    BY <1>1, <1>2 DEF Gone
  <2> QED
    BY <1>1, <2>1 DEF Replaced
<1>3. CASE d = pass /\ ~(k < pos)
  <2>1. k \in pos .. Len(text)
    BY <1>1, <1>3
  <2> QED
    BY <1>3, <2>1 DEF Found
<1> QED
  BY <1>1, <1>2, <1>3

\* The step that turns to the next delimiter, or to the tokens.
LEMMA NextDelimiterStep == IInv /\ NextDelimiter => IInv'
<1> SUFFICES ASSUME IInv, NextDelimiter PROVE IInv'
  OBVIOUS
<1>t. TypeOK /\ pass \in 1 .. 3
  BY DEF IInv, TypeOK
<1>1. /\ stage = "replace" /\ Found = {} /\ pos' = 1
      /\ UNCHANGED <<raw, text, points, origin, cuts>>
      /\ \/ pass < 3 /\ pass' = pass + 1 /\ stage' = "replace"
         \/ pass = 3 /\ pass' = 3 /\ stage' = "split"
  <2>1. /\ stage = "replace" /\ Found = {} /\ pos' = 1
        /\ UNCHANGED <<raw, text, points, origin, cuts>>
        /\ IF pass < 3 THEN pass' = pass + 1 /\ UNCHANGED stage
           ELSE stage' = "split" /\ UNCHANGED pass
    BY DelimiterFacts DEF NextDelimiter
  <2>2. pass < 3 \/ (pass = 3 /\ ~(pass < 3))
    BY <1>t
  <2> QED
    BY <2>1, <2>2
<1>2. TypeOK'
  <2>1. pass' \in 1 .. 3 /\ stage' \in {"replace", "split"} /\ pos' \in Nat \ {0}
    BY <1>t, <1>1
  <2> QED
    BY <1>t, <1>1, <2>1 DEF TypeOK
<1>3. Ordered' /\ Kept' /\ Covered' /\ Contiguous'
  <2>1. Ordered /\ Kept /\ Covered /\ Contiguous /\ InText
    BY <1>1 DEF IInv, InText
  <2> QED
    BY <1>1, <2>1, SameText
<1>4. Replaced'
  <2>1. ASSUME NEW d \in 1 .. 3, NEW k \in 1 .. Len(text), Gone(d, k)'
        PROVE  ~OccursAt(d, k)
    <3>1. d <= pass
      <4>1. stage' = "split" \/ d < pass' \/ (d = pass' /\ k < 1)
        BY <1>1, <2>1 DEF Gone
      <4> QED
        BY <1>t, <1>1, <4>1
    <3> QED
      BY <1>1, <3>1, PassOver
  <2>2. \A d, k : OccursAt(d, k)' = OccursAt(d, k)
    BY <1>1 DEF OccursAt
  <2> QED
    BY <1>1, <2>1, <2>2 DEF Replaced
<1>5. points = <<>> /\ cuts = <<>>
  BY <1>1 DEF IInv, Unused
<1>6. Unused' /\ AllCut' /\ CutsInOrder'
  BY <1>1, <1>5 DEF IInv, Unused, AllCut, CutsInOrder, InOrder
<1>7. PointsAreCuts'
  <2>1. Written(<<>>) = <<>>
    BY DEF Written
  <2> QED
    BY <1>1, <1>5, <2>1 DEF PointsAreCuts, Written
\* No stretch is in front of the text.
<1>8. AtToken'
  <2>1. ASSUME NEW pair \in Stretches
        PROVE  \E k \in 1 .. Len(text) : ~(pair[2] < origin[k])
    <3>1. pair[2] \in 1 .. Len(raw) /\ pair[2] \in Nat
      BY DEF Stretches
    <3>2. InText
      BY <1>1 DEF InText
    <3>3. PICK k \in 1 .. Len(text) : origin[k] = pair[2] \/ origin[k] = pair[2] - 1
      BY <3>1, <3>2, TextFacts
    <3>4. origin[k] \in Nat
      BY <1>t, Lengths
    <3> QED
      BY <3>1, <3>3, <3>4
  <2>2. Stretches' = Stretches
    BY <1>1, SameRaw
  <2>3. Len(text) \in Nat /\ 1 .. Len(cuts) = {}
    BY <1>t, <1>5, Lengths
  <2>4. /\ pos' <= Len(text') + 1 /\ ~(pos' > 1)
        /\ \A n \in 1 .. Len(cuts') : FALSE
    BY <1>1, <2>3
  <2>5. \A pair \in Stretches' : ~Before(pair, pos)'
    BY <1>1, <2>1, <2>2 DEF Before
  <2> QED
    BY <2>4, <2>5 DEF AtToken
<1> QED
  BY <1>2, <1>3, <1>4, <1>6, <1>7, <1>8 DEF IInv

-----------------------------------------------------------------------------
(* The loop over the tokens *)

\* When the delimiters are replaced, no delimiter is left.
LEMMA NoDelimiters ==
  ASSUME IInv, stage = "split", NEW k \in 1 .. Len(text)
  PROVE  /\ text[k] # "," /\ text[k] # ";"
         /\ k + 1 \in 1 .. Len(text) => ~(text[k] = "-" /\ text[k + 1] = ">")
<1>1. TypeOK /\ Replaced
  BY DEF IInv
<1>2. \A d \in 1 .. 3 : ~OccursAt(d, k)
  BY <1>1 DEF Replaced, Gone
<1>3. ~OccursAt(1, k) /\ ~OccursAt(2, k) /\ ~OccursAt(3, k)
  BY <1>2
<1> QED
  BY <1>1, <1>3, OccursFacts

\* The bars are where raw has separators, and the rest is as it is in raw.
LEMMA BarsSeparate ==
  ASSUME IInv, stage = "split", NEW k \in 1 .. Len(text)
  PROVE  /\ text[k] = Bar <=> Separates(origin[k])
         /\ text[k] # Bar => text[k] = raw[origin[k]]
<1> DEFINE o == origin[k]
<1>t. TypeOK /\ InText
  BY DEF IInv, InText
<1>n. /\ o \in 1 .. Len(raw) /\ o \in Nat /\ Len(raw) \in Nat /\ Len(text) \in Nat
      /\ \A j \in 1 .. Len(text) : origin[j] \in Nat
  BY <1>t, Lengths
<1>k. \A j \in 1 .. Len(text) :
        \/ text[j] = raw[origin[j]]
        \/ text[j] = Bar /\ raw[origin[j]] \in {",", ";"}
        \/ /\ text[j] = Bar /\ ArrowAt(origin[j])
           /\ \A i \in 1 .. Len(text) : origin[i] # origin[j] + 1
  BY <1>t, TextFacts
<1>1. text[k] # Bar => text[k] = raw[o]
  BY <1>k
<1>2. text[k] = Bar => Separates(o)
  BY <1>k DEF Separates
<1>3. ASSUME Separates(o), text[k] # Bar PROVE FALSE
  <2>1. raw[o] # "," /\ raw[o] # ";" /\ raw[o] # Bar
    BY <1>1, <1>3, NoDelimiters
  \* An arrow that begins here is still in the text.
  <2>2. CASE ArrowAt(o)
    <3>1. o + 1 \in 1 .. Len(raw) /\ raw[o] = "-" /\ raw[o + 1] = ">"
      BY <1>n, <2>2 DEF ArrowAt
    <3>2. PICK j \in 1 .. Len(text) :
            \/ origin[j] = o + 1
            \/ origin[j] = (o + 1) - 1 /\ ArrowAt((o + 1) - 1) /\ text[j] = Bar
      BY <1>t, <3>1, TextFacts
    <3>3. origin[j] = o + 1
      <4>1. CASE origin[j] = (o + 1) - 1 /\ text[j] = Bar
        <5>1. origin[j] = origin[k]
          BY <1>n, <4>1
        <5>2. j = k
          BY <1>t, <5>1, TextFacts
        <5> QED
          BY <1>3, <4>1, <5>2
      <4> QED
        BY <3>2, <4>1
    <3>4. j = k + 1
      BY <1>t, <3>3, Adjacent
    <3>5. text[j] = ">"
      <4>1. raw[origin[j]] = ">"
        BY <3>1, <3>3
      <4> QED
        BY <1>k, <4>1 DEF ArrowAt
    <3> QED
      BY <1>1, <1>3, <3>1, <3>4, <3>5, NoDelimiters
  \* And so is one that ends here.
  <2>3. CASE ArrowAt(o - 1)
    <3>1. /\ o - 1 \in 1 .. Len(raw) /\ raw[o - 1] = "-" /\ raw[o] = ">"
          /\ (o - 1) + 1 = o
      BY <1>n, <2>3 DEF ArrowAt
    <3>2. PICK j \in 1 .. Len(text) :
            \/ origin[j] = o - 1
            \/ origin[j] = (o - 1) - 1 /\ ArrowAt((o - 1) - 1) /\ text[j] = Bar
      BY <1>t, <3>1, TextFacts
    <3>3. origin[j] = o - 1
      <4>1. CASE ArrowAt((o - 1) - 1)
        <5>1. raw[((o - 1) - 1) + 1] = ">" /\ ((o - 1) - 1) + 1 = o - 1
          BY <1>n, <4>1 DEF ArrowAt
        <5> QED
          BY <3>1, <5>1
      <4> QED
        BY <3>2, <4>1
    <3>4. k = j + 1
      <4>1. origin[k] = origin[j] + 1
        BY <1>n, <3>3
      <4> QED
        BY <1>t, <4>1, Adjacent
    <3>5. text[j] = "-"
      <4>1. raw[origin[j]] = "-" /\ origin[k] = origin[j] + 1
        BY <1>n, <3>1, <3>3
      <4> QED
        BY <1>k, <4>1
    <3>6. text[k] = ">"
      BY <1>1, <1>3, <3>1
    <3> QED
      BY <3>4, <3>5, <3>6, NoDelimiters
  <2> QED
    BY <1>3, <2>1, <2>2, <2>3 DEF Separates
<1> QED
  BY <1>1, <1>2, <1>3

\* What does not separate is still in the text.
LEMMA KeptInText ==
  ASSUME IInv, stage = "split", NEW i \in 1 .. Len(raw), ~Separates(i)
  PROVE  \E k \in 1 .. Len(text) : origin[k] = i /\ text[k] # Bar /\ text[k] = raw[i]
<1>1. PICK k \in 1 .. Len(text) :
        \/ origin[k] = i
        \/ origin[k] = i - 1 /\ ArrowAt(i - 1) /\ text[k] = Bar
  BY TextFacts DEF InText
<1>2. origin[k] = i
  BY <1>1 DEF Separates
<1> QED
  BY <1>2, BarsSeparate

\* Where the text has no bar from f to l, raw has no separator from the one
\* origin to the other, and the same characters.
LEMMA NoBarBetween ==
  ASSUME IInv, stage = "split",
         NEW f \in 1 .. Len(text), NEW l \in 1 .. Len(text), f <= l,
         \A m \in f .. l : text[m] # Bar
  PROVE  /\ origin[f] <= origin[l]
         /\ \A i \in origin[f] .. origin[l] : ~Separates(i)
         /\ SubSeq(text, f, l) = SubSeq(raw, origin[f], origin[l])
<1>t. TypeOK /\ InText
  BY DEF IInv, InText
<1>n. /\ Len(text) \in Nat /\ Len(raw) \in Nat /\ f \in Nat /\ l \in Nat
      /\ origin[f] \in 1 .. Len(raw) /\ origin[l] \in 1 .. Len(raw)
      /\ origin[f] \in Nat /\ origin[l] \in Nat
  BY <1>t, Lengths
<1>1. ASSUME NEW m \in f .. l
      PROVE  m \in 1 .. Len(text) /\ origin[m] = origin[f] + (m - f)
  <2>1. m \in 1 .. Len(text) /\ f <= m
    BY <1>n
  <2>2. \A k \in f .. m : text[k] # Bar
    BY <1>n, <1>1
  <2>3. origin[m] - origin[f] = m - f
    BY <1>t, <2>1, <2>2, TextFacts
  <2>4. origin[m] \in Nat
    BY <1>t, <2>1, Lengths
  <2> QED
    BY <1>n, <2>1, <2>3, <2>4
<1>2. origin[l] = origin[f] + (l - f)
  BY <1>n, <1>1
<1>3. ASSUME NEW i \in origin[f] .. origin[l] PROVE ~Separates(i)
  <2> DEFINE m == f + (i - origin[f])
  <2>1. m \in f .. l /\ origin[f] + (m - f) = i
    BY <1>n, <1>2
  <2>2. m \in 1 .. Len(text) /\ origin[m] = i /\ text[m] # Bar
    <3> HIDE DEF m
    <3> QED BY <1>1, <2>1
  <2> QED
    BY <2>2, BarsSeparate
<1>4. SubSeq(text, f, l) = SubSeq(raw, origin[f], origin[l])
  <2> DEFINE s == SubSeq(text, f, l)
  <2> DEFINE r == SubSeq(raw, origin[f], origin[l])
  <2>1. \A m \in f .. l : text[m] \in Characters
    BY <1>1, <1>t, Lengths
  <2>2. \A i \in origin[f] .. origin[l] : raw[i] \in Characters
    <3>1. ASSUME NEW i \in origin[f] .. origin[l] PROVE i \in 1 .. Len(raw)
      BY <1>n
    <3> QED BY <3>1, <1>t, Lengths
  <2>3. /\ s \in Seq(Characters) /\ Len(s) = l - f + 1
        /\ \A i \in 1 .. l - f + 1 : s[i] = text[f + i - 1]
    BY <1>n, <2>1, SubSeqProperties
  <2>4. /\ r \in Seq(Characters) /\ Len(r) = origin[l] - origin[f] + 1
        /\ \A i \in 1 .. origin[l] - origin[f] + 1 : r[i] = raw[origin[f] + i - 1]
    <3> DEFINE a == origin[f]
    <3> DEFINE b == origin[l]
    <3>1. /\ a \in Int /\ b \in Int /\ a <= b
          /\ \A i \in a .. b : raw[i] \in Characters
      BY <1>n, <1>2, <2>2
    <3> HIDE DEF a, b
    <3>2. /\ SubSeq(raw, a, b) \in Seq(Characters) /\ Len(SubSeq(raw, a, b)) = b - a + 1
          /\ \A i \in 1 .. b - a + 1 : SubSeq(raw, a, b)[i] = raw[a + i - 1]
      BY <3>1, SubSeqProperties
    <3> QED
      BY <3>2 DEF a, b
  <2>5. Len(s) = Len(r)
    BY <1>n, <1>2, <2>3, <2>4
  <2>6. ASSUME NEW i \in 1 .. Len(s) PROVE s[i] = r[i]
    <3>1. /\ i \in 1 .. l - f + 1 /\ f + i - 1 \in f .. l
          /\ origin[f] + ((f + i - 1) - f) = origin[f] + i - 1
      BY <1>n, <2>3
    <3>2. /\ f + i - 1 \in 1 .. Len(text)
          /\ origin[f + i - 1] = origin[f] + i - 1
          /\ text[f + i - 1] # Bar
      BY <1>1, <3>1
    <3>3. text[f + i - 1] = raw[origin[f] + i - 1]
      BY <3>2, BarsSeparate
    <3>4. i \in 1 .. origin[l] - origin[f] + 1
      BY <2>3, <2>4, <2>5
    <3> QED
      BY <2>3, <2>4, <3>1, <3>3, <3>4
  <2> HIDE DEF s, r
  <2> QED
    BY <2>3, <2>4, <2>5, <2>6, SeqEqual DEF s, r
<1> QED
  BY <1>n, <1>2, <1>3, <1>4

\* What a token is: no bar within it, and one on either side, if not the end.
LEMMA TokenFacts ==
  ASSUME IInv, stage = "split", NEW e \in pos .. Len(text) + 1, EndsAt(e)
  PROVE  /\ pos \in Nat /\ pos >= 1 /\ e \in Nat /\ Len(text) \in Nat
         /\ \A m \in pos .. e - 1 : m \in 1 .. Len(text) /\ text[m] # Bar
         /\ e <= Len(text) => e \in 1 .. Len(text) /\ text[e] = Bar
         /\ pos > 1 => pos - 1 \in 1 .. Len(text) /\ text[pos - 1] = Bar
<1>1. pos \in Nat \ {0} /\ Len(text) \in Nat /\ e \in Nat /\ pos <= e /\ e <= Len(text) + 1
  BY Lengths DEF IInv, TypeOK
<1>2. ASSUME NEW m \in pos .. e - 1 PROVE m \in 1 .. Len(text) /\ text[m] # Bar
  <2>1. m \in 1 .. Len(text) /\ m \in pos .. Len(text) /\ ~(e <= m)
    BY <1>1
  <2> QED
    BY <2>1 DEF EndsAt, Bars
<1>3. e <= Len(text) => e \in 1 .. Len(text) /\ text[e] = Bar
  BY <1>1 DEF EndsAt, Bars
<1>4. pos > 1 => pos - 1 \in 1 .. Len(text) /\ text[pos - 1] = Bar
  BY <1>1 DEF IInv, AtToken
<1> QED
  BY <1>1, <1>2, <1>3, <1>4

\* A stretch that is not in front of the token, nor behind it, is in it.
LEMMA StretchIsToken ==
  ASSUME IInv, stage = "split", NEW e \in pos .. Len(text) + 1, EndsAt(e),
         NEW pair \in Stretches, ~Before(pair, pos), Before(pair, e + 1)
  PROVE  \E r, q \in Visible(e) :
           /\ r \in 1 .. Len(text) /\ q \in 1 .. Len(text)
           /\ origin[r] = pair[1] /\ origin[q] = pair[2]
<1>t. InText /\ TypeOK
  BY DEF IInv, InText
<1>1. /\ pair[1] \in 1 .. Len(raw) /\ pair[2] \in 1 .. Len(raw)
      /\ pair[1] \in Nat /\ pair[2] \in Nat /\ pair[1] <= pair[2]
      /\ \A k \in pair[1] .. pair[2] : ~Separates(k)
      /\ Shows(pair[1]) /\ Shows(pair[2])
  BY DEF Stretches, IsStretch
<1>2. ~Separates(pair[1]) /\ ~Separates(pair[2])
  BY <1>1 DEF Shows
<1>3. PICK r \in 1 .. Len(text) :
        origin[r] = pair[1] /\ text[r] # Bar /\ text[r] = raw[pair[1]]
  BY <1>1, <1>2, KeptInText
<1>4. PICK q \in 1 .. Len(text) :
        origin[q] = pair[2] /\ text[q] # Bar /\ text[q] = raw[pair[2]]
  BY <1>1, <1>2, KeptInText
<1>5. r <= q /\ r \in Nat /\ q \in Nat
  BY <1>t, <1>1, <1>3, <1>4, TextOrder
<1>6. /\ pos \in Nat /\ pos >= 1 /\ e \in Nat /\ Len(text) \in Nat
      /\ e <= Len(text) => text[e] = Bar
      /\ pos > 1 => pos - 1 \in 1 .. Len(text) /\ text[pos - 1] = Bar
  BY TokenFacts
<1>7. q >= pos
  <2>1. PICK m \in pos .. Len(text) : ~(pair[2] < origin[m])
    BY DEF Before
  <2>2. m \in 1 .. Len(text) /\ m >= pos
    BY <1>6
  <2>3. m <= q /\ m \in Nat
    BY <1>t, <1>1, <1>4, <2>1, <2>2, TextOrder
  <2> QED
    BY <1>5, <1>6, <2>2, <2>3
<1>8. q <= e - 1
  <2>1. ~(e + 1 <= q)
    <3> SUFFICES ASSUME e + 1 <= q PROVE FALSE
      OBVIOUS
    <3>1. q \in e + 1 .. Len(text)
      BY <1>5, <1>6
    <3> QED
      BY <1>1, <1>4, <3>1 DEF Before
  <2>2. q # e
    BY <1>4, <1>6
  <2> QED
    BY <1>5, <1>6, <2>1, <2>2
<1>9. r >= pos
  <2> SUFFICES ASSUME r < pos PROVE FALSE
    BY <1>5, <1>6
  <2> DEFINE b == pos - 1
  <2>1. b \in 1 .. Len(text) /\ text[b] = Bar /\ r <= b /\ b <= q
    BY <1>5, <1>6, <1>7
  <2> HIDE DEF b
  <2>2. Separates(origin[b])
    BY <2>1, BarsSeparate
  <2>3. origin[r] <= origin[b] /\ origin[b] <= origin[q] /\ origin[b] \in Nat
    BY <1>t, <2>1, TextOrder
  <2>4. origin[b] \in pair[1] .. pair[2]
    BY <1>1, <1>3, <1>4, <2>3
  <2> QED
    BY <1>1, <2>2, <2>4
<1>10. r \in Visible(e) /\ q \in Visible(e)
  <2>1. r \in pos .. e - 1 /\ q \in pos .. e - 1
    BY <1>5, <1>6, <1>7, <1>8, <1>9
  <2>2. text[r] \notin Blanks /\ text[q] \notin Blanks
    BY <1>1, <1>3, <1>4 DEF Shows
  <2> QED
    BY <2>1, <2>2 DEF Visible
<1> QED
  BY <1>3, <1>4, <1>10

\* What is cut from a token: where it is, and that it shows something at both
\* ends.
LEMMA TrimFacts ==
  ASSUME IInv, stage = "split", NEW e \in pos .. Len(text) + 1, EndsAt(e),
         NEW f, NEW l, TrimCopy(e, f, l)
  PROVE  /\ f \in 1 .. Len(text) /\ l \in 1 .. Len(text)
         /\ f \in Nat /\ l \in Nat /\ pos <= f /\ f <= l /\ l < e
         /\ \A k \in Visible(e) : f <= k /\ k <= l
         /\ origin[f] \in 1 .. Len(raw) /\ origin[l] \in 1 .. Len(raw)
         /\ origin[f] <= origin[l]
         /\ \A i \in origin[f] .. origin[l] : ~Separates(i)
         /\ SubSeq(text, f, l) = SubSeq(raw, origin[f], origin[l])
         /\ Shows(origin[f]) /\ Shows(origin[l])
<1>t. TypeOK
  BY DEF IInv
<1>0. /\ pos \in Nat /\ pos >= 1 /\ e \in Nat /\ Len(text) \in Nat
      /\ \A m \in pos .. e - 1 : m \in 1 .. Len(text) /\ text[m] # Bar
  BY TokenFacts
<1>1. /\ f \in pos .. e - 1 /\ l \in pos .. e - 1 /\ f <= l
      /\ text[f] \notin Blanks /\ text[l] \notin Blanks
      /\ \A k \in Visible(e) : f <= k /\ k <= l
  BY DEF TrimCopy, Visible
<1>2. /\ f \in 1 .. Len(text) /\ l \in 1 .. Len(text) /\ f \in Nat /\ l \in Nat
      /\ pos <= f /\ l < e /\ text[f] # Bar /\ text[l] # Bar
  BY <1>0, <1>1
<1>3. \A m \in f .. l : text[m] # Bar
  <2>1. ASSUME NEW m \in f .. l PROVE m \in pos .. e - 1
    BY <1>0, <1>2
  <2> QED
    BY <1>0, <2>1
<1>4. /\ origin[f] <= origin[l]
      /\ \A i \in origin[f] .. origin[l] : ~Separates(i)
      /\ SubSeq(text, f, l) = SubSeq(raw, origin[f], origin[l])
  BY <1>1, <1>2, <1>3, NoBarBetween
<1>5. origin[f] \in 1 .. Len(raw) /\ origin[l] \in 1 .. Len(raw)
  BY <1>t, <1>2, Lengths
<1>6. Shows(origin[f]) /\ Shows(origin[l])
  <2>1. /\ ~Separates(origin[f]) /\ text[f] = raw[origin[f]]
        /\ ~Separates(origin[l]) /\ text[l] = raw[origin[l]]
    BY <1>2, BarsSeparate
  <2> QED
    BY <1>1, <2>1 DEF Shows
<1> QED
  BY <1>1, <1>2, <1>4, <1>5, <1>6

\* What is cut from a token is a stretch.
LEMMA TokenIsStretch ==
  ASSUME IInv, stage = "split", NEW e \in pos .. Len(text) + 1, EndsAt(e),
         NEW f, NEW l, TrimCopy(e, f, l)
  PROVE  <<origin[f], origin[l]>> \in Stretches
<1>t. TypeOK /\ InText
  BY DEF IInv, InText
<1> DEFINE i == origin[f]
<1> DEFINE j == origin[l]
<1>0. /\ pos \in Nat /\ pos >= 1 /\ e \in Nat /\ Len(text) \in Nat
      /\ e <= Len(text) => e \in 1 .. Len(text) /\ text[e] = Bar
      /\ pos > 1 => pos - 1 \in 1 .. Len(text) /\ text[pos - 1] = Bar
      /\ Len(raw) \in Nat
  BY <1>t, TokenFacts, Lengths
<1>1. /\ f \in 1 .. Len(text) /\ l \in 1 .. Len(text)
      /\ f \in Nat /\ l \in Nat /\ pos <= f /\ f <= l /\ l < e
      /\ \A k \in Visible(e) : f <= k /\ k <= l
      /\ i \in 1 .. Len(raw) /\ j \in 1 .. Len(raw) /\ i <= j
      /\ \A k \in i .. j : ~Separates(k)
      /\ Shows(i) /\ Shows(j)
  BY TrimFacts
<1>2. ASSUME NEW k \in 1 .. i - 1, Shows(k) PROVE \E m \in k .. i : Separates(m)
  <2>1. k \in 1 .. Len(raw) /\ k \in Nat /\ k < i /\ i \in Nat
    BY <1>0, <1>1
  <2>2. PICK r \in 1 .. Len(text) : origin[r] = k /\ text[r] = raw[k]
    BY <1>2, <2>1, KeptInText DEF Shows
  <2>3. r < f /\ r \in Nat
    BY <1>t, <1>1, <2>1, <2>2, TextOrder
  <2>4. r < pos
    <3> SUFFICES ASSUME r >= pos PROVE FALSE
      BY <1>0, <2>3
    <3>1. r \in pos .. e - 1 /\ text[r] \notin Blanks
      BY <1>0, <1>1, <1>2, <2>2, <2>3 DEF Shows
    <3> QED
      BY <1>1, <2>3, <3>1 DEF Visible
  <2> DEFINE b == pos - 1
  <2>5. b \in 1 .. Len(text) /\ text[b] = Bar /\ r <= b /\ b <= f
    BY <1>0, <1>1, <2>3, <2>4
  <2> HIDE DEF b
  <2>6. Separates(origin[b])
    BY <2>5, BarsSeparate
  <2>7. origin[r] <= origin[b] /\ origin[b] <= origin[f] /\ origin[b] \in Nat
    BY <1>t, <1>1, <2>5, TextOrder
  <2>8. origin[b] \in k .. i
    BY <2>1, <2>2, <2>7
  <2> QED
    BY <2>6, <2>8
<1>3. ASSUME NEW k \in j + 1 .. Len(raw), Shows(k) PROVE \E m \in j .. k : Separates(m)
  <2>1. k \in 1 .. Len(raw) /\ k \in Nat /\ j < k /\ j \in Nat
    BY <1>0, <1>1
  <2>2. PICK q \in 1 .. Len(text) : origin[q] = k /\ text[q] = raw[k]
    BY <1>3, <2>1, KeptInText DEF Shows
  <2>3. l < q /\ q \in Nat
    BY <1>t, <1>1, <2>1, <2>2, TextOrder
  <2>4. e <= q
    <3> SUFFICES ASSUME q < e PROVE FALSE
      BY <1>0, <2>3
    <3>1. q \in pos .. e - 1 /\ text[q] \notin Blanks
      BY <1>0, <1>1, <1>3, <2>2, <2>3 DEF Shows
    <3> QED
      BY <1>1, <2>3, <3>1 DEF Visible
  <2>5. e \in 1 .. Len(text) /\ text[e] = Bar /\ l <= e
    BY <1>0, <1>1, <2>3, <2>4
  <2>6. Separates(origin[e])
    BY <2>5, BarsSeparate
  <2>7. origin[e] <= origin[q] /\ origin[l] <= origin[e] /\ origin[e] \in Nat
    BY <1>t, <1>1, <2>4, <2>5, TextOrder
  <2>8. origin[e] \in j .. k
    BY <2>1, <2>2, <2>7
  <2> QED
    BY <2>6, <2>8
<1>4. IsStretch(i, j)
  <2> HIDE DEF i, j
  <2> QED BY <1>1, <1>2, <1>3 DEF IsStretch
<1> QED
  BY <1>1, <1>4 DEF Stretches

\* And there is no other in the token.
LEMMA OneStretch ==
  ASSUME IInv, stage = "split", NEW e \in pos .. Len(text) + 1, EndsAt(e),
         NEW f, NEW l, TrimCopy(e, f, l),
         NEW pair \in Stretches, ~Before(pair, pos), Before(pair, e + 1)
  PROVE  pair = <<origin[f], origin[l]>>
<1>t. TypeOK /\ InText
  BY DEF IInv, InText
<1> DEFINE i == origin[f]
<1> DEFINE j == origin[l]
<1>1. /\ f \in 1 .. Len(text) /\ l \in 1 .. Len(text)
      /\ \A k \in Visible(e) : f <= k /\ k <= l
      /\ i \in 1 .. Len(raw) /\ j \in 1 .. Len(raw)
      /\ \A k \in i .. j : ~Separates(k)
      /\ Shows(i) /\ Shows(j)
  BY TrimFacts
<1>2. PICK r \in Visible(e), q \in Visible(e) :
        /\ r \in 1 .. Len(text) /\ q \in 1 .. Len(text)
        /\ origin[r] = pair[1] /\ origin[q] = pair[2]
  BY StretchIsToken
<1>3. f <= r /\ q <= l /\ r <= l /\ f <= q
  BY <1>1, <1>2
<1>4. i <= pair[1] /\ pair[2] <= j /\ pair[1] <= j /\ i <= pair[2]
  <2>1. origin[f] <= origin[r] /\ origin[r] <= origin[l]
    BY <1>t, <1>1, <1>2, <1>3, TextOrder
  <2>2. origin[f] <= origin[q] /\ origin[q] <= origin[l]
    BY <1>t, <1>1, <1>2, <1>3, TextOrder
  <2> QED
    BY <1>2, <2>1, <2>2
<1>5. /\ pair = <<pair[1], pair[2]>>
      /\ pair[1] \in 1 .. Len(raw) /\ pair[2] \in 1 .. Len(raw)
      /\ \A k \in 1 .. pair[1] - 1 : Shows(k) => \E m \in k .. pair[1] : Separates(m)
      /\ \A k \in pair[2] + 1 .. Len(raw) :
           Shows(k) => \E m \in pair[2] .. k : Separates(m)
  BY DEF Stretches, IsStretch
<1>n. Len(raw) \in Nat
  BY <1>t, Lengths
<1>6. pair[1] = i
  <2> SUFFICES ASSUME i < pair[1] PROVE FALSE
    BY <1>1, <1>4, <1>5
  <2>1. i \in 1 .. pair[1] - 1
    BY <1>1, <1>5
  <2>2. PICK m \in i .. pair[1] : Separates(m)
    BY <1>1, <1>5, <2>1
  <2>3. m \in i .. j
    BY <1>1, <1>4, <1>5
  <2> QED
    BY <1>1, <2>2, <2>3
<1>7. pair[2] = j
  <2> SUFFICES ASSUME pair[2] < j PROVE FALSE
    BY <1>1, <1>4, <1>5
  <2>1. j \in pair[2] + 1 .. Len(raw)
    BY <1>1, <1>5, <1>n
  <2>2. PICK m \in pair[2] .. j : Separates(m)
    BY <1>1, <1>5, <2>1
  <2>3. m \in i .. j
    BY <1>1, <1>4, <1>5
  <2> QED
    BY <1>1, <2>2, <2>3
<1> QED
  BY <1>5, <1>6, <1>7

\* What does not depend on what a token yields.
LEMMA AdvanceFrame ==
  ASSUME IInv, stage = "split", NEW e \in pos .. Len(text) + 1, EndsAt(e), Advance(e)
  PROVE  /\ Unused' /\ Ordered' /\ Kept' /\ Covered' /\ Contiguous'
         /\ Replaced'
         /\ UNCHANGED <<raw, pass, text, origin>>
         /\ pos' = e + 1 /\ pos' \in Nat \ {0}
         /\ Stretches' = Stretches
         /\ \A pair : Before(pair, pos)' <=> Before(pair, e + 1)
         /\ \/ stage' = "pad" /\ e = Len(text) + 1
            \/ /\ stage' = "split" /\ e <= Len(text)
               /\ e \in 1 .. Len(text) /\ text[e] = Bar
<1>1. /\ UNCHANGED <<raw, pass, text, origin>>
      /\ pos' = e + 1
      /\ stage' = IF e = Len(text) + 1 THEN "pad" ELSE "split"
  BY DEF Advance, NextStart
<1>2. /\ e \in Nat /\ Len(text) \in Nat
      /\ e <= Len(text) => e \in 1 .. Len(text) /\ text[e] = Bar
  BY TokenFacts
<1>3. \/ stage' = "pad" /\ e = Len(text) + 1
      \/ stage' = "split" /\ e <= Len(text)
  <2>1. CASE e = Len(text) + 1
    BY <1>1, <2>1
  <2>2. CASE e # Len(text) + 1
    <3>1. e <= Len(text)
      BY <1>2, <2>2
    <3> QED
      BY <1>1, <2>2, <3>1
  <2> QED
    BY <2>1, <2>2
<1>4. Unused'
  BY <1>3 DEF Unused
<1>5. Ordered' /\ Kept' /\ Covered' /\ Contiguous'
  <2>1. Ordered /\ Kept /\ Covered /\ Contiguous /\ InText
    BY DEF IInv, InText
  <2> QED
    BY <1>1, <2>1, SameText
<1>6. Replaced'
  <2>1. ASSUME NEW d \in 1 .. 3, NEW k \in 1 .. Len(text), Gone(d, k)'
        PROVE  ~OccursAt(d, k)
    <3>1. Gone(d, k)
      BY DEF Gone
    <3> QED
      BY <3>1 DEF IInv, Replaced
  <2>2. \A d, k : OccursAt(d, k)' <=> OccursAt(d, k)
    BY <1>1 DEF OccursAt
  <2> QED
    BY <1>1, <2>1, <2>2 DEF Replaced
<1>7. \A pair : Before(pair, pos)' <=> Before(pair, e + 1)
  BY <1>1 DEF Before
<1> QED
  BY <1>1, <1>2, <1>3, <1>4, <1>5, <1>6, <1>7, SameRaw

\* What is in front of a position is in front of those behind it.
LEMMA BeforeStays ==
  ASSUME NEW pair, NEW k \in Int, NEW j \in Int, k <= j, Before(pair, k)
  PROVE  Before(pair, j)
<1>1. ASSUME NEW m \in j .. Len(text) PROVE m \in k .. Len(text)
  OBVIOUS
<1> QED
  BY <1>1 DEF Before

\* A sequence is another with one more element when it agrees with that one.
LEMMA AppendIs ==
  ASSUME NEW S, NEW s \in Seq(S), NEW e \in S,
         NEW m \in Nat, m = Len(s),
         NEW w \in Seq(S), Len(w) = m + 1,
         \A i \in 1 .. m : w[i] = s[i],
         w[m + 1] = e
  PROVE  Append(s, e) = w
<1> DEFINE t == Append(s, e)
<1>1. t \in Seq(S)
  BY AppendProperties
<1>2. Len(t) = m + 1
  BY AppendProperties
<1>3. \A i \in 1 .. m : t[i] = s[i]
  BY AppendProperties
<1>4. t[m + 1] = e
  <2>1. Append(s, e)[Len(s) + 1] = e
    BY AppendProperties
  <2> QED
    BY <2>1
<1> HIDE DEF t
<1>5. t = [i \in 1 .. m + 1 |-> t[i]]
  BY <1>1, <1>2, SeqDef
<1>6. ASSUME NEW i \in 1 .. m + 1 PROVE t[i] = w[i]
  <2>1. i \in 1 .. m \/ i = m + 1
    OBVIOUS
  <2> QED
    BY <1>3, <1>4, <2>1
<1>7. w = [i \in 1 .. m + 1 |-> w[i]]
  BY SeqDef
<1>8. t = w
  BY <1>5, <1>6, <1>7
<1> QED
  BY <1>8 DEF t

\* What is written at one pair more.
LEMMA WrittenAppend ==
  ASSUME NEW S, NEW pairs \in Seq(S), NEW pair \in S, points = Written(pairs),
         points \in Seq(Seq(Characters)),
         NEW point \in Seq(Characters), point = SubSeq(raw, pair[1], pair[2])
  PROVE  Append(points, point) = Written(Append(pairs, pair))
<1> DEFINE n == Len(pairs)
           C == Seq(Characters)
           w == Written(Append(pairs, pair))
<1>1. /\ n \in Nat
      /\ Len(Append(pairs, pair)) = n + 1
      /\ \A i \in 1 .. n : Append(pairs, pair)[i] = pairs[i]
      /\ Append(pairs, pair)[n + 1] = pair
  BY LenProperties, AppendProperties
<1>2. n = Len(points)
  <2>1. DOMAIN points = 1 .. n
    BY DEF Written
  <2>2. DOMAIN points = 1 .. Len(points) /\ Len(points) \in Nat
    BY LenProperties
  <2> QED
    BY <1>1, <2>1, <2>2
<1>3. w = [i \in 1 .. n + 1 |-> w[i]]
  BY <1>1 DEF Written
<1>4. \A i \in 1 .. n + 1 :
        w[i] = SubSeq(raw, Append(pairs, pair)[i][1], Append(pairs, pair)[i][2])
  BY <1>1 DEF Written
<1>5. ASSUME NEW i \in 1 .. n PROVE w[i] = points[i]
  <2>1. points[i] = SubSeq(raw, pairs[i][1], pairs[i][2])
    BY DEF Written
  <2>2. i \in 1 .. n + 1
    BY <1>1
  <2> QED
    BY <1>1, <1>4, <2>1, <2>2
<1>6. w[n + 1] = point
  <2>1. n + 1 \in 1 .. n + 1
    BY <1>1
  <2> QED
    BY <1>1, <1>4, <2>1
<1>7. n \in Nat
  BY <1>1
<1>8. points \in Seq(C) /\ point \in C
  OBVIOUS
<1> HIDE DEF n, C, w
<1>9. ASSUME NEW i \in 1 .. n + 1 PROVE w[i] \in C
  <2>1. \A k \in 1 .. n : points[k] \in C
    BY <1>2, <1>7, <1>8, ElementOfSeq
  <2>2. i \in 1 .. n \/ i = n + 1
    BY <1>7
  <2> QED
    BY <1>5, <1>6, <1>8, <2>1, <2>2
<1>10. w \in Seq(C) /\ Len(w) = n + 1
  <2>1. n + 1 \in Nat
    BY <1>7
  <2>2. w \in [1 .. n + 1 -> C]
    BY <1>3, <1>9
  <2>3. w \in Seq(C)
    BY <2>1, <2>2, SeqDef
  <2> QED
    BY <2>1, <2>2, <2>3, LenProperties
<1>11. Append(points, point) = w
  BY <1>2, <1>5, <1>6, <1>7, <1>8, <1>10, AppendIs
<1> QED
  BY <1>11 DEF w

\* The step that pushes what is cut from a token.
LEMMA PushStep == IInv /\ Push => IInv'
<1> SUFFICES ASSUME IInv, Push PROVE IInv'
  OBVIOUS
<1>t. TypeOK
  BY DEF IInv
<1>1. stage = "split"
  BY DEF Push
<1>2. PICK e \in pos .. Len(text) + 1 :
        /\ EndsAt(e) /\ Advance(e)
        /\ \E f, l \in pos .. e - 1 :
             /\ TrimCopy(e, f, l)
             /\ points' = Append(points, SubSeq(text, f, l))
             /\ cuts' = Append(cuts, <<origin[f], origin[l]>>)
  BY DEF Push
<1>3. PICK f, l \in pos .. e - 1 :
        /\ TrimCopy(e, f, l)
        /\ points' = Append(points, SubSeq(text, f, l))
        /\ cuts' = Append(cuts, <<origin[f], origin[l]>>)
  BY <1>2
<1> DEFINE pair == <<origin[f], origin[l]>>
<1> DEFINE point == SubSeq(text, f, l)
<1> DEFINE n == Len(cuts)
<1>4. /\ Unused' /\ Ordered' /\ Kept' /\ Covered' /\ Contiguous'
      /\ Replaced'
      /\ UNCHANGED <<raw, pass, text, origin>>
      /\ pos' = e + 1 /\ pos' \in Nat \ {0}
      /\ Stretches' = Stretches
      /\ \A q : Before(q, pos)' <=> Before(q, e + 1)
      /\ \/ stage' = "pad" /\ e = Len(text) + 1
         \/ /\ stage' = "split" /\ e <= Len(text)
            /\ e \in 1 .. Len(text) /\ text[e] = Bar
  <2> HIDE DEF pair, point, n
  <2> QED BY <1>1, <1>2, AdvanceFrame
<1>5. /\ f \in 1 .. Len(text) /\ l \in 1 .. Len(text)
      /\ f \in Nat /\ l \in Nat /\ pos <= f /\ f <= l /\ l < e
      /\ origin[f] \in 1 .. Len(raw) /\ origin[l] \in 1 .. Len(raw)
      /\ point = SubSeq(raw, origin[f], origin[l])
  BY <1>1, <1>2, <1>3, TrimFacts
<1>6. pair \in Stretches
  BY <1>1, <1>2, <1>3, TokenIsStretch
<1>7. pair \in (1 .. Len(raw)) \X (1 .. Len(raw)) /\ pair[1] = origin[f] /\ pair[2] = origin[l]
  BY <1>5
<1>8. point \in Seq(Characters)
  <2>1. \A m \in f .. l : text[m] \in Characters
    <3>1. ASSUME NEW m \in f .. l PROVE m \in 1 .. Len(text)
      BY <1>5, <1>t, Lengths
    <3> QED
      BY <1>t, <3>1, Lengths
  <2>2. f \in Int /\ l \in Int /\ f <= l
    BY <1>5
  <2> QED
    BY <2>1, <2>2, SubSeqProperties
<1>n. n \in Nat /\ e \in Nat /\ pos \in Nat /\ Len(text) \in Nat /\ pos <= e
  <2>1. n \in Nat /\ Len(text) \in Nat /\ pos \in Nat /\ e \in Nat
    BY <1>1, <1>2, <1>t, Lengths, TokenFacts
  <2> QED
    BY <2>1
<1>a. /\ \A q \in 1 .. n : cuts[q] \in Stretches /\ Before(cuts[q], pos)
      /\ \A q \in Stretches : Before(q, pos) => \E m \in 1 .. n : cuts[m] = q
  <2>1. AtToken
    BY DEF IInv
  <2> QED
    BY <1>1, <2>1 DEF AtToken
<1>9. /\ cuts' \in Seq((1 .. Len(raw)) \X (1 .. Len(raw)))
      /\ Len(cuts') = n + 1
      /\ \A i \in 1 .. n : cuts'[i] = cuts[i]
      /\ cuts'[n + 1] = pair
  <2>1. cuts \in Seq((1 .. Len(raw)) \X (1 .. Len(raw)))
    BY <1>t DEF TypeOK
  <2>2. cuts' = Append(cuts, pair)
    BY <1>3
  <2> HIDE DEF pair
  <2> QED
    BY <1>7, <2>1, <2>2, AppendProperties
<1>10. TypeOK'
  <2>1. points' \in Seq(Seq(Characters))
    <3>1. points' = Append(points, point) /\ points \in Seq(Seq(Characters))
      BY <1>3, <1>t DEF TypeOK
    <3> HIDE DEF point
    <3> QED
      BY <1>8, <3>1, AppendProperties
  <2>2. stage' \in {"split", "pad"}
    BY <1>4
  <2> QED
    BY <1>t, <1>4, <1>9, <2>1, <2>2 DEF TypeOK
<1> HIDE DEF pair, point, n
\* The stretches in front of what is left of the text are those that are cut.
<1>11. \A q \in 1 .. Len(cuts') : cuts'[q] \in Stretches /\ Before(cuts'[q], e + 1)
  <2>1. Before(pair, e + 1)
    <3>1. ASSUME NEW m \in e + 1 .. Len(text) PROVE pair[2] < origin[m]
      <4>1. m \in 1 .. Len(text) /\ l < m
        BY <1>5, <1>n
      <4>2. origin[l] < origin[m]
        BY <1>1, <1>5, <4>1, TextOrder DEF InText
      <4> QED
        BY <1>7, <4>2
    <3> QED
      BY <3>1 DEF Before
  <2>2. ASSUME NEW q \in 1 .. n + 1
        PROVE  cuts'[q] \in Stretches /\ Before(cuts'[q], e + 1)
    <3>1. CASE q \in 1 .. n
      <4>1. cuts[q] \in Stretches /\ Before(cuts[q], pos) /\ cuts'[q] = cuts[q]
        BY <1>9, <1>a, <3>1
      <4>2. Before(cuts[q], e + 1)
        BY <1>n, <4>1, BeforeStays
      <4> QED
        BY <4>1, <4>2
    <3>2. CASE q = n + 1
      BY <1>6, <1>9, <2>1, <3>2
    <3> QED
      BY <1>n, <3>1, <3>2
  <2> QED
    BY <1>9, <2>2
<1>12. \A q \in Stretches : Before(q, e + 1) => \E m \in 1 .. Len(cuts') : cuts'[m] = q
  <2>1. ASSUME NEW q \in Stretches, Before(q, e + 1)
        PROVE  \E m \in 1 .. n + 1 : cuts'[m] = q
    <3>1. CASE Before(q, pos)
      <4>1. PICK m \in 1 .. n : cuts[m] = q
        BY <1>a, <3>1
      <4>2. m \in 1 .. n + 1
        BY <1>n
      <4>3. cuts'[m] = q
        BY <1>9, <4>1
      <4> QED
        BY <4>2, <4>3
    <3>2. CASE ~Before(q, pos)
      <4>1. q = pair
        BY <1>1, <1>2, <1>3, <2>1, <3>2, OneStretch DEF pair
      <4>2. n + 1 \in 1 .. n + 1
        BY <1>n
      <4> QED
        BY <1>9, <4>1, <4>2
    <3> QED
      BY <3>1, <3>2
  <2> QED
    BY <1>9, <2>1
<1>13. AtToken'
  <2> SUFFICES ASSUME stage' = "split" PROVE AtToken'
    BY DEF AtToken
  <2>1. e \in 1 .. Len(text) /\ text[e] = Bar /\ (e + 1) - 1 = e /\ e + 1 <= Len(text) + 1
    BY <1>4, <1>n
  <2>2. pos' <= Len(text') + 1 /\ text'[pos' - 1] = Bar
    BY <1>4, <2>1
  <2> QED
    BY <1>4, <1>11, <1>12, <2>2 DEF AtToken
<1>14. AllCut'
  <2> SUFFICES ASSUME stage' = "pad" PROVE AllCut'
    BY <1>4 DEF AllCut
  <2>1. \A q : Before(q, e + 1)
    BY <1>4, <1>n DEF Before
  <2> QED
    BY <1>4, <1>11, <1>12, <2>1 DEF AllCut
<1>15. CutsInOrder'
  <2>1. ASSUME NEW i \in 1 .. n + 1, NEW m \in 1 .. n + 1, i < m
        PROVE  cuts'[i][2] < cuts'[m][1]
    <3>0. i \in 1 .. n
      BY <1>n, <2>1
    <3>1. i \in 1 .. n /\ cuts'[i] = cuts[i]
      BY <1>9, <3>0
    <3>2. CASE m \in 1 .. n
      <4>1. cuts[i][2] < cuts[m][1]
        BY <2>1, <3>1, <3>2 DEF IInv, CutsInOrder, InOrder, n
      <4> QED
        BY <1>9, <3>1, <3>2, <4>1
    <3>3. CASE m = n + 1
      <4>1. f \in pos .. Len(text)
        BY <1>5, <1>n
      <4>2. cuts[i][2] < origin[f]
        BY <1>a, <3>1, <4>1 DEF Before
      <4> QED
        BY <1>7, <1>9, <3>1, <3>3, <4>2
    <3> QED
      BY <1>n, <3>2, <3>3
  <2> QED
    BY <1>9, <2>1 DEF CutsInOrder, InOrder
<1>16. PointsAreCuts'
  <2>1. points = Written(cuts) /\ points \in Seq(Seq(Characters))
    BY <1>1, <1>t DEF IInv, PointsAreCuts, TypeOK
  <2>2. cuts \in Seq((1 .. Len(raw)) \X (1 .. Len(raw)))
    BY <1>t DEF TypeOK
  <2>3. Append(points, point) = Written(Append(cuts, pair))
    BY <1>5, <1>7, <1>8, <2>1, <2>2, WrittenAppend
  <2>4. points' = Append(points, point) /\ cuts' = Append(cuts, pair) /\ raw' = raw
    BY <1>3, <1>4 DEF pair, point
  <2>5. Written(cuts)' = Written(Append(cuts, pair))
    BY <2>4 DEF Written
  <2> QED
    BY <1>4, <2>3, <2>4, <2>5 DEF PointsAreCuts
<1> QED
  BY <1>4, <1>10, <1>13, <1>14, <1>15, <1>16 DEF IInv

\* The step over a token that shows nothing.
LEMMA SkipStep == IInv /\ Skip => IInv'
<1> SUFFICES ASSUME IInv, Skip PROVE IInv'
  OBVIOUS
<1>t. TypeOK
  BY DEF IInv
<1>1. stage = "split" /\ UNCHANGED <<points, cuts>>
  BY DEF Skip
<1>2. PICK e \in pos .. Len(text) + 1 : EndsAt(e) /\ Visible(e) = {} /\ Advance(e)
  BY DEF Skip
<1>4. /\ Unused' /\ Ordered' /\ Kept' /\ Covered' /\ Contiguous'
      /\ Replaced'
      /\ UNCHANGED <<raw, pass, text, origin>>
      /\ pos' = e + 1 /\ pos' \in Nat \ {0}
      /\ Stretches' = Stretches
      /\ \A q : Before(q, pos)' <=> Before(q, e + 1)
      /\ \/ stage' = "pad" /\ e = Len(text) + 1
         \/ /\ stage' = "split" /\ e <= Len(text)
            /\ e \in 1 .. Len(text) /\ text[e] = Bar
  BY <1>1, <1>2, AdvanceFrame
<1>n. /\ e \in Nat /\ pos \in Nat /\ Len(text) \in Nat /\ pos <= e
      /\ \A q \in 1 .. Len(cuts) : cuts[q] \in Stretches /\ Before(cuts[q], pos)
      /\ \A q \in Stretches :
           Before(q, pos) => \E m \in 1 .. Len(cuts) : cuts[m] = q
  <2>1. AtToken
    BY DEF IInv
  <2> QED
    BY <1>1, <1>2, <2>1, TokenFacts DEF AtToken
<1>5. TypeOK'
  <2>1. stage' \in {"split", "pad"}
    BY <1>4
  <2> QED
    BY <1>t, <1>1, <1>4, <2>1 DEF TypeOK
<1>6. \A q \in 1 .. Len(cuts) : cuts[q] \in Stretches /\ Before(cuts[q], e + 1)
  BY <1>n, BeforeStays
<1>7. ASSUME NEW q \in Stretches, Before(q, e + 1)
      PROVE  \E m \in 1 .. Len(cuts) : cuts[m] = q
  <2>1. Before(q, pos)
    BY <1>1, <1>2, <1>7, StretchIsToken
  <2> QED
    BY <1>n, <2>1
<1>8. AtToken'
  <2> SUFFICES ASSUME stage' = "split" PROVE AtToken'
    BY DEF AtToken
  <2>1. e \in 1 .. Len(text) /\ text[e] = Bar /\ (e + 1) - 1 = e /\ e + 1 <= Len(text) + 1
    BY <1>4, <1>n
  <2>2. pos' <= Len(text') + 1 /\ text'[pos' - 1] = Bar
    BY <1>4, <2>1
  <2> QED
    BY <1>1, <1>4, <1>6, <1>7, <2>2 DEF AtToken
<1>9. AllCut'
  <2> SUFFICES ASSUME stage' = "pad" PROVE AllCut'
    BY <1>4 DEF AllCut
  <2>1. \A q : Before(q, e + 1)
    BY <1>4, <1>n DEF Before
  <2> QED
    BY <1>1, <1>4, <1>6, <1>7, <2>1 DEF AllCut
<1>10. CutsInOrder' /\ PointsAreCuts'
  BY <1>1, <1>4 DEF IInv, CutsInOrder, InOrder, PointsAreCuts, Written
<1> QED
  BY <1>4, <1>5, <1>8, <1>9, <1>10 DEF IInv

-----------------------------------------------------------------------------
(* Storing the points *)

\* As many points as pairs, and what they are.
LEMMA WrittenFacts ==
  ASSUME TypeOK
  PROVE  /\ Written(cuts) \in Seq(Seq(Characters))
         /\ Len(Written(cuts)) = Len(cuts)
         /\ \A n \in 1 .. Len(cuts) :
              Written(cuts)[n] = SubSeq(raw, cuts[n][1], cuts[n][2])
<1>0. Len(cuts) \in Nat
  BY Lengths
<1>1. ASSUME NEW n \in 1 .. Len(cuts)
      PROVE  SubSeq(raw, cuts[n][1], cuts[n][2]) \in Seq(Characters)
  <2>1. cuts[n][1] \in 1 .. Len(raw) /\ cuts[n][2] \in 1 .. Len(raw) /\ Len(raw) \in Nat
    BY Lengths
  <2> DEFINE a == cuts[n][1]
  <2> DEFINE b == cuts[n][2]
  <2>2. \A i \in a .. b : raw[i] \in Characters
    <3>1. ASSUME NEW i \in a .. b PROVE i \in 1 .. Len(raw)
      BY <2>1
    <3> QED
      BY <3>1, Lengths
  <2>3. a \in Int /\ b \in Int
    BY <2>1
  <2> HIDE DEF a, b
  <2>4. SubSeq(raw, a, b) \in Seq(Characters)
    BY <2>2, <2>3, SubSeqProperties
  <2> QED
    BY <2>4 DEF a, b
<1> DEFINE w == Written(cuts)
<1> DEFINE n == Len(cuts)
<1>2. w = [i \in 1 .. n |-> SubSeq(raw, cuts[i][1], cuts[i][2])]
  BY DEF Written
<1>3. \A i \in 1 .. n : w[i] = SubSeq(raw, cuts[i][1], cuts[i][2])
  BY <1>2
<1>4. w \in [1 .. n -> Seq(Characters)]
  BY <1>1, <1>2
<1> HIDE DEF w, n
<1>5. w \in Seq(Seq(Characters)) /\ Len(w) = n
  <2>1. n \in Nat
    BY <1>0 DEF n
  <2>2. w \in Seq(Seq(Characters))
    BY <1>4, <2>1, SeqDef
  <2>3. DOMAIN w = 1 .. n
    BY <1>4
  <2> QED
    BY <2>1, <2>2, <2>3, LenProperties
<1> QED
  BY <1>3, <1>5 DEF w, n

\* A point written twice.
LEMMA TwiceFacts ==
  ASSUME NEW S, NEW s \in Seq(S), Len(s) = 1
  PROVE  s \o s = <<s[1], s[1]>>
<1>1. s[1] \in S
  BY ElementOfSeq
<1>2. /\ s \o s \in Seq(S) /\ Len(s \o s) = 2
      /\ (s \o s)[1] = s[1] /\ (s \o s)[2] = s[1]
  <2>1. s \o s \in Seq(S)
    BY ConcatProperties
  <2>2. Len(s \o s) = Len(s) + Len(s)
    BY ConcatProperties
  <2> DEFINE t == s \o s
             n == Len(s)
  <2>3. \A i \in 1 .. n + n : t[i] = IF i <= n THEN s[i] ELSE s[i - n]
    BY ConcatProperties
  <2>n. n = 1
    OBVIOUS
  <2> HIDE DEF t, n
  <2>4. t[1] = s[1]
    BY <2>3, <2>n
  <2>5. t[2] = s[1]
    BY <2>3, <2>n
  <2> QED
    BY <2>1, <2>2, <2>4, <2>5 DEF t
<1>3. <<s[1], s[1]>> \in Seq(S) /\ Len(<<s[1], s[1]>>) = 2
  BY <1>1
<1>4. ASSUME NEW i \in 1 .. 2 PROVE (s \o s)[i] = <<s[1], s[1]>>[i]
  <2>1. i = 1 \/ i = 2
    OBVIOUS
  <2> QED
    BY <1>2, <2>1
<1> QED
  BY <1>2, <1>3, <1>4, SeqEqual

\* What is stored are the points for the cuts.
LEMMA PaddedFacts ==
  ASSUME TypeOK, points = Written(cuts)
  PROVE  /\ Padded = PointsFor(cuts)
         /\ Padded \in Seq(Seq(Characters))
<1>1. /\ points \in Seq(Seq(Characters)) /\ raw \in Seq(Characters)
      /\ Len(points) = Len(cuts) /\ Len(points) \in Nat
  BY WrittenFacts, Lengths DEF TypeOK
<1>2. CASE Len(cuts) = 0
  <2>1. points = <<>>
    BY <1>1, <1>2, EmptySeq
  <2>2. Padded = <<raw, raw>>
    BY <2>1 DEF Padded
  <2>3. PointsFor(cuts) = <<raw, raw>>
    BY <1>2 DEF PointsFor
  <2>4. <<raw, raw>> \in Seq(Seq(Characters))
    BY <1>1
  <2> QED
    BY <2>2, <2>3, <2>4
<1>3. CASE Len(cuts) = 1
  <2>1. points # <<>>
    <3>1. Len(<<>>) = 0 /\ Len(points) = 1
      BY <1>1, <1>3
    <3> QED
      BY <3>1
  <2>2. Padded = <<points[1], points[1]>>
    BY <1>1, <1>3, <2>1 DEF Padded
  <2>3. PointsFor(cuts) = points \o points
    BY <1>3 DEF PointsFor
  <2>4. points \o points = <<points[1], points[1]>>
    <3> DEFINE C == Seq(Characters)
    <3>1. points \in Seq(C) /\ Len(points) = 1
      BY <1>1, <1>3
    <3> HIDE DEF C
    <3> QED
      BY <3>1, TwiceFacts
  <2>5. points[1] \in Seq(Characters)
    <3> DEFINE C == Seq(Characters)
    <3>1. points \in Seq(C) /\ 1 \in 1 .. Len(points)
      BY <1>1, <1>3
    <3> HIDE DEF C
    <3>2. points[1] \in C
      BY <3>1, ElementOfSeq
    <3> QED
      BY <3>2 DEF C
  <2>6. <<points[1], points[1]>> \in Seq(Seq(Characters))
    BY <2>5
  <2> QED
    BY <2>2, <2>3, <2>4, <2>6
<1>4. CASE Len(cuts) # 0 /\ Len(cuts) # 1
  <2>1. points # <<>>
    BY <1>1, <1>4, EmptySeq
  <2>2. Padded = points /\ PointsFor(cuts) = points
    BY <1>1, <1>4, <2>1 DEF Padded, PointsFor
  <2> QED
    BY <1>1, <2>2
<1> QED
  BY <1>2, <1>3, <1>4

\* The step that stores the points.
LEMMA StoreStep == IInv /\ Store => IInv'
<1> SUFFICES ASSUME IInv, Store PROVE IInv'
  OBVIOUS
<1>t. TypeOK
  BY DEF IInv
<1>1. /\ stage = "pad" /\ stage' = "stored" /\ points' = Padded
      /\ pass' = 1 /\ text' = <<>> /\ pos' = 1 /\ origin' = <<>>
      /\ UNCHANGED <<raw, cuts>>
  BY DEF Store
<1>2. points = Written(cuts)
  BY <1>1 DEF IInv, PointsAreCuts
<1>3. TypeOK'
  <2>1. points' \in Seq(Seq(Characters))
    BY <1>t, <1>1, <1>2, PaddedFacts
  <2>2. /\ text' \in Seq(Characters) /\ origin' \in Seq(1 .. Len(raw))
        /\ Len(origin') = Len(text')
    BY <1>1
  <2> QED
    BY <1>t, <1>1, <2>1, <2>2 DEF TypeOK
<1>4. Unused' /\ Ordered' /\ Kept' /\ Covered' /\ Contiguous'
  BY <1>1 DEF Unused, Ordered, Kept, Covered, Contiguous, InText
<1>5. Replaced' /\ AtToken'
  BY <1>1 DEF Replaced, Gone, AtToken
<1>6. AllCut' /\ CutsInOrder'
  BY <1>1, SameRaw DEF IInv, AllCut, CutsInOrder, InOrder
<1>7. PointsAreCuts'
  <2>1. PointsFor(cuts)' = PointsFor(cuts)
    BY <1>1 DEF PointsFor, Written
  <2> QED
    BY <1>t, <1>1, <1>2, <2>1, PaddedFacts DEF PointsAreCuts
<1> QED
  BY <1>3, <1>4, <1>5, <1>6, <1>7 DEF IInv

-----------------------------------------------------------------------------
(* The invariant *)

\* A text that is as it came.
FreshText ==
  /\ raw \in Seq(Characters)
  /\ stage = "replace" /\ pass = 1 /\ text = raw /\ pos = 1
  /\ origin = [i \in 1 .. Len(raw) |-> i]

\* What the invariant says of a text, which is true of it.
InStep ==
  /\ text \in Seq(Characters)
  /\ origin \in Seq(1 .. Len(raw)) /\ Len(origin) = Len(text)
  /\ Ordered /\ Kept /\ Covered /\ Contiguous /\ Replaced

LEMMA FreshFacts == FreshText => InStep
<1> SUFFICES ASSUME FreshText PROVE InStep
  OBVIOUS
<1> DEFINE n == Len(raw)
<1>1. text = raw /\ raw \in Seq(Characters) /\ n \in Nat
  BY LenProperties DEF FreshText
<1>2. origin = [i \in 1 .. n |-> i] /\ \A i \in 1 .. n : origin[i] = i
  BY DEF FreshText
<1>3. origin \in Seq(1 .. n) /\ Len(origin) = n
  <2> HIDE DEF n
  <2>1. origin \in [1 .. n -> 1 .. n]
    BY <1>2
  <2>2. origin \in Seq(1 .. n)
    BY <1>1, <2>1, SeqDef
  <2>3. DOMAIN origin = 1 .. n
    BY <1>2
  <2> QED
    BY <1>1, <2>2, <2>3, LenProperties
<1>4. Ordered /\ Contiguous
  BY <1>1, <1>2 DEF Ordered, Contiguous
<1>5. Kept
  BY <1>1, <1>2 DEF Kept
<1>6. Covered
  BY <1>1, <1>2 DEF Covered
<1>7. Replaced
  <2>1. ASSUME NEW d \in 1 .. 3, NEW k \in 1 .. Len(text), Gone(d, k) PROVE FALSE
    <3>1. d < 1 \/ (d = 1 /\ k < 1)
      BY <2>1 DEF Gone, FreshText
    <3> QED
      BY <1>1, <3>1
  <2> QED
    BY <2>1 DEF Replaced
<1> QED
  BY <1>1, <1>3, <1>4, <1>5, <1>6, <1>7 DEF InStep

\* The first state of the program.
LEMMA InitInv == Init => IInv
<1> SUFFICES ASSUME Init PROVE IInv
  OBVIOUS
<1>1. /\ raw \in Texts /\ stage = "replace" /\ pass = 1 /\ text = raw /\ pos = 1
      /\ points = <<>> /\ cuts = <<>>
      /\ origin = [i \in 1 .. Len(raw) |-> i]
  BY DEF Init
<1>2. raw \in Seq(Characters)
  <2>1. PICK n \in 1 .. MaxLength : raw \in [1 .. n -> Characters]
    BY <1>1 DEF Texts
  <2>2. n \in Nat
    OBVIOUS
  <2> QED
    BY <2>1, <2>2, SeqDef
<1>3. FreshText
  BY <1>1, <1>2 DEF FreshText
<1>4. /\ text \in Seq(Characters)
      /\ origin \in Seq(1 .. Len(raw)) /\ Len(origin) = Len(text)
      /\ Ordered /\ Kept /\ Covered /\ Contiguous /\ Replaced
  BY <1>3, FreshFacts DEF InStep
<1>5. TypeOK
  BY <1>1, <1>2, <1>4 DEF TypeOK
<1>6. Unused /\ AtToken /\ AllCut /\ PointsAreCuts
  BY <1>1 DEF Unused, AtToken, AllCut, PointsAreCuts
<1>7. CutsInOrder
  BY <1>1 DEF CutsInOrder, InOrder
<1> QED
  BY <1>4, <1>5, <1>6, <1>7 DEF IInv

\* A step that changes nothing.
LEMMA StutterStep == IInv /\ UNCHANGED vars => IInv'
<1> SUFFICES ASSUME IInv, UNCHANGED vars PROVE IInv'
  OBVIOUS
<1>1. UNCHANGED <<raw, stage, pass, text, pos, points, origin, cuts>>
  BY DEF vars
<1>2. TypeOK' /\ Unused' /\ CutsInOrder' /\ PointsAreCuts'
  BY <1>1 DEF IInv, TypeOK, Unused, CutsInOrder, InOrder, PointsAreCuts, Written, PointsFor
<1>3. Ordered' /\ Kept' /\ Covered' /\ Contiguous'
  <2>1. Ordered /\ Kept /\ Covered /\ Contiguous /\ (InText' => InText)
    BY <1>1 DEF IInv, InText
  <2> QED
    BY <1>1, <2>1, SameText
<1>4. Replaced'
  BY <1>1 DEF IInv, Replaced, Gone, OccursAt
<1>5. AtToken' /\ AllCut'
  BY <1>1, SameRaw DEF IInv, AtToken, AllCut, Before
<1> QED
  BY <1>2, <1>3, <1>4, <1>5 DEF IInv

\* Every step of the program preserves the invariant.
LEMMA NextInv == IInv /\ [Next]_vars => IInv'
<1> SUFFICES ASSUME IInv, [Next]_vars PROVE IInv'
  OBVIOUS
<1>1. CASE Replace
  BY <1>1, ReplaceStep
<1>2. CASE NextDelimiter
  BY <1>2, NextDelimiterStep
<1>3. CASE Push
  BY <1>3, PushStep
<1>4. CASE Skip
  BY <1>4, SkipStep
<1>5. CASE Store
  BY <1>5, StoreStep
<1>6. CASE UNCHANGED vars
  BY <1>6, StutterStep
<1> QED
  BY <1>1, <1>2, <1>3, <1>4, <1>5, <1>6 DEF Next

\* The inductive invariant holds in every state of every split, of a text of
\* any length over any characters.
THEOREM Invariant == Spec => []IInv
BY InitInv, NextInv, PTL DEF Spec

\* The locals of SplitRoutePoints are well typed in every one of its iterations:
\* each character of normalized is from a position of raw_points.
THEOREM TypeCorrect == Spec => []TypeOK
<1>1. IInv => TypeOK
  BY DEF IInv
<1> QED
  BY <1>1, Invariant, PTL

-----------------------------------------------------------------------------
(* Stretches in their order *)

\* What a numbering counts.
LEMMA Counted ==
  ASSUME NEW T, NEW n \in Nat, NEW s,
         \A k \in 1 .. n : s[k] \in T,
         \A j, k \in 1 .. n : s[j] = s[k] => j = k,
         \A x \in T : \E k \in 1 .. n : s[k] = x
  PROVE  IsFiniteSet(T) /\ Cardinality(T) = n
<1> DEFINE f == [k \in 1 .. n |-> s[k]]
<1>1. f \in Bijection(1 .. n, T)
  <2>1. f \in [1 .. n -> T] /\ \A k \in 1 .. n : f[k] = s[k]
    OBVIOUS
  <2>2. \A j, k \in 1 .. n : f[j] = f[k] => j = k
    BY <2>1
  <2>3. \A x \in T : \E k \in 1 .. n : f[k] = x
    BY <2>1
  <2> HIDE DEF f
  <2>4. f \in Injection(1 .. n, T)
    BY <2>1, <2>2 DEF Injection, IsInjective
  <2>5. f \in Surjection(1 .. n, T)
    BY <2>1, <2>3 DEF Surjection
  <2> QED
    BY <2>4, <2>5 DEF Bijection
<1>2. ExistsBijection(1 .. n, T)
  BY <1>1 DEF ExistsBijection
<1>3. IsFiniteSet(1 .. n) /\ Cardinality(1 .. n) = n
  <2>1. 1 \in Int /\ n \in Int /\ (IF 1 > n THEN 0 ELSE n - 1 + 1) = n
    OBVIOUS
  <2> QED
    BY <2>1, FS_Interval
<1> QED
  BY <1>2, <1>3, FS_Bijection

\* A sequence that has the stretches of a text in their order.
Lists(pairs) ==
  /\ pairs \in Seq(Nat \X Nat)
  /\ InOrder(pairs)
  /\ \A n \in 1 .. Len(pairs) : pairs[n] \in Stretches
  /\ \A pair \in Stretches : \E n \in 1 .. Len(pairs) : pairs[n] = pair

\* As facts about numbers.
LEMMA ListFacts ==
  ASSUME NEW pairs, Lists(pairs)
  PROVE  /\ Len(pairs) \in Nat
         /\ \A n \in 1 .. Len(pairs) :
              /\ pairs[n] \in Stretches
              /\ pairs[n][1] \in Nat /\ pairs[n][2] \in Nat
              /\ pairs[n][1] <= pairs[n][2]
         /\ \A m, n \in 1 .. Len(pairs) : m < n => pairs[m][2] < pairs[n][1]
         /\ \A m, n \in 1 .. Len(pairs) : pairs[m] = pairs[n] => m = n
<1>1. Len(pairs) \in Nat
  BY LenProperties DEF Lists
<1>2. ASSUME NEW n \in 1 .. Len(pairs)
      PROVE  /\ pairs[n] \in Stretches
             /\ pairs[n][1] \in Nat /\ pairs[n][2] \in Nat
             /\ pairs[n][1] <= pairs[n][2]
  <2>1. pairs[n] \in Stretches
    BY DEF Lists
  <2>2. pairs[n] \in Nat \X Nat
    BY ElementOfSeq DEF Lists
  <2>3. IsStretch(pairs[n][1], pairs[n][2])
    BY <2>1 DEF Stretches
  <2> QED
    BY <2>1, <2>2, <2>3 DEF IsStretch
<1>3. ASSUME NEW m \in 1 .. Len(pairs), NEW n \in 1 .. Len(pairs), m < n
      PROVE  pairs[m][2] < pairs[n][1]
  BY <1>3 DEF Lists, InOrder
<1>4. ASSUME NEW m \in 1 .. Len(pairs), NEW n \in 1 .. Len(pairs), pairs[m] = pairs[n]
      PROVE  m = n
  <2>1. ~(pairs[m][2] < pairs[n][1]) /\ ~(pairs[n][2] < pairs[m][1])
    BY <1>2, <1>4
  <2>2. ~(m < n) /\ ~(n < m)
    BY <1>3, <2>1
  <2> QED
    BY <2>2
<1> QED
  BY <1>1, <1>2, <1>3, <1>4

\* There are as many stretches.
LEMMA ListLength ==
  ASSUME NEW pairs, Lists(pairs)
  PROVE  Cardinality(Stretches) = Len(pairs)
<1>1. \A pair \in Stretches : \E n \in 1 .. Len(pairs) : pairs[n] = pair
  BY DEF Lists
<1>2. /\ Len(pairs) \in Nat
      /\ \A n \in 1 .. Len(pairs) : pairs[n] \in Stretches
      /\ \A m, n \in 1 .. Len(pairs) : pairs[m] = pairs[n] => m = n
  BY ListFacts
<1> QED
  BY <1>1, <1>2, Counted

\* And a stretch is where the number of those in front of it says.
LEMMA ListRank ==
  ASSUME NEW pairs, Lists(pairs), NEW i \in 1 .. Len(pairs)
  PROVE  Cardinality({pair \in Stretches : pair[2] < pairs[i][1]}) = i - 1
<1> DEFINE T == {pair \in Stretches : pair[2] < pairs[i][1]}
<1>0. /\ Len(pairs) \in Nat
      /\ \A n \in 1 .. Len(pairs) :
           /\ pairs[n] \in Stretches
           /\ pairs[n][1] \in Nat /\ pairs[n][2] \in Nat
           /\ pairs[n][1] <= pairs[n][2]
      /\ \A m, n \in 1 .. Len(pairs) : m < n => pairs[m][2] < pairs[n][1]
      /\ \A m, n \in 1 .. Len(pairs) : pairs[m] = pairs[n] => m = n
  BY ListFacts
<1>1. \A k \in 1 .. i - 1 : k \in 1 .. Len(pairs) /\ k < i
  BY <1>0
<1>2. \A k \in 1 .. i - 1 : pairs[k] \in T
  BY <1>0, <1>1
<1>3. \A j, k \in 1 .. i - 1 : pairs[j] = pairs[k] => j = k
  BY <1>0, <1>1
<1>4. ASSUME NEW x \in T PROVE \E k \in 1 .. i - 1 : pairs[k] = x
  <2>1. PICK k \in 1 .. Len(pairs) : pairs[k] = x
    BY DEF Lists
  <2>2. pairs[k][2] < pairs[i][1]
    BY <2>1
  <2>3. CASE k < i
    <3>1. k \in 1 .. i - 1
      BY <2>3
    <3> QED
      BY <2>1, <3>1
  <2>4. CASE i <= k
    <3>1. pairs[i][1] <= pairs[k][1]
      <4>1. CASE i < k
        <5>1. pairs[i][2] < pairs[k][1] /\ pairs[i][1] <= pairs[i][2]
              /\ pairs[i][1] \in Nat /\ pairs[i][2] \in Nat /\ pairs[k][1] \in Nat
          BY <1>0, <4>1
        <5> QED
          BY <5>1
      <4>2. CASE i = k
        BY <1>0, <4>2
      <4> QED
        BY <2>4, <4>1, <4>2
    <3>2. pairs[k][1] <= pairs[k][2] /\ pairs[k][1] \in Nat /\ pairs[k][2] \in Nat
          /\ pairs[i][1] \in Nat
      BY <1>0
    <3> QED
      BY <2>2, <3>1, <3>2
  <2> QED
    BY <2>3, <2>4
<1>5. i - 1 \in Nat
  OBVIOUS
<1> HIDE DEF T
<1>6. Cardinality(T) = i - 1
  BY <1>2, <1>3, <1>4, <1>5, Counted
<1> QED
  BY <1>6 DEF T

\* So there is only one such sequence.
LEMMA OneList ==
  ASSUME NEW s, NEW t, Lists(s), Lists(t)
  PROVE  s = t
<1>1. s \in Seq(Nat \X Nat) /\ t \in Seq(Nat \X Nat)
  BY DEF Lists
<1>2. Len(s) = Len(t)
  <2>1. Cardinality(Stretches) = Len(s)
    BY ListLength
  <2>2. Cardinality(Stretches) = Len(t)
    BY ListLength
  <2> QED
    BY <2>1, <2>2
<1>3. ASSUME NEW i \in 1 .. Len(s) PROVE s[i] = t[i]
  <2>1. s[i] \in Stretches
    BY DEF Lists
  <2>2. PICK j \in 1 .. Len(t) : t[j] = s[i]
    BY <2>1 DEF Lists
  <2>3. Cardinality({pair \in Stretches : pair[2] < s[i][1]}) = i - 1
    BY ListRank
  <2>4. Cardinality({pair \in Stretches : pair[2] < t[j][1]}) = j - 1
    BY ListRank
  <2>5. i - 1 = j - 1
    BY <2>2, <2>3, <2>4
  <2>6. i = j
    BY <2>5
  <2> QED
    BY <2>2, <2>6
<1> QED
  BY <1>1, <1>2, <1>3, SeqEqual

\* What has been cut is the list of the stretches.
LEMMA CutsList ==
  ASSUME IInv, stage = "stored"
  PROVE  Lists(cuts)
<1>1. cuts \in Seq(Nat \X Nat)
  <2>1. cuts \in Seq((1 .. Len(raw)) \X (1 .. Len(raw)))
    BY DEF IInv, TypeOK
  <2>2. (1 .. Len(raw)) \X (1 .. Len(raw)) \subseteq Nat \X Nat
    OBVIOUS
  <2> QED
    BY <2>1, <2>2, SeqDef
<1> QED
  BY <1>1 DEF Lists, IInv, AllCut, CutsInOrder

-----------------------------------------------------------------------------
(* The properties of a split *)

\* TwoPoints, for a text of any length over any characters: the validator of
\* the collection (minItems: 2) never refuses the points of a trip.
THEOREM TwoPointsHolds == Spec => []TwoPoints
<1>1. IInv => TwoPoints
  <2> SUFFICES ASSUME IInv, stage = "stored" PROVE Len(points) >= 2
    BY DEF TwoPoints, Stored
  <2>1. TypeOK /\ points = PointsFor(cuts)
    BY DEF IInv, PointsAreCuts
  <2> DEFINE w == Written(cuts)
  <2>2. w \in Seq(Seq(Characters)) /\ Len(w) = Len(cuts) /\ Len(cuts) \in Nat
    BY <2>1, WrittenFacts, Lengths
  <2>3. CASE Len(cuts) = 0
    <3>1. points = <<raw, raw>>
      BY <2>1, <2>3 DEF PointsFor
    <3> QED
      BY <3>1
  <2>4. CASE Len(cuts) = 1
    <3>1. points = w \o w
      BY <2>1, <2>4 DEF PointsFor
    <3>2. w \o w = <<w[1], w[1]>>
      <4> DEFINE C == Seq(Characters)
      <4>1. w \in Seq(C) /\ Len(w) = 1
        BY <2>2, <2>4
      <4> HIDE DEF C, w
      <4> QED
        BY <4>1, TwiceFacts
    <3> HIDE DEF w
    <3>3. Len(<<w[1], w[1]>>) = 2
      OBVIOUS
    <3> QED
      BY <3>1, <3>2, <3>3
  <2>5. CASE Len(cuts) # 0 /\ Len(cuts) # 1
    <3>1. points = w
      BY <2>1, <2>5 DEF PointsFor
    <3> HIDE DEF w
    <3> QED
      BY <2>2, <2>5, <3>1
  <2> QED
    BY <2>3, <2>4, <2>5
<1> QED
  BY <1>1, Invariant, PTL

\* PointsAreStretches, likewise: SplitRoutePoints loses, invents, cuts and
\* reorders nothing, whatever delimiters meet in the text.
THEOREM PointsAreStretchesHolds == Spec => []PointsAreStretches
<1>1. IInv => PointsAreStretches
  <2> SUFFICES ASSUME IInv, stage = "stored"
               PROVE  \E pairs \in [1 .. Cardinality(Stretches) -> Stretches] :
                        InOrder(pairs) /\ points = PointsFor(pairs)
    BY DEF PointsAreStretches, Stored
  <2>1. Lists(cuts)
    BY CutsList
  <2>2. Cardinality(Stretches) = Len(cuts)
    BY <2>1, ListLength
  <2>3. cuts \in [1 .. Len(cuts) -> Stretches]
    <3>1. cuts \in Seq(Nat \X Nat) /\ \A n \in 1 .. Len(cuts) : cuts[n] \in Stretches
      BY <2>1 DEF Lists
    <3>2. cuts \in [1 .. Len(cuts) -> Nat \X Nat]
      BY <3>1, LenProperties
    <3> QED
      BY <3>1, <3>2
  <2>4. InOrder(cuts) /\ points = PointsFor(cuts)
    BY DEF IInv, CutsInOrder, PointsAreCuts
  <2> QED
    BY <2>2, <2>3, <2>4
<1> QED
  BY <1>1, Invariant, PTL

-----------------------------------------------------------------------------
(* The loops end *)

\* A set of numbers has a least one.
LEMMA LeastOne ==
  ASSUME NEW T, T \subseteq Nat, T # {}
  PROVE  \E x \in T : \A y \in T : x <= y
<1> DEFINE R == OpToRel(<, Nat)
<1>1. IsWellFoundedOn(R, Nat)
  BY NatLessThanWellFounded
<1>2. \A x, y \in Nat : <<y, x>> \in R <=> y < x
  BY DEF OpToRel
<1> HIDE DEF R
<1>3. PICK x \in T : \A y \in T : ~(<<y, x>> \in R)
  BY <1>1, WFMin
<1>4. ASSUME NEW y \in T PROVE x <= y
  <2>1. x \in Nat /\ y \in Nat
    OBVIOUS
  <2>2. ~(y < x)
    BY <1>2, <1>3, <2>1
  <2> QED
    BY <2>1, <2>2
<1> QED
  BY <1>4

\* And, if there is a bound, a greatest one.
LEMMA GreatestOne ==
  ASSUME NEW n \in Nat, NEW T, T \subseteq 0 .. n, T # {}
  PROVE  \E x \in T : \A y \in T : y <= x
<1> DEFINE U == {n - y : y \in T}
<1>1. U \subseteq Nat /\ U # {}
  <2>1. ASSUME NEW y \in T PROVE n - y \in Nat
    <3>1. y \in 0 .. n
      OBVIOUS
    <3> QED
      BY <3>1
  <2>2. PICK y \in T : TRUE
    OBVIOUS
  <2>3. n - y \in U
    OBVIOUS
  <2> QED
    BY <2>1, <2>3
<1>2. \A y \in T : n - y \in U
  OBVIOUS
<1>3. \A u \in U : \E y \in T : u = n - y
  OBVIOUS
<1> HIDE DEF U
<1>4. PICK u \in U : \A v \in U : u <= v
  BY <1>1, LeastOne
<1>5. PICK x \in T : u = n - x
  BY <1>3
<1>6. ASSUME NEW y \in T PROVE y <= x
  <2>1. n - x <= n - y
    BY <1>2, <1>4, <1>5
  <2> QED
    BY <2>1
<1> QED
  BY <1>6

\* While SplitRoutePoints runs it has a next step: what find returns, or where
\* the token ends and what TrimCopy leaves of it.
NotStuck ==
  /\ stage = "replace" => Found = {} \/ \E p \in Found : \A q \in Found : p <= q
  /\ stage = "split" =>
       \E e \in pos .. Len(text) + 1 :
         /\ EndsAt(e)
         /\ Visible(e) = {} \/ \E f, l \in pos .. e - 1 : TrimCopy(e, f, l)

\* A step of a loop leaves less to search, or ends the loop; a loop is followed
\* by another pass or by what comes behind it, never by itself from the start.
MovesOn ==
  /\ stage = "replace" =>
       \/ /\ stage' = "replace" /\ pass' = pass
          /\ pos < pos' /\ Len(text') <= Len(text) /\ pos' <= Len(text') + 1
       \/ stage' = "replace" /\ pass < pass' /\ pass' <= Len(Delimiters)
       \/ stage' = "split" /\ pass = Len(Delimiters)
  /\ stage = "split" =>
       /\ stage' \in {"split", "pad"}
       /\ stage' = "split" =>
            pos < pos' /\ text' = text /\ pos' <= Len(text) + 1
  /\ stage = "pad" => stage' = "stored"
  /\ stage # "stored"

\* SplitRoutePoints never stops short of its result, on any text: find, TrimCopy
\* and the loops around them always have something to do next.
THEOREM NotStuckHolds == Spec => []NotStuck
<1>1. IInv => NotStuck
  <2> SUFFICES ASSUME IInv PROVE NotStuck
    OBVIOUS
  <2>t. TypeOK /\ pos \in Nat /\ pos >= 1 /\ Len(text) \in Nat
    BY Lengths DEF IInv, TypeOK
  <2>1. Found = {} \/ \E p \in Found : \A q \in Found : p <= q
    <3>1. Found \subseteq Nat
      BY <2>t DEF Found
    <3> QED
      BY <3>1, LeastOne
  <2>2. ASSUME stage = "split"
        PROVE  \E e \in pos .. Len(text) + 1 :
                 /\ EndsAt(e)
                 /\ Visible(e) = {} \/ \E f, l \in pos .. e - 1 : TrimCopy(e, f, l)
    <3>1. pos <= Len(text) + 1
      BY <2>2 DEF IInv, AtToken
    <3>2. \E e \in pos .. Len(text) + 1 : EndsAt(e)
      <4>1. CASE Bars = {}
        <5>1. Len(text) + 1 \in pos .. Len(text) + 1
          BY <2>t, <3>1
        <5>2. EndsAt(Len(text) + 1)
          BY <4>1 DEF EndsAt
        <5> QED
          BY <5>1, <5>2
      <4>2. CASE Bars # {}
        <5>1. Bars \subseteq Nat
          BY <2>t DEF Bars
        <5>2. PICK e \in Bars : \A k \in Bars : e <= k
          BY <4>2, <5>1, LeastOne
        <5>3. e \in pos .. Len(text) + 1
          BY <2>t DEF Bars
        <5> QED
          BY <5>2, <5>3 DEF EndsAt
      <4> QED
        BY <4>1, <4>2
    <3>3. PICK e \in pos .. Len(text) + 1 : EndsAt(e)
      BY <3>2
    <3>4. CASE Visible(e) = {}
      BY <3>3, <3>4
    <3>5. CASE Visible(e) # {}
      <4>1. e \in Nat
        BY <2>t
      <4>2. Visible(e) \subseteq Nat /\ Visible(e) \subseteq 0 .. e
            /\ Visible(e) \subseteq pos .. e - 1
        BY <2>t, <4>1 DEF Visible
      <4>3. PICK f \in Visible(e) : \A k \in Visible(e) : f <= k
        BY <3>5, <4>2, LeastOne
      <4>4. PICK l \in Visible(e) : \A k \in Visible(e) : k <= l
        BY <3>5, <4>1, <4>2, GreatestOne
      <4>5. TrimCopy(e, f, l) /\ f \in pos .. e - 1 /\ l \in pos .. e - 1
        BY <4>2, <4>3, <4>4 DEF TrimCopy
      <4> QED
        BY <3>3, <4>5
    <3> QED
      BY <3>4, <3>5
  <2> QED
    BY <2>1, <2>2 DEF NotStuck
<1> QED
  BY <1>1, Invariant, PTL

\* Every step of the loops brings them nearer to their end.  With NotStuck this
\* is what SplitReturns rests on, for a text of any length.
THEOREM MovesOnHolds == Spec => [][MovesOn]_vars
<1>1. ASSUME IInv, Next PROVE MovesOn
  <2>t. TypeOK /\ pos \in Nat /\ Len(text) \in Nat
    BY <1>1, Lengths DEF IInv, TypeOK
  <2>1. CASE Replace
    <3>1. stage = "replace" /\ stage' = "replace" /\ pass' = pass
      BY <2>1 DEF Replace
    <3>2. PICK p : ReplacesAt(p)
      BY <2>1 DEF Replace, ReplacesAt, Width
    <3>3. /\ p \in 1 .. Len(text) /\ p >= pos /\ Len(text') = Len(text) - Width + 1
          /\ Width = IF pass = 1 THEN 2 ELSE 1
          /\ p + Width - 1 <= Len(text)
      BY <2>t, <3>2, ReplaceFacts
    <3>4. pos' = p + 1
      BY <3>2 DEF ReplacesAt
    <3>5. Width = 1 \/ Width = 2
      BY <3>3
    <3>6. pos < pos' /\ Len(text') <= Len(text) /\ pos' <= Len(text') + 1
      BY <2>t, <3>3, <3>4, <3>5
    <3> QED
      BY <3>1, <3>6 DEF MovesOn
  <2>2. CASE NextDelimiter
    <3>1. /\ stage = "replace"
          /\ IF pass < 3 THEN pass' = pass + 1 /\ stage' = "replace"
             ELSE stage' = "split" /\ pass' = pass
      BY <2>2, DelimiterFacts DEF NextDelimiter
    <3>2. pass = 1 \/ pass = 2 \/ pass = 3
      BY <2>t DEF TypeOK
    <3>3. \/ stage' = "replace" /\ pass < pass' /\ pass' <= 3
          \/ stage' = "split" /\ pass = 3
      BY <3>1, <3>2
    <3> QED
      BY <3>1, <3>3, DelimiterFacts DEF MovesOn
  <2>3. CASE Push \/ Skip
    <3>1. stage = "split"
      BY <2>3 DEF Push, Skip
    <3>2. PICK e \in pos .. Len(text) + 1 : EndsAt(e) /\ Advance(e)
      BY <2>3 DEF Push, Skip
    <3>3. /\ text' = text /\ pos' = e + 1
          /\ \/ stage' = "pad"
             \/ stage' = "split" /\ e <= Len(text)
      BY <1>1, <3>1, <3>2, AdvanceFrame
    <3>4. pos < pos' /\ (e <= Len(text) => pos' <= Len(text) + 1)
      BY <2>t, <3>3
    <3> QED
      BY <3>1, <3>3, <3>4 DEF MovesOn
  <2>4. CASE Store
    <3>1. stage = "pad" /\ stage' = "stored"
      BY <2>4 DEF Store
    <3> QED
      BY <3>1 DEF MovesOn
  <2> QED
    BY <1>1, <2>1, <2>2, <2>3, <2>4 DEF Next
<1>2. IInv /\ [Next]_vars => [MovesOn]_vars
  BY <1>1
<1> QED
  BY <1>2, Invariant, PTL DEF Spec
=============================================================================
