-------------------------- MODULE SseStreamProofs --------------------------
(***************************************************************************)
(* The incremental parser yields the events of the body read as a whole,   *)
(* for bodies of any length over any pieces of data.                       *)
(*                                                                         *)
(* The argument: the parser's four locals are what the definition finds in *)
(* the lines since the last blank line, or since the last event (BlockInv),*)
(* so the event built at a blank line is the one the definition puts       *)
(* there; and a line added at the end of a body changes nothing of the     *)
(* events before it.                                                       *)
(***************************************************************************)
EXTENDS SseStream, FiniteSetTheorems, SequenceTheorems, TLAPS

\* What the parser's locals are after the lines of a body.
EventTypeOf(body) == LastIn(body, Block(body, Len(body) + 1), "event", NoText)
EventIdOf(body) == LastIn(body, Since(body, Len(body) + 1), "id", NoText)
RetryOf(body) == LastIn(body, Since(body, Len(body) + 1), "retry", NoRetry)
DataOf(body) == DataIn(body, Block(body, Len(body) + 1))

BlockInv ==
  /\ eventType = EventTypeOf(received)
  /\ eventId = EventIdOf(received)
  /\ retryMs = RetryOf(received)
  /\ dataBuf = DataOf(received)

IInv == TypeOK /\ BlockInv /\ YieldsTheEvents

-----------------------------------------------------------------------------
(* Sets of numbers *)

\* A bounded set of numbers that is not empty has a largest element.
LEMMA MaxFacts ==
  ASSUME NEW n \in Nat, NEW S \in SUBSET (0..n), S # {}
  PROVE  Max(S) \in S /\ \A x \in S : x <= Max(S)
<1> DEFINE T == {n - x : x \in S}
<1>1. \A x \in S : x \in Int /\ 0 <= x /\ x <= n
  OBVIOUS
<1>2. T \subseteq Nat /\ T # {}
  <2>1. \A x \in S : n - x \in Nat
    BY <1>1
  <2>2. \E x \in S : n - x \in T
    OBVIOUS
  <2> QED
    BY <2>1, <2>2
<1>3. PICK t \in T : \A y \in T : ~(<<y, t>> \in OpToRel(<, Nat))
  BY <1>2, NatLessThanWellFounded, WFMin
<1>4. \A y \in T : ~(y < t)
  BY <1>2, <1>3 DEF OpToRel
<1>5. PICK m \in S : t = n - m
  OBVIOUS
<1>6. \A x \in S : m >= x
  <2> SUFFICES ASSUME NEW x \in S
               PROVE  m >= x
    OBVIOUS
  <2>1. ~(n - x < n - m)
    BY <1>4, <1>5
  <2> QED
    BY <1>1, <2>1
<1>7. Max(S) = CHOOSE x \in S : \A y \in S : x >= y
  BY DEF Max
<1>8. Max(S) \in S /\ \A y \in S : Max(S) >= y
  BY <1>6, <1>7
<1> QED
  BY <1>8

\* A set that a larger number is added to has that number as its largest.
LEMMA MaxOfAdded ==
  ASSUME NEW S \in SUBSET Int, NEW m \in Int, \A x \in S : x < m
  PROVE  Max(S \cup {m}) = m
<1> DEFINE U == S \cup {m}
<1>1. Max(U) = CHOOSE x \in U : \A y \in U : x >= y
  BY DEF Max
<1>2. \A x \in U : (\A y \in U : x >= y) <=> x = m
  OBVIOUS
<1> QED
  BY <1>1, <1>2

\* Append, element by element.
LEMMA OneMore ==
  ASSUME NEW n \in Nat, NEW seq, seq = [k \in 1..n |-> seq[k]], NEW last
  PROVE  Append(seq, last) = [k \in 1..n + 1 |-> IF k = n + 1 THEN last ELSE seq[k]]
<1> DEFINE T == {seq[k] : k \in 1..n} \cup {last}
           long == [k \in 1..n + 1 |-> IF k = n + 1 THEN last ELSE seq[k]]
<1>1. (\A k \in 1..n : seq[k] \in T) /\ last \in T
  OBVIOUS
<1> HIDE DEF T
<1>2. seq \in Seq(T) /\ Len(seq) = n
  BY <1>1
<1>3. \A k \in 1..n + 1 : long[k] \in T
  BY <1>1
<1>4. long \in Seq(T) /\ Len(long) = n + 1
  <2>1. long = [k \in 1..n + 1 |-> long[k]]
    OBVIOUS
  <2> HIDE DEF long
  <2> QED
    BY <1>3, <2>1
<1>5. /\ Append(seq, last) \in Seq(T) /\ Len(Append(seq, last)) = n + 1
      /\ \A k \in 1..n : Append(seq, last)[k] = seq[k]
      /\ Append(seq, last)[n + 1] = last
  BY <1>1, <1>2, AppendProperties
<1>6. \A k \in 1..n + 1 : long[k] = Append(seq, last)[k]
  BY <1>5
<1> HIDE DEF long
<1>7. long = Append(seq, last)
  BY <1>4, <1>5, <1>6, SeqEqual
<1> QED
  BY <1>7 DEF long

LEMMA AscendingEmpty == Ascending({}) = <<>>
<1>1. Cardinality({}) = 0
  BY FS_EmptySet
<1>2. DOMAIN Ascending({}) = {}
  BY <1>1 DEF Ascending
<1> QED
  BY <1>1 DEF Ascending

\* In ascending order, a larger number comes last.
LEMMA AscendingAdded ==
  ASSUME NEW S \in SUBSET Nat, IsFiniteSet(S), NEW m \in Nat, \A x \in S : x < m
  PROVE  Ascending(S \cup {m}) = Append(Ascending(S), m)
<1> DEFINE U == S \cup {m}
           c == Cardinality(S)
<1>1. c \in Nat /\ IsFiniteSet(U) /\ Cardinality(U) = c + 1
  BY FS_CardinalityType, FS_AddElement
<1>2. \A x \in S : x \in Nat /\ x < m
  OBVIOUS
<1>3. \A x \in S : {y \in U : y <= x} = {y \in S : y <= x}
  BY <1>2
<1>4. {y \in U : y <= m} = U
  <2>1. \A y \in U : y <= m
    BY <1>2
  <2> QED
    BY <2>1
<1>5. \A x \in S : Cardinality({y \in S : y <= x}) \in Nat /\ Cardinality({y \in S : y <= x}) <= c
  <2> SUFFICES ASSUME NEW x \in S
               PROVE  Cardinality({y \in S : y <= x}) \in Nat
                      /\ Cardinality({y \in S : y <= x}) <= c
    OBVIOUS
  <2>1. {y \in S : y <= x} \in SUBSET S
    OBVIOUS
  <2> QED
    BY <2>1, FS_Subset, FS_CardinalityType
<1>6. ASSUME NEW k \in 1..c
      PROVE  Ranked(U, k) = Ranked(S, k)
  <2>1. \A x \in U : x = m \/ x \in S
    OBVIOUS
  <2>2. m \notin Ranked(U, k)
    BY <1>1, <1>4, <1>6 DEF Ranked
  <2> QED
    BY <1>3, <2>1, <2>2 DEF Ranked
<1>7. Ranked(U, c + 1) = {m}
  <2>1. m \in Ranked(U, c + 1)
    BY <1>1, <1>4 DEF Ranked
  <2>2. ASSUME NEW x \in Ranked(U, c + 1), x # m
        PROVE  FALSE
    <3>1. x \in S /\ Cardinality({y \in U : y <= x}) = c + 1
      BY <2>2 DEF Ranked
    <3>2. Cardinality({y \in S : y <= x}) = c + 1
      BY <1>3, <3>1
    <3> HIDE DEF c
    <3> QED
      BY <1>1, <1>5, <3>1, <3>2
  <2> QED
    BY <2>1, <2>2
<1>8. (CHOOSE x \in {m} : TRUE) = m
  OBVIOUS
<1> HIDE DEF U, c
<1>9. Ascending(U) = [k \in 1..c + 1 |-> CHOOSE x \in Ranked(U, k) : TRUE]
  BY <1>1 DEF Ascending
<1>10. Ascending(S) = [k \in 1..c |-> CHOOSE x \in Ranked(S, k) : TRUE]
  BY DEF Ascending, c
<1> DEFINE A == Ascending(S)
           B == Ascending(U)
<1>11. A = [k \in 1..c |-> A[k]] /\ B = [k \in 1..c + 1 |-> B[k]]
  BY <1>9, <1>10
<1>12. \A k \in 1..c : B[k] = A[k]
  BY <1>1, <1>6, <1>9, <1>10
<1>13. B[c + 1] = m
  BY <1>1, <1>7, <1>8, <1>9
<1> HIDE DEF A, B
<1>14. B = Append(A, m)
  <2>1. Append(A, m) = [k \in 1..c + 1 |-> IF k = c + 1 THEN m ELSE A[k]]
    BY <1>1, <1>11, OneMore
  <2>2. \A k \in 1..c + 1 : B[k] = IF k = c + 1 THEN m ELSE A[k]
    BY <1>1, <1>12, <1>13
  <2> QED
    BY <1>11, <2>1, <2>2
<1> QED
  BY <1>14 DEF A, B, U

\* A finite set in ascending order has its elements.
LEMMA AscendingElements ==
  ASSUME NEW S \in SUBSET Nat, IsFiniteSet(S)
  PROVE  /\ Cardinality(S) \in Nat
         /\ DOMAIN Ascending(S) = 1..Cardinality(S)
         /\ \A k \in 1..Cardinality(S) : Ascending(S)[k] \in S
<1> DEFINE c == Cardinality(S)
           upTo(x) == {y \in S : y <= x}
           rank == [x \in S |-> Cardinality(upTo(x))]
<1>1. c \in Nat /\ IsFiniteSet(1..c) /\ Cardinality(1..c) = c
  BY FS_CardinalityType, FS_Interval
<1>2. \A x \in S : upTo(x) \in SUBSET S /\ x \in upTo(x)
  OBVIOUS
<1>3. \A x \in S : IsFiniteSet(upTo(x)) /\ Cardinality(upTo(x)) \in 1..c
  <2> SUFFICES ASSUME NEW x \in S
               PROVE  IsFiniteSet(upTo(x)) /\ Cardinality(upTo(x)) \in 1..c
    OBVIOUS
  <2>1. upTo(x) \in SUBSET S /\ upTo(x) # {}
    BY <1>2
  <2> HIDE DEF upTo
  <2>2. IsFiniteSet(upTo(x)) /\ Cardinality(upTo(x)) <= c
    BY <2>1, FS_Subset
  <2>3. Cardinality(upTo(x)) \in Nat /\ Cardinality(upTo(x)) # 0
    BY <2>1, <2>2, FS_CardinalityType, FS_EmptySet
  <2> HIDE DEF c
  <2> QED
    BY <1>1, <2>2, <2>3
<1>4. ASSUME NEW x \in S, NEW y \in S, x < y
      PROVE  Cardinality(upTo(x)) # Cardinality(upTo(y))
  <2>1. upTo(x) \in SUBSET upTo(y)
    <3>1. \A z \in S : z \in Nat
      OBVIOUS
    <3>2. \A z \in S : z <= x => z <= y
      BY <1>4, <3>1
    <3> QED
      BY <3>2
  <2>2. y \in upTo(y) /\ y \notin upTo(x)
    BY <1>4
  <2> HIDE DEF upTo
  <2> QED
    BY <1>3, <2>1, <2>2, FS_Subset
<1>5. rank \in Injection(S, 1..c)
  <2>1. \A x \in S, y \in S : x < y \/ y < x \/ x = y
    OBVIOUS
  <2>2. \A x \in S, y \in S : rank[x] = rank[y] => x = y
    BY <1>4, <2>1
  <2>3. rank \in [S -> 1..c]
    BY <1>3
  <2> HIDE DEF rank
  <2> QED
    BY <2>2, <2>3 DEF Injection, IsInjective
<1>6. rank \in Surjection(S, 1..c)
  BY <1>1, <1>5, FS_Injection
<1>7. ASSUME NEW k \in 1..c
      PROVE  Ascending(S)[k] \in S
  <2>1. PICK x \in S : rank[x] = k
    BY <1>6 DEF Surjection
  <2>2. x \in Ranked(S, k)
    BY <2>1 DEF Ranked
  <2>3. Ascending(S)[k] = CHOOSE n \in Ranked(S, k) : TRUE
    BY DEF Ascending
  <2>4. Ascending(S)[k] \in Ranked(S, k)
    BY <2>2, <2>3
  <2> QED
    BY <2>4 DEF Ranked
<1> QED
  BY <1>1, <1>7 DEF Ascending

-----------------------------------------------------------------------------
(* A body and one line more *)

Longer(body, l) == Append(body, l)

\* Numbers of lines of a body of n lines.
Within(S, n) == S \in SUBSET (1..n)

\* The lines of the longer body.
LEMMA LinesOfLonger ==
  ASSUME NEW body \in Seq(Lines), NEW l \in Lines
  PROVE  /\ Longer(body, l) \in Seq(Lines)
         /\ Len(body) \in Nat /\ Len(Longer(body, l)) = Len(body) + 1
         /\ DOMAIN body = 1..Len(body) /\ DOMAIN Longer(body, l) = 1..Len(body) + 1
         /\ \A i \in 1..Len(body) : Longer(body, l)[i] = body[i]
         /\ Longer(body, l)[Len(body) + 1] = l
BY AppendProperties, LenProperties DEF Longer

\* The places of a field: those there were, and the new line's if it has the field.
LEMMA PlacesOfLonger ==
  ASSUME NEW body \in Seq(Lines), NEW l \in Lines, NEW field
  PROVE  /\ Places(body, field) \in SUBSET (1..Len(body))
         /\ Places(Longer(body, l), field) =
              Places(body, field) \cup (IF l.field = field THEN {Len(body) + 1} ELSE {})
<1> DEFINE n == Len(body)
           longer == Longer(body, l)
<1>1. /\ n \in Nat /\ DOMAIN body = 1..n /\ DOMAIN longer = 1..n + 1
      /\ \A i \in 1..n : longer[i] = body[i]
      /\ longer[n + 1] = l
  BY LinesOfLonger
<1> HIDE DEF n, longer
<1>2. \A i : i \in 1..n + 1 <=> i \in 1..n \/ i = n + 1
  BY <1>1
<1>3. n + 1 \notin 1..n
  BY <1>1
<1>4. Places(body, field) \in SUBSET (1..n)
  BY <1>1 DEF Places
<1>5. ASSUME NEW i
      PROVE  i \in Places(longer, field)
               <=> i \in Places(body, field) \/ (i = n + 1 /\ l.field = field)
  <2>1. CASE i = n + 1
    BY <1>1, <1>2, <1>3, <2>1 DEF Places
  <2>2. CASE i # n + 1
    BY <1>1, <1>2, <2>2 DEF Places
  <2> QED
    BY <2>1, <2>2
<1> QED
  BY <1>4, <1>5 DEF n, longer

\* Only the places before an end count for what lies before it.
LEMMA BetweenSame ==
  ASSUME NEW end, NEW S, NEW T, {i \in S : i < end} = {i \in T : i < end}
  PROVE  Between(S, end) = Between(T, end)
BY DEF Between

\* What lies before an end are lines.
LEMMA BetweenLines ==
  ASSUME NEW n \in Nat, NEW S, Within(S, n), NEW end \in 1..n + 1
  PROVE  /\ Between(S, end) \in SUBSET (1..end - 1)
         /\ end \notin S => Between(S, end + 1) = Between(S, end) \cup {end}
         /\ end \in S => Between(S, end + 1) = {}
<1>1. \A i \in S : i \in Int /\ 1 <= i /\ i <= n
  BY DEF Within
<1> DEFINE U == {0} \cup {i \in S : i < end}
           V == {0} \cup {i \in S : i < end + 1}
<1>2. /\ end \in Nat /\ end >= 1 /\ U # {}
      /\ \A i \in U : i \in Int /\ 0 <= i /\ i <= n /\ i < end
  BY <1>1
<1>3. Max(U) \in U /\ Max(U) \in 0..end - 1
  <2> HIDE DEF U
  <2>1. U \in SUBSET (0..n)
    BY <1>2
  <2>2. Max(U) \in U
    BY <1>2, <2>1, MaxFacts
  <2> QED
    BY <1>2, <2>2
<1>4. ASSUME end \notin S
      PROVE  V = U
  <2>1. \A i \in S : i < end + 1 <=> i < end
    BY <1>1, <1>4
  <2> QED
    BY <2>1
<1>5. ASSUME end \in S
      PROVE  Max(V) = end
  <2>1. V = U \cup {end}
    <3>1. \A i \in S : i < end + 1 <=> i < end \/ i = end
      BY <1>1, <1>2
    <3> QED
      BY <1>5, <3>1
  <2> HIDE DEF U, V
  <2>2. U \in SUBSET Int /\ end \in Int /\ \A i \in U : i < end
    BY <1>2
  <2>3. Max(U \cup {end}) = end
    BY ONLY <2>2, MaxOfAdded
  <2> QED
    BY <2>1, <2>3
<1>6. Between(S, end) = Max(U) + 1 .. end - 1 /\ Between(S, end + 1) = Max(V) + 1 .. end
  BY DEF Between
<1> HIDE DEF U, V
<1> QED
  BY <1>3, <1>4, <1>5, <1>6

\* The last place in a set of lines where a field has a value that counts.
Found(body, lines, field) == {i \in Places(body, field) \cap lines : body[i].value # "soon"}

\* Where the field is found with the new line: where it was,
LEMMA FoundSame ==
  ASSUME NEW body \in Seq(Lines), NEW l \in Lines, NEW lines, Within(lines, Len(body)), NEW field
  PROVE  /\ Within(Found(body, lines, field), Len(body))
         /\ Found(Longer(body, l), lines, field) = Found(body, lines, field)
<1> DEFINE n == Len(body)
           longer == Longer(body, l)
<1>1. /\ n \in Nat /\ lines \in SUBSET (1..n)
      /\ \A i \in 1..n : longer[i] = body[i]
  BY LinesOfLonger DEF Within
<1>2. Places(longer, field) = Places(body, field) \cup (IF l.field = field THEN {n + 1} ELSE {})
  BY PlacesOfLonger
<1> HIDE DEF n, longer
<1>3. \A i \in lines : i \in 1..n /\ i # n + 1
  BY <1>1
<1>4. Found(longer, lines, field) = Found(body, lines, field)
  BY <1>1, <1>2, <1>3 DEF Found
<1>5. Within(Found(body, lines, field), n)
  BY <1>1 DEF Found, Within
<1> QED
  BY <1>4, <1>5 DEF n, longer

\* and at that line if it has the field.
LEMMA FoundAdded ==
  ASSUME NEW body \in Seq(Lines), NEW l \in Lines, NEW lines, Within(lines, Len(body)), NEW field
  PROVE  Found(Longer(body, l), lines \cup {Len(body) + 1}, field) =
           Found(body, lines, field)
             \cup (IF l.field = field /\ l.value # "soon" THEN {Len(body) + 1} ELSE {})
<1> DEFINE n == Len(body)
           longer == Longer(body, l)
<1>1. /\ n \in Nat /\ lines \in SUBSET (1..n)
      /\ \A i \in 1..n : longer[i] = body[i]
      /\ longer[n + 1] = l
  BY LinesOfLonger DEF Within
<1>2. /\ Places(body, field) \in SUBSET (1..n)
      /\ Places(longer, field) =
           Places(body, field) \cup (IF l.field = field THEN {n + 1} ELSE {})
  BY PlacesOfLonger
<1> HIDE DEF n, longer
<1>3. \A i \in lines : i \in 1..n /\ i # n + 1
  BY <1>1
<1>4. ASSUME NEW i
      PROVE  i \in Found(longer, lines \cup {n + 1}, field)
               <=> i \in Found(body, lines, field)
                   \/ (i = n + 1 /\ l.field = field /\ l.value # "soon")
  <2>1. CASE i = n + 1
    <3>1. i \notin Places(body, field) /\ i \notin lines
      BY <1>1, <1>2, <1>3, <2>1
    <3> QED
      BY <1>1, <1>2, <2>1, <3>1 DEF Found
  <2>2. CASE i # n + 1
    BY <1>1, <1>2, <1>3, <2>2 DEF Found
  <2> QED
    BY <2>1, <2>2
<1> QED
  BY <1>4 DEF n, longer

\* The new line changes nothing of what is found in the lines there were.
LEMMA LastInSame ==
  ASSUME NEW body \in Seq(Lines), NEW l \in Lines, NEW lines, Within(lines, Len(body)),
         NEW field, NEW none
  PROVE  LastIn(Longer(body, l), lines, field, none) = LastIn(body, lines, field, none)
<1> DEFINE n == Len(body)
           longer == Longer(body, l)
           S == Found(body, lines, field)
<1>1. n \in Nat /\ \A i \in 1..n : longer[i] = body[i]
  BY LinesOfLonger
<1>2. Within(S, n) /\ Found(longer, lines, field) = S
  BY FoundSame
<1>3. /\ LastIn(body, lines, field, none) = IF S = {} THEN none ELSE body[Max(S)].value
      /\ LastIn(longer, lines, field, none) = IF S = {} THEN none ELSE longer[Max(S)].value
  BY <1>2 DEF LastIn, Found
<1> HIDE DEF n, longer, S
<1>4. CASE S = {}
  BY <1>3, <1>4 DEF longer
<1>5. CASE S # {}
  <2>1. S \in SUBSET (0..n)
    BY <1>1, <1>2 DEF Within
  <2>2. Max(S) \in S
    BY <1>1, <1>5, <2>1, MaxFacts
  <2>3. longer[Max(S)] = body[Max(S)]
    BY <1>1, <1>2, <2>2 DEF Within
  <2> QED
    BY <1>3, <1>5, <2>3 DEF longer
<1> QED
  BY <1>4, <1>5

\* The value of a field after the new line, given the value before it.
Latest(l, field, before) == IF l.field = field /\ l.value # "soon" THEN l.value ELSE before

\* The new line adds what it is itself.
LEMMA LastInAdded ==
  ASSUME NEW body \in Seq(Lines), NEW l \in Lines, NEW lines, Within(lines, Len(body)),
         NEW field, NEW none
  PROVE  LastIn(Longer(body, l), lines \cup {Len(body) + 1}, field, none) =
           Latest(l, field, LastIn(body, lines, field, none))
<1> DEFINE n == Len(body)
           longer == Longer(body, l)
           more == lines \cup {n + 1}
           S == Found(body, lines, field)
<1>1. n \in Nat /\ longer[n + 1] = l
  BY LinesOfLonger
<1>2. Within(S, n) /\ Found(longer, lines, field) = S
  BY FoundSame
<1>3. Found(longer, more, field) =
        S \cup (IF l.field = field /\ l.value # "soon" THEN {n + 1} ELSE {})
  BY FoundAdded
<1>4. LastIn(longer, lines, field, none) = LastIn(body, lines, field, none)
  BY LastInSame
<1>5. \A in : LastIn(longer, in, field, none) =
        IF Found(longer, in, field) = {} THEN none
        ELSE longer[Max(Found(longer, in, field))].value
  BY DEF LastIn, Found
<1> HIDE DEF n, longer, more, S
<1>6. CASE l.field = field /\ l.value # "soon"
  <2>1. S \in SUBSET Int /\ n + 1 \in Int /\ \A i \in S : i < n + 1
    BY <1>1, <1>2 DEF Within
  <2>2. Max(S \cup {n + 1}) = n + 1
    BY ONLY <2>1, MaxOfAdded
  <2>3. Found(longer, more, field) = S \cup {n + 1}
    BY <1>3, <1>6
  <2>4. LastIn(longer, more, field, none) = l.value
    BY <1>1, <1>5, <2>2, <2>3
  <2> QED
    BY <1>6, <2>4 DEF longer, more, n, Latest
<1>7. CASE ~(l.field = field /\ l.value # "soon")
  <2>1. Found(longer, more, field) = Found(longer, lines, field)
    BY <1>2, <1>3, <1>7
  <2>2. LastIn(longer, more, field, none) = LastIn(longer, lines, field, none)
    BY <1>5, <2>1
  <2> QED
    BY <1>4, <1>7, <2>2 DEF longer, more, n, Latest
<1> QED
  BY <1>6, <1>7

\* Sets of lines are finite.
LEMMA LinesFinite ==
  ASSUME NEW n \in Nat, NEW S, Within(S, n)
  PROVE  IsFiniteSet(S) /\ S \in SUBSET Nat
<1>1. IsFiniteSet(S)
  <2>1. IsFiniteSet(1..n)
    BY FS_Interval
  <2> QED
    BY <2>1, FS_Subset DEF Within
<1>2. \A i \in 1..n : i \in Nat
  OBVIOUS
<1> QED
  BY <1>1, <1>2 DEF Within

\* The same of the values of data lines.
LEMMA DataInLonger ==
  ASSUME NEW body \in Seq(Lines), NEW l \in Lines, NEW lines, Within(lines, Len(body))
  PROVE  /\ DataIn(Longer(body, l), lines) = DataIn(body, lines)
         /\ DataIn(Longer(body, l), lines \cup {Len(body) + 1}) =
              IF l.field = "data" THEN Append(DataIn(body, lines), l.value)
              ELSE DataIn(body, lines)
<1> DEFINE n == Len(body)
           longer == Longer(body, l)
           places(b, in) == Places(b, "data") \cap in
           S == places(body, lines)
<1>1. /\ n \in Nat /\ lines \in SUBSET (1..n)
      /\ \A i \in 1..n : longer[i] = body[i]
      /\ longer[n + 1] = l
  BY LinesOfLonger DEF Within
<1>2. /\ Places(body, "data") \in SUBSET (1..n)
      /\ Places(longer, "data") =
           Places(body, "data") \cup (IF l.field = "data" THEN {n + 1} ELSE {})
  BY PlacesOfLonger
<1> HIDE DEF n, longer
<1>3. \A i \in lines : i \in 1..n /\ i < n + 1 /\ i # n + 1
  BY <1>1
<1>4. \A i \in S : i \in 1..n /\ i < n + 1
  BY <1>3
<1>5. places(longer, lines) = S
  BY <1>2, <1>3
<1>6. places(longer, lines \cup {n + 1}) = S \cup (IF l.field = "data" THEN {n + 1} ELSE {})
  <2>1. n + 1 \notin Places(body, "data")
    BY <1>1, <1>2
  <2> QED
    BY <1>2, <1>3, <2>1
<1>7. \A b, in : DataIn(b, in) =
        [k \in DOMAIN Ascending(places(b, in)) |-> b[Ascending(places(b, in))[k]].value]
  BY DEF DataIn
<1> DEFINE A == Ascending(S)
           c == Cardinality(S)
<1> HIDE DEF places, S
<1>8. S \in SUBSET Nat /\ IsFiniteSet(S)
  BY <1>1, <1>4, LinesFinite DEF Within
<1>9. c \in Nat /\ DOMAIN A = 1..c /\ \A k \in 1..c : A[k] \in S
  BY <1>8, AscendingElements
<1> HIDE DEF A, c
<1>10. \A k \in 1..c : longer[A[k]].value = body[A[k]].value
  BY <1>1, <1>4, <1>9
<1>11. DataIn(body, lines) = [k \in 1..c |-> body[A[k]].value]
  BY <1>7, <1>9 DEF S, A
<1>12. DataIn(longer, lines) = DataIn(body, lines)
  BY <1>5, <1>7, <1>9, <1>10, <1>11 DEF A
<1>13. ASSUME l.field = "data"
       PROVE  DataIn(longer, lines \cup {n + 1}) = Append(DataIn(body, lines), l.value)
  <2> DEFINE B == Ascending(S \cup {n + 1})
             D == DataIn(body, lines)
             E == DataIn(longer, lines \cup {n + 1})
  <2>1. places(longer, lines \cup {n + 1}) = S \cup {n + 1}
    BY <1>6, <1>13
  <2>2. S \cup {n + 1} \in SUBSET Nat /\ n + 1 \in Nat /\ n + 1 \notin S
    BY <1>1, <1>4, <1>8
  <2>3. IsFiniteSet(S \cup {n + 1}) /\ Cardinality(S \cup {n + 1}) = c + 1
    BY <1>8, <2>2, FS_AddElement DEF c
  <2>4. DOMAIN B = 1..c + 1
    BY <2>2, <2>3, AscendingElements
  <2>5. B = Append(A, n + 1)
    BY <1>4, <1>8, <2>2, AscendingAdded DEF A
  <2>6. (\A k \in 1..c : B[k] = A[k]) /\ B[c + 1] = n + 1
    <3> HIDE DEF B
    <3>1. A \in Seq(Nat) /\ Len(A) = c
      <4>1. A = [k \in 1..c |-> A[k]]
        BY <1>9 DEF A, Ascending
      <4>2. \A k \in 1..c : A[k] \in Nat
        BY <1>8, <1>9
      <4> QED
        BY <1>9, <4>1, <4>2
    <3> QED
      BY <1>9, <2>2, <2>5, <3>1, AppendProperties
  <2>7. E = [k \in 1..c + 1 |-> longer[B[k]].value]
    BY <1>7, <2>1, <2>4
  <2> HIDE DEF B
  <2>8. D = [k \in 1..c |-> D[k]] /\ E = [k \in 1..c + 1 |-> E[k]]
    BY <1>11, <2>7
  <2>9. \A k \in 1..c : E[k] = D[k]
    <3>1. \A k \in 1..c : k \in 1..c + 1
      BY <1>9
    <3>2. \A k \in 1..c : E[k] = longer[A[k]].value /\ D[k] = body[A[k]].value
      BY <1>11, <2>6, <2>7, <3>1
    <3> QED
      BY <1>10, <3>2
  <2>10. E[c + 1] = l.value
    <3>1. c + 1 \in 1..c + 1
      BY <1>9
    <3> QED
      BY <1>1, <2>6, <2>7, <3>1
  <2> HIDE DEF D, E
  <2>11. Append(D, l.value) = [k \in 1..c + 1 |-> IF k = c + 1 THEN l.value ELSE D[k]]
    BY <1>9, <2>8, OneMore
  <2>12. \A k \in 1..c + 1 : E[k] = IF k = c + 1 THEN l.value ELSE D[k]
    BY <1>9, <2>9, <2>10
  <2>13. E = Append(D, l.value)
    BY <2>8, <2>11, <2>12
  <2> QED
    BY <2>13 DEF D, E
<1>14. ASSUME l.field # "data"
       PROVE  DataIn(longer, lines \cup {n + 1}) = DataIn(body, lines)
  <2>1. places(longer, lines \cup {n + 1}) = places(longer, lines)
    BY <1>5, <1>6, <1>14
  <2> QED
    BY <1>7, <1>12, <2>1
<1> QED
  BY <1>12, <1>13, <1>14 DEF n, longer

\* Nothing is found in no lines.
LEMMA NoneInNothing ==
  ASSUME NEW body, NEW field, NEW none
  PROVE  LastIn(body, {}, field, none) = none
BY DEF LastIn

LEMMA NoDataInNothing ==
  ASSUME NEW body
  PROVE  DataIn(body, {}) = <<>>
<1>1. Places(body, "data") \cap {} = {}
  OBVIOUS
<1>2. DOMAIN Ascending({}) = {}
  BY AscendingEmpty
<1>3. DataIn(body, {}) = [k \in {} |-> body[Ascending({})[k]].value]
  BY <1>1, <1>2 DEF DataIn
<1> QED
  BY <1>3

\* Lines hold data if the sequence of their data is not empty.
LEMMA DataPresent ==
  ASSUME NEW body \in Seq(Lines), NEW lines, Within(lines, Len(body))
  PROVE  DataIn(body, lines) # <<>> <=> Places(body, "data") \cap lines # {}
<1> DEFINE S == Places(body, "data") \cap lines
<1>1. Len(body) \in Nat
  BY LenProperties
<1>2. Within(S, Len(body))
  BY DEF Within
<1>3. DataIn(body, lines) = [k \in DOMAIN Ascending(S) |-> body[Ascending(S)[k]].value]
  BY DEF DataIn
<1> HIDE DEF S
<1>4. IsFiniteSet(S) /\ S \in SUBSET Nat
  BY <1>1, <1>2, LinesFinite
<1>5. Cardinality(S) \in Nat /\ DOMAIN Ascending(S) = 1..Cardinality(S)
      /\ (Cardinality(S) = 0 <=> S = {})
  BY <1>4, AscendingElements, FS_EmptySet
<1>6. DOMAIN DataIn(body, lines) = 1..Cardinality(S)
  BY <1>3, <1>5
<1>7. S = {} => DataIn(body, lines) = <<>>
  BY <1>3, <1>5
<1>8. S # {} => 1 \in DOMAIN DataIn(body, lines)
  BY <1>5, <1>6
<1>9. 1 \notin DOMAIN <<>>
  OBVIOUS
<1> QED
  BY <1>7, <1>8, <1>9 DEF S

-----------------------------------------------------------------------------
(* The events of a body and of one with a line more *)

\* A set of places and, if the new line m is one, that place.
Added(S, m, isPlace) == S \cup (IF isPlace THEN {m} ELSE {})

\* The new line is not before an end that is at most it,
LEMMA BetweenBefore ==
  ASSUME NEW n \in Nat, NEW S, Within(S, n), NEW isPlace \in BOOLEAN, NEW end \in 1..n + 1
  PROVE  /\ Between(Added(S, n + 1, isPlace), end) = Between(S, end)
         /\ Within(Between(S, end), n)
<1>1. ~(n + 1 < end)
  OBVIOUS
<1>2. {i \in Added(S, n + 1, isPlace) : i < end} = {i \in S : i < end}
  BY <1>1 DEF Added
<1>3. Between(S, end) \in SUBSET (1..end - 1)
  BY BetweenLines
<1>4. \A i \in 1..end - 1 : i \in 1..n
  OBVIOUS
<1> QED
  BY <1>2, <1>3, <1>4, BetweenSame DEF Within

\* and all that lies before the end after it, if it is no place itself.
LEMMA BetweenNext ==
  ASSUME NEW n \in Nat, NEW S, Within(S, n), NEW isPlace \in BOOLEAN
  PROVE  Between(Added(S, n + 1, isPlace), n + 2) =
           IF isPlace THEN {} ELSE Between(S, n + 1) \cup {n + 1}
<1> DEFINE next == n + 1
           T == Added(S, next, isPlace)
<1>1. next \in Nat /\ next \in 1..next + 1 /\ next + 1 = n + 2 /\ next \in 1..n + 1
  OBVIOUS
<1>2. Between(T, next) = Between(S, next)
  BY <1>1, BetweenBefore
<1>3. \A i \in S : i \in 1..next /\ i # next
  BY DEF Within
<1>4. Within(T, next) /\ (next \in T <=> isPlace)
  BY <1>1, <1>3 DEF Within, Added
<1> HIDE DEF next, T
<1>5. /\ next \notin T => Between(T, next + 1) = Between(T, next) \cup {next}
      /\ next \in T => Between(T, next + 1) = {}
  BY ONLY <1>1, <1>4, BetweenLines
<1>6. Between(T, n + 2) = IF isPlace THEN {} ELSE Between(S, next) \cup {next}
  BY <1>1, <1>2, <1>4, <1>5
<1> QED
  BY <1>6 DEF next, T

\* Blocks before the new line are as they were; the block after it is empty after a
\* blank line and otherwise one line longer.
LEMMA BlocksOfLonger ==
  ASSUME NEW body \in Seq(Lines), NEW l \in Lines
  PROVE  /\ \A end \in 1..Len(body) + 1 :
              /\ Block(Longer(body, l), end) = Block(body, end)
              /\ Within(Block(body, end), Len(body))
         /\ Block(Longer(body, l), Len(body) + 2) =
              IF l.field = "blank" THEN {} ELSE Block(body, Len(body) + 1) \cup {Len(body) + 1}
<1> DEFINE n == Len(body)
           isPlace == l.field = "blank"
           S == Places(body, "blank")
           T == Places(Longer(body, l), "blank")
<1>1. /\ n \in Nat /\ isPlace \in BOOLEAN /\ Within(S, n)
      /\ T = Added(S, n + 1, isPlace)
  BY LinesOfLonger, PlacesOfLonger DEF Within, Added
<1>2. \A end : Block(body, end) = Between(S, end) /\ Block(Longer(body, l), end) = Between(T, end)
  BY DEF Block
<1> HIDE DEF n, isPlace, S, T
<1>3. \A end \in 1..n + 1 : Between(T, end) = Between(S, end) /\ Within(Between(S, end), n)
  BY ONLY <1>1, BetweenBefore
<1>4. Between(T, n + 2) = IF isPlace THEN {} ELSE Between(S, n + 1) \cup {n + 1}
  BY ONLY <1>1, BetweenNext
<1> QED
  BY <1>2, <1>3, <1>4 DEF n, isPlace

\* Whether a block before or at the new line is an event does not depend on that line.
LEMMA IsEventOfLonger ==
  ASSUME NEW body \in Seq(Lines), NEW l \in Lines, NEW end \in 1..Len(body) + 1
  PROVE  IsEvent(Longer(body, l), end) <=> IsEvent(body, end)
<1>1. /\ Block(Longer(body, l), end) = Block(body, end)
      /\ Within(Block(body, end), Len(body))
  BY BlocksOfLonger
<1> DEFINE lines == Block(body, end)
           longer == Longer(body, l)
<1>2. Within(lines, Len(body))
  BY <1>1
<1> HIDE DEF lines
<1>3. LastIn(longer, lines, "event", NoText) = LastIn(body, lines, "event", NoText)
  BY <1>2, LastInSame
<1>4. Places(longer, "data") \cap lines = Places(body, "data") \cap lines
  <2>1. Len(body) \in Nat /\ Len(body) + 1 \notin lines
    BY <1>2, LinesOfLonger DEF Within
  <2>2. Places(longer, "data") =
          Places(body, "data") \cup (IF l.field = "data" THEN {Len(body) + 1} ELSE {})
    BY PlacesOfLonger
  <2> QED
    BY <2>1, <2>2
<1> QED
  BY <1>1, <1>3, <1>4 DEF IsEvent, lines

\* The new line ends an event if it is blank and the lines before it make one.
EndsEvent(body, l) == l.field = "blank" /\ IsEvent(body, Len(body) + 1)

LEMMA EndsOfLonger ==
  ASSUME NEW body \in Seq(Lines), NEW l \in Lines
  PROVE  /\ EventEnds(body) \in SUBSET (1..Len(body))
         /\ EventEnds(Longer(body, l)) =
              EventEnds(body) \cup (IF EndsEvent(body, l) THEN {Len(body) + 1} ELSE {})
<1> DEFINE n == Len(body)
           longer == Longer(body, l)
<1>1. /\ n \in Nat /\ Places(body, "blank") \in SUBSET (1..n)
      /\ Places(longer, "blank") =
           Places(body, "blank") \cup (IF l.field = "blank" THEN {n + 1} ELSE {})
  BY LinesOfLonger, PlacesOfLonger
<1>2. \A end \in 1..n + 1 : IsEvent(longer, end) <=> IsEvent(body, end)
  BY IsEventOfLonger
<1>3. EndsEvent(body, l) <=> l.field = "blank" /\ IsEvent(body, n + 1)
  BY DEF EndsEvent
<1> HIDE DEF n, longer
<1>4. \A i \in 1..n : i \in 1..n + 1
  BY <1>1
<1>5. n + 1 \in 1..n + 1
  BY <1>1
<1> QED
  BY <1>1, <1>2, <1>3, <1>4, <1>5 DEF EventEnds, n, longer

\* The lines since the last event are one more, or none after an event.
LEMMA SinceOfLonger ==
  ASSUME NEW body \in Seq(Lines), NEW l \in Lines
  PROVE  /\ \A end \in 1..Len(body) + 1 :
              /\ Since(Longer(body, l), end) = Since(body, end)
              /\ Within(Since(body, end), Len(body))
         /\ Since(Longer(body, l), Len(body) + 2) =
              IF EndsEvent(body, l) THEN {} ELSE Since(body, Len(body) + 1) \cup {Len(body) + 1}
<1> DEFINE n == Len(body)
           isPlace == EndsEvent(body, l)
           S == EventEnds(body)
           T == EventEnds(Longer(body, l))
<1>1. /\ n \in Nat /\ isPlace \in BOOLEAN /\ Within(S, n)
      /\ T = Added(S, n + 1, isPlace)
  <2>1. isPlace \in BOOLEAN
    BY DEF EndsEvent, IsEvent
  <2> QED
    BY <2>1, LinesOfLonger, EndsOfLonger DEF Within, Added
<1>2. \A end : Since(body, end) = Between(S, end) /\ Since(Longer(body, l), end) = Between(T, end)
  BY DEF Since
<1> HIDE DEF n, isPlace, S, T
<1>3. \A end \in 1..n + 1 : Between(T, end) = Between(S, end) /\ Within(Between(S, end), n)
  BY ONLY <1>1, BetweenBefore
<1>4. Between(T, n + 2) = IF isPlace THEN {} ELSE Between(S, n + 1) \cup {n + 1}
  BY ONLY <1>1, BetweenNext
<1> QED
  BY <1>2, <1>3, <1>4 DEF n, isPlace

\* Events before the new line, or at it, are as they were.
LEMMA EventAtOfLonger ==
  ASSUME NEW body \in Seq(Lines), NEW l \in Lines, NEW end \in 1..Len(body) + 1
  PROVE  EventAt(Longer(body, l), end) = EventAt(body, end)
<1> DEFINE block1 == Block(body, end)
           since1 == Since(body, end)
           longer == Longer(body, l)
<1>1. Block(longer, end) = block1 /\ Within(block1, Len(body))
  BY BlocksOfLonger
<1>2. Since(longer, end) = since1 /\ Within(since1, Len(body))
  BY SinceOfLonger
<1> HIDE DEF block1, since1
<1>3. LastIn(longer, block1, "event", NoText) = LastIn(body, block1, "event", NoText)
  BY <1>1, LastInSame
<1>4. DataIn(longer, block1) = DataIn(body, block1)
  BY <1>1, DataInLonger
<1>5. /\ LastIn(longer, since1, "id", NoText) = LastIn(body, since1, "id", NoText)
      /\ LastIn(longer, since1, "retry", NoRetry) = LastIn(body, since1, "retry", NoRetry)
  BY <1>2, LastInSame
<1> QED
  BY <1>1, <1>2, <1>3, <1>4, <1>5 DEF EventAt, block1, since1

\* A line that ends an event adds that event, and any other line none.
LEMMA EventsOfLonger ==
  ASSUME NEW body \in Seq(Lines), NEW l \in Lines
  PROVE  Events(Longer(body, l)) =
           IF EndsEvent(body, l) THEN Append(Events(body), EventAt(body, Len(body) + 1))
           ELSE Events(body)
<1> DEFINE n == Len(body)
           longer == Longer(body, l)
           S == EventEnds(body)
           A == Ascending(S)
           c == Cardinality(S)
           event(i) == EventAt(body, i)
<1>1. /\ n \in Nat /\ S \in SUBSET (1..n)
      /\ EventEnds(longer) = S \cup (IF EndsEvent(body, l) THEN {n + 1} ELSE {})
  BY LinesOfLonger, EndsOfLonger
<1>2. \A i \in 1..n + 1 : EventAt(longer, i) = event(i)
  BY EventAtOfLonger
<1>3. /\ Events(body) = [k \in DOMAIN A |-> event(A[k])]
      /\ Events(longer) = [k \in DOMAIN Ascending(EventEnds(longer))
                             |-> EventAt(longer, Ascending(EventEnds(longer))[k])]
  BY DEF Events
<1> HIDE DEF n, longer, S, event
<1>4. S \in SUBSET Nat /\ IsFiniteSet(S)
  BY <1>1, LinesFinite DEF Within
<1>5. c \in Nat /\ DOMAIN A = 1..c /\ \A k \in 1..c : A[k] \in S
  BY <1>4, AscendingElements
<1>6. A = [k \in 1..c |-> A[k]]
  BY <1>5 DEF Ascending
<1> HIDE DEF A, c
<1>7. \A i \in S : i \in 1..n + 1 /\ i < n + 1
  BY <1>1
<1>8. \A k \in 1..c : EventAt(longer, A[k]) = event(A[k])
  BY <1>2, <1>5, <1>7
<1>9. CASE ~EndsEvent(body, l)
  <2>1. EventEnds(longer) = S
    BY <1>1, <1>9
  <2>2. Events(longer) = [k \in 1..c |-> EventAt(longer, A[k])]
    BY <1>3, <1>5, <2>1 DEF A
  <2>3. Events(longer) = Events(body)
    BY <1>3, <1>5, <1>8, <2>2
  <2> QED
    BY <1>9, <2>3 DEF longer
<1>10. CASE EndsEvent(body, l)
  <2> DEFINE B == Ascending(S \cup {n + 1})
             D == Events(body)
             E == Events(longer)
  <2>1. EventEnds(longer) = S \cup {n + 1}
    BY <1>1, <1>10
  <2>2. S \cup {n + 1} \in SUBSET Nat /\ n + 1 \in Nat /\ n + 1 \notin S
    BY <1>1, <1>4, <1>7
  <2>3. IsFiniteSet(S \cup {n + 1}) /\ Cardinality(S \cup {n + 1}) = c + 1
    BY <1>4, <2>2, FS_AddElement DEF c
  <2>4. DOMAIN B = 1..c + 1
    BY <2>2, <2>3, AscendingElements
  <2>5. B = Append(A, n + 1)
    BY <1>4, <1>7, <2>2, AscendingAdded DEF A
  <2>6. Append(A, n + 1) = [k \in 1..c + 1 |-> IF k = c + 1 THEN n + 1 ELSE A[k]]
    BY <1>5, <1>6, OneMore
  <2>7. E = [k \in 1..c + 1 |-> EventAt(longer, B[k])]
    BY <1>3, <2>1, <2>4
  <2> HIDE DEF B
  <2>8. D = [k \in 1..c |-> D[k]] /\ E = [k \in 1..c + 1 |-> E[k]]
    BY <1>3, <1>5, <2>7
  <2>9. \A k \in 1..c : E[k] = D[k]
    <3>1. \A k \in 1..c : k \in 1..c + 1 /\ k # c + 1
      BY <1>5
    <3>2. \A k \in 1..c : B[k] = A[k]
      BY <2>5, <2>6, <3>1
    <3>3. \A k \in 1..c : E[k] = EventAt(longer, A[k]) /\ D[k] = event(A[k])
      BY <1>3, <1>5, <2>7, <3>1, <3>2
    <3> QED
      BY <1>8, <3>3
  <2>10. E[c + 1] = event(n + 1)
    <3>1. c + 1 \in 1..c + 1 /\ n + 1 \in 1..n + 1
      BY <1>1, <1>5
    <3>2. B[c + 1] = n + 1
      BY <2>5, <2>6, <3>1
    <3> QED
      BY <1>2, <2>7, <3>1, <3>2
  <2> HIDE DEF D, E
  <2> DEFINE last == event(n + 1)
  <2> HIDE DEF last
  <2>11. Append(D, last) = [k \in 1..c + 1 |-> IF k = c + 1 THEN last ELSE D[k]]
    BY <1>5, <2>8, OneMore
  <2>12. \A k \in 1..c + 1 : E[k] = IF k = c + 1 THEN last ELSE D[k]
    <3>1. \A k \in 1..c + 1 : k = c + 1 \/ k \in 1..c
      BY <1>5
    <3> QED
      BY <2>9, <2>10, <3>1 DEF last
  <2>13. E = Append(D, last)
    BY <2>8, <2>11, <2>12
  <2> QED
    BY <1>10, <2>13 DEF D, E, last, event, n, longer
<1> QED
  BY <1>9, <1>10

-----------------------------------------------------------------------------
(* The parser's locals *)

\* What a line does to them.
LEMMA EventTypeOfLonger ==
  ASSUME NEW body \in Seq(Lines), NEW l \in Lines
  PROVE  EventTypeOf(Longer(body, l)) =
           IF l.field = "blank" THEN NoText
           ELSE Latest(l, "event", EventTypeOf(body))
<1> DEFINE n == Len(body)
           longer == Longer(body, l)
           lines == Block(body, n + 1)
<1>1. n \in Nat /\ n + 1 \in 1..n + 1 /\ Len(longer) + 1 = n + 2
  BY LinesOfLonger
<1>2. Within(lines, n) /\ Block(longer, n + 2) = IF l.field = "blank" THEN {} ELSE lines \cup {n + 1}
  BY <1>1, BlocksOfLonger
<1>3. /\ EventTypeOf(body) = LastIn(body, lines, "event", NoText)
      /\ EventTypeOf(longer) = LastIn(longer, Block(longer, n + 2), "event", NoText)
  BY <1>1 DEF EventTypeOf
<1> HIDE DEF lines
<1>4. LastIn(longer, {}, "event", NoText) = NoText
  BY NoneInNothing
<1>5. LastIn(longer, lines \cup {n + 1}, "event", NoText) =
        Latest(l, "event", LastIn(body, lines, "event", NoText))
  BY <1>2, LastInAdded
<1> HIDE DEF n, longer
<1> QED
  BY <1>2, <1>3, <1>4, <1>5 DEF longer

LEMMA DataOfLonger ==
  ASSUME NEW body \in Seq(Lines), NEW l \in Lines
  PROVE  DataOf(Longer(body, l)) =
           IF l.field = "blank" THEN <<>>
           ELSE IF l.field = "data" THEN Append(DataOf(body), l.value) ELSE DataOf(body)
<1> DEFINE n == Len(body)
           longer == Longer(body, l)
           lines == Block(body, n + 1)
<1>1. n \in Nat /\ n + 1 \in 1..n + 1 /\ Len(longer) + 1 = n + 2
  BY LinesOfLonger
<1>2. Within(lines, n) /\ Block(longer, n + 2) = IF l.field = "blank" THEN {} ELSE lines \cup {n + 1}
  BY <1>1, BlocksOfLonger
<1>3. DataOf(body) = DataIn(body, lines) /\ DataOf(longer) = DataIn(longer, Block(longer, n + 2))
  BY <1>1 DEF DataOf
<1> HIDE DEF lines
<1>4. DataIn(longer, {}) = <<>>
  BY NoDataInNothing
<1>5. DataIn(longer, lines \cup {n + 1}) =
        IF l.field = "data" THEN Append(DataIn(body, lines), l.value) ELSE DataIn(body, lines)
  BY <1>2, DataInLonger
<1> HIDE DEF n, longer
<1> QED
  BY <1>2, <1>3, <1>4, <1>5 DEF longer

LEMMA IdAndRetryOfLonger ==
  ASSUME NEW body \in Seq(Lines), NEW l \in Lines
  PROVE  /\ EventIdOf(Longer(body, l)) =
              IF EndsEvent(body, l) THEN NoText
              ELSE Latest(l, "id", EventIdOf(body))
         /\ RetryOf(Longer(body, l)) =
              IF EndsEvent(body, l) THEN NoRetry
              ELSE Latest(l, "retry", RetryOf(body))
<1> DEFINE n == Len(body)
           longer == Longer(body, l)
           lines == Since(body, n + 1)
<1>1. n \in Nat /\ n + 1 \in 1..n + 1 /\ Len(longer) + 1 = n + 2
  BY LinesOfLonger
<1>2. Since(longer, n + 2) = IF EndsEvent(body, l) THEN {} ELSE lines \cup {n + 1}
  BY SinceOfLonger
<1>3. body \in Seq(Lines) /\ l \in Lines /\ Within(lines, n)
  BY <1>1, SinceOfLonger
<1>4. /\ EventIdOf(body) = LastIn(body, lines, "id", NoText)
      /\ EventIdOf(longer) = LastIn(longer, Since(longer, n + 2), "id", NoText)
      /\ RetryOf(body) = LastIn(body, lines, "retry", NoRetry)
      /\ RetryOf(longer) = LastIn(longer, Since(longer, n + 2), "retry", NoRetry)
  BY <1>1 DEF EventIdOf, RetryOf
<1> HIDE DEF lines
<1>5. LastIn(longer, {}, "id", NoText) = NoText /\ LastIn(longer, {}, "retry", NoRetry) = NoRetry
  BY NoneInNothing
<1>6. LastIn(longer, lines \cup {n + 1}, "id", NoText) =
        Latest(l, "id", LastIn(body, lines, "id", NoText))
  BY ONLY <1>3, LastInAdded
<1>7. LastIn(longer, lines \cup {n + 1}, "retry", NoRetry) =
        Latest(l, "retry", LastIn(body, lines, "retry", NoRetry))
  BY ONLY <1>3, LastInAdded
<1> HIDE DEF n, longer
<1> QED
  BY <1>2, <1>4, <1>5, <1>6, <1>7 DEF longer

\* The parser has an event exactly when the definition finds one.
LEMMA EventOfLocals ==
  ASSUME NEW body \in Seq(Lines)
  PROVE  /\ IsEvent(body, Len(body) + 1) <=> EventTypeOf(body) # NoText \/ DataOf(body) # <<>>
         /\ EventAt(body, Len(body) + 1) =
              BuildEvent(EventTypeOf(body), EventIdOf(body), RetryOf(body), DataOf(body))
<1> DEFINE lines == Block(body, Len(body) + 1)
<1>1. Within(lines, Len(body))
  <2>1. Blank \in Lines /\ Len(body) \in Nat
    BY LenProperties DEF Lines
  <2>2. Len(body) + 1 \in 1..Len(body) + 1
    BY <2>1
  <2> QED
    BY <2>1, <2>2, BlocksOfLonger
<1> HIDE DEF lines
<1>2. DataIn(body, lines) # <<>> <=> Places(body, "data") \cap lines # {}
  BY <1>1, DataPresent
<1>3. IsEvent(body, Len(body) + 1) <=> EventTypeOf(body) # NoText \/ DataOf(body) # <<>>
  BY <1>2 DEF IsEvent, EventTypeOf, DataOf, lines
<1>4. EventAt(body, Len(body) + 1) =
        BuildEvent(EventTypeOf(body), EventIdOf(body), RetryOf(body), DataOf(body))
  BY DEF EventAt, EventTypeOf, EventIdOf, RetryOf, DataOf
<1> QED
  BY <1>3, <1>4

\* Before the first line.
LEMMA OfNoLines ==
  /\ EventTypeOf(<<>>) = NoText /\ EventIdOf(<<>>) = NoText
  /\ RetryOf(<<>>) = NoRetry /\ DataOf(<<>>) = <<>>
  /\ Events(<<>>) = <<>>
<1>1. Len(<<>>) + 1 = 1
  OBVIOUS
<1>2. \A field : Places(<<>>, field) = {}
  BY DEF Places
<1>3. EventEnds(<<>>) = {}
  BY <1>2 DEF EventEnds
<1>4. \A lines, field, none : LastIn(<<>>, lines, field, none) = none
  BY <1>2 DEF LastIn
<1>5. \A lines : DataIn(<<>>, lines) = DataIn(<<>>, {})
  BY <1>2 DEF DataIn
<1>6. DataIn(<<>>, {}) = <<>>
  BY NoDataInNothing
<1>7. DOMAIN Ascending({}) = {}
  BY AscendingEmpty
<1>8. Events(<<>>) = [k \in {} |-> EventAt(<<>>, Ascending({})[k])]
  BY <1>3, <1>7 DEF Events
<1> QED
  BY <1>4, <1>5, <1>6, <1>8 DEF EventTypeOf, EventIdOf, RetryOf, DataOf

-----------------------------------------------------------------------------
(* The parser keeps its locals and the events right *)

\* What the parser builds is an event.
LEMMA BuildsAnEvent ==
  ASSUME NEW framing \in {NoText, "CUSTOM"}, NEW id \in {NoText, "evt"},
         NEW retry \in {NoRetry, "3000"}, NEW buf \in Seq(Pieces)
  PROVE  BuildEvent(framing, id, retry, buf) \in Event
<1>1. PayloadType(framing, buf) \in {"DONE", "CUSTOM", "message"}
  BY DEF PayloadType
<1>2. PayloadData(buf) \in [form : {"empty", "raw", "inner", "object", "value"}, of : Seq(Pieces)]
  <2>1. <<>> \in Seq(Pieces)
    OBVIOUS
  <2> QED
    BY <2>1 DEF PayloadData, Data
<1> QED
  BY <1>1, <1>2 DEF BuildEvent, Event

\* The lines of a body and the values of their fields.
LEMMA LineFacts ==
  ASSUME NEW l \in Lines
  PROVE  /\ l.field = "event" => l.value \in {NoText, "CUSTOM"} /\ l.value # "soon"
         /\ l.field = "id" => l.value = "evt"
         /\ l.field = "retry" => l.value \in {"3000", "soon"}
         /\ l.field = "data" => l.value \in Pieces
<1>1. NoText # "soon"
  BY Zenon DEF NoText
<1> QED
  BY <1>1 DEF Lines, Line, Blank

\* A line that is not blank leaves the events as they are.
LEMMA OrdinaryLine ==
  ASSUME IInv, NEW l \in Lines, l.field # "blank", Receive(l), yielded' = yielded
  PROVE  /\ received' = Longer(received, l) /\ received' \in Seq(Lines) /\ Len(received') <= MaxLines
         /\ YieldsTheEvents'
<1>1. /\ received \in Seq(Lines) /\ phase = "streaming" /\ phase' = "streaming"
      /\ received' = Longer(received, l) /\ Len(received) < MaxLines
  BY DEF IInv, TypeOK, Receive, Longer
<1>2. received' \in Seq(Lines) /\ Len(received') = Len(received) + 1 /\ Len(received) \in Nat
  BY <1>1, LinesOfLonger
<1>3. Body = received /\ Body' = received'
  BY <1>1 DEF Body
<1>4. Events(received') = Events(received)
  BY <1>1, EventsOfLonger DEF EndsEvent
<1> QED
  BY <1>1, <1>2, <1>3, <1>4, LineAssumption DEF IInv, YieldsTheEvents

\* The parser has an event exactly when the lines since the last blank one make one,
\* and it is theirs.
LEMMA EventOfParser ==
  ASSUME IInv
  PROVE  /\ HasEvent <=> IsEvent(received, Len(received) + 1)
         /\ EventAt(received, Len(received) + 1) = BuildEvent(eventType, eventId, retryMs, dataBuf)
<1>1. received \in Seq(Lines)
  BY DEF IInv, TypeOK
<1> QED
  BY <1>1, EventOfLocals DEF IInv, BlockInv, HasEvent

\* A blank line, or the end of the body that counts as one, adds the event there is.
LEMMA EndOfBlock ==
  ASSUME IInv, phase = "streaming", IF HasEvent THEN Yield ELSE yielded' = yielded
  PROVE  /\ yielded' = Events(Longer(received, Blank)) /\ yielded' \in Seq(Event)
         /\ HasEvent <=> EndsEvent(received, Blank)
<1>1. received \in Seq(Lines) /\ Blank \in Lines /\ Blank.field = "blank"
  BY DEF IInv, TypeOK, Lines, Blank, Line
<1>2. yielded = Events(received)
  BY DEF IInv, YieldsTheEvents, Body
<1>3. HasEvent <=> EndsEvent(received, Blank)
  BY <1>1, EventOfParser DEF EndsEvent
<1>4. Events(Longer(received, Blank)) =
        IF HasEvent THEN Append(yielded, BuildEvent(eventType, eventId, retryMs, dataBuf))
        ELSE yielded
  BY <1>1, <1>2, <1>3, EventsOfLonger, EventOfParser
<1>5. yielded \in Seq(Event) /\ BuildEvent(eventType, eventId, retryMs, dataBuf) \in Event
  BY BuildsAnEvent DEF IInv, TypeOK
<1> QED
  BY <1>3, <1>4, <1>5, AppendProperties DEF Yield

LEMMA Initially == Init => IInv
<1> SUFFICES ASSUME Init
             PROVE  IInv
  OBVIOUS
<1>1. TypeOK
  BY LineAssumption DEF Init, TypeOK
<1>2. BlockInv
  BY OfNoLines DEF Init, BlockInv
<1>3. YieldsTheEvents
  BY OfNoLines DEF Init, YieldsTheEvents, Body
<1> QED
  BY <1>1, <1>2, <1>3 DEF IInv

LEMMA Step == IInv /\ [Next]_vars => IInv'
<1> SUFFICES ASSUME IInv, [Next]_vars
             PROVE  IInv'
  OBVIOUS
<1> DEFINE OtherLocals(l) ==
             /\ EventTypeOf(received') = Latest(l, "event", eventType)
             /\ EventIdOf(received') = Latest(l, "id", eventId)
             /\ RetryOf(received') = Latest(l, "retry", retryMs)
             /\ DataOf(received') = IF l.field = "data" THEN Append(dataBuf, l.value) ELSE dataBuf
<1>1. received \in Seq(Lines)
  BY DEF IInv, TypeOK
<1>2. ASSUME NEW l \in Lines, l.field # "blank", Receive(l)
      PROVE  OtherLocals(l)
  <2>1. received' = Longer(received, l)
    BY <1>2 DEF Receive, Longer
  <2>2. ~EndsEvent(received, l)
    BY <1>2 DEF EndsEvent
  <2> QED
    BY <1>1, <1>2, <2>1, <2>2, EventTypeOfLonger, IdAndRetryOfLonger, DataOfLonger
       DEF IInv, BlockInv
<1>3. CASE Open
  BY <1>3 DEF Open, block, IInv, TypeOK, BlockInv, YieldsTheEvents, Body
<1>4. CASE ReadComment
  <2> DEFINE l == Line("comment", NoText)
  <2>1. l \in Lines /\ l.field = "comment"
    BY DEF Lines, Line
  <2>2. Receive(l) /\ UNCHANGED <<block, yielded>>
    BY <1>4 DEF ReadComment
  <2> HIDE DEF l
  <2>3. OtherLocals(l) /\ received' \in Seq(Lines) /\ Len(received') <= MaxLines /\ YieldsTheEvents'
    BY <1>2, <2>1, <2>2, OrdinaryLine
  <2> QED
    BY <2>1, <2>2, <2>3 DEF Latest, Receive, block, IInv, TypeOK, BlockInv
<1>5. CASE ReadEvent
  <2>1. PICK l \in Lines : /\ l.field = "event" /\ Receive(l)
                           /\ eventType' = l.value
                           /\ UNCHANGED <<eventId, retryMs, dataBuf, yielded>>
    BY <1>5 DEF ReadEvent
  <2>2. OtherLocals(l) /\ received' \in Seq(Lines) /\ Len(received') <= MaxLines /\ YieldsTheEvents'
    BY <1>2, <2>1, OrdinaryLine
  <2> QED
    BY <2>1, <2>2, LineFacts DEF Latest, Receive, IInv, TypeOK, BlockInv
<1>6. CASE ReadId
  <2>1. PICK l \in Lines : /\ l.field = "id" /\ Receive(l)
                           /\ eventId' = l.value
                           /\ UNCHANGED <<eventType, retryMs, dataBuf, yielded>>
    BY <1>6 DEF ReadId
  <2>2. OtherLocals(l) /\ received' \in Seq(Lines) /\ Len(received') <= MaxLines /\ YieldsTheEvents'
    BY <1>2, <2>1, OrdinaryLine
  <2> QED
    BY <2>1, <2>2, LineFacts DEF Latest, Receive, IInv, TypeOK, BlockInv
<1>7. CASE ReadRetry
  <2>1. PICK l \in Lines : /\ l.field = "retry" /\ Receive(l)
                           /\ retryMs' = IF l.value = "soon" THEN retryMs ELSE l.value
                           /\ UNCHANGED <<eventType, eventId, dataBuf, yielded>>
    BY <1>7 DEF ReadRetry
  <2>2. OtherLocals(l) /\ received' \in Seq(Lines) /\ Len(received') <= MaxLines /\ YieldsTheEvents'
    BY <1>2, <2>1, OrdinaryLine
  <2> QED
    BY <2>1, <2>2, LineFacts DEF Latest, Receive, IInv, TypeOK, BlockInv
<1>8. CASE ReadData
  <2>1. PICK l \in Lines : /\ l.field = "data" /\ Receive(l)
                           /\ dataBuf' = Append(dataBuf, l.value)
                           /\ UNCHANGED <<eventType, eventId, retryMs, yielded>>
    BY <1>8 DEF ReadData
  <2>2. OtherLocals(l) /\ received' \in Seq(Lines) /\ Len(received') <= MaxLines /\ YieldsTheEvents'
    BY <1>2, <2>1, OrdinaryLine
  <2>3. dataBuf' \in Seq(Pieces)
    BY <2>1, LineFacts, AppendProperties DEF IInv, TypeOK
  <2> QED
    BY <2>1, <2>2, <2>3 DEF Latest, Receive, IInv, TypeOK, BlockInv
<1>9. CASE ReadBlank
  <2>1. /\ phase = "streaming" /\ phase' = "streaming" /\ received' = Longer(received, Blank)
        /\ Len(received) < MaxLines /\ Blank \in Lines /\ Blank.field = "blank"
    BY <1>9 DEF ReadBlank, Receive, Longer, Lines, Line, Blank
  <2>2. IF HasEvent THEN Yield ELSE yielded' = yielded
    BY <1>9 DEF ReadBlank
  <2>3. /\ yielded' = Events(received') /\ yielded' \in Seq(Event)
        /\ HasEvent <=> EndsEvent(received, Blank)
    BY <2>1, <2>2, EndOfBlock
  <2>4. received' \in Seq(Lines) /\ Len(received') <= MaxLines
    BY <1>1, <2>1, LinesOfLonger, LineAssumption
  <2>5. EventTypeOf(received') = NoText /\ DataOf(received') = <<>>
    BY <1>1, <2>1, EventTypeOfLonger, DataOfLonger
  <2>6. /\ EventIdOf(received') = IF HasEvent THEN NoText ELSE eventId
        /\ RetryOf(received') = IF HasEvent THEN NoRetry ELSE retryMs
    BY <1>1, <2>1, <2>3, IdAndRetryOfLonger DEF Latest, IInv, BlockInv
  <2>7. /\ eventType' = NoText /\ dataBuf' = <<>>
        /\ eventId' = IF HasEvent THEN NoText ELSE eventId
        /\ retryMs' = IF HasEvent THEN NoRetry ELSE retryMs
    BY <1>9 DEF ReadBlank, HasEvent, block
  <2>8. YieldsTheEvents'
    BY <2>1, <2>3 DEF YieldsTheEvents, Body
  <2> QED
    BY <2>1, <2>3, <2>4, <2>5, <2>6, <2>7, <2>8 DEF IInv, TypeOK, BlockInv
<1>10. CASE EndOfBody
  <2>1. /\ phase = "streaming" /\ phase' = "ended" /\ UNCHANGED <<received, block>>
        /\ IF HasEvent THEN Yield ELSE yielded' = yielded
    BY <1>10 DEF EndOfBody
  <2>2. yielded' = Events(Longer(received, Blank)) /\ yielded' \in Seq(Event)
    BY <2>1, EndOfBlock
  <2>3. YieldsTheEvents'
    BY <2>1, <2>2 DEF YieldsTheEvents, Body, Longer
  <2> QED
    BY <2>1, <2>2, <2>3 DEF block, IInv, TypeOK, BlockInv
<1>11. CASE Broken
  BY <1>11 DEF Broken, block, IInv, TypeOK, BlockInv, YieldsTheEvents, Body
<1>12. CASE Closed
  BY <1>12 DEF Closed, block, IInv, TypeOK, BlockInv, YieldsTheEvents, Body
<1>13. CASE UNCHANGED vars
  BY <1>13 DEF vars, IInv, TypeOK, BlockInv, YieldsTheEvents, Body
<1> QED
  BY <1>3, <1>4, <1>5, <1>6, <1>7, <1>8, <1>9, <1>10, <1>11, <1>12, <1>13 DEF Next

\* The inductive invariant: the parser's locals are those of the lines read, and what
\* it yielded are the events of the body.
THEOREM Invariance == Spec => []IInv
BY Initially, Step, PTL DEF Spec

\* A retry line that is no number never reaches an event, nor anything but the pieces
\* of data lines the data of one, for bodies of any length.
THEOREM TypeCorrect == Spec => []TypeOK
<1>1. IInv => TypeOK
  BY DEF IInv
<1> QED
  BY <1>1, Invariance, PTL

\* iter_sse_events yields exactly the events of the body, one per block and in order,
\* for bodies of any length over any data.
THEOREM YieldsCorrect == Spec => []YieldsTheEvents
<1>1. IInv => YieldsTheEvents
  BY DEF IInv
<1> QED
  BY <1>1, Invariance, PTL
=============================================================================
