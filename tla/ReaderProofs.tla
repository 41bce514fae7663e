---------------------------- MODULE ReaderProofs ----------------------------
(***************************************************************************)
(* Proofs about Reader, for any files.                                     *)
(*                                                                         *)
(* Stack(toks, n, s): s holds the delimiters the first n tokens leave open,*)
(* the others are in matching pairs.  Each goal, met in full, opens a      *)
(* delimiter, closes the last one or leaves them as they are (Moves);      *)
(* Fits says that the goals of a parser, one after the other, close what   *)
(* its stack has open.  Good adds what brings parseDef back from a value   *)
(* that was no type: the rest of the goals fit where it goes back to.      *)
(* The lemmas ExprGood to AllGood show of each parse function that its     *)
(* step preserves Good, whatever the next token.                           *)
(***************************************************************************)
EXTENDS Reader, FiniteSetTheorems, SequenceTheorems, WellFoundedInduction, TLAPS

-----------------------------------------------------------------------------
(* Depths. *)

Opening(toks, k) == toks[k][1] \in Openers
Closing(toks, k) == toks[k][1] \in Closers

LEMMA TokenMeans ==
  ASSUME NEW toks \in Seq(AllTokens), NEW k \in 1..Len(toks)
  PROVE  /\ toks[k] \in AllTokens /\ toks[k][1] \in Classes /\ toks[k] # EOF
         /\ ~(Opening(toks, k) /\ Closing(toks, k))
<1>1. toks[k] \in AllTokens
  OBVIOUS
<1>2. toks[k][1] \in Classes
  BY <1>1 DEF AllTokens
<1>3. toks[k] # EOF
  <2>1. EOF[1] = "eof" /\ "eof" \notin Classes
    BY DEF EOF, Classes, Openers, Closers, Comments, Literals
  <2> QED
    BY <1>2, <2>1
<1>4. ~(Opening(toks, k) /\ Closing(toks, k))
  BY DEF Opening, Closing, Openers, Closers
<1> QED
  BY <1>1, <1>2, <1>3, <1>4

LEMMA CountStep ==
  ASSUME NEW n \in Nat, NEW A, A \subseteq 1..n + 1, NEW B, B = A \ {n + 1}
  PROVE  /\ IsFiniteSet(A) /\ IsFiniteSet(B)
         /\ Cardinality(A) \in Nat /\ Cardinality(B) \in Nat
         /\ Cardinality(A) = Cardinality(B) + (IF n + 1 \in A THEN 1 ELSE 0)
<1>1. IsFiniteSet(A)
  <2>1. 1 \in Int /\ n + 1 \in Int
    OBVIOUS
  <2>2. IsFiniteSet(1..n + 1)
    BY <2>1, FS_Interval
  <2> QED
    BY <2>2, FS_Subset
<1>2. IsFiniteSet(B)
  BY <1>1, FS_Subset
<1>3. Cardinality(A) \in Nat /\ Cardinality(B) \in Nat
  BY <1>1, <1>2, FS_CardinalityType
<1>4. CASE n + 1 \in A
  <2>1. A = B \cup {n + 1} /\ n + 1 \notin B
    BY <1>4
  <2>2. Cardinality(B \cup {n + 1}) = Cardinality(B) + 1
    BY <1>2, <2>1, FS_AddElement
  <2> QED
    BY <1>1, <1>2, <1>3, <1>4, <2>1, <2>2
<1>5. CASE n + 1 \notin A
  <2>1. A = B
    BY <1>5
  <2>2. Cardinality(A) = Cardinality(B)
    BY <2>1
  <2> QED
    BY <1>1, <1>2, <1>3, <1>5, <2>2
<1> QED
  BY <1>4, <1>5

LEMMA DepthStep ==
  ASSUME NEW toks \in Seq(AllTokens)
  PROVE  /\ DOMAIN Depths(toks) = 0..Len(toks) /\ Depths(toks)[0] = 0
         /\ \A n \in 0..Len(toks) : Depths(toks)[n] \in Int
         /\ \A n \in 0..Len(toks) : n + 1 <= Len(toks) =>
              Depths(toks)[n + 1] =
                Depths(toks)[n] + (IF Opening(toks, n + 1) THEN 1
                                   ELSE IF Closing(toks, n + 1) THEN 0 - 1 ELSE 0)
<1> DEFINE O(n) == {k \in 1..n : toks[k][1] \in Openers}
           C(n) == {k \in 1..n : toks[k][1] \in Closers}
<1>1. \A n \in 0..Len(toks) : Depths(toks)[n] = Cardinality(O(n)) - Cardinality(C(n))
  BY DEF Depths
<1>2. \A n \in Nat : /\ Cardinality(O(n)) \in Nat /\ Cardinality(C(n)) \in Nat
                     /\ Cardinality(O(n + 1)) = Cardinality(O(n)) + (IF Opening(toks, n + 1) THEN 1 ELSE 0)
                     /\ Cardinality(C(n + 1)) = Cardinality(C(n)) + (IF Closing(toks, n + 1) THEN 1 ELSE 0)
  <2> TAKE n \in Nat
  <2>1. O(n) = O(n + 1) \ {n + 1} /\ O(n + 1) \subseteq 1..n + 1
    OBVIOUS
  <2>2. C(n) = C(n + 1) \ {n + 1} /\ C(n + 1) \subseteq 1..n + 1
    OBVIOUS
  <2>3. (n + 1 \in O(n + 1) <=> Opening(toks, n + 1)) /\ (n + 1 \in C(n + 1) <=> Closing(toks, n + 1))
    BY DEF Opening, Closing
  <2> HIDE DEF O, C
  <2>4. /\ Cardinality(O(n + 1)) \in Nat /\ Cardinality(O(n)) \in Nat
        /\ Cardinality(O(n + 1)) = Cardinality(O(n)) + (IF n + 1 \in O(n + 1) THEN 1 ELSE 0)
    BY <2>1, CountStep
  <2>5. /\ Cardinality(C(n + 1)) \in Nat /\ Cardinality(C(n)) \in Nat
        /\ Cardinality(C(n + 1)) = Cardinality(C(n)) + (IF n + 1 \in C(n + 1) THEN 1 ELSE 0)
    BY <2>2, CountStep
  <2> QED
    BY <2>3, <2>4, <2>5
<1>3. O(0) = {} /\ C(0) = {}
  OBVIOUS
<1>4. Cardinality(O(0)) = 0 /\ Cardinality(C(0)) = 0
  BY <1>3, FS_EmptySet
<1>5. DOMAIN Depths(toks) = 0..Len(toks)
  BY DEF Depths
<1> HIDE DEF O, C
<1>6. Len(toks) \in Nat /\ \A n \in 0..Len(toks) : n \in Nat
  OBVIOUS
<1>7. Depths(toks)[0] = 0
  BY <1>1, <1>4, <1>6
<1>8. ASSUME NEW n \in 0..Len(toks)
      PROVE  /\ Cardinality(O(n)) \in Nat /\ Cardinality(C(n)) \in Nat
             /\ Depths(toks)[n] = Cardinality(O(n)) - Cardinality(C(n)) /\ Depths(toks)[n] \in Int
  <2>1. Cardinality(O(n)) \in Nat /\ Cardinality(C(n)) \in Nat
    BY <1>2, <1>6
  <2>2. Depths(toks)[n] = Cardinality(O(n)) - Cardinality(C(n))
    BY <1>1
  <2> QED
    BY <2>1, <2>2
<1>9. ASSUME NEW n \in 0..Len(toks), n + 1 <= Len(toks)
      PROVE  Depths(toks)[n + 1] =
                Depths(toks)[n] + (IF Opening(toks, n + 1) THEN 1
                                   ELSE IF Closing(toks, n + 1) THEN 0 - 1 ELSE 0)
  <2>1. n \in Nat /\ n + 1 \in 0..Len(toks) /\ n + 1 \in 1..Len(toks)
    BY <1>6, <1>9
  <2>2. ~(Opening(toks, n + 1) /\ Closing(toks, n + 1))
    BY <2>1, TokenMeans
  <2>3. /\ Cardinality(O(n)) \in Nat /\ Cardinality(C(n)) \in Nat
        /\ Depths(toks)[n] = Cardinality(O(n)) - Cardinality(C(n))
    BY <1>8
  <2>4. Depths(toks)[n + 1] = Cardinality(O(n + 1)) - Cardinality(C(n + 1))
    BY <1>8, <2>1
  <2>5. /\ Cardinality(O(n + 1)) = Cardinality(O(n)) + (IF Opening(toks, n + 1) THEN 1 ELSE 0)
        /\ Cardinality(C(n + 1)) = Cardinality(C(n)) + (IF Closing(toks, n + 1) THEN 1 ELSE 0)
    BY <1>2, <2>1
  <2> QED
    BY <2>2, <2>3, <2>4, <2>5
<1> QED
  BY <1>5, <1>7, <1>8, <1>9

-----------------------------------------------------------------------------
(* The delimiters open after n tokens, and that what is not open is paired. *)

Stack(toks, n, s) ==
  LET d == Depths(toks)
  IN /\ s \in Seq(Nat) /\ Len(s) = d[n]
     /\ \A k \in 1..Len(s) : /\ s[k] \in 1..n /\ Opening(toks, s[k]) /\ d[s[k]] = k
                             /\ \A m \in s[k]..n : d[m] >= k
     /\ \A k, l \in 1..Len(s) : k < l => s[k] < s[l]
     /\ \A i \in 1..n : Opening(toks, i) =>
          (\E k \in 1..Len(s) : s[k] = i) \/ \E j \in 1..n : Closing(toks, j) /\ Closes(toks, d, i, j)
     /\ \A j \in 1..n : Closing(toks, j) => \E i \in 1..n : Opening(toks, i) /\ Closes(toks, d, i, j)

LEMMA StackEmpty == ASSUME NEW toks \in Seq(AllTokens) PROVE Stack(toks, 0, <<>>)
BY DepthStep DEF Stack

LEMMA StackGrows ==
  ASSUME NEW toks \in Seq(AllTokens), NEW n \in 0..Len(toks), n + 1 <= Len(toks), NEW s,
         Stack(toks, n, s), Opening(toks, n + 1)
  PROVE  Stack(toks, n + 1, Append(s, n + 1))
<1> DEFINE d == Depths(toks)
<1>1. /\ s \in Seq(Nat) /\ Len(s) = d[n] /\ Len(s) \in Nat /\ n \in Nat
      /\ \A k \in 1..Len(s) : /\ s[k] \in 1..n /\ Opening(toks, s[k]) /\ d[s[k]] = k
                              /\ \A m \in s[k]..n : d[m] >= k
      /\ \A k, l \in 1..Len(s) : k < l => s[k] < s[l]
      /\ \A i \in 1..n : Opening(toks, i) =>
           (\E k \in 1..Len(s) : s[k] = i) \/ \E j \in 1..n : Closing(toks, j) /\ Closes(toks, d, i, j)
      /\ \A j \in 1..n : Closing(toks, j) => \E i \in 1..n : Opening(toks, i) /\ Closes(toks, d, i, j)
  BY DEF Stack
<1>2. d[n + 1] = Len(s) + 1 /\ ~Closing(toks, n + 1)
  BY <1>1, DepthStep, TokenMeans
<1>3. PICK t : t = Append(s, n + 1)
  OBVIOUS
<1>0. Len(s) \in Nat
  BY <1>1
<1>4. /\ t \in Seq(Nat) /\ Len(t) = Len(s) + 1 /\ t[Len(s) + 1] = n + 1
      /\ \A k \in 1..Len(s) : t[k] = s[k]
  BY <1>1, <1>3
<1> HIDE DEF d
<1>5. \A k \in 1..Len(t) : /\ t[k] \in 1..n + 1 /\ Opening(toks, t[k]) /\ d[t[k]] = k
                           /\ \A m \in t[k]..n + 1 : d[m] >= k
  <2> TAKE k \in 1..Len(t)
  <2>1. CASE k = Len(s) + 1
    BY <1>1, <1>2, <1>4, <2>1
  <2>2. CASE k \in 1..Len(s)
    <3>1. t[k] \in 1..n /\ Opening(toks, t[k]) /\ d[t[k]] = k /\ \A m \in t[k]..n : d[m] >= k
      BY <1>1, <1>4, <2>2
    <3>2. \A m \in t[k]..n + 1 : d[m] >= k
      BY <1>1, <1>2, <2>2, <3>1
    <3> QED
      BY <1>1, <3>1, <3>2
  <2> QED
    BY <1>1, <1>4, <2>1, <2>2
<1>6. \A k, l \in 1..Len(t) : k < l => t[k] < t[l]
  <2> SUFFICES ASSUME NEW k \in 1..Len(t), NEW l \in 1..Len(t), k < l PROVE t[k] < t[l]
    OBVIOUS
  <2>1. k \in 1..Len(s) /\ t[k] = s[k] /\ s[k] \in 1..n
    BY <1>1, <1>4
  <2>2. CASE l = Len(s) + 1
    BY <1>1, <1>4, <2>1, <2>2
  <2>3. CASE l \in 1..Len(s)
    BY <1>1, <1>4, <2>1, <2>3
  <2> QED
    BY <1>1, <1>4, <2>2, <2>3
<1>7. \A i \in 1..n + 1 : Opening(toks, i) =>
        \/ \E k \in 1..Len(t) : t[k] = i
        \/ \E j \in 1..n + 1 : Closing(toks, j) /\ Closes(toks, d, i, j)
  <2> SUFFICES ASSUME NEW i \in 1..n + 1, Opening(toks, i)
               PROVE  \/ \E k \in 1..Len(t) : t[k] = i
                      \/ \E j \in 1..n + 1 : Closing(toks, j) /\ Closes(toks, d, i, j)
    OBVIOUS
  <2>1. CASE i = n + 1
    BY <1>1, <1>4, <2>1
  <2>2. CASE i \in 1..n
    <3>1. CASE \E k \in 1..Len(s) : s[k] = i
      <4>1. PICK k \in 1..Len(s) : s[k] = i
        BY <3>1
      <4>2. k \in 1..Len(t) /\ t[k] = i
        BY <1>0, <1>4, <4>1
      <4> QED
        BY <4>2
    <3>2. CASE \E j \in 1..n : Closing(toks, j) /\ Closes(toks, d, i, j)
      BY <1>1, <3>2
    <3> QED
      BY <1>1, <2>2, <3>1, <3>2
  <2> QED
    BY <1>1, <2>1, <2>2
<1>8. \A j \in 1..n + 1 : Closing(toks, j) =>
        \E i \in 1..n + 1 : Opening(toks, i) /\ Closes(toks, d, i, j)
  <2> SUFFICES ASSUME NEW j \in 1..n + 1, Closing(toks, j)
               PROVE  \E i \in 1..n + 1 : Opening(toks, i) /\ Closes(toks, d, i, j)
    OBVIOUS
  <2>1. j \in 1..n
    BY <1>1, <1>2
  <2>2. PICK i \in 1..n : Opening(toks, i) /\ Closes(toks, d, i, j)
    BY <1>1, <2>1
  <2> QED
    BY <1>1, <2>2
<1> QED
  BY <1>2, <1>3, <1>4, <1>5, <1>6, <1>7, <1>8 DEF Stack, d

LEMMA StackStays ==
  ASSUME NEW toks \in Seq(AllTokens), NEW n \in 0..Len(toks), n + 1 <= Len(toks), NEW s,
         Stack(toks, n, s), ~Opening(toks, n + 1), ~Closing(toks, n + 1)
  PROVE  Stack(toks, n + 1, s)
<1> DEFINE d == Depths(toks)
<1>1. /\ s \in Seq(Nat) /\ Len(s) = d[n] /\ Len(s) \in Nat /\ n \in Nat
      /\ \A k \in 1..Len(s) : /\ s[k] \in 1..n /\ Opening(toks, s[k]) /\ d[s[k]] = k
                              /\ \A m \in s[k]..n : d[m] >= k
      /\ \A k, l \in 1..Len(s) : k < l => s[k] < s[l]
      /\ \A i \in 1..n : Opening(toks, i) =>
           (\E k \in 1..Len(s) : s[k] = i) \/ \E j \in 1..n : Closing(toks, j) /\ Closes(toks, d, i, j)
      /\ \A j \in 1..n : Closing(toks, j) => \E i \in 1..n : Opening(toks, i) /\ Closes(toks, d, i, j)
  BY DEF Stack
<1>2. d[n + 1] = Len(s)
  BY <1>1, DepthStep
<1> HIDE DEF d
<1>3. \A k \in 1..Len(s) : \A m \in s[k]..n + 1 : d[m] >= k
  BY <1>1, <1>2
<1>4. \A k \in 1..Len(s) : s[k] \in 1..n + 1
  BY <1>1
<1>5. \A i \in 1..n + 1 : Opening(toks, i) \/ Closing(toks, i) => i \in 1..n
  BY <1>1
<1>6. 1..n \subseteq 1..n + 1
  BY <1>1
<1>7. \A i \in 1..n + 1 : Opening(toks, i) =>
           (\E k \in 1..Len(s) : s[k] = i) \/ \E j \in 1..n + 1 : Closing(toks, j) /\ Closes(toks, d, i, j)
  BY <1>1, <1>5, <1>6
<1>8. \A j \in 1..n + 1 : Closing(toks, j) => \E i \in 1..n + 1 : Opening(toks, i) /\ Closes(toks, d, i, j)
  BY <1>1, <1>5, <1>6
<1> QED
  BY <1>1, <1>2, <1>3, <1>4, <1>7, <1>8 DEF Stack, d

LEMMA StackShrinks ==
  ASSUME NEW toks \in Seq(AllTokens), NEW n \in 0..Len(toks), n + 1 <= Len(toks), NEW s,
         Stack(toks, n, s), s # <<>>, toks[n + 1][1] = Closer(toks[s[Len(s)]][1])
  PROVE  Stack(toks, n + 1, Front(s))
<1> DEFINE d == Depths(toks)
<1>1. /\ s \in Seq(Nat) /\ Len(s) = d[n] /\ Len(s) \in Nat /\ Len(s) > 0 /\ n \in Nat
      /\ \A k \in 1..Len(s) : /\ s[k] \in 1..n /\ Opening(toks, s[k]) /\ d[s[k]] = k
                              /\ \A m \in s[k]..n : d[m] >= k
      /\ \A k, l \in 1..Len(s) : k < l => s[k] < s[l]
      /\ \A i \in 1..n : Opening(toks, i) =>
           (\E k \in 1..Len(s) : s[k] = i) \/ \E j \in 1..n : Closing(toks, j) /\ Closes(toks, d, i, j)
      /\ \A j \in 1..n : Closing(toks, j) => \E i \in 1..n : Opening(toks, i) /\ Closes(toks, d, i, j)
  BY EmptySeq DEF Stack
<1>2. Closing(toks, n + 1) /\ ~Opening(toks, n + 1)
  BY DEF Closing, Opening, Closer, Closers, Openers
<1>3. d[n + 1] = Len(s) - 1
  BY <1>1, <1>2, DepthStep
<1>0. Len(s) \in Nat /\ Len(s) > 0
  BY <1>1
<1>4. PICK t : t = Front(s)
  OBVIOUS
<1>5. /\ t \in Seq(Nat) /\ Len(t) = Len(s) - 1
      /\ \A k \in 1..Len(t) : t[k] = s[k]
  BY <1>1, <1>4 DEF Front
<1>6. PICK l : l = s[Len(s)]
  OBVIOUS
<1>7. l \in 1..n /\ Opening(toks, l) /\ d[l] = Len(s) /\ \A m \in l..n : d[m] >= Len(s)
  BY <1>1, <1>6
<1>8. Closes(toks, d, l, n + 1)
  <2>1. \A m \in l..n + 1 - 1 : d[m] >= d[l]
    BY <1>1, <1>7
  <2>2. toks[n + 1][1] = Closer(toks[l][1])
    BY <1>6
  <2> HIDE DEF d
  <2> QED
    BY <1>1, <1>3, <1>7, <2>1, <2>2 DEF Closes
<1> HIDE DEF d
<1>9. \A k \in 1..Len(t) : /\ t[k] \in 1..n + 1 /\ Opening(toks, t[k]) /\ d[t[k]] = k
                           /\ \A m \in t[k]..n + 1 : d[m] >= k
  <2> TAKE k \in 1..Len(t)
  <2>1. k \in 1..Len(s) /\ t[k] = s[k]
    BY <1>0, <1>5
  <2>2. s[k] \in 1..n /\ Opening(toks, s[k]) /\ d[s[k]] = k /\ \A m \in s[k]..n : d[m] >= k
    BY <1>1, <2>1
  <2>3. \A m \in s[k]..n + 1 : d[m] >= k
    <3> TAKE m \in s[k]..n + 1
    <3>1. CASE m = n + 1
      BY <1>1, <1>3, <1>5, <3>1
    <3>2. CASE m # n + 1
      <4>1. m \in s[k]..n
        BY <1>1, <2>2, <3>2
      <4> QED
        BY <2>2, <4>1
    <3> QED
      BY <3>1, <3>2
  <2> QED
    BY <1>1, <2>1, <2>2, <2>3
<1>10. \A k, m \in 1..Len(t) : k < m => t[k] < t[m]
  <2> SUFFICES ASSUME NEW k \in 1..Len(t), NEW m \in 1..Len(t), k < m PROVE t[k] < t[m]
    OBVIOUS
  <2>1. k \in 1..Len(s) /\ m \in 1..Len(s)
    BY <1>0, <1>5
  <2> QED
    BY <1>1, <1>5, <2>1
<1>11. \A i \in 1..n + 1 : Opening(toks, i) =>
        \/ \E k \in 1..Len(t) : t[k] = i
        \/ \E j \in 1..n + 1 : Closing(toks, j) /\ Closes(toks, d, i, j)
  <2> SUFFICES ASSUME NEW i \in 1..n + 1, Opening(toks, i)
               PROVE  \/ \E k \in 1..Len(t) : t[k] = i
                      \/ \E j \in 1..n + 1 : Closing(toks, j) /\ Closes(toks, d, i, j)
    OBVIOUS
  <2>1. i \in 1..n
    BY <1>1, <1>2
  <2>2. CASE \E k \in 1..Len(s) : s[k] = i
    <3>1. PICK k \in 1..Len(s) : s[k] = i
      BY <2>2
    <3>2. CASE k = Len(s)
      <4>1. n + 1 \in 1..n + 1 /\ i = l
        BY <1>1, <1>6, <3>1, <3>2
      <4> QED
        BY <1>2, <1>8, <4>1
    <3>3. CASE k # Len(s)
      <4>1. k \in 1..Len(t) /\ t[k] = i
        BY <1>0, <1>5, <3>1, <3>3
      <4> QED
        BY <4>1
    <3> QED
      BY <3>2, <3>3
  <2>3. CASE \E j \in 1..n : Closing(toks, j) /\ Closes(toks, d, i, j)
    BY <1>1, <2>3
  <2> QED
    BY <1>1, <2>1, <2>2, <2>3
<1>12. \A j \in 1..n + 1 : Closing(toks, j) =>
        \E i \in 1..n + 1 : Opening(toks, i) /\ Closes(toks, d, i, j)
  <2> SUFFICES ASSUME NEW j \in 1..n + 1, Closing(toks, j)
               PROVE  \E i \in 1..n + 1 : Opening(toks, i) /\ Closes(toks, d, i, j)
    OBVIOUS
  <2>1. CASE j = n + 1
    <3>1. l \in 1..n + 1
      BY <1>1, <1>7
    <3> QED
      BY <1>7, <1>8, <2>1, <3>1
  <2>2. CASE j # n + 1
    <3>1. j \in 1..n
      BY <1>1, <2>2
    <3>2. PICK i \in 1..n : Opening(toks, i) /\ Closes(toks, d, i, j)
      BY <1>1, <3>1
    <3> QED
      BY <1>1, <3>2
  <2> QED
    BY <2>1, <2>2
<1> QED
  BY <1>3, <1>4, <1>5, <1>9, <1>10, <1>11, <1>12 DEF Stack, d

(* What that says of the properties. *)
LEMMA StackMatched ==
  ASSUME NEW toks \in Seq(AllTokens), Stack(toks, Len(toks), <<>>)
  PROVE  Matched(toks)
<1>1. DOMAIN toks = 1..Len(toks) /\ Len(<<>>) = 0
  OBVIOUS
<1>2. /\ \A i \in 1..Len(toks) : Opening(toks, i) =>
           \E j \in 1..Len(toks) : Closing(toks, j) /\ Closes(toks, Depths(toks), i, j)
      /\ \A j \in 1..Len(toks) : Closing(toks, j) =>
           \E i \in 1..Len(toks) : Opening(toks, i) /\ Closes(toks, Depths(toks), i, j)
  BY <1>1 DEF Stack
<1> QED
  BY <1>1, <1>2 DEF Matched, Opening, Closing

LEMMA StackUnclosed ==
  ASSUME NEW toks \in Seq(AllTokens), NEW n \in 0..Len(toks), NEW s, Stack(toks, n, s)
  PROVE  Lists(s, Unclosed(toks, n))
<1> DEFINE d == Depths(toks)
<1>1. /\ s \in Seq(Nat) /\ DOMAIN s = 1..Len(s)
      /\ \A k \in 1..Len(s) : /\ s[k] \in 1..n /\ Opening(toks, s[k]) /\ d[s[k]] = k
                              /\ \A m \in s[k]..n : d[m] >= k
      /\ \A k, l \in 1..Len(s) : k < l => s[k] < s[l]
      /\ \A i \in 1..n : Opening(toks, i) =>
           (\E k \in 1..Len(s) : s[k] = i) \/ \E j \in 1..n : Closing(toks, j) /\ Closes(toks, d, i, j)
  BY DEF Stack
<1>2. ToSet(s) = {s[k] : k \in 1..Len(s)}
  BY <1>1 DEF ToSet
<1>3. ToSet(s) \subseteq Unclosed(toks, n)
  BY <1>1, <1>2 DEF Unclosed, Opening
<1>4. Unclosed(toks, n) \subseteq ToSet(s)
  <2> SUFFICES ASSUME NEW i \in Unclosed(toks, n) PROVE \E k \in 1..Len(s) : s[k] = i
    BY <1>2
  <2>1. i \in 1..n /\ Opening(toks, i) /\ \A k \in i..n : d[k] >= d[i]
    BY DEF Unclosed, Opening
  <2>2. ASSUME NEW j \in 1..n, Closes(toks, d, i, j) PROVE FALSE
    <3>0. d[i] \in Int
      <4>1. i \in 0..Len(toks)
        BY <2>1
      <4> QED
        BY <4>1, DepthStep
    <3> HIDE DEF d
    <3>1. j \in i..n /\ d[j] = d[i] - 1
      BY <2>1, <2>2 DEF Closes
    <3> QED
      BY <2>1, <3>0, <3>1
  <2> QED
    BY <1>1, <2>1, <2>2
<1> QED
  BY <1>1, <1>3, <1>4 DEF Lists

-----------------------------------------------------------------------------
(* Goals and delimiters.  A goal, met in full, opens a delimiter, closes   *)
(* the last one, or leaves those that are open as they are.                *)

Kinds == Seq(Openers)

Steady(g) == g[1] \notin {"want", "try", "list", "slice"}
Ends(g)   == IF g[1] = "want" THEN g[2] ELSE IF g[1] = "slice" THEN "]" ELSE ")"

Moves(g, a, b) ==
  IF Steady(g) THEN a = b
  ELSE IF Ends(g) \in Openers THEN b = Append(a, Ends(g))
  ELSE \E o \in Openers : a = Append(b, o) /\ Closer(o) = Ends(g)

Leads(gs, a, b) ==
  \E h \in [1..Len(gs) + 1 -> Kinds] :
    /\ h[1] = a /\ h[Len(gs) + 1] = b
    /\ \A k \in 1..Len(gs) : Moves(gs[k], h[k], h[k + 1])

LEMMA LeadsNone ==
  ASSUME NEW a \in Kinds, NEW b
  PROVE  Leads(<<>>, a, b) <=> a = b
<1>1. Len(<<>>) = 0
  OBVIOUS
<1>2. ASSUME a = b PROVE Leads(<<>>, a, b)
  <2>1. PICK h : h = [k \in 1..1 |-> a]
    OBVIOUS
  <2>2. h \in [1..0 + 1 -> Kinds] /\ h[1] = a /\ h[0 + 1] = b
    BY <1>2, <2>1
  <2> QED
    BY <1>1, <2>2 DEF Leads
<1>3. ASSUME Leads(<<>>, a, b) PROVE a = b
  BY <1>1, <1>3 DEF Leads
<1> QED
  BY <1>2, <1>3

LEMMA LeadsOne ==
  ASSUME NEW g, NEW a \in Kinds, NEW b \in Kinds, Moves(g, a, b)
  PROVE  Leads(<<g>>, a, b)
<1> DEFINE h == [k \in 1..2 |-> IF k = 1 THEN a ELSE b]
<1>1. Len(<<g>>) = 1 /\ <<g>>[1] = g
  OBVIOUS
<1>2. h \in [1..1 + 1 -> Kinds] /\ h[1] = a /\ h[1 + 1] = b
  OBVIOUS
<1> HIDE DEF h
<1>3. \A k \in 1..1 : Moves(<<g>>[k], h[k], h[k + 1])
  <2> TAKE k \in 1..1
  <2>1. k = 1
    OBVIOUS
  <2> QED
    BY <1>1, <1>2, <2>1
<1> QED
  BY <1>1, <1>2, <1>3 DEF Leads

LEMMA LeadsJoin ==
  ASSUME NEW S, NEW gs \in Seq(S), NEW hs \in Seq(S), NEW a, NEW b, NEW c,
         Leads(gs, a, b), Leads(hs, b, c)
  PROVE  Leads(gs \o hs, a, c)
<1>1. PICK g \in [1..Len(gs) + 1 -> Kinds] :
        /\ g[1] = a /\ g[Len(gs) + 1] = b
        /\ \A k \in 1..Len(gs) : Moves(gs[k], g[k], g[k + 1])
  BY DEF Leads
<1>2. PICK h \in [1..Len(hs) + 1 -> Kinds] :
        /\ h[1] = b /\ h[Len(hs) + 1] = c
        /\ \A k \in 1..Len(hs) : Moves(hs[k], h[k], h[k + 1])
  BY DEF Leads
<1>3. PICK n \in Nat, m \in Nat : n = Len(gs) /\ m = Len(hs)
  OBVIOUS
<1>4. PICK t : t = gs \o hs
  OBVIOUS
<1>5. /\ Len(t) = n + m /\ \A k \in 1..n : t[k] = gs[k]
      /\ \A k \in n + 1..n + m : t[k] = hs[k - n]
  BY <1>3, <1>4, ConcatProperties
<1>6. PICK f : f = [k \in 1..n + m + 1 |-> IF k <= n THEN g[k] ELSE h[k - n]]
  OBVIOUS
<1>7. \A k \in 1..n : k \in 1..n + m + 1 /\ f[k] = g[k]
  BY <1>6
<1>8. \A k \in n + 1..n + m + 1 : k \in 1..n + m + 1 /\ f[k] = h[k - n] /\ k - n \in 1..m + 1
  BY <1>6
<1>9. f \in [1..n + m + 1 -> Kinds]
  <2> SUFFICES ASSUME NEW k \in 1..n + m + 1 PROVE f[k] \in Kinds
    BY <1>6
  <2>1. CASE k \in 1..n
    BY <1>1, <1>3, <1>7, <2>1
  <2>2. CASE k \in n + 1..n + m + 1
    BY <1>2, <1>3, <1>8, <2>2
  <2> QED
    BY <2>1, <2>2
<1>10. f[n + 1] = b
  BY <1>2, <1>8
<1>11. f[1] = a /\ f[n + m + 1] = c
  <2>1. f[n + m + 1] = c
    BY <1>2, <1>3, <1>8
  <2>0. g[1] = a /\ g[n + 1] = b
    BY <1>1, <1>3
  <2>2. CASE n = 0
    <3>1. n + 1 = 1
      BY <2>2
    <3> QED
      BY <1>10, <2>0, <2>1, <3>1
  <2>3. CASE n # 0
    <3>1. 1 \in 1..n
      BY <2>3
    <3> QED
      BY <1>7, <2>0, <2>1, <3>1
  <2> QED
    BY <2>1, <2>2, <2>3
<1>12. \A k \in 1..n + m : Moves(t[k], f[k], f[k + 1])
  <2> TAKE k \in 1..n + m
  <2>1. CASE k \in 1..n
    <3>1. Moves(gs[k], g[k], g[k + 1])
      BY <1>1, <1>3, <2>1
    <3>2. f[k + 1] = g[k + 1]
      <4>1. CASE k = n
        BY <1>1, <1>3, <1>10, <4>1
      <4>2. CASE k # n
        BY <1>7, <2>1, <4>2
      <4> QED
        BY <4>1, <4>2
    <3> QED
      BY <1>5, <1>7, <2>1, <3>1, <3>2
  <2>2. CASE k \in n + 1..n + m
    <3>1. k - n \in 1..m /\ k + 1 - n = (k - n) + 1
      BY <2>2
    <3>2. Moves(hs[k - n], h[k - n], h[(k - n) + 1])
      BY <1>2, <1>3, <3>1
    <3>3. f[k] = h[k - n] /\ f[k + 1] = h[(k - n) + 1]
      BY <1>8, <2>2, <3>1
    <3> QED
      BY <1>5, <2>2, <3>2, <3>3
  <2> QED
    BY <2>1, <2>2
<1>13. Leads(t, a, c)
  BY <1>5, <1>9, <1>11, <1>12 DEF Leads
<1> QED
  BY <1>4, <1>13

LEMMA LeadsHead ==
  ASSUME NEW S, NEW gs \in Seq(S), gs # <<>>, NEW a, NEW c, Leads(gs, a, c)
  PROVE  \E b \in Kinds : Moves(Head(gs), a, b) /\ Leads(Tail(gs), b, c)
<1>1. PICK h \in [1..Len(gs) + 1 -> Kinds] :
        /\ h[1] = a /\ h[Len(gs) + 1] = c
        /\ \A k \in 1..Len(gs) : Moves(gs[k], h[k], h[k + 1])
  BY DEF Leads
<1>2. PICK n \in Nat : n = Len(gs) /\ n > 0
  BY EmptySeq
<1>3. PICK t : t = Tail(gs)
  OBVIOUS
<1>4. Len(t) = n - 1 /\ \A k \in 1..n - 1 : t[k] = gs[k + 1]
  BY <1>2, <1>3
<1>5. PICK f : f = [k \in 1..n |-> h[k + 1]]
  OBVIOUS
<1>6. \A k \in 1..n : k + 1 \in 1..n + 1 /\ f[k] = h[k + 1]
  BY <1>5
<1>7. f \in [1..Len(t) + 1 -> Kinds]
  BY <1>1, <1>2, <1>4, <1>5, <1>6
<1>8. f[1] = h[2] /\ f[Len(t) + 1] = c
  BY <1>1, <1>2, <1>4, <1>6
<1>9. \A k \in 1..Len(t) : Moves(t[k], f[k], f[k + 1])
  <2> TAKE k \in 1..Len(t)
  <2>1. k \in 1..n - 1 /\ k \in 1..n /\ k + 1 \in 1..n
    BY <1>2, <1>4
  <2>2. Moves(gs[k + 1], h[k + 1], h[k + 1 + 1])
    BY <1>1, <1>2, <2>1
  <2>3. f[k] = h[k + 1] /\ f[k + 1] = h[k + 1 + 1] /\ t[k] = gs[k + 1]
    BY <1>4, <1>6, <2>1
  <2> QED
    BY <2>2, <2>3
<1>10. Leads(t, h[2], c)
  BY <1>7, <1>8, <1>9 DEF Leads
<1>11. 1 \in 1..n /\ 2 \in 1..n + 1 /\ Head(gs) = gs[1]
  BY <1>2
<1>12. Moves(Head(gs), a, h[2]) /\ h[2] \in Kinds
  BY <1>1, <1>2, <1>11
<1> QED
  BY <1>3, <1>10, <1>12

LEMMA LeadsAppend ==
  ASSUME NEW gs \in Seq(Goals), NEW g \in Goals, NEW a, NEW b \in Kinds, NEW c \in Kinds,
         Leads(gs, a, b), Moves(g, b, c)
  PROVE  Leads(Append(gs, g), a, c)
<1>1. Leads(<<g>>, b, c)
  BY LeadsOne
<1>2. <<g>> \in Seq(Goals) /\ Append(gs, g) = gs \o <<g>>
  BY AppendIsConcat
<1>3. Leads(gs \o <<g>>, a, c)
  BY <1>1, <1>2, LeadsJoin
<1> QED
  BY <1>2, <1>3
(* Short lists. *)
LEMMA Leads2 ==
  ASSUME NEW g1, NEW g2,
         NEW a \in Kinds, NEW b \in Kinds, NEW c \in Kinds, Moves(g1, a, b), Moves(g2, b, c)
  PROVE  Leads(<<g1, g2>>, a, c)
<1> DEFINE t == <<a, b, c>>
<1>1. t \in [1..2 + 1 -> Kinds] /\ t[1] = a /\ t[2] = b /\ t[3] = c
  OBVIOUS
<1> HIDE DEF t
<1>2. \A x \in 1..2 : Moves(<<g1, g2>>[x], t[x], t[x + 1])
  BY <1>1
<1> QED
  BY <1>1, <1>2 DEF Leads

LEMMA Leads3 ==
  ASSUME NEW g1, NEW g2, NEW g3,
         NEW a \in Kinds, NEW b \in Kinds, NEW c \in Kinds, NEW d \in Kinds, Moves(g1, a, b),
         Moves(g2, b, c), Moves(g3, c, d)
  PROVE  Leads(<<g1, g2, g3>>, a, d)
<1> DEFINE t == <<a, b, c, d>>
<1>1. t \in [1..3 + 1 -> Kinds] /\ t[1] = a /\ t[2] = b /\ t[3] = c /\ t[4] = d
  OBVIOUS
<1> HIDE DEF t
<1>2. \A x \in 1..3 : Moves(<<g1, g2, g3>>[x], t[x], t[x + 1])
  BY <1>1
<1> QED
  BY <1>1, <1>2 DEF Leads

LEMMA Leads4 ==
  ASSUME NEW g1, NEW g2, NEW g3, NEW g4,
         NEW a \in Kinds, NEW b \in Kinds, NEW c \in Kinds, NEW d \in Kinds, NEW e \in Kinds,
         Moves(g1, a, b), Moves(g2, b, c), Moves(g3, c, d), Moves(g4, d, e)
  PROVE  Leads(<<g1, g2, g3, g4>>, a, e)
<1> DEFINE t == <<a, b, c, d, e>>
<1>1. t \in [1..4 + 1 -> Kinds] /\ t[1] = a /\ t[2] = b /\ t[3] = c /\ t[4] = d /\ t[5] = e
  OBVIOUS
<1> HIDE DEF t
<1>2. \A x \in 1..4 : Moves(<<g1, g2, g3, g4>>[x], t[x], t[x + 1])
  BY <1>1
<1> QED
  BY <1>1, <1>2 DEF Leads

LEMMA Leads5 ==
  ASSUME NEW g1, NEW g2, NEW g3, NEW g4, NEW g5,
         NEW a \in Kinds, NEW b \in Kinds, NEW c \in Kinds, NEW d \in Kinds, NEW e \in Kinds,
         NEW f \in Kinds, Moves(g1, a, b), Moves(g2, b, c), Moves(g3, c, d), Moves(g4, d, e),
         Moves(g5, e, f)
  PROVE  Leads(<<g1, g2, g3, g4, g5>>, a, f)
<1> DEFINE t == <<a, b, c, d, e, f>>
<1>1. t \in [1..5 + 1 -> Kinds] /\ t[1] = a /\ t[2] = b /\ t[3] = c /\ t[4] = d /\ t[5] = e /\ t[6] = f
  OBVIOUS
<1> HIDE DEF t
<1>2. \A x \in 1..5 : Moves(<<g1, g2, g3, g4, g5>>[x], t[x], t[x + 1])
  BY <1>1
<1> QED
  BY <1>1, <1>2 DEF Leads

LEMMA Leads6 ==
  ASSUME NEW g1, NEW g2, NEW g3, NEW g4, NEW g5, NEW g6,
         NEW a \in Kinds, NEW b \in Kinds, NEW c \in Kinds, NEW d \in Kinds, NEW e \in Kinds,
         NEW f \in Kinds, NEW g \in Kinds, Moves(g1, a, b), Moves(g2, b, c), Moves(g3, c, d),
         Moves(g4, d, e), Moves(g5, e, f), Moves(g6, f, g)
  PROVE  Leads(<<g1, g2, g3, g4, g5, g6>>, a, g)
<1> DEFINE t == <<a, b, c, d, e, f, g>>
<1>1. /\ t \in [1..6 + 1 -> Kinds] /\ t[1] = a /\ t[2] = b /\ t[3] = c /\ t[4] = d
      /\ t[5] = e /\ t[6] = f /\ t[7] = g
  OBVIOUS
<1> HIDE DEF t
<1>2. \A x \in 1..6 : Moves(<<g1, g2, g3, g4, g5, g6>>[x], t[x], t[x + 1])
  BY <1>1
<1> QED
  BY <1>1, <1>2 DEF Leads

LEMMA Leads7 ==
  ASSUME NEW g1, NEW g2, NEW g3, NEW g4, NEW g5, NEW g6, NEW g7,
         NEW a \in Kinds, NEW b \in Kinds, NEW c \in Kinds, NEW d \in Kinds, NEW e \in Kinds,
         NEW f \in Kinds, NEW g \in Kinds, NEW h \in Kinds, Moves(g1, a, b), Moves(g2, b, c),
         Moves(g3, c, d), Moves(g4, d, e), Moves(g5, e, f), Moves(g6, f, g), Moves(g7, g, h)
  PROVE  Leads(<<g1, g2, g3, g4, g5, g6, g7>>, a, h)
<1> DEFINE t == <<a, b, c, d, e, f, g, h>>
<1>1. /\ t \in [1..7 + 1 -> Kinds] /\ t[1] = a /\ t[2] = b /\ t[3] = c /\ t[4] = d
      /\ t[5] = e /\ t[6] = f /\ t[7] = g /\ t[8] = h
  OBVIOUS
<1> HIDE DEF t
<1>2. \A x \in 1..7 : Moves(<<g1, g2, g3, g4, g5, g6, g7>>[x], t[x], t[x + 1])
  BY <1>1
<1> QED
  BY <1>1, <1>2 DEF Leads

LEMMA Leads8 ==
  ASSUME NEW g1, NEW g2, NEW g3, NEW g4, NEW g5, NEW g6, NEW g7, NEW g8,
         NEW a \in Kinds, NEW b \in Kinds, NEW c \in Kinds, NEW d \in Kinds, NEW e \in Kinds,
         NEW f \in Kinds, NEW g \in Kinds, NEW h \in Kinds, NEW i \in Kinds, Moves(g1, a, b),
         Moves(g2, b, c), Moves(g3, c, d), Moves(g4, d, e), Moves(g5, e, f), Moves(g6, f, g),
         Moves(g7, g, h), Moves(g8, h, i)
  PROVE  Leads(<<g1, g2, g3, g4, g5, g6, g7, g8>>, a, i)
<1> DEFINE t == <<a, b, c, d, e, f, g, h, i>>
<1>1. /\ t \in [1..8 + 1 -> Kinds] /\ t[1] = a /\ t[2] = b /\ t[3] = c /\ t[4] = d
      /\ t[5] = e /\ t[6] = f /\ t[7] = g /\ t[8] = h /\ t[9] = i
  OBVIOUS
<1> HIDE DEF t
<1>2. \A x \in 1..8 : Moves(<<g1, g2, g3, g4, g5, g6, g7, g8>>[x], t[x], t[x + 1])
  BY <1>1
<1> QED
  BY <1>1, <1>2 DEF Leads

-----------------------------------------------------------------------------
(* The lists of goals. *)

(* Usual: not a goal of def trying for a type.  Plain: nor one that opens  *)
(* or closes.                                                              *)
Usual(g)  == g \in Goals /\ g[1] \notin {"tried", "def-type"}
Plain(g)  == Usual(g) /\ Steady(g)
Fresh(gs) == gs \in Seq(Goals) /\ \A k \in 1..Len(gs) : Usual(gs[k])

(* Together they leave the delimiters as they are. *)
Level(gs) == Fresh(gs) /\ \A a \in Kinds : Leads(gs, a, a)

(* What follows an opening delimiter of class o, with the closing one. *)
Finishes(gs, o) == \A a \in Kinds : Leads(gs, Append(a, o), a)
Parses(gs) == Fresh(gs) /\ Finishes(gs, "(")

LEMMA OpenKinds ==
  ASSUME NEW a \in Kinds, NEW o \in Openers
  PROVE  Append(a, o) \in Kinds
BY DEF Kinds

LEMMA PlainMoves == ASSUME NEW g, Plain(g), NEW a PROVE Moves(g, a, a)
BY DEF Plain, Moves

LEMMA WantMoves ==
  ASSUME NEW a \in Kinds
  PROVE  /\ Moves(Want("["), a, Append(a, "[")) /\ Moves(Want("]"), Append(a, "["), a)
         /\ Moves(Want("("), a, Append(a, "(")) /\ Moves(Close, Append(a, "("), a)
         /\ Moves(Want("}"), Append(a, "{"), a) /\ Moves(Want("}"), Append(a, "#{"), a)
<1>1. /\ Ends(Want("[")) = "[" /\ Ends(Want("]")) = "]" /\ Ends(Want("(")) = "("
      /\ Ends(Close) = ")" /\ Ends(Want("}")) = "}"
      /\ ~Steady(Want("[")) /\ ~Steady(Want("]")) /\ ~Steady(Want("(")) /\ ~Steady(Close)
      /\ ~Steady(Want("}"))
  BY DEF Ends, Steady, Want, Close
<1>2. /\ Closer("(") = ")" /\ Closer("[") = "]" /\ Closer("{") = "}" /\ Closer("#{") = "}"
      /\ {"(", "[", "{", "#{"} = Openers /\ ")" \notin Openers /\ "]" \notin Openers /\ "}" \notin Openers
  BY DEF Closer, Openers
<1>3. Moves(Want("["), a, Append(a, "[")) /\ Moves(Want("("), a, Append(a, "("))
  BY <1>1, <1>2 DEF Moves
<1>4. Moves(Want("]"), Append(a, "["), a)
  BY <1>1, <1>2 DEF Moves
<1>5. Moves(Close, Append(a, "("), a)
  BY <1>1, <1>2 DEF Moves
<1>6. Moves(Want("}"), Append(a, "{"), a) /\ Moves(Want("}"), Append(a, "#{"), a)
  BY <1>1, <1>2 DEF Moves
<1> QED
  BY <1>3, <1>4, <1>5, <1>6

(* Lists written out. *)
LEMMA Fresh1 ==
  ASSUME NEW g1, Usual(g1)
  PROVE  Fresh(<<g1>>)
<1>1. \A k \in 1..1 : Usual(<<g1>>[k]) /\ <<g1>>[k] \in Goals
  BY DEF Usual
<1>2. Len(<<g1>>) = 1 /\ <<g1>> \in Seq(Goals)
  BY <1>1
<1> QED
  BY <1>1, <1>2 DEF Fresh

LEMMA Fresh2 ==
  ASSUME NEW g1, Usual(g1), NEW g2, Usual(g2)
  PROVE  Fresh(<<g1, g2>>)
<1>1. \A k \in 1..2 : Usual(<<g1, g2>>[k]) /\ <<g1, g2>>[k] \in Goals
  BY DEF Usual
<1>2. Len(<<g1, g2>>) = 2 /\ <<g1, g2>> \in Seq(Goals)
  BY <1>1
<1> QED
  BY <1>1, <1>2 DEF Fresh

LEMMA Fresh3 ==
  ASSUME NEW g1, Usual(g1), NEW g2, Usual(g2), NEW g3, Usual(g3)
  PROVE  Fresh(<<g1, g2, g3>>)
<1>1. \A k \in 1..3 : Usual(<<g1, g2, g3>>[k]) /\ <<g1, g2, g3>>[k] \in Goals
  BY DEF Usual
<1>2. Len(<<g1, g2, g3>>) = 3 /\ <<g1, g2, g3>> \in Seq(Goals)
  BY <1>1
<1> QED
  BY <1>1, <1>2 DEF Fresh

LEMMA Fresh4 ==
  ASSUME NEW g1, Usual(g1), NEW g2, Usual(g2), NEW g3, Usual(g3), NEW g4, Usual(g4)
  PROVE  Fresh(<<g1, g2, g3, g4>>)
<1>1. \A k \in 1..4 : Usual(<<g1, g2, g3, g4>>[k]) /\ <<g1, g2, g3, g4>>[k] \in Goals
  BY DEF Usual
<1>2. Len(<<g1, g2, g3, g4>>) = 4 /\ <<g1, g2, g3, g4>> \in Seq(Goals)
  BY <1>1
<1> QED
  BY <1>1, <1>2 DEF Fresh

LEMMA Fresh5 ==
  ASSUME NEW g1, Usual(g1), NEW g2, Usual(g2), NEW g3, Usual(g3), NEW g4, Usual(g4), NEW g5, Usual(g5)
  PROVE  Fresh(<<g1, g2, g3, g4, g5>>)
<1>1. \A k \in 1..5 : Usual(<<g1, g2, g3, g4, g5>>[k]) /\ <<g1, g2, g3, g4, g5>>[k] \in Goals
  BY DEF Usual
<1>2. Len(<<g1, g2, g3, g4, g5>>) = 5 /\ <<g1, g2, g3, g4, g5>> \in Seq(Goals)
  BY <1>1
<1> QED
  BY <1>1, <1>2 DEF Fresh

LEMMA Fresh6 ==
  ASSUME NEW g1, Usual(g1), NEW g2, Usual(g2), NEW g3, Usual(g3), NEW g4, Usual(g4),
         NEW g5, Usual(g5), NEW g6, Usual(g6)
  PROVE  Fresh(<<g1, g2, g3, g4, g5, g6>>)
<1>1. \A k \in 1..6 : Usual(<<g1, g2, g3, g4, g5, g6>>[k]) /\ <<g1, g2, g3, g4, g5, g6>>[k] \in Goals
  BY DEF Usual
<1>2. Len(<<g1, g2, g3, g4, g5, g6>>) = 6 /\ <<g1, g2, g3, g4, g5, g6>> \in Seq(Goals)
  BY <1>1
<1> QED
  BY <1>1, <1>2 DEF Fresh

LEMMA Fresh7 ==
  ASSUME NEW g1, Usual(g1), NEW g2, Usual(g2), NEW g3, Usual(g3), NEW g4, Usual(g4),
         NEW g5, Usual(g5), NEW g6, Usual(g6), NEW g7, Usual(g7)
  PROVE  Fresh(<<g1, g2, g3, g4, g5, g6, g7>>)
<1>1. \A k \in 1..7 : Usual(<<g1, g2, g3, g4, g5, g6, g7>>[k]) /\ <<g1, g2, g3, g4, g5, g6, g7>>[k] \in Goals
  BY DEF Usual
<1>2. Len(<<g1, g2, g3, g4, g5, g6, g7>>) = 7 /\ <<g1, g2, g3, g4, g5, g6, g7>> \in Seq(Goals)
  BY <1>1
<1> QED
  BY <1>1, <1>2 DEF Fresh

LEMMA Fresh8 ==
  ASSUME NEW g1, Usual(g1), NEW g2, Usual(g2), NEW g3, Usual(g3), NEW g4, Usual(g4),
         NEW g5, Usual(g5), NEW g6, Usual(g6), NEW g7, Usual(g7), NEW g8, Usual(g8)
  PROVE  Fresh(<<g1, g2, g3, g4, g5, g6, g7, g8>>)
<1>1. \A k \in 1..8 : /\ Usual(<<g1, g2, g3, g4, g5, g6, g7, g8>>[k])
                      /\ <<g1, g2, g3, g4, g5, g6, g7, g8>>[k] \in Goals
  BY DEF Usual
<1>2. Len(<<g1, g2, g3, g4, g5, g6, g7, g8>>) = 8 /\ <<g1, g2, g3, g4, g5, g6, g7, g8>> \in Seq(Goals)
  BY <1>1
<1> QED
  BY <1>1, <1>2 DEF Fresh

LEMMA FreshNone == Fresh(<<>>)
BY DEF Fresh

LEMMA FreshJoin ==
  ASSUME NEW gs, NEW hs, Fresh(gs), Fresh(hs)
  PROVE  Fresh(gs \o hs)
<1>1. gs \in Seq(Goals) /\ hs \in Seq(Goals)
  BY DEF Fresh
<1>2. PICK t : t = gs \o hs
  OBVIOUS
<1>3. /\ t \in Seq(Goals) /\ Len(t) = Len(gs) + Len(hs) /\ Len(gs) \in Nat /\ Len(hs) \in Nat
      /\ \A k \in 1..Len(gs) : t[k] = gs[k]
      /\ \A k \in Len(gs) + 1..Len(gs) + Len(hs) : t[k] = hs[k - Len(gs)]
  BY <1>1, <1>2, ConcatProperties
<1>4. \A k \in 1..Len(t) : Usual(t[k])
  <2> TAKE k \in 1..Len(t)
  <2>1. CASE k \in 1..Len(gs)
    BY <1>3, <2>1 DEF Fresh
  <2>2. CASE k \in Len(gs) + 1..Len(gs) + Len(hs)
    <3>1. k - Len(gs) \in 1..Len(hs)
      BY <1>3, <2>2
    <3> QED
      BY <1>3, <2>2, <3>1 DEF Fresh
  <2> QED
    BY <1>3, <2>1, <2>2
<1> QED
  BY <1>2, <1>3, <1>4 DEF Fresh

LEMMA TagGoals ==
  /\ \A t \in Tags : <<t>> \in Goals
  /\ \A c \in Openers \cup Closers : Want(c) \in Goals /\ Want(c)[1] = "want"
  /\ \A c \in Closers, l \in Nested, b \in BOOLEAN :
       Plain(<<"until", c, l, b>>) /\ <<"until", c, l, b>> \in Untils
  /\ \A l \in Nested : Plain(Opt(l))
  /\ \A c \in Closers, u \in Untils : Plain(<<"some", c, u>>)
  /\ \A t \in {"spec", "specs", "cases"}, b \in BOOLEAN : Plain(<<t, b>>)
  /\ \A n, m \in Nat : <<"tried", n, m>> \in Goals
  /\ \A a, b, c \in BOOLEAN : <<"try", a, b, c>> \in Goals
<1>1. \A t \in Tags : <<t>> \in Goals
  BY DEF Goals
<1>2. \A c \in Openers \cup Closers : Want(c) \in Goals /\ Want(c)[1] = "want"
  BY DEF Goals, Want
<1>3. \A c \in Closers, l \in Nested, b \in BOOLEAN : <<"until", c, l, b>> \in Untils
  BY DEF Untils
<1>4. \A u \in Untils : u \in Goals
  BY DEF Goals
<1>5. \A c \in Closers, l \in Nested, b \in BOOLEAN : Plain(<<"until", c, l, b>>)
  BY <1>3, <1>4 DEF Plain, Usual, Steady
<1>6. \A l \in Nested : Plain(Opt(l))
  BY DEF Plain, Usual, Steady, Goals, Opt
<1>7. \A c \in Closers, u \in Untils : Plain(<<"some", c, u>>)
  BY DEF Plain, Usual, Steady, Goals
<1>8. \A t \in {"spec", "specs", "cases"}, b \in BOOLEAN : Plain(<<t, b>>)
  BY DEF Plain, Usual, Steady, Goals
<1>9. \A n, m \in Nat : <<"tried", n, m>> \in Goals
  BY DEF Goals
<1>10. \A a, b, c \in BOOLEAN : <<"try", a, b, c>> \in Goals
  BY DEF Goals
<1> QED
  BY <1>1, <1>2, <1>3, <1>5, <1>6, <1>7, <1>8, <1>9, <1>10

LEMMA SteadyTags == \A t \in Tags \ {"list", "slice", "def-type"} : Plain(<<t>>)
<1>1. "tried" \notin Tags /\ "try" \notin Tags /\ "want" \notin Tags
  BY DEF Tags, Single, Types, Names, Parts
<1> QED
  BY <1>1, TagGoals DEF Plain, Usual, Steady

LEMMA NamedGoals ==
  /\ Plain(E) /\ Plain(Sym) /\ Plain(Type) /\ Plain(OptType) /\ Plain(BindType) /\ Plain(Arrow) /\ Plain(Doc)
  /\ Plain(Params) /\ Plain(Pattern)
  /\ Plain(<<"clause">>) /\ Plain(<<"clause-name">>) /\ Plain(<<"receiver">>) /\ Plain(<<"fields">>)
  /\ Plain(<<"tag">>) /\ Plain(<<"chan">>) /\ Plain(<<"send!">>) /\ Plain(<<"binding">>) /\ Plain(<<"param">>)
  /\ Plain(<<"let-name">>) /\ Plain(<<"as">>) /\ Plain(<<"select-case">>) /\ Plain(<<"select-op">>)
  /\ Plain(<<"doto-step">>) /\ Plain(<<"map-value">>) /\ Plain(<<"case-body">>) /\ Plain(<<"top">>)
  /\ Usual(Want("(")) /\ Usual(Want("[")) /\ Usual(Want("]")) /\ Usual(Close) /\ Usual(Want("}"))
  /\ Usual(<<"list">>) /\ Usual(<<"slice">>) /\ <<"def-type">> \in Goals
<1>1. {"expr", "sym", "type", "opt-type", "bind-type", "arrow", "doc", "params", "pattern", "clause",
       "clause-name", "receiver", "fields", "tag", "chan", "send!", "binding", "param", "let-name", "as",
       "select-case", "select-op", "doto-step", "map-value", "case-body", "top"}
        \subseteq Tags \ {"list", "slice", "def-type"}
  BY DEF Tags, Single, Types, Names, Parts
<1>2. /\ Plain(<<"expr">>) /\ Plain(<<"sym">>) /\ Plain(<<"type">>) /\ Plain(<<"opt-type">>)
      /\ Plain(<<"bind-type">>) /\ Plain(<<"arrow">>) /\ Plain(<<"doc">>) /\ Plain(<<"params">>)
      /\ Plain(<<"pattern">>) /\ Plain(<<"clause">>) /\ Plain(<<"clause-name">>) /\ Plain(<<"receiver">>)
      /\ Plain(<<"fields">>) /\ Plain(<<"tag">>) /\ Plain(<<"chan">>) /\ Plain(<<"send!">>)
      /\ Plain(<<"binding">>) /\ Plain(<<"param">>) /\ Plain(<<"let-name">>) /\ Plain(<<"as">>)
      /\ Plain(<<"select-case">>) /\ Plain(<<"select-op">>) /\ Plain(<<"doto-step">>)
      /\ Plain(<<"map-value">>) /\ Plain(<<"case-body">>) /\ Plain(<<"top">>)
  BY <1>1, SteadyTags
<1>3. {"(", "[", "]", ")", "}"} \subseteq Openers \cup Closers /\ {"list", "slice", "def-type"} \subseteq Tags
  BY DEF Openers, Closers, Tags, Types
<1>4. /\ Want("(") \in Goals /\ Want("[") \in Goals /\ Want("]") \in Goals /\ Want(")") \in Goals
      /\ Want("}") \in Goals /\ <<"list">> \in Goals /\ <<"slice">> \in Goals /\ <<"def-type">> \in Goals
  BY <1>3, TagGoals
<1>5. /\ Usual(Want("(")) /\ Usual(Want("[")) /\ Usual(Want("]")) /\ Usual(Want(")")) /\ Usual(Want("}"))
      /\ Usual(<<"list">>) /\ Usual(<<"slice">>)
  BY <1>4 DEF Usual, Want
<1> QED
  BY <1>2, <1>4, <1>5 DEF E, Sym, Type, OptType, BindType, Arrow, Doc, Params, Pattern, Close

LEMMA LevelPlain ==
  /\ \A g : Plain(g) => Level(<<g>>)
  /\ \A g, h : Plain(g) /\ Plain(h) => Level(<<g, h>>)
  /\ \A g, h, i : Plain(g) /\ Plain(h) /\ Plain(i) => Level(<<g, h, i>>)
<1>1. ASSUME NEW g, Plain(g) PROVE Level(<<g>>)
  <2>1. Fresh(<<g>>)
    BY <1>1, Fresh1 DEF Plain
  <2>2. \A a \in Kinds : Leads(<<g>>, a, a)
    BY <1>1, PlainMoves, LeadsOne
  <2> QED
    BY <2>1, <2>2 DEF Level
<1>2. ASSUME NEW g, NEW h, Plain(g), Plain(h) PROVE Level(<<g, h>>)
  <2>1. Fresh(<<g, h>>)
    BY <1>2, Fresh2 DEF Plain
  <2>2. \A a \in Kinds : Leads(<<g, h>>, a, a)
    BY <1>2, PlainMoves, Leads2
  <2> QED
    BY <2>1, <2>2 DEF Level
<1>3. ASSUME NEW g, NEW h, NEW i, Plain(g), Plain(h), Plain(i) PROVE Level(<<g, h, i>>)
  <2>1. Fresh(<<g, h, i>>)
    BY <1>3, Fresh3 DEF Plain
  <2>2. \A a \in Kinds : Leads(<<g, h, i>>, a, a)
    BY <1>3, PlainMoves, Leads3
  <2> QED
    BY <2>1, <2>2 DEF Level
<1> QED
  BY <1>1, <1>2, <1>3

LEMMA LevelNested == \A l \in Nested : Level(l)
<1>1. Level(<<Want("("), Sym, Params, Arrow, Close>>)
  <2>1. Fresh(<<Want("("), Sym, Params, Arrow, Close>>)
    BY NamedGoals, Fresh5 DEF Plain
  <2>2. ASSUME NEW a \in Kinds PROVE Leads(<<Want("("), Sym, Params, Arrow, Close>>, a, a)
    <3>1. PICK b : b = Append(a, "(")
      OBVIOUS
    <3>2. b \in Kinds /\ Moves(Want("("), a, b) /\ Moves(Close, b, a)
      BY <3>1, OpenKinds, WantMoves DEF Openers
    <3>3. Moves(Sym, b, b) /\ Moves(Params, b, b) /\ Moves(Arrow, b, b)
      BY NamedGoals, PlainMoves
    <3> QED
      BY <3>2, <3>3, Leads5
  <2> QED
    BY <2>1, <2>2 DEF Level
<1>2. Level(<<Want("("), <<"select-case">>, Close>>)
  <2>1. Fresh(<<Want("("), <<"select-case">>, Close>>)
    BY NamedGoals, Fresh3 DEF Plain
  <2>2. ASSUME NEW a \in Kinds PROVE Leads(<<Want("("), <<"select-case">>, Close>>, a, a)
    <3>1. PICK b : b = Append(a, "(")
      OBVIOUS
    <3>2. b \in Kinds /\ Moves(Want("("), a, b) /\ Moves(Close, b, a)
      BY <3>1, OpenKinds, WantMoves DEF Openers
    <3>3. Moves(<<"select-case">>, b, b)
      BY NamedGoals, PlainMoves
    <3> QED
      BY <3>2, <3>3, Leads3
  <2> QED
    BY <2>1, <2>2 DEF Level
<1>3. /\ Level(<<E>>) /\ Level(<<E, E>>) /\ Level(<<Type>>)
      /\ Level(<< <<"clause">> >>) /\ Level(<< <<"param">> >>)
      /\ Level(<< <<"doto-step">> >>) /\ Level(<<E, <<"map-value">> >>) /\ Level(<< <<"let-name">>, E>>)
      /\ Level(<<Sym, BindType, E>>) /\ Level(<<Sym, E, E>>) /\ Level(<<Sym, OptType, <<"tag">> >>)
  BY LevelPlain, NamedGoals
<1>4. \A l \in Nested : Level(l)
  BY <1>1, <1>2, <1>3, Zenon DEF Nested
<1> QED
  BY <1>4

LEMMA RepeatGoals ==
  /\ \A c \in Closers, l \in Nested : Plain(Until(c, l)) /\ Plain(SkipUntil(c, l))
  /\ Plain(Body) /\ Plain(Exprs) /\ Plain(Opt(<<E>>)) /\ Plain(SomeBody)
  /\ \A l \in Nested : Plain(<<"some", "]", SkipUntil("]", l)>>)
<1>1. \A c \in Closers, l \in Nested :
        Plain(Until(c, l)) /\ Plain(SkipUntil(c, l)) /\ SkipUntil(c, l) \in Untils
  BY TagGoals DEF Until, SkipUntil
<1>2. <<E>> \in Nested /\ ")" \in Closers /\ "]" \in Closers
  BY DEF Nested, Closers
<1>3. Plain(Body) /\ Plain(Exprs) /\ Plain(Opt(<<E>>)) /\ Body \in Untils
  BY <1>1, <1>2, TagGoals DEF Body, Exprs
<1>4. Plain(SomeBody)
  BY <1>2, <1>3, TagGoals DEF SomeBody
<1>5. \A l \in Nested : Plain(<<"some", "]", SkipUntil("]", l)>>)
  BY <1>1, <1>2, TagGoals
<1> QED
  BY <1>1, <1>3, <1>4, <1>5

(* Forms by their shapes. *)
LEMMA Form1 ==
  ASSUME NEW g, Plain(g)
  PROVE  Parses(<<g, Close>>)
<1>1. Fresh(<<g, Close>>)
  BY NamedGoals, Fresh2 DEF Plain
<1>2. ASSUME NEW a \in Kinds PROVE Leads(<<g, Close>>, Append(a, "("), a)
  <2>1. PICK b : b = Append(a, "(")
    OBVIOUS
  <2>3. b \in Kinds
    BY <2>1, OpenKinds DEF Openers
  <2>4. Moves(Close, b, a)
    BY <2>1, <2>3, WantMoves
  <2>5. Moves(g, b, b)
    BY NamedGoals, PlainMoves
  <2>6. Leads(<<g, Close>>, b, a)
    BY <2>3, <2>4, <2>5, Leads2
  <2> QED
    BY <2>1, <2>6
<1> QED
  BY <1>1, <1>2 DEF Parses, Finishes

LEMMA Form2 ==
  ASSUME NEW g, Plain(g), NEW h, Plain(h)
  PROVE  Parses(<<g, h, Close>>)
<1>1. Fresh(<<g, h, Close>>)
  BY NamedGoals, Fresh3 DEF Plain
<1>2. ASSUME NEW a \in Kinds PROVE Leads(<<g, h, Close>>, Append(a, "("), a)
  <2>1. PICK b : b = Append(a, "(")
    OBVIOUS
  <2>3. b \in Kinds
    BY <2>1, OpenKinds DEF Openers
  <2>4. Moves(Close, b, a)
    BY <2>1, <2>3, WantMoves
  <2>5. Moves(g, b, b) /\ Moves(h, b, b)
    BY NamedGoals, PlainMoves
  <2>6. Leads(<<g, h, Close>>, b, a)
    BY <2>3, <2>4, <2>5, Leads3
  <2> QED
    BY <2>1, <2>6
<1> QED
  BY <1>1, <1>2 DEF Parses, Finishes

LEMMA Form3 ==
  ASSUME NEW g, Plain(g), NEW h, Plain(h), NEW i, Plain(i)
  PROVE  Parses(<<g, h, i, Close>>)
<1>1. Fresh(<<g, h, i, Close>>)
  BY NamedGoals, Fresh4 DEF Plain
<1>2. ASSUME NEW a \in Kinds PROVE Leads(<<g, h, i, Close>>, Append(a, "("), a)
  <2>1. PICK b : b = Append(a, "(")
    OBVIOUS
  <2>3. b \in Kinds
    BY <2>1, OpenKinds DEF Openers
  <2>4. Moves(Close, b, a)
    BY <2>1, <2>3, WantMoves
  <2>5. Moves(g, b, b) /\ Moves(h, b, b) /\ Moves(i, b, b)
    BY NamedGoals, PlainMoves
  <2>6. Leads(<<g, h, i, Close>>, b, a)
    BY <2>3, <2>4, <2>5, Leads4
  <2> QED
    BY <2>1, <2>6
<1> QED
  BY <1>1, <1>2 DEF Parses, Finishes

LEMMA FormDoc3 ==
  ASSUME NEW g, Plain(g), NEW h, Plain(h), NEW i, Plain(i)
  PROVE  Parses(<<g, h, i, Close, Doc>>)
<1>1. Fresh(<<g, h, i, Close, Doc>>)
  BY NamedGoals, Fresh5 DEF Plain
<1>2. ASSUME NEW a \in Kinds PROVE Leads(<<g, h, i, Close, Doc>>, Append(a, "("), a)
  <2>1. PICK b : b = Append(a, "(")
    OBVIOUS
  <2>3. b \in Kinds
    BY <2>1, OpenKinds DEF Openers
  <2>4. Moves(Close, b, a)
    BY <2>1, <2>3, WantMoves
  <2>5. Moves(g, b, b) /\ Moves(h, b, b) /\ Moves(i, b, b) /\ Moves(Doc, a, a)
    BY NamedGoals, PlainMoves
  <2>6. Leads(<<g, h, i, Close, Doc>>, b, a)
    BY <2>3, <2>4, <2>5, Leads5
  <2> QED
    BY <2>1, <2>6
<1> QED
  BY <1>1, <1>2 DEF Parses, Finishes

LEMMA FormDoc4 ==
  ASSUME NEW g, Plain(g), NEW h, Plain(h), NEW i, Plain(i), NEW j, Plain(j)
  PROVE  Parses(<<g, h, i, j, Close, Doc>>)
<1>1. Fresh(<<g, h, i, j, Close, Doc>>)
  BY NamedGoals, Fresh6 DEF Plain
<1>2. ASSUME NEW a \in Kinds PROVE Leads(<<g, h, i, j, Close, Doc>>, Append(a, "("), a)
  <2>1. PICK b : b = Append(a, "(")
    OBVIOUS
  <2>3. b \in Kinds
    BY <2>1, OpenKinds DEF Openers
  <2>4. Moves(Close, b, a)
    BY <2>1, <2>3, WantMoves
  <2>5. Moves(g, b, b) /\ Moves(h, b, b) /\ Moves(i, b, b) /\ Moves(j, b, b) /\ Moves(Doc, a, a)
    BY NamedGoals, PlainMoves
  <2>6. Leads(<<g, h, i, j, Close, Doc>>, b, a)
    BY <2>3, <2>4, <2>5, Leads6
  <2> QED
    BY <2>1, <2>6
<1> QED
  BY <1>1, <1>2 DEF Parses, Finishes

LEMMA FormDoc5 ==
  ASSUME NEW g, Plain(g), NEW h, Plain(h), NEW i, Plain(i), NEW j, Plain(j), NEW l, Plain(l)
  PROVE  Parses(<<g, h, i, j, l, Close, Doc>>)
<1>1. Fresh(<<g, h, i, j, l, Close, Doc>>)
  BY NamedGoals, Fresh7 DEF Plain
<1>2. ASSUME NEW a \in Kinds PROVE Leads(<<g, h, i, j, l, Close, Doc>>, Append(a, "("), a)
  <2>1. PICK b : b = Append(a, "(")
    OBVIOUS
  <2>3. b \in Kinds
    BY <2>1, OpenKinds DEF Openers
  <2>4. Moves(Close, b, a)
    BY <2>1, <2>3, WantMoves
  <2>5. /\ Moves(g, b, b) /\ Moves(h, b, b) /\ Moves(i, b, b) /\ Moves(j, b, b) /\ Moves(l, b, b)
        /\ Moves(Doc, a, a)
    BY NamedGoals, PlainMoves
  <2>6. Leads(<<g, h, i, j, l, Close, Doc>>, b, a)
    BY <2>3, <2>4, <2>5, Leads7
  <2> QED
    BY <2>1, <2>6
<1> QED
  BY <1>1, <1>2 DEF Parses, Finishes

LEMMA FormBound ==
  ASSUME NEW g, Plain(g), NEW h, Plain(h)
  PROVE  Parses(<<Want("["), g, Want("]"), h, Close>>)
<1>1. Fresh(<<Want("["), g, Want("]"), h, Close>>)
  BY NamedGoals, Fresh5 DEF Plain
<1>2. ASSUME NEW a \in Kinds PROVE Leads(<<Want("["), g, Want("]"), h, Close>>, Append(a, "("), a)
  <2>1. PICK b : b = Append(a, "(")
    OBVIOUS
  <2>2. PICK c : c = Append(b, "[")
    OBVIOUS
  <2>3. b \in Kinds /\ c \in Kinds
    BY <2>1, <2>2, OpenKinds DEF Openers
  <2>4. Moves(Want("["), b, c) /\ Moves(Want("]"), c, b) /\ Moves(Close, b, a)
    BY <2>1, <2>2, <2>3, WantMoves
  <2>5. Moves(g, c, c) /\ Moves(h, b, b)
    BY NamedGoals, PlainMoves
  <2>6. Leads(<<Want("["), g, Want("]"), h, Close>>, b, a)
    BY <2>3, <2>4, <2>5, Leads5
  <2> QED
    BY <2>1, <2>6
<1> QED
  BY <1>1, <1>2 DEF Parses, Finishes

LEMMA FormBound2 ==
  ASSUME NEW g, Plain(g), NEW h, Plain(h), NEW i, Plain(i)
  PROVE  Parses(<<Want("["), g, h, Want("]"), i, Close>>)
<1>1. Fresh(<<Want("["), g, h, Want("]"), i, Close>>)
  BY NamedGoals, Fresh6 DEF Plain
<1>2. ASSUME NEW a \in Kinds PROVE Leads(<<Want("["), g, h, Want("]"), i, Close>>, Append(a, "("), a)
  <2>1. PICK b : b = Append(a, "(")
    OBVIOUS
  <2>2. PICK c : c = Append(b, "[")
    OBVIOUS
  <2>3. b \in Kinds /\ c \in Kinds
    BY <2>1, <2>2, OpenKinds DEF Openers
  <2>4. Moves(Want("["), b, c) /\ Moves(Want("]"), c, b) /\ Moves(Close, b, a)
    BY <2>1, <2>2, <2>3, WantMoves
  <2>5. Moves(g, c, c) /\ Moves(h, c, c) /\ Moves(i, b, b)
    BY NamedGoals, PlainMoves
  <2>6. Leads(<<Want("["), g, h, Want("]"), i, Close>>, b, a)
    BY <2>3, <2>4, <2>5, Leads6
  <2> QED
    BY <2>1, <2>6
<1> QED
  BY <1>1, <1>2 DEF Parses, Finishes

LEMMA FormBoundElse ==
  ASSUME NEW g, Plain(g), NEW h, Plain(h), NEW i, Plain(i), NEW j, Plain(j)
  PROVE  Parses(<<Want("["), g, h, Want("]"), i, j, Close>>)
<1>1. Fresh(<<Want("["), g, h, Want("]"), i, j, Close>>)
  BY NamedGoals, Fresh7 DEF Plain
<1>2. ASSUME NEW a \in Kinds PROVE Leads(<<Want("["), g, h, Want("]"), i, j, Close>>, Append(a, "("), a)
  <2>1. PICK b : b = Append(a, "(")
    OBVIOUS
  <2>2. PICK c : c = Append(b, "[")
    OBVIOUS
  <2>3. b \in Kinds /\ c \in Kinds
    BY <2>1, <2>2, OpenKinds DEF Openers
  <2>4. Moves(Want("["), b, c) /\ Moves(Want("]"), c, b) /\ Moves(Close, b, a)
    BY <2>1, <2>2, <2>3, WantMoves
  <2>5. Moves(g, c, c) /\ Moves(h, c, c) /\ Moves(i, b, b) /\ Moves(j, b, b)
    BY NamedGoals, PlainMoves
  <2>6. Leads(<<Want("["), g, h, Want("]"), i, j, Close>>, b, a)
    BY <2>3, <2>4, <2>5, Leads7
  <2> QED
    BY <2>1, <2>6
<1> QED
  BY <1>1, <1>2 DEF Parses, Finishes

LEMMA FormErr ==
  ASSUME NEW g, Plain(g), NEW h, Plain(h), NEW i, Plain(i), NEW j, Plain(j), NEW l, Plain(l)
  PROVE  Parses(<<Want("["), g, h, Want("]"), i, j, l, Close>>)
<1>1. Fresh(<<Want("["), g, h, Want("]"), i, j, l, Close>>)
  BY NamedGoals, Fresh8 DEF Plain
<1>2. ASSUME NEW a \in Kinds PROVE Leads(<<Want("["), g, h, Want("]"), i, j, l, Close>>, Append(a, "("), a)
  <2>1. PICK b : b = Append(a, "(")
    OBVIOUS
  <2>2. PICK c : c = Append(b, "[")
    OBVIOUS
  <2>3. b \in Kinds /\ c \in Kinds
    BY <2>1, <2>2, OpenKinds DEF Openers
  <2>4. Moves(Want("["), b, c) /\ Moves(Want("]"), c, b) /\ Moves(Close, b, a)
    BY <2>1, <2>2, <2>3, WantMoves
  <2>5. Moves(g, c, c) /\ Moves(h, c, c) /\ Moves(i, b, b) /\ Moves(j, b, b) /\ Moves(l, b, b)
    BY NamedGoals, PlainMoves
  <2>6. Leads(<<Want("["), g, h, Want("]"), i, j, l, Close>>, b, a)
    BY <2>3, <2>4, <2>5, Leads8
  <2> QED
    BY <2>1, <2>6
<1> QED
  BY <1>1, <1>2 DEF Parses, Finishes

LEMMA FormJoin ==
  ASSUME NEW gs, NEW hs, Level(gs), Parses(hs)
  PROVE  Parses(gs \o hs)
<1>1. gs \in Seq(Goals) /\ hs \in Seq(Goals) /\ Fresh(hs) /\ Fresh(gs)
  BY DEF Level, Fresh, Parses
<1>2. ASSUME NEW a \in Kinds PROVE Leads(gs \o hs, Append(a, "("), a)
  <2>1. PICK b : b = Append(a, "(")
    OBVIOUS
  <2>2. b \in Kinds
    BY <2>1, OpenKinds DEF Openers
  <2>3. Leads(gs, b, b) /\ Leads(hs, b, a)
    BY <2>1, <2>2 DEF Level, Parses, Finishes
  <2>4. Leads(gs \o hs, b, a)
    BY <1>1, <2>3, LeadsJoin
  <2> QED
    BY <2>1, <2>4
<1> QED
  BY <1>1, <1>2, FreshJoin DEF Parses, Finishes

LEMMA LevelJoin ==
  ASSUME NEW gs, NEW hs, Level(gs), Level(hs)
  PROVE  Level(gs \o hs)
<1>1. gs \in Seq(Goals) /\ hs \in Seq(Goals) /\ Fresh(gs \o hs)
  BY FreshJoin DEF Level, Fresh
<1>2. \A a \in Kinds : Leads(gs \o hs, a, a)
  BY <1>1, LeadsJoin DEF Level
<1> QED
  BY <1>1, <1>2 DEF Level

LEMMA LevelChannel == Level(Channel)
<1>1. Fresh(Channel)
  BY NamedGoals, Fresh4 DEF Channel, Plain
<1>2. ASSUME NEW a \in Kinds PROVE Leads(Channel, a, a)
  <2>1. PICK b : b = Append(a, "[")
    OBVIOUS
  <2>2. b \in Kinds /\ Moves(Want("["), a, b) /\ Moves(Want("]"), b, a)
    BY <2>1, OpenKinds, WantMoves DEF Openers
  <2>3. Moves(Sym, b, b) /\ Moves(E, b, b)
    BY NamedGoals, PlainMoves
  <2> QED
    BY <2>2, <2>3, Leads4 DEF Channel
<1> QED
  BY <1>1, <1>2 DEF Level

LEMMA FormsParse ==
  /\ \A f \in Forms : f = <<"def", ParseDef>> \/ Parses(f[2])
  /\ Parses(ParseMethodCall) /\ Parses(ParseFieldAccess) /\ Parses(ParseStructLit) /\ Parses(ParseCall)
<1> USE NamedGoals, RepeatGoals
<1>0. /\ ")" \in Closers /\ "]" \in Closers
      /\ <<E>> \in Nested /\ <<E, E>> \in Nested /\ << <<"clause">> >> \in Nested
      /\ << <<"doto-step">> >> \in Nested /\ << <<"let-name">>, E>> \in Nested /\ <<Sym, BindType, E>> \in Nested
      /\ <<Sym, E, E>> \in Nested /\ <<Sym, OptType, <<"tag">> >> \in Nested
      /\ <<Want("("), Sym, Params, Arrow, Close>> \in Nested /\ <<Want("("), <<"select-case">>, Close>> \in Nested
  BY DEF Nested, Closers
<1>1. /\ Parses(ParseCond) /\ Parses(ParseDo) /\ Parses(ParseGo) /\ Parses(ParseDefer)
      /\ Parses(ParseRecv) /\ Parses(ParseClose) /\ Parses(ParsePar) /\ Parses(ParseRecvOk)
  BY <1>0, Form1 DEF ParseCond, ParseDo, ParseGo, ParseDefer, ParseRecv, ParseClose, ParsePar,
                     ParseRecvOk
<1>2. /\ Parses(ParseFanIn) /\ Parses(ParseSelect) /\ Parses(ParseRecur) /\ Parses(ParseReturn)
      /\ Parses(ParseValues) /\ Parses(ParseFieldAccess) /\ Parses(ParseStructLit)
  BY <1>0, Form1 DEF ParseFanIn, ParseSelect, ParseRecur, ParseReturn, ParseValues, ParseFieldAccess,
                     ParseStructLit
<1>3. /\ Parses(ParseNS) /\ Parses(ParseDeftype) /\ Parses(ParseDefstruct) /\ Parses(ParseDefinterface)
      /\ Parses(ParseWhen) /\ Parses(ParseSwitch) /\ Parses(ParseChan) /\ Parses(ParseSend)
  BY <1>0, Form2 DEF ParseNS, ParseDeftype, ParseDefstruct, ParseDefinterface, ParseWhen, ParseSwitch,
                     ParseChan, ParseSend
<1>4. /\ Parses(ParseGoVal) /\ Parses(ParseWithLock) /\ Parses(ParseTypeAssert) /\ Parses(ParseAtom)
      /\ Parses(ParseDoto) /\ Parses(ParseDefTest) /\ Parses(ParseMethodCall) /\ Parses(ParseCall)
  BY <1>0, Form2 DEF ParseGoVal, ParseWithLock, ParseTypeAssert, ParseAtom, ParseDoto, ParseDefTest,
                     ParseMethodCall, ParseCall
<1>5. Parses(ParseCase)
  BY <1>0, Form2, TagGoals DEF ParseCase
<1>6. Parses(ParseFn) /\ Parses(ParseIf)
  BY <1>0, Form3 DEF ParseFn, ParseIf
<1>7. Parses(ParseDefmacro)
  BY <1>0, FormDoc3 DEF ParseDefmacro
<1>8. Parses(ParseDefn)
  BY <1>0, FormDoc4 DEF ParseDefn
<1>9. Parses(ParseDefmethod)
  BY <1>0, FormDoc5 DEF ParseDefmethod
<1>10. Parses(ParseLet) /\ Parses(ParseLoop) /\ Parses(ParseLetOr) /\ Parses(ParseWithOpen)
  BY <1>0, FormBound DEF ParseLet, ParseLoop, ParseLetOr, ParseWithOpen
<1>11. Parses(ParseWhenLet)
  BY <1>0, FormBound2 DEF ParseWhenLet
<1>12. Parses(ParseIfLet)
  BY <1>0, FormBoundElse DEF ParseIfLet
<1>13. Parses(ParseIfErr)
  BY <1>0, FormErr DEF ParseIfErr
<1>14. Parses(<<Body, Close>>) /\ Parses(<<Exprs, Close>>)
  BY Form1
<1>15. Parses(ParseForChan) /\ Parses(ParsePipeline)
  BY <1>14, LevelChannel, FormJoin DEF ParseForChan, ParsePipeline
<1>16. Parses(ParseFanOut)
  <2>1. Level(<<E>>)
    BY LevelPlain
  <2>2. PICK gs : gs = <<E>> \o Channel
    OBVIOUS
  <2>3. Level(gs)
    BY <2>1, <2>2, LevelChannel, LevelJoin
  <2>4. Parses(gs \o <<Body, Close>>)
    BY <1>14, <2>3, FormJoin
  <2> QED
    BY <2>2, <2>4 DEF ParseFanOut
<1>17. Parses(ParseTry)
  <2>1. Usual(<<"try", FALSE, FALSE, FALSE>>)
    BY TagGoals DEF Usual
  <2>2. Fresh(ParseTry)
    BY <2>1, Fresh1 DEF ParseTry
  <2>3. ASSUME NEW a \in Kinds PROVE Leads(ParseTry, Append(a, "("), a)
    <3>1. PICK b : b = Append(a, "(")
      OBVIOUS
    <3>2. b \in Kinds
      BY <3>1, OpenKinds DEF Openers
    <3>3. Moves(<<"try", FALSE, FALSE, FALSE>>, b, a)
      BY <3>1 DEF Moves, Steady, Ends, Openers, Closer
    <3>4. Leads(ParseTry, b, a)
      BY <3>2, <3>3, LeadsOne DEF ParseTry
    <3> QED
      BY <3>1, <3>4
  <2> QED
    BY <2>2, <2>3 DEF Parses, Finishes
<1> HIDE NamedGoals, RepeatGoals
<1> DEFINE Q(f) == f = <<"def", ParseDef>> \/ Parses(f[2])
<1>18. \A n, gs : Parses(gs) => Q(<<n, gs>>)
  OBVIOUS
<1>19. Q(<<"def", ParseDef>>)
  OBVIOUS
<1> HIDE DEF Q
<1>20. /\ Q(<<"ns", ParseNS>>) /\ Q(<<"defn", ParseDefn>>) /\ Q(<<"defmacro", ParseDefmacro>>)
       /\ Q(<<"deftype", ParseDeftype>>) /\ Q(<<"defstruct", ParseDefstruct>>)
       /\ Q(<<"definterface", ParseDefinterface>>) /\ Q(<<"defmethod", ParseDefmethod>>)
       /\ Q(<<"fn", ParseFn>>) /\ Q(<<"let", ParseLet>>) /\ Q(<<"if", ParseIf>>)
       /\ Q(<<"when", ParseWhen>>) /\ Q(<<"cond", ParseCond>>) /\ Q(<<"do", ParseDo>>)
       /\ Q(<<"go", ParseGo>>) /\ Q(<<"go-val", ParseGoVal>>) /\ Q(<<"par", ParsePar>>)
       /\ Q(<<"defer", ParseDefer>>) /\ Q(<<"chan", ParseChan>>) /\ Q(<<"send!", ParseSend>>)
       /\ Q(<<"recv!", ParseRecv>>) /\ Q(<<"recv-ok!", ParseRecvOk>>)
       /\ Q(<<"close!", ParseClose>>) /\ Q(<<"select!", ParseSelect>>)
       /\ Q(<<"for-chan", ParseForChan>>) /\ Q(<<"with-lock", ParseWithLock>>)
       /\ Q(<<"with-open", ParseWithOpen>>) /\ Q(<<"doto", ParseDoto>>)
       /\ Q(<<"pipeline", ParsePipeline>>) /\ Q(<<"fan-out", ParseFanOut>>)
       /\ Q(<<"fan-in", ParseFanIn>>) /\ Q(<<"loop", ParseLoop>>) /\ Q(<<"recur", ParseRecur>>)
       /\ Q(<<"return", ParseReturn>>) /\ Q(<<"values", ParseValues>>)
       /\ Q(<<"if-err", ParseIfErr>>) /\ Q(<<"try", ParseTry>>) /\ Q(<<"if-let", ParseIfLet>>)
       /\ Q(<<"when-let", ParseWhenLet>>) /\ Q(<<"let-or", ParseLetOr>>)
       /\ Q(<<"switch", ParseSwitch>>) /\ Q(<<"case", ParseCase>>)
       /\ Q(<<"as", ParseTypeAssert>>) /\ Q(<<"atom", ParseAtom>>)
       /\ Q(<<"deftest", ParseDefTest>>)
  BY <1>1, <1>2, <1>3, <1>4, <1>5, <1>6, <1>7, <1>8, <1>9, <1>10, <1>11, <1>12, <1>13, <1>14, <1>15,
     <1>16, <1>17, <1>18
<1>21. \A f \in Forms : Q(f)
  BY <1>19, <1>20, Zenon DEF Forms
<1> QED
  BY <1>1, <1>2, <1>3, <1>4, <1>5, <1>6, <1>7, <1>8, <1>9, <1>10, <1>11, <1>12, <1>13, <1>14, <1>15,
     <1>16, <1>17, <1>21 DEF Q

-----------------------------------------------------------------------------
(* The goals close what is open. *)

KindsOf(toks, s) == [k \in 1..Len(s) |-> toks[s[k]][1]]

Fits(toks, n, gs, open) ==
  \E s : /\ Stack(toks, n, s) /\ Leads(gs, KindsOf(toks, s), <<>>)
         /\ TriesType(toks) \/ open = s

(* A token of class c takes the open delimiters from a to b. *)
Shifts(c, a, b) ==
  IF c \in Openers THEN b = Append(a, c)
  ELSE IF c \in Closers THEN \E o \in Openers : a = Append(b, o) /\ Closer(o) = c
  ELSE a = b

LEMMA KindsTyped ==
  ASSUME NEW toks \in Seq(AllTokens), NEW n \in 0..Len(toks), NEW s, Stack(toks, n, s)
  PROVE  KindsOf(toks, s) \in Kinds /\ Len(KindsOf(toks, s)) = Len(s) /\ s \in Seq(Nat)
<1>1. s \in Seq(Nat) /\ \A k \in 1..Len(s) : Opening(toks, s[k])
  BY DEF Stack
<1>2. \A k \in 1..Len(s) : KindsOf(toks, s)[k] \in Openers
  BY <1>1 DEF KindsOf, Opening
<1>3. KindsOf(toks, s) \in Seq(Openers) /\ Len(KindsOf(toks, s)) = Len(s)
  BY <1>1, <1>2 DEF KindsOf
<1> QED
  BY <1>1, <1>3 DEF Kinds

LEMMA KindsGrow ==
  ASSUME NEW toks \in Seq(AllTokens), NEW s \in Seq(Nat), NEW n \in Nat
  PROVE  KindsOf(toks, Append(s, n)) = Append(KindsOf(toks, s), toks[n][1])
<1>1. PICK t : t = Append(s, n)
  OBVIOUS
<1>2. Len(t) = Len(s) + 1 /\ t[Len(s) + 1] = n /\ \A k \in 1..Len(s) : t[k] = s[k]
  BY <1>1
<1>3. Len(s) \in Nat
  OBVIOUS
<1>4. PICK f : f = KindsOf(toks, t)
  OBVIOUS
<1>5. PICK g : g = KindsOf(toks, s)
  OBVIOUS
<1>6. f = [k \in 1..Len(s) + 1 |-> toks[t[k]][1]]
  BY <1>2, <1>4 DEF KindsOf
<1>7. g = [k \in 1..Len(s) |-> toks[s[k]][1]]
  BY <1>5 DEF KindsOf
<1>8. Append(g, toks[n][1]) = [k \in 1..Len(s) + 1 |-> IF k = Len(s) + 1 THEN toks[n][1] ELSE g[k]]
  BY <1>3, <1>7
<1>9. \A k \in 1..Len(s) + 1 : toks[t[k]][1] = IF k = Len(s) + 1 THEN toks[n][1] ELSE g[k]
  BY <1>2, <1>3, <1>7
<1> QED
  BY <1>1, <1>4, <1>5, <1>6, <1>8, <1>9

LEMMA KindsShrink ==
  ASSUME NEW toks \in Seq(AllTokens), NEW n \in 0..Len(toks), NEW s, Stack(toks, n, s),
         NEW b \in Kinds, NEW o \in Openers, KindsOf(toks, s) = Append(b, o)
  PROVE  s # <<>> /\ toks[s[Len(s)]][1] = o /\ KindsOf(toks, Front(s)) = b
<1>1. PICK f \in Kinds : f = KindsOf(toks, s)
  BY KindsTyped
<1>2. s \in Seq(Nat) /\ Len(f) = Len(s) /\ \A k \in 1..Len(s) : f[k] = toks[s[k]][1]
  BY <1>1, KindsTyped DEF KindsOf
<1>3. f = Append(b, o) /\ b \in Seq(Openers)
  BY <1>1 DEF Kinds
<1>4. Len(f) = Len(b) + 1 /\ f[Len(b) + 1] = o /\ \A k \in 1..Len(b) : f[k] = b[k]
  BY <1>3
<1>5. Len(b) \in Nat /\ b = [k \in 1..Len(b) |-> b[k]]
  BY <1>3
<1>6. Len(s) = Len(b) + 1 /\ s # <<>>
  <2>1. Len(s) = Len(b) + 1
    BY <1>2, <1>4
  <2>2. Len(s) # 0
    BY <1>5, <2>1
  <2>3. Len(<<>>) = 0
    OBVIOUS
  <2> QED
    BY <2>1, <2>2, <2>3
<1>7. toks[s[Len(s)]][1] = o
  BY <1>2, <1>4, <1>5, <1>6
<1>8. PICK t : t = Front(s)
  OBVIOUS
<1>9. Len(t) = Len(b) /\ \A k \in 1..Len(b) : t[k] = s[k]
  BY <1>2, <1>5, <1>6, <1>8 DEF Front
<1>10. KindsOf(toks, t) = [k \in 1..Len(b) |-> toks[s[k]][1]]
  BY <1>9 DEF KindsOf
<1>11. \A k \in 1..Len(b) : toks[s[k]][1] = b[k]
  BY <1>2, <1>4, <1>5, <1>6
<1> QED
  BY <1>5, <1>6, <1>7, <1>8, <1>10, <1>11

(* Other goals in the place of the first. *)
LEMMA LeadsThen ==
  ASSUME NEW goals \in Seq(Goals), goals # <<>>, NEW gs \in Seq(Goals), NEW a, NEW c,
         Leads(goals, a, c), NEW d \in Kinds,
         \A b \in Kinds : Moves(Head(goals), a, b) => Leads(gs, d, b)
  PROVE  Leads(gs \o Tail(goals), d, c)
<1>1. PICK b \in Kinds : Moves(Head(goals), a, b) /\ Leads(Tail(goals), b, c)
  BY LeadsHead
<1>2. Tail(goals) \in Seq(Goals)
  OBVIOUS
<1> QED
  BY <1>1, <1>2, LeadsJoin

LEMMA FitsThen ==
  ASSUME NEW toks \in Seq(AllTokens), NEW n \in 0..Len(toks), NEW open,
         NEW goals \in Seq(Goals), goals # <<>>, NEW gs \in Seq(Goals),
         Fits(toks, n, goals, open),
         \A a, b \in Kinds : Moves(Head(goals), a, b) => Leads(gs, a, b)
  PROVE  Fits(toks, n, gs \o Tail(goals), open)
<1>1. PICK s : /\ Stack(toks, n, s) /\ Leads(goals, KindsOf(toks, s), <<>>)
               /\ TriesType(toks) \/ open = s
  BY DEF Fits
<1>2. KindsOf(toks, s) \in Kinds
  BY <1>1, KindsTyped
<1>3. Leads(gs \o Tail(goals), KindsOf(toks, s), <<>>)
  BY <1>1, <1>2, LeadsThen
<1> QED
  BY <1>1, <1>3 DEF Fits

(* A token more. *)
Opened(toks, n, open) ==
  IF toks[n][1] \in Openers THEN Append(open, n)
  ELSE IF toks[n][1] \in Closers /\ open # <<>> THEN Front(open) ELSE open

LEMMA FitsRead ==
  ASSUME NEW toks \in Seq(AllTokens), NEW n \in 0..Len(toks), n + 1 <= Len(toks), NEW open,
         NEW goals \in Seq(Goals), goals # <<>>, NEW gs \in Seq(Goals),
         Fits(toks, n, goals, open),
         \A a, b \in Kinds : Moves(Head(goals), a, b) =>
            \E d \in Kinds : Shifts(toks[n + 1][1], a, d) /\ Leads(gs, d, b)
  PROVE  Fits(toks, n + 1, gs \o Tail(goals), Opened(toks, n + 1, open))
<1>1. PICK s : /\ Stack(toks, n, s) /\ Leads(goals, KindsOf(toks, s), <<>>)
               /\ TriesType(toks) \/ open = s
  BY DEF Fits
<1>2. PICK a \in Kinds : a = KindsOf(toks, s)
  BY <1>1, KindsTyped
<1>3. s \in Seq(Nat) /\ n + 1 \in Nat
  BY <1>1, KindsTyped
<1>4. PICK b \in Kinds : Moves(Head(goals), a, b) /\ Leads(Tail(goals), b, <<>>)
  BY <1>1, <1>2, LeadsHead
<1>5. PICK d \in Kinds : Shifts(toks[n + 1][1], a, d) /\ Leads(gs, d, b)
  BY <1>4
<1>6. Leads(gs \o Tail(goals), d, <<>>)
  <2>1. Tail(goals) \in Seq(Goals)
    OBVIOUS
  <2> QED
    BY <1>4, <1>5, <2>1, LeadsJoin
<1>7. CASE toks[n + 1][1] \in Openers
  <2>1. Stack(toks, n + 1, Append(s, n + 1))
    BY <1>1, <1>7, StackGrows DEF Opening
  <2>2. KindsOf(toks, Append(s, n + 1)) = d
    BY <1>2, <1>3, <1>5, <1>7, KindsGrow DEF Shifts
  <2>3. Opened(toks, n + 1, open) = Append(open, n + 1)
    BY <1>7 DEF Opened
  <2> QED
    BY <1>1, <1>6, <2>1, <2>2, <2>3 DEF Fits
<1>8. CASE toks[n + 1][1] \in Closers
  <2>0. toks[n + 1][1] \notin Openers
    BY <1>8 DEF Openers, Closers
  <2>1. PICK o \in Openers : a = Append(d, o) /\ Closer(o) = toks[n + 1][1]
    BY <1>5, <1>8, <2>0 DEF Shifts
  <2>2. s # <<>> /\ toks[s[Len(s)]][1] = o /\ KindsOf(toks, Front(s)) = d
    <3>1. KindsOf(toks, s) = Append(d, o)
      BY <1>2, <2>1
    <3>2. Stack(toks, n, s)
      BY <1>1
    <3>3. \A e \in Kinds, p \in Openers : KindsOf(toks, s) = Append(e, p) =>
            s # <<>> /\ toks[s[Len(s)]][1] = p /\ KindsOf(toks, Front(s)) = e
      BY <3>2, KindsShrink
    <3> QED
      BY <3>1, <3>3
  <2>3. Stack(toks, n + 1, Front(s))
    BY <1>1, <2>1, <2>2, StackShrinks
  <2>4. open = s => Opened(toks, n + 1, open) = Front(s)
    BY <1>8, <2>0, <2>2 DEF Opened
  <2> QED
    BY <1>1, <1>6, <2>2, <2>3, <2>4 DEF Fits
<1>9. CASE toks[n + 1][1] \notin Openers /\ toks[n + 1][1] \notin Closers
  <2>1. Stack(toks, n + 1, s)
    BY <1>1, <1>9, StackStays DEF Opening, Closing
  <2>2. d = a
    BY <1>5, <1>9 DEF Shifts
  <2>3. Opened(toks, n + 1, open) = open
    BY <1>9 DEF Opened
  <2> QED
    BY <1>1, <1>2, <1>6, <2>1, <2>2, <2>3 DEF Fits
<1> QED
  BY <1>7, <1>8, <1>9

LEMMA FitsSkip ==
  ASSUME NEW toks \in Seq(AllTokens), NEW n \in 0..Len(toks), n + 1 <= Len(toks), NEW open, NEW gs,
         Fits(toks, n, gs, open), toks[n + 1][1] \in Comments
  PROVE  Fits(toks, n + 1, gs, open)
<1>1. ~Opening(toks, n + 1) /\ ~Closing(toks, n + 1)
  BY DEF Opening, Closing, Comments, Openers, Closers
<1> QED
  BY <1>1, StackStays DEF Fits

(* What remains behind the kth goal. *)
Behind(gs, k) == SubSeq(gs, k + 1, Len(gs))

LEMMA BehindMeans ==
  ASSUME NEW S, NEW gs \in Seq(S), NEW k \in 1..Len(gs)
  PROVE  /\ Behind(gs, k) \in Seq(S) /\ Len(Behind(gs, k)) = Len(gs) - k
         /\ \A m \in 1..Len(gs) - k : Behind(gs, k)[m] = gs[k + m]
<1>1. Len(gs) \in Nat /\ k \in Nat /\ \A i \in k + 1..Len(gs) : gs[i] \in S
  OBVIOUS
<1>2. /\ SubSeq(gs, k + 1, Len(gs)) \in Seq(S)
      /\ Len(SubSeq(gs, k + 1, Len(gs))) = IF k + 1 <= Len(gs) THEN Len(gs) - (k + 1) + 1 ELSE 0
      /\ \A i \in 1..Len(gs) - (k + 1) + 1 : SubSeq(gs, k + 1, Len(gs))[i] = gs[k + 1 + i - 1]
  BY <1>1, SubSeqProperties
<1> QED
  BY <1>1, <1>2 DEF Behind

LEMMA BehindBehind ==
  ASSUME NEW S, NEW gs \in Seq(S), NEW k \in 1..Len(gs), NEW m \in 1..Len(gs) - k
  PROVE  Behind(Behind(gs, k), m) = Behind(gs, k + m)
<1>1. PICK t : t = Behind(gs, k)
  OBVIOUS
<1>2. t \in Seq(S) /\ Len(t) = Len(gs) - k /\ \A i \in 1..Len(gs) - k : t[i] = gs[k + i]
  BY <1>1, BehindMeans
<1>3. Len(gs) \in Nat /\ k \in Nat /\ m \in Nat /\ m \in 1..Len(t) /\ k + m \in 1..Len(gs)
  BY <1>2
<1>4. PICK u : u = Behind(t, m)
  OBVIOUS
<1>5. u \in Seq(S) /\ Len(u) = Len(t) - m /\ \A i \in 1..Len(t) - m : u[i] = t[m + i]
  BY <1>2, <1>3, <1>4, BehindMeans
<1>6. PICK v : v = Behind(gs, k + m)
  OBVIOUS
<1>7. v \in Seq(S) /\ Len(v) = Len(gs) - (k + m) /\ \A i \in 1..Len(gs) - (k + m) : v[i] = gs[k + m + i]
  BY <1>3, <1>6, BehindMeans
<1>8. Len(u) = Len(v)
  BY <1>2, <1>3, <1>5, <1>7
<1>9. \A i \in 1..Len(u) : u[i] = v[i]
  <2> TAKE i \in 1..Len(u)
  <2>1. i \in Nat /\ i \in 1..Len(t) - m /\ i \in 1..Len(gs) - (k + m) /\ m + i \in 1..Len(gs) - k
    BY <1>2, <1>3, <1>5
  <2>2. k + (m + i) = k + m + i
    BY <1>3, <2>1
  <2> QED
    BY <1>2, <1>5, <1>7, <2>1, <2>2
<1>10. u = v
  BY <1>5, <1>7, <1>8, <1>9, SeqEqual
<1> QED
  BY <1>1, <1>4, <1>6, <1>10

(* The goals when the first is replaced by others. *)
LEMMA Replacing ==
  ASSUME NEW S, NEW gs \in Seq(S), NEW goals \in Seq(S), goals # <<>>
  PROVE  /\ gs \o Tail(goals) \in Seq(S)
         /\ Len(gs \o Tail(goals)) = Len(gs) + Len(goals) - 1
         /\ \A k \in 1..Len(gs) : (gs \o Tail(goals))[k] = gs[k]
         /\ \A k \in 2..Len(goals) :
              /\ (gs \o Tail(goals))[Len(gs) + k - 1] = goals[k]
              /\ Behind(gs \o Tail(goals), Len(gs) + k - 1) = Behind(goals, k)
<1>1. PICK t : t = Tail(goals)
  OBVIOUS
<1>2. Len(goals) \in Nat /\ Len(goals) > 0 /\ Len(gs) \in Nat
  BY EmptySeq
<1>3. t \in Seq(S) /\ Len(t) = Len(goals) - 1 /\ \A k \in 1..Len(goals) - 1 : t[k] = goals[k + 1]
  BY <1>1, <1>2
<1>4. PICK u : u = gs \o t
  OBVIOUS
<1>5. /\ u \in Seq(S) /\ Len(u) = Len(gs) + Len(goals) - 1
      /\ \A k \in 1..Len(gs) : u[k] = gs[k]
      /\ \A k \in Len(gs) + 1..Len(gs) + Len(t) : u[k] = t[k - Len(gs)]
  <2>1. t \in Seq(S)
    BY <1>3
  <2>2. /\ gs \o t \in Seq(S) /\ Len(gs \o t) = Len(gs) + Len(t)
        /\ \A k \in 1..Len(gs) : (gs \o t)[k] = gs[k]
        /\ \A k \in Len(gs) + 1..Len(gs) + Len(t) : (gs \o t)[k] = t[k - Len(gs)]
    BY <2>1, ConcatProperties
  <2>3. Len(gs) + Len(t) = Len(gs) + Len(goals) - 1
    BY <1>2, <1>3
  <2> QED
    BY <1>4, <2>2, <2>3
<1>6. ASSUME NEW k \in 2..Len(goals) PROVE u[Len(gs) + k - 1] = goals[k]
  <2>1. Len(gs) + k - 1 \in Len(gs) + 1..Len(gs) + Len(t) /\ Len(gs) + k - 1 - Len(gs) = k - 1
    BY <1>2, <1>3
  <2>2. u[Len(gs) + k - 1] = t[k - 1]
    BY <1>5, <2>1
  <2>3. k - 1 \in 1..Len(goals) - 1 /\ k - 1 + 1 = k
    BY <1>2
  <2> QED
    BY <1>3, <2>2, <2>3
<1>7. ASSUME NEW k \in 2..Len(goals) PROVE Behind(u, Len(gs) + k - 1) = Behind(goals, k)
  <2>1. PICK m : m = Len(gs) + k - 1
    OBVIOUS
  <2>2. m \in 1..Len(u) /\ k \in 1..Len(goals) /\ Len(u) - m = Len(goals) - k /\ k \in Nat /\ m \in Nat
    BY <1>2, <1>5, <2>1
  <2>3. PICK v : v = Behind(u, m)
    OBVIOUS
  <2>4. PICK w : w = Behind(goals, k)
    OBVIOUS
  <2>5. v \in Seq(S) /\ Len(v) = Len(goals) - k /\ \A i \in 1..Len(goals) - k : v[i] = u[m + i]
    <3>1. u \in Seq(S) /\ m \in 1..Len(u)
      BY <1>5, <2>2
    <3>2. /\ Behind(u, m) \in Seq(S) /\ Len(Behind(u, m)) = Len(u) - m
          /\ \A i \in 1..Len(u) - m : Behind(u, m)[i] = u[m + i]
      BY <3>1, BehindMeans
    <3> QED
      BY <2>2, <2>3, <3>2
  <2>6. w \in Seq(S) /\ Len(w) = Len(goals) - k /\ \A i \in 1..Len(goals) - k : w[i] = goals[k + i]
    BY <2>2, <2>4, BehindMeans
  <2>7. \A i \in 1..Len(goals) - k : u[m + i] = goals[k + i]
    <3> TAKE i \in 1..Len(goals) - k
    <3>1. k + i \in 2..Len(goals) /\ m + i = Len(gs) + (k + i) - 1
      BY <1>2, <2>1, <2>2
    <3> QED
      BY <1>6, <3>1
  <2>8. v = w
    BY <2>5, <2>6, <2>7, SeqEqual
  <2> QED
    BY <2>1, <2>3, <2>4, <2>8
<1> QED
  BY <1>1, <1>4, <1>5, <1>6, <1>7

-----------------------------------------------------------------------------
(* What holds of a parser after every step. *)

Bracket(p) == Peek(p)[1] \in {"(", "["} \/ Peek(p) = <<"sym", "map">>

(* Where a failing type takes parseDef back to, the rest of the goals fit. *)
Returns(p, g, rest) ==
  /\ g[2] \in 1..Len(p.toks) + 1 /\ g[3] <= Len(p.tree)
  /\ Fits(p.toks, g[2] - 1, rest, p.open)

WillBack(p) ==
  \A k \in 1..Len(p.goals) : p.goals[k][1] = "tried" =>
    /\ Returns(p, p.goals[k], Behind(p.goals, k))
    /\ \A j \in k + 1..Len(p.goals) : p.goals[j][1] = "tried" => p.goals[j][3] <= p.goals[k][3]
    /\ TriesType(p.toks) \/ k = 1 \/ (k = 2 /\ p.goals[1][1] = "type" /\ ~Bracket(p))

DefSeen(p) ==
  \A k \in 1..Len(p.goals) : p.goals[k][1] = "def-type" =>
    \/ k = 1 /\ p.pos > 2 /\ p.toks[p.pos - 2] = <<"sym", "def">>
    \/ k = 2 /\ p.goals[1][1] = "sym" /\ p.pos > 1 /\ p.toks[p.pos - 1] = <<"sym", "def">>

EndsWhole(p) == p.end = <<"ok">> => p.goals = <<>> /\ p.pos = Len(p.toks) + 1

Good(p) ==
  /\ p \in Parsers /\ p.pos <= Len(p.toks) + 1
  /\ Fits(p.toks, p.pos - 1, p.goals, p.open)
  /\ WillBack(p) /\ DefSeen(p) /\ EndsWhole(p)

LEMMA ParserTyped ==
  ASSUME NEW p \in Parsers
  PROVE  /\ p.toks \in Seq(AllTokens) /\ Len(p.toks) \in Nat
         /\ p.pos \in Nat /\ p.pos >= 1 /\ p.pos - 1 \in Nat
         /\ p.goals \in Seq(Goals) /\ Len(p.goals) \in Nat /\ DOMAIN p.goals = 1..Len(p.goals)
         /\ p.open \in Seq(Nat) /\ p.pending \in Seq(Nat) /\ p.docs \in SUBSET Nat /\ p.orphans \in SUBSET Nat
         /\ p.tree \in Seq(GoalTags \X AllTokens) /\ Len(p.tree) \in Nat
         /\ p.end \in {<<"no">>, <<"ok">>, <<"syntax">>} \cup ({"unclosed"} \X Nat)
<1>1. /\ p.toks \in Seq(AllTokens) /\ p.pos \in Nat \ {0} /\ p.goals \in Seq(Goals) /\ p.open \in Seq(Nat)
      /\ p.pending \in Seq(Nat) /\ p.docs \in SUBSET Nat /\ p.orphans \in SUBSET Nat
      /\ p.tree \in Seq(GoalTags \X AllTokens)
      /\ p.end \in {<<"no">>, <<"ok">>, <<"syntax">>} \cup ({"unclosed"} \X Nat)
  BY DEF Parsers
<1>2. Len(p.toks) \in Nat /\ Len(p.goals) \in Nat /\ DOMAIN p.goals = 1..Len(p.goals) /\ Len(p.tree) \in Nat
  BY <1>1
<1>3. p.pos \in Nat /\ p.pos >= 1 /\ p.pos - 1 \in Nat
  BY <1>1
<1> QED
  BY <1>1, <1>2, <1>3

(* A token is there, or the file has ended. *)
LEMMA PeekMeans ==
  ASSUME NEW p \in Parsers, p.pos <= Len(p.toks) + 1
  PROVE  \/ /\ p.pos \in 1..Len(p.toks) /\ Peek(p) = p.toks[p.pos] /\ Peek(p) \in AllTokens
            /\ Peek(p)[1] \in Classes /\ Peek(p) # EOF
         \/ p.pos = Len(p.toks) + 1 /\ Peek(p) = EOF /\ Peek(p)[1] \notin Classes
<1>1. p.toks \in Seq(AllTokens) /\ Len(p.toks) \in Nat /\ p.pos \in Nat /\ p.pos >= 1
  BY ParserTyped
<1>2. CASE p.pos <= Len(p.toks)
  <2>1. p.pos \in 1..Len(p.toks) /\ Peek(p) = p.toks[p.pos]
    BY <1>1, <1>2 DEF Peek, PeekAt
  <2> QED
    BY <1>1, <2>1, TokenMeans
<1>3. CASE p.pos = Len(p.toks) + 1
  <2>1. Peek(p) = EOF
    BY <1>1, <1>3 DEF Peek, PeekAt
  <2>2. EOF[1] = "eof" /\ "eof" \notin Classes
    BY DEF EOF, Classes, Openers, Closers, Comments, Literals
  <2> QED
    BY <1>3, <2>1, <2>2
<1> QED
  BY <1>1, <1>2, <1>3

(* What a goal carries. *)
LEMMA GoalShape ==
  ASSUME NEW g \in Goals
  PROVE  /\ g[1] = "want" => g[2] \in Openers \cup Closers
         /\ g[1] = "until" => g \in Untils /\ g[2] \in Closers /\ g[3] \in Nested /\ g[4] \in BOOLEAN
         /\ g[1] = "some" => g[2] \in Closers /\ g[3] \in Untils
         /\ g[1] = "opt" => g[2] \in Nested
         /\ g[1] \in {"spec", "specs", "cases"} => g[2] \in BOOLEAN
         /\ g[1] = "tried" => g[2] \in Nat /\ g[3] \in Nat
         /\ g[1] = "try" => g[2] \in BOOLEAN /\ g[3] \in BOOLEAN /\ g[4] \in BOOLEAN
<1>1. CASE g \in {<<t>> : t \in Tags}
  <2>1. g[1] \in Tags
    BY <1>1
  <2>2. {"want", "until", "some", "opt", "spec", "specs", "cases", "tried", "try"} \cap Tags = {}
    BY DEF Tags, Single, Types, Names, Parts
  <2> QED
    BY <2>1, <2>2
<1>2. CASE g \in {"want"} \X (Openers \cup Closers)
  BY <1>2
<1>3. CASE g \in Untils
  <2>1. g \in {"until"} \X Closers \X Nested \X BOOLEAN
    BY <1>3 DEF Untils
  <2>2. g[1] = "until" /\ g[2] \in Closers /\ g[3] \in Nested /\ g[4] \in BOOLEAN
    BY <2>1
  <2> QED
    BY <1>3, <2>2
<1>4. CASE g \in {"opt"} \X Nested
  BY <1>4
<1>5. CASE g \in {"some"} \X Closers \X Untils
  BY <1>5
<1>6. CASE g \in {"spec", "specs", "cases"} \X BOOLEAN
  BY <1>6
<1>7. CASE g \in {"tried"} \X Nat \X Nat
  BY <1>7
<1>8. CASE g \in {"try"} \X BOOLEAN \X BOOLEAN \X BOOLEAN
  BY <1>8
<1> QED
  BY <1>1, <1>2, <1>3, <1>4, <1>5, <1>6, <1>7, <1>8 DEF Goals

(* The goals of p behind the first, when they are behind gs in q. *)
LEMMA Onward ==
  ASSUME NEW p, Good(p), p.end = <<"no">>, p.goals # <<>>, NEW gs \in Seq(Goals),
         NEW q \in Parsers, q.toks = p.toks, q.goals = gs \o Tail(p.goals), q.pos <= Len(p.toks) + 1,
         Len(q.tree) >= Len(p.tree), q.end = p.end,
         Fits(q.toks, q.pos - 1, q.goals, q.open),
         TriesType(p.toks) \/ p.goals[1][1] # "type" \/ Bracket(p) \/ (gs = <<>> /\ q.open = p.open),
         p.goals[1][1] = "sym" => gs = <<>> /\ q.pos = p.pos + 1,
         \A k \in 1..Len(gs) :
           /\ gs[k][1] # "tried"
           /\ gs[k][1] = "def-type" =>
                k = 2 /\ gs[1][1] = "sym" /\ q.pos > 1 /\ q.toks[q.pos - 1] = <<"sym", "def">>
  PROVE  Good(q)
<1> DEFINE n == Len(gs)
<1>1. /\ p \in Parsers /\ p.goals \in Seq(Goals) /\ Len(p.goals) \in Nat /\ Len(p.goals) > 0 /\ n \in Nat
      /\ p.pos \in Nat /\ Len(p.tree) \in Nat /\ Len(q.tree) \in Nat
  BY ParserTyped, EmptySeq DEF Good
<1>2. /\ Len(q.goals) = n + Len(p.goals) - 1
      /\ \A k \in 1..n : q.goals[k] = gs[k]
      /\ \A k \in 2..Len(p.goals) :
           q.goals[n + k - 1] = p.goals[k] /\ Behind(q.goals, n + k - 1) = Behind(p.goals, k)
  BY <1>1, Replacing
<1>n. n \in Nat /\ Len(p.goals) \in Nat
  BY <1>1
<1>s. n = 0 <=> gs = <<>>
  BY EmptySeq
<1> HIDE DEF n
<1>3. \A m \in n + 1..Len(q.goals) : \E k \in 2..Len(p.goals) : m = n + k - 1
  <2> TAKE m \in n + 1..Len(q.goals)
  <2>1. m - n + 1 \in 2..Len(p.goals) /\ m = n + (m - n + 1) - 1
    BY <1>1, <1>2
  <2> QED
    BY <2>1
<1>4. WillBack(p) /\ DefSeen(p)
  BY DEF Good
<1>5. WillBack(q)
  <2> SUFFICES ASSUME NEW m \in 1..Len(q.goals), q.goals[m][1] = "tried"
               PROVE  /\ Returns(q, q.goals[m], Behind(q.goals, m))
                      /\ \A j \in m + 1..Len(q.goals) :
                           q.goals[j][1] = "tried" => q.goals[j][3] <= q.goals[m][3]
                      /\ \/ TriesType(q.toks) \/ m = 1
                         \/ (m = 2 /\ q.goals[1][1] = "type" /\ ~Bracket(q))
    BY DEF WillBack
  <2>1. m \in n + 1..Len(q.goals)
    BY <1>1, <1>2 DEF n
  <2>2. PICK k \in 2..Len(p.goals) : m = n + k - 1
    BY <1>3, <2>1
  <2>3. q.goals[m] = p.goals[k] /\ Behind(q.goals, m) = Behind(p.goals, k)
    BY <1>2, <2>2
  <2>4. k \in 1..Len(p.goals) /\ p.goals[k][1] = "tried" /\ k # 1 /\ k \in Nat
    <3>1. p.goals[k][1] = "tried"
      BY <2>3
    <3>2. k \in 1..Len(p.goals) /\ k # 1 /\ k \in Nat
      BY <1>n
    <3> QED
      BY <3>1, <3>2
  <2>5. /\ Returns(p, p.goals[k], Behind(p.goals, k))
        /\ \A j \in k + 1..Len(p.goals) : p.goals[j][1] = "tried" => p.goals[j][3] <= p.goals[k][3]
        /\ TriesType(p.toks) \/ (k = 2 /\ p.goals[1][1] = "type" /\ ~Bracket(p))
    BY <1>4, <2>4 DEF WillBack
  <2>6. TriesType(p.toks) \/ (gs = <<>> /\ q.open = p.open /\ k = 2)
    BY <2>5
  <2>7. Returns(q, q.goals[m], Behind(q.goals, m))
    <3>1. /\ p.goals[k][2] \in 1..Len(p.toks) + 1 /\ p.goals[k][3] <= Len(p.tree)
          /\ Fits(p.toks, p.goals[k][2] - 1, Behind(p.goals, k), p.open)
      BY <2>5 DEF Returns
    <3>2. Fits(p.toks, p.goals[k][2] - 1, Behind(p.goals, k), q.open)
      BY <2>6, <3>1 DEF Fits
    <3>3. p.goals[k][3] \in Nat
      <4>1. p.goals[k] \in Goals
        BY <1>1, <2>4
      <4> QED
        BY <2>4, <4>1, GoalShape
    <3>4. p.goals[k][3] <= Len(q.tree)
      <4>1. Len(p.tree) \in Nat /\ Len(q.tree) \in Nat /\ Len(p.tree) <= Len(q.tree)
        BY <1>1
      <4>2. PICK x \in Nat : x = p.goals[k][3]
        BY <3>3
      <4>3. x <= Len(p.tree)
        BY <3>1, <4>2
      <4>4. x <= Len(q.tree)
        BY <4>1, <4>3
      <4> QED
        BY <4>2, <4>4
    <3> QED
      BY <2>3, <3>1, <3>2, <3>4 DEF Returns
  <2>8. ASSUME NEW j \in m + 1..Len(q.goals), q.goals[j][1] = "tried" PROVE q.goals[j][3] <= q.goals[m][3]
    <3>1. j \in n + 1..Len(q.goals)
      BY <1>1, <2>1
    <3>2. PICK i \in 2..Len(p.goals) : j = n + i - 1
      BY <1>3, <3>1
    <3>3. q.goals[j] = p.goals[i] /\ i \in k + 1..Len(p.goals)
      BY <1>1, <1>2, <2>2, <2>4, <2>8, <3>2
    <3> QED
      BY <2>3, <2>5, <2>8, <3>3
  <2>9. TriesType(q.toks) \/ m = 1
    <3>1. CASE gs = <<>> /\ k = 2
      <4>1. n = 0
        BY <3>1 DEF n
      <4> QED
        BY <2>2, <3>1, <4>1
    <3> QED
      BY <2>6, <3>1
  <2> QED
    BY <2>7, <2>8, <2>9
<1>6. DefSeen(q)
  <2> SUFFICES ASSUME NEW m \in 1..Len(q.goals), q.goals[m][1] = "def-type"
               PROVE  \/ m = 1 /\ q.pos > 2 /\ q.toks[q.pos - 2] = <<"sym", "def">>
                      \/ /\ m = 2 /\ q.goals[1][1] = "sym" /\ q.pos > 1
                         /\ q.toks[q.pos - 1] = <<"sym", "def">>
    BY DEF DefSeen
  <2>1. CASE m \in 1..n
    <3>1. gs[m][1] = "def-type"
      BY <1>2, <2>1
    <3>2. m = 2 /\ gs[1][1] = "sym" /\ q.pos > 1 /\ q.toks[q.pos - 1] = <<"sym", "def">>
      BY <2>1, <3>1 DEF n
    <3>3. 1 \in 1..n
      BY <1>n, <2>1
    <3> QED
      BY <1>2, <3>2, <3>3
  <2>3. n + 1 \in Nat /\ Len(q.goals) \in Nat
    BY <1>1, <1>2
  <2>2. CASE m \in n + 1..Len(q.goals)
    <3>1. PICK k \in 2..Len(p.goals) : m = n + k - 1
      BY <1>3, <2>2
    <3>2. k \in 1..Len(p.goals) /\ k # 1 /\ p.goals[k][1] = "def-type"
      <4>1. q.goals[m] = p.goals[k]
        BY <1>2, <3>1
      <4>2. k \in 1..Len(p.goals) /\ k # 1
        BY <1>n
      <4> QED
        BY <4>1, <4>2
    <3>3. k = 2 /\ p.goals[1][1] = "sym" /\ p.pos > 1 /\ p.toks[p.pos - 1] = <<"sym", "def">>
      BY <1>4, <3>2 DEF DefSeen
    <3>4. n = 0 /\ q.pos = p.pos + 1
      BY <1>s, <3>3
    <3>5. m = 1 /\ q.pos > 2 /\ q.pos - 2 = p.pos - 1
      <4>1. p.pos \in Nat /\ p.pos > 1
        BY <1>1, <3>3
      <4> QED
        BY <3>1, <3>3, <3>4, <4>1
    <3> QED
      BY <3>3, <3>5
  <2> QED
    BY <1>n, <2>1, <2>2, <2>3
<1> QED
  BY <1>5, <1>6 DEF Good, EndsWhole

-----------------------------------------------------------------------------
(* One step: what it may put in the place of the first goal. *)

(* gs does what g does, at once or when a token of class c has been read. *)
Turns(g, gs) == \A a, b \in Kinds : Moves(g, a, b) => Leads(gs, a, b)
Reads(g, c, gs) ==
  \A a, b \in Kinds : Moves(g, a, b) => \E d \in Kinds : Shifts(c, a, d) /\ Leads(gs, d, b)

LEMMA FreshMeans ==
  ASSUME NEW gs, Fresh(gs)
  PROVE  gs \in Seq(Goals) /\ \A k \in 1..Len(gs) : gs[k][1] # "tried" /\ gs[k][1] # "def-type"
BY DEF Fresh, Usual

LEMMA TagOfGoal ==
  ASSUME NEW g \in Goals
  PROVE  g[1] \in GoalTags
<1>1. CASE g \in {<<t>> : t \in Tags}
  <2>1. g[1] \in Tags
    BY <1>1
  <2> QED
    BY <2>1 DEF GoalTags
<1>2. CASE g \in Untils
  BY <1>2 DEF Untils, GoalTags
<1>3. CASE g \in {"some"} \X Closers \X Untils
  BY <1>3 DEF GoalTags
<1>4. CASE \/ g \in {"want"} \X (Openers \cup Closers) \/ g \in {"opt"} \X Nested
           \/ g \in {"spec", "specs", "cases"} \X BOOLEAN
           \/ g \in {"tried"} \X Nat \X Nat \/ g \in {"try"} \X BOOLEAN \X BOOLEAN \X BOOLEAN
  BY <1>4 DEF GoalTags
<1> QED
  BY <1>1, <1>2, <1>3, <1>4 DEF Goals

LEMMA FrontTyped ==
  ASSUME NEW s \in Seq(Nat), s # <<>>
  PROVE  Front(s) \in Seq(Nat)
<1>1. Len(s) - 1 \in Nat
  BY EmptySeq
<1>2. \A k \in 1..Len(s) - 1 : s[k] \in Nat
  OBVIOUS
<1> QED
  BY <1>1, <1>2 DEF Front

MovedTo(p, n, open, tree) == [p EXCEPT !.pos = n, !.open = open, !.tree = tree]

LEMMA Moved ==
  ASSUME NEW p \in Parsers, NEW n \in Nat, n > 0, NEW open \in Seq(Nat),
         NEW tree \in Seq(GoalTags \X AllTokens), NEW q, q = MovedTo(p, n, open, tree)
  PROVE  /\ q \in Parsers /\ q.toks = p.toks /\ q.pos = n /\ q.goals = p.goals /\ q.open = open
         /\ q.tree = tree /\ q.end = p.end
<1> DEFINE S == Seq(AllTokens)
           G == Seq(Goals)
           T == Seq(GoalTags \X AllTokens)
           F == {<<"no">>, <<"ok">>, <<"syntax">>} \cup ({"unclosed"} \X Nat)
<1>1. Parsers = [toks : S, pos : Nat \ {0}, goals : G, open : Seq(Nat), pending : Seq(Nat),
                 docs : SUBSET Nat, orphans : SUBSET Nat, tree : T, end : F]
  BY DEF Parsers
<1>2. n \in Nat \ {0} /\ tree \in T
  OBVIOUS
<1> HIDE DEF S, G, T, F
<1> QED
  BY <1>1, <1>2 DEF MovedTo

LEMMA ThenMeans ==
  ASSUME NEW p \in Parsers, NEW gs \in Seq(Goals), NEW q, q = Then(p, gs), p.goals # <<>>
  PROVE  /\ q \in Parsers /\ q.toks = p.toks /\ q.pos = p.pos /\ q.goals = gs \o Tail(p.goals)
         /\ q.open = p.open /\ q.pending = p.pending /\ q.docs = p.docs /\ q.orphans = p.orphans
         /\ q.tree = p.tree /\ q.end = p.end
<1>1. gs \o Tail(p.goals) \in Seq(Goals)
  <2>1. p.goals \in Seq(Goals)
    BY ParserTyped
  <2> QED
    BY <2>1, Replacing
<1>2. /\ q.toks = p.toks /\ q.pos = p.pos /\ q.goals = gs \o Tail(p.goals)
      /\ q.open = p.open /\ q.pending = p.pending /\ q.docs = p.docs /\ q.orphans = p.orphans
      /\ q.tree = p.tree /\ q.end = p.end
  BY DEF Then, Parsers
<1>3. q \in Parsers
  BY <1>1 DEF Then, Parsers
<1> QED
  BY <1>2, <1>3

LEMMA TreeGrows ==
  ASSUME NEW S, NEW tree \in Seq(S), NEW x \in S
  PROVE  Append(tree, x) \in Seq(S) /\ Len(Append(tree, x)) = Len(tree) + 1
OBVIOUS

LEMMA AdvanceMeans ==
  ASSUME NEW p \in Parsers, p.pos \in 1..Len(p.toks), p.goals # <<>>, NEW r, r = Advance(p)
  PROVE  /\ r \in Parsers /\ r.toks = p.toks /\ r.pos = p.pos + 1 /\ r.goals = p.goals
         /\ r.open = Opened(p.toks, p.pos, p.open) /\ Len(r.tree) = Len(p.tree) + 1 /\ r.end = p.end
<1>1. /\ p.pos \in Nat /\ p.open \in Seq(Nat) /\ p.goals \in Seq(Goals)
      /\ p.tree \in Seq(GoalTags \X AllTokens) /\ Len(p.toks) \in Nat
  BY ParserTyped
<1>2. Peek(p) = p.toks[p.pos] /\ Peek(p) \in AllTokens
  <2>1. p.pos <= Len(p.toks) + 1 /\ p.pos # Len(p.toks) + 1
    BY <1>1
  <2> QED
    BY <2>1, PeekMeans
<1>3. PICK x \in GoalTags \X AllTokens : x = <<Head(p.goals)[1], Peek(p)>>
  <2>1. Head(p.goals) \in Goals
    BY <1>1
  <2>2. Head(p.goals)[1] \in GoalTags
    BY <2>1, TagOfGoal
  <2> QED
    BY <1>2, <2>2
<1>4. PICK tree \in Seq(GoalTags \X AllTokens) : tree = Append(p.tree, x) /\ Len(tree) = Len(p.tree) + 1
  <2>1. p.tree \in Seq(GoalTags \X AllTokens)
    BY <1>1
  <2> QED
    BY <2>1, TreeGrows
<1>5. PICK open : open = Opened(p.toks, p.pos, p.open)
  OBVIOUS
<1>6. open \in Seq(Nat)
  <2>1. PICK s \in Seq(Nat) : s = p.open
    BY <1>1
  <2>2. Append(s, p.pos) \in Seq(Nat)
    BY <1>1
  <2>3. s # <<>> => Front(s) \in Seq(Nat)
    BY FrontTyped
  <2> QED
    BY <1>5, <2>1, <2>2, <2>3 DEF Opened
<1>8. PICK n \in Nat : n = p.pos + 1 /\ n > 0
  BY <1>1
<1>9. r = MovedTo(p, n, open, tree)
  BY <1>2, <1>3, <1>4, <1>5, <1>8 DEF Advance, Opened, Sees, MovedTo
<1>10. /\ r \in Parsers /\ r.toks = p.toks /\ r.pos = n /\ r.goals = p.goals /\ r.open = open
       /\ r.tree = tree /\ r.end = p.end
  BY <1>6, <1>8, <1>9, Moved
<1> QED
  BY <1>4, <1>5, <1>8, <1>10

LEMMA ReadMeans ==
  ASSUME NEW p \in Parsers, p.pos \in 1..Len(p.toks), NEW gs \in Seq(Goals), NEW q, q = Read(p, gs),
         p.goals # <<>>
  PROVE  /\ q \in Parsers /\ q.toks = p.toks /\ q.pos = p.pos + 1 /\ q.goals = gs \o Tail(p.goals)
         /\ q.open = Opened(p.toks, p.pos, p.open) /\ Len(q.tree) = Len(p.tree) + 1 /\ q.end = p.end
<1>1. PICK r : r = Advance(p)
  OBVIOUS
<1>2. /\ r \in Parsers /\ r.toks = p.toks /\ r.pos = p.pos + 1 /\ r.goals = p.goals
      /\ r.open = Opened(p.toks, p.pos, p.open) /\ Len(r.tree) = Len(p.tree) + 1 /\ r.end = p.end
  BY <1>1, AdvanceMeans
<1>3. q = Then(r, gs)
  BY <1>1 DEF Read
<1>4. /\ q \in Parsers /\ q.toks = r.toks /\ q.pos = r.pos /\ q.goals = gs \o Tail(r.goals)
      /\ q.open = r.open /\ q.tree = r.tree /\ q.end = r.end
  BY <1>2, <1>3, ThenMeans
<1> QED
  BY <1>2, <1>4

LEMMA HeadTyped ==
  ASSUME NEW p \in Parsers, p.goals # <<>>
  PROVE  Head(p.goals) \in Goals /\ p.goals[1] = Head(p.goals) /\ Len(p.goals) > 0
<1>1. p.goals \in Seq(Goals)
  BY ParserTyped
<1> QED
  BY <1>1

LEMMA ThenGood ==
  ASSUME NEW p, Good(p), p.end = <<"no">>, p.goals # <<>>, NEW gs, Fresh(gs),
         Turns(Head(p.goals), gs), Head(p.goals)[1] \notin {"sym", "type"}
  PROVE  Good(Then(p, gs))
<1>1. p \in Parsers /\ p.pos <= Len(p.toks) + 1 /\ Fits(p.toks, p.pos - 1, p.goals, p.open)
  BY DEF Good
<1>2. /\ p.toks \in Seq(AllTokens) /\ p.goals \in Seq(Goals) /\ p.pos - 1 \in 0..Len(p.toks)
      /\ p.goals[1] = Head(p.goals) /\ gs \in Seq(Goals)
  BY <1>1, ParserTyped, HeadTyped, FreshMeans
<1>3. PICK q : q = Then(p, gs)
  OBVIOUS
<1>4. /\ q \in Parsers /\ q.toks = p.toks /\ q.pos = p.pos /\ q.goals = gs \o Tail(p.goals)
      /\ q.open = p.open /\ q.tree = p.tree /\ q.end = p.end
  <2>1. p \in Parsers /\ gs \in Seq(Goals)
    BY <1>1, <1>2
  <2> QED
    BY <1>3, <2>1, ThenMeans
<1>5. Fits(p.toks, p.pos - 1, gs \o Tail(p.goals), p.open)
  BY <1>1, <1>2, FitsThen DEF Turns
<1>6. Fits(q.toks, q.pos - 1, q.goals, q.open)
  BY <1>4, <1>5
<1>7. q.pos <= Len(p.toks) + 1
  BY <1>1, <1>4
<1>8. Len(q.tree) >= Len(p.tree)
  <2>1. Len(p.tree) \in Nat
    BY <1>1, ParserTyped
  <2> QED
    BY <1>4, <2>1
<1>9. p.goals[1][1] # "type" /\ p.goals[1][1] # "sym"
  BY <1>2
<1>10. \A k \in 1..Len(gs) : gs[k][1] # "tried" /\ gs[k][1] # "def-type"
  BY FreshMeans
<1>11. Good(q)
  BY <1>2, <1>4, <1>6, <1>7, <1>8, <1>9, <1>10, Onward
<1> QED
  BY <1>3, <1>11

LEMMA ReadGood ==
  ASSUME NEW p, Good(p), p.end = <<"no">>, p.goals # <<>>, Peek(p) # EOF, NEW gs,
         \/ Fresh(gs)
         \/ gs = ParseDef /\ ParseDef \in Seq(Goals) /\ Peek(p) = <<"sym", "def">>,
         Reads(Head(p.goals), Peek(p)[1], gs),
         Head(p.goals)[1] = "sym" => gs = <<>>,
         Head(p.goals)[1] = "type" => Bracket(p) \/ (gs = <<>> /\ Peek(p)[1] \notin Openers \cup Closers)
  PROVE  Good(Read(p, gs))
<1>1. p \in Parsers /\ p.pos <= Len(p.toks) + 1 /\ Fits(p.toks, p.pos - 1, p.goals, p.open)
  BY DEF Good
<1>2. p.pos \in 1..Len(p.toks) /\ Peek(p) = p.toks[p.pos]
  BY <1>1, PeekMeans
<1>3. /\ p.toks \in Seq(AllTokens) /\ p.goals \in Seq(Goals) /\ p.goals[1] = Head(p.goals)
      /\ p.pos \in Nat /\ Len(p.toks) \in Nat /\ Len(p.tree) \in Nat
  BY <1>1, ParserTyped, HeadTyped
<1>4. gs \in Seq(Goals)
  BY FreshMeans
<1>5. PICK n \in 0..Len(p.toks) : n = p.pos - 1 /\ n + 1 = p.pos /\ n + 1 <= Len(p.toks)
  BY <1>2, <1>3
<1>6. PICK q : q = Read(p, gs)
  OBVIOUS
<1>7. /\ q \in Parsers /\ q.toks = p.toks /\ q.pos = p.pos + 1 /\ q.goals = gs \o Tail(p.goals)
      /\ q.open = Opened(p.toks, p.pos, p.open) /\ Len(q.tree) = Len(p.tree) + 1 /\ q.end = p.end
  BY <1>1, <1>2, <1>4, <1>6, ReadMeans
<1>8. Fits(p.toks, n + 1, gs \o Tail(p.goals), Opened(p.toks, n + 1, p.open))
  <2>1. Fits(p.toks, n, p.goals, p.open)
    BY <1>1, <1>5
  <2>2. \A a, b \in Kinds : Moves(Head(p.goals), a, b) =>
            \E d \in Kinds : Shifts(p.toks[n + 1][1], a, d) /\ Leads(gs, d, b)
    BY <1>2, <1>5 DEF Reads
  <2> QED
    BY <1>3, <1>4, <1>5, <2>1, <2>2, FitsRead
<1>9. Fits(q.toks, q.pos - 1, q.goals, q.open)
  <2>1. q.pos - 1 = n + 1
    BY <1>3, <1>5, <1>7
  <2> QED
    BY <1>5, <1>7, <1>8, <2>1
<1>10. q.pos <= Len(p.toks) + 1 /\ Len(q.tree) >= Len(p.tree)
  BY <1>2, <1>3, <1>7
<1>11. TriesType(p.toks) \/ p.goals[1][1] # "type" \/ Bracket(p) \/ (gs = <<>> /\ q.open = p.open)
  BY <1>2, <1>3, <1>7 DEF Opened
<1>12. p.goals[1][1] = "sym" => gs = <<>> /\ q.pos = p.pos + 1
  BY <1>3, <1>7
<1>13. \A k \in 1..Len(gs) :
         /\ gs[k][1] # "tried"
         /\ gs[k][1] = "def-type" =>
              k = 2 /\ gs[1][1] = "sym" /\ q.pos > 1 /\ q.toks[q.pos - 1] = <<"sym", "def">>
  <2>1. CASE Fresh(gs)
    BY <2>1, FreshMeans
  <2>2. CASE gs = ParseDef /\ Peek(p) = <<"sym", "def">>
    <3>1. q.pos > 1 /\ q.toks[q.pos - 1] = <<"sym", "def">>
      <4>1. q.pos - 1 = p.pos /\ q.pos > 1
        BY <1>3, <1>2, <1>7
      <4> QED
        BY <1>2, <1>7, <2>2, <4>1
    <3>2. /\ Len(gs) = 4 /\ gs[1][1] = "sym" /\ gs[2][1] = "def-type" /\ gs[3][1] = "expr"
          /\ gs[4][1] = "want"
      BY <2>2 DEF ParseDef, Sym, E, Close, Want
    <3> QED
      BY <3>1, <3>2
  <2> QED
    BY <2>1, <2>2
<1>14. Good(q)
  BY <1>4, <1>7, <1>9, <1>10, <1>11, <1>12, <1>13, Onward
<1> QED
  BY <1>6, <1>14

(* The same goals, after a comment or none. *)
LEMMA Alike ==
  ASSUME NEW p, Good(p), NEW q \in Parsers, q.toks = p.toks, q.goals = p.goals, q.open = p.open,
         q.tree = p.tree, q.pos <= Len(p.toks) + 1, Fits(p.toks, q.pos - 1, p.goals, p.open),
         \/ q.pos = p.pos
         \/ p.goals = <<>>
         \/ p.goals[1][1] \notin {"sym", "type", "def-type", "tried"},
         EndsWhole(q)
  PROVE  Good(q)
<1>1. WillBack(p) /\ DefSeen(p) /\ p \in Parsers
  BY DEF Good
<1>2. Len(p.goals) \in Nat
  BY <1>1, ParserTyped
<1>3. p.goals = <<>> => Len(p.goals) = 0
  OBVIOUS
<1>4. ASSUME q.pos # p.pos, NEW k \in 1..Len(p.goals), p.goals[k][1] = "tried"
      PROVE  TriesType(p.toks)
  BY <1>1, <1>2, <1>3, <1>4 DEF WillBack
<1>5. ASSUME q.pos # p.pos, NEW k \in 1..Len(p.goals), p.goals[k][1] = "def-type"
      PROVE  FALSE
  BY <1>1, <1>2, <1>3, <1>5 DEF DefSeen
<1>6. WillBack(q)
  <2> SUFFICES ASSUME NEW k \in 1..Len(p.goals), p.goals[k][1] = "tried"
               PROVE  /\ Returns(q, p.goals[k], Behind(p.goals, k))
                      /\ \A j \in k + 1..Len(p.goals) :
                           p.goals[j][1] = "tried" => p.goals[j][3] <= p.goals[k][3]
                      /\ \/ TriesType(p.toks) \/ k = 1
                         \/ (k = 2 /\ p.goals[1][1] = "type" /\ ~Bracket(q))
    BY DEF WillBack
  <2>1. /\ Returns(p, p.goals[k], Behind(p.goals, k))
        /\ \A j \in k + 1..Len(p.goals) : p.goals[j][1] = "tried" => p.goals[j][3] <= p.goals[k][3]
        /\ TriesType(p.toks) \/ k = 1 \/ (k = 2 /\ p.goals[1][1] = "type" /\ ~Bracket(p))
    BY <1>1 DEF WillBack
  <2>2. Returns(q, p.goals[k], Behind(p.goals, k))
    BY <2>1 DEF Returns
  <2>3. q.pos = p.pos => (Bracket(q) <=> Bracket(p))
    BY DEF Bracket, Peek, PeekAt
  <2> QED
    BY <1>4, <2>1, <2>2, <2>3
<1>7. DefSeen(q)
  <2> SUFFICES ASSUME NEW k \in 1..Len(p.goals), p.goals[k][1] = "def-type"
               PROVE  \/ k = 1 /\ q.pos > 2 /\ p.toks[q.pos - 2] = <<"sym", "def">>
                      \/ /\ k = 2 /\ p.goals[1][1] = "sym" /\ q.pos > 1
                         /\ p.toks[q.pos - 1] = <<"sym", "def">>
    BY DEF DefSeen
  <2>1. q.pos = p.pos
    BY <1>5
  <2> QED
    BY <1>1, <2>1 DEF DefSeen
<1> QED
  BY <1>6, <1>7 DEF Good

LEMMA SkipMeans ==
  ASSUME NEW p \in Parsers, NEW q, q = SkipComment(p)
  PROVE  /\ q \in Parsers /\ q.toks = p.toks /\ q.pos = p.pos + 1 /\ q.goals = p.goals
         /\ q.open = p.open /\ q.pending = p.pending /\ q.docs = p.docs /\ q.orphans = p.orphans
         /\ q.tree = p.tree /\ q.end = p.end
<1>1. p.pos + 1 \in Nat \ {0}
  BY ParserTyped
<1> QED
  BY <1>1 DEF SkipComment, Parsers

LEMMA SkipFits ==
  ASSUME NEW p, Good(p), Sees(p, Comments), NEW m, m = p.pos + 1
  PROVE  m <= Len(p.toks) + 1 /\ p.pos \in 1..Len(p.toks) /\ Fits(p.toks, m - 1, p.goals, p.open)
<1>1. p \in Parsers /\ p.pos <= Len(p.toks) + 1 /\ Fits(p.toks, p.pos - 1, p.goals, p.open)
  BY DEF Good
<1>2. p.toks \in Seq(AllTokens) /\ p.pos \in Nat /\ Len(p.toks) \in Nat
  BY <1>1, ParserTyped
<1>3. Peek(p)[1] \in Comments /\ Comments \subseteq Classes
  BY DEF Sees, Classes
<1>4. p.pos \in 1..Len(p.toks) /\ Peek(p) = p.toks[p.pos]
  BY <1>1, <1>3, PeekMeans
<1>5. PICK n \in 0..Len(p.toks) : n = p.pos - 1 /\ n + 1 = p.pos /\ n + 1 <= Len(p.toks)
  BY <1>2, <1>4
<1>6. Fits(p.toks, n, p.goals, p.open) /\ p.toks[n + 1][1] \in Comments
  BY <1>1, <1>3, <1>4, <1>5
<1>7. Fits(p.toks, n + 1, p.goals, p.open)
  BY <1>2, <1>5, <1>6, FitsSkip
<1>8. n + 1 = m - 1 /\ m <= Len(p.toks) + 1
  BY <1>2, <1>5
<1> QED
  BY <1>4, <1>7, <1>8

LEMMA SkipGood ==
  ASSUME NEW p, Good(p), p.end = <<"no">>, Sees(p, Comments),
         \/ p.goals = <<>>
         \/ p.goals # <<>> /\ Head(p.goals)[1] \notin {"sym", "type", "def-type", "tried"}
  PROVE  Good(SkipComment(p))
<1>1. PICK q : q = SkipComment(p)
  OBVIOUS
<1>2. p \in Parsers
  BY DEF Good
<1>3. /\ q \in Parsers /\ q.toks = p.toks /\ q.pos = p.pos + 1 /\ q.goals = p.goals
      /\ q.open = p.open /\ q.tree = p.tree /\ q.end = p.end
  BY <1>1, <1>2, SkipMeans
<1>4. q.pos <= Len(p.toks) + 1 /\ Fits(p.toks, q.pos - 1, p.goals, p.open)
  <2>1. PICK n : n = p.pos + 1
    OBVIOUS
  <2>2. n <= Len(p.toks) + 1 /\ Fits(p.toks, n - 1, p.goals, p.open)
    BY <2>1, SkipFits
  <2>3. q.pos = n
    BY <1>3, <2>1
  <2> QED
    BY <2>2, <2>3
<1>5. p.goals = <<>> \/ p.goals[1][1] \notin {"sym", "type", "def-type", "tried"}
  BY <1>2, HeadTyped
<1>6. EndsWhole(q)
  BY <1>3 DEF EndsWhole
<1>7. Good(q)
  BY <1>3, <1>4, <1>5, <1>6, Alike
<1> QED
  BY <1>1, <1>7

LEMMA EndSet ==
  ASSUME NEW p \in Parsers, NEW q, NEW why,
         why \in {<<"no">>, <<"ok">>, <<"syntax">>} \cup ({"unclosed"} \X Nat), q = [p EXCEPT !.end = why]
  PROVE  /\ q \in Parsers /\ q.toks = p.toks /\ q.pos = p.pos /\ q.goals = p.goals
         /\ q.open = p.open /\ q.tree = p.tree /\ q.end = why
BY DEF Parsers

LEMMA StopGood ==
  ASSUME NEW p, Good(p), NEW why, why = <<"syntax">> \/ why \in {"unclosed"} \X Nat
  PROVE  Good([p EXCEPT !.end = why])
<1>1. PICK q : q = [p EXCEPT !.end = why]
  OBVIOUS
<1>2. p \in Parsers /\ p.pos <= Len(p.toks) + 1 /\ Fits(p.toks, p.pos - 1, p.goals, p.open)
  BY DEF Good
<1>3. why \in {<<"no">>, <<"ok">>, <<"syntax">>} \cup ({"unclosed"} \X Nat) /\ why # <<"ok">>
  OBVIOUS
<1>4. /\ q \in Parsers /\ q.toks = p.toks /\ q.pos = p.pos /\ q.goals = p.goals
      /\ q.open = p.open /\ q.tree = p.tree /\ q.end = why
  BY <1>1, <1>2, <1>3, EndSet
<1>5. EndsWhole(q)
  BY <1>3, <1>4 DEF EndsWhole
<1>6. Good(q)
  BY <1>2, <1>4, <1>5, Alike
<1> QED
  BY <1>1, <1>6

BackTo(p, n, tree, goals) == [p EXCEPT !.pos = n, !.tree = tree, !.goals = goals]

LEMMA BackMeans ==
  ASSUME NEW p \in Parsers, NEW n \in Nat, n > 0, NEW goals \in Seq(Goals),
         NEW tree \in Seq(GoalTags \X AllTokens), NEW q, q = BackTo(p, n, tree, goals)
  PROVE  /\ q \in Parsers /\ q.toks = p.toks /\ q.pos = n /\ q.goals = goals /\ q.open = p.open
         /\ q.tree = tree /\ q.end = p.end
<1> DEFINE S == Seq(AllTokens)
           G == Seq(Goals)
           T == Seq(GoalTags \X AllTokens)
           F == {<<"no">>, <<"ok">>, <<"syntax">>} \cup ({"unclosed"} \X Nat)
<1>1. Parsers = [toks : S, pos : Nat \ {0}, goals : G, open : Seq(Nat), pending : Seq(Nat),
                 docs : SUBSET Nat, orphans : SUBSET Nat, tree : T, end : F]
  BY DEF Parsers
<1>2. n \in Nat \ {0} /\ tree \in T /\ goals \in G
  OBVIOUS
<1> HIDE DEF S, G, T, F
<1> QED
  BY <1>1, <1>2 DEF BackTo

LEMMA TreeCut ==
  ASSUME NEW S, NEW tree \in Seq(S), NEW n \in Nat, n <= Len(tree)
  PROVE  SubSeq(tree, 1, n) \in Seq(S) /\ Len(SubSeq(tree, 1, n)) = n
<1>1. \A i \in 1..n : tree[i] \in S
  OBVIOUS
<1>2. /\ SubSeq(tree, 1, n) \in Seq(S)
      /\ Len(SubSeq(tree, 1, n)) = IF 1 <= n THEN n - 1 + 1 ELSE 0
  BY <1>1, SubSeqProperties
<1> QED
  BY <1>2

LEMMA GoBackGood ==
  ASSUME NEW p, Good(p), p.end = <<"no">>, NEW k \in 1..Len(p.goals), p.goals[k][1] = "tried"
  PROVE  Good(GoBack(p, k))
<1>1. p \in Parsers /\ WillBack(p) /\ DefSeen(p)
  BY DEF Good
<1>2. /\ p.goals \in Seq(Goals) /\ Len(p.goals) \in Nat /\ Len(p.toks) \in Nat
      /\ p.tree \in Seq(GoalTags \X AllTokens)
  BY <1>1, ParserTyped
<1>3. PICK g \in Goals : g = p.goals[k]
  BY <1>2
<1>4. g[2] \in Nat /\ g[3] \in Nat
  BY <1>3, GoalShape
<1>5. /\ g[2] \in 1..Len(p.toks) + 1 /\ g[3] <= Len(p.tree)
      /\ Fits(p.toks, g[2] - 1, Behind(p.goals, k), p.open)
      /\ \A j \in k + 1..Len(p.goals) : p.goals[j][1] = "tried" => p.goals[j][3] <= g[3]
  BY <1>1, <1>3 DEF WillBack, Returns
<1>6. PICK n \in Nat : n = g[2] /\ n > 0 /\ n <= Len(p.toks) + 1
  BY <1>2, <1>4, <1>5
<1>7. PICK m \in Nat : m = g[3] /\ m <= Len(p.tree)
  BY <1>4, <1>5
<1>8. PICK tree \in Seq(GoalTags \X AllTokens) : tree = SubSeq(p.tree, 1, m) /\ Len(tree) = m
  <2>1. PICK t \in Seq(GoalTags \X AllTokens) : t = p.tree
    BY <1>2
  <2>2. m <= Len(t)
    BY <1>7, <2>1
  <2>3. SubSeq(t, 1, m) \in Seq(GoalTags \X AllTokens) /\ Len(SubSeq(t, 1, m)) = m
    BY <2>2, TreeCut
  <2> QED
    BY <2>1, <2>3
<1>9. PICK goals \in Seq(Goals) :
        /\ goals = Behind(p.goals, k) /\ Len(goals) = Len(p.goals) - k
        /\ \A i \in 1..Len(p.goals) - k : goals[i] = p.goals[k + i]
  <2>1. PICK t \in Seq(Goals) : t = p.goals
    BY <1>2
  <2>2. k \in 1..Len(t)
    BY <2>1
  <2>3. /\ Behind(t, k) \in Seq(Goals) /\ Len(Behind(t, k)) = Len(t) - k
        /\ \A i \in 1..Len(t) - k : Behind(t, k)[i] = t[k + i]
    BY <2>2, BehindMeans
  <2> QED
    BY <2>1, <2>3
<1>10. PICK q : q = BackTo(p, n, tree, goals)
  OBVIOUS
<1>11. q = GoBack(p, k)
  BY <1>3, <1>6, <1>7, <1>8, <1>9, <1>10 DEF GoBack, BackTo, Behind
<1>12. /\ q \in Parsers /\ q.toks = p.toks /\ q.pos = n /\ q.goals = goals /\ q.open = p.open
       /\ q.tree = tree /\ q.end = p.end
  BY <1>1, <1>6, <1>10, BackMeans
<1>13. q.pos <= Len(q.toks) + 1 /\ Fits(q.toks, q.pos - 1, q.goals, q.open)
  BY <1>5, <1>6, <1>9, <1>12
<1>14. EndsWhole(q)
  BY <1>12 DEF EndsWhole
<1>15. ASSUME NEW i \in 1..Len(goals)
       PROVE  /\ k + i \in 1..Len(p.goals) /\ k + i # 1 /\ goals[i] = p.goals[k + i]
              /\ k + i \in k + 1..Len(p.goals)
              /\ Behind(goals, i) = Behind(p.goals, k + i)
  <2>1. k \in Nat /\ i \in Nat /\ k > 0 /\ i > 0 /\ Len(goals) = Len(p.goals) - k /\ Len(p.goals) \in Nat
    BY <1>2, <1>9
  <2>2. k + i \in 1..Len(p.goals) /\ k + i # 1 /\ k + i \in k + 1..Len(p.goals) /\ i \in 1..Len(p.goals) - k
    BY <2>1
  <2>3. goals[i] = p.goals[k + i]
    BY <1>9, <2>2
  <2>4. Behind(goals, i) = Behind(p.goals, k + i)
    BY <1>2, <1>9, <2>2, BehindBehind
  <2> QED
    BY <2>2, <2>3, <2>4
<1>16. ASSUME NEW i \in 1..Len(goals), k + i = 2 PROVE p.goals[1][1] = "tried"
  <2>1. k = 1
    BY <1>16
  <2> QED
    BY <2>1
<1>17. WillBack(q)
  <2> SUFFICES ASSUME NEW i \in 1..Len(goals), goals[i][1] = "tried"
               PROVE  /\ Returns(q, goals[i], Behind(goals, i))
                      /\ \A j \in i + 1..Len(goals) : goals[j][1] = "tried" => goals[j][3] <= goals[i][3]
                      /\ TriesType(p.toks)
    BY <1>12 DEF WillBack
  <2>1. PICK l \in 1..Len(p.goals) :
          /\ l = k + i /\ l # 1 /\ goals[i] = p.goals[l] /\ l \in k + 1..Len(p.goals)
          /\ Behind(goals, i) = Behind(p.goals, l)
    BY <1>15
  <2>2. /\ Returns(p, p.goals[l], Behind(p.goals, l))
        /\ \A j \in l + 1..Len(p.goals) : p.goals[j][1] = "tried" => p.goals[j][3] <= p.goals[l][3]
        /\ TriesType(p.toks) \/ l = 1 \/ (l = 2 /\ p.goals[1][1] = "type" /\ ~Bracket(p))
    BY <1>1, <2>1 DEF WillBack
  <2>3. TriesType(p.toks)
    BY <1>16, <2>1, <2>2
  <2>4. p.goals[l][3] <= m
    BY <1>5, <1>7, <2>1
  <2>5. Returns(q, goals[i], Behind(goals, i))
    BY <1>8, <1>12, <2>1, <2>2, <2>4 DEF Returns
  <2>6. ASSUME NEW j \in i + 1..Len(goals), goals[j][1] = "tried" PROVE goals[j][3] <= goals[i][3]
    <3>1. j \in 1..Len(goals) /\ k + j \in l + 1..Len(p.goals)
      BY <1>2, <1>9, <2>1
    <3>2. goals[j] = p.goals[k + j]
      BY <1>15, <3>1
    <3> QED
      BY <2>1, <2>2, <2>6, <3>1, <3>2
  <2> QED
    BY <2>3, <2>5, <2>6
<1>18. DefSeen(q)
  <2> SUFFICES ASSUME NEW i \in 1..Len(goals), goals[i][1] = "def-type" PROVE FALSE
    BY <1>12 DEF DefSeen
  <2>1. PICK l \in 1..Len(p.goals) : l = k + i /\ l # 1 /\ goals[i] = p.goals[l]
    BY <1>15
  <2>2. l = 2 /\ p.goals[1][1] = "sym"
    BY <1>1, <2>1 DEF DefSeen
  <2> QED
    BY <1>16, <2>1, <2>2
<1>19. Good(q)
  BY <1>12, <1>13, <1>14, <1>17, <1>18 DEF Good
<1> QED
  BY <1>11, <1>19

LEMMA EndGood ==
  ASSUME NEW p, Good(p), p.end = <<"no">>, NEW why, why = <<"syntax">> \/ why \in {"unclosed"} \X Nat
  PROVE  Good(EndWith(p, why))
<1>1. p \in Parsers /\ DOMAIN p.goals = 1..Len(p.goals)
  BY ParserTyped DEF Good
<1>2. CASE \E k \in DOMAIN p.goals : p.goals[k][1] = "tried"
  <2>1. PICK k \in DOMAIN p.goals : p.goals[k][1] = "tried" /\ EndWith(p, why) = GoBack(p, k)
    BY <1>2 DEF EndWith
  <2> QED
    BY <1>1, <2>1, GoBackGood
<1>3. CASE ~\E k \in DOMAIN p.goals : p.goals[k][1] = "tried"
  <2>1. EndWith(p, why) = [p EXCEPT !.end = why]
    BY <1>3 DEF EndWith
  <2>2. Good([p EXCEPT !.end = why])
    BY StopGood
  <2> QED
    BY <2>1, <2>2
<1> QED
  BY <1>2, <1>3

LEMMA FailGood ==
  ASSUME NEW p, Good(p), p.end = <<"no">>
  PROVE  Good(Fail(p)) /\ Good(Missing(p))
<1>1. p.open \in Seq(Nat)
  BY ParserTyped DEF Good
<1>2. p.open # <<>> => <<"unclosed", p.open[1]>> \in {"unclosed"} \X Nat
  BY <1>1
<1>3. Good(EndWith(p, <<"syntax">>))
  BY EndGood
<1>4. p.open # <<>> => Good(EndWith(p, <<"unclosed", p.open[1]>>))
  BY <1>2, EndGood
<1> QED
  BY <1>3, <1>4 DEF Fail, Missing

(* Shapes of steps. *)
Ready(p) == Good(p) /\ p.end = <<"no">> /\ p.goals # <<>>
Words == Literals \cup {"sym", "quote"}

LEMMA NotEOF ==
  ASSUME NEW p, Peek(p)[1] \in Openers \cup Closers \cup Words
  PROVE  Peek(p) # EOF
<1>1. EOF[1] = "eof" /\ "eof" \notin Openers \cup Closers \cup Words
  BY DEF EOF, Openers, Closers, Words, Literals
<1> QED
  BY <1>1

LEMMA WordMeans ==
  ASSUME NEW p, Peek(p)[1] \in Words
  PROVE  Peek(p)[1] \notin Openers \cup Closers /\ Peek(p) # EOF
<1>1. \A c \in Words : c \notin Openers \cup Closers
  BY DEF Words, Literals, Openers, Closers
<1> QED
  BY <1>1, NotEOF

LEMMA ThenLevel ==
  ASSUME NEW p, Ready(p), NEW gs, Level(gs), Steady(Head(p.goals)), Head(p.goals)[1] \notin {"sym", "type"}
  PROVE  Good(Then(p, gs))
<1>1. Turns(Head(p.goals), gs)
  BY DEF Turns, Level, Moves
<1> QED
  BY <1>1, ThenGood DEF Ready, Level

LEMMA ReadFresh ==
  ASSUME NEW p, Ready(p), Peek(p) # EOF, NEW gs, Fresh(gs), Reads(Head(p.goals), Peek(p)[1], gs),
         Head(p.goals)[1] = "sym" => gs = <<>>,
         Head(p.goals)[1] = "type" => Bracket(p) \/ (gs = <<>> /\ Peek(p)[1] \notin Openers \cup Closers)
  PROVE  Good(Read(p, gs))
BY ReadGood DEF Ready

LEMMA ReadLevel ==
  ASSUME NEW p, Ready(p), NEW gs, Level(gs), Steady(Head(p.goals)), Peek(p)[1] \in Words,
         Head(p.goals)[1] = "sym" => gs = <<>>,
         Head(p.goals)[1] = "type" => Bracket(p) \/ gs = <<>>
  PROVE  Good(Read(p, gs))
<1>1. Peek(p)[1] \notin Openers \cup Closers /\ Peek(p) # EOF
  BY WordMeans
<1>2. Reads(Head(p.goals), Peek(p)[1], gs)
  BY <1>1 DEF Reads, Level, Moves, Shifts
<1>3. Fresh(gs)
  BY DEF Level
<1> QED
  BY <1>1, <1>2, <1>3, ReadFresh

LEMMA ReadOpens ==
  ASSUME NEW p, Ready(p), NEW c \in Openers, Peek(p)[1] = c, Steady(Head(p.goals)), NEW gs, Fresh(gs),
         Finishes(gs, c),
         Head(p.goals)[1] # "sym", Head(p.goals)[1] = "type" => Bracket(p)
  PROVE  Good(Read(p, gs))
<1>1. Peek(p) # EOF
  BY NotEOF
<1>2. Reads(Head(p.goals), Peek(p)[1], gs)
  <2> SUFFICES ASSUME NEW a \in Kinds, NEW b \in Kinds, Moves(Head(p.goals), a, b)
               PROVE  \E d \in Kinds : Shifts(c, a, d) /\ Leads(gs, d, b)
    BY DEF Reads
  <2>1. a = b
    BY DEF Moves
  <2>2. PICK d \in Kinds : d = Append(a, c)
    BY OpenKinds
  <2>3. Shifts(c, a, d) /\ Leads(gs, d, b)
    BY <2>1, <2>2 DEF Shifts, Finishes
  <2> QED
    BY <2>3
<1> QED
  BY <1>1, <1>2, ReadFresh

LEMMA ClosedBy ==
  ASSUME NEW o \in Openers
  PROVE  (Closer(o) = ")" <=> o = "(") /\ (Closer(o) = "]" <=> o = "[")
BY DEF Closer, Openers

LEMMA ListMoves ==
  ASSUME NEW g, g[1] \in {"list", "try"}, NEW a \in Kinds, NEW b \in Kinds
  PROVE  Moves(g, a, b) <=> a = Append(b, "(")
<1>1. ~Steady(g) /\ Ends(g) = ")" /\ ")" \notin Openers /\ "(" \in Openers
  BY DEF Steady, Ends, Openers
<1> QED
  BY <1>1, ClosedBy DEF Moves

LEMMA SliceMoves ==
  ASSUME NEW g, g[1] = "slice", NEW a \in Kinds, NEW b \in Kinds
  PROVE  Moves(g, a, b) <=> a = Append(b, "[")
<1>1. ~Steady(g) /\ Ends(g) = "]" /\ "]" \notin Openers /\ "[" \in Openers
  BY DEF Steady, Ends, Openers
<1> QED
  BY <1>1, ClosedBy DEF Moves

(* Reading the closing delimiter a goal ends with, or the one it wants. *)
LEMMA ReadEnds ==
  ASSUME NEW p, Ready(p), ~Steady(Head(p.goals)), Peek(p)[1] = Ends(Head(p.goals)),
         Ends(Head(p.goals)) \in Openers \cup Closers
  PROVE  Good(Read(p, <<>>))
<1>1. PICK g : g = Head(p.goals)
  OBVIOUS
<1>2. PICK c \in Openers \cup Closers : c = Ends(g) /\ Peek(p)[1] = c
  BY <1>1
<1>3. Peek(p) # EOF
  BY <1>2, NotEOF
<1>4. Reads(g, c, <<>>)
  <2> SUFFICES ASSUME NEW a \in Kinds, NEW b \in Kinds, Moves(g, a, b)
               PROVE  \E d \in Kinds : Shifts(c, a, d) /\ Leads(<<>>, d, b)
    BY DEF Reads
  <2>1. Shifts(c, a, b)
    BY <1>1, <1>2 DEF Moves, Shifts
  <2>2. Leads(<<>>, b, b)
    BY LeadsNone
  <2> QED
    BY <2>1, <2>2
<1>5. g[1] \notin {"sym", "type"}
  BY <1>1 DEF Steady
<1>6. Fresh(<<>>)
  BY FreshNone
<1> QED
  BY <1>1, <1>2, <1>3, <1>4, <1>5, <1>6, ReadFresh

-----------------------------------------------------------------------------
LEMMA LevelNone == Level(<<>>)
BY FreshNone, LeadsNone DEF Level

LEMMA LevelAgain ==
  ASSUME NEW l \in Nested, NEW g, Plain(g)
  PROVE  Level(Append(l, g))
<1>1. Fresh(l) /\ \A a \in Kinds : Leads(l, a, a)
  BY LevelNested DEF Level
<1>2. l \in Seq(Goals) /\ g \in Goals
  BY <1>1 DEF Fresh, Plain, Usual
<1>3. ASSUME NEW a \in Kinds PROVE Leads(Append(l, g), a, a)
  BY <1>1, <1>2, PlainMoves, LeadsAppend
<1>4. Fresh(Append(l, g))
  <2>1. Fresh(<<g>>)
    BY Fresh1 DEF Plain
  <2>2. Fresh(l \o <<g>>)
    BY <1>1, <2>1, FreshJoin
  <2>3. Append(l, g) = l \o <<g>>
    BY <1>2, AppendIsConcat
  <2> QED
    BY <2>2, <2>3
<1> QED
  BY <1>3, <1>4 DEF Level

(* Delimited parts. *)
LEMMA LevelIn ==
  ASSUME NEW o \in {"(", "["}, NEW c, c = Closer(o), NEW g, Plain(g)
  PROVE  /\ Level(<<Want(o), g, Want(c)>>)
         /\ \A h : Plain(h) => Level(<<Want(o), g, h, Want(c)>>) /\ Level(<<Want(o), g, Want(c), h>>)
<1>1. Usual(Want(o)) /\ Usual(Want(c)) /\ Usual(g) /\ \A h : Plain(h) => Usual(h)
  BY NamedGoals DEF Closer, Plain, Close
<1>2. Fresh(<<Want(o), g, Want(c)>>)
  BY <1>1, Fresh3
<1>3. ASSUME NEW a \in Kinds
      PROVE  \E b \in Kinds : Moves(Want(o), a, b) /\ Moves(Want(c), b, a)
  <2>1. o \in Openers
    BY DEF Openers
  <2>2. PICK b \in Kinds : b = Append(a, o)
    BY <2>1, OpenKinds
  <2>3. Moves(Want(o), a, b) /\ Moves(Want(c), b, a)
    BY <2>2, WantMoves DEF Closer, Close
  <2> QED
    BY <2>3
<1>4. Level(<<Want(o), g, Want(c)>>)
  BY <1>2, <1>3, PlainMoves, Leads3 DEF Level
<1>5. ASSUME NEW h, Plain(h) PROVE Level(<<Want(o), g, h, Want(c)>>) /\ Level(<<Want(o), g, Want(c), h>>)
  <2>1. Fresh(<<Want(o), g, h, Want(c)>>) /\ Fresh(<<Want(o), g, Want(c), h>>)
    BY <1>1, <1>5, Fresh4
  <2>2. ASSUME NEW a \in Kinds
        PROVE  Leads(<<Want(o), g, h, Want(c)>>, a, a) /\ Leads(<<Want(o), g, Want(c), h>>, a, a)
    <3>1. PICK b \in Kinds : Moves(Want(o), a, b) /\ Moves(Want(c), b, a)
      BY <1>3
    <3>2. Moves(g, b, b) /\ Moves(h, b, b) /\ Moves(h, a, a)
      BY <1>5, PlainMoves
    <3> QED
      BY <3>1, <3>2, Leads4
  <2> QED
    BY <2>1, <2>2 DEF Level
<1> QED
  BY <1>4, <1>5

LEMMA ReadyMeans ==
  ASSUME NEW p, Ready(p)
  PROVE  /\ p \in Parsers /\ Good(p) /\ p.end = <<"no">> /\ p.goals # <<>> /\ Head(p.goals) \in Goals
         /\ Good(Fail(p)) /\ Good(Missing(p))
<1>1. p \in Parsers /\ Good(p) /\ p.end = <<"no">> /\ p.goals # <<>>
  BY DEF Ready, Good
<1> QED
  BY <1>1, HeadTyped, FailGood

LEMMA ThenNone ==
  ASSUME NEW p, Ready(p), Steady(Head(p.goals)), Head(p.goals)[1] \notin {"sym", "type"}
  PROVE  Good(Then(p, <<>>))
BY LevelNone, ThenLevel

LEMMA ReadWord ==
  ASSUME NEW p, Ready(p), Steady(Head(p.goals)), Peek(p)[1] \in Words
  PROVE  Good(Read(p, <<>>))
BY LevelNone, ReadLevel

LEMMA TokenGood ==
  ASSUME NEW p, Ready(p), NEW g, g = Head(p.goals), g[1] \in Single
  PROVE  Good(ParseToken(p, g))
<1>1. Good(Fail(p)) /\ Good(Missing(p)) /\ g \in Goals
  BY ReadyMeans
<1>2. ASSUME g[1] # "want" PROVE Steady(g) /\ g[1] # "type"
  BY <1>2 DEF Steady, Single
<1>3. g[1] # "want" /\ Peek(p)[1] \in {"sym", "kw", "str"} => Good(Read(p, <<>>))
  BY <1>2, ReadWord DEF Words, Literals
<1>4. ASSUME g[1] = "want", Peek(p)[1] = g[2] PROVE Good(Read(p, <<>>))
  <2>1. g[2] \in Openers \cup Closers /\ Ends(g) = g[2] /\ ~Steady(g)
    BY <1>1, <1>4, GoalShape DEF Ends, Steady
  <2> QED
    BY <1>4, <2>1, ReadEnds
<1>5. g[1] = "tag" => Good(Then(p, <<>>))
  BY <1>2, ThenNone
<1>6. \A names : SeesSym(p, names) => Peek(p)[1] = "sym"
  BY DEF SeesSym
<1>7. Peek(p) \in {<<"kw", "import">>, <<"kw", "require">>} => Peek(p)[1] = "kw"
  OBVIOUS
<1> QED
  BY <1>1, <1>3, <1>4, <1>5, <1>6, <1>7, SMT DEF ParseToken, Expect, Sees, Single

LEMMA RepeatGood ==
  ASSUME NEW p, Ready(p), NEW g, g = Head(p.goals), g[1] \in Repeats
  PROVE  Good(ParseRepeat(p, g))
<1>1. /\ Good(Fail(p)) /\ Good(Missing(p)) /\ Good(p)
      /\ p.end = <<"no">> /\ p.goals # <<>> /\ g \in Goals
  BY ReadyMeans
<1>2. Steady(g) /\ g[1] \notin {"sym", "type", "def-type", "tried"}
  BY DEF Steady, Repeats
<1>3. Plain(g)
  BY <1>1, <1>2 DEF Plain, Usual
<1>4. Sees(p, Comments) => Good(SkipComment(p))
  BY <1>1, <1>2, SkipGood
<1>5. \A gs : Level(gs) => Good(Then(p, gs))
  BY <1>2, ThenLevel
<1>6. Good(Then(p, <<>>))
  BY <1>2, ThenNone
<1>7. g[1] = "until" => Good(Then(p, Append(g[3], g)))
  BY <1>1, <1>3, <1>5, GoalShape, LevelAgain
<1>8. g[1] = "some" => Good(Then(p, <<g[3]>>))
  <2>1. ASSUME g[1] = "some" PROVE Plain(g[3])
    <3>1. PICK u \in Untils : u = g[3]
      BY <1>1, <2>1, GoalShape
    <3>2. u \in Goals /\ u[1] = "until"
      BY DEF Goals, Untils
    <3> QED
      BY <3>1, <3>2 DEF Plain, Usual, Steady
  <2> QED
    BY <1>5, <2>1, LevelPlain
<1>9. g[1] = "opt" => Good(Then(p, g[2]))
  BY <1>1, <1>5, GoalShape, LevelNested
<1>10. Good(Then(p, <<E, <<"case-body">> >>)) /\ Good(Then(p, <<E, <<"cases", FALSE>> >>))
  <2>1. Plain(E) /\ Plain(<<"case-body">>) /\ Plain(<<"cases", FALSE>>)
    BY NamedGoals, TagGoals
  <2> QED
    BY <1>5, <2>1, LevelPlain
<1>11. Sees(p, {"["}) => Good(Read(p, << <<"spec", FALSE>>, Want("]"), <<"specs", FALSE>> >>))
  <2> SUFFICES ASSUME Peek(p)[1] = "["
               PROVE  Good(Read(p, << <<"spec", FALSE>>, Want("]"), <<"specs", FALSE>> >>))
    BY DEF Sees
  <2>1. Plain(<<"spec", FALSE>>) /\ Plain(<<"specs", FALSE>>) /\ Usual(Want("]"))
    BY NamedGoals, TagGoals
  <2>2. PICK gs : gs = << <<"spec", FALSE>>, Want("]"), <<"specs", FALSE>> >>
    OBVIOUS
  <2>3. Fresh(gs)
    BY <2>1, <2>2, Fresh3 DEF Plain
  <2>4. ASSUME NEW a \in Kinds PROVE Leads(gs, Append(a, "["), a)
    <3>1. PICK b \in Kinds : b = Append(a, "[")
      BY OpenKinds DEF Openers
    <3>2. Moves(Want("]"), b, a)
      BY <3>1, WantMoves
    <3>3. Moves(<<"spec", FALSE>>, b, b) /\ Moves(<<"specs", FALSE>>, a, a)
      BY <2>1, PlainMoves
    <3>4. Leads(gs, b, a)
      BY <2>2, <3>2, <3>3, Leads3
    <3> QED
      BY <3>1, <3>4
  <2>5. "[" \in Openers
    BY DEF Openers
  <2>6. Finishes(gs, "[")
    BY <2>4 DEF Finishes
  <2>7. Good(Read(p, gs))
    BY <1>2, <2>3, <2>5, <2>6, ReadOpens
  <2> QED
    BY <2>2, <2>7
<1>12. Good([p EXCEPT !.end = <<"syntax">>])
  BY <1>1, StopGood
<1>13. g[1] \in {"until", "some"} => Good(ParseRepeat(p, g))
  BY <1>1, <1>4, <1>6, <1>7, <1>8, SMT DEF ParseRepeat
<1>14. g[1] \in {"opt", "specs"} => Good(ParseRepeat(p, g))
  BY <1>1, <1>6, <1>9, <1>11, SMT DEF ParseRepeat
<1>15. g[1] \in {"cases", "case-body"} => Good(ParseRepeat(p, g))
  BY <1>6, <1>10, <1>12, SMT DEF ParseRepeat
<1> QED
  BY <1>13, <1>14, <1>15 DEF Repeats

(* What is repeated up to a closing delimiter. *)
LEMMA ClosedAfter ==
  ASSUME NEW g, Plain(g), NEW c \in {"]", "}"}, NEW o \in Openers, Closer(o) = c
  PROVE  Fresh(<<g, Want(c)>>) /\ Finishes(<<g, Want(c)>>, o)
<1>1. Fresh(<<g, Want(c)>>)
  BY NamedGoals, Fresh2 DEF Plain
<1>2. ASSUME NEW a \in Kinds PROVE Leads(<<g, Want(c)>>, Append(a, o), a)
  <2>1. PICK b \in Kinds : b = Append(a, o)
    BY OpenKinds
  <2>2. Ends(Want(c)) = c /\ ~Steady(Want(c)) /\ c \notin Openers
    BY DEF Ends, Steady, Want, Openers
  <2>3. Moves(Want(c), b, a)
    BY <2>1, <2>2 DEF Moves
  <2>4. Leads(<<g, Want(c)>>, b, a)
    BY <2>3, PlainMoves, Leads2
  <2> QED
    BY <2>1, <2>4
<1> QED
  BY <1>1, <1>2 DEF Finishes

LEMMA ExprGood ==
  ASSUME NEW p, Ready(p), Head(p.goals)[1] = "expr"
  PROVE  Good(ParseExpr(p))
<1>1. Good(Missing(p)) /\ Good(p) /\ p.end = <<"no">> /\ p.goals # <<>>
  BY ReadyMeans
<1>2. Steady(Head(p.goals)) /\ Head(p.goals)[1] \notin {"sym", "type", "def-type", "tried"}
  BY DEF Steady
<1>3. ASSUME NEW c \in Openers, Peek(p)[1] = c, NEW gs, Fresh(gs), Finishes(gs, c) PROVE Good(Read(p, gs))
  BY <1>2, <1>3, ReadOpens
<1>4. "(" \in Openers /\ "[" \in Openers /\ "{" \in Openers /\ "#{" \in Openers
  BY DEF Openers
<1>5. Sees(p, {"("}) => Good(Read(p, << <<"list">> >>))
  <2>1. PICK gs : gs = << <<"list">> >>
    OBVIOUS
  <2>2. Fresh(gs)
    BY <2>1, NamedGoals, Fresh1
  <2>3. ASSUME NEW a \in Kinds PROVE Leads(gs, Append(a, "("), a)
    <3>1. PICK b \in Kinds : b = Append(a, "(")
      BY <1>4, OpenKinds
    <3>2. "(" \in Openers /\ ")" \notin Openers /\ Closer("(") = ")"
      BY DEF Openers, Closer
    <3>3. Moves(<<"list">>, b, a)
      BY <3>1, <3>2 DEF Moves, Steady, Ends
    <3>4. Leads(gs, b, a)
      BY <2>1, <3>3, LeadsOne
    <3> QED
      BY <3>1, <3>4
  <2>4. Finishes(gs, "(")
    BY <2>3 DEF Finishes
  <2> QED
    BY <1>3, <1>4, <2>1, <2>2, <2>4 DEF Sees
<1>7. /\ Closer("[") = "]" /\ Closer("{") = "}" /\ Closer("#{") = "}"
      /\ <<E>> \in Nested /\ <<E, <<"map-value">> >> \in Nested /\ "]" \in Closers /\ "}" \in Closers
  BY DEF Closer, Nested, Closers
<1>8. Plain(Until("]", <<E>>)) /\ Plain(Until("}", <<E>>)) /\ Plain(Until("}", <<E, <<"map-value">> >>))
  BY <1>7, RepeatGoals
<1>9. Sees(p, {"["}) => Good(Read(p, ParseVector))
  <2>1. Fresh(ParseVector) /\ Finishes(ParseVector, "[")
    BY <1>4, <1>7, <1>8, ClosedAfter DEF ParseVector
  <2> QED
    BY <1>3, <1>4, <2>1 DEF Sees
<1>10. Sees(p, {"{"}) => Good(Read(p, ParseMap))
  <2>1. Fresh(ParseMap) /\ Finishes(ParseMap, "{")
    BY <1>4, <1>7, <1>8, ClosedAfter DEF ParseMap
  <2> QED
    BY <1>3, <1>4, <2>1 DEF Sees
<1>11. Sees(p, {"#{"}) => Good(Read(p, ParseSet))
  <2>1. Fresh(ParseSet) /\ Finishes(ParseSet, "#{")
    BY <1>4, <1>7, <1>8, ClosedAfter DEF ParseSet
  <2> QED
    BY <1>3, <1>4, <2>1 DEF Sees
<1>12. Sees(p, {"quote"}) => Good(Read(p, <<E>>))
  <2>1. Level(<<E>>)
    BY NamedGoals, LevelPlain
  <2> QED
    BY <1>2, <2>1, ReadLevel DEF Sees, Words
<1>13. Sees(p, Literals \cup {"sym"}) => Good(Read(p, <<>>))
  BY <1>2, ReadWord DEF Sees, Words
<1>14. Sees(p, Comments) => Good(SkipComment(p))
  BY <1>1, <1>2, SkipGood
<1> QED
  BY <1>1, <1>5, <1>9, <1>10, <1>11, <1>12, <1>13, <1>14 DEF ParseExpr

LEMMA SymMeans ==
  ASSUME NEW p, Ready(p), NEW name, SeesSym(p, {name})
  PROVE  Peek(p) = <<"sym", name>>
<1>1. p \in Parsers /\ p.pos <= Len(p.toks) + 1
  BY DEF Ready, Good
<1>2. Peek(p)[1] = "sym" /\ Peek(p)[2] = name
  BY DEF SeesSym
<1>3. Peek(p) # EOF
  BY <1>2, NotEOF DEF Words
<1>4. Peek(p) \in AllTokens
  BY <1>1, <1>3, PeekMeans
<1> QED
  BY <1>2, <1>4 DEF AllTokens

LEMMA DefParses == ParseDef \in Seq(Goals) /\ Finishes(ParseDef, "(")
<1>1. Plain(Sym) /\ Plain(E) /\ Close \in Goals /\ <<"def-type">> \in Goals
  BY NamedGoals DEF Usual
<1>2. ParseDef \in Seq(Goals)
  BY <1>1 DEF ParseDef, Plain, Usual
<1>3. ASSUME NEW a \in Kinds PROVE Leads(ParseDef, Append(a, "("), a)
  <2>1. PICK b \in Kinds : b = Append(a, "(")
    BY OpenKinds DEF Openers
  <2>2. Moves(Close, b, a)
    BY <2>1, WantMoves
  <2>3. Moves(Sym, b, b) /\ Moves(E, b, b)
    BY <1>1, PlainMoves
  <2>4. Moves(<<"def-type">>, b, b)
    BY DEF Moves, Steady
  <2>5. Leads(ParseDef, b, a)
    BY <2>2, <2>3, <2>4, Leads4 DEF ParseDef
  <2> QED
    BY <2>1, <2>5
<1> QED
  BY <1>2, <1>3 DEF Finishes

LEMMA ListGood ==
  ASSUME NEW p, Ready(p), Head(p.goals)[1] = "list"
  PROVE  Good(ParseList(p))
<1>1. Good(Fail(p)) /\ Good(p) /\ p.end = <<"no">> /\ p.goals # <<>>
  BY ReadyMeans
<1>2. PICK g : g = Head(p.goals) /\ g[1] = "list"
  OBVIOUS
<1>3. Sees(p, {")"}) => Good(Read(p, <<>>))
  <2>1. ~Steady(g) /\ Ends(g) = ")" /\ ")" \in Closers
    BY <1>2 DEF Steady, Ends, Closers
  <2> QED
    BY <1>2, <2>1, ReadEnds DEF Sees
<1>4. ASSUME NEW c \in {"sym"}, NEW gs, Finishes(gs, "(") PROVE Reads(g, c, gs)
  <2> SUFFICES ASSUME NEW a \in Kinds, NEW b \in Kinds, Moves(g, a, b)
               PROVE  \E d \in Kinds : Shifts(c, a, d) /\ Leads(gs, d, b)
    BY DEF Reads
  <2>1. a = Append(b, "(")
    BY <1>2, ListMoves
  <2>2. Leads(gs, a, b)
    BY <1>4, <2>1 DEF Finishes
  <2>3. Shifts(c, a, a)
    BY DEF Shifts, Openers, Closers
  <2> QED
    BY <2>2, <2>3
<1>5. ASSUME NEW gs, Parses(gs), Peek(p)[1] = "sym" PROVE Good(Read(p, gs))
  <2>1. Fresh(gs) /\ Finishes(gs, "(")
    BY <1>5 DEF Parses
  <2>2. Reads(g, Peek(p)[1], gs)
    BY <1>4, <1>5, <2>1
  <2>3. Peek(p) # EOF
    BY <1>5, NotEOF DEF Words
  <2> QED
    BY <1>2, <2>1, <2>2, <2>3, ReadFresh
<1>6. SeesSym(p, FormNames) => Good(Read(p, ParseForm(Peek(p)[2])))
  <2> SUFFICES ASSUME SeesSym(p, FormNames) PROVE Good(Read(p, ParseForm(Peek(p)[2])))
    OBVIOUS
  <2>1. PICK name \in FormNames : Peek(p)[1] = "sym" /\ name = Peek(p)[2]
    BY DEF SeesSym
  <2>2. \E f \in Forms : f[1] = name
    BY DEF FormNames
  <2>3. PICK f \in Forms : f[1] = name /\ ParseForm(name) = f[2]
    BY <2>2 DEF ParseForm
  <2>4. CASE Parses(f[2])
    BY <1>5, <2>1, <2>3, <2>4
  <2>5. CASE f = <<"def", ParseDef>>
    <3>1. name = "def" /\ ParseForm(name) = ParseDef
      BY <2>3, <2>5
    <3>2. Peek(p) = <<"sym", "def">>
      BY <2>1, <3>1, SymMeans DEF SeesSym
    <3>3. Peek(p) # EOF
      BY <2>1, NotEOF DEF Words
    <3>4. Reads(Head(p.goals), Peek(p)[1], ParseDef)
      BY <1>2, <1>4, <2>1, DefParses
    <3>5. Good(Read(p, ParseDef))
      BY <1>1, <1>2, <3>2, <3>3, <3>4, DefParses, ReadGood
    <3> QED
      BY <2>1, <3>1, <3>5
  <2> QED
    BY <2>4, <2>5, FormsParse
<1>7. \A names : SeesSym(p, names) => Peek(p)[1] = "sym"
  BY DEF SeesSym
<1>8. /\ SeesSym(p, MethodHeads) => Good(Read(p, ParseMethodCall))
      /\ SeesSym(p, FieldHeads) => Good(Read(p, ParseFieldAccess))
      /\ SeesSym(p, StructHeads) => Good(Read(p, ParseStructLit))
  BY <1>5, <1>7, FormsParse
<1>9. Good(Then(p, ParseCall))
  <2>1. Fresh(ParseCall) /\ Finishes(ParseCall, "(")
    BY FormsParse DEF Parses
  <2>2. Turns(g, ParseCall)
    <3> SUFFICES ASSUME NEW a \in Kinds, NEW b \in Kinds, Moves(g, a, b) PROVE Leads(ParseCall, a, b)
      BY DEF Turns
    <3>1. a = Append(b, "(")
      BY <1>2, ListMoves
    <3> QED
      BY <2>1, <3>1 DEF Finishes
  <2> QED
    BY <1>1, <1>2, <2>1, <2>2, ThenGood
<1> QED
  BY <1>1, <1>3, <1>6, <1>8, <1>9, SMT DEF ParseList

LEMMA BehindFront ==
  ASSUME NEW S, NEW gs \in Seq(S), gs # <<>>, NEW rest \in Seq(S)
  PROVE  Behind(gs \o rest, Len(gs)) = rest
<1>1. PICK n \in Nat, m \in Nat : n = Len(gs) /\ n > 0 /\ m = Len(rest)
  BY EmptySeq
<1>2. PICK t : t = gs \o rest
  OBVIOUS
<1>3. t \in Seq(S) /\ Len(t) = n + m /\ \A k \in n + 1..n + m : t[k] = rest[k - n]
  BY <1>1, <1>2, ConcatProperties
<1>4. PICK u : u = Behind(t, n)
  OBVIOUS
<1>5. u \in Seq(S) /\ Len(u) = m /\ \A i \in 1..m : u[i] = t[n + i]
  <2>1. n \in 1..Len(t) /\ Len(t) - n = m
    BY <1>1, <1>3
  <2> QED
    BY <1>3, <1>4, <2>1, BehindMeans
<1>6. \A i \in 1..m : u[i] = rest[i]
  <2> TAKE i \in 1..m
  <2>1. n + i \in n + 1..n + m /\ n + i - n = i
    BY <1>1
  <2> QED
    BY <1>3, <1>5, <2>1
<1>7. u = rest
  BY <1>1, <1>5, <1>6, SeqEqual
<1> QED
  BY <1>1, <1>2, <1>4, <1>7

(* parseDef where a type may begin: it notes where, to come back. *)
LEMMA TryGood ==
  ASSUME NEW p, Ready(p), Head(p.goals)[1] = "def-type", IsTypeExprStart(p)
  PROVE  Good(Then(p, <<Type, <<"tried", p.pos, Len(p.tree)>> >>))
<1>1. /\ p \in Parsers /\ p.goals # <<>> /\ p.pos <= Len(p.toks) + 1 /\ WillBack(p) /\ DefSeen(p)
      /\ p.end = <<"no">> /\ Fits(p.toks, p.pos - 1, p.goals, p.open)
  BY DEF Ready, Good
<1>2. /\ p.goals \in Seq(Goals) /\ p.pos \in Nat /\ p.pos >= 1 /\ Len(p.tree) \in Nat /\ Len(p.toks) \in Nat
      /\ p.toks \in Seq(AllTokens) /\ Len(p.goals) \in Nat
  BY <1>1, ParserTyped
<1>3. p.goals[1][1] = "def-type" /\ 1 \in 1..Len(p.goals)
  <2>1. p.goals[1] = Head(p.goals) /\ Len(p.goals) > 0
    BY <1>1, HeadTyped
  <2> QED
    BY <1>2, <2>1
<1>4. Peek(p)[1] \in {"[", "(", "sym"}
  BY DEF IsTypeExprStart, Sees, SeesSym
<1>5. p.pos \in 1..Len(p.toks) /\ Peek(p) = p.toks[p.pos]
  <2>1. Peek(p) # EOF
    BY <1>4, NotEOF DEF Openers, Words
  <2> QED
    BY <1>1, <2>1, PeekMeans
<1>6. Bracket(p) => TriesType(p.toks)
  <2>1. p.pos > 2 /\ p.toks[p.pos - 2] = <<"sym", "def">>
    BY <1>1, <1>3 DEF DefSeen
  <2>2. PICK k \in Nat : k = p.pos - 2 /\ k \in 1..Len(p.toks) - 2 /\ k + 2 = p.pos
    BY <1>2, <1>5, <2>1
  <2>3. p.toks[k] = <<"sym", "def">> /\ p.toks[k + 2] = Peek(p)
    BY <1>5, <2>1, <2>2
  <2> QED
    BY <2>2, <2>3 DEF Bracket, TriesType
<1>7. PICK t : t = <<"tried", p.pos, Len(p.tree)>>
  OBVIOUS
<1>8. t \in Goals /\ t[1] = "tried" /\ t[2] = p.pos /\ t[3] = Len(p.tree) /\ Steady(t)
  BY <1>2, <1>7, TagGoals DEF Steady
<1>9. PICK gs : gs = <<Type, t>>
  OBVIOUS
<1>10. Type \in Goals /\ Type[1] = "type" /\ Steady(Type)
  BY NamedGoals DEF Plain, Usual, Type
<1>11. gs \in Seq(Goals) /\ Len(gs) = 2 /\ gs[1] = Type /\ gs[2] = t /\ gs # <<>>
  BY <1>8, <1>9, <1>10
<1>12. PICK q : q = Then(p, gs)
  OBVIOUS
<1>13. /\ q \in Parsers /\ q.toks = p.toks /\ q.pos = p.pos /\ q.goals = gs \o Tail(p.goals)
       /\ q.open = p.open /\ q.tree = p.tree /\ q.end = p.end
  BY <1>1, <1>11, <1>12, ThenMeans
<1>14. Fits(p.toks, p.pos - 1, gs \o Tail(p.goals), p.open)
  <2>1. ASSUME NEW a \in Kinds, NEW b \in Kinds, Moves(Head(p.goals), a, b) PROVE Leads(gs, a, b)
    <3>1. a = b
      BY <2>1 DEF Moves, Steady
    <3>2. Moves(Type, a, a) /\ Moves(t, a, a)
      BY <1>8, <1>10 DEF Moves
    <3> QED
      BY <1>9, <3>1, <3>2, Leads2
  <2>2. p.pos - 1 \in 0..Len(p.toks)
    BY <1>2, <1>5
  <2> QED
    BY <1>1, <1>2, <1>11, <2>1, <2>2, FitsThen
<1>15. Fits(p.toks, p.pos - 1, Tail(p.goals), p.open)
  <2>1. ASSUME NEW a \in Kinds, NEW b \in Kinds, Moves(Head(p.goals), a, b) PROVE Leads(<<>>, a, b)
    BY <2>1, LeadsNone DEF Moves, Steady
  <2>2. p.pos - 1 \in 0..Len(p.toks) /\ <<>> \in Seq(Goals)
    BY <1>2, <1>5
  <2>3. Fits(p.toks, p.pos - 1, <<>> \o Tail(p.goals), p.open)
    BY <1>1, <1>2, <2>1, <2>2, FitsThen
  <2>4. <<>> \o Tail(p.goals) = Tail(p.goals)
    <3>1. Tail(p.goals) \in Seq(Goals)
      BY <1>1, <1>2
    <3> QED
      BY <3>1
  <2> QED
    BY <2>3, <2>4
<1>16. /\ Len(q.goals) = Len(p.goals) + 1
       /\ q.goals[1] = Type /\ q.goals[2] = t
       /\ Behind(q.goals, 2) = Tail(p.goals)
       /\ \A k \in 2..Len(p.goals) :
            q.goals[k + 1] = p.goals[k] /\ Behind(q.goals, k + 1) = Behind(p.goals, k)
  <2>1. PICK u : u = gs \o Tail(p.goals)
    OBVIOUS
  <2>2. /\ Len(u) = Len(gs) + Len(p.goals) - 1
        /\ \A k \in 1..Len(gs) : u[k] = gs[k]
        /\ \A k \in 2..Len(p.goals) :
             u[Len(gs) + k - 1] = p.goals[k] /\ Behind(u, Len(gs) + k - 1) = Behind(p.goals, k)
    <3>0. p.goals \in Seq(Goals) /\ p.goals # <<>>
      BY <1>1, <1>2
    <3>1. PICK old : old = p.goals
      OBVIOUS
    <3>2. old \in Seq(Goals) /\ old # <<>>
      BY <3>0, <3>1
    <3>3. /\ Len(gs \o Tail(old)) = Len(gs) + Len(old) - 1
          /\ \A k \in 1..Len(gs) : (gs \o Tail(old))[k] = gs[k]
          /\ \A k \in 2..Len(old) :
               (gs \o Tail(old))[Len(gs) + k - 1] = old[k]
                 /\ Behind(gs \o Tail(old), Len(gs) + k - 1) = Behind(old, k)
      <4>1. gs \in Seq(Goals)
        BY <1>11
      <4> QED
        BY <3>2, <4>1, Replacing
    <3> QED
      BY <2>1, <3>1, <3>3, Zenon
  <2>3. Behind(u, Len(gs)) = Tail(p.goals)
    <3>1. Tail(p.goals) \in Seq(Goals)
      BY <1>1, <1>2
    <3> QED
      BY <1>11, <2>1, <3>1, BehindFront
  <2>4. ASSUME NEW k \in 2..Len(p.goals)
        PROVE  u[k + 1] = p.goals[k] /\ Behind(u, k + 1) = Behind(p.goals, k)
    <3>1. Len(gs) + k - 1 = k + 1
      BY <1>2, <1>11
    <3> QED
      BY <2>2, <3>1
  <2>5. Len(u) = Len(p.goals) + 1 /\ u[1] = Type /\ u[2] = t
    BY <1>2, <1>11, <2>2
  <2> QED
    BY <1>11, <1>13, <2>1, <2>3, <2>4, <2>5
<1>17. ASSUME NEW m \in 3..Len(q.goals)
       PROVE  \E k \in 2..Len(p.goals) : m = k + 1 /\ k # 1 /\ k \in 1..Len(p.goals)
  <2>1. m - 1 \in 2..Len(p.goals) /\ m = (m - 1) + 1 /\ m - 1 # 1 /\ m - 1 \in 1..Len(p.goals)
    BY <1>2, <1>16
  <2> QED
    BY <2>1
<1>18. ASSUME NEW k \in 2..Len(p.goals), p.goals[k][1] = "tried"
       PROVE  /\ Returns(p, p.goals[k], Behind(p.goals, k)) /\ TriesType(p.toks)
              /\ \A j \in k + 1..Len(p.goals) : p.goals[j][1] = "tried" => p.goals[j][3] <= p.goals[k][3]
  <2>1. k \in 1..Len(p.goals) /\ k # 1
    BY <1>2
  <2> QED
    BY <1>1, <1>3, <1>18, <2>1 DEF WillBack
<1>19. WillBack(q)
  <2> SUFFICES ASSUME NEW m \in 1..Len(q.goals), q.goals[m][1] = "tried"
               PROVE  /\ Returns(q, q.goals[m], Behind(q.goals, m))
                      /\ \A j \in m + 1..Len(q.goals) :
                           q.goals[j][1] = "tried" => q.goals[j][3] <= q.goals[m][3]
                      /\ \/ TriesType(q.toks) \/ m = 1
                         \/ (m = 2 /\ q.goals[1][1] = "type" /\ ~Bracket(q))
    BY DEF WillBack
  <2>1. m # 1
    BY <1>10, <1>16
  <2>2. CASE m = 2
    <3>1. Returns(q, q.goals[m], Behind(q.goals, m))
      <4>1. t[2] \in 1..Len(p.toks) + 1 /\ t[3] <= Len(p.tree)
        BY <1>2, <1>5, <1>8
      <4> QED
        BY <1>8, <1>13, <1>15, <1>16, <2>2, <4>1 DEF Returns
    <3>2. ASSUME NEW j \in m + 1..Len(q.goals), q.goals[j][1] = "tried" PROVE q.goals[j][3] <= q.goals[m][3]
      <4>1. j \in 3..Len(q.goals)
        BY <2>2
      <4>2. PICK k \in 2..Len(p.goals) : j = k + 1
        BY <1>17, <4>1
      <4>3. q.goals[j] = p.goals[k]
        BY <1>16, <4>2
      <4>4. p.goals[k][3] <= Len(p.tree)
        BY <1>18, <3>2, <4>3 DEF Returns
      <4>5. q.goals[m][3] = Len(p.tree)
        BY <1>8, <1>16, <2>2
      <4> QED
        BY <4>3, <4>4, <4>5
    <3>3. TriesType(q.toks) \/ (m = 2 /\ q.goals[1][1] = "type" /\ ~Bracket(q))
      <4>1. Bracket(q) <=> Bracket(p)
        BY <1>13 DEF Bracket, Peek, PeekAt
      <4> QED
        BY <1>6, <1>10, <1>13, <1>16, <2>2, <4>1
    <3> QED
      BY <3>1, <3>2, <3>3
  <2>3. CASE m \in 3..Len(q.goals)
    <3>1. PICK k \in 2..Len(p.goals) :
            m = k + 1 /\ q.goals[m] = p.goals[k] /\ Behind(q.goals, m) = Behind(p.goals, k)
      BY <1>16, <1>17, <2>3
    <3>2. /\ Returns(p, p.goals[k], Behind(p.goals, k)) /\ TriesType(p.toks)
          /\ \A j \in k + 1..Len(p.goals) : p.goals[j][1] = "tried" => p.goals[j][3] <= p.goals[k][3]
      BY <1>18, <3>1
    <3>3. Returns(q, q.goals[m], Behind(q.goals, m))
      BY <1>13, <3>1, <3>2 DEF Returns
    <3>4. ASSUME NEW j \in m + 1..Len(q.goals), q.goals[j][1] = "tried" PROVE q.goals[j][3] <= q.goals[m][3]
      <4>1. j \in 3..Len(q.goals)
        BY <2>3
      <4>2. PICK i \in 2..Len(p.goals) : j = i + 1 /\ q.goals[j] = p.goals[i]
        BY <1>16, <1>17, <4>1
      <4>3. i \in k + 1..Len(p.goals)
        BY <1>2, <3>1, <4>2
      <4> QED
        BY <3>1, <3>2, <3>4, <4>2, <4>3
    <3> QED
      BY <1>13, <3>2, <3>3, <3>4
  <2>4. m = 1 \/ m = 2 \/ m \in 3..Len(q.goals)
    <3>1. Len(q.goals) \in Nat
      BY <1>2, <1>16
    <3> QED
      BY <3>1
  <2> QED
    BY <2>1, <2>2, <2>3, <2>4
<1>20. DefSeen(q)
  <2> SUFFICES ASSUME NEW m \in 1..Len(q.goals), q.goals[m][1] = "def-type" PROVE FALSE
    BY DEF DefSeen
  <2>1. m # 1 /\ m # 2
    BY <1>8, <1>10, <1>16
  <2>2. m \in 3..Len(q.goals)
    <3>1. Len(q.goals) \in Nat
      BY <1>2, <1>16
    <3> QED
      BY <2>1, <3>1
  <2>3. PICK k \in 2..Len(p.goals) : k # 1 /\ k \in 1..Len(p.goals) /\ q.goals[m] = p.goals[k]
    BY <1>16, <1>17, <2>2
  <2> QED
    BY <1>1, <1>3, <2>3 DEF DefSeen
<1>21. Good(q)
  BY <1>1, <1>13, <1>14, <1>19, <1>20 DEF Good, EndsWhole
<1> QED
  BY <1>7, <1>9, <1>12, <1>21

LEMMA TypeExprGood ==
  ASSUME NEW p, Ready(p), Head(p.goals)[1] = "type"
  PROVE  Good(ParseTypeExpr(p))
<1>1. Good(Fail(p))
  BY ReadyMeans
<1>2. Steady(Head(p.goals)) /\ Head(p.goals)[1] # "sym"
  BY DEF Steady
<1>3. "(" \in Openers /\ "[" \in Openers /\ "sym" \in Words
  BY DEF Openers, Words
<1>4. Sees(p, {"["}) => Good(Read(p, << <<"slice">> >>))
  <2> SUFFICES ASSUME Peek(p)[1] = "[" PROVE Good(Read(p, << <<"slice">> >>))
    BY DEF Sees
  <2>1. PICK gs : gs = << <<"slice">> >>
    OBVIOUS
  <2>2. Fresh(gs)
    BY <2>1, NamedGoals, Fresh1
  <2>3. ASSUME NEW a \in Kinds PROVE Leads(gs, Append(a, "["), a)
    <3>1. PICK b \in Kinds : b = Append(a, "[")
      BY <1>3, OpenKinds
    <3>2. "]" \notin Openers /\ Closer("[") = "]"
      BY DEF Openers, Closer
    <3>3. Moves(<<"slice">>, b, a)
      BY <1>3, <3>1, <3>2 DEF Moves, Steady, Ends
    <3>4. Leads(gs, b, a)
      BY <2>1, <3>3, LeadsOne
    <3> QED
      BY <3>1, <3>4
  <2>4. Finishes(gs, "[") /\ Bracket(p)
    BY <2>3 DEF Finishes, Bracket
  <2>5. Good(Read(p, gs))
    BY <1>2, <1>3, <2>2, <2>4, ReadOpens
  <2> QED
    BY <2>1, <2>5
<1>5. Sees(p, {"("}) => Good(Read(p, << <<"chan">>, Type, Close>>))
  <2> SUFFICES ASSUME Peek(p)[1] = "(" PROVE Good(Read(p, << <<"chan">>, Type, Close>>))
    BY DEF Sees
  <2>1. Parses(<< <<"chan">>, Type, Close>>)
    BY NamedGoals, Form2
  <2>2. Bracket(p)
    BY DEF Bracket
  <2> QED
    BY <1>2, <1>3, <2>1, <2>2, ReadOpens DEF Parses
<1>6. SeesSym(p, {"map"}) => Good(Read(p, <<Want("["), Type, Want("]"), Type>>))
  <2> SUFFICES ASSUME SeesSym(p, {"map"}) PROVE Good(Read(p, <<Want("["), Type, Want("]"), Type>>))
    OBVIOUS
  <2>1. Level(<<Want("["), Type, Want("]"), Type>>)
    BY NamedGoals, LevelIn DEF Closer
  <2>2. Bracket(p) /\ Peek(p)[1] \in Words
    BY <1>3, SymMeans DEF Bracket, SeesSym
  <2> QED
    BY <1>2, <2>1, <2>2, ReadLevel
<1>7. Sees(p, {"sym"}) => Good(Read(p, <<>>))
  BY <1>2, <1>3, ReadWord DEF Sees
<1> QED
  BY <1>1, <1>4, <1>5, <1>6, <1>7, SMT DEF ParseTypeExpr

LEMMA TypeGood ==
  ASSUME NEW p, Ready(p), NEW g, g = Head(p.goals), g[1] \in Types
  PROVE  Good(ParseType(p, g))
<1>1. Good(p) /\ p.end = <<"no">> /\ p.goals # <<>> /\ p \in Parsers
  BY ReadyMeans
<1>2. g[1] \notin {"type", "slice"} => Steady(g) /\ g[1] \notin {"sym", "type"}
  BY DEF Steady, Types
<1>3. Level(<<Type>>)
  BY NamedGoals, LevelPlain
<1>4. g[1] \notin {"type", "slice"} => Good(Then(p, <<Type>>)) /\ Good(Then(p, <<>>))
  BY <1>2, <1>3, ThenLevel, ThenNone
<1>5. g[1] = "type" => Good(ParseType(p, g))
  BY TypeExprGood DEF ParseType
<1>6. g[1] = "slice" => Good(ParseType(p, g))
  <2> SUFFICES ASSUME g[1] = "slice" PROVE Good(ParseType(p, g))
    OBVIOUS
  <2>1. ASSUME NEW a \in Kinds, NEW b \in Kinds, Moves(g, a, b) PROVE a = Append(b, "[")
    BY <2>1, SliceMoves
  <2>2. Sees(p, {"]"}) => Good(Read(p, <<Type>>))
    <3> SUFFICES ASSUME Peek(p)[1] = "]" PROVE Good(Read(p, <<Type>>))
      BY DEF Sees
    <3>1. Peek(p) # EOF
      BY NotEOF DEF Closers
    <3>2. Reads(g, Peek(p)[1], <<Type>>)
      <4> SUFFICES ASSUME NEW a \in Kinds, NEW b \in Kinds, Moves(g, a, b)
                   PROVE  \E d \in Kinds : Shifts("]", a, d) /\ Leads(<<Type>>, d, b)
        BY DEF Reads
      <4>1. a = Append(b, "[") /\ Leads(<<Type>>, b, b)
        BY <1>3, <2>1 DEF Level
      <4>2. "[" \in Openers /\ "]" \notin Openers /\ "]" \in Closers /\ Closer("[") = "]"
        BY DEF Openers, Closers, Closer
      <4>3. Shifts("]", a, b)
        BY <4>1, <4>2 DEF Shifts
      <4> QED
        BY <4>1, <4>3
    <3> QED
      BY <1>3, <3>1, <3>2, ReadFresh DEF Level
  <2>3. Good(Then(p, <<Until("]", <<Type>>), Want("]")>>))
    <3>1. <<Type>> \in Nested /\ "]" \in Closers /\ "[" \in Openers /\ Closer("[") = "]"
      BY DEF Nested, Closers, Openers, Closer
    <3>2. PICK gs : gs = <<Until("]", <<Type>>), Want("]")>>
      OBVIOUS
    <3>3. Fresh(gs) /\ Finishes(gs, "[")
      BY <3>1, <3>2, RepeatGoals, ClosedAfter
    <3>4. Turns(g, gs)
      <4> SUFFICES ASSUME NEW a \in Kinds, NEW b \in Kinds, Moves(g, a, b) PROVE Leads(gs, a, b)
        BY DEF Turns
      <4> QED
        BY <2>1, <3>3 DEF Finishes
    <3>5. Good(Then(p, gs))
      BY <1>1, <3>3, <3>4, ThenGood
    <3> QED
      BY <3>2, <3>5
  <2> QED
    BY <2>2, <2>3 DEF ParseType
<1>7. g[1] = "arrow" => Good(ParseType(p, g))
  <2>1. SeesSym(p, {"->"}) => Peek(p)[1] \in Words
    BY DEF SeesSym, Words
  <2>2. g[1] = "arrow" /\ SeesSym(p, {"->"}) => Good(Read(p, <<Type>>))
    BY <1>2, <1>3, <2>1, ReadLevel
  <2> QED
    BY <1>4, <2>2 DEF ParseType
<1>8. g[1] = "def-type" => Good(ParseType(p, g))
  BY <1>4, TryGood DEF ParseType
<1>9. g[1] = "tried" => Good(ParseType(p, g))
  <2>1. 1 \in 1..Len(p.goals) /\ p.goals[1] = g
    <3>1. p.goals[1] = g /\ Len(p.goals) > 0 /\ Len(p.goals) \in Nat
      BY <1>1, HeadTyped, ParserTyped
    <3> QED
      BY <3>1
  <2>2. g[1] = "tried" => Good(GoBack(p, 1))
    BY <1>1, <2>1, GoBackGood
  <2> QED
    BY <1>4, <2>2 DEF ParseType
<1>10. g[1] \in {"opt-type", "bind-type"} => Good(ParseType(p, g))
  BY <1>4 DEF ParseType
<1> QED
  BY <1>5, <1>6, <1>7, <1>8, <1>9, <1>10 DEF Types

LEMMA NamesGood ==
  ASSUME NEW p, Ready(p), NEW g, g = Head(p.goals), g[1] \in Names
  PROVE  Good(ParseNames(p, g))
<1>1. Good(Fail(p))
  BY ReadyMeans
<1>2. Steady(g) /\ g[1] \notin {"sym", "type"}
  BY DEF Steady, Names
<1>3. \A gs : Level(gs) => Good(Then(p, gs))
  BY <1>2, ThenLevel
<1>4. ASSUME NEW gs, Level(gs), Peek(p)[1] \in Words PROVE Good(Read(p, gs))
  BY <1>2, <1>4, ReadLevel
<1>5. \A names : SeesSym(p, names) => Peek(p)[1] \in Words
  BY DEF SeesSym, Words
<1>6. Good(Then(p, <<>>)) /\ Good(Then(p, <<E>>)) /\ Good(Then(p, <<Sym>>)) /\ Good(Then(p, <<Params>>))
  BY <1>3, LevelNone, LevelPlain, NamedGoals
<1>7. g[1] = "params" => Good(ParseNames(p, g))
  <2>1. << <<"param">> >> \in Nested /\ "]" \in Closers
    BY DEF Nested, Closers
  <2>2. Level(<<Want("["), Until("]", << <<"param">> >>), Want("]")>>)
    BY <2>1, RepeatGoals, LevelIn DEF Closer
  <2> QED
    BY <1>3, <2>2 DEF ParseNames
<1>8. g[1] = "param" => Good(ParseNames(p, g))
  <2>1. Level(<<Sym, OptType>>) /\ Level(<<OptType>>)
    BY LevelPlain, NamedGoals
  <2>2. SeesSym(p, {"&"}) => Good(Read(p, <<Sym, OptType>>))
    BY <1>4, <1>5, <2>1
  <2>3. Sees(p, {"sym"}) => Good(Read(p, <<OptType>>))
    BY <1>4, <2>1 DEF Sees, Words
  <2>4. Good(ParseParam(p))
    <3>1. Good(Then(p, <<E>>))
      BY <1>6
    <3> QED
      BY <1>1, <2>2, <2>3, <3>1 DEF ParseParam
  <2> QED
    BY <2>4 DEF ParseNames
<1>9. g[1] \in {"receiver", "pattern"} => Good(ParseNames(p, g))
  BY <1>1, <1>6 DEF ParseNames
<1>10. g[1] = "let-name" => Good(ParseNames(p, g))
  <2>1. Good(Then(p, <<Sym, BindType>>))
    BY <1>3, LevelPlain, NamedGoals
  <2> QED
    BY <1>6, <2>1 DEF ParseNames
<1>11. g[1] = "as" => Good(ParseNames(p, g))
  <2>1. Peek(p) = <<"kw", "as">> => Peek(p)[1] \in Words
    BY DEF Words, Literals
  <2>2. Level(<<Sym>>)
    BY LevelPlain, NamedGoals
  <2>3. Peek(p) = <<"kw", "as">> => Good(Read(p, <<Sym>>))
    BY <1>4, <2>1, <2>2
  <2> QED
    BY <1>6, <2>3 DEF ParseNames
<1> QED
  BY <1>7, <1>8, <1>9, <1>10, <1>11 DEF Names

(* A vector of names in a clause of ns. *)
LEMMA SpecGood ==
  ASSUME NEW p, Ready(p), NEW free \in BOOLEAN, Head(p.goals)[1] = "spec"
  PROVE  Good(ParseSpec(p, free))
<1>1. Good(Fail(p))
  BY ReadyMeans
<1>2. Steady(Head(p.goals)) /\ Head(p.goals)[1] \notin {"sym", "type"}
  BY DEF Steady
<1>3. Good(Then(p, <<>>))
  BY <1>2, ThenNone
<1>4. \A b \in BOOLEAN : Plain(<<"spec", b>>)
  BY TagGoals
<1>5. Sees(p, {"["}) => \A b \in BOOLEAN : Good(Read(p, <<Sym, <<"as">>, Want("]"), <<"spec", b>> >>))
  <2> SUFFICES ASSUME Peek(p)[1] = "[", NEW b \in BOOLEAN
               PROVE  Good(Read(p, <<Sym, <<"as">>, Want("]"), <<"spec", b>> >>))
    BY DEF Sees
  <2>1. PICK gs : gs = <<Sym, <<"as">>, Want("]"), <<"spec", b>> >>
    OBVIOUS
  <2>2. Plain(Sym) /\ Plain(<<"as">>) /\ Usual(Want("]")) /\ Plain(<<"spec", b>>)
    BY <1>4, NamedGoals
  <2>3. Fresh(gs)
    BY <2>1, <2>2, Fresh4 DEF Plain
  <2>4. ASSUME NEW a \in Kinds PROVE Leads(gs, Append(a, "["), a)
    <3>1. PICK d \in Kinds : d = Append(a, "[")
      BY OpenKinds DEF Openers
    <3>2. Moves(Want("]"), d, a)
      BY <3>1, WantMoves
    <3>3. Moves(Sym, d, d) /\ Moves(<<"as">>, d, d) /\ Moves(<<"spec", b>>, a, a)
      BY <2>2, PlainMoves
    <3>4. Leads(gs, d, a)
      BY <2>1, <3>2, <3>3, Leads4
    <3> QED
      BY <3>1, <3>4
  <2>5. "[" \in Openers /\ Finishes(gs, "[")
    BY <2>4 DEF Openers, Finishes
  <2>6. Good(Read(p, gs))
    BY <1>2, <2>3, <2>5, ReadOpens
  <2> QED
    BY <2>1, <2>6
<1>6. Peek(p) = <<"kw", "as">> => Good(Read(p, <<Sym, <<"spec", FALSE>> >>))
  <2>1. Level(<<Sym, <<"spec", FALSE>> >>)
    BY <1>4, LevelPlain, NamedGoals
  <2> QED
    BY <1>2, <2>1, ReadLevel DEF Words, Literals
<1>7. Sees(p, {"sym"}) => Good(Read(p, << <<"spec", TRUE>> >>))
  <2>1. Level(<< <<"spec", TRUE>> >>)
    BY <1>4, LevelPlain
  <2> QED
    BY <1>2, <2>1, ReadLevel DEF Sees, Words
<1>8. PICK b \in BOOLEAN : b = (PeekAt(p, 2) # <<"kw", "as">>)
  OBVIOUS
<1>9. Sees(p, {"["}) =>
        Good(Read(p, <<Sym, <<"as">>, Want("]"), <<"spec", PeekAt(p, 2) # <<"kw", "as">> >> >>))
  BY <1>5, <1>8
<1> QED
  BY <1>1, <1>3, <1>6, <1>7, <1>9, SMT DEF ParseSpec

(* The rest of a try, up to its closing delimiter. *)
LEMMA TryRestGood ==
  ASSUME NEW p, Ready(p), NEW body \in BOOLEAN, NEW caught \in BOOLEAN, NEW ended \in BOOLEAN,
         Head(p.goals)[1] = "try"
  PROVE  Good(ParseTryRest(p, body, caught, ended))
<1>1. Good(Fail(p)) /\ Good(Missing(p)) /\ Good(p) /\ p.end = <<"no">> /\ p.goals # <<>>
  BY ReadyMeans
<1>2. PICK g : g = Head(p.goals) /\ g[1] = "try"
  OBVIOUS
<1>3. Sees(p, Comments) => Good(SkipComment(p))
  BY <1>1, SkipGood
<1>4. \A x, y, z \in BOOLEAN : Usual(<<"try", x, y, z>>)
  BY TagGoals DEF Usual
<1>5. ASSUME NEW gs, Fresh(gs), \A b \in Kinds : Leads(gs, Append(b, "("), b) PROVE Good(Then(p, gs))
  <2>1. Turns(g, gs)
    <3> SUFFICES ASSUME NEW a \in Kinds, NEW b \in Kinds, Moves(g, a, b) PROVE Leads(gs, a, b)
      BY DEF Turns
    <3>1. g[1] \in {"list", "try"}
      BY <1>2
    <3>2. a = Append(b, "(")
      BY <3>1, ListMoves
    <3> QED
      BY <1>5, <3>2
  <2> QED
    BY <1>1, <1>2, <1>5, <2>1, ThenGood
<1>6. \A x, y, z \in BOOLEAN, b \in Kinds : Moves(<<"try", x, y, z>>, Append(b, "("), b)
  <2> TAKE x, y, z \in BOOLEAN, b \in Kinds
  <2>1. Append(b, "(") \in Kinds
    BY OpenKinds DEF Openers
  <2>2. PICK t : t = <<"try", x, y, z>>
    OBVIOUS
  <2>3. PICK a \in Kinds : a = Append(b, "(")
    BY <2>1
  <2>4. Moves(t, a, b)
    <3>1. ~Steady(t) /\ Ends(t) = ")" /\ ")" \notin Openers /\ "(" \in Openers /\ Closer("(") = ")"
      BY <2>2 DEF Steady, Ends, Openers, Closer
    <3> QED
      BY <2>3, <3>1 DEF Moves
  <2> QED
    BY <2>2, <2>3, <2>4
<1>7. Plain(SomeBody) /\ Plain(Sym) /\ Plain(<<"binding">>) /\ Plain(E) /\ Usual(Want("(")) /\ Usual(Close)
  BY NamedGoals, RepeatGoals
<1>8. \A y, z \in BOOLEAN :
        Good(Then(p, <<Want("("), Sym, <<"binding">>, SomeBody, Close, <<"try", y, TRUE, z>> >>))
  <2> TAKE y, z \in BOOLEAN
  <2>1. PICK t : t = <<"try", y, TRUE, z>>
    OBVIOUS
  <2>2. PICK gs : gs = <<Want("("), Sym, <<"binding">>, SomeBody, Close, t>>
    OBVIOUS
  <2>3. Usual(t) /\ \A b \in Kinds : Moves(t, Append(b, "("), b)
    BY <1>4, <1>6, <2>1
  <2>4. Fresh(gs)
    BY <1>7, <2>2, <2>3, Fresh6 DEF Plain
  <2>5. ASSUME NEW b \in Kinds PROVE Leads(gs, Append(b, "("), b)
    <3>1. PICK a \in Kinds : a = Append(b, "(")
      BY OpenKinds DEF Openers
    <3>2. PICK d \in Kinds : d = Append(a, "(")
      BY OpenKinds DEF Openers
    <3>3. Moves(Want("("), a, d) /\ Moves(Close, d, a) /\ Moves(t, a, b)
      BY <2>3, <3>1, <3>2, WantMoves
    <3>4. Moves(Sym, d, d) /\ Moves(<<"binding">>, d, d) /\ Moves(SomeBody, d, d)
      BY <1>7, PlainMoves
    <3>5. Leads(gs, a, b)
      BY <2>2, <3>3, <3>4, Leads6
    <3> QED
      BY <3>1, <3>5
  <2>6. Good(Then(p, gs))
    BY <1>5, <2>4, <2>5
  <2> QED
    BY <2>1, <2>2, <2>6
<1>9. \A y, z \in BOOLEAN : Good(Then(p, <<Want("("), Sym, SomeBody, Close, <<"try", y, z, TRUE>> >>))
  <2> TAKE y, z \in BOOLEAN
  <2>1. PICK t : t = <<"try", y, z, TRUE>>
    OBVIOUS
  <2>2. PICK gs : gs = <<Want("("), Sym, SomeBody, Close, t>>
    OBVIOUS
  <2>3. Usual(t) /\ \A b \in Kinds : Moves(t, Append(b, "("), b)
    BY <1>4, <1>6, <2>1
  <2>4. Fresh(gs)
    BY <1>7, <2>2, <2>3, Fresh5 DEF Plain
  <2>5. ASSUME NEW b \in Kinds PROVE Leads(gs, Append(b, "("), b)
    <3>1. PICK a \in Kinds : a = Append(b, "(")
      BY OpenKinds DEF Openers
    <3>2. PICK d \in Kinds : d = Append(a, "(")
      BY OpenKinds DEF Openers
    <3>3. Moves(Want("("), a, d) /\ Moves(Close, d, a) /\ Moves(t, a, b)
      BY <2>3, <3>1, <3>2, WantMoves
    <3>4. Moves(Sym, d, d) /\ Moves(SomeBody, d, d)
      BY <1>7, PlainMoves
    <3>5. Leads(gs, a, b)
      BY <2>2, <3>3, <3>4, Leads5
    <3> QED
      BY <3>1, <3>5
  <2>6. Good(Then(p, gs))
    BY <1>5, <2>4, <2>5
  <2> QED
    BY <2>1, <2>2, <2>6
<1>10. Good(Then(p, <<E, <<"try", TRUE, FALSE, FALSE>> >>))
  <2>1. PICK t : t = <<"try", TRUE, FALSE, FALSE>>
    OBVIOUS
  <2>2. PICK gs : gs = <<E, t>>
    OBVIOUS
  <2>3. Usual(t) /\ \A b \in Kinds : Moves(t, Append(b, "("), b)
    BY <1>4, <1>6, <2>1
  <2>4. Fresh(gs)
    BY <1>7, <2>2, <2>3, Fresh2 DEF Plain
  <2>5. ASSUME NEW b \in Kinds PROVE Leads(gs, Append(b, "("), b)
    <3>1. PICK a \in Kinds : a = Append(b, "(")
      BY OpenKinds DEF Openers
    <3>2. Moves(E, a, a) /\ Moves(t, a, b)
      BY <1>7, <2>3, <3>1, PlainMoves
    <3>3. Leads(gs, a, b)
      BY <2>2, <3>2, Leads2
    <3> QED
      BY <3>1, <3>3
  <2>6. Good(Then(p, gs))
    BY <1>5, <2>4, <2>5
  <2> QED
    BY <2>1, <2>2, <2>6
<1>11. Sees(p, {")"}) => Good(Read(p, <<>>))
  <2>1. ~Steady(g) /\ Ends(g) = ")" /\ ")" \in Closers
    BY <1>2 DEF Steady, Ends, Closers
  <2> QED
    BY <1>2, <2>1, ReadEnds DEF Sees
<1>12. Sees(p, {")"}) => Good(Expect(p, body /\ (caught \/ ended)))
  BY <1>1, <1>11 DEF Expect
<1>13. /\ Good(Then(p, <<Want("("), Sym, <<"binding">>, SomeBody, Close, <<"try", body, TRUE, ended>> >>))
       /\ Good(Then(p, <<Want("("), Sym, SomeBody, Close, <<"try", body, caught, TRUE>> >>))
  BY <1>8, <1>9
<1> QED
  BY <1>1, <1>3, <1>10, <1>12, <1>13, SMT DEF ParseTryRest

LEMMA PartsGood ==
  ASSUME NEW p, Ready(p), NEW g, g = Head(p.goals), g[1] \in Parts
  PROVE  Good(ParsePart(p, g))
<1>1. Good(Fail(p)) /\ g \in Goals
  BY ReadyMeans
<1>2. g[1] # "try" => Steady(g) /\ g[1] \notin {"sym", "type"}
  BY DEF Steady, Parts
<1>3. ASSUME g[1] # "try", NEW gs, Level(gs) PROVE Good(Then(p, gs))
  BY <1>2, <1>3, ThenLevel
<1>4. g[1] = "clause" => Good(ParsePart(p, g))
  <2>1. Plain(<<"clause-name">>) /\ Plain(<<"specs", TRUE>>)
    BY NamedGoals, TagGoals
  <2>2. Level(<<Want("("), <<"clause-name">>, <<"specs", TRUE>>, Close>>)
    BY <2>1, LevelIn DEF Closer, Close
  <2> QED
    BY <1>3, <2>2 DEF ParsePart
<1>5. g[1] = "spec" => Good(ParsePart(p, g))
  BY <1>1, GoalShape, SpecGood DEF ParsePart
<1>6. g[1] = "select-case" => Good(ParsePart(p, g))
  <2> SUFFICES ASSUME g[1] = "select-case" PROVE Good(ParseSelectCase(p))
    BY DEF ParsePart
  <2>1. Plain(Body) /\ Plain(E) /\ Plain(<<"select-op">>)
    BY NamedGoals, RepeatGoals
  <2>2. Level(<<Body>>) /\ Level(<<E, Body>>)
    BY <2>1, LevelPlain
  <2>3. Level(<<Want("["), <<"select-op">>, Want("]"), Body>>)
    BY <2>1, LevelIn DEF Closer
  <2>4. "kw" \in Words
    BY DEF Words, Literals
  <2>5. /\ Peek(p) = <<"kw", "default">> => Good(Read(p, <<Body>>))
        /\ Peek(p) = <<"kw", "timeout">> => Good(Read(p, <<E, Body>>))
    BY <1>2, <2>2, <2>4, ReadLevel
  <2> QED
    BY <1>3, <2>3, <2>5, SMT DEF ParseSelectCase
<1>7. g[1] = "select-op" => Good(ParsePart(p, g))
  <2> SUFFICES ASSUME g[1] = "select-op" PROVE Good(ParsePart(p, g))
    OBVIOUS
  <2>1. Parses(<< <<"send!">>, E, E, Close>>) /\ Level(<<Sym, E>>)
    BY NamedGoals, Form3, LevelPlain
  <2>2. Sees(p, {"("}) => Good(Read(p, << <<"send!">>, E, E, Close>>))
    BY <1>2, <2>1, ReadOpens DEF Parses, Sees, Openers
  <2> QED
    BY <1>3, <2>1, <2>2 DEF ParsePart
<1>8. g[1] = "doto-step" => Good(ParsePart(p, g))
  <2>1. Level(<<Want("("), Sym, Body, Close>>) /\ Level(<<E>>)
    BY NamedGoals, RepeatGoals, LevelIn, LevelPlain DEF Closer, Close
  <2> QED
    BY <1>3, <2>1 DEF ParsePart
<1>9. g[1] \in {"map-value", "fields"} => Good(ParsePart(p, g))
  <2>1. Level(<<E>>)
    BY NamedGoals, LevelPlain
  <2> QED
    BY <1>1, <1>3, <2>1 DEF ParsePart
<1>10. g[1] = "try" => Good(ParsePart(p, g))
  BY <1>1, GoalShape, TryRestGood DEF ParsePart
<1> QED
  BY <1>4, <1>5, <1>6, <1>7, <1>8, <1>9, <1>10 DEF Parts

Pended(p, pending) == [p EXCEPT !.pending = pending]
Documented(p, dest, kept) == [p EXCEPT ![dest] = @ \cup kept, !.pending = <<>>]

LEMMA PendingSet ==
  ASSUME NEW p \in Parsers, NEW pending \in Seq(Nat), NEW q, q = Pended(p, pending)
  PROVE  /\ q \in Parsers /\ q.toks = p.toks /\ q.pos = p.pos /\ q.goals = p.goals
         /\ q.open = p.open /\ q.tree = p.tree /\ q.end = p.end
BY DEF Parsers, Pended

LEMMA GoalsSet ==
  ASSUME NEW p \in Parsers, NEW goals \in Seq(Goals), NEW q, q = [p EXCEPT !.goals = goals]
  PROVE  /\ q \in Parsers /\ q.toks = p.toks /\ q.pos = p.pos /\ q.goals = goals
         /\ q.open = p.open /\ q.tree = p.tree /\ q.end = p.end
BY DEF Parsers

LEMMA EmptyNats == <<>> \in Seq(Nat)
OBVIOUS

LEMMA DocsKept ==
  ASSUME NEW p \in Parsers, NEW kept \in SUBSET Nat, NEW dest \in {"docs", "orphans"},
         NEW q, q = Documented(p, dest, kept)
  PROVE  /\ q \in Parsers /\ q.toks = p.toks /\ q.pos = p.pos /\ q.goals = p.goals
         /\ q.open = p.open /\ q.tree = p.tree /\ q.end = p.end
<1> DEFINE S == Seq(AllTokens)
           G == Seq(Goals)
           T == Seq(GoalTags \X AllTokens)
           F == {<<"no">>, <<"ok">>, <<"syntax">>} \cup ({"unclosed"} \X Nat)
           P == Seq(Nat)
<1>1. Parsers = [toks : S, pos : Nat \ {0}, goals : G, open : P, pending : P,
                 docs : SUBSET Nat, orphans : SUBSET Nat, tree : T, end : F]
  BY DEF Parsers
<1>2. <<>> \in P
  BY EmptyNats DEF P
<1> HIDE DEF S, G, T, F, P
<1>3. CASE dest = "docs"
  <2>1. q = [p EXCEPT !.docs = p.docs \cup kept, !.pending = <<>>]
    BY <1>1, <1>3 DEF Documented
  <2>2. p.docs \cup kept \in SUBSET Nat
    BY <1>1
  <2> QED
    BY <1>1, <1>2, <2>1, <2>2
<1>4. CASE dest = "orphans"
  <2>1. q = [p EXCEPT !.orphans = p.orphans \cup kept, !.pending = <<>>]
    BY <1>1, <1>4 DEF Documented
  <2>2. p.orphans \cup kept \in SUBSET Nat
    BY <1>1
  <2> QED
    BY <1>1, <1>2, <2>1, <2>2
<1> QED
  BY <1>3, <1>4

LEMMA AlikeStill ==
  ASSUME NEW p, Good(p), p.end = <<"no">>, NEW q \in Parsers, q.toks = p.toks, q.pos = p.pos,
         q.goals = p.goals,
         q.open = p.open, q.tree = p.tree, q.end = p.end
  PROVE  Good(q)
<1>1. p.pos <= Len(p.toks) + 1 /\ Fits(p.toks, p.pos - 1, p.goals, p.open)
  BY DEF Good
<1>2. EndsWhole(q)
  BY DEF EndsWhole
<1> QED
  BY <1>1, <1>2, Alike

LEMMA KeepGood ==
  ASSUME NEW p, Ready(p), Head(p.goals)[1] \in {"doc", "top"}, NEW dest \in {"docs", "orphans"}
  PROVE  Good(Keep(p, dest)) /\ Good([Keep(p, dest) EXCEPT !.pending = <<>>])
<1>1. Steady(Head(p.goals)) /\ Head(p.goals)[1] \notin {"sym", "type"}
  BY DEF Steady
<1>2. PICK r : r = Then(p, <<>>)
  OBVIOUS
<1>3. Good(r)
  BY <1>1, <1>2, ThenNone
<1>4. r \in Parsers /\ r.end = <<"no">>
  <2>1. p \in Parsers /\ p.goals # <<>> /\ p.end = <<"no">> /\ <<>> \in Seq(Goals)
    BY ReadyMeans
  <2> QED
    BY <1>2, <2>1, ThenMeans
<1>5. PICK kept : kept = ToSet(p.pending)
  OBVIOUS
<1>6. kept \in SUBSET Nat
  <2>1. p.pending \in Seq(Nat)
    BY ReadyMeans, ParserTyped
  <2> QED
    BY <1>5, <2>1 DEF ToSet
<1>7. PICK q : q = Keep(p, dest)
  OBVIOUS
<1>8. q = r \/ q = Documented(r, dest, kept)
  BY <1>2, <1>5, <1>7 DEF Keep, Documented
<1>9. Good(q) /\ q \in Parsers /\ q.end = <<"no">>
  <2>1. CASE q = r
    BY <1>3, <1>4, <2>1
  <2>2. CASE q = Documented(r, dest, kept)
    <3>1. /\ q \in Parsers /\ q.toks = r.toks /\ q.pos = r.pos /\ q.goals = r.goals
          /\ q.open = r.open /\ q.tree = r.tree /\ q.end = r.end
      BY <1>4, <1>6, <2>2, DocsKept
    <3>2. Good(q)
      BY <1>3, <1>4, <3>1, AlikeStill
    <3> QED
      BY <1>4, <3>1, <3>2
  <2> QED
    BY <1>8, <2>1, <2>2
<1>10. PICK t : t = Pended(q, <<>>)
  OBVIOUS
<1>11. Good(t)
  <2>1. <<>> \in Seq(Nat)
    OBVIOUS
  <2>2. /\ t \in Parsers /\ t.toks = q.toks /\ t.pos = q.pos /\ t.goals = q.goals
        /\ t.open = q.open /\ t.tree = q.tree /\ t.end = q.end
    BY <1>9, <1>10, <2>1, PendingSet
  <2> QED
    BY <1>9, <2>2, AlikeStill
<1> QED
  BY <1>7, <1>9, <1>10, <1>11 DEF Pended

(* Between the forms nothing is open. *)
LEMMA AllGood ==
  ASSUME NEW p, Good(p), p.end = <<"no">>, p.goals = <<>>
  PROVE  Good(ParseAll(p))
<1>1. p \in Parsers /\ p.pos <= Len(p.toks) + 1 /\ Fits(p.toks, p.pos - 1, p.goals, p.open)
  BY DEF Good
<1>2. /\ p.toks \in Seq(AllTokens) /\ Len(p.toks) \in Nat /\ p.pos \in Nat /\ p.pos >= 1
      /\ p.pending \in Seq(Nat)
  BY <1>1, ParserTyped
<1>3. Peek(p) = EOF => Good([p EXCEPT !.end = <<"ok">>])
  <2> SUFFICES ASSUME Peek(p) = EOF PROVE Good([p EXCEPT !.end = <<"ok">>])
    OBVIOUS
  <2>1. PICK q : q = [p EXCEPT !.end = <<"ok">>]
    OBVIOUS
  <2>2. /\ q \in Parsers /\ q.toks = p.toks /\ q.pos = p.pos /\ q.goals = p.goals
        /\ q.open = p.open /\ q.tree = p.tree /\ q.end = <<"ok">>
    BY <1>1, <2>1, EndSet
  <2>3. p.pos = Len(p.toks) + 1
    BY <1>1, PeekMeans
  <2>4. EndsWhole(q)
    BY <2>2, <2>3 DEF EndsWhole
  <2>5. Good(q)
    BY <1>1, <2>2, <2>4, Alike
  <2> QED
    BY <2>1, <2>5
<1>4. Sees(p, {";;;"}) => Good([SkipComment(p) EXCEPT !.pending = Append(@, p.pos)])
  <2> SUFFICES ASSUME Sees(p, {";;;"}) PROVE Good([SkipComment(p) EXCEPT !.pending = Append(@, p.pos)])
    OBVIOUS
  <2>1. Sees(p, Comments)
    BY DEF Sees, Comments
  <2>2. PICK r : r = SkipComment(p)
    OBVIOUS
  <2>3. r \in Parsers /\ r.end = <<"no">> /\ r.pending = p.pending
    BY <1>1, <2>2, SkipMeans
  <2>4. Good(r)
    BY <2>1, <2>2, SkipGood
  <2>5. PICK q : q = [r EXCEPT !.pending = Append(@, p.pos)]
    OBVIOUS
  <2>6. PICK pending : pending = Append(r.pending, p.pos)
    OBVIOUS
  <2>7. pending \in Seq(Nat)
    <3>1. PICK s \in Seq(Nat), n \in Nat : s = r.pending /\ n = p.pos
      BY <1>2, <2>3
    <3>2. Append(s, n) \in Seq(Nat)
      BY <3>1, TreeGrows
    <3> QED
      BY <2>6, <3>1, <3>2
  <2>8. q = Pended(r, pending)
    BY <2>5, <2>6 DEF Pended
  <2>9. /\ q \in Parsers /\ q.toks = r.toks /\ q.pos = r.pos /\ q.goals = r.goals
        /\ q.open = r.open /\ q.tree = r.tree /\ q.end = r.end
    BY <2>3, <2>7, <2>8, PendingSet
  <2>10. Good(q)
    BY <2>3, <2>4, <2>9, AlikeStill
  <2> QED
    BY <2>2, <2>5, <2>10
<1>5. Sees(p, {";"}) => Good(SkipComment(p))
  <2>1. Sees(p, {";"}) => Sees(p, Comments)
    BY DEF Sees, Comments
  <2> QED
    BY <2>1, SkipGood
<1>6. Good([p EXCEPT !.goals = <<E, <<"top">> >>])
  <2>1. PICK gs : gs = <<E, <<"top">> >>
    OBVIOUS
  <2>2. Level(gs)
    BY <2>1, NamedGoals, LevelPlain
  <2>3. gs \in Seq(Goals) /\ \A k \in 1..Len(gs) : gs[k][1] # "tried" /\ gs[k][1] # "def-type"
    BY <2>2, FreshMeans DEF Level
  <2>4. PICK q : q = [p EXCEPT !.goals = gs]
    OBVIOUS
  <2>5. /\ q \in Parsers /\ q.toks = p.toks /\ q.pos = p.pos /\ q.goals = gs
        /\ q.open = p.open /\ q.tree = p.tree /\ q.end = p.end
    BY <1>1, <2>3, <2>4, GoalsSet
  <2>6. Fits(p.toks, p.pos - 1, gs, p.open)
    <3>1. PICK s : /\ Stack(p.toks, p.pos - 1, s) /\ Leads(<<>>, KindsOf(p.toks, s), <<>>)
                   /\ TriesType(p.toks) \/ p.open = s
      BY <1>1 DEF Fits
    <3>2. p.pos - 1 \in 0..Len(p.toks)
      BY <1>1, <1>2
    <3>3. KindsOf(p.toks, s) \in Kinds
      BY <1>2, <3>1, <3>2, KindsTyped
    <3>4. PICK a \in Kinds : a = KindsOf(p.toks, s)
      BY <3>3
    <3>5. a = <<>>
      BY <3>1, <3>4, LeadsNone
    <3>6. Leads(gs, a, <<>>)
      BY <2>2, <3>5 DEF Level
    <3> QED
      BY <3>1, <3>4, <3>6 DEF Fits
  <2>7. WillBack(q) /\ DefSeen(q)
    BY <2>3, <2>5 DEF WillBack, DefSeen
  <2>8. EndsWhole(q)
    BY <2>5 DEF EndsWhole
  <2>9. Good(q)
    BY <1>1, <2>5, <2>6, <2>7, <2>8 DEF Good
  <2> QED
    BY <2>1, <2>4, <2>9
<1> QED
  BY <1>3, <1>4, <1>5, <1>6 DEF ParseAll

LEMMA GoalTagsAre ==
  ASSUME NEW t \in GoalTags
  PROVE  t \in {"expr", "list", "doc", "top"} \cup Single \cup Repeats \cup Types \cup Names \cup Parts
BY DEF GoalTags, Tags, Single, Repeats, Types, Names, Parts

LEMMA StepGood ==
  ASSUME NEW p, Good(p), Running(p)
  PROVE  Good(Step(p))
<1>1. p.end = <<"no">>
  BY DEF Running
<1>2. CASE p.goals = <<>>
  BY <1>1, <1>2, AllGood DEF Step
<1>3. CASE p.goals # <<>>
  <2>1. Ready(p)
    BY <1>1, <1>3 DEF Ready
  <2>2. PICK g : g = Head(p.goals)
    OBVIOUS
  <2>3. g \in Goals /\ g[1] \in GoalTags
    BY <2>1, <2>2, ReadyMeans, TagOfGoal
  <2>4. g[1] \in {"expr", "list", "doc", "top"} \cup Single \cup Repeats \cup Types \cup Names \cup Parts
    BY <2>3, GoalTagsAre
  <2>5. /\ g[1] = "expr" => Good(ParseExpr(p))
        /\ g[1] = "list" => Good(ParseList(p))
        /\ g[1] \in Single => Good(ParseToken(p, g))
        /\ g[1] \in Repeats => Good(ParseRepeat(p, g))
        /\ g[1] \in Types => Good(ParseType(p, g))
        /\ g[1] \in Names => Good(ParseNames(p, g))
        /\ g[1] \in Parts => Good(ParsePart(p, g))
    BY <2>1, <2>2, ExprGood, ListGood, TokenGood, RepeatGood, TypeGood, NamesGood, PartsGood
  <2>6. /\ g[1] = "doc" => Good(Keep(p, "docs"))
        /\ g[1] = "top" => Good([Keep(p, "orphans") EXCEPT !.pending = <<>>])
    BY <2>1, <2>2, KeepGood
  <2>7. Good(Parse(p))
    BY <2>2, <2>4, <2>5, <2>6 DEF Parse
  <2> QED
    BY <1>3, <2>7 DEF Step
<1> QED
  BY <1>2, <1>3

LEMMA InitGood ==
  ASSUME NEW toks \in Seq(AllTokens)
  PROVE  Good(NewParser(toks))
<1>1. PICK p : p = NewParser(toks)
  OBVIOUS
<1>2. /\ p.toks = toks /\ p.pos = 1 /\ p.goals = <<>> /\ p.open = <<>> /\ p.pending = <<>>
      /\ p.docs = {} /\ p.orphans = {} /\ p.tree = <<>> /\ p.end = <<"no">>
  BY <1>1 DEF NewParser
<1>3. p \in Parsers
  BY <1>1 DEF NewParser, Parsers
<1>4. Fits(toks, 0, <<>>, <<>>)
  <2>1. Len(<<>>) = 0 /\ <<>> \in Kinds
    BY DEF Kinds
  <2>2. KindsOf(toks, <<>>) = <<>>
    BY DEF KindsOf
  <2>3. Leads(<<>>, KindsOf(toks, <<>>), <<>>)
    BY <2>1, <2>2, LeadsNone
  <2> QED
    BY <2>3, StackEmpty DEF Fits
<1>5. Len(p.goals) = 0 /\ Len(toks) \in Nat
  BY <1>2
<1>6. WillBack(p) /\ DefSeen(p) /\ EndsWhole(p)
  BY <1>2, <1>5 DEF WillBack, DefSeen, EndsWhole
<1>7. Good(p)
  BY <1>2, <1>3, <1>4, <1>5, <1>6 DEF Good
<1> QED
  BY <1>1, <1>7

Below == {pair \in Nat \X Nat : pair[1] < pair[2]}

LEMMA MinIsIn ==
  ASSUME NEW S \in SUBSET Nat, S # {}
  PROVE  Min(S) \in S
<1>1. OpToRel(<, Nat) = Below
  BY DEF OpToRel, Below
<1>2. IsWellFoundedOn(Below, Nat)
  BY <1>1, NatLessThanWellFounded
<1>3. PICK x \in S : \A y \in S : ~(<<y, x>> \in Below)
  BY <1>2, WFMin
<1>4. ASSUME NEW y \in S PROVE x <= y
  <2>1. x \in Nat /\ y \in Nat /\ ~(y < x)
    BY <1>3 DEF Below
  <2> QED
    BY <2>1
<1> QED
  BY <1>4 DEF Min

LEMMA UncommentedTyped ==
  ASSUME NEW toks \in Seq(AllTokens)
  PROVE  Uncommented(toks) \in Seq(AllTokens)
<1> DEFINE Code(k) == {j \in 1..k : toks[j][1] # ";"}
           N == Cardinality(Code(Len(toks)))
           At(n) == {k \in DOMAIN toks : Cardinality(Code(k)) >= n}
<1>0. N = Cardinality(Code(Len(toks)))
  OBVIOUS
<1>1. Uncommented(toks) = [n \in 1..N |-> toks[Min(At(n))]]
  BY DEF Uncommented
<1>2. Len(toks) \in Nat /\ DOMAIN toks = 1..Len(toks) /\ \A k \in 1..Len(toks) : toks[k] \in AllTokens
  OBVIOUS
<1>3. N \in Nat
  <2>1. IsFiniteSet(1..Len(toks))
    BY <1>2, FS_Interval
  <2>2. IsFiniteSet(Code(Len(toks)))
    BY <2>1, FS_Subset
  <2> QED
    BY <2>2, FS_CardinalityType
<1>4. Len(toks) = 0 => N = 0
  <2>1. Len(toks) = 0 => Code(Len(toks)) = {}
    BY <1>2
  <2> QED
    BY <2>1, FS_EmptySet
<1>5. ASSUME NEW n \in 1..N PROVE toks[Min(At(n))] \in AllTokens
  <2> HIDE DEF N
  <2>0. n \in Nat /\ 1 <= n /\ n <= N
    BY <1>3
  <2>1. Len(toks) \in At(n)
    <3>1. Len(toks) \in DOMAIN toks
      BY <1>2, <1>3, <1>4, <2>0
    <3> HIDE DEF Code
    <3> QED
      BY <1>0, <1>3, <2>0, <3>1
  <2>2. At(n) \in SUBSET Nat /\ At(n) \subseteq 1..Len(toks)
    <3> HIDE DEF Code
    <3>1. At(n) \subseteq DOMAIN toks
      OBVIOUS
    <3>2. 1..Len(toks) \subseteq Nat
      BY <1>2
    <3> QED
      BY <1>2, <3>1, <3>2
  <2> HIDE DEF At
  <2>3. Min(At(n)) \in At(n)
    BY <2>1, <2>2, MinIsIn
  <2> QED
    BY <1>2, <2>2, <2>3
<1> HIDE DEF N, At
<1>6. [n \in 1..N |-> toks[Min(At(n))]] \in [1..N -> AllTokens]
  BY <1>5
<1> QED
  BY <1>1, <1>3, <1>6

-----------------------------------------------------------------------------
(* The invariant holds of both parsers. *)
Inv == Good(build) /\ Good(format)

LEMMA Invariant == Spec => []Inv
<1>1. Init => Inv
  <2> SUFFICES ASSUME NEW toks \in Files, build = NewParser(toks), format = NewParser(Uncommented(toks))
               PROVE  Inv
    BY DEF Init
  <2>1. toks \in Seq(AllTokens)
    BY FilesAssumption
  <2>2. Uncommented(toks) \in Seq(AllTokens)
    BY <2>1, UncommentedTyped
  <2>3. Good(NewParser(toks)) /\ Good(NewParser(Uncommented(toks)))
    BY <2>1, <2>2, InitGood
  <2> QED
    BY <2>3 DEF Inv
<1>2. Inv /\ [Next]_vars => Inv'
  <2> SUFFICES ASSUME Inv, [Next]_vars PROVE Inv'
    OBVIOUS
  <2>1. CASE BuildReads
    <3>1. Good(Step(build))
      BY <2>1, StepGood DEF Inv, BuildReads
    <3> QED
      BY <2>1, <3>1 DEF Inv, BuildReads
  <2>2. CASE FormatReads
    <3>1. Good(Step(format))
      BY <2>2, StepGood DEF Inv, FormatReads
    <3> QED
      BY <2>2, <3>1 DEF Inv, FormatReads
  <2>3. CASE UNCHANGED vars
    BY <2>3 DEF Inv, vars
  <2> QED
    BY <2>1, <2>2, <2>3 DEF Next
<1> QED
  BY <1>1, <1>2, PTL DEF Spec

(* Every parser state is of its type, whatever the files: the goals in hand are *)
(* goals of parser.go, the positions it keeps are positions.                   *)
THEOREM TypeCorrect == Spec => []TypeOK
<1>1. Inv => TypeOK
  BY DEF Inv, Good, TypeOK
<1> QED
  BY <1>1, Invariant, PTL

(* Whatever the file, one that the parser accepts is balanced and each closing *)
(* delimiter matches its opening one: the goals close what is open, and at the *)
(* end of an accepted file no goal is left.                                    *)
THEOREM BalancedWhenAccepted == Spec => []AcceptedIsBalanced
<1>1. Inv => AcceptedIsBalanced
  <2> SUFFICES ASSUME NEW p, Good(p), p.end = <<"ok">> PROVE Matched(p.toks)
    BY DEF Inv, AcceptedIsBalanced
  <2>1. p \in Parsers /\ p.goals = <<>> /\ p.pos = Len(p.toks) + 1 /\ Fits(p.toks, p.pos - 1, p.goals, p.open)
    BY DEF Good, EndsWhole
  <2>2. p.toks \in Seq(AllTokens) /\ Len(p.toks) \in Nat
    BY <2>1, ParserTyped
  <2>3. p.pos - 1 = Len(p.toks)
    BY <2>1, <2>2
  <2>4. Fits(p.toks, Len(p.toks), <<>>, p.open)
    BY <2>1, <2>3
  <2>5. PICK s : Stack(p.toks, Len(p.toks), s) /\ Leads(<<>>, KindsOf(p.toks, s), <<>>)
    BY <2>4 DEF Fits
  <2>6. Len(p.toks) \in 0..Len(p.toks)
    BY <2>2
  <2>7. KindsOf(p.toks, s) \in Kinds /\ Len(KindsOf(p.toks, s)) = Len(s) /\ s \in Seq(Nat)
    BY <2>2, <2>5, <2>6, KindsTyped
  <2>8. KindsOf(p.toks, s) = <<>>
    BY <2>5, <2>7, LeadsNone
  <2>9. s = <<>>
    <3>1. Len(s) = 0
      BY <2>7, <2>8
    <3> QED
      BY <2>7, <3>1, EmptySeq
  <2> QED
    BY <2>2, <2>5, <2>9, StackMatched
<1> QED
  BY <1>1, Invariant, PTL

(* Whatever the file, openStack holds the delimiters that are open, unless the *)
(* file has a def whose value begins like a type with delimiters.              *)
THEOREM OpenersKnown == Spec => []OpenersTracked
<1>1. Inv => OpenersTracked
  <2> SUFFICES ASSUME NEW p, Good(p), ~TriesType(p.toks)
               PROVE  Lists(p.open, Unclosed(p.toks, p.pos - 1))
    BY DEF Inv, OpenersTracked
  <2>1. p \in Parsers /\ p.pos <= Len(p.toks) + 1 /\ Fits(p.toks, p.pos - 1, p.goals, p.open)
    BY DEF Good
  <2>2. /\ p.toks \in Seq(AllTokens) /\ Len(p.toks) \in Nat /\ p.pos \in Nat /\ p.pos >= 1
    BY <2>1, ParserTyped
  <2>3. PICK n : n = p.pos - 1
    OBVIOUS
  <2>4. n \in 0..Len(p.toks)
    BY <2>1, <2>2, <2>3
  <2>5. Stack(p.toks, n, p.open)
    BY <2>1, <2>3 DEF Fits
  <2> QED
    BY <2>2, <2>3, <2>4, <2>5, StackUnclosed
<1> QED
  BY <1>1, Invariant, PTL
=============================================================================
