-------------------------- MODULE MacroExpandProofs --------------------------
(* Theorems about MacroExpand, for any macros, programs and depth.          *)
EXTENDS MacroExpand, SequenceTheorems, TLAPS

-------------------------------------------------------------------------------
(* Positions. *)
Under(p, q) == IsPrefix(p, q) /\ p # q

LEMMA PrefixMeans ==
  ASSUME NEW p \in Positions, NEW q \in Positions
  PROVE  IsPrefix(p, q) <=> Len(p) <= Len(q) /\ \A i \in 1..Len(p) : p[i] = q[i]
<1>1. SubSeq(p, 1, Len(p)) = p
  BY SubSeqFull DEF Positions
<1>2. ASSUME Len(p) <= Len(q)
      PROVE  /\ SubSeq(q, 1, Len(p)) \in Positions
             /\ Len(SubSeq(q, 1, Len(p))) = Len(p)
             /\ \A i \in 1..Len(p) : SubSeq(q, 1, Len(p))[i] = q[i]
  BY <1>2 DEF Positions
<1>3. ASSUME Len(p) <= Len(q), \A i \in 1..Len(p) : p[i] = q[i]
      PROVE  p = SubSeq(q, 1, Len(p))
  BY <1>2, <1>3, SeqEqual DEF Positions
<1> QED
  BY <1>1, <1>2, <1>3 DEF IsPrefix

LEMMA Prefixing ==
  ASSUME NEW p \in Positions, NEW q \in Positions, NEW r \in Positions
  PROVE  /\ IsPrefix(p, p) /\ IsPrefix(<<>>, p)
         /\ IsPrefix(p, q) /\ IsPrefix(q, p) => p = q
         /\ IsPrefix(p, q) /\ IsPrefix(q, r) => IsPrefix(p, r)
         /\ IsPrefix(p, r) /\ IsPrefix(q, r) => IsPrefix(p, q) \/ IsPrefix(q, p)
<1>0. <<>> \in Positions /\ Len(<<>>) = 0
  BY DEF Positions
<1>1. Len(p) \in Nat /\ Len(q) \in Nat /\ Len(r) \in Nat
  BY DEF Positions
<1>2. IsPrefix(p, p) /\ IsPrefix(<<>>, p)
  BY <1>0, <1>1, PrefixMeans
<1>3. ASSUME IsPrefix(p, q), IsPrefix(q, p) PROVE p = q
  BY <1>1, <1>3, PrefixMeans, SeqEqual DEF Positions
<1>4. ASSUME IsPrefix(p, q), IsPrefix(q, r) PROVE IsPrefix(p, r)
  BY <1>1, <1>4, PrefixMeans
<1>5. ASSUME IsPrefix(p, r), IsPrefix(q, r) PROVE IsPrefix(p, q) \/ IsPrefix(q, p)
  <2>1. CASE Len(p) <= Len(q)
    BY <1>1, <1>5, <2>1, PrefixMeans
  <2>2. CASE Len(q) <= Len(p)
    BY <1>1, <1>5, <2>2, PrefixMeans
  <2> QED
    BY <1>1, <2>1, <2>2
<1> QED
  BY <1>2, <1>3, <1>4, <1>5

(* Concatenation, and what lies below a prefix. *)
LEMMA Joining ==
  ASSUME NEW p \in Positions, NEW r \in Positions
  PROVE  /\ p \o r \in Positions /\ Len(p \o r) = Len(p) + Len(r)
         /\ \A i \in 1..Len(p) : (p \o r)[i] = p[i]
         /\ \A i \in 1..Len(r) : (p \o r)[Len(p) + i] = r[i]
         /\ IsPrefix(p, p \o r)
         /\ From(p, p \o r) = r
<1>1. /\ p \o r \in Positions /\ Len(p \o r) = Len(p) + Len(r)
      /\ \A i \in 1..Len(p) : (p \o r)[i] = p[i]
      /\ \A i \in 1..Len(r) : (p \o r)[Len(p) + i] = r[i]
      /\ Len(p) \in Nat /\ Len(r) \in Nat
  BY ConcatProperties DEF Positions
<1>2. IsPrefix(p, p \o r)
  <2> DEFINE t == p \o r
  <2>1. t \in Positions /\ Len(p) <= Len(t) /\ \A i \in 1..Len(p) : p[i] = t[i]
    BY <1>1
  <2> HIDE DEF t
  <2>2. IsPrefix(p, t)
    BY <2>1, PrefixMeans
  <2> QED
    BY <2>2 DEF t
<1>3. From(p, p \o r) = r
  <2> DEFINE s == SubSeq(p \o r, Len(p) + 1, Len(p \o r))
  <2>1. /\ s \in Positions /\ Len(s) = Len(r)
        /\ \A i \in 1..Len(s) : s[i] = (p \o r)[Len(p) + 1 + i - 1]
    <3> HIDE DEF s
    <3> DEFINE t == p \o r
    <3>1. t \in Seq(Nat \ {0}) /\ Len(t) = Len(p) + Len(r)
      BY <1>1 DEF Positions
    <3> HIDE DEF t
    <3>2. \A i \in Len(p) + 1..Len(t) : t[i] \in Nat \ {0}
      BY <1>1, <3>1
    <3>3. /\ SubSeq(t, Len(p) + 1, Len(t)) \in Seq(Nat \ {0})
          /\ Len(SubSeq(t, Len(p) + 1, Len(t))) =
               IF Len(p) + 1 <= Len(t) THEN Len(t) - (Len(p) + 1) + 1 ELSE 0
          /\ \A i \in 1..Len(t) - (Len(p) + 1) + 1 :
               SubSeq(t, Len(p) + 1, Len(t))[i] = t[Len(p) + 1 + i - 1]
      BY <1>1, <3>1, <3>2, SubSeqProperties
    <3> QED
      BY <1>1, <3>1, <3>3 DEF s, t, Positions
  <2>2. \A i \in 1..Len(s) : s[i] = r[i]
    BY <1>1, <2>1
  <2> HIDE DEF s
  <2>3. s = r
    BY <2>1, <2>2, SeqEqual DEF Positions
  <2> QED
    BY <2>3 DEF From, s
<1> QED
  BY <1>1, <1>2, <1>3

(* A position is its prefix and the rest. *)
LEMMA Splitting ==
  ASSUME NEW p \in Positions, NEW q \in Positions, IsPrefix(p, q)
  PROVE  From(p, q) \in Positions /\ q = p \o From(p, q)
<1>1. Len(p) \in Nat /\ Len(q) \in Nat /\ Len(p) <= Len(q)
  BY PrefixMeans DEF Positions
<1>2. \A i \in Len(p) + 1..Len(q) : q[i] \in Nat \ {0}
  BY <1>1 DEF Positions
<1>3. PICK r : r = From(p, q)
  OBVIOUS
<1>4. /\ r \in Positions /\ Len(r) = Len(q) - Len(p)
      /\ \A i \in 1..Len(r) : r[i] = q[Len(p) + i]
  <2>1. /\ SubSeq(q, Len(p) + 1, Len(q)) \in Seq(Nat \ {0})
        /\ Len(SubSeq(q, Len(p) + 1, Len(q))) =
             IF Len(p) + 1 <= Len(q) THEN Len(q) - (Len(p) + 1) + 1 ELSE 0
        /\ \A i \in 1..Len(q) - (Len(p) + 1) + 1 :
             SubSeq(q, Len(p) + 1, Len(q))[i] = q[Len(p) + 1 + i - 1]
    BY <1>1, <1>2, SubSeqProperties
  <2> QED
    BY <1>1, <1>3, <2>1 DEF From, Positions
<1>5. PICK t : t = p \o r
  OBVIOUS
<1>6. /\ t \in Positions /\ Len(t) = Len(q)
      /\ \A i \in 1..Len(p) : t[i] = p[i]
      /\ \A i \in 1..Len(r) : t[Len(p) + i] = r[i]
  BY <1>1, <1>4, <1>5, Joining
<1>7. \A i \in 1..Len(q) : t[i] = q[i]
  <2> TAKE i \in 1..Len(q)
  <2>1. CASE i <= Len(p)
    BY <1>1, <1>6, <2>1, PrefixMeans
  <2>2. CASE i > Len(p)
    <3>1. i - Len(p) \in 1..Len(r) /\ i = Len(p) + (i - Len(p))
      BY <1>1, <1>4, <2>2
    <3> QED
      BY <1>4, <1>6, <3>1
  <2> QED
    BY <1>1, <2>1, <2>2
<1>8. t = q
  BY <1>6, <1>7, SeqEqual DEF Positions
<1> QED
  BY <1>3, <1>4, <1>5, <1>8

(* Joining keeps and reflects the order of positions. *)
LEMMA JoinedPrefix ==
  ASSUME NEW p \in Positions, NEW q \in Positions, NEW r \in Positions
  PROVE  /\ IsPrefix(p \o q, p \o r) <=> IsPrefix(q, r)
         /\ p \o q = p \o r <=> q = r
<1>1. PICK a : a = p \o q
  OBVIOUS
<1>2. PICK b : b = p \o r
  OBVIOUS
<1>3. /\ a \in Positions /\ Len(a) = Len(p) + Len(q)
      /\ \A i \in 1..Len(p) : a[i] = p[i]
      /\ \A i \in 1..Len(q) : a[Len(p) + i] = q[i]
      /\ b \in Positions /\ Len(b) = Len(p) + Len(r)
      /\ \A i \in 1..Len(p) : b[i] = p[i]
      /\ \A i \in 1..Len(r) : b[Len(p) + i] = r[i]
      /\ From(p, a) = q /\ From(p, b) = r
  BY <1>1, <1>2, Joining
<1>4. Len(p) \in Nat /\ Len(q) \in Nat /\ Len(r) \in Nat
  BY DEF Positions
<1>5. ASSUME IsPrefix(a, b) PROVE IsPrefix(q, r)
  <2>0. Len(a) <= Len(b) /\ \A i \in 1..Len(a) : a[i] = b[i]
    BY <1>3, <1>5, PrefixMeans
  <2>1. Len(q) <= Len(r) /\ \A i \in 1..Len(a) : a[i] = b[i]
    BY <1>3, <1>4, <2>0
  <2>2. \A i \in 1..Len(q) : q[i] = r[i]
    <3> TAKE i \in 1..Len(q)
    <3>1. Len(p) + i \in 1..Len(a) /\ i \in 1..Len(r)
      BY <1>3, <1>4, <2>1
    <3> QED
      BY <1>3, <2>1, <3>1
  <2> QED
    BY <2>1, <2>2, PrefixMeans
<1>6. ASSUME IsPrefix(q, r) PROVE IsPrefix(a, b)
  <2>1. Len(q) <= Len(r) /\ \A i \in 1..Len(q) : q[i] = r[i]
    BY <1>6, PrefixMeans
  <2>2. \A i \in 1..Len(a) : a[i] = b[i]
    <3> TAKE i \in 1..Len(a)
    <3>1. CASE i <= Len(p)
      BY <1>3, <1>4, <3>1
    <3>2. CASE i > Len(p)
      <4>1. PICK k : k \in 1..Len(q) /\ k \in 1..Len(r) /\ i = Len(p) + k
        <5>1. i - Len(p) \in 1..Len(q) /\ i - Len(p) \in 1..Len(r) /\ i = Len(p) + (i - Len(p))
          BY <1>3, <1>4, <2>1, <3>2
        <5> QED
          BY <5>1
      <4> QED
        BY <1>3, <2>1, <4>1
    <3> QED
      BY <1>3, <1>4, <3>1, <3>2
  <2>3. Len(a) <= Len(b)
    BY <1>3, <1>4, <2>1
  <2> QED
    BY <1>3, <2>2, <2>3, PrefixMeans
<1>7. a = b <=> q = r
  BY <1>1, <1>2, <1>3
<1> QED
  BY <1>1, <1>2, <1>5, <1>6, <1>7

(* A prefix of a joined position ends before the joint or after it. *)
LEMMA PrefixOfJoined ==
  ASSUME NEW p \in Positions, NEW r \in Positions, NEW q \in Positions, Under(q, p \o r)
  PROVE  \/ Under(q, p)
         \/ \E s \in Positions : q = p \o s /\ Under(s, r)
<1>1. p \o r \in Positions /\ IsPrefix(p, p \o r)
  BY Joining
<1>2. IsPrefix(q, p) \/ IsPrefix(p, q)
  BY <1>1, Prefixing DEF Under
<1>3. ASSUME IsPrefix(p, q) PROVE \E s \in Positions : q = p \o s /\ Under(s, r)
  <2>1. PICK s \in Positions : q = p \o s
    BY <1>3, Splitting
  <2>2. IsPrefix(p \o s, p \o r) /\ p \o s # p \o r
    BY <2>1 DEF Under
  <2>3. IsPrefix(s, r) /\ s # r
    BY <2>2, JoinedPrefix
  <2> QED
    BY <2>1, <2>3 DEF Under
<1>4. IsPrefix(p, p)
  BY Prefixing
<1> QED
  BY <1>2, <1>3, <1>4 DEF Under

(* One step further down. *)
LEMMA Extending ==
  ASSUME NEW p \in Positions, NEW i \in Nat \ {0}
  PROVE  /\ Append(p, i) \in Positions
         /\ IsPrefix(p, Append(p, i)) /\ p # Append(p, i)
         /\ Append(p, i)[Len(p) + 1] = i
         /\ Append(p, i) = p \o <<i>>
         /\ \A q \in Positions : Under(q, Append(p, i)) <=> IsPrefix(q, p)
         /\ \A q \in Positions : p \o Append(q, i) = Append(p \o q, i)
<1>1. PICK a : a = Append(p, i)
  OBVIOUS
<1>2. /\ a \in Positions /\ Len(a) = Len(p) + 1 /\ Len(p) \in Nat
      /\ a[Len(p) + 1] = i /\ \A k \in 1..Len(p) : a[k] = p[k]
  BY <1>1 DEF Positions
<1>3. IsPrefix(p, a) /\ p # a
  BY <1>2, PrefixMeans
<1>4. a = p \o <<i>>
  BY <1>1, AppendIsConcat DEF Positions
<1>5. ASSUME NEW q \in Positions, Under(q, a) PROVE IsPrefix(q, p)
  <2>1. Len(q) \in Nat /\ Len(q) <= Len(a) /\ \A k \in 1..Len(q) : q[k] = a[k]
    BY <1>2, <1>5, PrefixMeans DEF Under, Positions
  <2>2. Len(q) # Len(a)
    BY <1>2, <1>5, <2>1, SeqEqual DEF Under, Positions
  <2> QED
    BY <1>2, <2>1, <2>2, PrefixMeans
<1>6. ASSUME NEW q \in Positions, IsPrefix(q, p) PROVE Under(q, a)
  BY <1>2, <1>3, <1>6, Prefixing DEF Under
<1>7. ASSUME NEW q \in Positions PROVE p \o Append(q, i) = Append(p \o q, i)
  <2>1. <<i>> \in Seq(Nat \ {0}) /\ p \o q \in Seq(Nat \ {0})
    BY Joining DEF Positions
  <2>2. Append(q, i) = q \o <<i>> /\ Append(p \o q, i) = (p \o q) \o <<i>>
    BY <2>1, AppendIsConcat DEF Positions
  <2>3. p \o (q \o <<i>>) = (p \o q) \o <<i>>
    BY <2>1, ConcatAssociative DEF Positions
  <2> QED
    BY <2>2, <2>3
<1> QED
  BY <1>1, <1>2, <1>3, <1>4, <1>5, <1>6, <1>7

-------------------------------------------------------------------------------
(* Forms. *)
LEMMA UnderMeans ==
  ASSUME NEW p \in Positions
  PROVE  /\ \A n \in 1..Len(p) : /\ SubSeq(p, 1, n - 1) \in Positions
                                 /\ Len(SubSeq(p, 1, n - 1)) = n - 1
                                 /\ Under(SubSeq(p, 1, n - 1), p)
         /\ \A q \in Positions : Under(q, p) =>
              /\ Len(q) + 1 \in 1..Len(p)
              /\ q = SubSeq(p, 1, (Len(q) + 1) - 1)
<1>1. ASSUME NEW n \in 1..Len(p)
      PROVE  /\ SubSeq(p, 1, n - 1) \in Positions
             /\ Len(SubSeq(p, 1, n - 1)) = n - 1
             /\ Under(SubSeq(p, 1, n - 1), p)
  <2>1. PICK s : s = SubSeq(p, 1, n - 1)
    OBVIOUS
  <2>2. n - 1 \in Int /\ Len(p) \in Nat /\ \A k \in 1..n - 1 : p[k] \in Nat \ {0}
    BY DEF Positions
  <2>3. /\ s \in Positions /\ Len(s) = n - 1
        /\ \A k \in 1..n - 1 : s[k] = p[k]
    <3>1. /\ SubSeq(p, 1, n - 1) \in Seq(Nat \ {0})
          /\ Len(SubSeq(p, 1, n - 1)) = IF 1 <= n - 1 THEN (n - 1) - 1 + 1 ELSE 0
          /\ \A k \in 1..(n - 1) - 1 + 1 : SubSeq(p, 1, n - 1)[k] = p[1 + k - 1]
      BY <2>2, SubSeqProperties
    <3> QED
      BY <2>1, <2>2, <3>1 DEF Positions
  <2>4. Len(s) < Len(p) /\ \A k \in 1..Len(s) : s[k] = p[k]
    BY <2>2, <2>3
  <2>5. IsPrefix(s, p) /\ s # p
    BY <2>2, <2>3, <2>4, PrefixMeans
  <2> QED
    BY <2>1, <2>3, <2>5 DEF Under
<1>2. ASSUME NEW q \in Positions, Under(q, p)
      PROVE  Len(q) + 1 \in 1..Len(p) /\ q = SubSeq(p, 1, (Len(q) + 1) - 1)
  <2>1. /\ Len(q) \in Nat /\ Len(p) \in Nat /\ Len(q) <= Len(p)
        /\ \A k \in 1..Len(q) : q[k] = p[k]
    BY <1>2, PrefixMeans DEF Under, Positions
  <2>2. Len(q) # Len(p)
    BY <1>2, <2>1, SeqEqual DEF Under, Positions
  <2>3. PICK n : n = Len(q) + 1
    OBVIOUS
  <2>4. n \in 1..Len(p) /\ n - 1 = Len(q)
    BY <2>1, <2>2, <2>3
  <2>5. PICK s : s = SubSeq(p, 1, n - 1)
    OBVIOUS
  <2>6. s \in Positions /\ Len(s) = n - 1 /\ Under(s, p)
    BY <1>1, <2>4, <2>5
  <2>7. \A k \in 1..Len(s) : s[k] = p[k]
    BY <2>6, PrefixMeans DEF Under
  <2>8. s = q
    BY <2>1, <2>4, <2>6, <2>7, SeqEqual DEF Positions
  <2> QED
    BY <2>3, <2>4, <2>5, <2>8
<1> QED
  BY <1>1, <1>2

(* A node and those above it, in terms of prefixes. *)
Standing(f, p) ==
  /\ f[p].args \in Nat
  /\ \A i \in 1..f[p].args : Append(p, i) \in DOMAIN f
  /\ \A q \in Positions : Under(q, p) => /\ q \in DOMAIN f
                                         /\ p[Len(q) + 1] \in 1..f[q].args

LEMMA FormMeans ==
  ASSUME NEW f
  PROVE  IsForm(f) <=> /\ DOMAIN f \subseteq Positions
                       /\ <<>> \in DOMAIN f
                       /\ \A p \in DOMAIN f : Standing(f, p)
<1>1. ASSUME IsForm(f), NEW p \in DOMAIN f PROVE Standing(f, p)
  <2>1. /\ p \in Positions /\ f[p].args \in Nat
        /\ \A i \in 1..f[p].args : Append(p, i) \in DOMAIN f
    BY <1>1 DEF IsForm
  <2>2. ASSUME NEW q \in Positions, Under(q, p)
        PROVE  q \in DOMAIN f /\ p[Len(q) + 1] \in 1..f[q].args
    <3>1. PICK n \in 1..Len(p) : n = Len(q) + 1 /\ q = SubSeq(p, 1, n - 1)
      BY <2>1, <2>2, UnderMeans
    <3>2. SubSeq(p, 1, n - 1) \in DOMAIN f /\ p[n] \in 1..f[SubSeq(p, 1, n - 1)].args
      BY <1>1 DEF IsForm
    <3> QED
      BY <3>1, <3>2
  <2> QED
    BY <2>1, <2>2 DEF Standing
<1>2. ASSUME DOMAIN f \subseteq Positions, NEW p \in DOMAIN f, Standing(f, p),
             NEW n \in 1..Len(p)
      PROVE  SubSeq(p, 1, n - 1) \in DOMAIN f /\ p[n] \in 1..f[SubSeq(p, 1, n - 1)].args
  <2>1. PICK q \in Positions : q = SubSeq(p, 1, n - 1) /\ Len(q) = n - 1 /\ Under(q, p)
    BY <1>2, UnderMeans
  <2>2. q \in DOMAIN f /\ p[Len(q) + 1] \in 1..f[q].args
    BY <1>2, <2>1 DEF Standing
  <2>3. Len(q) + 1 = n
    BY <2>1
  <2> QED
    BY <2>1, <2>2, <2>3
<1>3. ASSUME DOMAIN f \subseteq Positions, <<>> \in DOMAIN f, \A p \in DOMAIN f : Standing(f, p)
      PROVE  IsForm(f)
  <2>1. \A p \in DOMAIN f : f[p].args \in Nat /\ \A i \in 1..f[p].args : Append(p, i) \in DOMAIN f
    BY <1>3 DEF Standing
  <2> QED
    BY <1>2, <1>3, <2>1 DEF IsForm
<1> QED
  BY <1>1, <1>3 DEF IsForm

(* A walk goes through every node above. *)
LEMMA WalkMeans ==
  ASSUME NEW f, IsForm(f), NEW p
  PROVE  p \in WalkedPaths(f) <=>
           /\ p \in DOMAIN f /\ p \in Positions
           /\ \A q \in Positions : Under(q, p) => Walks(f[q])
<1>1. DOMAIN f \subseteq Positions
  BY DEF IsForm
<1>2. ASSUME p \in WalkedPaths(f), NEW q \in Positions, Under(q, p) PROVE Walks(f[q])
  <2>1. p \in Positions /\ \A n \in 1..Len(p) : Walks(f[SubSeq(p, 1, n - 1)])
    BY <1>1, <1>2 DEF WalkedPaths
  <2>2. PICK n \in 1..Len(p) : n = Len(q) + 1 /\ q = SubSeq(p, 1, n - 1)
    BY <1>2, <2>1, UnderMeans
  <2> QED
    BY <2>1, <2>2
<1>3. ASSUME p \in DOMAIN f, \A q \in Positions : Under(q, p) => Walks(f[q])
      PROVE  p \in WalkedPaths(f)
  <2>1. \A n \in 1..Len(p) : Walks(f[SubSeq(p, 1, n - 1)])
    BY <1>1, <1>3, UnderMeans
  <2> QED
    BY <1>3, <2>1 DEF WalkedPaths
<1> QED
  BY <1>1, <1>2, <1>3 DEF WalkedPaths

(* The step below a prefix, before the joint and after it. *)
LEMMA NextStep ==
  ASSUME NEW p \in Positions, NEW r \in Positions, NEW q \in Positions
  PROVE  /\ Under(q, p) => (p \o r)[Len(q) + 1] = p[Len(q) + 1]
         /\ Under(q, r) => (p \o r)[Len(p \o q) + 1] = r[Len(q) + 1]
<1>1. /\ \A i \in 1..Len(p) : (p \o r)[i] = p[i]
      /\ \A i \in 1..Len(r) : (p \o r)[Len(p) + i] = r[i]
      /\ Len(p \o q) = Len(p) + Len(q)
  BY Joining
<1>2. Under(q, p) => Len(q) + 1 \in 1..Len(p)
  BY UnderMeans
<1>3. ASSUME Under(q, r) PROVE (p \o r)[Len(p \o q) + 1] = r[Len(q) + 1]
  <2>1. PICK n : n = Len(q) + 1
    OBVIOUS
  <2>2. n \in 1..Len(r)
    BY <1>3, <2>1, UnderMeans
  <2>3. (p \o r)[Len(p) + n] = r[n]
    BY <1>1, <2>2
  <2>4. Len(p \o q) + 1 = Len(p) + n
    BY <1>1, <2>1 DEF Positions
  <2> QED
    BY <2>1, <2>3, <2>4
<1> QED
  BY <1>1, <1>2, <1>3

(* The form at a position: the positions below it. *)
LEMMA AtMeans ==
  ASSUME NEW f, IsForm(f), NEW path \in DOMAIN f
  PROVE  /\ IsForm(At(f, path))
         /\ \A q \in Positions : q \in DOMAIN At(f, path) <=> path \o q \in DOMAIN f
         /\ \A q \in DOMAIN At(f, path) : At(f, path)[q] = f[path \o q]
<1>0. DOMAIN f \subseteq Positions /\ path \in Positions
  BY DEF IsForm
<1>1. PICK g : g = At(f, path)
  OBVIOUS
<1>2. DOMAIN g = { From(path, p) : p \in { d \in DOMAIN f : IsPrefix(path, d) } }
  BY <1>1 DEF At
<1>3. \A q \in DOMAIN g : g[q] = f[path \o q]
  BY <1>1 DEF At
<1>4. ASSUME NEW q \in DOMAIN g PROVE q \in Positions /\ path \o q \in DOMAIN f
  <2>1. PICK p \in DOMAIN f : IsPrefix(path, p) /\ q = From(path, p)
    BY <1>2
  <2> QED
    BY <1>0, <2>1, Splitting
<1>5. ASSUME NEW q \in Positions, path \o q \in DOMAIN f PROVE q \in DOMAIN g
  <2>1. IsPrefix(path, path \o q) /\ From(path, path \o q) = q
    BY <1>0, Joining
  <2> QED
    BY <1>2, <1>5, <2>1
<1>6. ASSUME NEW q \in DOMAIN g PROVE Standing(g, q)
  <2>1. PICK p \in DOMAIN f : p = path \o q
    BY <1>4
  <2>2. Standing(f, p) /\ q \in Positions /\ g[q] = f[p]
    BY <1>3, <1>4, <2>1, FormMeans
  <2>3. ASSUME NEW i \in 1..g[q].args PROVE Append(q, i) \in DOMAIN g
    <3>1. Append(p, i) \in DOMAIN f /\ i \in Nat \ {0}
      BY <2>2, <2>3 DEF Standing
    <3>2. path \o Append(q, i) = Append(p, i) /\ Append(q, i) \in Positions
      BY <1>0, <2>1, <2>2, <3>1, Extending
    <3> QED
      BY <1>5, <3>1, <3>2
  <2>4. ASSUME NEW s \in Positions, Under(s, q)
        PROVE  s \in DOMAIN g /\ q[Len(s) + 1] \in 1..g[s].args
    <3>1. path \o s \in Positions
      BY <1>0, Joining
    <3>2. Under(path \o s, p)
      BY <1>0, <2>1, <2>2, <2>4, JoinedPrefix DEF Under
    <3>3. path \o s \in DOMAIN f /\ p[Len(path \o s) + 1] \in 1..f[path \o s].args
      BY <2>2, <3>1, <3>2 DEF Standing
    <3>4. p[Len(path \o s) + 1] = q[Len(s) + 1]
      BY <1>0, <2>1, <2>2, <2>4, NextStep
    <3> QED
      BY <1>3, <1>5, <3>3, <3>4
  <2> QED
    BY <2>2, <2>3, <2>4 DEF Standing
<1>7. <<>> \in DOMAIN g
  <2>1. <<>> \in Positions /\ path \o <<>> = path
    BY <1>0, ConcatEmptySeq DEF Positions
  <2> QED
    BY <1>5, <2>1
<1>8. IsForm(g)
  BY <1>4, <1>6, <1>7, FormMeans
<1> QED
  BY <1>1, <1>3, <1>4, <1>5, <1>8

(* The tree with another form at a position: the old nodes elsewhere, the  *)
(* new ones below.                                                         *)
LEMMA PutAtMeans ==
  ASSUME NEW f, IsForm(f), NEW path \in DOMAIN f, NEW g, IsForm(g)
  PROVE  LET h == PutAt(f, path, g)
         IN  /\ IsForm(h)
             /\ \A p \in Positions : ~IsPrefix(path, p) =>
                  /\ p \in DOMAIN h <=> p \in DOMAIN f
                  /\ p \in DOMAIN h => h[p] = f[p]
             /\ \A q \in DOMAIN g : path \o q \in DOMAIN h /\ h[path \o q] = g[q]
             /\ \A p \in DOMAIN h : IsPrefix(path, p) =>
                  \E q \in DOMAIN g : p = path \o q
<1>0. /\ DOMAIN f \subseteq Positions /\ path \in Positions
      /\ DOMAIN g \subseteq Positions /\ <<>> \in DOMAIN g
  BY DEF IsForm
<1>1. PICK h : h = PutAt(f, path, g)
  OBVIOUS
<1>2. DOMAIN h = { d \in DOMAIN f : ~IsPrefix(path, d) } \cup { path \o q : q \in DOMAIN g }
  BY <1>1 DEF PutAt
<1>3. \A p \in DOMAIN h : h[p] = IF IsPrefix(path, p) THEN g[From(path, p)] ELSE f[p]
  BY <1>1 DEF PutAt
<1>4. ASSUME NEW q \in DOMAIN g
      PROVE  /\ path \o q \in Positions /\ IsPrefix(path, path \o q)
             /\ path \o q \in DOMAIN h /\ h[path \o q] = g[q]
  <2>1. /\ path \o q \in Positions /\ IsPrefix(path, path \o q)
        /\ From(path, path \o q) = q
    BY <1>0, Joining
  <2>2. path \o q \in DOMAIN h
    BY <1>2
  <2> QED
    BY <1>3, <2>1, <2>2
<1>5. ASSUME NEW p \in Positions, ~IsPrefix(path, p)
      PROVE  /\ p \in DOMAIN h <=> p \in DOMAIN f
             /\ p \in DOMAIN h => h[p] = f[p]
  BY <1>2, <1>3, <1>4, <1>5
<1>6. ASSUME NEW p \in DOMAIN h, IsPrefix(path, p) PROVE \E q \in DOMAIN g : p = path \o q
  BY <1>2, <1>6
<1>7. DOMAIN h \subseteq Positions
  BY <1>0, <1>2, <1>4
<1>8. ASSUME NEW p \in DOMAIN h, ~IsPrefix(path, p) PROVE Standing(h, p)
  <2>1. p \in Positions /\ p \in DOMAIN f /\ h[p] = f[p]
    BY <1>5, <1>7, <1>8
  <2>2. Standing(f, p)
    BY <2>1, FormMeans
  <2>3. ASSUME NEW i \in 1..h[p].args PROVE Append(p, i) \in DOMAIN h
    <3>1. Append(p, i) \in DOMAIN f /\ i \in Nat \ {0}
      BY <2>1, <2>2, <2>3 DEF Standing
    <3>2. CASE ~IsPrefix(path, Append(p, i))
      BY <1>0, <1>5, <3>1, <3>2
    <3>3. CASE IsPrefix(path, Append(p, i))
      <4>1. path = Append(p, i)
        BY <1>0, <1>8, <2>1, <3>1, <3>3, Extending DEF Under
      <4>2. path \o <<>> = path
        BY <1>0, ConcatEmptySeq DEF Positions
      <4> QED
        BY <1>0, <1>4, <4>1, <4>2
    <3> QED
      BY <3>2, <3>3
  <2>4. ASSUME NEW q \in Positions, Under(q, p)
        PROVE  q \in DOMAIN h /\ p[Len(q) + 1] \in 1..h[q].args
    <3>1. q \in DOMAIN f /\ p[Len(q) + 1] \in 1..f[q].args
      BY <2>2, <2>4 DEF Standing
    <3>2. ~IsPrefix(path, q)
      BY <1>0, <1>8, <2>1, <2>4, Prefixing DEF Under
    <3> QED
      BY <1>5, <3>1, <3>2
  <2> QED
    BY <2>1, <2>2, <2>3, <2>4 DEF Standing
<1>9. ASSUME NEW r \in DOMAIN g PROVE Standing(h, path \o r)
  <2>1. PICK p : p = path \o r
    OBVIOUS
  <2>2. Standing(g, r) /\ Standing(f, path) /\ r \in Positions
    BY <1>0, FormMeans
  <2>3. p \in DOMAIN h /\ h[p] = g[r]
    BY <1>4, <2>1
  <2>4. ASSUME NEW i \in 1..h[p].args PROVE Append(p, i) \in DOMAIN h
    <3>1. Append(r, i) \in DOMAIN g /\ i \in Nat \ {0}
      BY <2>2, <2>3, <2>4 DEF Standing
    <3>2. path \o Append(r, i) = Append(p, i)
      BY <1>0, <2>1, <2>2, <3>1, Extending
    <3> QED
      BY <1>4, <3>1, <3>2
  <2>5. ASSUME NEW q \in Positions, Under(q, p)
        PROVE  q \in DOMAIN h /\ p[Len(q) + 1] \in 1..h[q].args
    <3>1. CASE Under(q, path)
      <4>1. q \in DOMAIN f /\ path[Len(q) + 1] \in 1..f[q].args
        BY <2>2, <3>1 DEF Standing
      <4>2. ~IsPrefix(path, q)
        BY <1>0, <3>1, Prefixing DEF Under
      <4>3. p[Len(q) + 1] = path[Len(q) + 1]
        BY <1>0, <2>1, <2>2, <3>1, NextStep
      <4> QED
        BY <1>5, <4>1, <4>2, <4>3
    <3>2. CASE \E s \in Positions : q = path \o s /\ Under(s, r)
      <4>1. PICK s \in Positions : q = path \o s /\ Under(s, r)
        BY <3>2
      <4>2. s \in DOMAIN g /\ r[Len(s) + 1] \in 1..g[s].args
        BY <2>2, <4>1 DEF Standing
      <4>3. p[Len(path \o s) + 1] = r[Len(s) + 1]
        BY <1>0, <2>1, <2>2, <4>1, NextStep
      <4>4. path \o s \in DOMAIN h /\ h[path \o s] = g[s]
        BY <1>4, <4>2
      <4> QED
        BY <4>1, <4>2, <4>3, <4>4
    <3> QED
      BY <1>0, <2>1, <2>2, <2>5, <3>1, <3>2, PrefixOfJoined
  <2> QED
    BY <2>1, <2>2, <2>3, <2>4, <2>5 DEF Standing
<1>10. <<>> \in DOMAIN h
  <2>1. <<>> \in Positions /\ <<>> \in DOMAIN f
    BY DEF IsForm, Positions
  <2>2. CASE IsPrefix(path, <<>>)
    <3>1. path = <<>> /\ path \o <<>> = path
      BY <1>0, <2>1, <2>2, Prefixing, ConcatEmptySeq DEF Positions
    <3> QED
      BY <1>0, <1>4, <3>1
  <2> QED
    BY <1>5, <2>1, <2>2
<1>11. IsForm(h)
  BY <1>6, <1>7, <1>8, <1>9, <1>10, FormMeans
<1> QED
  BY <1>1, <1>4, <1>5, <1>6, <1>11

(* The hole a position lies in, and what a filled template holds. *)
HoleOf(t, p) == CHOOSE h \in Holes(t) : IsPrefix(h, p)

(* What a macro makes of forms is a form. *)
LEMMA FillIsForm ==
  ASSUME NEW m, IsMacro(m), NEW n \in DOMAIN m.body,
         NEW fs, \A i \in 1..n : IsForm(fs[i])
  PROVE  IsForm(Fill(m.body[n], fs))
<1>0. PICK t : t = m.body[n]
  OBVIOUS
<1>13. PICK Own : Own = DOMAIN t \ Holes(t)
  OBVIOUS
<1>1. /\ IsForm(t) /\ DOMAIN t \subseteq Positions /\ Own \subseteq Positions
      /\ \A h \in Holes(t) : /\ h \in DOMAIN t /\ h \in Positions
                             /\ t[h].args = 0 /\ IsForm(fs[t[h].name])
  BY <1>0, <1>13 DEF IsMacro, IsForm, Holes
<1>2. PICK g : g = Fill(m.body[n], fs)
  OBVIOUS
<1>3. /\ \A p : p \in DOMAIN g <=>
           p \in Own \/ \E h \in Holes(t) : \E q \in DOMAIN fs[t[h].name] : p = h \o q
      /\ \A p \in DOMAIN g :
           /\ p \in Own => g[p] = t[p]
           /\ p \notin Own => g[p] = fs[t[HoleOf(t, p)].name][From(HoleOf(t, p), p)]
  <2> DEFINE All == UNION { { h \o q : q \in DOMAIN fs[t[h].name] } : h \in Holes(t) }
  <2>1. /\ DOMAIN Fill(t, fs) = (DOMAIN t \ Holes(t)) \cup All
        /\ \A p \in DOMAIN Fill(t, fs) :
             Fill(t, fs)[p] = IF p \in DOMAIN t \ Holes(t) THEN t[p]
                              ELSE fs[t[HoleOf(t, p)].name][From(HoleOf(t, p), p)]
    BY DEF Fill, HoleOf
  <2>2. ASSUME NEW h \in Holes(t), NEW q \in DOMAIN fs[t[h].name] PROVE h \o q \in All
    <3>1. h \o q \in { h \o r : r \in DOMAIN fs[t[h].name] }
      OBVIOUS
    <3>2. { h \o r : r \in DOMAIN fs[t[h].name] }
            \in { { k \o r : r \in DOMAIN fs[t[k].name] } : k \in Holes(t) }
      BY Zenon
    <3> QED
      BY <3>1, <3>2, Zenon
  <2>3. ASSUME NEW p \in All PROVE \E h \in Holes(t) : \E q \in DOMAIN fs[t[h].name] : p = h \o q
    BY <2>3
  <2> HIDE DEF All
  <2>4. \A p : p \in All <=> \E h \in Holes(t) : \E q \in DOMAIN fs[t[h].name] : p = h \o q
    BY <2>2, <2>3
  <2>7. g = Fill(t, fs)
    BY <1>0, <1>2
  <2>5. \A p : p \in DOMAIN g <=> p \in Own \/ p \in All
    BY <1>13, <2>1, <2>7
  <2>6. \A p \in DOMAIN g :
           /\ p \in Own => g[p] = t[p]
           /\ p \notin Own => g[p] = fs[t[HoleOf(t, p)].name][From(HoleOf(t, p), p)]
    BY <1>13, <2>1, <2>7
  <2> QED
    BY <2>4, <2>5, <2>6
<1>4. ASSUME NEW h \in Holes(t), NEW p \in DOMAIN t, Under(h, p) PROVE FALSE
  <2>1. Standing(t, p)
    BY <1>1, FormMeans
  <2>2. \E c : c \in 1..t[h].args
    BY <1>1, <1>4, <2>1 DEF Standing
  <2>3. t[h].args = 0
    BY <1>1
  <2> QED
    BY <2>2, <2>3
<1>5. ASSUME NEW h \in Holes(t), NEW p \in Positions, IsPrefix(h, p)
      PROVE  HoleOf(t, p) = h /\ p \notin Own
  <2>1. ASSUME NEW k \in Holes(t), IsPrefix(k, p) PROVE k = h
    BY <1>1, <1>4, <1>5, <2>1, Prefixing DEF Under
  <2>2. HoleOf(t, p) \in Holes(t) /\ IsPrefix(HoleOf(t, p), p)
    BY <1>5 DEF HoleOf
  <2>3. p \notin Own
    BY <1>13, <1>4, <1>5 DEF Under
  <2> QED
    BY <2>1, <2>2, <2>3
<1>6. ASSUME NEW p \in Own PROVE p \in DOMAIN g /\ g[p] = t[p]
  BY <1>3
<1>7. ASSUME NEW h \in Holes(t), NEW q \in DOMAIN fs[t[h].name]
      PROVE  /\ h \o q \in Positions /\ q \in Positions
             /\ h \o q \in DOMAIN g /\ g[h \o q] = fs[t[h].name][q]
  <2>1. q \in Positions
    BY <1>1 DEF IsForm
  <2>2. h \o q \in Positions /\ IsPrefix(h, h \o q) /\ From(h, h \o q) = q
    BY <1>1, <2>1, Joining
  <2>3. HoleOf(t, h \o q) = h /\ h \o q \notin Own
    BY <1>5, <2>2
  <2>4. h \o q \in DOMAIN g
    BY <1>3
  <2> QED
    BY <1>3, <2>1, <2>2, <2>3, <2>4
<1>8. ASSUME NEW h \in Holes(t) PROVE h \in DOMAIN g
  <2>1. <<>> \in DOMAIN fs[t[h].name] /\ h \o <<>> = h
    BY <1>1, ConcatEmptySeq DEF IsForm, Positions
  <2> QED
    BY <1>7, <2>1
<1>9. ASSUME NEW p \in Own PROVE Standing(g, p)
  <2>1. Standing(t, p) /\ g[p] = t[p]
    BY <1>1, <1>6, <1>13, FormMeans
  <2>2. ASSUME NEW i \in 1..g[p].args PROVE Append(p, i) \in DOMAIN g
    BY <1>6, <1>8, <1>13, <2>1, <2>2 DEF Standing
  <2>3. ASSUME NEW q \in Positions, Under(q, p)
        PROVE  q \in DOMAIN g /\ p[Len(q) + 1] \in 1..g[q].args
    <3>1. q \in DOMAIN t /\ p[Len(q) + 1] \in 1..t[q].args
      BY <2>1, <2>3 DEF Standing
    <3>2. q \in Own
      BY <1>4, <1>13, <1>1, <2>3, <3>1
    <3> QED
      BY <1>6, <3>1, <3>2
  <2> QED
    BY <2>1, <2>2, <2>3 DEF Standing
<1>10. ASSUME NEW h \in Holes(t), NEW r \in DOMAIN fs[t[h].name]
       PROVE  Standing(g, h \o r)
  <2>1. PICK p : p = h \o r
    OBVIOUS
  <2>2. PICK a : a = fs[t[h].name]
    OBVIOUS
  <2>3. /\ Standing(a, r) /\ Standing(t, h) /\ r \in Positions
        /\ p \in DOMAIN g /\ g[p] = a[r]
    BY <1>1, <1>7, <2>1, <2>2, FormMeans
  <2>4. ASSUME NEW i \in 1..g[p].args PROVE Append(p, i) \in DOMAIN g
    <3>1. Append(r, i) \in DOMAIN a /\ i \in Nat \ {0}
      BY <2>3, <2>4 DEF Standing
    <3>2. h \o Append(r, i) = Append(p, i)
      BY <1>1, <2>1, <2>3, <3>1, Extending
    <3> QED
      BY <1>7, <2>2, <3>1, <3>2
  <2>5. ASSUME NEW q \in Positions, Under(q, p)
        PROVE  q \in DOMAIN g /\ p[Len(q) + 1] \in 1..g[q].args
    <3>1. CASE Under(q, h)
      <4>1. q \in DOMAIN t /\ h[Len(q) + 1] \in 1..t[q].args
        BY <2>3, <3>1 DEF Standing
      <4>2. q \in Own
        BY <1>1, <1>4, <1>13, <3>1, <4>1
      <4>3. p[Len(q) + 1] = h[Len(q) + 1]
        BY <1>1, <2>1, <2>3, <3>1, NextStep
      <4> QED
        BY <1>6, <4>1, <4>2, <4>3
    <3>2. CASE \E s \in Positions : q = h \o s /\ Under(s, r)
      <4>1. PICK s \in Positions : q = h \o s /\ Under(s, r)
        BY <3>2
      <4>2. s \in DOMAIN a /\ r[Len(s) + 1] \in 1..a[s].args
        BY <2>3, <4>1 DEF Standing
      <4>3. p[Len(h \o s) + 1] = r[Len(s) + 1]
        BY <1>1, <2>1, <2>3, <4>1, NextStep
      <4>4. h \o s \in DOMAIN g /\ g[h \o s] = a[s]
        BY <1>7, <2>2, <4>2
      <4> QED
        BY <4>1, <4>2, <4>3, <4>4
    <3> QED
      BY <1>1, <2>1, <2>3, <2>5, <3>1, <3>2, PrefixOfJoined
  <2> QED
    BY <2>1, <2>3, <2>4, <2>5 DEF Standing
<1>11. DOMAIN g \subseteq Positions /\ \A p \in DOMAIN g : Standing(g, p)
  <2>1. ASSUME NEW p \in DOMAIN g PROVE p \in Positions /\ Standing(g, p)
    <3>1. CASE p \in Own
      BY <1>1, <1>9, <3>1
    <3>2. CASE \E h \in Holes(t) : \E q \in DOMAIN fs[t[h].name] : p = h \o q
      BY <1>7, <1>10, <3>2
    <3> QED
      BY <1>3, <3>1, <3>2
  <2> QED
    BY <2>1
<1>12. <<>> \in DOMAIN g
  <2>1. <<>> \in DOMAIN t
    BY <1>1 DEF IsForm
  <2> QED
    BY <1>6, <1>8, <1>13, <2>1
<1> QED
  BY <1>0, <1>2, <1>11, <1>12, FormMeans

(* The root of a file is a walked form whose children are the top forms. *)
LEMMA RootIsForm ==
  ASSUME NEW fs, NEW n \in Nat, Len(fs) = n, DOMAIN fs = 1..n,
         \A i \in 1..n : IsForm(fs[i])
  PROVE  /\ IsForm(Walked(fs))
         /\ Walked(fs)[<<>>] = [kind |-> "walked", name |-> "", args |-> n]
<1> DEFINE Root == [kind |-> "walked", name |-> "", args |-> n]
<1>1. PICK g : g = Walked(fs)
  OBVIOUS
<1>2. /\ \A p : p \in DOMAIN g <=>
           p = <<>> \/ \E i \in 1..n : \E q \in DOMAIN fs[i] : p = <<i>> \o q
      /\ g[<<>>] = Root
      /\ \A p \in DOMAIN g : p # <<>> => g[p] = fs[Head(p)][Tail(p)]
  <2> DEFINE All == UNION { { <<i>> \o q : q \in DOMAIN fs[i] } : i \in DOMAIN fs }
  <2>1. /\ DOMAIN Walked(fs) = {<<>>} \cup All
        /\ Walked(fs)[<<>>] = [kind |-> "walked", name |-> "", args |-> Len(fs)]
        /\ \A p \in DOMAIN Walked(fs) : p # <<>> => Walked(fs)[p] = fs[Head(p)][Tail(p)]
    BY DEF Walked, Node
  <2>2. ASSUME NEW i \in DOMAIN fs, NEW q \in DOMAIN fs[i] PROVE <<i>> \o q \in All
    <3>1. <<i>> \o q \in { <<i>> \o r : r \in DOMAIN fs[i] }
      OBVIOUS
    <3>2. { <<i>> \o r : r \in DOMAIN fs[i] } \in { { <<k>> \o r : r \in DOMAIN fs[k] } : k \in DOMAIN fs }
      BY Zenon
    <3> QED
      BY <3>1, <3>2, Zenon
  <2>3. ASSUME NEW p \in All PROVE \E i \in DOMAIN fs : \E q \in DOMAIN fs[i] : p = <<i>> \o q
    BY <2>3
  <2> HIDE DEF All
  <2>4. \A p : p \in All <=> \E i \in DOMAIN fs : \E q \in DOMAIN fs[i] : p = <<i>> \o q
    BY <2>2, <2>3
  <2>5. \A p : p \in DOMAIN g <=> p = <<>> \/ p \in All
    BY <1>1, <2>1
  <2>6. g[<<>>] = Root /\ \A p \in DOMAIN g : p # <<>> => g[p] = fs[Head(p)][Tail(p)]
    BY <1>1, <2>1
  <2>7. DOMAIN fs = 1..n
    OBVIOUS
  <2> QED
    BY <2>4, <2>5, <2>6, <2>7
<1>9. Root.args = n /\ Root.args \in Nat
  OBVIOUS
<1>3. <<>> \in Positions /\ <<>> \in DOMAIN g /\ g[<<>>] = Root
  <2>1. <<>> \in Positions
    BY DEF Positions
  <2> HIDE DEF Root
  <2>2. <<>> \in DOMAIN g
    BY <1>2
  <2> QED
    BY <1>2, <2>1, <2>2
<1> HIDE DEF Root
<1>4. ASSUME NEW i \in 1..n, NEW q \in DOMAIN fs[i]
      PROVE  /\ <<i>> \in Positions /\ q \in Positions /\ <<i>> \o q \in Positions
             /\ <<i>> \o q \in DOMAIN g /\ g[<<i>> \o q] = fs[i][q]
  <2>1. <<i>> \in Positions /\ q \in Positions
    <3>1. IsForm(fs[i]) /\ i \in Nat \ {0}
      OBVIOUS
    <3>2. <<i>> \in Positions
      BY <3>1 DEF Positions
    <3> QED
      BY <3>1, <3>2 DEF IsForm
  <2>2. <<i>> \o q \in DOMAIN g
    BY <1>2
  <2>3. /\ <<i>> \o q \in Positions /\ <<i>> \o q # <<>>
        /\ Head(<<i>> \o q) = i /\ Tail(<<i>> \o q) = q
    BY <2>1 DEF Positions
  <2> QED
    BY <1>2, <2>1, <2>2, <2>3
<1>5. Standing(g, <<>>)
  <2>1. ASSUME NEW i \in 1..n PROVE Append(<<>>, i) \in DOMAIN g
    <3>1. <<>> \in DOMAIN fs[i] /\ <<i>> \o <<>> = <<i>> /\ Append(<<>>, i) = <<i>>
      <4>1. IsForm(fs[i]) /\ i \in Nat \ {0}
        OBVIOUS
      <4> QED
        BY <4>1 DEF IsForm
    <3> QED
      BY <1>4, <3>1
  <2>2. \A q \in Positions : ~Under(q, <<>>)
    BY <1>3, Prefixing DEF Under
  <2> QED
    BY <1>3, <1>9, <2>1, <2>2 DEF Standing
<1>6. ASSUME NEW i \in 1..n, NEW r \in DOMAIN fs[i]
      PROVE  Standing(g, <<i>> \o r)
  <2>1. PICK p : p = <<i>> \o r
    OBVIOUS
  <2>2. /\ Standing(fs[i], r) /\ <<i>> \in Positions /\ r \in Positions
        /\ p \in DOMAIN g /\ g[p] = fs[i][r]
    BY <1>4, <2>1, FormMeans
  <2>3. ASSUME NEW k \in 1..g[p].args PROVE Append(p, k) \in DOMAIN g
    <3>1. Append(r, k) \in DOMAIN fs[i] /\ k \in Nat \ {0}
      <4>1. g[p].args \in Nat
        BY <2>2 DEF Standing
      <4> QED
        BY <2>2, <2>3, <4>1 DEF Standing
    <3>2. <<i>> \o Append(r, k) = Append(p, k)
      BY <2>1, <2>2, <3>1, Extending
    <3> QED
      BY <1>4, <3>1, <3>2
  <2>4. ASSUME NEW q \in Positions, Under(q, p)
        PROVE  q \in DOMAIN g /\ p[Len(q) + 1] \in 1..g[q].args
    <3>1. CASE Under(q, <<i>>)
      <4>1. Append(<<>>, i) = <<i>> /\ i \in Nat \ {0}
        OBVIOUS
      <4>2. q = <<>>
        <5>1. Under(q, Append(<<>>, i)) => IsPrefix(q, <<>>)
          BY <1>3, <4>1, Extending
        <5>2. IsPrefix(q, <<>>) /\ IsPrefix(<<>>, q)
          BY <1>3, <3>1, <4>1, <5>1, Prefixing
        <5> QED
          BY <1>3, <5>2, Prefixing
      <4>3. p[Len(q) + 1] = <<i>>[Len(q) + 1]
        BY <2>1, <2>2, <3>1, NextStep
      <4>4. p[Len(q) + 1] = i /\ 1..g[q].args = 1..n /\ q \in DOMAIN g
        BY <1>3, <1>9, <4>2, <4>3
      <4> QED
        BY <4>4
    <3>2. CASE \E s \in Positions : q = <<i>> \o s /\ Under(s, r)
      <4>1. PICK s \in Positions : q = <<i>> \o s /\ Under(s, r)
        BY <3>2
      <4>2. s \in DOMAIN fs[i] /\ r[Len(s) + 1] \in 1..fs[i][s].args
        BY <2>2, <4>1 DEF Standing
      <4>3. p[Len(<<i>> \o s) + 1] = r[Len(s) + 1]
        BY <2>1, <2>2, <4>1, NextStep
      <4>4. <<i>> \o s \in DOMAIN g /\ g[<<i>> \o s] = fs[i][s]
        BY <1>4, <4>2
      <4> QED
        BY <4>1, <4>2, <4>3, <4>4
    <3> QED
      BY <2>1, <2>2, <2>4, <3>1, <3>2, PrefixOfJoined
  <2> QED
    BY <2>1, <2>2, <2>3, <2>4 DEF Standing
<1>7. ASSUME NEW p \in DOMAIN g PROVE p \in Positions /\ Standing(g, p)
  <2>1. CASE p = <<>>
    BY <1>3, <1>5, <2>1
  <2>2. CASE \E i \in 1..n : \E q \in DOMAIN fs[i] : p = <<i>> \o q
    BY <1>4, <1>6, <2>2
  <2> QED
    BY <1>2, <2>1, <2>2
<1>8. IsForm(g)
  BY <1>3, <1>7, FormMeans
<1> QED
  BY <1>1, <1>3, <1>8 DEF Root

-------------------------------------------------------------------------------
(* The walk and the agenda. *)

(* Another form at a walked position leaves the walk elsewhere as it was. *)
LEMMA WalkBeside ==
  ASSUME NEW f, IsForm(f), NEW path \in WalkedPaths(f), NEW g, IsForm(g),
         NEW h, h = PutAt(f, path, g)
  PROVE  /\ \A p \in WalkedPaths(f) : ~Under(path, p) => p \in WalkedPaths(h)
         /\ \A p \in WalkedPaths(h) : ~IsPrefix(path, p) => p \in WalkedPaths(f) /\ h[p] = f[p]
<1>1. path \in DOMAIN f /\ path \in Positions
  BY WalkMeans
<1>2. /\ IsForm(h)
      /\ \A p \in Positions : ~IsPrefix(path, p) =>
           /\ p \in DOMAIN h <=> p \in DOMAIN f
           /\ p \in DOMAIN h => h[p] = f[p]
      /\ \A q \in DOMAIN g : path \o q \in DOMAIN h
  BY <1>1, PutAtMeans
<1>3. path \in DOMAIN h
  <2>1. <<>> \in DOMAIN g /\ path \o <<>> = path
    BY <1>1, ConcatEmptySeq DEF IsForm, Positions
  <2> QED
    BY <1>2, <2>1
<1>4. ASSUME NEW p \in WalkedPaths(f), ~Under(path, p) PROVE p \in WalkedPaths(h)
  <2>1. /\ p \in DOMAIN f /\ p \in Positions
        /\ \A q \in Positions : Under(q, p) => Walks(f[q])
    BY WalkMeans
  <2>2. p \in DOMAIN h
    <3>1. CASE p = path
      BY <1>3, <3>1
    <3>2. CASE p # path
      BY <1>2, <1>4, <2>1, <3>2 DEF Under
    <3> QED
      BY <3>1, <3>2
  <2>3. ASSUME NEW q \in Positions, Under(q, p) PROVE Walks(h[q])
    <3>1. ~IsPrefix(path, q)
      BY <1>1, <1>4, <2>1, <2>3, Prefixing DEF Under
    <3>2. q \in DOMAIN f
      <4>1. Standing(f, p)
        BY <2>1, FormMeans
      <4> QED
        BY <2>3, <4>1 DEF Standing
    <3>3. h[q] = f[q]
      BY <1>2, <3>1, <3>2
    <3> QED
      BY <2>1, <2>3, <3>3
  <2> QED
    BY <1>2, <2>1, <2>2, <2>3, WalkMeans
<1>5. ASSUME NEW p \in WalkedPaths(h), ~IsPrefix(path, p)
      PROVE  p \in WalkedPaths(f) /\ h[p] = f[p]
  <2>1. /\ p \in DOMAIN h /\ p \in Positions
        /\ \A q \in Positions : Under(q, p) => Walks(h[q])
    BY <1>2, WalkMeans
  <2>2. p \in DOMAIN f /\ h[p] = f[p]
    BY <1>2, <1>5, <2>1
  <2>3. ASSUME NEW q \in Positions, Under(q, p) PROVE Walks(f[q])
    <3>1. ~IsPrefix(path, q)
      BY <1>1, <1>5, <2>1, <2>3, Prefixing DEF Under
    <3>2. q \in DOMAIN h
      <4>1. Standing(h, p)
        BY <1>2, <2>1, FormMeans
      <4> QED
        BY <2>3, <4>1 DEF Standing
    <3>3. h[q] = f[q]
      BY <1>2, <3>1, <3>2
    <3> QED
      BY <2>1, <2>3, <3>3
  <2> QED
    BY <2>1, <2>2, <2>3, WalkMeans
<1> QED
  BY <1>4, <1>5

Entries == [path : Positions, depth : 0..(MaxDepth + 1)]

LEMMA HeadReplaced ==
  ASSUME NEW S, NEW s \in Seq(S), s # <<>>, NEW k \in Seq(S), NEW t, t = k \o Tail(s)
  PROVE  /\ t \in Seq(S) /\ Head(s) = s[1] /\ 1 \in DOMAIN s
         /\ \A i \in DOMAIN k : i \in DOMAIN t /\ t[i] = k[i]
         /\ \A j \in DOMAIN s : j # 1 => Len(k) + j - 1 \in DOMAIN t /\ t[Len(k) + j - 1] = s[j]
         /\ \A i \in DOMAIN t : \/ i \in DOMAIN k
                                \/ i > Len(k) /\ i - Len(k) + 1 \in DOMAIN s
                                   /\ i - Len(k) + 1 # 1 /\ t[i] = s[i - Len(k) + 1]
<1>1. /\ Tail(s) \in Seq(S) /\ Len(Tail(s)) = Len(s) - 1 /\ Len(s) \in Nat /\ Len(s) >= 1
      /\ \A i \in 1..Len(s) - 1 : Tail(s)[i] = s[i + 1]
  OBVIOUS
<1>2. PICK r : r = Tail(s)
  OBVIOUS
<1>3. /\ t \in Seq(S) /\ Len(t) = Len(k) + Len(r) /\ Len(k) \in Nat
      /\ \A i \in 1..Len(k) : t[i] = k[i]
      /\ \A i \in Len(k) + 1..Len(t) : t[i] = r[i - Len(k)]
  <2>1. /\ r \in Seq(S) /\ t = k \o r
    BY <1>1, <1>2
  <2>2. /\ k \o r \in Seq(S) /\ Len(k \o r) = Len(k) + Len(r)
        /\ \A i \in 1..Len(k) + Len(r) : (k \o r)[i] = IF i <= Len(k) THEN k[i] ELSE r[i - Len(k)]
    BY <2>1, ConcatProperties
  <2>3. Len(k) \in Nat /\ Len(r) \in Nat
    BY <2>1
  <2>4. \A i \in 1..Len(t) : t[i] = IF i <= Len(k) THEN k[i] ELSE r[i - Len(k)]
    BY <2>1, <2>2
  <2>5. t \in Seq(S) /\ Len(t) = Len(k) + Len(r)
    BY <2>1, <2>2
  <2> QED
    BY <2>3, <2>4, <2>5
<1>4. /\ DOMAIN s = 1..Len(s) /\ DOMAIN t = 1..Len(t) /\ DOMAIN k = 1..Len(k)
      /\ Head(s) = s[1] /\ 1 \in DOMAIN s
  BY <1>1, <1>3
<1>5. ASSUME NEW j \in DOMAIN s, j # 1
      PROVE  Len(k) + j - 1 \in DOMAIN t /\ t[Len(k) + j - 1] = s[j]
  <2>1. PICK i : i = Len(k) + j - 1
    OBVIOUS
  <2>2. i \in Len(k) + 1..Len(t) /\ i - Len(k) = j - 1 /\ j - 1 \in 1..Len(s) - 1
    BY <1>1, <1>2, <1>3, <1>4, <1>5, <2>1
  <2>4. i \in DOMAIN t /\ i > Len(k)
    BY <1>3, <1>4, <2>2
  <2>3. t[i] = r[j - 1] /\ r[j - 1] = s[(j - 1) + 1]
    BY <1>1, <1>2, <1>3, <2>2
  <2>5. t[i] = s[j]
    <3>1. j \in Int /\ (j - 1) + 1 = j
      BY <1>1, <1>4
    <3> QED
      BY <2>3, <3>1
  <2> QED
    BY <2>1, <2>4, <2>5
<1>6. ASSUME NEW i \in DOMAIN t, i \notin DOMAIN k
      PROVE  /\ i > Len(k) /\ i - Len(k) + 1 \in DOMAIN s
             /\ i - Len(k) + 1 # 1 /\ t[i] = s[i - Len(k) + 1]
  <2>1. i \in Len(k) + 1..Len(t) /\ i - Len(k) \in 1..Len(s) - 1
    BY <1>1, <1>2, <1>3, <1>4, <1>6
  <2>2. t[i] = r[i - Len(k)] /\ r[i - Len(k)] = s[i - Len(k) + 1]
    BY <1>1, <1>2, <1>3, <2>1
  <2> QED
    BY <1>1, <1>3, <1>4, <2>1, <2>2
<1>7. \A i \in DOMAIN k : i \in DOMAIN t /\ t[i] = k[i]
  BY <1>1, <1>2, <1>3, <1>4
<1> QED
  BY <1>3, <1>4, <1>5, <1>6, <1>7

(* Replacing the first position by disjoint ones in or below it keeps the  *)
(* agenda disjoint and on the walk.                                        *)
LEMMA AgendaStep ==
  ASSUME TypeOK, agenda # <<>>, NEW ks \in Seq(Entries), agenda' = ks \o Tail(agenda),
         \A i \in DOMAIN ks : ks[i].path \in WalkedPaths(file') /\ IsPrefix(Item.path, ks[i].path),
         \A i, j \in DOMAIN ks : IsPrefix(ks[i].path, ks[j].path) => i = j,
         \A p \in WalkedPaths(file) : ~Under(Item.path, p) => p \in WalkedPaths(file')
  PROVE  /\ agenda' \in Seq(Entries)
         /\ \A i \in DOMAIN agenda' : agenda'[i].path \in WalkedPaths(file')
         /\ \A i, j \in DOMAIN agenda' : IsPrefix(agenda'[i].path, agenda'[j].path) => i = j
         /\ \A i \in DOMAIN agenda : agenda[i] # Item => \E j \in DOMAIN agenda' : agenda'[j] = agenda[i]
         /\ \A i \in DOMAIN ks : i \in DOMAIN agenda' /\ agenda'[i] = ks[i]
<1>1. /\ agenda \in Seq(Entries)
      /\ \A i \in DOMAIN agenda : agenda[i].path \in WalkedPaths(file) /\ agenda[i].path \in Positions
      /\ \A i, j \in DOMAIN agenda : IsPrefix(agenda[i].path, agenda[j].path) => i = j
  <2>1. agenda \in Seq(Entries)
    BY DEF TypeOK, Entries
  <2>2. \A i \in DOMAIN agenda : agenda[i] \in Entries
    BY <2>1
  <2> QED
    BY <2>1, <2>2 DEF TypeOK, Entries
<1>2. PICK t : t = agenda'
  OBVIOUS
<1>3. /\ t \in Seq(Entries) /\ Head(agenda) = agenda[1] /\ 1 \in DOMAIN agenda
      /\ \A i \in DOMAIN ks : i \in DOMAIN t /\ t[i] = ks[i]
      /\ \A j \in DOMAIN agenda : j # 1 =>
           Len(ks) + j - 1 \in DOMAIN t /\ t[Len(ks) + j - 1] = agenda[j]
      /\ \A i \in DOMAIN t :
           \/ i \in DOMAIN ks
           \/ /\ i > Len(ks) /\ i - Len(ks) + 1 \in DOMAIN agenda
              /\ i - Len(ks) + 1 # 1 /\ t[i] = agenda[i - Len(ks) + 1]
  <2>1. t = ks \o Tail(agenda) /\ agenda \in Seq(Entries) /\ agenda # <<>>
    BY <1>1, <1>2
  <2>2. t \in Seq(Entries) /\ Head(agenda) = agenda[1] /\ 1 \in DOMAIN agenda
    BY <2>1, HeadReplaced
  <2>3. \A i \in DOMAIN ks : i \in DOMAIN t /\ t[i] = ks[i]
    BY <2>1, HeadReplaced
  <2>4. \A j \in DOMAIN agenda : j # 1 =>
           Len(ks) + j - 1 \in DOMAIN t /\ t[Len(ks) + j - 1] = agenda[j]
    BY <2>1, HeadReplaced
  <2>5. \A i \in DOMAIN t :
           \/ i \in DOMAIN ks
           \/ /\ i > Len(ks) /\ i - Len(ks) + 1 \in DOMAIN agenda
              /\ i - Len(ks) + 1 # 1 /\ t[i] = agenda[i - Len(ks) + 1]
    BY <2>1, HeadReplaced
  <2> QED
    BY <2>2, <2>3, <2>4, <2>5
<1>4. Item = agenda[1] /\ Item.path \in Positions /\ Len(ks) \in Nat
  BY <1>1, <1>3 DEF Item
<1>5. ASSUME NEW j \in DOMAIN agenda, j # 1
      PROVE  /\ ~IsPrefix(Item.path, agenda[j].path)
             /\ ~IsPrefix(agenda[j].path, Item.path)
             /\ agenda[j].path \in WalkedPaths(file')
  <2>1. ~IsPrefix(Item.path, agenda[j].path) /\ ~IsPrefix(agenda[j].path, Item.path)
    BY <1>1, <1>3, <1>4, <1>5
  <2> QED
    BY <1>1, <2>1 DEF Under
<1>6. ASSUME NEW i \in DOMAIN ks
      PROVE  ks[i].path \in Positions /\ IsPrefix(Item.path, ks[i].path)
  <2>1. ks[i] \in Entries
    OBVIOUS
  <2> QED
    BY <2>1 DEF Entries
<1>7. ASSUME NEW i \in DOMAIN ks, NEW j \in DOMAIN agenda, j # 1
      PROVE  ~IsPrefix(ks[i].path, agenda[j].path) /\ ~IsPrefix(agenda[j].path, ks[i].path)
  <2>1. /\ agenda[j].path \in Positions /\ ks[i].path \in Positions
        /\ IsPrefix(Item.path, ks[i].path)
        /\ ~IsPrefix(Item.path, agenda[j].path) /\ ~IsPrefix(agenda[j].path, Item.path)
    BY <1>1, <1>5, <1>6, <1>7
  <2> QED
    BY <1>4, <2>1, Prefixing
<1>8. ASSUME NEW i \in DOMAIN t PROVE t[i].path \in WalkedPaths(file')
  <2>1. CASE i \in DOMAIN ks
    BY <1>3, <2>1
  <2>2. CASE i \notin DOMAIN ks
    BY <1>3, <1>5, <2>2
  <2> QED
    BY <2>1, <2>2
<1>9. ASSUME NEW i \in DOMAIN t, NEW j \in DOMAIN t, IsPrefix(t[i].path, t[j].path) PROVE i = j
  <2>1. CASE i \in DOMAIN ks /\ j \in DOMAIN ks
    BY <1>3, <1>9, <2>1
  <2>2. CASE i \in DOMAIN ks /\ j \notin DOMAIN ks
    BY <1>3, <1>7, <1>9, <2>2
  <2>3. CASE i \notin DOMAIN ks /\ j \in DOMAIN ks
    BY <1>3, <1>7, <1>9, <2>3
  <2>4. CASE i \notin DOMAIN ks /\ j \notin DOMAIN ks
    <3>1. /\ i - Len(ks) + 1 \in DOMAIN agenda /\ t[i] = agenda[i - Len(ks) + 1]
          /\ j - Len(ks) + 1 \in DOMAIN agenda /\ t[j] = agenda[j - Len(ks) + 1]
          /\ i \in Int /\ j \in Int
      BY <1>3, <2>4
    <3>2. i - Len(ks) + 1 = j - Len(ks) + 1
      BY <1>1, <1>9, <3>1
    <3> QED
      BY <1>4, <3>1, <3>2
  <2> QED
    BY <2>1, <2>2, <2>3, <2>4
<1>10. \A i \in DOMAIN agenda : agenda[i] # Item => \E j \in DOMAIN t : t[j] = agenda[i]
  BY <1>3, <1>4
<1>11. t \in Seq(Entries) /\ \A i \in DOMAIN ks : i \in DOMAIN t /\ t[i] = ks[i]
  BY <1>3
<1>12. /\ agenda' \in Seq(Entries)
       /\ \A i \in DOMAIN ks : i \in DOMAIN agenda' /\ agenda'[i] = ks[i]
  BY <1>2, <1>11
<1>13. \A i \in DOMAIN agenda' : agenda'[i].path \in WalkedPaths(file')
  BY <1>2, <1>8
<1>14. \A i, j \in DOMAIN agenda' : IsPrefix(agenda'[i].path, agenda'[j].path) => i = j
  BY <1>2, <1>9
<1>15. \A i \in DOMAIN agenda : agenda[i] # Item => \E j \in DOMAIN agenda' : agenda'[j] = agenda[i]
  BY <1>2, <1>10
<1> QED
  BY <1>12, <1>13, <1>14, <1>15

(* Below a node, in which child. *)
LEMMA StepDown ==
  ASSUME NEW p \in Positions, NEW q \in Positions, Under(q, p), p[Len(q) + 1] \in Nat \ {0}
  PROVE  IsPrefix(Append(q, p[Len(q) + 1]), p)
<1>1. /\ Len(q) \in Nat /\ Len(p) \in Nat /\ Len(q) + 1 <= Len(p)
      /\ \A i \in 1..Len(q) : q[i] = p[i]
  BY UnderMeans, PrefixMeans DEF Under, Positions
<1>2. PICK k \in Nat \ {0} : k = p[Len(q) + 1]
  OBVIOUS
<1>3. PICK a : a = Append(q, k)
  OBVIOUS
<1>4. /\ a \in Positions /\ Len(a) = Len(q) + 1 /\ a[Len(q) + 1] = k
      /\ \A i \in 1..Len(q) : a[i] = q[i]
  BY <1>3 DEF Positions
<1>5. \A i \in 1..Len(a) : a[i] = p[i]
  BY <1>1, <1>2, <1>4
<1>6. IsPrefix(a, p)
  BY <1>1, <1>4, <1>5, PrefixMeans
<1> QED
  BY <1>2, <1>3, <1>6

(* The children of a walked node are walked, and disjoint. *)
LEMMA KidsWalked ==
  ASSUME NEW f, IsForm(f), NEW path \in WalkedPaths(f), Walks(f[path])
  PROVE  /\ \A i \in 1..f[path].args : Append(path, i) \in WalkedPaths(f)
         /\ \A i, j \in 1..f[path].args : IsPrefix(Append(path, i), Append(path, j)) => i = j
<1>1. /\ path \in DOMAIN f /\ path \in Positions
      /\ \A q \in Positions : Under(q, path) => Walks(f[q])
  BY WalkMeans
<1>2. f[path].args \in Nat /\ \A i \in 1..f[path].args : Append(path, i) \in DOMAIN f
  BY <1>1, FormMeans DEF Standing
<1>3. \A i \in 1..f[path].args :
         /\ i \in Nat \ {0} /\ Append(path, i) \in Positions
         /\ IsPrefix(path, Append(path, i)) /\ path # Append(path, i)
         /\ Append(path, i)[Len(path) + 1] = i
         /\ \A q \in Positions : Under(q, Append(path, i)) <=> IsPrefix(q, path)
  <2> TAKE i \in 1..f[path].args
  <2>1. i \in Nat \ {0}
    BY <1>2
  <2> QED
    BY <1>1, <2>1, Extending
<1>4. ASSUME NEW i \in 1..f[path].args PROVE Append(path, i) \in WalkedPaths(f)
  <2>1. ASSUME NEW q \in Positions, Under(q, Append(path, i)) PROVE Walks(f[q])
    BY <1>1, <1>3, <2>1 DEF Under
  <2> QED
    BY <1>2, <1>3, <2>1, WalkMeans
<1>5. ASSUME NEW i \in 1..f[path].args, NEW j \in 1..f[path].args,
             IsPrefix(Append(path, i), Append(path, j))
      PROVE  i = j
  <2>1. CASE Append(path, i) = Append(path, j)
    BY <1>3, <2>1
  <2>2. CASE Append(path, i) # Append(path, j)
    <3>1. IsPrefix(Append(path, i), path)
      BY <1>3, <1>5, <2>2 DEF Under
    <3> QED
      BY <1>1, <1>3, <3>1, Prefixing
  <2> QED
    BY <2>1, <2>2
<1> QED
  BY <1>4, <1>5

-------------------------------------------------------------------------------
(* Every macro call on the walk is still ahead: at or below a position of  *)
(* the agenda.                                                             *)
CallsAhead ==
  \A p \in WalkedPaths(file) :
    MacroCall(file[p]) => \E i \in DOMAIN agenda : IsPrefix(agenda[i].path, p)

DoneIsEmpty == status = "done" => agenda = <<>>

Inv == TypeOK /\ CallsAhead /\ DoneIsEmpty

LEMMA ItemTyped ==
  ASSUME TypeOK, agenda # <<>>
  PROVE  /\ Item \in Entries /\ Item.path \in WalkedPaths(file)
         /\ Item.path \in Positions /\ Item.path \in DOMAIN file
<1>1. agenda \in Seq(Entries)
  BY DEF TypeOK, Entries
<1>2. Item = agenda[1] /\ 1 \in DOMAIN agenda /\ agenda[1] \in Entries
  BY <1>1 DEF Item
<1>3. agenda[1].path \in WalkedPaths(file) /\ IsForm(file)
  BY <1>2 DEF TypeOK
<1> QED
  BY <1>2, <1>3, WalkMeans

(* What is expanded is a call of a macro with a number of forms it takes.  *)
LEMMA ExpansionIsForm ==
  ASSUME TypeOK, Running, MacroCall(Here), Arity(Here)
  PROVE  IsForm(Expansion)
<1>1. PICK m : m = macros[Here.name]
  OBVIOUS
<1>2. IsMacro(m) /\ Here.args \in DOMAIN m.body /\ IsForm(file)
  BY <1>1 DEF TypeOK, MacroCall, Arity
<1>3. ASSUME NEW i \in 1..Here.args PROVE IsForm(Args[i])
  <2>1. Item.path \in DOMAIN file
    BY ItemTyped DEF Running
  <2>2. Append(Item.path, i) \in DOMAIN file
    BY <1>2, <2>1, FormMeans DEF Standing, Here
  <2>3. IsForm(At(file, Append(Item.path, i)))
    BY <1>2, <2>2, AtMeans
  <2> QED
    BY <1>2, <2>3 DEF Args
<1>4. IsForm(Fill(m.body[Here.args], Args))
  BY <1>2, <1>3, FillIsForm
<1> QED
  BY <1>1, <1>4 DEF Expansion

LEMMA FireKeeps ==
  ASSUME Inv, Fire
  PROVE  Inv'
<1> DEFINE again == Todo(Item.path, Item.depth + 1)
           ks    == <<again>>
<1>1. /\ TypeOK /\ Running /\ agenda # <<>> /\ IsForm(file)
      /\ file' = PutAt(file, Item.path, Expansion)
      /\ agenda' = ks \o Tail(agenda)
      /\ macros' = macros /\ status' = status
  BY DEF Inv, Fire, Running, TypeOK
<1>2. /\ Item \in Entries /\ Item.path \in WalkedPaths(file)
      /\ Item.path \in Positions /\ Item.path \in DOMAIN file
  BY <1>1, ItemTyped
<1>3. IsForm(Expansion)
  BY <1>1, ExpansionIsForm DEF Fire
<1>4. /\ IsForm(file')
      /\ \A p \in WalkedPaths(file) : ~Under(Item.path, p) => p \in WalkedPaths(file')
      /\ \A p \in WalkedPaths(file') : ~IsPrefix(Item.path, p) =>
           p \in WalkedPaths(file) /\ file'[p] = file[p]
  <2>1. PICK h : h = file'
    OBVIOUS
  <2>2. IsForm(h)
    BY <1>1, <1>2, <1>3, <2>1, PutAtMeans
  <2> QED
    BY <1>1, <1>2, <1>3, <2>1, <2>2, WalkBeside
<1>5. again \in Entries /\ again.path = Item.path
  <2>1. Item.depth \in 0..MaxDepth + 1 /\ MaxDepth \in Nat /\ ~(Item.depth > MaxDepth)
    BY <1>2, MacroAssumption DEF Entries, Fire, TooDeep
  <2> QED
    BY <1>2, <2>1 DEF Todo, Entries
<1>6. /\ ks \in Seq(Entries) /\ DOMAIN ks = {1} /\ ks[1] = again
  BY <1>5
<1> HIDE DEF again, ks
<1>7. /\ \A i \in DOMAIN ks : ks[i].path \in WalkedPaths(file') /\ IsPrefix(Item.path, ks[i].path)
      /\ \A i, j \in DOMAIN ks : IsPrefix(ks[i].path, ks[j].path) => i = j
  <2>1. Item.path \in WalkedPaths(file') /\ IsPrefix(Item.path, Item.path)
    BY <1>2, <1>4, Prefixing DEF Under
  <2> QED
    BY <1>5, <1>6, <2>1
<1>8. /\ agenda' \in Seq(Entries)
      /\ \A i \in DOMAIN agenda' : agenda'[i].path \in WalkedPaths(file')
      /\ \A i, j \in DOMAIN agenda' : IsPrefix(agenda'[i].path, agenda'[j].path) => i = j
      /\ \A i \in DOMAIN agenda : agenda[i] # Item => \E j \in DOMAIN agenda' : agenda'[j] = agenda[i]
      /\ \A i \in DOMAIN ks : i \in DOMAIN agenda' /\ agenda'[i] = ks[i]
  BY <1>1, <1>4, <1>6, <1>7, AgendaStep
<1>9. TypeOK'
  BY <1>1, <1>4, <1>8 DEF TypeOK, Entries
<1>10. CallsAhead'
  <2>1. SUFFICES ASSUME NEW p \in WalkedPaths(file'), MacroCall(file[p])'
                 PROVE  \E i \in DOMAIN agenda' : IsPrefix(agenda'[i].path, p)
    BY DEF CallsAhead
  <2>2. CASE IsPrefix(Item.path, p)
    BY <1>5, <1>6, <1>8, <2>2
  <2>3. CASE ~IsPrefix(Item.path, p)
    <3>1. p \in WalkedPaths(file) /\ MacroCall(file[p])
      BY <1>1, <1>4, <2>1, <2>3 DEF MacroCall
    <3>2. PICK i \in DOMAIN agenda : IsPrefix(agenda[i].path, p)
      BY <3>1 DEF Inv, CallsAhead
    <3> QED
      BY <1>8, <2>3, <3>2
  <2> QED
    BY <2>2, <2>3
<1>11. DoneIsEmpty'
  BY <1>1 DEF DoneIsEmpty, Running
<1> QED
  BY <1>9, <1>10, <1>11 DEF Inv

LEMMA DescendKeeps ==
  ASSUME Inv, Descend
  PROVE  Inv'
<1>1. /\ TypeOK /\ Running /\ agenda # <<>> /\ IsForm(file) /\ ~MacroCall(Here)
      /\ agenda' = Kids(Here) \o Tail(agenda)
      /\ macros' = macros /\ file' = file /\ status' = status
  BY DEF Inv, Descend, Running, TypeOK
<1>2. /\ Item \in Entries /\ Item.path \in WalkedPaths(file)
      /\ Item.path \in Positions /\ Item.path \in DOMAIN file
  BY <1>1, ItemTyped
<1>3. Here.args \in Nat
  BY <1>1, <1>2, FormMeans DEF Standing, Here
<1>4. PICK n \in Nat : n = IF Walks(Here) THEN Here.args ELSE 0
  BY <1>3
<1>5. PICK ks : ks = Kids(Here)
  OBVIOUS
<1>6. ks = [i \in 1..n |-> Todo(Append(Item.path, i), 0)]
  BY <1>4, <1>5 DEF Kids
<1>7. ASSUME NEW i \in 1..n
      PROVE  /\ Append(Item.path, i) \in WalkedPaths(file)
             /\ Append(Item.path, i) \in Positions
             /\ IsPrefix(Item.path, Append(Item.path, i))
             /\ ks[i] \in Entries /\ ks[i].path = Append(Item.path, i)
  <2>1. Walks(Here) /\ i \in 1..Here.args /\ i \in Nat \ {0}
    BY <1>4
  <2>2. Append(Item.path, i) \in WalkedPaths(file)
    BY <1>1, <1>2, <2>1, KidsWalked DEF Here
  <2>3. Append(Item.path, i) \in Positions /\ IsPrefix(Item.path, Append(Item.path, i))
    BY <1>2, <2>1, Extending
  <2>4. PICK a \in Positions : a = Append(Item.path, i)
    BY <2>3
  <2>5. ks[i] = Todo(a, 0)
    BY <1>6, <2>4
  <2>6. ks[i] \in Entries /\ ks[i].path = a
    BY <2>5, MacroAssumption DEF Todo, Entries
  <2> QED
    BY <2>2, <2>3, <2>4, <2>6
<1>8. ks \in Seq(Entries) /\ DOMAIN ks = 1..n
  BY <1>6, <1>7
<1>9. ASSUME NEW i \in 1..n, NEW j \in 1..n, IsPrefix(ks[i].path, ks[j].path) PROVE i = j
  <2>1. Walks(Here) /\ i \in 1..Here.args /\ j \in 1..Here.args
    BY <1>4
  <2>2. IsPrefix(Append(Item.path, i), Append(Item.path, j))
    BY <1>7, <1>9
  <2>3. \A k, l \in 1..Here.args :
           IsPrefix(Append(Item.path, k), Append(Item.path, l)) => k = l
    BY <1>1, <1>2, <2>1, KidsWalked DEF Here
  <2> QED
    BY <2>1, <2>2, <2>3
<1>10. /\ \A i \in DOMAIN ks : ks[i].path \in WalkedPaths(file') /\ IsPrefix(Item.path, ks[i].path)
       /\ \A i, j \in DOMAIN ks : IsPrefix(ks[i].path, ks[j].path) => i = j
       /\ \A p \in WalkedPaths(file) : ~Under(Item.path, p) => p \in WalkedPaths(file')
  BY <1>1, <1>7, <1>8, <1>9
<1>11. /\ agenda' \in Seq(Entries)
       /\ \A i \in DOMAIN agenda' : agenda'[i].path \in WalkedPaths(file')
       /\ \A i, j \in DOMAIN agenda' : IsPrefix(agenda'[i].path, agenda'[j].path) => i = j
       /\ \A i \in DOMAIN agenda : agenda[i] # Item => \E j \in DOMAIN agenda' : agenda'[j] = agenda[i]
       /\ \A i \in DOMAIN ks : i \in DOMAIN agenda' /\ agenda'[i] = ks[i]
  <2>1. agenda' = ks \o Tail(agenda)
    BY <1>1, <1>5
  <2> QED
    BY <1>1, <1>8, <1>10, <2>1, AgendaStep
<1>12. TypeOK'
  BY <1>1, <1>11 DEF TypeOK, Entries
<1>13. CallsAhead'
  <2>1. SUFFICES ASSUME NEW p \in WalkedPaths(file), MacroCall(file[p])
                 PROVE  \E i \in DOMAIN agenda' : IsPrefix(agenda'[i].path, p)
    BY <1>1 DEF CallsAhead, MacroCall
  <2>2. PICK i \in DOMAIN agenda : IsPrefix(agenda[i].path, p)
    BY <2>1 DEF Inv, CallsAhead
  <2>3. CASE agenda[i] # Item
    BY <1>11, <2>2, <2>3
  <2>4. CASE agenda[i] = Item
    <3>1. p \in DOMAIN file /\ p \in Positions /\ Under(Item.path, p)
      BY <1>1, <2>1, <2>2, <2>4, WalkMeans DEF Under, Here
    <3>2. Walks(Here)
      BY <1>1, <1>2, <3>1, WalkMeans DEF Here
    <3>3. PICK k \in 1..Here.args : k = p[Len(Item.path) + 1]
      BY <1>1, <1>2, <3>1, FormMeans DEF Standing, Here
    <3>4. k \in 1..n /\ k \in Nat \ {0}
      BY <1>3, <1>4, <3>2
    <3>5. IsPrefix(Append(Item.path, k), p)
      BY <1>2, <3>1, <3>3, <3>4, StepDown
    <3>6. k \in DOMAIN agenda' /\ agenda'[k].path = Append(Item.path, k)
      BY <1>7, <1>8, <1>11, <3>4
    <3> QED
      BY <3>5, <3>6
  <2> QED
    BY <2>3, <2>4
<1>14. DoneIsEmpty'
  BY <1>1 DEF DoneIsEmpty, Running
<1> QED
  BY <1>12, <1>13, <1>14 DEF Inv

LEMMA MacrosRegistered ==
  ASSUME NEW layers \in Layers
  PROVE  \A m \in DOMAIN Registered(layers) : IsMacro(Registered(layers)[m])
<1>1. \A i \in 1..3 : \A m \in DOMAIN layers[i] : IsMacro(layers[i][m])
  BY MacroAssumption
<1>2. 1 \in 1..3 /\ 2 \in 1..3 /\ 3 \in 1..3
  OBVIOUS
<1> QED
  BY <1>1, <1>2 DEF Registered, Shadow

LEMMA InitInv == Init => Inv
<1> SUFFICES ASSUME Init PROVE Inv
  OBVIOUS
<1>1. PICK layers \in Layers : macros = Registered(layers)
  BY DEF Init
<1>2. PICK p \in Programs : /\ file = Walked(p)
                            /\ agenda = [i \in 1..Len(p) |-> Todo(<<i>>, 0)]
  BY DEF Init
<1>3. PICK n \in Nat : Len(p) = n /\ DOMAIN p = 1..n /\ \A i \in 1..n : IsForm(p[i])
  BY MacroAssumption
<1>4. /\ IsForm(file)
      /\ file[<<>>] = [kind |-> "walked", name |-> "", args |-> n]
  BY <1>2, <1>3, RootIsForm
<1>5. /\ Walks(file[<<>>]) /\ file[<<>>].args = n /\ ~MacroCall(file[<<>>])
      /\ <<>> \in Positions /\ <<>> \in DOMAIN file
  <2>1. PICK root : root = file[<<>>]
    OBVIOUS
  <2>2. root.kind = "walked" /\ root.args = n
    <3>1. root = [kind |-> "walked", name |-> "", args |-> n]
      BY <1>4, <2>1, Zenon
    <3> QED
      BY <3>1
  <2>3. Walks(root) /\ ~MacroCall(root)
    BY <2>2 DEF Walks, MacroCall
  <2>4. <<>> \in Positions /\ <<>> \in DOMAIN file
    BY <1>4 DEF IsForm, Positions
  <2> QED
    BY <2>1, <2>2, <2>3, <2>4
<1>6. <<>> \in WalkedPaths(file)
  <2>1. \A q \in Positions : ~Under(q, <<>>)
    BY <1>5, Prefixing DEF Under
  <2> QED
    BY <1>4, <1>5, <2>1, WalkMeans
<1>7. /\ \A i \in 1..n : Append(<<>>, i) \in WalkedPaths(file)
      /\ \A i, j \in 1..n : IsPrefix(Append(<<>>, i), Append(<<>>, j)) => i = j
  BY <1>4, <1>5, <1>6, KidsWalked
<1>8. \A i \in Nat : Append(<<>>, i) = <<i>>
  OBVIOUS
<1>9. ASSUME NEW i \in 1..n
      PROVE  agenda[i] \in Entries /\ agenda[i].path = <<i>> /\ <<i>> \in WalkedPaths(file)
  <2>1. agenda[i] = [path |-> <<i>>, depth |-> 0]
    BY <1>2, <1>3 DEF Todo
  <2>2. <<i>> \in WalkedPaths(file) /\ <<i>> \in Positions
    <3>1. Append(<<>>, i) \in WalkedPaths(file) /\ Append(<<>>, i) = <<i>>
      BY <1>7, <1>8
    <3>2. <<i>> \in WalkedPaths(file)
      BY <3>1
    <3> QED
      BY <1>4, <3>2, WalkMeans
  <2> QED
    BY <2>1, <2>2, MacroAssumption DEF Entries
<1>10. agenda \in Seq(Entries) /\ DOMAIN agenda = 1..n
  <2>1. PICK a : a = agenda
    OBVIOUS
  <2>2. a = [i \in 1..n |-> Todo(<<i>>, 0)]
    BY <1>2, <1>3, <2>1
  <2>3. \A i \in 1..n : Todo(<<i>>, 0) \in Entries
    BY <1>9, <2>1, <2>2
  <2>4. a \in [1..n -> Entries]
    BY <2>2, <2>3
  <2>5. a \in Seq(Entries) /\ DOMAIN a = 1..n
    BY <2>4
  <2> QED
    BY <2>1, <2>5
<1>11. TypeOK
  <2>1. status \in {"running", "done", "error"}
    BY DEF Init
  <2>2. \A m \in DOMAIN macros : IsMacro(macros[m])
    BY <1>1, MacrosRegistered
  <2>3. \A i, j \in DOMAIN agenda : IsPrefix(agenda[i].path, agenda[j].path) => i = j
    <3>1. SUFFICES ASSUME NEW i \in 1..n, NEW j \in 1..n, IsPrefix(agenda[i].path, agenda[j].path)
                   PROVE  i = j
      BY <1>10
    <3>2. IsPrefix(<<i>>, <<j>>) /\ <<i>> = Append(<<>>, i) /\ <<j>> = Append(<<>>, j)
      BY <1>8, <1>9, <3>1
    <3>3. IsPrefix(Append(<<>>, i), Append(<<>>, j))
      BY <3>2
    <3> QED
      BY <1>7, <3>3
  <2> QED
    BY <1>4, <1>9, <1>10, <2>1, <2>2, <2>3 DEF TypeOK, Entries
<1>12. CallsAhead
  <2>1. SUFFICES ASSUME NEW q \in WalkedPaths(file), MacroCall(file[q])
                 PROVE  \E i \in DOMAIN agenda : IsPrefix(agenda[i].path, q)
    BY DEF CallsAhead
  <2>2. q \in Positions /\ q \in DOMAIN file /\ q # <<>>
    BY <1>4, <1>5, <2>1, WalkMeans
  <2>3. Under(<<>>, q)
    BY <1>5, <2>2, Prefixing DEF Under
  <2>4. PICK k \in 1..n : k = q[Len(<<>>) + 1]
    BY <1>4, <1>5, <2>2, <2>3, FormMeans DEF Standing
  <2>5. IsPrefix(Append(<<>>, k), q)
    <3>1. q[Len(<<>>) + 1] \in Nat \ {0}
      BY <2>4
    <3>2. IsPrefix(Append(<<>>, q[Len(<<>>) + 1]), q)
      BY <1>5, <2>2, <2>3, <3>1, StepDown
    <3> QED
      BY <2>4, <3>2
  <2> QED
    BY <1>8, <1>9, <1>10, <2>4, <2>5
<1>13. DoneIsEmpty
  BY DEF Init, DoneIsEmpty
<1> QED
  BY <1>11, <1>12, <1>13 DEF Inv

LEMMA NextInv == Inv /\ [Next]_vars => Inv'
<1> SUFFICES ASSUME Inv, [Next]_vars PROVE Inv'
  OBVIOUS
<1>1. CASE Fire
  BY <1>1, FireKeeps
<1>2. CASE Descend
  BY <1>2, DescendKeeps
<1>3. CASE Fail
  BY <1>3 DEF Fail, Running, Inv, TypeOK, CallsAhead, DoneIsEmpty, MacroCall
<1>4. CASE Finish
  BY <1>4 DEF Finish, Inv, TypeOK, CallsAhead, DoneIsEmpty, MacroCall
<1>5. CASE UNCHANGED vars
  BY <1>5 DEF vars, Inv, TypeOK, CallsAhead, DoneIsEmpty, MacroCall
<1> QED
  BY <1>1, <1>2, <1>3, <1>4, <1>5 DEF Next

LEMMA Invariance == Spec => []Inv
<1> QED
  BY InitInv, NextInv, PTL DEF Spec

(* The tree stays a tree, and the agenda holds disjoint positions that the *)
(* walk reaches: nothing in a quotation is ever on it.                     *)
THEOREM TypeCorrect == Spec => []TypeOK
<1>1. Inv => TypeOK
  BY DEF Inv
<1> QED
  BY Invariance, <1>1, PTL

(* When the pass is done, no macro call is left where the walk goes, be it *)
(* from the source, from a macro's result, or from an argument put there:  *)
(* the fixed point of expand reaches all of them.                          *)
THEOREM ExpandsEveryCall == Spec => []NoCallLeft
<1>1. Inv => NoCallLeft
  BY DEF Inv, CallsAhead, DoneIsEmpty, NoCallLeft
<1> QED
  BY Invariance, <1>1, PTL

-------------------------------------------------------------------------------
(* The cap.  The head of the agenda alone has a depth, and its depth and   *)
(* the rank of the macro called there stay within the cap together.        *)

Capped ==
  /\ \A i \in DOMAIN agenda : i # 1 => agenda[i].depth = 0
  /\ \A rank \in [DOMAIN macros -> 0..(MaxDepth - 1)] :
       Ranks(rank) /\ agenda # <<>> /\ Item.depth # 0 =>
         /\ Item.depth <= MaxDepth
         /\ MacroCall(Here) => Item.depth + rank[Here.name] < MaxDepth

LEMMA CappedInit == Init => Capped
<1> SUFFICES ASSUME Init PROVE Capped
  OBVIOUS
<1>1. PICK p \in Programs : agenda = [i \in 1..Len(p) |-> Todo(<<i>>, 0)]
  BY DEF Init
<1>2. Len(p) \in Nat
  BY MacroAssumption
<1>3. \A i \in DOMAIN agenda : agenda[i].depth = 0
  BY <1>1, <1>2 DEF Todo
<1>4. agenda # <<>> => Item.depth = 0
  BY <1>1, <1>2, <1>3 DEF Item
<1> QED
  BY <1>3, <1>4 DEF Capped

(* What stands where a call was is the top of the macro's template.        *)
LEMMA TopOfExpansion ==
  ASSUME TypeOK, Fire, macros[Here.name].body[Here.args][<<>>].kind # "hole"
  PROVE  file'[Item.path] = macros[Here.name].body[Here.args][<<>>]
<1>1. PICK t : t = macros[Here.name].body[Here.args]
  OBVIOUS
<1>2. IsForm(t) /\ IsForm(file) /\ Running /\ agenda # <<>>
  BY <1>1 DEF TypeOK, Fire, MacroCall, Arity, IsMacro, Running
<1>3. Item.path \in Positions /\ Item.path \in DOMAIN file
  BY <1>2, ItemTyped
<1>4. PICK e : e = Expansion
  OBVIOUS
<1>5. IsForm(e)
  BY <1>2, <1>4, ExpansionIsForm DEF Fire
<1>6. <<>> \in DOMAIN t \ Holes(t)
  BY <1>1, <1>2 DEF IsForm, Holes
<1>7. e[<<>>] = t[<<>>]
  <2>1. e = Fill(t, Args)
    BY <1>1, <1>4 DEF Expansion
  <2>2. PICK own : own = DOMAIN t \ Holes(t)
    OBVIOUS
  <2>3. <<>> \in own
    BY <1>6, <2>2
  <2> QED
    BY <2>1, <2>2, <2>3, Zenon DEF Fill
<1>8. <<>> \in DOMAIN e /\ Item.path \o <<>> = Item.path
  BY <1>3, <1>5 DEF IsForm, Positions
<1>9. file'[Item.path \o <<>>] = e[<<>>]
  <2>1. PICK h : h = PutAt(file, Item.path, e)
    OBVIOUS
  <2>2. \A q \in DOMAIN e : h[Item.path \o q] = e[q]
    BY <1>2, <1>3, <1>5, <2>1, PutAtMeans
  <2> QED
    BY <1>4, <1>8, <2>1, <2>2 DEF Fire
<1> QED
  BY <1>1, <1>7, <1>8, <1>9

LEMMA TailMeans ==
  ASSUME NEW s \in Seq(Entries), s # <<>>
  PROVE  /\ Tail(s) \in Seq(Entries)
         /\ \A i \in 1..Len(Tail(s)) : i + 1 \in DOMAIN s /\ Tail(s)[i] = s[i + 1]
<1>1. PICK n \in Nat : n = Len(s) /\ n # 0 /\ DOMAIN s = 1..n
  OBVIOUS
<1>2. Tail(s) \in Seq(Entries) /\ Len(Tail(s)) = n - 1
  BY <1>1
<1>3. ASSUME NEW i \in 1..(n - 1) PROVE i + 1 \in 1..n /\ Tail(s)[i] = s[i + 1]
  BY <1>1, <1>3
<1> QED
  BY <1>1, <1>2, <1>3

LEMMA OneDeeper ==
  ASSUME NEW m \in Nat, NEW d \in Nat, NEW r \in Nat, d + r < m
  PROVE  d + 1 <= m /\ \A k \in Nat : k < r => (d + 1) + k < m
OBVIOUS

LEMMA CappedFire ==
  ASSUME TypeOK, Capped, Fire
  PROVE  Capped'
<1> DEFINE again == Todo(Item.path, Item.depth + 1)
<1>0. MaxDepth \in Nat
  BY MacroAssumption
<1>1. /\ agenda \in Seq(Entries) /\ agenda # <<>> /\ MacroCall(Here) /\ macros' = macros
      /\ Arity(Here)
      /\ agenda' = <<again>> \o Tail(agenda)
  BY DEF TypeOK, Entries, Fire, Running
<1>2. PICK it : it = Item /\ it.depth \in Nat
  BY <1>1, ItemTyped DEF Entries
<1>3. PICK a : a = again /\ a = [path |-> it.path, depth |-> it.depth + 1]
  BY <1>2 DEF Todo
<1>4. PICK rest \in Seq(Entries) :
        /\ rest = Tail(agenda)
        /\ \A i \in 1..Len(rest) : i + 1 \in DOMAIN agenda /\ rest[i] = agenda[i + 1]
  BY <1>1, TailMeans
<1>5. /\ agenda' # <<>> /\ Item' = a
      /\ \A i \in DOMAIN agenda' : i # 1 => agenda'[i].depth = 0
  <2>1. PICK next : next = agenda' /\ next = <<a>> \o rest
    BY <1>1, <1>3, <1>4
  <2>2. next # <<>> /\ Head(next) = a
    BY <1>4, <2>1
  <2>3. ASSUME NEW i \in DOMAIN next, i # 1 PROVE next[i].depth = 0
    <3>1. i - 1 \in 1..Len(rest) /\ next[i] = rest[i - 1] /\ (i - 1) + 1 = i
      BY <1>4, <2>1, <2>3
    <3>2. i \in DOMAIN agenda /\ next[i] = agenda[i]
      BY <1>4, <3>1
    <3> QED
      BY <2>3, <3>2 DEF Capped
  <2> QED
    BY <2>1, <2>2, <2>3 DEF Item
<1>6. SUFFICES ASSUME NEW rank \in [DOMAIN macros -> 0..(MaxDepth - 1)], Ranks(rank)'
               PROVE  /\ a.depth <= MaxDepth
                      /\ MacroCall(Here)' => a.depth + rank[Here'.name] < MaxDepth
  BY <1>1, <1>5 DEF Capped
<1>7. Ranks(rank)
  BY <1>1, <1>6 DEF Ranks, MacroCall
<1>8. PICK top : top = macros[Here.name].body[Here.args][<<>>]
  OBVIOUS
<1>9. top.kind # "hole" /\ (MacroCall(top) => rank[top.name] < rank[Here.name])
  BY <1>1, <1>7, <1>8 DEF Ranks, MacroCall, Arity
<1>10. Here' = top
  <2>1. file'[it.path] = top
    BY <1>2, <1>8, <1>9, TopOfExpansion
  <2>2. a.path = it.path
    BY <1>3
  <2> QED
    BY <1>5, <2>1, <2>2 DEF Here
<1>11. PICK r \in 0..(MaxDepth - 1) : r = rank[Here.name]
  BY <1>1 DEF MacroCall
<1>12. it.depth + r < MaxDepth /\ r \in Nat
  <2>0. r \in Nat /\ 0 + r < MaxDepth
    BY <1>0, <1>11
  <2>1. CASE it.depth = 0
    BY <2>0, <2>1
  <2>2. CASE it.depth # 0
    <3>1. Item.depth + rank[Here.name] < MaxDepth
      BY <1>1, <1>2, <1>7, <2>2 DEF Capped
    <3> QED
      BY <1>2, <1>11, <2>0, <3>1
  <2> QED
    BY <2>1, <2>2
<1>13. a.depth = it.depth + 1
  BY <1>3
<1>14. a.depth <= MaxDepth
  BY <1>0, <1>2, <1>12, <1>13, OneDeeper
<1>15. ASSUME MacroCall(Here)' PROVE a.depth + rank[top.name] < MaxDepth
  <2>1. MacroCall(top) /\ top.name \in DOMAIN macros
    BY <1>1, <1>10, <1>15 DEF MacroCall
  <2>2. PICK k \in 0..(MaxDepth - 1) : k = rank[top.name]
    BY <2>1
  <2>3. k \in Nat /\ k < r
    BY <1>0, <1>9, <1>11, <2>1, <2>2
  <2>4. (it.depth + 1) + k < MaxDepth
    BY <1>0, <1>2, <1>12, <2>3, OneDeeper
  <2> QED
    BY <1>13, <2>2, <2>4
<1> QED
  BY <1>10, <1>14, <1>15

LEMMA CappedDescend ==
  ASSUME TypeOK, Capped, Descend
  PROVE  Capped'
<1>1. /\ agenda \in Seq(Entries) /\ agenda # <<>>
      /\ agenda' = Kids(Here) \o Tail(agenda)
  BY DEF TypeOK, Entries, Descend, Running
<1>2. PICK n \in Nat : n = IF Walks(Here) THEN Here.args ELSE 0
  <2>1. Item.path \in DOMAIN file /\ IsForm(file)
    BY <1>1, ItemTyped DEF TypeOK
  <2> QED
    BY <2>1 DEF Here, IsForm
<1>3. PICK ks : ks = Kids(Here) /\ ks = [i \in 1..n |-> Todo(Append(Item.path, i), 0)]
  BY <1>2 DEF Kids
<1>4. \A i \in 1..n : ks[i].depth = 0
  BY <1>3 DEF Todo
<1>5. PICK rest \in Seq(Entries) :
        /\ rest = Tail(agenda)
        /\ \A i \in 1..Len(rest) : i + 1 \in DOMAIN agenda /\ rest[i] = agenda[i + 1]
  BY <1>1, TailMeans
<1>6. \A i \in 1..Len(rest) : rest[i].depth = 0
  BY <1>5 DEF Capped
<1>7. PICK next : next = agenda' /\ next = ks \o rest
  BY <1>1, <1>3, <1>5
<1>8. /\ Len(ks) = n /\ DOMAIN next = 1..(n + Len(rest))
      /\ \A i \in 1..(n + Len(rest)) : next[i] = IF i <= n THEN ks[i] ELSE rest[i - n]
  BY <1>2, <1>3, <1>5, <1>7
<1>9. \A i \in DOMAIN next : next[i].depth = 0
  <2>1. SUFFICES ASSUME NEW i \in DOMAIN next PROVE next[i].depth = 0
    OBVIOUS
  <2>2. CASE i <= n
    BY <1>4, <1>8, <2>1, <2>2
  <2>3. CASE ~(i <= n)
    <3>1. i - n \in 1..Len(rest)
      BY <1>5, <1>8, <2>1, <2>3
    <3> QED
      BY <1>6, <1>8, <2>1, <2>3, <3>1
  <2> QED
    BY <2>2, <2>3
<1>10. agenda' # <<>> => Item'.depth = 0
  <2>1. next # <<>> => 1 \in DOMAIN next /\ Head(next) = next[1]
    BY <1>5, <1>8
  <2> QED
    BY <1>7, <1>9, <2>1 DEF Item
<1> QED
  BY <1>7, <1>9, <1>10 DEF Capped

LEMMA CappedNext == TypeOK /\ Capped /\ [Next]_vars => Capped'
<1> SUFFICES ASSUME TypeOK, Capped, [Next]_vars PROVE Capped'
  OBVIOUS
<1>1. CASE Fire
  BY <1>1, CappedFire
<1>2. CASE Descend
  BY <1>2, CappedDescend
<1>3. CASE UNCHANGED <<macros, file, agenda>>
  BY <1>3 DEF Capped, Ranks, Item, Here, MacroCall
<1> QED
  BY <1>1, <1>2, <1>3 DEF Next, vars, Fail, Finish

(* "macro expansion did not terminate" is true: macros that never come     *)
(* back to themselves at the head of their expansions, in fewer ranks than *)
(* maxExpandDepth, are never cut off, whatever they are called with.       *)
THEOREM OnlyLoopsAreCut == Spec => []CapSparesRanked
<1>1. Inv => TypeOK
  BY DEF Inv
<1>2. TypeOK /\ Capped => CapSparesRanked
  <2> SUFFICES ASSUME TypeOK, Capped, Running,
                      NEW rank \in [DOMAIN macros -> 0..(MaxDepth - 1)], Ranks(rank)
               PROVE  ~TooDeep
    BY DEF CapSparesRanked
  <2>1. Item.depth \in Nat
    BY ItemTyped DEF Running, Entries
  <2>2. Item.depth = 0 \/ Item.depth <= MaxDepth
    BY DEF Capped, Running
  <2> QED
    BY <2>1, <2>2, MacroAssumption DEF TooDeep
<1> QED
  BY Invariance, CappedInit, CappedNext, <1>1, <1>2, PTL DEF Spec

===============================================================================
