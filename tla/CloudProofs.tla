---------------------------- MODULE CloudProofs ----------------------------
(* What the providers of Chameleon, FABRIC and Grid'5000 hand over, and the  *)
(* testbeds of MCParts together: what their configurations ask for, whatever *)
(* the groups, the machines, the calls and what earlier calls left.          *)
EXTENDS TestbedProofs

-----------------------------------------------------------------------------
(* Chameleon *)

\* What one element more at the end, and one less at the beginning, do to the number of
\* elements of a kind.
KindIn(s, A) == {i \in DOMAIN s : s[i] \in A}
One(x, A) == IF x \in A THEN 1 ELSE 0

LEMMA KindFinite ==
  ASSUME NEW S, NEW s \in Seq(S), NEW A
  PROVE  IsFiniteSet(KindIn(s, A)) /\ Cardinality(KindIn(s, A)) \in Nat
<1>1. DOMAIN s = 1..Len(s) /\ Len(s) \in Nat
  OBVIOUS
<1>2. 1 \in Int /\ Len(s) \in Int /\ KindIn(s, A) \in SUBSET (1..Len(s))
  BY <1>1 DEF KindIn
<1>3. IsFiniteSet(1..Len(s))
  BY <1>2, FS_Interval
<1> QED
  BY <1>2, <1>3, FS_Subset, FS_CardinalityType

LEMMA OneAppended ==
  ASSUME NEW S, NEW s \in Seq(S), NEW x \in S, NEW A
  PROVE  Cardinality(KindIn(Append(s, x), A)) = Cardinality(KindIn(s, A)) + One(x, A)
<1> DEFINE n == Len(s)
           t == Append(s, x)
<1>1. n \in Nat /\ DOMAIN s = 1..n /\ DOMAIN t = 1..(n + 1) /\ t[n + 1] = x /\ \A i \in 1..n : t[i] = s[i]
  OBVIOUS
<1>2. IsFiniteSet(KindIn(s, A)) /\ Cardinality(KindIn(s, A)) \in Nat
  BY KindFinite
<1>3. n + 1 \notin KindIn(s, A)
  BY <1>1 DEF KindIn
<1> HIDE DEF n, t
<1>4. 1..(n + 1) = (1..n) \cup {n + 1}
  BY <1>1
<1>5. KindIn(t, A) = IF x \in A THEN KindIn(s, A) \cup {n + 1} ELSE KindIn(s, A)
  BY <1>1, <1>3, <1>4 DEF KindIn
<1>6. Cardinality(KindIn(t, A)) = Cardinality(KindIn(s, A)) + One(x, A)
  <2> DEFINE P == KindIn(s, A)
             Q == KindIn(t, A)
  <2>1. IsFiniteSet(P) /\ Cardinality(P) \in Nat /\ n + 1 \notin P /\ Q = IF x \in A THEN P \cup {n + 1} ELSE P
    BY <1>2, <1>3, <1>5
  <2> HIDE DEF P, Q
  <2>2. Cardinality(P \cup {n + 1}) = Cardinality(P) + 1
    BY <2>1, FS_AddElement
  <2>3. Cardinality(Q) = Cardinality(P) + One(x, A)
    BY <2>1, <2>2 DEF One
  <2> QED
    BY <2>3 DEF P, Q
<1> QED
  BY <1>6 DEF t

LEMMA OneTaken ==
  ASSUME NEW S, NEW s \in Seq(S), s # <<>>, NEW A
  PROVE  Cardinality(KindIn(Tail(s), A)) + One(s[1], A) = Cardinality(KindIn(s, A))
<1> DEFINE n == Len(s)
           t == Tail(s)
           K == KindIn(s, A) \ {1}
           L == KindIn(t, A)
           f == [i \in L |-> i + 1]
<1>1. n \in Nat /\ n > 0 /\ DOMAIN s = 1..n /\ DOMAIN t = 1..(n - 1) /\ \A i \in 1..(n - 1) : t[i] = s[i + 1]
  OBVIOUS
<1>2. IsFiniteSet(KindIn(s, A)) /\ Cardinality(KindIn(s, A)) \in Nat
  BY KindFinite
<1>3. t \in Seq(S)
  OBVIOUS
<1>4. IsFiniteSet(L) /\ Cardinality(L) \in Nat
  BY <1>3, KindFinite
<1> HIDE DEF n, t
<1>5. \A i \in L : i \in 1..(n - 1) /\ i + 1 \in K
  BY <1>1 DEF KindIn
<1>6. \A k \in K : k - 1 \in L /\ k \in 1..n
  BY <1>1 DEF KindIn
<1> HIDE DEF K, L
<1>7. f \in Bijection(L, K)
  <2>1. f \in [L -> K]
    BY <1>5
  <2>2. \A i, j \in L : f[i] = f[j] => i = j
    BY <1>5
  <2>3. \A k \in K : \E i \in L : f[i] = k
    BY <1>6
  <2> HIDE DEF f
  <2> QED
    BY <2>1, <2>2, <2>3 DEF Bijection, Injection, Surjection, IsInjective
<1>8. Cardinality(K) = Cardinality(L)
  BY <1>4, <1>7, FS_Bijection DEF ExistsBijection
<1>9. 1 \in KindIn(s, A) <=> s[1] \in A
  BY <1>1 DEF KindIn
<1>10. Cardinality(K) = Cardinality(KindIn(s, A)) - One(s[1], A)
  <2> DEFINE P == KindIn(s, A)
  <2>1. IsFiniteSet(P) /\ Cardinality(P) \in Nat /\ K = P \ {1} /\ (1 \in P <=> s[1] \in A)
    BY <1>2, <1>9 DEF K
  <2> HIDE DEF P
  <2>2. Cardinality(P \ {1}) = IF 1 \in P THEN Cardinality(P) - 1 ELSE Cardinality(P)
    BY <2>1, FS_RemoveElement
  <2>3. Cardinality(K) = Cardinality(P) - One(s[1], A)
    BY <2>1, <2>2 DEF One
  <2> QED
    BY <2>3 DEF P
<1>11. Cardinality(L) + One(s[1], A) = Cardinality(KindIn(s, A))
  BY <1>2, <1>4, <1>8, <1>10 DEF One
<1> QED
  BY <1>11 DEF L, t

\* FlattenSeq keeps the elements of a piece that is the only one of its kind.
LEMMA PieceOnly ==
  ASSUME NEW S, NEW ss \in Seq(Seq(S)), NEW A, NEW i \in DOMAIN ss,
         \A j \in DOMAIN ss : \A k \in DOMAIN ss[j] : ss[j][k] \in A <=> j = i
  PROVE  Cardinality(KindIn(FlattenSeq(ss), A)) = Len(ss[i])
<1> DEFINE flat == FlattenSeq(ss)
           n == Len(ss)
<1>1. flat \in Seq(S)
  BY FlattenLaid
<1>2. PICK off : Laid(flat, ss, Len(ss), off)
  BY FlattenLaid
<1>3. n \in Nat /\ DOMAIN ss = 1..n /\ \A j \in 1..n : DOMAIN ss[j] = 1..Len(ss[j]) /\ Len(ss[j]) \in Nat
  <2>1. n \in Nat /\ DOMAIN ss = 1..n
    OBVIOUS
  <2>2. ASSUME NEW j \in 1..n PROVE DOMAIN ss[j] = 1..Len(ss[j]) /\ Len(ss[j]) \in Nat
    <3>1. ss[j] \in Seq(S)
      BY <2>1
    <3> QED
      BY <3>1
  <2> QED
    BY <2>1, <2>2
<1>4. /\ off \in [0..n -> Nat] /\ Len(flat) = off[n]
      /\ \A j \in 1..n : off[j] = off[j - 1] + Len(ss[j])
      /\ \A j \in 1..n : \A k \in 1..Len(ss[j]) : flat[off[j - 1] + k] = ss[j][k]
      /\ \A j, l \in 0..n : j <= l => off[j] <= off[l]
      /\ \A x \in 1..off[n] : \E j \in 1..n : \E k \in 1..Len(ss[j]) : x = off[j - 1] + k
  BY <1>2 DEF Laid
<1>5. DOMAIN flat = 1..off[n]
  BY <1>1, <1>4
<1> HIDE DEF flat, n
<1> DEFINE a == off[i - 1]
           b == Len(ss[i])
<1>6. i \in 1..n /\ i - 1 \in 0..n /\ a \in Nat /\ b \in Nat /\ off[i] = a + b /\ off[i] <= off[n] /\ off[n] \in Nat
  <2>1. i \in 1..n /\ i - 1 \in 0..n /\ i \in 0..n /\ n \in 0..n /\ i <= n
    BY <1>3
  <2> QED
    BY <1>3, <1>4, <2>1
<1>7. KindIn(flat, A) = (a + 1)..(a + b)
  <2>1. ASSUME NEW x \in KindIn(flat, A) PROVE x \in (a + 1)..(a + b)
    <3>1. x \in 1..off[n] /\ flat[x] \in A
      BY <1>5 DEF KindIn
    <3>2. PICK j \in 1..n : \E k \in 1..Len(ss[j]) : x = off[j - 1] + k
      BY <1>4, <3>1
    <3>3. PICK k \in 1..Len(ss[j]) : x = off[j - 1] + k
      BY <3>2
    <3>4. flat[x] = ss[j][k] /\ k \in DOMAIN ss[j]
      BY <1>3, <1>4, <3>3
    <3>5. j = i
      BY <1>3, <3>1, <3>4
    <3>6. k \in 1..b /\ x = a + k
      BY <3>3, <3>5
    <3> HIDE DEF a, b
    <3> QED
      BY <1>6, <3>6
  <2>2. ASSUME NEW x \in (a + 1)..(a + b) PROVE x \in KindIn(flat, A)
    <3> DEFINE k == x - a
               top == off[n]
    <3>0. a \in Nat /\ b \in Nat /\ top \in Nat /\ a + b <= top /\ x \in (a + 1)..(a + b)
      BY <1>6, <2>2
    <3> HIDE DEF a, b, top
    <3>a. k \in 1..b /\ x = a + k /\ x \in 1..top
      BY <3>0
    <3> USE DEF a, b, top
    <3>1. k \in 1..b /\ x = a + k /\ x \in 1..off[n]
      BY <3>a
    <3> HIDE DEF k
    <3>2. flat[a + k] = ss[i][k] /\ k \in DOMAIN ss[i]
      BY <1>3, <1>4, <1>6, <3>1
    <3>3. flat[x] \in A
      BY <3>1, <3>2
    <3> QED
      BY <1>5, <3>1, <3>3 DEF KindIn
  <2> QED
    BY <2>1, <2>2
<1>8. Cardinality((a + 1)..(a + b)) = b
  <2> HIDE DEF a, b
  <2> DEFINE lo == a + 1
             hi == a + b
  <2>1. lo \in Int /\ hi \in Int /\ (IF lo > hi THEN 0 ELSE hi - lo + 1) = b
    BY <1>6
  <2> HIDE DEF lo, hi
  <2>2. Cardinality(lo..hi) = b
    BY <2>1, FS_Interval
  <2> QED
    BY <2>2 DEF lo, hi
<1>9. Cardinality(KindIn(flat, A)) = b
  BY <1>7, <1>8
<1> QED
  BY <1>9 DEF flat, b

\* Every element is one of a piece.
LEMMA PieceOf ==
  ASSUME NEW S, NEW ss \in Seq(Seq(S)), NEW x \in DOMAIN FlattenSeq(ss)
  PROVE  \E j \in DOMAIN ss : \E k \in DOMAIN ss[j] : FlattenSeq(ss)[x] = ss[j][k]
<1> DEFINE flat == FlattenSeq(ss)
           n == Len(ss)
<1>1. flat \in Seq(S)
  BY FlattenLaid
<1>2. PICK off : Laid(flat, ss, Len(ss), off)
  BY FlattenLaid
<1>3. n \in Nat /\ DOMAIN ss = 1..n
  OBVIOUS
<1>4. /\ Len(flat) = off[n]
      /\ \A j \in 1..n : \A k \in 1..Len(ss[j]) : flat[off[j - 1] + k] = ss[j][k]
      /\ \A y \in 1..off[n] : \E j \in 1..n : \E k \in 1..Len(ss[j]) : y = off[j - 1] + k
  BY <1>2 DEF Laid
<1>5. x \in 1..off[n]
  BY <1>1, <1>4
<1> HIDE DEF flat, n
<1>6. PICK j \in 1..n : \E k \in 1..Len(ss[j]) : x = off[j - 1] + k
  BY <1>4, <1>5
<1>7. PICK k \in 1..Len(ss[j]) : x = off[j - 1] + k
  BY <1>6
<1>8. ss[j] \in Seq(S)
  BY <1>3
<1>9. k \in DOMAIN ss[j]
  BY <1>8
<1>10. flat[x] = ss[j][k]
  BY <1>4, <1>7
<1> QED
  BY <1>3, <1>9, <1>10 DEF flat

\* A finite set of numbers can be put in order.
Ascending(q) == \A i, j \in DOMAIN q : i < j => q[i] < q[j]

LEMMA OrderExists ==
  ASSUME NEW S \in SUBSET Nat, IsFiniteSet(S)
  PROVE  \E q \in SetToSeqs(S) : Ascending(q)
<1> DEFINE T == {m \in Nat : \E R \in SUBSET Nat : /\ IsFiniteSet(R) /\ Cardinality(R) = m
                                                   /\ ~\E q \in SetToSeqs(R) : Ascending(q)}
<1>1. ASSUME T # {} PROVE FALSE
  <2>1. PICK m \in T : \A k \in T : m <= k
    <3>1. T \in SUBSET Nat
      OBVIOUS
    <3> HIDE DEF T
    <3> QED
      BY <1>1, <3>1, FirstPosition
  <2>2. PICK R \in SUBSET Nat : /\ IsFiniteSet(R) /\ Cardinality(R) = m
                                /\ ~\E q \in SetToSeqs(R) : Ascending(q)
    OBVIOUS
  <2>3. m \in Nat
    OBVIOUS
  <2>4. CASE R = {}
    <3> DEFINE e == [i \in 1..0 |-> 0]
    <3>1. 1..0 = {}
      OBVIOUS
    <3>2. Cardinality(R) = 0
      BY <2>4, FS_EmptySet
    <3>3. e \in [1..0 -> R] /\ DOMAIN e = {}
      BY <3>1
    <3>4. e \in SetToSeqs(R) /\ Ascending(e)
      BY <3>1, <3>2, <3>3 DEF SetToSeqs, Ascending
    <3> QED
      BY <2>2, <3>4
  <2>5. CASE R # {}
    <3> DEFINE x == Min(R)
               Q == R \ {x}
    <3>1. x \in R /\ x \in Nat /\ \A y \in R : x <= y
      BY <2>5, FirstPosition
    <3> HIDE DEF x
    <3>2. IsFiniteSet(Q) /\ Cardinality(Q) = m - 1 /\ Q \in SUBSET Nat
      BY <2>2, <3>1, FS_RemoveElement
    <3>3. m > 0 /\ m - 1 \in Nat
      BY <2>2, <2>3, <2>5, FS_EmptySet
    <3>4. m - 1 \notin T
      BY <2>1, <2>3, <3>3
    <3>5. PICK q \in SetToSeqs(Q) : Ascending(q)
      BY <3>2, <3>3, <3>4
    <3>6. q \in [1..(m - 1) -> Q] /\ \A i, j \in 1..(m - 1) : i # j => q[i] # q[j]
      BY <3>2, <3>5 DEF SetToSeqs
    <3>7. \A y \in Q : y \in R /\ y \in Nat /\ x < y
      BY <3>1
    <3>8. \A i, j \in 1..(m - 1) : i < j => q[i] < q[j]
      BY <3>5, <3>6 DEF Ascending
    <3> HIDE DEF Q, T
    <3> DEFINE p == [i \in 1..m |-> IF i = 1 THEN x ELSE q[i - 1]]
    <3>9. DOMAIN p = 1..m /\ \A i \in 1..m : p[i] \in R
      <4> SUFFICES ASSUME NEW i \in 1..m PROVE p[i] \in R
        OBVIOUS
      <4>1. i # 1 => i - 1 \in 1..(m - 1)
        BY <2>3, <3>3
      <4> QED
        BY <3>1, <3>6, <3>7, <4>1
    <3>10. \A i, j \in 1..m : i < j => p[i] < p[j]
      <4> SUFFICES ASSUME NEW i \in 1..m, NEW j \in 1..m, i < j PROVE p[i] < p[j]
        OBVIOUS
      <4>1. j # 1 /\ j - 1 \in 1..(m - 1) /\ (i # 1 => i - 1 \in 1..(m - 1) /\ i - 1 < j - 1)
        BY <2>3, <3>3
      <4>2. CASE i = 1
        BY <3>6, <3>7, <4>1, <4>2
      <4>3. CASE i # 1
        BY <3>8, <4>1, <4>3
      <4> QED
        BY <4>2, <4>3
    <3>11. \A i, j \in 1..m : i # j => p[i] # p[j]
      <4> SUFFICES ASSUME NEW i \in 1..m, NEW j \in 1..m, i # j PROVE p[i] # p[j]
        OBVIOUS
      <4>1. i < j \/ j < i
        BY <2>3
      <4>2. p[i] \in Nat /\ p[j] \in Nat
        BY <3>9
      <4> QED
        BY <3>10, <4>1, <4>2
    <3>12. p \in [1..m -> R]
      BY <3>9
    <3> HIDE DEF p
    <3>13. p \in SetToSeqs(R) /\ Ascending(p)
      BY <2>2, <3>9, <3>10, <3>11, <3>12 DEF SetToSeqs, Ascending
    <3> QED
      BY <2>2, <3>13
  <2> QED
    BY <2>4, <2>5
<1>2. T = {}
  BY <1>1
<1>3. Cardinality(S) \in Nat /\ Cardinality(S) \notin T
  BY <1>2, FS_CardinalityType
<1> QED
  BY <1>3

\* SetToSeq goes over a finite set, once.
LEMMA SetToSeqIs ==
  ASSUME NEW S, IsFiniteSet(S)
  PROVE  /\ Cardinality(S) \in Nat /\ SetToSeq(S) \in [1..Cardinality(S) -> S]
         /\ \A i, j \in 1..Cardinality(S) : SetToSeq(S)[i] = SetToSeq(S)[j] => i = j
         /\ \A x \in S : \E i \in 1..Cardinality(S) : SetToSeq(S)[i] = x
<1> DEFINE D == 1..Cardinality(S)
<1>1. Cardinality(S) \in Nat /\ ExistsBijection(D, S)
  BY FS_CardinalityType
<1>2. PICK b : b \in Bijection(D, S)
  BY <1>1 DEF ExistsBijection
<1>3. b \in [D -> S] /\ IsInjective(b)
  BY <1>2 DEF Bijection, Injection, IsInjective
<1>4. SetToSeq(S) \in [D -> S] /\ IsInjective(SetToSeq(S))
  BY <1>3 DEF SetToSeq
<1>5. SetToSeq(S) \in SetToSeqs(S)
  BY <1>4 DEF SetToSeqs, IsInjective
<1> QED
  BY <1>1, <1>4, <1>5, OrderCovers

\* The groups of the configuration.
ChGroups == DOMAIN chConf.machines
ChConfOK ==
  /\ Len(chConf.machines) \in Nat /\ ChGroups = 1..Len(chConf.machines)
  /\ \A c \in ChGroups : Machine(c).number \in Nat

LEMMA ChConfIs == ASSUME chConf \in ChConfs PROVE ChConfOK
  BY ChameleonAssumption DEF ChConfOK, ChGroups, Machine

\* A run has the flavour of its groups.
LEMMA RunIs ==
  ASSUME ChConfOK, NEW c \in ChGroups
  PROVE  RunOf(c) \in ChGroups /\ Machine(RunOf(c)).flavour = Machine(c).flavour
<1> DEFINE P == {s \in 1..c : \A d \in s..c : Machine(d).flavour = Machine(c).flavour}
<1>1. c \in Nat /\ c >= 1 /\ 1..c \subseteq ChGroups
  BY DEF ChConfOK
<1>2. c \in P
  <2>1. c..c = {c} /\ c \in 1..c
    BY <1>1
  <2> QED
    BY <2>1
<1>3. P \in SUBSET Nat /\ \A s \in P : s \in 1..c /\ s \in s..c
  BY <1>1
<1>4. \A s \in P : Machine(s).flavour = Machine(c).flavour
  BY <1>3
<1>5. RunOf(c) = Min(P)
  BY DEF RunOf
<1> HIDE DEF P
<1>6. Min(P) \in P
  BY <1>2, <1>3, FirstPosition
<1> QED
  BY <1>1, <1>3, <1>4, <1>5, <1>6

LEMMA GroupsFinite ==
  ASSUME ChConfOK, NEW G \in SUBSET ChGroups
  PROVE  IsFiniteSet(MachinesOfGroups(G)) /\ Cardinality(MachinesOfGroups(G)) \in Nat
<1> DEFINE f == [c \in G |-> {c} \X (1..Machine(c).number)]
           T == {{c} \X (1..Machine(c).number) : c \in G}
<1>1. IsFiniteSet(G)
  <2>1. IsFiniteSet(ChGroups)
    <3>1. 1 \in Int /\ Len(chConf.machines) \in Int
      BY DEF ChConfOK
    <3> QED
      BY <3>1, FS_Interval DEF ChConfOK
  <2> QED
    BY <2>1, FS_Subset
<1>2. f \in Surjection(G, T)
  BY DEF Surjection
<1>3. \A x \in T : IsFiniteSet(x)
  <2> SUFFICES ASSUME NEW c \in G PROVE IsFiniteSet({c} \X (1..Machine(c).number))
    OBVIOUS
  <2>1. 1 \in Int /\ Machine(c).number \in Int
    BY DEF ChConfOK
  <2>2. IsFiniteSet(1..Machine(c).number)
    BY <2>1, FS_Interval
  <2>3. IsFiniteSet({c})
    BY FS_Singleton
  <2> QED
    BY <2>2, <2>3, FS_Product
<1>4. MachinesOfGroups(G) = UNION T
  BY DEF MachinesOfGroups
<1> HIDE DEF f, T
<1>5. IsFiniteSet(T)
  BY <1>1, <1>2, FS_Surjection
<1> QED
  BY <1>3, <1>4, <1>5, FS_UNION, FS_CardinalityType

\* How many machines of a flavour are wanted.
LEMMA WantedIs ==
  ASSUME ChConfOK, NEW f
  PROVE  WantedOf(f) \in Nat
<1>1. {c \in ChGroups : Machine(c).flavour = f} \in SUBSET ChGroups
  OBVIOUS
<1> QED
  BY <1>1, GroupsFinite DEF WantedOf, ChGroups

\* The reservations: those of a flavour, and how many machines they have.
ResvOK ==
  /\ DOMAIN Reservations \subseteq ChGroups
  /\ \A r \in DOMAIN Reservations : Reservations[r].flavour = Machine(r).flavour /\ Reservations[r].number \in Nat
  /\ \A f \in Flavours : \E r \in DOMAIN Reservations : Reservations[r].flavour = f
  /\ Edge => DOMAIN Reservations = ChGroups /\ \A c \in ChGroups : Reservations[c].number = Machine(c).number
  /\ ~Edge /\ Adjacent => \A r \in DOMAIN Reservations : Reservations[r].number = WantedOf(Reservations[r].flavour)

LEMMA ResvIs == ASSUME ChConfOK PROVE ResvOK
<1>1. CASE Edge
  <2>1. Reservations = chConf.machines
    BY <1>1 DEF Reservations
  <2>2. DOMAIN Reservations = ChGroups
    BY <2>1 DEF ChGroups
  <2>3. \A c \in ChGroups : Reservations[c].flavour = Machine(c).flavour /\ Reservations[c].number = Machine(c).number
    BY <2>1 DEF Machine
  <2>4. \A f \in Flavours : \E c \in ChGroups : Machine(c).flavour = f
    BY DEF Flavours, ChGroups
  <2> QED
    BY <1>1, <2>2, <2>3, <2>4 DEF ResvOK, ChConfOK
<1>2. CASE ~Edge
  <2> DEFINE R == {RunOf(c) : c \in ChGroups}
             own(r) == {c \in ChGroups : RunOf(c) = r}
  <2>1. Reservations = [s \in R |-> [flavour |-> Machine(s).flavour, number |-> Cardinality(MachinesOfGroups(own(s)))]]
    BY <1>2 DEF Reservations, ChGroups
  <2>2. DOMAIN Reservations = R /\ R \subseteq ChGroups
    <3>1. R \subseteq ChGroups
      BY RunIs
    <3> QED
      BY <2>1, <3>1
  <2>3. \A r \in R : /\ Reservations[r].flavour = Machine(r).flavour
                     /\ Reservations[r].number = Cardinality(MachinesOfGroups(own(r)))
    BY <2>1
  <2>4. \A r \in R : Cardinality(MachinesOfGroups(own(r))) \in Nat
    <3> SUFFICES ASSUME NEW r \in R PROVE Cardinality(MachinesOfGroups(own(r))) \in Nat
      OBVIOUS
    <3>1. own(r) \in SUBSET ChGroups
      OBVIOUS
    <3> HIDE DEF own
    <3> QED
      BY <3>1, GroupsFinite
  <2>5. ASSUME NEW f \in Flavours PROVE \E r \in R : Machine(r).flavour = f
    <3>1. PICK c \in ChGroups : Machine(c).flavour = f
      BY DEF Flavours, ChGroups
    <3> QED
      BY <3>1, RunIs
  <2>6. ASSUME Adjacent, NEW r \in R PROVE Cardinality(MachinesOfGroups(own(r))) = WantedOf(Machine(r).flavour)
    <3>1. PICK c \in ChGroups : r = RunOf(c)
      OBVIOUS
    <3>2. Machine(r).flavour = Machine(c).flavour
      BY <3>1, RunIs
    <3>3. \A d \in ChGroups : Machine(d).flavour = Machine(c).flavour <=> RunOf(d) = r
      <4> SUFFICES ASSUME NEW d \in ChGroups PROVE Machine(d).flavour = Machine(c).flavour <=> RunOf(d) = r
        OBVIOUS
      <4>1. Machine(RunOf(d)).flavour = Machine(d).flavour
        BY RunIs
      <4>2. Machine(d).flavour = Machine(c).flavour => RunOf(d) = RunOf(c)
        BY <2>6 DEF Adjacent, ChGroups
      <4> QED
        BY <3>1, <3>2, <4>1, <4>2
    <3>4. own(r) = {d \in ChGroups : Machine(d).flavour = Machine(r).flavour}
      BY <3>2, <3>3
    <3> QED
      BY <3>4 DEF WantedOf, ChGroups
  <2> HIDE DEF R, own
  <2> QED
    BY <1>2, <2>2, <2>3, <2>4, <2>5, <2>6 DEF ResvOK
<1> QED
  BY <1>1, <1>2

LEMMA FlavoursFinite == ASSUME ChConfOK PROVE IsFiniteSet(Flavours)
<1> DEFINE f == [c \in ChGroups |-> Machine(c).flavour]
<1>1. IsFiniteSet(ChGroups)
  <2>1. 1 \in Int /\ Len(chConf.machines) \in Int
    BY DEF ChConfOK
  <2> QED
    BY <2>1, FS_Interval DEF ChConfOK
<1>2. f \in Surjection(ChGroups, Flavours)
  BY DEF Surjection, Flavours, ChGroups
<1> HIDE DEF f
<1> QED
  BY <1>1, <1>2, FS_Surjection

UnitFields == [lease : Nat, resv : Nat, flavour : Flavours, status : {"creating", "running", "error", "gone"}]
PlanItem == [flavour : Flavours, resv : Nat]

\* What is planned on a reservation, and for a flavour.
PlannedIn(plan, r) == {k \in DOMAIN plan : plan[k].resv = r}
PlannedFor(plan, f) == {k \in DOMAIN plan : plan[k].flavour = f}

\* A plan keeps to reservations of its flavours.
PlanHeld(plan) ==
  /\ plan \in Seq(PlanItem)
  /\ \A k \in DOMAIN plan : /\ plan[k].resv \in DOMAIN Reservations
                            /\ Reservations[plan[k].resv].flavour = plan[k].flavour

\* The hints are the reservations of the flavour.
LEMMA HintsAre ==
  ASSUME ChConfOK, leases[ch.lease].reservations = Reservations, NEW f \in Flavours
  PROVE  /\ Len(Hints(f)) \in Nat \ {0}
         /\ \A i \in 1..Len(Hints(f)) : /\ Hints(f)[i] \in DOMAIN Reservations
                                        /\ Reservations[Hints(f)[i]].flavour = f
<1> DEFINE R == {r \in DOMAIN Reservations : Reservations[r].flavour = f}
<1>1. ResvOK
  BY ResvIs
<1>2. R # {} /\ R \in SUBSET ChGroups
  BY <1>1 DEF ResvOK
<1>3. R \in SUBSET Nat /\ IsFiniteSet(R)
  <2>1. 1 \in Int /\ Len(chConf.machines) \in Int /\ ChGroups = 1..Len(chConf.machines)
    BY DEF ChConfOK
  <2>2. IsFiniteSet(ChGroups)
    BY <2>1, FS_Interval
  <2>3. ChGroups \subseteq Nat
    BY <2>1
  <2> QED
    BY <1>2, <2>2, <2>3, FS_Subset
<1>4. Hints(f) = CHOOSE order \in SetToSeqs(R) : Ascending(order)
  BY DEF Hints, Ascending
<1>5. \A r \in R : r \in DOMAIN Reservations /\ Reservations[r].flavour = f
  OBVIOUS
<1> HIDE DEF R
<1>6. \E order \in SetToSeqs(R) : Ascending(order)
  BY <1>3, OrderExists
<1>7. Hints(f) \in SetToSeqs(R)
  BY <1>4, <1>6
<1>8. Hints(f) \in [1..Cardinality(R) -> R] /\ Cardinality(R) \in Nat
  BY <1>3, <1>7, OrderCovers
<1>9. Len(Hints(f)) = Cardinality(R)
  BY <1>8
<1>10. Cardinality(R) # 0
  BY <1>2, <1>3, FS_EmptySet
<1> QED
  BY <1>5, <1>8, <1>9, <1>10

LEMMA PlanOfIs ==
  ASSUME ChConfOK, leases[ch.lease].reservations = Reservations, NEW f \in Flavours
  PROVE  /\ PlanOf(f) \in Seq(PlanItem) /\ Len(PlanOf(f)) = WantedOf(f) /\ DOMAIN PlanOf(f) = 1..WantedOf(f)
         /\ \A k \in 1..WantedOf(f) : /\ PlanOf(f)[k].flavour = f /\ PlanOf(f)[k].resv \in DOMAIN Reservations
                                      /\ Reservations[PlanOf(f)[k].resv].flavour = f
<1> DEFINE hints == Hints(f)
           m == Len(hints)
<1>1. m \in Nat \ {0} /\ \A i \in 1..m : hints[i] \in DOMAIN Reservations /\ Reservations[hints[i]].flavour = f
  BY HintsAre
<1>2. WantedOf(f) \in Nat
  BY WantedIs
<1>3. DOMAIN Reservations \subseteq Nat
  <2>1. ChGroups \subseteq Nat
    BY DEF ChConfOK
  <2> QED
    BY <2>1, ResvIs DEF ResvOK
<1>4. PlanOf(f) = [k \in 1..WantedOf(f) |-> [flavour |-> f, resv |-> hints[((k - 1) % m) + 1]]]
  BY DEF PlanOf
<1> HIDE DEF hints, m
<1>5. \A k \in 1..WantedOf(f) : ((k - 1) % m) + 1 \in 1..m
  <2> SUFFICES ASSUME NEW k \in 1..WantedOf(f) PROVE ((k - 1) % m) + 1 \in 1..m
    OBVIOUS
  <2>1. k - 1 \in Nat
    BY <1>2
  <2>2. (k - 1) % m \in 0..(m - 1)
    BY <1>1, <2>1, Division
  <2> DEFINE q == (k - 1) % m
  <2>3. q \in 0..(m - 1)
    BY <2>2
  <2> HIDE DEF q
  <2>4. q + 1 \in 1..m
    BY <1>1, <2>3
  <2> QED
    BY <2>4 DEF q
<1>6. \A k \in 1..WantedOf(f) :
         /\ PlanOf(f)[k] \in PlanItem /\ PlanOf(f)[k].flavour = f /\ PlanOf(f)[k].resv \in DOMAIN Reservations
         /\ Reservations[PlanOf(f)[k].resv].flavour = f
  <2> SUFFICES ASSUME NEW k \in 1..WantedOf(f)
               PROVE  /\ PlanOf(f)[k] \in PlanItem /\ PlanOf(f)[k].flavour = f
                      /\ PlanOf(f)[k].resv \in DOMAIN Reservations /\ Reservations[PlanOf(f)[k].resv].flavour = f
    OBVIOUS
  <2>1. PICK h \in DOMAIN Reservations : /\ Reservations[h].flavour = f
                                         /\ PlanOf(f)[k] = [flavour |-> f, resv |-> h]
    BY <1>1, <1>4, <1>5
  <2> QED
    BY <1>3, <2>1 DEF PlanItem
<1>7. DOMAIN PlanOf(f) = 1..WantedOf(f) /\ PlanOf(f) \in [1..WantedOf(f) -> PlanItem]
  <2>1. DOMAIN PlanOf(f) = 1..WantedOf(f) /\ PlanOf(f) = [k \in 1..WantedOf(f) |-> PlanOf(f)[k]]
    BY <1>4
  <2> QED
    BY <1>6, <2>1
<1>8. PlanOf(f) \in Seq(PlanItem) /\ Len(PlanOf(f)) = WantedOf(f)
  BY <1>2, <1>7
<1> QED
  BY <1>6, <1>7, <1>8

\* The plan of bare metal has what is wanted of each of its flavours.
LEMMA MetalPlanIs ==
  ASSUME ChConfOK, leases[ch.lease].reservations = Reservations, NEW F \in SUBSET Flavours
  PROVE  /\ PlanHeld(MetalPlan(F))
         /\ \A f \in F : Cardinality(PlannedFor(MetalPlan(F), f)) = WantedOf(f)
         /\ \A f \in Flavours \ F : PlannedFor(MetalPlan(F), f) = {}
<1> DEFINE order == SetToSeq(F)
           m == Cardinality(F)
           ss == [i \in 1..m |-> PlanOf(order[i])]
           plan == FlattenSeq(ss)
<1>1. IsFiniteSet(F)
  BY FlavoursFinite, FS_Subset
<1>2. /\ m \in Nat /\ order \in [1..m -> F]
      /\ \A i, j \in 1..m : order[i] = order[j] => i = j
      /\ \A f \in F : \E i \in 1..m : order[i] = f
  BY <1>1, SetToSeqIs
<1>3. MetalPlan(F) = plan
  BY DEF MetalPlan
<1> HIDE DEF order, m
<1>4. DOMAIN ss = 1..m /\ \A i \in 1..m : ss[i] = PlanOf(order[i]) /\ order[i] \in F /\ order[i] \in Flavours
  BY <1>2
<1> HIDE DEF ss
<1>5. \A i \in 1..m :
        /\ ss[i] \in Seq(PlanItem) /\ Len(ss[i]) = WantedOf(order[i])
        /\ \A k \in DOMAIN ss[i] : /\ ss[i][k].flavour = order[i] /\ ss[i][k].resv \in DOMAIN Reservations
                                   /\ Reservations[ss[i][k].resv].flavour = order[i]
  <2> SUFFICES ASSUME NEW i \in 1..m
               PROVE  /\ ss[i] \in Seq(PlanItem) /\ Len(ss[i]) = WantedOf(order[i])
                      /\ \A k \in DOMAIN ss[i] : /\ ss[i][k].flavour = order[i]
                                                 /\ ss[i][k].resv \in DOMAIN Reservations
                                                 /\ Reservations[ss[i][k].resv].flavour = order[i]
    OBVIOUS
  <2>1. order[i] \in Flavours /\ ss[i] = PlanOf(order[i])
    BY <1>4
  <2>2. /\ PlanOf(order[i]) \in Seq(PlanItem) /\ Len(PlanOf(order[i])) = WantedOf(order[i])
        /\ DOMAIN PlanOf(order[i]) = 1..WantedOf(order[i])
        /\ \A k \in 1..WantedOf(order[i]) : /\ PlanOf(order[i])[k].flavour = order[i]
                                            /\ PlanOf(order[i])[k].resv \in DOMAIN Reservations
                                            /\ Reservations[PlanOf(order[i])[k].resv].flavour = order[i]
    BY <2>1, PlanOfIs
  <2> QED
    BY <2>1, <2>2
<1>6. ss \in Seq(Seq(PlanItem))
  <2>1. ss \in [1..m -> Seq(PlanItem)]
    <3>1. \A i \in 1..m : ss[i] \in Seq(PlanItem)
      BY <1>5
    <3>2. ss = [i \in 1..m |-> ss[i]]
      BY DEF ss
    <3> QED
      BY <1>4, <3>1, <3>2
  <2> QED
    BY <1>2, <2>1
<1>7. plan \in Seq(PlanItem)
  BY <1>6, FlattenLaid
<1>8. \A x \in DOMAIN plan : \E i \in 1..m : \E k \in DOMAIN ss[i] : plan[x] = ss[i][k]
  <2>1. \A x \in DOMAIN plan : \E i \in DOMAIN ss : \E k \in DOMAIN ss[i] : plan[x] = ss[i][k]
    BY <1>6, PieceOf
  <2> QED
    BY <1>4, <2>1
<1> HIDE DEF plan
<1>9. \A x \in DOMAIN plan : /\ plan[x].flavour \in F /\ plan[x].resv \in DOMAIN Reservations
                             /\ Reservations[plan[x].resv].flavour = plan[x].flavour
  <2> SUFFICES ASSUME NEW x \in DOMAIN plan
               PROVE  /\ plan[x].flavour \in F /\ plan[x].resv \in DOMAIN Reservations
                      /\ Reservations[plan[x].resv].flavour = plan[x].flavour
    OBVIOUS
  <2>1. PICK i \in 1..m : \E k \in DOMAIN ss[i] : plan[x] = ss[i][k]
    BY <1>8
  <2>2. PICK k \in DOMAIN ss[i] : plan[x] = ss[i][k]
    BY <2>1
  <2> QED
    BY <1>4, <1>5, <2>2
<1>10. PlanHeld(plan)
  BY <1>7, <1>9 DEF PlanHeld
<1>11. \A f \in Flavours \ F : PlannedFor(plan, f) = {}
  BY <1>9 DEF PlannedFor
<1>12. ASSUME NEW f \in F PROVE Cardinality(PlannedFor(plan, f)) = WantedOf(f)
  <2> DEFINE A == {it \in PlanItem : it.flavour = f}
  <2>1. PICK i \in 1..m : order[i] = f
    BY <1>2
  <2>2. \A j \in DOMAIN ss : \A k \in DOMAIN ss[j] : ss[j][k] \in A <=> j = i
    <3> SUFFICES ASSUME NEW j \in DOMAIN ss, NEW k \in DOMAIN ss[j] PROVE ss[j][k] \in A <=> j = i
      OBVIOUS
    <3>1. j \in 1..m
      BY <1>4
    <3>2. ss[j] \in Seq(PlanItem) /\ ss[j][k].flavour = order[j]
      BY <1>5, <3>1
    <3>3. ss[j][k] \in PlanItem
      BY <3>2
    <3> QED
      BY <1>2, <2>1, <3>1, <3>2, <3>3
  <2>3. PlannedFor(plan, f) = KindIn(plan, A)
    <3>1. \A x \in DOMAIN plan : plan[x] \in PlanItem
      BY <1>7
    <3> QED
      BY <3>1 DEF PlannedFor, KindIn
  <2> HIDE DEF A
  <2>4. Cardinality(KindIn(plan, A)) = Len(ss[i])
    BY <1>4, <1>6, <2>1, <2>2, PieceOnly DEF plan
  <2> QED
    BY <1>5, <2>1, <2>3, <2>4
<1> QED
  BY <1>3, <1>10, <1>11, <1>12

\* The plan of the edge has what is wanted of each group.
LEMMA EdgePlanIs ==
  ASSUME ChConfOK, Edge
  PROVE  /\ PlanHeld(EdgePlan)
         /\ \A c \in ChGroups : Cardinality(PlannedIn(EdgePlan, c)) = Machine(c).number
<1> DEFINE n == Len(chConf.machines)
           ss == [c \in ChGroups |-> [k \in 1..Machine(c).number |-> [flavour |-> Machine(c).flavour, resv |-> c]]]
           plan == FlattenSeq(ss)
<1>1. n \in Nat /\ ChGroups = 1..n /\ \A c \in ChGroups : Machine(c).number \in Nat
  BY DEF ChConfOK
<1>2. EdgePlan = plan
  BY DEF EdgePlan, ChGroups
<1>3. /\ DOMAIN Reservations = ChGroups
      /\ \A c \in ChGroups : Reservations[c].flavour = Machine(c).flavour /\ Machine(c).flavour \in Flavours
  <2>1. \A c \in ChGroups : Machine(c).flavour \in Flavours
    BY DEF Flavours, ChGroups
  <2> QED
    BY <2>1, ResvIs DEF ResvOK
<1>4. DOMAIN ss = 1..n /\ \A c \in 1..n :
        /\ DOMAIN ss[c] = 1..Machine(c).number
        /\ \A k \in 1..Machine(c).number : ss[c][k] = [flavour |-> Machine(c).flavour, resv |-> c]
        /\ ss[c] \in [1..Machine(c).number -> PlanItem]
  <2>1. DOMAIN ss = 1..n
    BY <1>1
  <2> SUFFICES ASSUME NEW c \in 1..n
               PROVE  /\ DOMAIN ss[c] = 1..Machine(c).number
                      /\ \A k \in 1..Machine(c).number : ss[c][k] = [flavour |-> Machine(c).flavour, resv |-> c]
                      /\ ss[c] \in [1..Machine(c).number -> PlanItem]
    BY <2>1
  <2>2. ss[c] = [k \in 1..Machine(c).number |-> [flavour |-> Machine(c).flavour, resv |-> c]]
    BY <1>1
  <2>3. [flavour |-> Machine(c).flavour, resv |-> c] \in PlanItem
    BY <1>1, <1>3 DEF PlanItem
  <2> QED
    BY <2>2, <2>3
<1> HIDE DEF ss
<1>5. \A c \in 1..n : ss[c] \in Seq(PlanItem) /\ Len(ss[c]) = Machine(c).number
  <2> SUFFICES ASSUME NEW c \in 1..n PROVE ss[c] \in Seq(PlanItem) /\ Len(ss[c]) = Machine(c).number
    OBVIOUS
  <2> DEFINE p == ss[c]
             l == Machine(c).number
  <2>1. l \in Nat /\ p \in [1..l -> PlanItem]
    BY <1>1, <1>4
  <2> HIDE DEF p, l
  <2>2. p \in Seq(PlanItem) /\ Len(p) = l
    BY <2>1
  <2> QED
    BY <2>2 DEF p, l
<1>6. ss \in Seq(Seq(PlanItem))
  <2>1. ss \in [1..n -> Seq(PlanItem)]
    BY <1>1, <1>5 DEF ss
  <2> QED
    BY <1>1, <2>1
<1>7. plan \in Seq(PlanItem)
  BY <1>6, FlattenLaid
<1>8. \A x \in DOMAIN plan : \E c \in 1..n : \E k \in DOMAIN ss[c] : plan[x] = ss[c][k]
  <2>1. \A x \in DOMAIN plan : \E c \in DOMAIN ss : \E k \in DOMAIN ss[c] : plan[x] = ss[c][k]
    BY <1>6, PieceOf
  <2> QED
    BY <1>4, <2>1
<1> HIDE DEF plan
<1>9. \A x \in DOMAIN plan : \E c \in 1..n : plan[x] = [flavour |-> Machine(c).flavour, resv |-> c]
  <2> SUFFICES ASSUME NEW x \in DOMAIN plan
               PROVE  \E c \in 1..n : plan[x] = [flavour |-> Machine(c).flavour, resv |-> c]
    OBVIOUS
  <2>1. PICK c \in 1..n : \E k \in DOMAIN ss[c] : plan[x] = ss[c][k]
    BY <1>8
  <2>2. PICK k \in DOMAIN ss[c] : plan[x] = ss[c][k]
    BY <2>1
  <2>3. DOMAIN ss[c] = 1..Machine(c).number
    BY <1>4
  <2> QED
    BY <1>4, <2>2, <2>3
<1>10. PlanHeld(plan)
  <2>1. \A x \in DOMAIN plan : /\ plan[x].resv \in DOMAIN Reservations
                               /\ Reservations[plan[x].resv].flavour = plan[x].flavour
    BY <1>1, <1>3, <1>9
  <2> QED
    BY <1>7, <2>1 DEF PlanHeld
<1>11. ASSUME NEW c \in ChGroups PROVE Cardinality(PlannedIn(plan, c)) = Machine(c).number
  <2> DEFINE A == {it \in PlanItem : it.resv = c}
  <2>1. c \in 1..n
    BY <1>1
  <2>2. \A j \in DOMAIN ss : \A k \in DOMAIN ss[j] : ss[j][k] \in A <=> j = c
    <3> SUFFICES ASSUME NEW j \in DOMAIN ss, NEW k \in DOMAIN ss[j] PROVE ss[j][k] \in A <=> j = c
      OBVIOUS
    <3>1. j \in 1..n /\ ss[j][k] = [flavour |-> Machine(j).flavour, resv |-> j] /\ ss[j][k] \in PlanItem
      BY <1>4
    <3> QED
      BY <3>1
  <2>3. PlannedIn(plan, c) = KindIn(plan, A)
    <3>1. \A x \in DOMAIN plan : plan[x] \in PlanItem
      BY <1>7
    <3> QED
      BY <3>1 DEF PlannedIn, KindIn
  <2> HIDE DEF A
  <2>4. c \in DOMAIN ss
    BY <1>4, <2>1
  <2>5. Cardinality(KindIn(plan, A)) = Len(ss[c])
    BY <1>6, <2>2, <2>4, PieceOnly DEF plan
  <2> QED
    BY <1>5, <2>1, <2>3, <2>5
<1> QED
  BY <1>2, <1>10, <1>11

LeaseFields == [status : LeaseStatuses, reservations : {Reservations}]
LiveStatuses == {"PENDING", "STARTING", "ACTIVE", "UPDATING"}
LiveLease(l) == leases[l].status \in LiveStatuses

\* The units of a lease, and those that run on one of its reservations or have a flavour.
AtIn(list, l, r) == {i \in DOMAIN list : list[i].lease = l /\ list[i].resv = r}
UnitsOn(l) == {i \in DOMAIN units : units[i].lease = l}
UnitsAt(l, r) == AtIn(units, l, r)
OfIn(list, f) == {i \in DOMAIN list : list[i].flavour = f}
OfFlavour(f) == OfIn(units, f)

ChSteps == {"idle", "lookup", "create", "wait", "ports", "list", "make", "ready", "raised", "destroyed"}
WithLease == {"wait", "ports", "list", "make", "ready"}

LeasesTyped == leases \in Seq(LeaseFields) /\ Len(leases) <= MaxLeases
UnitsTyped ==
    /\ units \in Seq(UnitFields)
    /\ \A i \in DOMAIN units : units[i].lease \in DOMAIN leases /\ units[i].resv \in DOMAIN Reservations
ClientTyped ==
    /\ ch \in [at : ChSteps, call : {"init", "destroy"}, forced : BOOLEAN, lease : Nat, plan : Seq(PlanItem),
               got : SUBSET DOMAIN units]
    /\ PlanHeld(ch.plan)
    /\ ch.at \in WithLease => ch.lease \in DOMAIN leases
    /\ ch.at # "make" => ch.plan = <<>>
ChTyped ==
    /\ chConf \in ChConfs
    /\ LeasesTyped /\ UnitsTyped /\ ClientTyped
    /\ ports \in 0..chConf.ports /\ chCalls \in 0..MaxChCalls

\* The containers of a lease that is not over: none or all, but while they are made and
\* after calls that were interrupted then.
Complete(l) == \A c \in ChGroups : Cardinality(UnitsAt(l, c)) = Machine(c).number
AtMost(l) == \A c \in ChGroups : Cardinality(UnitsAt(l, c)) <= Machine(c).number
Making(l) == \A c \in ChGroups : Cardinality(UnitsAt(l, c)) + Cardinality(PlannedIn(ch.plan, c)) = Machine(c).number
MakesOn(l) == ch.at = "make" /\ ch.lease = l
EdgeLease(l) ==
    /\ \A i \in UnitsOn(l) : units[i].status \in {"creating", "running"}
    /\ AtMost(l)
    /\ ~MakesOn(l) => l \in cut \/ UnitsOn(l) = {} \/ Complete(l)
    /\ MakesOn(l) => ch.got = UnitsOn(l) /\ (ch.plan # <<>> \/ l \notin cut => Making(l))
    /\ ch.at = "ready" /\ ch.lease = l => ch.got = UnitsOn(l) /\ (l \in cut \/ Complete(l))
EdgeHeld == Edge => \A l \in DOMAIN leases : LiveLease(l) => EdgeLease(l)

\* The servers, as long as they are all of one lease and none has vanished.
OneLease == \A i, j \in DOMAIN units : units[i].lease = units[j].lease
NoneGone == \A i \in DOMAIN units : units[i].status # "gone"
MetalUnits ==
    /\ \A f \in Flavours : Cardinality(OfFlavour(f)) + Cardinality(PlannedFor(ch.plan, f)) <= WantedOf(f)
    /\ \A i \in DOMAIN units : Reservations[units[i].resv].flavour = units[i].flavour /\ units[i].status # "error"
MetalHeld == ~Edge /\ Adjacent /\ OneLease /\ NoneGone => MetalUnits

ChHeld == ChTyped /\ EdgeHeld /\ MetalHeld

\* What depends on the configuration stays.
SameChConf ==
  /\ Reservations' = Reservations /\ Flavours' = Flavours /\ (Edge' <=> Edge) /\ (Adjacent' <=> Adjacent)
  /\ ChGroups' = ChGroups /\ UnitFields' = UnitFields /\ PlanItem' = PlanItem /\ LeaseFields' = LeaseFields
  /\ \A c : Machine(c)' = Machine(c)
  /\ \A f : WantedOf(f)' = WantedOf(f)
  /\ chConf.ports' = chConf.ports

LEMMA ConfStays == ASSUME UNCHANGED chConf PROVE SameChConf
<1>1. \A c : Machine(c)' = Machine(c) /\ RunOf(c)' = RunOf(c)
  BY DEF Machine, RunOf
<1>2. \A G : MachinesOfGroups(G)' = MachinesOfGroups(G)
  BY DEF MachinesOfGroups, Machine
<1>3. (Edge' <=> Edge) /\ chConf.ports' = chConf.ports /\ ChGroups' = ChGroups
  BY DEF Edge, ChGroups
<1>4. Reservations' = Reservations
  BY DEF Reservations, Edge, RunOf, Machine, MachinesOfGroups
<1>5. Flavours' = Flavours
  BY DEF Flavours, Machine
<1>6. Adjacent' <=> Adjacent
  BY DEF Adjacent, RunOf, Machine
<1>7. UnitFields' = UnitFields /\ PlanItem' = PlanItem /\ LeaseFields' = LeaseFields
  BY <1>4, <1>5 DEF UnitFields, PlanItem, LeaseFields
<1>8. \A f : WantedOf(f)' = WantedOf(f)
  BY DEF WantedOf, Machine, MachinesOfGroups
<1> QED
  BY <1>1, <1>3, <1>4, <1>5, <1>6, <1>7, <1>8 DEF SameChConf

LEMMA NamedLies == ASSUME ChTyped PROVE Named \in 0..Len(leases)
<1>1. Len(leases) \in Nat /\ DOMAIN leases = 1..Len(leases)
  BY DEF ChTyped, LeasesTyped
<1>2. Listed \in SUBSET Nat /\ Listed \subseteq 1..Len(leases)
  BY <1>1 DEF Listed
<1>3. CASE Listed = {}
  BY <1>1, <1>3 DEF Named
<1>4. CASE Listed # {}
  <2>1. Min(Listed) \in Listed
    BY <1>2, <1>4, FirstPosition
  <2>2. Named = 0 \/ Named = Min(Listed)
    BY DEF Named
  <2> DEFINE k == Min(Listed)
  <2>3. k \in 1..Len(leases) /\ (Named = 0 \/ Named = k)
    BY <1>2, <2>1, <2>2
  <2> HIDE DEF k
  <2> QED
    BY <1>1, <2>3
<1> QED
  BY <1>3, <1>4

\* No lease comes back; a lease that is made is the last one.
LeasesGo ==
  /\ LeasesTyped'
  /\ DOMAIN leases \subseteq DOMAIN leases'
  /\ \A l \in DOMAIN leases : LiveLease(l)' => LiveLease(l)

LEMMA LeaseEdited ==
  ASSUME ChTyped, SameChConf, NEW i \in DOMAIN leases, NEW s \in LeaseStatuses, s \in LiveStatuses => LiveLease(i),
         leases' = [leases EXCEPT ![i].status = s]
  PROVE  LeasesGo
<1>1. leases \in Seq(LeaseFields) /\ Len(leases) <= MaxLeases
  BY DEF ChTyped, LeasesTyped
<1>2. leases[i] \in LeaseFields
  BY <1>1
<1> DEFINE e == [leases[i] EXCEPT !.status = s]
<1>3. e \in LeaseFields /\ e.status = s
  BY <1>2 DEF LeaseFields
<1>4. leases' = [leases EXCEPT ![i] = e]
  OBVIOUS
<1> HIDE DEF e
<1>5. /\ leases' \in Seq(LeaseFields) /\ Len(leases') = Len(leases) /\ DOMAIN leases' = DOMAIN leases
      /\ \A l \in DOMAIN leases : leases'[l] = IF l = i THEN e ELSE leases[l]
  BY <1>1, <1>3, <1>4
<1>6. LeasesTyped'
  BY <1>1, <1>5 DEF LeasesTyped, SameChConf
<1>7. \A l \in DOMAIN leases : LiveLease(l)' => LiveLease(l)
  BY <1>3, <1>5 DEF LiveLease
<1> QED
  BY <1>5, <1>6, <1>7 DEF LeasesGo

LEMMA LeasesSame ==
  ASSUME ChTyped, SameChConf, UNCHANGED leases
  PROVE  LeasesGo
  BY DEF ChTyped, LeasesTyped, SameChConf, LeasesGo, LiveLease

LEMMA LeaseMade ==
  ASSUME ChTyped, SameChConf, Len(leases) < MaxLeases,
         leases' = Append(leases, [status |-> "PENDING", reservations |-> Reservations])
  PROVE  LeasesGo /\ Len(leases') = Len(leases) + 1
<1> DEFINE e == [status |-> "PENDING", reservations |-> Reservations]
<1>1. leases \in Seq(LeaseFields) /\ Len(leases) <= MaxLeases
  BY DEF ChTyped, LeasesTyped
<1>2. e \in LeaseFields
  BY DEF LeaseFields, LeaseStatuses
<1>3. MaxLeases \in Nat
  BY ChameleonAssumption
<1> HIDE DEF e
<1>4. leases' = Append(leases, e)
  BY DEF e
<1>5. /\ leases' \in Seq(LeaseFields) /\ Len(leases') = Len(leases) + 1
      /\ DOMAIN leases \subseteq DOMAIN leases'
      /\ \A l \in DOMAIN leases : leases'[l] = leases[l]
  BY <1>1, <1>2, <1>4
<1>6. LeasesTyped'
  <2>1. Len(leases) \in Nat
    BY <1>1
  <2> QED
    BY <1>3, <1>5, <2>1 DEF LeasesTyped, SameChConf
<1> QED
  BY <1>5, <1>6 DEF LeasesGo, LiveLease

LEMMA LeasesGoOn == ASSUME ChTyped, [ChNext]_chVars PROVE LeasesGo /\ UNCHANGED chConf /\ SameChConf
<1>1. UNCHANGED chConf
  BY DEF ChNext, chVars, BeginChCall, LookupEdge, LookupMetal, LookupFails, CreateLease, WaitLease, CheckPorts,
         ListUnits, MakeUnit, UnitsReady, ChKilled, LeaseMoves, UnitStarts, UnitVanishes
<1>2. SameChConf
  BY <1>1, ConfStays
<1>3. Named \in 0..Len(leases) /\ DOMAIN leases = 1..Len(leases) /\ Len(leases) \in Nat
  BY NamedLies DEF ChTyped, LeasesTyped
<1>4. ASSUME leases' = Erased(Named), Named # 0 PROVE LeasesGo
  <2>1. Named \in DOMAIN leases
    BY <1>3, <1>4
  <2>2. "DELETED" \in LeaseStatuses /\ "DELETED" \notin LiveStatuses
    BY DEF LeaseStatuses, LiveStatuses
  <2>3. leases' = [leases EXCEPT ![Named].status = "DELETED"]
    BY <1>4 DEF Erased
  <2> DEFINE k == Named
  <2>4. k \in DOMAIN leases /\ leases' = [leases EXCEPT ![k].status = "DELETED"]
    BY <2>1, <2>3
  <2> HIDE DEF k
  <2> QED
    BY <1>2, <2>2, <2>4, LeaseEdited
<1>5. ASSUME leases' = leases PROVE LeasesGo
  BY <1>2, <1>5, LeasesSame
<1>6. ASSUME LookupEdge PROVE LeasesGo
  <2>1. leases' = leases \/ (Named # 0 /\ leases' = Erased(Named))
    BY <1>6 DEF LookupEdge
  <2> QED
    BY <1>4, <1>5, <2>1
<1>7. ASSUME LookupMetal PROVE LeasesGo
  <2>1. leases' = leases \/ (Named # 0 /\ leases' = Erased(Named))
    BY <1>7 DEF LookupMetal
  <2> QED
    BY <1>4, <1>5, <2>1
<1>8. ASSUME CreateLease PROVE LeasesGo
  BY <1>2, <1>5, <1>8, LeaseMade DEF CreateLease
<1>9. ASSUME NEW i \in DOMAIN leases, LeaseMoves(i) PROVE LeasesGo
  <2>1. PICK s \in NextStatus(leases[i].status) : leases' = [leases EXCEPT ![i].status = s]
    BY <1>9 DEF LeaseMoves
  <2>2. s \in LeaseStatuses /\ leases[i].status \in LiveStatuses
    BY <2>1 DEF NextStatus, LeaseStatuses, LiveStatuses
  <2> QED
    BY <1>2, <2>1, <2>2, LeaseEdited DEF LiveLease
<1>10. LeasesGo
  BY <1>5, <1>6, <1>7, <1>8, <1>9
     DEF ChNext, chVars, BeginChCall, LookupFails, WaitLease, CheckPorts, ListUnits, MakeUnit, UnitsReady,
         ChKilled, UnitStarts, UnitVanishes
<1> QED
  BY <1>1, <1>2, <1>10

\* A step that makes no unit keeps what the units are for.
KeptUnits ==
  /\ units' \in Seq(UnitFields) /\ DOMAIN units' = DOMAIN units
  /\ \A j \in DOMAIN units : /\ units'[j].lease = units[j].lease /\ units'[j].resv = units[j].resv
                             /\ units'[j].flavour = units[j].flavour

LEMMA UnitsSame == ASSUME ChTyped, UNCHANGED units PROVE KeptUnits
  BY DEF ChTyped, UnitsTyped, KeptUnits

LEMMA UnitEdited ==
  ASSUME ChTyped, NEW i \in DOMAIN units, NEW s \in {"creating", "running", "error", "gone"},
         units' = [units EXCEPT ![i].status = s]
  PROVE  KeptUnits /\ \A j \in DOMAIN units : units'[j].status = IF j = i THEN s ELSE units[j].status
<1> DEFINE e == [units[i] EXCEPT !.status = s]
<1>1. units \in Seq(UnitFields) /\ units[i] \in UnitFields
  BY DEF ChTyped, UnitsTyped
<1>2. /\ e \in UnitFields /\ e.status = s /\ e.lease = units[i].lease /\ e.resv = units[i].resv
      /\ e.flavour = units[i].flavour
  BY <1>1 DEF UnitFields
<1>3. units' = [units EXCEPT ![i] = e]
  OBVIOUS
<1> HIDE DEF e
<1>4. /\ units' \in Seq(UnitFields) /\ DOMAIN units' = DOMAIN units
      /\ \A j \in DOMAIN units : units'[j] = IF j = i THEN e ELSE units[j]
  BY <1>1, <1>2, <1>3
<1> QED
  BY <1>2, <1>4 DEF KeptUnits

LEMMA UnitsGone ==
  ASSUME ChTyped, units' = [i \in DOMAIN units |-> [units[i] EXCEPT !.status = "gone"]]
  PROVE  KeptUnits /\ \A j \in DOMAIN units : units'[j].status = "gone"
<1>1. units \in Seq(UnitFields)
  BY DEF ChTyped, UnitsTyped
<1>2. ASSUME NEW j \in DOMAIN units
      PROVE  /\ units'[j] \in UnitFields /\ units'[j].status = "gone" /\ units'[j].lease = units[j].lease
             /\ units'[j].resv = units[j].resv /\ units'[j].flavour = units[j].flavour
  <2>1. units[j] \in UnitFields /\ units'[j] = [units[j] EXCEPT !.status = "gone"]
    BY <1>1
  <2> QED
    BY <2>1 DEF UnitFields
<1>3. DOMAIN units' = DOMAIN units /\ DOMAIN units = 1..Len(units) /\ Len(units) \in Nat
  BY <1>1
<1>4. units' \in [1..Len(units) -> UnitFields]
  <2>1. units' = [j \in 1..Len(units) |-> units'[j]]
    BY <1>3
  <2> QED
    BY <1>2, <1>3, <2>1
<1>5. units' \in Seq(UnitFields)
  BY <1>3, <1>4
<1> QED
  BY <1>2, <1>3, <1>5 DEF KeptUnits

KeptCounts ==
  /\ \A l : UnitsOn(l)' = UnitsOn(l)
  /\ \A l, r : UnitsAt(l, r)' = UnitsAt(l, r)
  /\ \A f : OfFlavour(f)' = OfFlavour(f)

LEMMA KeptIs == ASSUME ChTyped, SameChConf, LeasesGo, KeptUnits PROVE UnitsTyped' /\ KeptCounts
<1>1. UnitsTyped'
  BY DEF ChTyped, UnitsTyped, SameChConf, LeasesGo, KeptUnits
<1>2. \A l : UnitsOn(l)' = UnitsOn(l)
  BY DEF KeptUnits, UnitsOn
<1>3. \A l, r : UnitsAt(l, r)' = UnitsAt(l, r)
  BY DEF KeptUnits, UnitsAt, AtIn
<1>4. \A f : OfFlavour(f)' = OfFlavour(f)
  BY DEF KeptUnits, OfFlavour, OfIn
<1> QED
  BY <1>1, <1>2, <1>3, <1>4 DEF KeptCounts

\* A unit that is made is the first of the plan, and the last of the units.
Made(u) ==
  /\ u \in UnitFields /\ u.lease = ch.lease /\ u.resv = ch.plan[1].resv /\ u.flavour = ch.plan[1].flavour
  /\ u.status = "creating" /\ u.lease \in DOMAIN leases /\ u.resv \in DOMAIN Reservations
  /\ Reservations[u.resv].flavour = u.flavour
MadeUnit ==
  /\ UnitsTyped' /\ DOMAIN units' = DOMAIN units \cup {Len(units')} /\ Len(units') \notin DOMAIN units
  /\ \E u : Made(u) /\ units' = Append(units, u)
PlanGoes == ch.plan # <<>> /\ ch.plan[1] \in PlanItem /\ ch.plan \in Seq(PlanItem)

LEMMA PlanFirst == ASSUME ChTyped, ch.plan # <<>> PROVE PlanGoes /\ 1 \in DOMAIN ch.plan
<1>1. ch.plan \in Seq(PlanItem)
  BY DEF ChTyped, ClientTyped, PlanHeld
<1> QED
  BY <1>1 DEF PlanGoes

LEMMA UnitMade ==
  ASSUME ChTyped, SameChConf, ch.at = "make", ch.plan # <<>>, UNCHANGED leases,
         units' = Append(units, [lease |-> ch.lease, resv |-> ch.plan[1].resv,
                                 flavour |-> ch.plan[1].flavour, status |-> "creating"])
  PROVE  MadeUnit
<1> DEFINE u == [lease |-> ch.lease, resv |-> ch.plan[1].resv, flavour |-> ch.plan[1].flavour, status |-> "creating"]
<1>1. PlanGoes /\ 1 \in DOMAIN ch.plan
  BY PlanFirst
<1>2. /\ ch.lease \in DOMAIN leases /\ ch.lease \in Nat /\ ch.plan[1].resv \in DOMAIN Reservations
      /\ Reservations[ch.plan[1].resv].flavour = ch.plan[1].flavour
  BY <1>1 DEF ChTyped, ClientTyped, PlanHeld, WithLease
<1>3. ch.plan[1].resv \in Nat /\ ch.plan[1].flavour \in Flavours
  BY <1>1 DEF PlanGoes, PlanItem
<1>4. Made(u)
  BY <1>2, <1>3 DEF Made, UnitFields
<1>5. units' = Append(units, u)
  OBVIOUS
<1> HIDE DEF u
<1>6. units \in Seq(UnitFields) /\ u \in UnitFields
  BY <1>4 DEF Made, ChTyped, UnitsTyped
<1>7. /\ units' \in Seq(UnitFields) /\ Len(units') = Len(units) + 1 /\ DOMAIN units' = 1..(Len(units) + 1)
      /\ DOMAIN units = 1..Len(units) /\ Len(units) \in Nat
      /\ units'[Len(units) + 1] = u /\ \A i \in 1..Len(units) : units'[i] = units[i]
  BY <1>5, <1>6
<1>8. DOMAIN units' = DOMAIN units \cup {Len(units')} /\ Len(units') \notin DOMAIN units
  BY <1>7
<1>9. \A i \in DOMAIN units' : units'[i].lease \in DOMAIN leases /\ units'[i].resv \in DOMAIN Reservations
  BY <1>4, <1>7, <1>8 DEF Made, ChTyped, UnitsTyped
<1>10. UnitsTyped'
  BY <1>7, <1>9 DEF UnitsTyped, SameChConf
<1> QED
  BY <1>4, <1>5, <1>8, <1>10 DEF MadeUnit

\* Every step keeps the units or makes one.
LEMMA UnitsGo ==
  ASSUME ChTyped, [ChNext]_chVars
  PROVE  KeptUnits \/ (MakeUnit /\ MadeUnit)
<1>1. LeasesGo /\ SameChConf
  BY LeasesGoOn
<1>2. ASSUME units' = units PROVE KeptUnits
  BY <1>2, UnitsSame
<1>3. ASSUME ListUnits PROVE KeptUnits
  <2>1. units' = units \/ units' = [i \in DOMAIN units |-> [units[i] EXCEPT !.status = "gone"]]
    BY <1>3 DEF ListUnits
  <2> QED
    BY <1>2, <2>1, UnitsGone
<1>4. ASSUME MakeUnit PROVE KeptUnits \/ (MakeUnit /\ MadeUnit)
  <2>1. \/ units' = units
        \/ /\ ch.at = "make" /\ ch.plan # <<>> /\ UNCHANGED leases
           /\ units' = Append(units, [lease |-> ch.lease, resv |-> ch.plan[1].resv,
                                      flavour |-> ch.plan[1].flavour, status |-> "creating"])
    BY <1>4 DEF MakeUnit
  <2> QED
    BY <1>1, <1>2, <1>4, <2>1, UnitMade
<1>5. ASSUME NEW i \in DOMAIN units, UnitStarts(i) \/ UnitVanishes(i) PROVE KeptUnits
  <2>1. \E s \in {"running", "error", "gone"} : units' = [units EXCEPT ![i].status = s]
    BY <1>5 DEF UnitStarts, UnitVanishes
  <2> QED
    BY <2>1, UnitEdited
<1>6. CASE ~MakeUnit /\ ~ListUnits /\ ~\E i \in DOMAIN units : UnitStarts(i) \/ UnitVanishes(i)
  <2>1. units' = units
    BY <1>6 DEF ChNext, chVars, BeginChCall, LookupEdge, LookupMetal, LookupFails, CreateLease, WaitLease,
          CheckPorts, UnitsReady, ChKilled, LeaseMoves
  <2> QED
    BY <1>2, <2>1
<1> QED
  BY <1>3, <1>4, <1>5, <1>6

\* ... so their types are kept.
LEMMA UnitsGoOn == ASSUME ChTyped, [ChNext]_chVars PROVE UnitsTyped' /\ DOMAIN units \subseteq DOMAIN units'
<1>1. LeasesGo /\ SameChConf
  BY LeasesGoOn
<1>2. CASE KeptUnits
  BY <1>1, <1>2, KeptIs DEF KeptUnits
<1>3. CASE MadeUnit
  BY <1>3 DEF MadeUnit
<1> QED
  BY <1>2, <1>3, UnitsGo

ClientIs(a, what, forced, lease, plan, held) ==
  ch' = [at |-> a, call |-> what, forced |-> forced, lease |-> lease, plan |-> plan, got |-> held]

LEMMA ClientNow ==
  ASSUME ChTyped, [ChNext]_chVars, NEW a \in ChSteps, NEW what \in {"init", "destroy"}, NEW forced \in BOOLEAN,
         NEW lease \in Nat, NEW plan, PlanHeld(plan), NEW held, held \subseteq DOMAIN units',
         a \in WithLease => lease \in DOMAIN leases', a # "make" => plan = <<>>,
         ClientIs(a, what, forced, lease, plan, held)
  PROVE  ClientTyped'
<1>1. SameChConf
  BY LeasesGoOn
<1>2. PlanHeld(plan)'
  BY <1>1 DEF PlanHeld, SameChConf
<1>3. plan \in Seq(PlanItem')
  BY <1>1 DEF PlanHeld, SameChConf
<1>4. /\ ch'.at = a /\ ch'.call = what /\ ch'.forced = forced /\ ch'.lease = lease /\ ch'.plan = plan /\ ch'.got = held
      /\ ch' \in [at : ChSteps, call : {"init", "destroy"}, forced : BOOLEAN, lease : Nat, plan : Seq(PlanItem'),
                  got : SUBSET DOMAIN units']
  BY <1>3 DEF ClientIs
<1>5. PlanHeld(ch.plan)'
  BY <1>2, <1>4 DEF PlanHeld
<1> QED
  BY <1>4, <1>5 DEF ClientTyped

\* The client as it is.
ClientNo ==
  /\ ch = [at |-> ch.at, call |-> ch.call, forced |-> ch.forced, lease |-> ch.lease, plan |-> ch.plan, got |-> ch.got]
  /\ ch.at \in ChSteps /\ ch.call \in {"init", "destroy"} /\ ch.forced \in BOOLEAN /\ ch.lease \in Nat
  /\ PlanHeld(ch.plan) /\ ch.got \subseteq DOMAIN units
  /\ ch.at \in WithLease => ch.lease \in DOMAIN leases
  /\ ch.at # "make" => ch.plan = <<>>

LEMMA ClientWas == ASSUME ChTyped PROVE ClientNo
<1>1. ch \in [at : ChSteps, call : {"init", "destroy"}, forced : BOOLEAN, lease : Nat, plan : Seq(PlanItem),
               got : SUBSET DOMAIN units]
  BY DEF ChTyped, ClientTyped
<1>2. ch = [at |-> ch.at, call |-> ch.call, forced |-> ch.forced, lease |-> ch.lease, plan |-> ch.plan, got |-> ch.got]
  BY <1>1
<1> QED
  BY <1>1, <1>2 DEF ClientNo, ChTyped, ClientTyped

LEMMA NothingPlanned == PlanHeld(<<>>)
  BY DEF PlanHeld

\* The client goes to another step, perhaps with a lease.
LEMMA ClientGoes ==
  ASSUME ChTyped, [ChNext]_chVars, NEW a \in ChSteps \ {"make"}, ch.at # "make", NEW lease \in Nat,
         a \in WithLease => lease \in DOMAIN leases',
         ch' = [ch EXCEPT !.at = a, !.lease = lease]
  PROVE  ClientTyped'
<1>1. ClientNo /\ DOMAIN units \subseteq DOMAIN units'
  BY ClientWas, UnitsGoOn
<1>2. ClientIs(a, ch.call, ch.forced, lease, ch.plan, ch.got)
  BY <1>1 DEF ClientNo, ClientIs
<1>3. ch.plan = <<>> /\ PlanHeld(ch.plan) /\ ch.got \subseteq DOMAIN units'
  BY <1>1 DEF ClientNo
<1> QED
  BY <1>1, <1>2, <1>3, ClientNow DEF ClientNo

LEMMA ClientWalks ==
  ASSUME ChTyped, [ChNext]_chVars, NEW a \in ChSteps \ {"make"}, ch.at # "make",
         a \in WithLease => ch.at \in WithLease, ChGo(a)
  PROVE  ClientTyped'
<1>1. ClientNo /\ LeasesGo
  BY ClientWas, LeasesGoOn
<1>2. ch' = [ch EXCEPT !.at = a, !.lease = ch.lease]
  BY <1>1 DEF ClientNo, ChGo
<1>3. ch.lease \in Nat /\ (a \in WithLease => ch.lease \in DOMAIN leases')
  BY <1>1 DEF ClientNo, LeasesGo
<1> QED
  BY <1>2, <1>3, ClientGoes

LEMMA ClientStays == ASSUME ChTyped, [ChNext]_chVars, UNCHANGED ch PROVE ClientTyped'
<1>1. ClientNo /\ LeasesGo /\ DOMAIN units \subseteq DOMAIN units'
  BY ClientWas, LeasesGoOn, UnitsGoOn
<1>2. ClientIs(ch.at, ch.call, ch.forced, ch.lease, ch.plan, ch.got)
  BY <1>1 DEF ClientNo, ClientIs
<1>3. ch.got \subseteq DOMAIN units' /\ (ch.at \in WithLease => ch.lease \in DOMAIN leases')
  BY <1>1 DEF ClientNo, LeasesGo
<1> QED
  BY <1>1, <1>2, <1>3, ClientNow DEF ClientNo

LEMMA BeginTyped ==
  ASSUME ChTyped, [ChNext]_chVars, NEW what \in {"init", "destroy"}, NEW forced \in BOOLEAN, BeginChCall(what, forced)
  PROVE  ClientTyped'
<1>1. ch' = [Fresh EXCEPT !.at = "lookup", !.call = what, !.forced = forced]
  BY DEF BeginChCall
<1>2. ClientIs("lookup", what, forced, 0, <<>>, {})
  BY <1>1 DEF Fresh, ClientIs
<1>3. "lookup" \in ChSteps /\ "lookup" \notin WithLease
  BY DEF ChSteps, WithLease
<1>4. {} \subseteq DOMAIN units' /\ 0 \in Nat
  OBVIOUS
<1> QED
  BY <1>2, <1>3, <1>4, NothingPlanned, ClientNow

LEMMA KilledTyped == ASSUME ChTyped, [ChNext]_chVars, ChKilled PROVE ClientTyped'
<1>1. ch' = Fresh
  BY DEF ChKilled
<1> DEFINE no == FALSE
<1>2. ClientIs("idle", "init", no, 0, <<>>, {}) /\ no \in BOOLEAN
  BY <1>1 DEF Fresh, ClientIs
<1> HIDE DEF no
<1>3. "idle" \in ChSteps /\ "idle" \notin WithLease
  BY DEF ChSteps, WithLease
<1>4. {} \subseteq DOMAIN units' /\ 0 \in Nat
  OBVIOUS
<1> QED
  BY <1>2, <1>3, <1>4, NothingPlanned, ClientNow

\* A lease that is found by its name is one of those.
LEMMA FoundTyped ==
  ASSUME ChTyped, [ChNext]_chVars, ch.at # "make", Named # 0, ch' = [ch EXCEPT !.at = "wait", !.lease = Named]
  PROVE  ClientTyped'
<1>1. Named \in Nat /\ Named \in DOMAIN leases
  BY NamedLies DEF ChTyped, LeasesTyped
<1>2. "wait" \in ChSteps \ {"make"}
  BY DEF ChSteps
<1>3. Named \in DOMAIN leases'
  BY <1>1, LeasesGoOn DEF LeasesGo
<1> DEFINE k == Named
<1>4. k \in Nat /\ k \in DOMAIN leases' /\ ch' = [ch EXCEPT !.at = "wait", !.lease = k]
  BY <1>1, <1>3
<1> HIDE DEF k
<1> QED
  BY <1>2, <1>4, ClientGoes

LEMMA LookupTyped == ASSUME ChTyped, [ChNext]_chVars, LookupEdge \/ LookupMetal \/ LookupFails PROVE ClientTyped'
<1>1. ch.at # "make"
  BY DEF LookupEdge, LookupMetal, LookupFails
<1>2. \/ \E a \in {"destroyed", "create", "raised"} : ChGo(a)
      \/ Named # 0 /\ ch' = [ch EXCEPT !.at = "wait", !.lease = Named]
  BY DEF LookupEdge, LookupMetal, LookupFails
<1>3. \A a \in {"destroyed", "create", "raised"} : a \in ChSteps \ {"make"} /\ a \notin WithLease
  BY DEF ChSteps, WithLease
<1> QED
  BY <1>1, <1>2, <1>3, ClientWalks, FoundTyped

LEMMA CreateTyped == ASSUME ChTyped, [ChNext]_chVars, CreateLease PROVE ClientTyped'
<1>1. ch.at # "make" /\ SameChConf
  BY LeasesGoOn DEF CreateLease
<1>2. CASE UNCHANGED ch
  BY <1>2, ClientStays
<1>3. CASE ChGo("raised")
  <2>1. "raised" \in ChSteps \ {"make"} /\ "raised" \notin WithLease
    BY DEF ChSteps, WithLease
  <2> QED
    BY <1>1, <1>3, <2>1, ClientWalks
<1>4. CASE /\ Len(leases) < MaxLeases
           /\ leases' = Append(leases, [status |-> "PENDING", reservations |-> Reservations])
           /\ ch' = [ch EXCEPT !.at = "wait", !.lease = Len(leases')]
  <2>1. LeasesGo /\ Len(leases') = Len(leases) + 1
    BY <1>1, <1>4, LeaseMade
  <2>2. Len(leases) \in Nat
    BY DEF ChTyped, LeasesTyped
  <2> DEFINE k == Len(leases) + 1
  <2>3. k \in Nat /\ k \in DOMAIN leases' /\ ch' = [ch EXCEPT !.at = "wait", !.lease = k]
    <3>1. leases' \in Seq(LeaseFields')
      BY <2>1 DEF LeasesGo, LeasesTyped
    <3> QED
      BY <1>4, <2>1, <2>2, <3>1
  <2>4. "wait" \in ChSteps \ {"make"}
    BY DEF ChSteps
  <2> HIDE DEF k
  <2> QED
    BY <1>1, <2>3, <2>4, ClientGoes
<1> QED
  BY <1>2, <1>3, <1>4 DEF CreateLease

LEMMA WaitTyped == ASSUME ChTyped, [ChNext]_chVars, WaitLease \/ CheckPorts PROVE ClientTyped'
<1>1. ch.at \in {"wait", "ports"} /\ (UNCHANGED ch \/ ChGo("list") \/ ChGo("ports"))
  BY DEF WaitLease, CheckPorts
<1>2. "list" \in ChSteps \ {"make"} /\ "ports" \in ChSteps \ {"make"} /\ "wait" \in WithLease /\ "ports" \in WithLease
  BY DEF ChSteps, WithLease
<1> QED
  BY <1>1, <1>2, ClientStays, ClientWalks

LEMMA ListTyped == ASSUME ChTyped, [ChNext]_chVars, ListUnits PROVE ClientTyped'
<1>1. ClientNo /\ LeasesGo /\ DOMAIN units \subseteq DOMAIN units'
  BY ClientWas, LeasesGoOn, UnitsGoOn
<1>2. ch.at = "list" /\ ch.lease \in DOMAIN leases /\ ch.lease \in DOMAIN leases'
  BY <1>1 DEF ListUnits, ClientNo, WithLease, LeasesGo
<1>3. leases[ch.lease].reservations = Reservations
  <2>1. leases[ch.lease] \in LeaseFields
    BY <1>2 DEF ChTyped, LeasesTyped
  <2> QED
    BY <2>1 DEF LeaseFields
<1>4. ChConfOK
  BY ChConfIs DEF ChTyped
<1>5. CASE ChGo("raised")
  <2>1. "raised" \in ChSteps \ {"make"} /\ "raised" \notin WithLease
    BY DEF ChSteps, WithLease
  <2> QED
    BY <1>2, <1>5, <2>1, ClientWalks
<1>6. ASSUME NEW plan, NEW held, PlanHeld(plan), held \subseteq DOMAIN units,
             ch' = [ch EXCEPT !.at = "make", !.got = held, !.plan = plan]
      PROVE  ClientTyped'
  <2>1. ClientIs("make", ch.call, ch.forced, ch.lease, plan, held)
    BY <1>1, <1>6 DEF ClientNo, ClientIs
  <2>2. "make" \in ChSteps /\ held \subseteq DOMAIN units'
    BY <1>1, <1>6 DEF ChSteps
  <2> QED
    BY <1>1, <1>2, <1>6, <2>1, <2>2, ClientNow DEF ClientNo
<1>7. CASE Edge
  <2>1. PlanHeld(EdgePlan) /\ PlanHeld(<<>>)
    BY <1>4, <1>7, EdgePlanIs, NothingPlanned
  <2>2. UnitsOfLease(ch.lease) \subseteq DOMAIN units
    BY DEF UnitsOfLease
  <2> DEFINE plan == IF UnitsOfLease(ch.lease) # {} THEN <<>> ELSE EdgePlan
             held == UnitsOfLease(ch.lease)
  <2>3. PlanHeld(plan)
    BY <2>1
  <2>4. ch' = [ch EXCEPT !.at = "make", !.got = held, !.plan = plan]
    BY <1>7 DEF ListUnits
  <2>5. held \subseteq DOMAIN units
    BY <2>2
  <2> HIDE DEF plan, held
  <2> QED
    BY <1>6, <2>3, <2>4, <2>5
<1>8. CASE ~Edge
  <2> DEFINE missing == {f \in Flavours : Number(f) # WantedOf(f)}
             plan == MetalPlan(missing)
             held == UNION {Servers(f) : f \in Flavours \ missing}
  <2>1. PlanHeld(plan)
    BY <1>3, <1>4, MetalPlanIs
  <2>2. held \subseteq DOMAIN units
    BY DEF Servers
  <2>3. ChGo("raised") \/ ch' = [ch EXCEPT !.at = "make", !.got = held, !.plan = plan]
    BY <1>8 DEF ListUnits
  <2> HIDE DEF plan, held
  <2> QED
    BY <1>5, <1>6, <2>1, <2>2, <2>3
<1> QED
  BY <1>7, <1>8

LEMMA MakeTyped == ASSUME ChTyped, [ChNext]_chVars, MakeUnit PROVE ClientTyped'
<1>1. ClientNo /\ LeasesGo /\ DOMAIN units \subseteq DOMAIN units'
  BY ClientWas, LeasesGoOn, UnitsGoOn
<1>2. ch.at = "make" /\ ch.lease \in DOMAIN leases' /\ ch.plan # <<>>
  BY <1>1 DEF MakeUnit, ClientNo, WithLease, LeasesGo
<1>3. CASE ch' = [ch EXCEPT !.at = "raised", !.plan = <<>>]
  <2>1. ClientIs("raised", ch.call, ch.forced, ch.lease, <<>>, ch.got)
    BY <1>1, <1>3 DEF ClientNo, ClientIs
  <2>2. "raised" \in ChSteps /\ "raised" \notin WithLease /\ ch.got \subseteq DOMAIN units'
    BY <1>1 DEF ChSteps, WithLease, ClientNo
  <2> QED
    BY <1>1, <2>1, <2>2, NothingPlanned, ClientNow DEF ClientNo
<1>4. CASE MadeUnit /\ ch' = [ch EXCEPT !.plan = Tail(@), !.got = @ \cup {Len(units')}]
  <2> DEFINE p == Tail(ch.plan)
             held == ch.got \cup {Len(units')}
  <2>1. PlanHeld(p)
    <3>1. ch.plan \in Seq(PlanItem) /\ \A k \in DOMAIN ch.plan :
             /\ ch.plan[k].resv \in DOMAIN Reservations
             /\ Reservations[ch.plan[k].resv].flavour = ch.plan[k].flavour
      BY <1>1 DEF ClientNo, PlanHeld
    <3>2. p \in Seq(PlanItem) /\ \A k \in DOMAIN p : k + 1 \in DOMAIN ch.plan /\ p[k] = ch.plan[k + 1]
      BY <1>2, <3>1
    <3> QED
      BY <3>1, <3>2 DEF PlanHeld
  <2>2. held \subseteq DOMAIN units'
    BY <1>1, <1>4 DEF ClientNo, MadeUnit
  <2>3. ch' = [ch EXCEPT !.plan = p, !.got = held]
    BY <1>4
  <2> HIDE DEF p, held
  <2>4. ClientIs("make", ch.call, ch.forced, ch.lease, p, held)
    BY <1>1, <1>2, <2>3 DEF ClientNo, ClientIs
  <2>5. "make" \in ChSteps
    BY DEF ChSteps
  <2> QED
    BY <1>1, <1>2, <2>1, <2>2, <2>4, <2>5, ClientNow DEF ClientNo
<1>6. \/ ch' = [ch EXCEPT !.at = "raised", !.plan = <<>>]
      \/ /\ units' = Append(units, [lease |-> ch.lease, resv |-> ch.plan[1].resv,
                                    flavour |-> ch.plan[1].flavour, status |-> "creating"])
         /\ ch' = [ch EXCEPT !.plan = Tail(@), !.got = @ \cup {Len(units')}]
  BY DEF MakeUnit
<1> QED
  BY <1>2, <1>3, <1>4, <1>6, UnitMade, LeasesGoOn DEF MakeUnit

LEMMA ReadyTyped == ASSUME ChTyped, [ChNext]_chVars, UnitsReady PROVE ClientTyped'
<1>1. ClientNo /\ LeasesGo /\ DOMAIN units \subseteq DOMAIN units'
  BY ClientWas, LeasesGoOn, UnitsGoOn
<1>2. ch.at = "make" /\ ch.lease \in DOMAIN leases' /\ ch.plan = <<>>
  BY <1>1 DEF UnitsReady, ClientNo, WithLease, LeasesGo
<1> DEFINE ok == {i \in ch.got : units[i].status = "running"}
<1>3. ChGo("raised") \/ ch' = [ch EXCEPT !.at = "ready", !.got = ok]
  BY DEF UnitsReady
<1>4. ok \subseteq DOMAIN units' /\ ch.got \subseteq DOMAIN units'
  BY <1>1 DEF ClientNo
<1> HIDE DEF ok
<1>5. ClientIs("raised", ch.call, ch.forced, ch.lease, <<>>, ch.got) \/ ClientIs("ready", ch.call, ch.forced, ch.lease, <<>>, ok)
  BY <1>1, <1>2, <1>3 DEF ClientNo, ClientIs, ChGo
<1>6. "raised" \in ChSteps /\ "ready" \in ChSteps
  BY DEF ChSteps
<1> QED
  BY <1>1, <1>2, <1>4, <1>5, <1>6, NothingPlanned, ClientNow DEF ClientNo

LEMMA ChTypedStays == ASSUME ChTyped, [ChNext]_chVars PROVE ChTyped'
<1>1. UNCHANGED chConf /\ SameChConf /\ LeasesTyped' /\ UnitsTyped'
  BY LeasesGoOn, UnitsGoOn DEF LeasesGo
<1>2. ClientTyped'
  <2>1. CASE UNCHANGED ch
    BY <2>1, ClientStays
  <2>2. CASE ~UNCHANGED ch
    <3>1. \/ \E what \in {"init", "destroy"}, forced \in BOOLEAN : BeginChCall(what, forced)
          \/ LookupEdge \/ LookupMetal \/ LookupFails \/ CreateLease \/ WaitLease \/ CheckPorts
          \/ ListUnits \/ MakeUnit \/ UnitsReady \/ ChKilled
      BY <2>2 DEF ChNext, chVars, LeaseMoves, UnitStarts, UnitVanishes
    <3> QED
      BY <3>1, BeginTyped, LookupTyped, CreateTyped, WaitTyped, ListTyped, MakeTyped, ReadyTyped, KilledTyped
  <2> QED
    BY <2>1, <2>2
<1>3. ports' \in 0..chConf'.ports
  <2>1. ports \in 0..chConf.ports /\ chConf.ports \in Nat
    BY ChameleonAssumption DEF ChTyped
  <2>2. ports' = ports \/ (ports < chConf.ports /\ ports' = ports + 1)
    BY DEF ChNext, chVars, BeginChCall, LookupEdge, LookupMetal, LookupFails, CreateLease, WaitLease, CheckPorts,
           ListUnits, MakeUnit, UnitsReady, ChKilled, LeaseMoves, UnitStarts, UnitVanishes
  <2>3. chConf'.ports = chConf.ports
    BY <1>1
  <2> QED
    BY <2>1, <2>2, <2>3
<1>4. chCalls' \in 0..MaxChCalls
  <2>1. chCalls \in 0..MaxChCalls /\ MaxChCalls \in Nat
    BY ChameleonAssumption DEF ChTyped
  <2>2. chCalls' = chCalls \/ (chCalls < MaxChCalls /\ chCalls' = chCalls + 1)
    BY DEF ChNext, chVars, BeginChCall, LookupEdge, LookupMetal, LookupFails, CreateLease, WaitLease, CheckPorts,
           ListUnits, MakeUnit, UnitsReady, ChKilled, LeaseMoves, UnitStarts, UnitVanishes
  <2> QED
    BY <2>1, <2>2
<1> QED
  BY <1>1, <1>2, <1>3, <1>4 DEF ChTyped

\* Units and planned units are counted.
LEMMA UnitsCounted ==
  ASSUME NEW list \in Seq(UnitFields), NEW f, NEW l, NEW r
  PROVE  /\ IsFiniteSet(OfIn(list, f)) /\ Cardinality(OfIn(list, f)) \in Nat
         /\ IsFiniteSet(AtIn(list, l, r)) /\ Cardinality(AtIn(list, l, r)) \in Nat
<1> DEFINE A == {u \in UnitFields : u.flavour = f}
           B == {u \in UnitFields : u.lease = l /\ u.resv = r}
<1>1. \A i \in DOMAIN list : list[i] \in UnitFields
  OBVIOUS
<1>2. OfIn(list, f) = KindIn(list, A) /\ AtIn(list, l, r) = KindIn(list, B)
  BY <1>1 DEF OfIn, AtIn, KindIn
<1> HIDE DEF A, B
<1> QED
  BY <1>2, KindFinite

LEMMA UnitCounted ==
  ASSUME NEW list \in Seq(UnitFields), NEW u \in UnitFields, NEW f, NEW l, NEW r
  PROVE  /\ Cardinality(OfIn(Append(list, u), f)) = Cardinality(OfIn(list, f)) + (IF u.flavour = f THEN 1 ELSE 0)
         /\ Cardinality(AtIn(Append(list, u), l, r))
               = Cardinality(AtIn(list, l, r)) + (IF u.lease = l /\ u.resv = r THEN 1 ELSE 0)
<1> DEFINE A == {v \in UnitFields : v.flavour = f}
           B == {v \in UnitFields : v.lease = l /\ v.resv = r}
           more == Append(list, u)
<1>0. more \in Seq(UnitFields)
  OBVIOUS
<1> HIDE DEF more
<1>1. \A i \in DOMAIN list : list[i] \in UnitFields
  OBVIOUS
<1>2. \A i \in DOMAIN more : more[i] \in UnitFields
  BY <1>0
<1>3. OfIn(list, f) = KindIn(list, A) /\ AtIn(list, l, r) = KindIn(list, B)
  BY <1>1 DEF OfIn, AtIn, KindIn
<1>4. OfIn(more, f) = KindIn(more, A) /\ AtIn(more, l, r) = KindIn(more, B)
  BY <1>2 DEF OfIn, AtIn, KindIn
<1>5. One(u, A) = (IF u.flavour = f THEN 1 ELSE 0) /\ One(u, B) = (IF u.lease = l /\ u.resv = r THEN 1 ELSE 0)
  BY DEF One
<1> HIDE DEF A, B
<1>6. /\ Cardinality(KindIn(more, A)) = Cardinality(KindIn(list, A)) + One(u, A)
      /\ Cardinality(KindIn(more, B)) = Cardinality(KindIn(list, B)) + One(u, B)
  BY OneAppended DEF more
<1>7. /\ Cardinality(OfIn(more, f)) = Cardinality(OfIn(list, f)) + (IF u.flavour = f THEN 1 ELSE 0)
      /\ Cardinality(AtIn(more, l, r)) = Cardinality(AtIn(list, l, r)) + (IF u.lease = l /\ u.resv = r THEN 1 ELSE 0)
  BY <1>3, <1>4, <1>5, <1>6
<1> QED
  BY <1>7 DEF more

LEMMA PlanCounted ==
  ASSUME NEW plan \in Seq(PlanItem), NEW f, NEW r
  PROVE  Cardinality(PlannedFor(plan, f)) \in Nat /\ Cardinality(PlannedIn(plan, r)) \in Nat
<1> DEFINE A == {u \in PlanItem : u.flavour = f}
           B == {u \in PlanItem : u.resv = r}
<1>1. \A i \in DOMAIN plan : plan[i] \in PlanItem
  OBVIOUS
<1>2. PlannedFor(plan, f) = KindIn(plan, A) /\ PlannedIn(plan, r) = KindIn(plan, B)
  BY <1>1 DEF PlannedFor, PlannedIn, KindIn
<1> HIDE DEF A, B
<1> QED
  BY <1>2, KindFinite

LEMMA PlanCountedLess ==
  ASSUME NEW plan \in Seq(PlanItem), plan # <<>>, NEW f, NEW r
  PROVE  /\ Cardinality(PlannedFor(Tail(plan), f)) + (IF plan[1].flavour = f THEN 1 ELSE 0)
               = Cardinality(PlannedFor(plan, f))
         /\ Cardinality(PlannedIn(Tail(plan), r)) + (IF plan[1].resv = r THEN 1 ELSE 0)
               = Cardinality(PlannedIn(plan, r))
<1> DEFINE A == {u \in PlanItem : u.flavour = f}
           B == {u \in PlanItem : u.resv = r}
           less == Tail(plan)
<1>0. less \in Seq(PlanItem) /\ plan[1] \in PlanItem
  OBVIOUS
<1> HIDE DEF less
<1>1. \A i \in DOMAIN plan : plan[i] \in PlanItem
  OBVIOUS
<1>2. \A i \in DOMAIN less : less[i] \in PlanItem
  BY <1>0
<1>3. PlannedFor(plan, f) = KindIn(plan, A) /\ PlannedIn(plan, r) = KindIn(plan, B)
  BY <1>1 DEF PlannedFor, PlannedIn, KindIn
<1>4. PlannedFor(less, f) = KindIn(less, A) /\ PlannedIn(less, r) = KindIn(less, B)
  BY <1>2 DEF PlannedFor, PlannedIn, KindIn
<1>5. One(plan[1], A) = (IF plan[1].flavour = f THEN 1 ELSE 0) /\ One(plan[1], B) = (IF plan[1].resv = r THEN 1 ELSE 0)
  BY <1>0 DEF One
<1> HIDE DEF A, B
<1>6. /\ Cardinality(KindIn(less, A)) + One(plan[1], A) = Cardinality(KindIn(plan, A))
      /\ Cardinality(KindIn(less, B)) + One(plan[1], B) = Cardinality(KindIn(plan, B))
  BY OneTaken DEF less
<1>7. /\ Cardinality(PlannedFor(less, f)) + (IF plan[1].flavour = f THEN 1 ELSE 0) = Cardinality(PlannedFor(plan, f))
      /\ Cardinality(PlannedIn(less, r)) + (IF plan[1].resv = r THEN 1 ELSE 0) = Cardinality(PlannedIn(plan, r))
  BY <1>3, <1>4, <1>5, <1>6
<1> QED
  BY <1>7 DEF less

LEMMA NothingCounted == \A f, r : Cardinality(PlannedFor(<<>>, f)) = 0 /\ Cardinality(PlannedIn(<<>>, r)) = 0
  BY FS_EmptySet DEF PlannedFor, PlannedIn

\* Bare metal: the servers of a flavour and those planned are no more than wanted.
MetalCase == ~Edge /\ Adjacent /\ OneLease /\ NoneGone
SpreadUnits ==
  \A i \in DOMAIN units : Reservations[units[i].resv].flavour = units[i].flavour /\ units[i].status # "error"

LEMMA MetalWalks ==
  ASSUME ChTyped, MetalHeld, SameChConf, UNCHANGED units, ch'.plan = ch.plan \/ ch'.plan = <<>>
  PROVE  MetalHeld'
<1> SUFFICES ASSUME MetalCase' PROVE MetalUnits'
  BY DEF MetalHeld, MetalCase
<1>1. MetalCase
  BY DEF MetalCase, SameChConf, OneLease, NoneGone
<1>2. MetalUnits
  BY <1>1 DEF MetalHeld, MetalCase
<1>3. SpreadUnits'
  BY <1>2 DEF MetalUnits, SpreadUnits, SameChConf
<1>4. ASSUME NEW f \in Flavours
      PROVE  Cardinality(OfFlavour(f)') + Cardinality(PlannedFor(ch'.plan, f)) <= WantedOf(f)
  <2>1. Cardinality(OfIn(units, f)) \in Nat /\ Cardinality(PlannedFor(ch.plan, f)) \in Nat
    BY UnitsCounted, PlanCounted DEF ChTyped, UnitsTyped, ClientTyped, PlanHeld
  <2>2. WantedOf(f) \in Nat
    BY ChConfIs, WantedIs DEF ChTyped
  <2>3. Cardinality(OfIn(units, f)) + Cardinality(PlannedFor(ch.plan, f)) <= WantedOf(f)
    BY <1>2 DEF MetalUnits, OfFlavour
  <2>4. OfFlavour(f)' = OfIn(units, f)
    BY DEF OfFlavour, OfIn
  <2>5. Cardinality(PlannedFor(<<>>, f)) = 0
    BY NothingCounted
  <2> QED
    BY <2>1, <2>2, <2>3, <2>4, <2>5
<1>5. \A f \in Flavours' : Cardinality(OfFlavour(f)') + Cardinality(PlannedFor(ch'.plan, f)) <= WantedOf(f)'
  BY <1>4 DEF SameChConf
<1> QED
  BY <1>3, <1>5 DEF MetalUnits, SpreadUnits, PlannedFor

LEMMA MetalMakes ==
  ASSUME ChTyped, MetalHeld, SameChConf, MadeUnit, ch.plan # <<>>, ch'.plan = Tail(ch.plan)
  PROVE  MetalHeld'
<1> SUFFICES ASSUME MetalCase' PROVE MetalUnits'
  BY DEF MetalHeld, MetalCase
<1>1. PICK u : Made(u) /\ units' = Append(units, u)
  BY DEF MadeUnit
<1>2. units \in Seq(UnitFields) /\ u \in UnitFields /\ ch.plan \in Seq(PlanItem)
  BY <1>1 DEF ChTyped, UnitsTyped, ClientTyped, PlanHeld, Made
<1>3. /\ DOMAIN units = 1..Len(units) /\ Len(units) \in Nat /\ DOMAIN units' = 1..(Len(units) + 1)
      /\ units'[Len(units) + 1] = u /\ \A i \in DOMAIN units : i \in DOMAIN units' /\ units'[i] = units[i]
  BY <1>1, <1>2
<1>4. MetalCase
  BY <1>3 DEF MetalCase, SameChConf, OneLease, NoneGone
<1>5. MetalUnits
  BY <1>4 DEF MetalHeld, MetalCase
<1>6. SpreadUnits'
  <2>1. \A i \in DOMAIN units' : i \in DOMAIN units \/ i = Len(units) + 1
    BY <1>3
  <2> QED
    BY <1>1, <1>3, <1>5, <2>1 DEF MetalUnits, SpreadUnits, SameChConf, Made
<1>7. ASSUME NEW f \in Flavours
      PROVE  Cardinality(OfIn(units', f)) + Cardinality(PlannedFor(ch'.plan, f)) <= WantedOf(f)
  <2>1. Cardinality(OfIn(units, f)) \in Nat /\ Cardinality(PlannedFor(ch.plan, f)) \in Nat
    BY <1>2, UnitsCounted, PlanCounted
  <2>2. Cardinality(OfIn(units, f)) + Cardinality(PlannedFor(ch.plan, f)) <= WantedOf(f)
    BY <1>5 DEF MetalUnits, OfFlavour
  <2>3. Cardinality(OfIn(units', f)) = Cardinality(OfIn(units, f)) + (IF u.flavour = f THEN 1 ELSE 0)
    BY <1>1, <1>2, UnitCounted
  <2>4. Cardinality(PlannedFor(ch'.plan, f)) + (IF ch.plan[1].flavour = f THEN 1 ELSE 0)
               = Cardinality(PlannedFor(ch.plan, f))
    BY <1>2, PlanCountedLess
  <2>5. u.flavour = ch.plan[1].flavour
    BY <1>1 DEF Made
  <2>6. Cardinality(PlannedFor(ch'.plan, f)) \in Nat
    <3>1. Tail(ch.plan) \in Seq(PlanItem)
      BY <1>2
    <3> QED
      BY <3>1, PlanCounted
  <2> QED
    BY <2>1, <2>2, <2>3, <2>4, <2>5, <2>6
<1>8. \A f \in Flavours' : Cardinality(OfFlavour(f)') + Cardinality(PlannedFor(ch'.plan, f)) <= WantedOf(f)'
  BY <1>7 DEF SameChConf, OfFlavour, OfIn
<1> QED
  BY <1>6, <1>8 DEF MetalUnits, SpreadUnits, PlannedFor

\* A server that starts finds a machine, as no more run on its reservation than there are.
LEMMA MetalStarts ==
  ASSUME ChTyped, MetalHeld, SameChConf, LeasesGo, NEW i \in DOMAIN units, UnitStarts(i)
  PROVE  MetalHeld'
<1> SUFFICES ASSUME MetalCase' PROVE MetalUnits'
  BY DEF MetalHeld, MetalCase
<1> DEFINE room == Cardinality(RunningWith(i)) < leases[units[i].lease].reservations[units[i].resv].number
           s == IF room THEN "running" ELSE "error"
<1>1. units' = [units EXCEPT ![i].status = s] /\ units[i].status = "creating" /\ UNCHANGED ch
  BY DEF UnitStarts
<1>2. s \in {"creating", "running", "error", "gone"} /\ (room => s = "running") /\ s # "gone"
  OBVIOUS
<1> HIDE DEF s
<1>3. KeptUnits /\ \A j \in DOMAIN units : units'[j].status = IF j = i THEN s ELSE units[j].status
  BY <1>1, <1>2, UnitEdited
<1>4. MetalCase
  BY <1>1, <1>3 DEF MetalCase, SameChConf, OneLease, NoneGone, KeptUnits
<1>5. MetalUnits /\ ~Edge /\ Adjacent
  BY <1>4 DEF MetalHeld, MetalCase
<1>6. units \in Seq(UnitFields) /\ units[i].resv \in DOMAIN Reservations /\ units[i].lease \in DOMAIN leases
      /\ units[i].flavour \in Flavours
  <2>1. units \in Seq(UnitFields) /\ units[i].resv \in DOMAIN Reservations /\ units[i].lease \in DOMAIN leases
    BY DEF ChTyped, UnitsTyped
  <2>2. units[i] \in UnitFields
    BY <2>1
  <2> QED
    BY <2>1, <2>2 DEF UnitFields
<1> DEFINE f == units[i].flavour
<1>7. leases[units[i].lease].reservations = Reservations
  <2>1. leases[units[i].lease] \in LeaseFields
    BY <1>6 DEF ChTyped, LeasesTyped
  <2> QED
    BY <2>1 DEF LeaseFields
<1>8. Reservations[units[i].resv].number = WantedOf(f)
  <2>1. ResvOK
    BY ChConfIs, ResvIs DEF ChTyped
  <2>2. Reservations[units[i].resv].flavour = f
    BY <1>5 DEF MetalUnits
  <2> QED
    BY <1>5, <1>6, <2>1, <2>2 DEF ResvOK
<1>9. room
  <2>1. RunningWith(i) \in SUBSET (OfFlavour(f) \ {i})
    <3> SUFFICES ASSUME NEW j \in RunningWith(i) PROVE j \in OfFlavour(f) \ {i}
      OBVIOUS
    <3>1. j \in DOMAIN units /\ units[j].resv = units[i].resv /\ units[j].status = "running"
      BY DEF RunningWith
    <3>2. Reservations[units[j].resv].flavour = units[j].flavour /\ Reservations[units[i].resv].flavour = f
      BY <1>5, <3>1 DEF MetalUnits
    <3> QED
      BY <1>1, <3>1, <3>2 DEF OfFlavour, OfIn
  <2>2. IsFiniteSet(OfFlavour(f)) /\ Cardinality(OfFlavour(f)) \in Nat /\ i \in OfFlavour(f)
    BY <1>6, UnitsCounted DEF OfFlavour, OfIn
  <2>3. IsFiniteSet(OfFlavour(f) \ {i}) /\ Cardinality(OfFlavour(f) \ {i}) = Cardinality(OfFlavour(f)) - 1
    BY <2>2, FS_RemoveElement
  <2>4. Cardinality(RunningWith(i)) <= Cardinality(OfFlavour(f)) - 1 /\ Cardinality(RunningWith(i)) \in Nat
    BY <2>1, <2>3, FS_Subset, FS_CardinalityType
  <2>5. Cardinality(OfFlavour(f)) + Cardinality(PlannedFor(ch.plan, f)) <= WantedOf(f)
    BY <1>5, <1>6 DEF MetalUnits
  <2>6. Cardinality(PlannedFor(ch.plan, f)) \in Nat
    BY PlanCounted DEF ChTyped, ClientTyped, PlanHeld
  <2>7. WantedOf(f) \in Nat
    BY ChConfIs, WantedIs DEF ChTyped
  <2> HIDE DEF f
  <2>8. Cardinality(RunningWith(i)) < WantedOf(f)
    BY <2>2, <2>4, <2>5, <2>6, <2>7
  <2> QED
    BY <1>7, <1>8, <2>8
<1>10. SpreadUnits'
  BY <1>2, <1>3, <1>5, <1>9 DEF MetalUnits, SpreadUnits, SameChConf, KeptUnits
<1>11. KeptCounts
  BY <1>3, KeptIs
<1>12. \A g \in Flavours' : Cardinality(OfFlavour(g)') + Cardinality(PlannedFor(ch'.plan, g)) <= WantedOf(g)'
  BY <1>1, <1>5, <1>11 DEF MetalUnits, SameChConf, KeptCounts
<1> QED
  BY <1>10, <1>12 DEF MetalUnits, SpreadUnits, PlannedFor

LEMMA MetalVanishes ==
  ASSUME ChTyped, NEW i \in DOMAIN units, UnitVanishes(i)
  PROVE  MetalHeld'
<1>1. units' = [units EXCEPT ![i].status = "gone"]
  BY DEF UnitVanishes
<1>2. KeptUnits /\ units'[i].status = "gone"
  BY <1>1, UnitEdited
<1>3. ~NoneGone'
  BY <1>2 DEF NoneGone, KeptUnits
<1> QED
  BY <1>3 DEF MetalHeld

\* What is planned of a flavour is what is wanted, and only when it has no server.
LEMMA MetalLists ==
  ASSUME ChTyped, MetalHeld, SameChConf, LeasesGo, ListUnits, UNCHANGED leases
  PROVE  MetalHeld'
<1> SUFFICES ASSUME MetalCase' PROVE MetalUnits'
  BY DEF MetalHeld, MetalCase
<1>0. ~Edge /\ units' = (IF ch.forced THEN [i \in DOMAIN units |-> [units[i] EXCEPT !.status = "gone"]] ELSE units)
  BY DEF ListUnits, MetalCase, SameChConf
<1>1. KeptUnits
  BY <1>0, UnitsSame, UnitsGone
<1>2. ch.forced => DOMAIN units = {}
  <2>1. ASSUME ch.forced, NEW j \in DOMAIN units PROVE FALSE
    <3>1. units'[j].status = "gone" /\ j \in DOMAIN units'
      BY <1>0, <2>1, UnitsGone DEF KeptUnits
    <3> QED
      BY <3>1 DEF MetalCase, NoneGone
  <2> QED
    BY <2>1
<1>3. MetalCase
  <2>1. CASE ch.forced
    BY <1>2, <2>1 DEF MetalCase, SameChConf, OneLease, NoneGone
  <2>2. CASE ~ch.forced
    BY <1>0, <2>2 DEF MetalCase, SameChConf, OneLease, NoneGone
  <2> QED
    BY <2>1, <2>2
<1>4. MetalUnits
  BY <1>3 DEF MetalHeld, MetalCase
<1>5. SpreadUnits'
  <2>1. CASE ch.forced
    BY <1>1, <1>2, <2>1 DEF SpreadUnits, KeptUnits
  <2>2. CASE ~ch.forced
    BY <1>0, <1>4, <2>2 DEF MetalUnits, SpreadUnits, SameChConf
  <2> QED
    BY <2>1, <2>2
<1>6. KeptCounts
  BY <1>1, KeptIs
<1>7. \A f : Number(f) = Cardinality(OfFlavour(f))
  <2> SUFFICES ASSUME NEW f PROVE Number(f) = Cardinality(OfFlavour(f))
    OBVIOUS
  <2>1. CASE ch.forced
    <3>1. OfFlavour(f) = {}
      BY <1>2, <2>1 DEF OfFlavour, OfIn
    <3> QED
      BY <2>1, <3>1, FS_EmptySet DEF Number
  <2>2. CASE ~ch.forced
    <3>1. Servers(f) = OfFlavour(f)
      BY <1>3 DEF Servers, OfFlavour, OfIn, MetalCase, NoneGone
    <3> QED
      BY <2>2, <3>1 DEF Number
  <2> QED
    BY <2>1, <2>2
<1> DEFINE missing == {f \in Flavours : Number(f) # WantedOf(f)}
<1>8. \/ ch' = [ch EXCEPT !.at = "raised"]
      \/ /\ ~\E f \in Flavours : 0 < Number(f) /\ Number(f) < WantedOf(f)
         /\ ch'.plan = MetalPlan(missing)
  <2>1. ClientNo
    BY ClientWas
  <2>2. DOMAIN ch = {"at", "call", "forced", "lease", "plan", "got"}
    BY <2>1 DEF ClientNo
  <2>3. \/ ch' = [ch EXCEPT !.at = "raised"]
        \/ /\ ~\E f \in Flavours : 0 < Number(f) /\ Number(f) < WantedOf(f)
           /\ ch' = [ch EXCEPT !.at = "make", !.got = UNION {Servers(f) : f \in Flavours \ missing},
                               !.plan = MetalPlan(missing)]
    BY <1>0 DEF ListUnits, ChGo
  <2> HIDE DEF missing
  <2> QED
    BY <2>2, <2>3
<1>9. ASSUME NEW f \in Flavours
      PROVE  Cardinality(OfFlavour(f)) + Cardinality(PlannedFor(ch'.plan, f)) <= WantedOf(f)
  <2>1. Cardinality(OfFlavour(f)) \in Nat /\ Cardinality(PlannedFor(ch.plan, f)) \in Nat
    BY UnitsCounted, PlanCounted DEF ChTyped, UnitsTyped, ClientTyped, PlanHeld, OfFlavour
  <2>2. WantedOf(f) \in Nat /\ ChConfOK
    BY ChConfIs, WantedIs DEF ChTyped
  <2>3. Cardinality(OfFlavour(f)) + Cardinality(PlannedFor(ch.plan, f)) <= WantedOf(f)
    BY <1>4 DEF MetalUnits
  <2>4. CASE ch' = [ch EXCEPT !.at = "raised"]
    <3>1. ch'.plan = ch.plan
      BY <2>4, ClientWas DEF ClientNo
    <3> QED
      BY <2>3, <3>1
  <2>5. CASE /\ ~\E g \in Flavours : 0 < Number(g) /\ Number(g) < WantedOf(g)
             /\ ch'.plan = MetalPlan(missing)
    <3>1. leases[ch.lease].reservations = Reservations
      <4>1. leases[ch.lease] \in LeaseFields
        BY ClientWas DEF ListUnits, ClientNo, WithLease, ChTyped, LeasesTyped
      <4> QED
        BY <4>1 DEF LeaseFields
    <3>2. missing \in SUBSET Flavours
      OBVIOUS
    <3>3. CASE f \in missing
      <4>1. Cardinality(PlannedFor(MetalPlan(missing), f)) = WantedOf(f)
        BY <2>2, <3>1, <3>2, <3>3, MetalPlanIs
      <4>2. Cardinality(OfFlavour(f)) = 0
        BY <1>7, <2>1, <2>2, <2>3, <2>5, <3>3
      <4> QED
        BY <2>2, <2>5, <4>1, <4>2
    <3>4. CASE f \notin missing
      <4>1. PlannedFor(MetalPlan(missing), f) = {}
        BY <2>2, <3>1, <3>2, <3>4, MetalPlanIs
      <4>2. Cardinality(PlannedFor(MetalPlan(missing), f)) = 0
        BY <4>1, FS_EmptySet
      <4>3. Cardinality(OfFlavour(f)) <= WantedOf(f)
        BY <2>1, <2>2, <2>3
      <4> QED
        BY <2>1, <2>2, <2>5, <4>2, <4>3
    <3> QED
      BY <3>3, <3>4
  <2> QED
    BY <1>8, <2>4, <2>5
<1>10. \A g \in Flavours' : Cardinality(OfFlavour(g)') + Cardinality(PlannedFor(ch'.plan, g)) <= WantedOf(g)'
  BY <1>6, <1>9 DEF SameChConf, KeptCounts
<1> QED
  BY <1>5, <1>10 DEF MetalUnits, SpreadUnits, PlannedFor

LEMMA MetalStays == ASSUME ChTyped, MetalHeld, [ChNext]_chVars PROVE MetalHeld'
<1>1. SameChConf /\ LeasesGo /\ ClientNo
  BY LeasesGoOn, ClientWas
<1>2. ASSUME UNCHANGED units, ch'.plan = ch.plan \/ ch'.plan = <<>> PROVE MetalHeld'
  BY <1>1, <1>2, MetalWalks
<1>3. CASE ListUnits
  BY <1>1, <1>3, MetalLists DEF ListUnits
<1>4. CASE MakeUnit
  <2>1. CASE units' = units /\ ch' = [ch EXCEPT !.at = "raised", !.plan = <<>>]
    <3>1. ch'.plan = <<>>
      BY <1>1, <2>1 DEF ClientNo
    <3> QED
      BY <1>2, <2>1, <3>1
  <2>2. CASE /\ units' = Append(units, [lease |-> ch.lease, resv |-> ch.plan[1].resv,
                                        flavour |-> ch.plan[1].flavour, status |-> "creating"])
             /\ ch' = [ch EXCEPT !.plan = Tail(@), !.got = @ \cup {Len(units')}]
    <3>1. ch'.plan = Tail(ch.plan)
      BY <1>1, <2>2 DEF ClientNo
    <3>2. ch.at = "make" /\ ch.plan # <<>> /\ UNCHANGED leases
      BY <1>4 DEF MakeUnit
    <3>3. MadeUnit
      BY <1>1, <2>2, <3>2, UnitMade
    <3> QED
      BY <1>1, <3>1, <3>2, <3>3, MetalMakes
  <2> QED
    BY <1>4, <2>1, <2>2 DEF MakeUnit
<1>5. CASE \E i \in DOMAIN units : UnitStarts(i) \/ UnitVanishes(i)
  BY <1>1, <1>5, MetalStarts, MetalVanishes
<1>6. CASE UNCHANGED chVars \/ LookupEdge \/ LookupMetal \/ LookupFails \/ CreateLease \/ WaitLease \/ CheckPorts
           \/ UnitsReady \/ \E i \in DOMAIN leases : LeaseMoves(i)
  <2>1. UNCHANGED units /\ ch'.plan = ch.plan
    BY <1>1, <1>6 DEF chVars, LookupEdge, LookupMetal, LookupFails, CreateLease, WaitLease, CheckPorts, UnitsReady,
          LeaseMoves, ClientNo, ChGo
  <2> QED
    BY <1>2, <2>1
<1>7. CASE ChKilled \/ \E what \in {"init", "destroy"}, forced \in BOOLEAN : BeginChCall(what, forced)
  <2>2. ASSUME NEW what \in {"init", "destroy"}, NEW forced \in BOOLEAN, BeginChCall(what, forced)
        PROVE  UNCHANGED units /\ ch'.plan = <<>>
    <3>1. UNCHANGED units /\ ch' = [Fresh EXCEPT !.at = "lookup", !.call = what, !.forced = forced]
      BY <2>2 DEF BeginChCall
    <3>2. ch'.plan = <<>>
      BY <3>1 DEF Fresh
    <3> QED
      BY <3>1, <3>2
  <2>3. UNCHANGED units /\ ch'.plan = <<>>
    <3>1. ASSUME ChKilled PROVE UNCHANGED units /\ ch'.plan = <<>>
      BY <3>1 DEF ChKilled, Fresh
    <3> QED
      BY <1>7, <2>2, <3>1
  <2> QED
    BY <1>2, <2>3
<1> QED
  BY <1>3, <1>4, <1>5, <1>6, <1>7 DEF ChNext

\* The edge: a lease that is not over has no container, or all of them, once those of the
\* plan are made.
LEMMA LiveWas ==
  ASSUME ChTyped, EdgeHeld, Edge, LeasesGo, NEW l \in DOMAIN leases, LiveLease(l)'
  PROVE  EdgeLease(l)
  BY DEF EdgeHeld, LeasesGo

\* A new lease has none.
LEMMA LiveNew ==
  ASSUME ChTyped, SameChConf, UNCHANGED units, NEW l \in DOMAIN leases', l \notin DOMAIN leases,
         ch'.at \notin {"make", "ready"}
  PROVE  EdgeLease(l)'
<1>1. UnitsOn(l)' = {}
  BY DEF ChTyped, UnitsTyped, UnitsOn
<1>2. \A c : UnitsAt(l, c)' = {}
  BY <1>1 DEF UnitsAt, AtIn, UnitsOn
<1>3. AtMost(l)'
  <2>1. \A c \in ChGroups : Machine(c).number \in Nat /\ Machine(c)' = Machine(c)
    BY ChConfIs DEF ChTyped, ChConfOK, SameChConf
  <2>2. \A c \in ChGroups' : Cardinality(UnitsAt(l, c)') <= Machine(c).number
    BY <1>2, <2>1, FS_EmptySet DEF SameChConf
  <2>3. \A c \in ChGroups' : Cardinality(UnitsAt(l, c)') <= Machine(c)'.number
    BY <2>1, <2>2 DEF SameChConf
  <2> QED
    BY <2>3 DEF AtMost
<1> QED
  BY <1>1, <1>3 DEF EdgeLease, MakesOn

SameUnitsOn(l) == UnitsOn(l)' = UnitsOn(l) /\ \A c : UnitsAt(l, c)' = UnitsAt(l, c)

LEMMA CountsStay ==
  ASSUME SameChConf, NEW l, SameUnitsOn(l)
  PROVE  (Complete(l)' <=> Complete(l)) /\ (AtMost(l)' <=> AtMost(l))
<1>1. Complete(l)' <=> \A c \in ChGroups' : Cardinality(UnitsAt(l, c)') = Machine(c)'.number
  BY DEF Complete
<1>2. AtMost(l)' <=> \A c \in ChGroups' : Cardinality(UnitsAt(l, c)') <= Machine(c)'.number
  BY DEF AtMost
<1> QED
  BY <1>1, <1>2 DEF SameChConf, SameUnitsOn, Complete, AtMost

\* The client walks.
LEMMA EdgeWalks ==
  ASSUME ChTyped, EdgeHeld, SameChConf, LeasesGo, UNCHANGED <<units, cut>>,
         (UNCHANGED ch /\ DOMAIN leases' = DOMAIN leases) \/ (ch.at # "make" /\ ch'.at \notin {"make", "ready"})
  PROVE  EdgeHeld'
<1> SUFFICES ASSUME Edge, NEW l \in DOMAIN leases', LiveLease(l)' PROVE EdgeLease(l)'
  BY DEF EdgeHeld, SameChConf
<1>1. CASE l \in DOMAIN leases
  <2>1. EdgeLease(l)
    BY <1>1, LiveWas
  <2>2. SameUnitsOn(l) /\ \A i \in UnitsOn(l)' : units'[i] = units[i]
    BY DEF SameUnitsOn, UnitsOn, UnitsAt, AtIn
  <2>3. (Complete(l)' <=> Complete(l)) /\ (AtMost(l)' <=> AtMost(l))
    BY <2>2, CountsStay
  <2>4. CASE UNCHANGED ch
    <3>1. Making(l)' <=> Making(l)
      <4>1. Making(l)' <=> \A c \in ChGroups' :
                Cardinality(UnitsAt(l, c)') + Cardinality(PlannedIn(ch.plan, c)) = Machine(c)'.number
        BY <2>4 DEF Making, PlannedIn
      <4> QED
        BY <2>2, <4>1 DEF SameChConf, SameUnitsOn, Making
    <3>2. MakesOn(l)' <=> MakesOn(l)
      BY <2>4 DEF MakesOn
    <3> QED
      BY <2>1, <2>2, <2>3, <2>4, <3>1, <3>2 DEF EdgeLease, SameUnitsOn
  <2>5. CASE ch.at # "make" /\ ch'.at \notin {"make", "ready"}
    <3>1. ~MakesOn(l) /\ ~MakesOn(l)'
      BY <2>5 DEF MakesOn
    <3> QED
      BY <2>1, <2>2, <2>3, <2>5, <3>1 DEF EdgeLease, SameUnitsOn
  <2> QED
    BY <2>4, <2>5
<1>2. CASE l \notin DOMAIN leases
  BY <1>2, LiveNew
<1> QED
  BY <1>1, <1>2

\* Units change, not their number.
LEMMA EdgeUnits ==
  ASSUME ChTyped, EdgeHeld, SameChConf, LeasesGo, KeptUnits, UNCHANGED <<ch, cut, leases>>,
         \A l \in DOMAIN leases : LiveLease(l) => \A i \in UnitsOn(l) : units'[i].status \in {"creating", "running"}
  PROVE  EdgeHeld'
<1> SUFFICES ASSUME Edge, NEW l \in DOMAIN leases', LiveLease(l)' PROVE EdgeLease(l)'
  BY DEF EdgeHeld, SameChConf
<1>1. l \in DOMAIN leases /\ LiveLease(l) /\ EdgeLease(l)
  BY LiveWas DEF LeasesGo
<1>2. SameUnitsOn(l)
  BY KeptIs DEF KeptCounts, SameUnitsOn
<1>3. (Complete(l)' <=> Complete(l)) /\ (AtMost(l)' <=> AtMost(l))
  BY <1>2, CountsStay
<1>4. Making(l)' <=> Making(l)
  <2>1. Making(l)' <=> \A c \in ChGroups' :
            Cardinality(UnitsAt(l, c)') + Cardinality(PlannedIn(ch.plan, c)) = Machine(c)'.number
    BY DEF Making, PlannedIn
  <2> QED
    BY <1>2, <2>1 DEF SameChConf, SameUnitsOn, Making
<1>5. MakesOn(l)' <=> MakesOn(l)
  BY DEF MakesOn
<1>6. \A i \in UnitsOn(l)' : units'[i].status \in {"creating", "running"}
  BY <1>1, <1>2 DEF SameUnitsOn
<1> QED
  BY <1>1, <1>2, <1>3, <1>4, <1>5, <1>6 DEF EdgeLease, SameUnitsOn

\* A container that starts finds a device; it vanishes once its lease is over.
LEMMA EdgeStarts ==
  ASSUME ChTyped, EdgeHeld, SameChConf, LeasesGo, Edge, NEW i \in DOMAIN units, UnitStarts(i)
  PROVE  EdgeHeld'
<1> DEFINE k == units[i].lease
           c == units[i].resv
           room == Cardinality(RunningWith(i)) < leases[k].reservations[c].number
           s == IF room THEN "running" ELSE "error"
<1>1. units' = [units EXCEPT ![i].status = s] /\ units[i].status = "creating" /\ UNCHANGED <<ch, cut, leases>>
  BY DEF UnitStarts
<1>2. s \in {"creating", "running", "error", "gone"} /\ (room => s = "running")
  OBVIOUS
<1> HIDE DEF s
<1>3. KeptUnits /\ \A j \in DOMAIN units : units'[j].status = IF j = i THEN s ELSE units[j].status
  BY <1>1, <1>2, UnitEdited
<1>4. units \in Seq(UnitFields) /\ c \in DOMAIN Reservations /\ k \in DOMAIN leases
  BY DEF ChTyped, UnitsTyped
<1>5. ASSUME LiveLease(k) PROVE room
  <2>1. EdgeLease(k)
    BY <1>4, <1>5 DEF EdgeHeld
  <2>2. c \in ChGroups /\ leases[k].reservations[c].number = Machine(c).number /\ Machine(c).number \in Nat
    <3>1. leases[k] \in LeaseFields
      BY <1>4 DEF ChTyped, LeasesTyped
    <3>2. ChConfOK /\ ResvOK
      BY ChConfIs, ResvIs DEF ChTyped
    <3> QED
      BY <1>4, <3>1, <3>2 DEF LeaseFields, ResvOK, ChConfOK
  <2>3. IsFiniteSet(UnitsAt(k, c)) /\ Cardinality(UnitsAt(k, c)) \in Nat /\ i \in UnitsAt(k, c)
    <3>1. i \in UnitsAt(k, c)
      BY DEF UnitsAt, AtIn
    <3> QED
      BY <1>4, <3>1, UnitsCounted DEF UnitsAt
  <2>4. RunningWith(i) \in SUBSET (UnitsAt(k, c) \ {i})
    BY <1>1 DEF RunningWith, UnitsAt, AtIn
  <2>5. IsFiniteSet(UnitsAt(k, c) \ {i}) /\ Cardinality(UnitsAt(k, c) \ {i}) = Cardinality(UnitsAt(k, c)) - 1
    BY <2>3, FS_RemoveElement
  <2>6. Cardinality(RunningWith(i)) <= Cardinality(UnitsAt(k, c)) - 1 /\ Cardinality(RunningWith(i)) \in Nat
    BY <2>4, <2>5, FS_Subset, FS_CardinalityType
  <2>7. Cardinality(UnitsAt(k, c)) <= Machine(c).number
    BY <2>1, <2>2 DEF EdgeLease, AtMost
  <2>8. Cardinality(RunningWith(i)) < Machine(c).number
    BY <2>2, <2>3, <2>6, <2>7
  <2> QED
    BY <2>2, <2>8
<1>6. ASSUME NEW l \in DOMAIN leases, LiveLease(l), NEW j \in UnitsOn(l)
      PROVE  units'[j].status \in {"creating", "running"}
  <2>1. EdgeLease(l) /\ j \in DOMAIN units /\ units[j].lease = l
    BY <1>6 DEF EdgeHeld, UnitsOn
  <2>2. units[j].status \in {"creating", "running"}
    BY <1>6, <2>1 DEF EdgeLease
  <2>3. CASE j = i
    <3>1. room
      BY <1>5, <1>6, <2>1, <2>3
    <3> QED
      BY <1>2, <1>3, <2>3, <3>1
  <2> QED
    BY <1>3, <2>1, <2>2, <2>3
<1> QED
  BY <1>1, <1>3, <1>6, EdgeUnits

LEMMA EdgeVanishes ==
  ASSUME ChTyped, EdgeHeld, SameChConf, LeasesGo, Edge, NEW i \in DOMAIN units, UnitVanishes(i)
  PROVE  EdgeHeld'
<1>1. /\ units' = [units EXCEPT ![i].status = "gone"] /\ UNCHANGED <<ch, cut, leases>>
      /\ leases[units[i].lease].status \in {"TERMINATED", "ERROR", "DELETED"}
  BY DEF UnitVanishes
<1>2. KeptUnits /\ \A j \in DOMAIN units : units'[j].status = IF j = i THEN "gone" ELSE units[j].status
  BY <1>1, UnitEdited
<1>3. ASSUME NEW l \in DOMAIN leases, LiveLease(l), NEW j \in UnitsOn(l)
      PROVE  units'[j].status \in {"creating", "running"}
  <2>1. EdgeLease(l) /\ j \in DOMAIN units /\ units[j].lease = l
    BY <1>3 DEF EdgeHeld, UnitsOn
  <2>2. j # i
    BY <1>1, <1>3, <2>1 DEF LiveLease, LiveStatuses
  <2> QED
    BY <1>2, <1>3, <2>1, <2>2 DEF EdgeLease
<1> QED
  BY <1>1, <1>2, <1>3, EdgeUnits

LEMMA EdgeLists ==
  ASSUME ChTyped, EdgeHeld, SameChConf, LeasesGo, Edge, ListUnits
  PROVE  EdgeHeld'
<1> DEFINE k == ch.lease
           held == UnitsOfLease(k)
           plan == IF held # {} THEN <<>> ELSE EdgePlan
<1>1. ch.at = "list" /\ UNCHANGED <<units, cut, leases>> /\ ch' = [ch EXCEPT !.at = "make", !.got = held, !.plan = plan]
  BY DEF ListUnits
<1> HIDE DEF held, plan
<1>2. ch'.at = "make" /\ ch'.got = held /\ ch'.plan = plan /\ ch'.lease = k
  BY <1>1, ClientWas DEF ClientNo
<1> SUFFICES ASSUME NEW l \in DOMAIN leases', LiveLease(l)' PROVE EdgeLease(l)'
  BY DEF EdgeHeld
<1>3. l \in DOMAIN leases /\ EdgeLease(l) /\ ~MakesOn(l)
  BY <1>1, LiveWas DEF MakesOn
<1>4. SameUnitsOn(l) /\ \A i \in UnitsOn(l)' : units'[i] = units[i]
  BY <1>1 DEF SameUnitsOn, UnitsOn, UnitsAt, AtIn
<1>5. (Complete(l)' <=> Complete(l)) /\ (AtMost(l)' <=> AtMost(l))
  BY <1>4, CountsStay
<1>6. CASE l # k
  <2>1. ~MakesOn(l)'
    BY <1>2, <1>6 DEF MakesOn
  <2> QED
    BY <1>1, <1>2, <1>3, <1>4, <1>5, <2>1 DEF EdgeLease, SameUnitsOn
<1>7. CASE l = k
  <2>1. held = UnitsOn(l)
    BY <1>3, <1>7 DEF held, UnitsOfLease, UnitsOn, EdgeLease
  <2>2. MakesOn(l)'
    BY <1>2, <1>7 DEF MakesOn
  <2>3. ASSUME plan # <<>> \/ l \notin cut, NEW c \in ChGroups
        PROVE  Cardinality(UnitsAt(l, c)) + Cardinality(PlannedIn(plan, c)) = Machine(c).number
    <3>1. Machine(c).number \in Nat /\ ChConfOK
      BY ChConfIs DEF ChTyped, ChConfOK
    <3>2. CASE held # {}
      <4>1. plan = <<>> /\ l \notin cut /\ UnitsOn(l) # {}
        BY <2>1, <2>3, <3>2 DEF plan
      <4>2. Complete(l)
        BY <1>3, <4>1 DEF EdgeLease
      <4>3. Cardinality(UnitsAt(l, c)) = Machine(c).number /\ Cardinality(PlannedIn(plan, c)) = 0
        BY <4>1, <4>2, NothingCounted DEF Complete
      <4> QED
        BY <3>1, <4>3
    <3>3. CASE held = {}
      <4>1. plan = EdgePlan /\ UnitsAt(l, c) = {}
        BY <2>1, <3>3 DEF plan, UnitsOn, UnitsAt, AtIn
      <4>2. Cardinality(UnitsAt(l, c)) = 0
        BY <4>1, FS_EmptySet
      <4>3. Cardinality(PlannedIn(plan, c)) = Machine(c).number
        BY <3>1, <4>1, EdgePlanIs
      <4> QED
        BY <3>1, <4>2, <4>3
    <3> QED
      BY <3>2, <3>3
  <2>4. plan # <<>> \/ l \notin cut => Making(l)'
    <3> SUFFICES ASSUME plan # <<>> \/ l \notin cut PROVE Making(l)'
      OBVIOUS
    <3>1. Making(l)' <=> \A c \in ChGroups' :
              Cardinality(UnitsAt(l, c)') + Cardinality(PlannedIn(plan, c)) = Machine(c)'.number
      BY <1>2 DEF Making, PlannedIn
    <3> QED
      BY <1>4, <2>3, <3>1 DEF SameChConf, SameUnitsOn
  <2> QED
    BY <1>1, <1>2, <1>3, <1>4, <1>5, <1>7, <2>1, <2>2, <2>4 DEF EdgeLease, SameUnitsOn
<1> QED
  BY <1>6, <1>7

LEMMA EdgeMakes ==
  ASSUME ChTyped, EdgeHeld, SameChConf, LeasesGo, Edge, MadeUnit, ch.at = "make", ch.plan # <<>>,
         UNCHANGED <<leases, cut>>, ch' = [ch EXCEPT !.plan = Tail(@), !.got = @ \cup {Len(units')}]
  PROVE  EdgeHeld'
<1>1. PICK u : Made(u) /\ units' = Append(units, u)
  BY DEF MadeUnit
<1>2. units \in Seq(UnitFields) /\ u \in UnitFields /\ ch.plan \in Seq(PlanItem)
  BY <1>1 DEF ChTyped, UnitsTyped, ClientTyped, PlanHeld, Made
<1>3. /\ DOMAIN units = 1..Len(units) /\ Len(units) \in Nat /\ DOMAIN units' = 1..(Len(units) + 1)
      /\ Len(units') = Len(units) + 1
      /\ units'[Len(units) + 1] = u /\ \A i \in DOMAIN units : i \in DOMAIN units' /\ units'[i] = units[i]
  BY <1>1, <1>2
<1> DEFINE k == ch.lease
           n == Len(units')
<1>4. /\ ch'.at = "make" /\ ch'.lease = k /\ ch'.plan = Tail(ch.plan) /\ ch'.got = ch.got \cup {n}
      /\ u.lease = k /\ u.status = "creating" /\ u.resv = ch.plan[1].resv
  BY <1>1, ClientWas DEF ClientNo, Made
<1>5. \A i \in DOMAIN units' : i \in DOMAIN units \/ i = n
  BY <1>3
<1>6. units'[n] = u /\ n \in DOMAIN units'
  BY <1>3
<1> HIDE DEF n
<1> SUFFICES ASSUME NEW l \in DOMAIN leases', LiveLease(l)' PROVE EdgeLease(l)'
  BY DEF EdgeHeld
<1>7. l \in DOMAIN leases /\ EdgeLease(l)
  BY LiveWas
<1>8. CASE l # k
  <2>1. SameUnitsOn(l)
    BY <1>3, <1>4, <1>5, <1>6, <1>8 DEF SameUnitsOn, UnitsOn, UnitsAt, AtIn
  <2>2. (Complete(l)' <=> Complete(l)) /\ (AtMost(l)' <=> AtMost(l))
    BY <2>1, CountsStay
  <2>3. \A i \in UnitsOn(l)' : units'[i].status \in {"creating", "running"}
    BY <1>3, <1>7, <2>1 DEF SameUnitsOn, EdgeLease, UnitsOn
  <2>4. ~MakesOn(l) /\ ~MakesOn(l)'
    BY <1>4, <1>8 DEF MakesOn
  <2> QED
    BY <1>4, <1>7, <2>1, <2>2, <2>3, <2>4 DEF EdgeLease, SameUnitsOn
<1>9. CASE l = k
  <2>1. UnitsOn(l)' = UnitsOn(l) \cup {n}
    BY <1>3, <1>4, <1>5, <1>6, <1>9 DEF UnitsOn
  <2>2. MakesOn(l) /\ ch.got = UnitsOn(l) /\ Making(l) /\ MakesOn(l)'
    BY <1>4, <1>7, <1>9 DEF EdgeLease, MakesOn
  <2>3. ASSUME NEW c \in ChGroups
        PROVE  /\ Cardinality(AtIn(units', l, c)) + Cardinality(PlannedIn(ch'.plan, c)) = Machine(c).number
               /\ Cardinality(AtIn(units', l, c)) <= Machine(c).number
    <3>1. Cardinality(AtIn(units, l, c)) + Cardinality(PlannedIn(ch.plan, c)) = Machine(c).number
      BY <2>2 DEF Making, UnitsAt
    <3>2. Cardinality(AtIn(units', l, c)) = Cardinality(AtIn(units, l, c)) + (IF u.lease = l /\ u.resv = c THEN 1 ELSE 0)
      BY <1>1, <1>2, UnitCounted
    <3>3. Cardinality(PlannedIn(ch'.plan, c)) + (IF ch.plan[1].resv = c THEN 1 ELSE 0) = Cardinality(PlannedIn(ch.plan, c))
      BY <1>2, <1>4, PlanCountedLess
    <3>4. Cardinality(AtIn(units, l, c)) \in Nat /\ Cardinality(PlannedIn(ch.plan, c)) \in Nat
      BY <1>2, UnitsCounted, PlanCounted
    <3>5. Cardinality(PlannedIn(ch'.plan, c)) \in Nat
      <4>1. Tail(ch.plan) \in Seq(PlanItem)
        BY <1>2
      <4> QED
        BY <1>4, <4>1, PlanCounted
    <3> QED
      BY <1>4, <1>9, <3>1, <3>2, <3>3, <3>4, <3>5
  <2>4. Making(l)'
    <3>1. \A c \in ChGroups' : Cardinality(AtIn(units', l, c)) + Cardinality(PlannedIn(ch'.plan, c)) = Machine(c)'.number
      BY <2>3 DEF SameChConf
    <3> QED
      BY <3>1 DEF Making, UnitsAt, AtIn, PlannedIn
  <2>5. AtMost(l)'
    <3>1. \A c \in ChGroups' : Cardinality(AtIn(units', l, c)) <= Machine(c)'.number
      BY <2>3 DEF SameChConf
    <3> QED
      BY <3>1 DEF AtMost, UnitsAt, AtIn
  <2>6. \A i \in UnitsOn(l)' : units'[i].status \in {"creating", "running"}
    BY <1>3, <1>4, <1>6, <1>7, <2>1 DEF EdgeLease, UnitsOn
  <2> QED
    BY <1>4, <2>1, <2>2, <2>4, <2>5, <2>6 DEF EdgeLease
<1> QED
  BY <1>8, <1>9

\* The client leaves: what it made is complete, or the lease is cut.
LEMMA EdgeLeaves ==
  ASSUME ChTyped, EdgeHeld, SameChConf, LeasesGo, Edge, UNCHANGED <<leases, units>>, ch.at = "make",
         ch'.at # "make", ch'.at = "ready" => ch'.got = ch.got /\ ch'.lease = ch.lease /\ ch.plan = <<>>,
         cut' = (IF ch.plan # <<>> THEN cut \cup {ch.lease} ELSE cut)
  PROVE  EdgeHeld'
<1> SUFFICES ASSUME NEW l \in DOMAIN leases', LiveLease(l)' PROVE EdgeLease(l)'
  BY DEF EdgeHeld
<1>1. l \in DOMAIN leases /\ EdgeLease(l)
  BY LiveWas
<1>2. SameUnitsOn(l) /\ \A i \in UnitsOn(l)' : units'[i] = units[i]
  BY DEF SameUnitsOn, UnitsOn, UnitsAt, AtIn
<1>3. (Complete(l)' <=> Complete(l)) /\ (AtMost(l)' <=> AtMost(l))
  BY <1>2, CountsStay
<1>4. ~MakesOn(l)' /\ cut \subseteq cut'
  BY DEF MakesOn
<1>5. ASSUME MakesOn(l) PROVE ch.got = UnitsOn(l) /\ (l \in cut' \/ Complete(l))
  <2>1. CASE ch.plan # <<>>
    BY <1>1, <1>5, <2>1 DEF MakesOn, EdgeLease
  <2>2. CASE ch.plan = <<>> /\ l \notin cut
    <3>1. ch.got = UnitsOn(l) /\ Making(l)
      BY <1>1, <1>5, <2>2 DEF EdgeLease
    <3>2. ASSUME NEW c \in ChGroups PROVE Cardinality(UnitsAt(l, c)) = Machine(c).number
      <4>1. Cardinality(UnitsAt(l, c)) \in Nat
        BY UnitsCounted DEF UnitsAt, ChTyped, UnitsTyped
      <4>2. Cardinality(PlannedIn(ch.plan, c)) = 0
        BY <2>2, NothingCounted
      <4>3. Cardinality(UnitsAt(l, c)) + Cardinality(PlannedIn(ch.plan, c)) = Machine(c).number
        BY <3>1 DEF Making
      <4> QED
        BY <4>1, <4>2, <4>3
    <3> QED
      BY <3>1, <3>2 DEF Complete
  <2>3. CASE l \in cut
    BY <1>1, <1>4, <1>5, <2>3 DEF EdgeLease
  <2> QED
    BY <2>1, <2>2, <2>3
<1>6. l \in cut' \/ UnitsOn(l) = {} \/ Complete(l)
  BY <1>1, <1>4, <1>5 DEF EdgeLease
<1>7. ASSUME ch'.at = "ready", ch'.lease = l PROVE ch'.got = UnitsOn(l) /\ (l \in cut' \/ Complete(l))
  <2>1. MakesOn(l)
    BY <1>7 DEF MakesOn
  <2> QED
    BY <1>5, <1>7, <2>1
<1> QED
  BY <1>1, <1>2, <1>3, <1>4, <1>6, <1>7 DEF EdgeLease, SameUnitsOn

LEMMA EdgeStays == ASSUME ChTyped, EdgeHeld, [ChNext]_chVars PROVE EdgeHeld'
<1>1. SameChConf /\ LeasesGo /\ ClientNo
  BY LeasesGoOn, ClientWas
<1>2. CASE ~Edge
  BY <1>1, <1>2 DEF EdgeHeld, SameChConf
<1>3. CASE Edge
  <2>1. CASE ListUnits
    BY <1>1, <1>3, <2>1, EdgeLists
  <2>2. CASE MakeUnit
    <3>0. ch.at = "make" /\ ch.plan # <<>> /\ UNCHANGED leases
      BY <2>2 DEF MakeUnit
    <3>1. CASE units' = units /\ ch' = [ch EXCEPT !.at = "raised", !.plan = <<>>] /\ cut' = cut \cup {ch.lease}
      <4>1. ch'.at = "raised"
        BY <1>1, <3>1 DEF ClientNo
      <4> QED
        BY <1>1, <1>3, <3>0, <3>1, <4>1, EdgeLeaves
    <3>2. CASE /\ units' = Append(units, [lease |-> ch.lease, resv |-> ch.plan[1].resv,
                                          flavour |-> ch.plan[1].flavour, status |-> "creating"])
               /\ ch' = [ch EXCEPT !.plan = Tail(@), !.got = @ \cup {Len(units')}] /\ cut' = cut
      <4>1. MadeUnit
        BY <1>1, <3>0, <3>2, UnitMade
      <4> QED
        BY <1>1, <1>3, <3>0, <3>2, <4>1, EdgeMakes
    <3> QED
      BY <2>2, <3>1, <3>2 DEF MakeUnit
  <2>3. CASE UnitsReady
    <3> DEFINE ok == {i \in ch.got : units[i].status = "running"}
    <3>1. /\ ch.at = "make" /\ ch.plan = <<>> /\ UNCHANGED <<leases, units, cut>>
          /\ ChGo("raised") \/ (ok = ch.got /\ ch' = [ch EXCEPT !.at = "ready", !.got = ok])
      BY <1>3, <2>3 DEF UnitsReady
    <3> HIDE DEF ok
    <3>2. ch'.at = "raised" \/ (ch'.at = "ready" /\ ch'.got = ch.got /\ ch'.lease = ch.lease)
      BY <1>1, <3>1 DEF ClientNo, ChGo
    <3> QED
      BY <1>1, <1>3, <3>1, <3>2, EdgeLeaves
  <2>4. CASE ChKilled
    <3>1. ch'.at = "idle" /\ UNCHANGED <<leases, units>>
      BY <2>4 DEF ChKilled, Fresh
    <3>2. CASE ch.at = "make"
      <4>1. cut' = IF ch.plan # <<>> THEN cut \cup {ch.lease} ELSE cut
        BY <2>4, <3>2 DEF ChKilled
      <4> QED
        BY <1>1, <1>3, <3>1, <3>2, <4>1, EdgeLeaves
    <3>3. CASE ch.at # "make"
      <4>1. cut' = cut
        BY <2>4, <3>3 DEF ChKilled
      <4> QED
        BY <1>1, <3>1, <3>3, <4>1, EdgeWalks
    <3> QED
      BY <3>2, <3>3
  <2>5. CASE \E i \in DOMAIN units : UnitStarts(i) \/ UnitVanishes(i)
    BY <1>1, <1>3, <2>5, EdgeStarts, EdgeVanishes
  <2>6. CASE \/ \E what \in {"init", "destroy"}, forced \in BOOLEAN : BeginChCall(what, forced)
             \/ LookupEdge \/ LookupMetal \/ LookupFails \/ CreateLease \/ WaitLease
    <3>1. UNCHANGED <<units, cut>> /\ ch.at # "make"
      BY <2>6 DEF BeginChCall, LookupEdge, LookupMetal, LookupFails, CreateLease, WaitLease
    <3>2. ch'.at \notin {"make", "ready"}
      <4>1. CASE \E what \in {"init", "destroy"}, forced \in BOOLEAN : BeginChCall(what, forced)
        <5>1. \E what \in {"init", "destroy"}, forced \in BOOLEAN :
                 ch' = [Fresh EXCEPT !.at = "lookup", !.call = what, !.forced = forced]
          BY <4>1 DEF BeginChCall
        <5>2. ch'.at = "lookup"
          BY <5>1 DEF Fresh
        <5> QED
          BY <5>2
      <4>2. CASE LookupEdge \/ LookupMetal \/ LookupFails \/ CreateLease \/ WaitLease
        <5>1. \/ UNCHANGED ch /\ ch.at = "create"
              \/ \E a \in {"destroyed", "create", "raised", "list", "ports"} : ChGo(a)
              \/ \E j : ch' = [ch EXCEPT !.at = "wait", !.lease = j]
          BY <4>2 DEF LookupEdge, LookupMetal, LookupFails, CreateLease, WaitLease
        <5> QED
          BY <1>1, <5>1 DEF ClientNo, ChGo
      <4> QED
        BY <2>6, <4>1, <4>2
    <3> QED
      BY <1>1, <3>1, <3>2, EdgeWalks
  <2>7. CASE UNCHANGED chVars \/ CheckPorts \/ \E i \in DOMAIN leases : LeaseMoves(i)
    <3>1. UNCHANGED <<units, cut>>
      BY <2>7 DEF chVars, CheckPorts, LeaseMoves
    <3>2. CASE CheckPorts
      <4>1. ch.at = "ports" /\ (UNCHANGED ch \/ ChGo("list"))
        BY <3>2 DEF CheckPorts
      <4>2. ch.at # "make" /\ ch'.at \notin {"make", "ready"}
        BY <1>1, <4>1 DEF ClientNo, ChGo
      <4> QED
        BY <1>1, <3>1, <4>2, EdgeWalks
    <3>3. CASE UNCHANGED chVars \/ \E i \in DOMAIN leases : LeaseMoves(i)
      <4>1. UNCHANGED ch /\ DOMAIN leases' = DOMAIN leases
        BY <3>3 DEF chVars, LeaseMoves
      <4> QED
        BY <1>1, <3>1, <4>1, EdgeWalks
    <3> QED
      BY <2>7, <3>2, <3>3
  <2> QED
    BY <2>1, <2>2, <2>3, <2>4, <2>5, <2>6, <2>7 DEF ChNext
<1> QED
  BY <1>2, <1>3

LEMMA ChHeldInitially == ChInit => ChHeld
<1> SUFFICES ASSUME ChInit PROVE ChHeld
  OBVIOUS
<1>1. /\ chConf \in ChConfs /\ leases = <<>> /\ units = <<>> /\ ports = 0 /\ chCalls = 0 /\ ch = Fresh
  BY DEF ChInit
<1>2. LeasesTyped
  <2>1. MaxLeases \in Nat /\ Len(<<>>) = 0
    BY ChameleonAssumption
  <2> QED
    BY <1>1, <2>1 DEF LeasesTyped
<1>3. UnitsTyped
  BY <1>1 DEF UnitsTyped
<1>4. ClientTyped
  <2>1. /\ ch.at = "idle" /\ ch.plan = <<>>
        /\ ch \in [at : ChSteps, call : {"init", "destroy"}, forced : BOOLEAN, lease : Nat, plan : Seq(PlanItem),
                   got : SUBSET DOMAIN units]
    BY <1>1 DEF Fresh, ChSteps
  <2> QED
    BY <2>1, NothingPlanned DEF ClientTyped, WithLease
<1>5. ports \in 0..chConf.ports /\ chCalls \in 0..MaxChCalls
  <2>1. chConf.ports \in Nat /\ MaxChCalls \in Nat
    BY <1>1, ChameleonAssumption
  <2> QED
    BY <1>1, <2>1
<1>6. EdgeHeld
  BY <1>1 DEF EdgeHeld
<1>7. MetalHeld
  <2>1. ASSUME NEW f \in Flavours PROVE Cardinality(OfFlavour(f)) + Cardinality(PlannedFor(ch.plan, f)) <= WantedOf(f)
    <3>1. WantedOf(f) \in Nat
      BY <1>1, ChConfIs, WantedIs
    <3>2. OfFlavour(f) = {} /\ PlannedFor(ch.plan, f) = {}
      BY <1>1 DEF OfFlavour, OfIn, PlannedFor, Fresh
    <3>3. Cardinality(OfFlavour(f)) = 0 /\ Cardinality(PlannedFor(ch.plan, f)) = 0
      BY <3>2, FS_EmptySet
    <3> QED
      BY <3>1, <3>3
  <2> QED
    BY <1>1, <2>1 DEF MetalHeld, MetalUnits
<1> QED
  BY <1>1, <1>2, <1>3, <1>4, <1>5, <1>6, <1>7 DEF ChHeld, ChTyped

LEMMA ChHeldStays == ChHeld /\ [ChNext]_chVars => ChHeld'
  BY ChTypedStays, EdgeStays, MetalStays DEF ChHeld

LEMMA ChReady == ChHeld => ChameleonReadyAsAsked
<1> SUFFICES ASSUME ChHeld PROVE ChameleonReadyAsAsked
  OBVIOUS
<1>1. ChTyped /\ EdgeHeld /\ MetalHeld
  BY DEF ChHeld
<1>2. ASSUME Edge, ch.at = "ready", leases[ch.lease].status = "ACTIVE", ch.lease \notin cut,
             NEW c \in DOMAIN chConf.machines
      PROVE  Cardinality({i \in ch.got : units[i].lease = ch.lease /\ units[i].resv = c}) = Machine(c).number
  <2>1. ch.lease \in DOMAIN leases /\ LiveLease(ch.lease)
    BY <1>1, <1>2 DEF ChTyped, ClientTyped, WithLease, LiveLease, LiveStatuses
  <2>2. ch.got = UnitsOn(ch.lease) /\ Complete(ch.lease)
    BY <1>1, <1>2, <2>1 DEF EdgeHeld, EdgeLease
  <2>3. {i \in ch.got : units[i].lease = ch.lease /\ units[i].resv = c} = UnitsAt(ch.lease, c)
    BY <2>2 DEF UnitsOn, UnitsAt, AtIn
  <2> QED
    BY <2>2, <2>3 DEF Complete, ChGroups
<1>3. ASSUME ~Edge, Adjacent, Cardinality({units[i].lease : i \in DOMAIN units}) <= 1,
             \A i \in DOMAIN units : units[i].status # "gone", NEW i \in DOMAIN units
      PROVE  units[i].status # "error"
  <2> DEFINE L == {units[j].lease : j \in DOMAIN units}
  <2>1. IsFiniteSet(L)
    <3> DEFINE D == DOMAIN units
               f == [j \in D |-> units[j].lease]
    <3>1. IsFiniteSet(D)
      <4>1. D = 1..Len(units) /\ Len(units) \in Nat
        BY <1>1 DEF ChTyped, UnitsTyped
      <4>2. 1 \in Int /\ Len(units) \in Int
        BY <4>1
      <4> QED
        BY <4>1, <4>2, FS_Interval
    <3>2. f \in Surjection(D, L)
      BY DEF Surjection
    <3> HIDE DEF f, L, D
    <3> QED
      BY <3>1, <3>2, FS_Surjection
  <2>2. \A x, y \in L : x = y
    <3> SUFFICES ASSUME NEW x \in L, NEW y \in L, x # y PROVE FALSE
      OBVIOUS
    <3>0. Cardinality(L) <= 1
      BY <1>3
    <3> HIDE DEF L
    <3>1. IsFiniteSet({x}) /\ Cardinality({x}) = 1
      BY FS_Singleton
    <3>2. IsFiniteSet({x} \cup {y}) /\ Cardinality({x} \cup {y}) = 2
      <4>1. Cardinality({x} \cup {y}) = Cardinality({x}) + 1 /\ IsFiniteSet({x} \cup {y})
        BY <3>1, FS_AddElement
      <4> QED
        BY <3>1, <4>1
    <3>3. Cardinality({x} \cup {y}) <= Cardinality(L) /\ Cardinality(L) \in Nat
      <4>1. ({x} \cup {y}) \in SUBSET L
        OBVIOUS
      <4> QED
        BY <2>1, <4>1, FS_Subset, FS_CardinalityType
    <3> QED
      BY <3>0, <3>2, <3>3
  <2>3. OneLease /\ NoneGone
    BY <1>3, <2>2 DEF OneLease, NoneGone
  <2> QED
    BY <1>1, <1>3, <2>3 DEF MetalHeld, MetalUnits
<1>4. ports <= chConf.ports
  <2>1. ports \in 0..chConf.ports /\ chConf.ports \in Nat
    BY <1>1, ChameleonAssumption DEF ChTyped
  <2> QED
    BY <2>1
<1> QED
  BY <1>2, <1>3, <1>4 DEF ChameleonReadyAsAsked

LEMMA ChTypes == ChHeld => ChTypeOK
<1> SUFFICES ASSUME ChHeld PROVE ChTypeOK
  OBVIOUS
<1>1. ChTyped
  BY DEF ChHeld
<1>2. \A i \in DOMAIN leases : leases[i].status \in LeaseStatuses /\ leases[i].reservations = Reservations
  <2>1. \A i \in DOMAIN leases : leases[i] \in LeaseFields
    BY <1>1 DEF ChTyped, LeasesTyped
  <2> QED
    BY <2>1 DEF LeaseFields
<1>3. ports \in Nat
  <2>1. ports \in 0..chConf.ports /\ chConf.ports \in Nat
    BY <1>1, ChameleonAssumption DEF ChTyped
  <2> QED
    BY <2>1
<1>4. ch.got \subseteq DOMAIN units
  BY <1>1, ClientWas DEF ClientNo
<1> QED
  BY <1>1, <1>2, <1>3, <1>4 DEF ChTypeOK, ChTyped, LeasesTyped, UnitsTyped

-----------------------------------------------------------------------------
(* What the slices of FABRIC have *)

CardNames == (DOMAIN PortsOf) \X Nat
IfaceFields == [node : NodesOf, card : CardNames, port : Nat, net : NetworksOf, address : Nat]
FabSteps == {"idle", "check", "find", "build", "submitted", "storage", "publish", "resubmitted",
             "configure", "roles", "ready", "raised", "delete", "destroyed"}
Working == {"submitted", "storage", "publish", "resubmitted", "configure"}

SlicesTyped ==
  /\ fabConf \in FabConfs /\ allowed \in Permissions
  /\ \A s \in DOMAIN slices :
        /\ slices[s].status \in {"configuring", "ok", "error", "deleted"}
        /\ slices[s].nodes \subseteq NodesOf
        /\ slices[s].ifaces \subseteq IfaceFields
        /\ \A m \in slices[s].mounts : m.node \in NodesOf
  /\ Len(slices) <= MaxSlices
  /\ formats \in [Volumes(fabConf) -> 0..1]
  /\ (\E v \in Volumes(fabConf) : formats[v] = 1) => slices # <<>>

BuilderTyped ==
  /\ fab.at \in FabSteps /\ fab.slice \in 0..Len(slices)
  /\ fab.known \subseteq NodesOf /\ fab.todo \subseteq NetworksOf
  /\ unfinished \subseteq DOMAIN slices
  /\ fabCalls \in 0..MaxFabCalls

\* The networks that a node is on.
Offered(node) == NetworksAt(NodeSite(node))

\* A slice has the interfaces that were added, each once, and the components.
Wired(slice) ==
  /\ \A f \in slice.ifaces : /\ f.node \in slice.nodes /\ f.net \in Offered(f.node)
                             /\ f.card = CardOf(f.node, f.net) /\ f.port = PortOf(f.node, f.net)
  /\ \A node \in slice.nodes : \A n \in Offered(node) : \E f \in slice.ifaces : f.node = node /\ f.net = n
  /\ \A f, g \in slice.ifaces : f.node = g.node /\ f.net = g.net => f = g
Equipped(slice) ==
  slice.components = UNION {ComponentsOf(node) \cup AttachedTo(node) : node \in slice.nodes}

BuiltSlices == {s \in DOMAIN slices : Wired(slices[s]) /\ Equipped(slices[s])}

\* What configure_storage and configure_network_interfaces leave.
MountedSlices == {s \in DOMAIN slices : slices[s].mounts = {Mount(place) : place \in ToMount}}
AddressedOn(n) ==
  {s \in DOMAIN slices :
     \A f \in slices[s].ifaces : f.net = n =>
        /\ f.address >= FirstAddress(n)
        /\ \A g \in slices[s].ifaces : g.net = n /\ g.address = f.address => f = g}
FinishedSlices == {s \in MountedSlices : \A n \in NetworksOf : s \in AddressedOn(n)}

\* A slice is finished unless its init failed, was killed or still works on it.
SlicesFinished ==
  \A s \in DOMAIN slices \ unfinished : (fab.at \in Working /\ fab.slice = s) \/ s \in FinishedSlices
InWork ==
  /\ fab.at \in Working \cup {"roles", "ready"} => fab.slice \in DOMAIN slices
  /\ fab.at \in {"storage", "publish"} => fab.todo = NetworksOf
  /\ fab.at \in {"publish", "resubmitted", "configure"} => fab.slice \in MountedSlices
  /\ fab.at = "configure" => \A n \in NetworksOf \ fab.todo : fab.slice \in AddressedOn(n)
  /\ fab.at \in {"storage", "publish", "resubmitted", "configure", "roles", "ready"} =>
        fab.known = slices[fab.slice].nodes
  /\ fab.at = "ready" => NodesOf \subseteq fab.known

FabHeld ==
  /\ SlicesTyped /\ BuilderTyped
  /\ DOMAIN slices \subseteq BuiltSlices
  /\ SlicesFinished /\ InWork

\* What a configuration has.
LEMMA FabShape ==
  ASSUME fabConf \in FabConfs
  PROVE  /\ Len(fabConf.networks) \in Nat /\ NetworksOf = 1..Len(fabConf.networks)
         /\ \A n \in NetworksOf : Net(n).model \in DOMAIN PortsOf /\ PortsOf[Net(n).model] \in Nat \ {0}
         /\ \A node \in NodesOf :
               /\ node \in FabMachines \X Nat /\ NetworksAt(NodeSite(node)) \subseteq NetworksOf
               /\ Len(StorageOf(node)) \in Nat /\ DOMAIN StorageOf(node) = 1..Len(StorageOf(node))
               /\ \A k \in DOMAIN StorageOf(node) :
                     /\ StorageOf(node)[k].kind \in {"nvme", "volume"}
                     /\ StorageOf(node)[k].kind = "volume" => StorageOf(node)[k].name # "nvme"
<1>1. /\ Len(fabConf.networks) \in Nat /\ NetworksOf = 1..Len(fabConf.networks)
      /\ \A n \in NetworksOf : fabConf.networks[n].model \in DOMAIN PortsOf
  BY FabricAssumption DEF NetworksOf
<1>2. \A n \in NetworksOf : Net(n).model \in DOMAIN PortsOf /\ PortsOf[Net(n).model] \in Nat \ {0}
  BY <1>1, FabricAssumption DEF Net
<1>3. \A i \in FabMachines :
         /\ fabConf.machines[i].number \in Nat
         /\ Len(fabConf.machines[i].storage) \in Nat
         /\ DOMAIN fabConf.machines[i].storage = 1..Len(fabConf.machines[i].storage)
         /\ \A k \in DOMAIN fabConf.machines[i].storage :
               /\ fabConf.machines[i].storage[k].kind \in {"nvme", "volume"}
               /\ fabConf.machines[i].storage[k].kind = "volume" => fabConf.machines[i].storage[k].name # "nvme"
  BY FabricAssumption DEF FabMachines
<1>4. ASSUME NEW node \in NodesOf
      PROVE  /\ node \in FabMachines \X Nat /\ NetworksAt(NodeSite(node)) \subseteq NetworksOf
             /\ node[1] \in FabMachines
  <2>1. PICK i \in FabMachines : node \in {i} \X (1..fabConf.machines[i].number)
    BY DEF NodesOf
  <2>2. node[1] = i /\ node[2] \in 1..fabConf.machines[i].number /\ node = <<node[1], node[2]>>
    BY <2>1
  <2>3. node[2] \in Nat
    BY <1>3, <2>2
  <2> QED
    BY <2>2, <2>3 DEF NetworksAt
<1> QED
  BY <1>1, <1>2, <1>3, <1>4 DEF StorageOf

\* The networks of a node that use one kind of card have numbers that differ.
LEMMA RankGrows ==
  ASSUME fabConf \in FabConfs, NEW node \in NodesOf,
         NEW m \in NetworksAt(NodeSite(node)), NEW n \in NetworksAt(NodeSite(node)),
         m < n, Net(m).model = Net(n).model
  PROVE  Rank(node, m) \in Nat /\ Rank(node, n) \in Nat /\ Rank(node, m) < Rank(node, n)
<1> DEFINE A == NetworksAt(NodeSite(node))
           E(k) == {l \in A : l < k /\ Net(l).model = Net(k).model}
           X == E(m)
           Y == E(n)
<1>1. A \subseteq NetworksOf /\ NetworksOf = 1..Len(fabConf.networks) /\ Len(fabConf.networks) \in Nat
  BY FabShape
<1>2. IsFiniteSet(NetworksOf)
  <2>1. 1 \in Int /\ Len(fabConf.networks) \in Int
    BY <1>1
  <2> QED
    BY <1>1, <2>1, FS_Interval
<1>3. X \subseteq Y \ {m} /\ m \in Y /\ Y \subseteq NetworksOf
  <2>1. m \in Nat /\ n \in Nat /\ \A l \in A : l \in Nat
    BY <1>1
  <2> QED
    BY <1>1, <2>1
<1>4. Rank(node, m) = Cardinality(X) /\ Rank(node, n) = Cardinality(Y)
  BY DEF Rank
<1> HIDE DEF X, Y
<1>5. IsFiniteSet(Y) /\ Cardinality(Y) \in Nat
  BY <1>2, <1>3, FS_Subset, FS_CardinalityType
<1>6. IsFiniteSet(Y \ {m}) /\ Cardinality(Y \ {m}) = Cardinality(Y) - 1
  BY <1>3, <1>5, FS_RemoveElement
<1>7. IsFiniteSet(X) /\ Cardinality(X) <= Cardinality(Y \ {m}) /\ Cardinality(X) \in Nat
  BY <1>3, <1>6, FS_Subset, FS_CardinalityType
<1> QED
  BY <1>4, <1>5, <1>6, <1>7

LEMMA RankType ==
  ASSUME fabConf \in FabConfs, NEW node \in NodesOf, NEW n
  PROVE  Rank(node, n) \in Nat
<1> DEFINE X == {l \in NetworksAt(NodeSite(node)) : l < n /\ Net(l).model = Net(n).model}
<1>1. X \subseteq NetworksOf /\ NetworksOf = 1..Len(fabConf.networks) /\ Len(fabConf.networks) \in Nat
  BY FabShape
<1>2. IsFiniteSet(NetworksOf)
  <2>1. 1 \in Int /\ Len(fabConf.networks) \in Int
    BY <1>1
  <2> QED
    BY <1>1, <2>1, FS_Interval
<1>3. Rank(node, n) = Cardinality(X)
  BY DEF Rank
<1> HIDE DEF X
<1> QED
  BY <1>1, <1>2, <1>3, FS_Subset, FS_CardinalityType

\* A port of a card serves one network.
LEMMA PortsApart ==
  ASSUME fabConf \in FabConfs, NEW node \in NodesOf,
         NEW m \in NetworksAt(NodeSite(node)), NEW n \in NetworksAt(NodeSite(node)),
         CardOf(node, m) = CardOf(node, n), PortOf(node, m) = PortOf(node, n)
  PROVE  m = n
<1>1. m \in NetworksOf /\ n \in NetworksOf
  BY FabShape
<1>2. Net(m).model = Net(n).model
  BY DEF CardOf
<1> DEFINE p == PortsOf[Net(n).model]
           a == Rank(node, m)
           b == Rank(node, n)
<1>3. p \in Nat \ {0} /\ a \in Nat /\ b \in Nat
  BY <1>1, FabShape, RankType
<1>4. a \div p = b \div p /\ p - (a % p) = p - (b % p)
  BY <1>2 DEF CardOf, PortOf
<1>4a. \A k \in NetworksOf : k \in Nat
  BY FabShape
<1>5. ~(m < n) /\ ~(n < m) => m = n
  BY <1>1, <1>4a
<1>6. m < n => a < b
  BY <1>2, RankGrows
<1>7. n < m => b < a
  BY <1>2, RankGrows
<1> HIDE DEF p, a, b
<1>8. a = p * (a \div p) + (a % p) /\ b = p * (b \div p) + (b % p)
  BY <1>3, Division
<1>9. a % p \in 0..(p - 1) /\ b % p \in 0..(p - 1) /\ a \div p \in Nat /\ b \div p \in Nat
  BY <1>3, Division
<1>10. a % p = b % p
  BY <1>3, <1>4, <1>9
<1>11. a = b
  BY <1>4, <1>8, <1>10
<1> QED
  BY <1>3, <1>5, <1>6, <1>7, <1>11

\* Numbers are given without a gap.
HowManyBelow(k, D) == Cardinality({l \in D : l < k})
LEMMA NoGap ==
  ASSUME NEW N \in Nat, NEW D, D \subseteq 1..N, NEW k \in D,
         NEW m \in Nat, m <= HowManyBelow(k, D)
  PROVE  \E j \in D : HowManyBelow(j, D) = m
<1> DEFINE Fewer(j) == {l \in D : l < j}
           T == {j \in D : m <= Cardinality(Fewer(j))}
<1>0. \A j \in D : j \in Nat
  OBVIOUS
<1>1. IsFiniteSet(D)
  <2>1. 1 \in Int /\ N \in Int
    OBVIOUS
  <2>2. IsFiniteSet(1..N)
    BY <2>1, FS_Interval
  <2> QED
    BY <2>2, FS_Subset
<1>2. T \in SUBSET Nat /\ k \in T
  BY <1>0 DEF HowManyBelow
<1> DEFINE j == Min(T)
<1>3. j \in T /\ \A i \in T : j <= i
  BY <1>2, FirstPosition
<1> HIDE DEF j
<1>4. j \in D /\ m <= Cardinality(Fewer(j))
  BY <1>3
<1>5. IsFiniteSet(Fewer(j)) /\ Cardinality(Fewer(j)) \in Nat
  <2>1. Fewer(j) \subseteq D
    OBVIOUS
  <2> HIDE DEF Fewer
  <2> QED
    BY <1>1, <2>1, FS_Subset, FS_CardinalityType
<1>6. ASSUME Cardinality(Fewer(j)) > m PROVE FALSE
  <2>1. Fewer(j) # {}
    <3> SUFFICES ASSUME Fewer(j) = {} PROVE FALSE
      OBVIOUS
    <3>1. Cardinality(Fewer(j)) = 0
      BY FS_EmptySet
    <3> QED
      BY <1>6, <3>1
  <2>2. Fewer(j) \subseteq 1..N
    OBVIOUS
  <2> DEFINE p == Max(Fewer(j))
  <2>3. p \in Fewer(j) /\ \A i \in Fewer(j) : i <= p
    <3> HIDE DEF Fewer
    <3> QED
      BY <2>1, <2>2, LastPosition
  <2> HIDE DEF p
  <2>4. p \in D /\ p < j /\ p \in Nat /\ j \in Nat
    BY <1>0, <1>4, <2>3
  <2>5. Fewer(p) = Fewer(j) \ {p}
    <3>1. \A l \in D : l < p => l < j
      BY <1>0, <2>4
    <3>2. \A l \in D : l < j => l <= p
      BY <2>3
    <3>3. \A l \in D : l <= p /\ l # p => l < p
      BY <1>0, <2>4
    <3>4. \A l \in D : l < p => l # p
      BY <1>0, <2>4
    <3> QED
      BY <3>1, <3>2, <3>3, <3>4
  <2> DEFINE B == Fewer(j)
             C == Fewer(p)
  <2>6. p \in B /\ IsFiniteSet(B) /\ C = B \ {p}
    BY <1>5, <2>3, <2>5
  <2> HIDE DEF B, C
  <2>7. Cardinality(C) = Cardinality(B) - 1
    BY <2>6, FS_RemoveElement
  <2>8. m <= Cardinality(Fewer(p))
    BY <1>5, <1>6, <2>7 DEF B, C
  <2>9. p \in T
    BY <2>4, <2>8
  <2> QED
    BY <1>3, <2>4, <2>9
<1>7. Cardinality(Fewer(j)) = m
  BY <1>4, <1>5, <1>6
<1> QED
  BY <1>4, <1>7 DEF HowManyBelow

\* A place where something is mounted.
LEMMA PlaceIs ==
  ASSUME fabConf \in FabConfs, NEW place \in ToMount
  PROVE  /\ place[1] \in NodesOf /\ place[2] \in DOMAIN StorageOf(place[1]) /\ place = <<place[1], place[2]>>
         /\ StorageOf(place[1])[place[2]].mounted
<1>1. PICK node \in NodesOf : place \in {node} \X DOMAIN StorageOf(node)
  BY DEF ToMount
<1> QED
  BY <1>1 DEF ToMount

\* The drives before a place, and those that are mounted.
LEMMA DrivesBefore ==
  ASSUME fabConf \in FabConfs, NEW node \in NodesOf, NEW k \in DOMAIN StorageOf(node)
  PROVE  LET X == {l \in NvmeBefore(node, k) : StorageOf(node)[l].mounted}
         IN  /\ IsFiniteSet(NvmeBefore(node, k)) /\ Cardinality(NvmeBefore(node, k)) \in Nat
             /\ IsFiniteSet(X) /\ Cardinality(X) \in Nat /\ Cardinality(X) <= Cardinality(NvmeBefore(node, k))
             /\ NvmeBefore(node, k) = {l \in {l \in DOMAIN StorageOf(node) : StorageOf(node)[l].kind = "nvme"} : l < k}
<1> DEFINE X == {l \in NvmeBefore(node, k) : StorageOf(node)[l].mounted}
           Y == NvmeBefore(node, k)
           N == Len(StorageOf(node))
<1>1. N \in Nat /\ DOMAIN StorageOf(node) = 1..N
  BY FabShape
<1>2. X \subseteq Y /\ Y \subseteq 1..N
  BY <1>1 DEF NvmeBefore
<1>3. Y = {l \in {l \in DOMAIN StorageOf(node) : StorageOf(node)[l].kind = "nvme"} : l < k}
  <2>1. \A l : l \in 1..(k - 1) <=> l \in 1..N /\ l < k
    BY <1>1
  <2> QED
    BY <1>1, <2>1 DEF NvmeBefore
<1> HIDE DEF X, Y, N
<1>4. IsFiniteSet(1..N)
  <2>1. 1 \in Int /\ N \in Int
    BY <1>1
  <2> QED
    BY <2>1, FS_Interval
<1>5. IsFiniteSet(Y) /\ Cardinality(Y) \in Nat
  BY <1>2, <1>4, FS_Subset, FS_CardinalityType
<1>6. IsFiniteSet(X) /\ Cardinality(X) \in Nat /\ Cardinality(X) <= Cardinality(Y)
  BY <1>2, <1>5, FS_Subset, FS_CardinalityType
<1> QED
  BY <1>3, <1>5, <1>6 DEF X, Y

\* What is mounted is a drive or a volume of the node.
LEMMA MountsFound ==
  ASSUME fabConf \in FabConfs, NEW place \in ToMount
  PROVE  LET m == Mount(place)
         IN  /\ m.node = place[1] /\ m.point = StorageOf(place[1])[place[2]].name
             /\ [node |-> m.node, model |-> m.model, number |-> m.number]
                   \in ComponentsOf(place[1]) \cup AttachedTo(place[1])
<1> DEFINE node == place[1]
           k == place[2]
           item == StorageOf(node)[k]
           X == {l \in NvmeBefore(node, k) : StorageOf(node)[l].mounted}
           m == Mount(place)
<1>1. node \in NodesOf /\ k \in DOMAIN StorageOf(node) /\ item.kind \in {"nvme", "volume"}
  BY PlaceIs, FabShape
<1>2. /\ m.node = node /\ m.point = item.name
      /\ m.model = (IF item.kind = "nvme" THEN "nvme" ELSE item.name)
      /\ m.number = (IF item.kind = "nvme" THEN Cardinality(X) ELSE 0)
  BY DEF Mount
<1> HIDE DEF m
<1> SUFFICES [node |-> m.node, model |-> m.model, number |-> m.number] \in ComponentsOf(node) \cup AttachedTo(node)
  BY <1>2 DEF m
<1>3. ASSUME item.kind = "nvme"
      PROVE  [node |-> node, model |-> "nvme", number |-> Cardinality(X)] \in ComponentsOf(node)
  <2> DEFINE D == {l \in DOMAIN StorageOf(node) : StorageOf(node)[l].kind = "nvme"}
             c == Cardinality(X)
  <2>1. Len(StorageOf(node)) \in Nat /\ D \subseteq 1..Len(StorageOf(node)) /\ k \in D
    BY <1>1, <1>3, FabShape
  <2>2. c \in Nat /\ c <= Cardinality(NvmeBefore(node, k))
    BY <1>1, DrivesBefore
  <2>3. NvmeBefore(node, k) = {l \in D : l < k}
    BY <1>1, DrivesBefore
  <2> DEFINE N == Len(StorageOf(node))
  <2> HIDE DEF c, D, N, node, k
  <2>4. \E j \in D : HowManyBelow(j, D) = c
    <3>1. N \in Nat /\ D \subseteq 1..N
      BY <2>1 DEF N
    <3>2. c <= HowManyBelow(k, D)
      BY <2>2, <2>3 DEF HowManyBelow
    <3> QED
      BY <2>1, <2>2, <3>1, <3>2, NoGap
  <2>5. PICK j \in D : Cardinality({l \in D : l < j}) = c
    BY <2>4 DEF HowManyBelow
  <2> USE DEF node, k
  <2>6. j \in DOMAIN StorageOf(node) /\ StorageOf(node)[j].kind = "nvme"
    BY <2>5 DEF D
  <2>7. NvmeBefore(node, j) = {l \in D : l < j}
    BY <1>1, <2>6, DrivesBefore DEF D
  <2>8. [node |-> node, model |-> "nvme", number |-> Cardinality(NvmeBefore(node, j))] \in ComponentsOf(node)
    BY <2>6 DEF ComponentsOf
  <2> QED
    BY <2>5, <2>7, <2>8 DEF c
<1>4. ASSUME item.kind # "nvme"
      PROVE  [node |-> node, model |-> item.name, number |-> 0] \in AttachedTo(node)
  <2>1. item \in ToSet(StorageOf(node)) /\ item.kind = "volume"
    BY <1>1, <1>4 DEF ToSet
  <2> QED
    BY <2>1 DEF AttachedTo
<1> QED
  BY <1>2, <1>3, <1>4

\* Each mount has a drive, or a volume, for itself.
LEMMA MountsApart ==
  ASSUME fabConf \in FabConfs, NEW p \in ToMount, NEW q \in ToMount,
         Mount(p).node = Mount(q).node, Mount(p).model = Mount(q).model, Mount(p).number = Mount(q).number
  PROVE  Mount(p) = Mount(q)
<1> DEFINE node == p[1]
           k == p[2]
           l == q[2]
           X(i) == {j \in NvmeBefore(node, i) : StorageOf(node)[j].mounted}
           kind(i) == StorageOf(node)[i].kind
           name(i) == StorageOf(node)[i].name
<1>1. /\ node \in NodesOf /\ k \in DOMAIN StorageOf(node) /\ p = <<node, k>>
      /\ StorageOf(node)[k].mounted
  BY PlaceIs
<1>2. q[1] = node
  BY MountsFound
<1>3. l \in DOMAIN StorageOf(node) /\ q = <<node, l>> /\ StorageOf(node)[l].mounted
  BY <1>2, PlaceIs
<1>4. Mount(p) = [node |-> node, point |-> name(k), model |-> IF kind(k) = "nvme" THEN "nvme" ELSE name(k),
                  number |-> IF kind(k) = "nvme" THEN Cardinality(X(k)) ELSE 0]
  BY <1>1 DEF Mount
<1>5. Mount(q) = [node |-> node, point |-> name(l), model |-> IF kind(l) = "nvme" THEN "nvme" ELSE name(l),
                  number |-> IF kind(l) = "nvme" THEN Cardinality(X(l)) ELSE 0]
  BY <1>3 DEF Mount
<1>6. /\ kind(k) \in {"nvme", "volume"} /\ kind(l) \in {"nvme", "volume"}
      /\ (kind(k) = "volume" => name(k) # "nvme") /\ (kind(l) = "volume" => name(l) # "nvme")
  BY <1>1, <1>3, FabShape
<1>7. ASSUME NEW i \in DOMAIN StorageOf(node), NEW j \in DOMAIN StorageOf(node), i < j,
             kind(i) = "nvme", StorageOf(node)[i].mounted
      PROVE  Cardinality(X(i)) # Cardinality(X(j))
  <2> DEFINE S == X(i)
             T == X(j)
  <2>1. IsFiniteSet(S) /\ IsFiniteSet(T) /\ Cardinality(S) \in Nat
    BY <1>1, <1>7, DrivesBefore
  <2>2. i \in Nat /\ j \in Nat /\ i >= 1
    BY <1>1, <1>7, FabShape
  <2>3. S \cup {i} \subseteq T /\ i \notin S
    BY <1>7, <2>2 DEF NvmeBefore
  <2> HIDE DEF S, T
  <2>4. IsFiniteSet(S \cup {i}) /\ Cardinality(S \cup {i}) = Cardinality(S) + 1
    BY <2>1, <2>3, FS_AddElement
  <2>5. Cardinality(S \cup {i}) <= Cardinality(T) /\ Cardinality(T) \in Nat
    BY <2>1, <2>3, FS_Subset, FS_CardinalityType
  <2>6. Cardinality(S) # Cardinality(T)
    BY <2>1, <2>4, <2>5
  <2> QED
    BY <2>6 DEF S, T
<1>8. CASE kind(k) = "nvme" /\ kind(l) = "nvme"
  <2>1. Cardinality(X(k)) = Cardinality(X(l))
    BY <1>4, <1>5, <1>8
  <2>2. ~(k < l) /\ ~(l < k)
    BY <1>1, <1>3, <1>7, <1>8, <2>1
  <2>3. k \in Nat /\ l \in Nat
    BY <1>1, <1>3, FabShape
  <2>4. k = l
    BY <2>2, <2>3
  <2> QED
    BY <1>1, <1>3, <2>4
<1>9. CASE kind(k) # "nvme" /\ kind(l) # "nvme"
  <2>1. name(k) = name(l)
    BY <1>4, <1>5, <1>9
  <2> QED
    BY <1>4, <1>5, <1>9, <2>1
<1>10. CASE (kind(k) = "nvme") # (kind(l) = "nvme")
  BY <1>4, <1>5, <1>6, <1>10
<1> QED
  BY <1>8, <1>9, <1>10

LEMMA FabReady == FabHeld => FabricReadyAsAsked
<1> SUFFICES ASSUME FabHeld PROVE FabricReadyAsAsked
  OBVIOUS
<1>0. SlicesTyped /\ fabConf \in FabConfs
  BY DEF FabHeld, SlicesTyped
<1>1. \A v \in DOMAIN formats : formats[v] <= 1
  <2>1. formats \in [Volumes(fabConf) -> 0..1]
    BY <1>0 DEF SlicesTyped
  <2> QED
    BY <2>1
<1> DEFINE slice == slices[fab.slice]
<1>2. ASSUME fab.at = "ready", slice.status = "ok", fab.slice \notin unfinished
      PROVE  /\ slice.nodes = NodesOf
             /\ \A node \in NodesOf : \A n \in NetworksAt(NodeSite(node)) :
                   Cardinality({f \in slice.ifaces : f.node = node /\ f.net = n}) = 1
             /\ \A f, g \in slice.ifaces :
                   (f.node = g.node /\ f.card = g.card /\ f.port = g.port) \/ (f.net = g.net /\ f.address = g.address)
                   => f = g
             /\ \A node \in NodesOf : \A item \in ToSet(StorageOf(node)) : item.mounted =>
                   \E m \in slice.mounts : m.node = node /\ m.point = item.name
             /\ \A m \in slice.mounts : [node |-> m.node, model |-> m.model, number |-> m.number] \in slice.components
             /\ \A m, o \in slice.mounts :
                   m.node = o.node /\ m.model = o.model /\ m.number = o.number => m = o
             /\ \A f \in slice.ifaces : f.address >= (IF Net(f.net).l3 THEN 2 ELSE 1)
  <2>1. fab.slice \in DOMAIN slices /\ fab.at \notin Working
    BY <1>2 DEF FabHeld, InWork, Working
  <2>2. Wired(slice) /\ Equipped(slice)
    BY <2>1 DEF FabHeld, BuiltSlices
  <2>2a. fab.slice \in FinishedSlices
    BY <1>2, <2>1 DEF FabHeld, SlicesFinished
  <2>2b. /\ slice.mounts = {Mount(place) : place \in ToMount}
         /\ \A n \in NetworksOf : \A f \in slice.ifaces : f.net = n =>
               /\ f.address >= FirstAddress(n)
               /\ \A g \in slice.ifaces : g.net = n /\ g.address = f.address => f = g
    BY <2>2a DEF FinishedSlices, MountedSlices, AddressedOn
  <2>3. slice.nodes \subseteq NodesOf /\ slice.ifaces \subseteq IfaceFields
    BY <1>0, <2>1 DEF SlicesTyped
  <2>4. slice.nodes = NodesOf
    BY <1>2, <2>3 DEF FabHeld, InWork
  <2> HIDE DEF slice
  <2>5. ASSUME NEW node \in NodesOf, NEW n \in NetworksAt(NodeSite(node))
        PROVE  Cardinality({f \in slice.ifaces : f.node = node /\ f.net = n}) = 1
    <3>1. PICK f \in slice.ifaces : f.node = node /\ f.net = n
      BY <2>2, <2>4 DEF Wired, Offered
    <3>2. {g \in slice.ifaces : g.node = node /\ g.net = n} = {f}
      BY <2>2, <3>1 DEF Wired
    <3>3. Cardinality({f}) = 1
      BY FS_Singleton
    <3> QED
      BY <3>2, <3>3
  <2>6. ASSUME NEW f \in slice.ifaces, NEW g \in slice.ifaces, f.node = g.node, f.card = g.card, f.port = g.port
        PROVE  f = g
    <3>1. /\ f.node \in NodesOf /\ f.net \in NetworksAt(NodeSite(f.node))
          /\ f.card = CardOf(f.node, f.net) /\ f.port = PortOf(f.node, f.net)
      BY <2>2, <2>4 DEF Wired, Offered
    <3>2. /\ g.net \in NetworksAt(NodeSite(g.node))
          /\ g.card = CardOf(g.node, g.net) /\ g.port = PortOf(g.node, g.net)
      BY <2>2 DEF Wired, Offered
    <3> DEFINE node == f.node
               m == f.net
               n == g.net
    <3>3. node \in NodesOf /\ m \in NetworksAt(NodeSite(node)) /\ n \in NetworksAt(NodeSite(node))
      BY <2>6, <3>1, <3>2
    <3>4. CardOf(node, m) = CardOf(node, n) /\ PortOf(node, m) = PortOf(node, n)
      BY <2>6, <3>1, <3>2
    <3> HIDE DEF node, m, n
    <3>5. m = n
      BY <1>0, <3>3, <3>4, PortsApart
    <3> QED
      BY <2>2, <2>6, <3>5 DEF m, n, Wired
  <2>7. ASSUME NEW f \in slice.ifaces
        PROVE  /\ f.address >= (IF Net(f.net).l3 THEN 2 ELSE 1)
               /\ \A g \in slice.ifaces : f.net = g.net /\ f.address = g.address => f = g
    <3>1. f.net \in NetworksOf
      BY <2>3 DEF IfaceFields
    <3> QED
      BY <2>2b, <3>1 DEF FirstAddress
  <2>8. ASSUME NEW node \in NodesOf, NEW item \in ToSet(StorageOf(node)), item.mounted
        PROVE  \E m \in slice.mounts : m.node = node /\ m.point = item.name
    <3>1. PICK k \in DOMAIN StorageOf(node) : item = StorageOf(node)[k]
      BY DEF ToSet
    <3> DEFINE place == <<node, k>>
    <3>2. place \in {node} \X DOMAIN StorageOf(node) /\ place[1] = node /\ place[2] = k
      OBVIOUS
    <3>3. place \in ToMount
      BY <2>8, <3>1, <3>2 DEF ToMount
    <3> HIDE DEF place
    <3>4. Mount(place).node = node /\ Mount(place).point = item.name
      BY <1>0, <3>1, <3>2, <3>3, MountsFound
    <3>5. Mount(place) \in slice.mounts
      BY <2>2b, <3>3
    <3> QED
      BY <3>4, <3>5
  <2>9. ASSUME NEW m \in slice.mounts
        PROVE  [node |-> m.node, model |-> m.model, number |-> m.number] \in slice.components
    <3>1. PICK place \in ToMount : m = Mount(place)
      BY <2>2b
    <3>2. [node |-> m.node, model |-> m.model, number |-> m.number] \in ComponentsOf(place[1]) \cup AttachedTo(place[1])
      BY <1>0, <3>1, MountsFound
    <3>3. place[1] \in slice.nodes
      BY <1>0, <2>4, PlaceIs
    <3> QED
      BY <2>2, <3>2, <3>3 DEF Equipped
  <2>10. ASSUME NEW m \in slice.mounts, NEW o \in slice.mounts,
                m.node = o.node, m.model = o.model, m.number = o.number
         PROVE  m = o
    <3>1. PICK p \in ToMount : m = Mount(p)
      BY <2>2b
    <3>2. PICK q \in ToMount : o = Mount(q)
      BY <2>2b
    <3>3. Mount(p).node = Mount(q).node /\ Mount(p).model = Mount(q).model /\ Mount(p).number = Mount(q).number
      BY <2>10, <3>1, <3>2
    <3>4. Mount(p) = Mount(q)
      BY <1>0, <3>3, MountsApart
    <3> QED
      BY <3>1, <3>2, <3>4
  <2> QED
    BY <2>4, <2>5, <2>6, <2>7, <2>8, <2>9, <2>10
<1> QED
  BY <1>1, <1>2 DEF FabricReadyAsAsked

LEMMA FabTypes == FabHeld => FabTypeOK
<1> SUFFICES ASSUME FabHeld PROVE FabTypeOK
  OBVIOUS
<1>1. SlicesTyped /\ BuilderTyped
  BY DEF FabHeld
<1>2. ASSUME NEW s \in DOMAIN slices
      PROVE  /\ slices[s].status \in {"configuring", "ok", "error", "deleted"}
             /\ slices[s].nodes \subseteq NodesOf
             /\ \A f \in slices[s].ifaces : f.net \in NetworksOf /\ f.address \in Nat
             /\ \A c \in slices[s].components : c.node \in NodesOf
             /\ \A m \in slices[s].mounts : m.node \in NodesOf
  <2>1. slices[s].components = UNION {ComponentsOf(node) \cup AttachedTo(node) : node \in slices[s].nodes}
    BY DEF FabHeld, BuiltSlices, Equipped
  <2>2. slices[s].nodes \subseteq NodesOf /\ slices[s].ifaces \subseteq IfaceFields
    BY <1>1 DEF SlicesTyped
  <2>3. ASSUME NEW node, NEW c \in ComponentsOf(node) \cup AttachedTo(node) PROVE c.node = node
    <3> DEFINE gpus == fabConf.machines[node[1]].gpus
               first(k) == Cardinality({l \in 1..(k - 1) : gpus[l] = gpus[k]})
               G == {[node |-> node, model |-> gpus[k], number |-> first(k)] : k \in DOMAIN gpus}
               D == {[node |-> node, model |-> "nvme", number |-> Cardinality(NvmeBefore(node, k))] :
                       k \in {k \in DOMAIN StorageOf(node) : StorageOf(node)[k].kind = "nvme"}}
    <3>1. ComponentsOf(node) = G \cup D
      BY DEF ComponentsOf
    <3> HIDE DEF gpus, first
    <3>2. \A x \in G : x.node = node
      OBVIOUS
    <3>3. \A x \in D : x.node = node
      OBVIOUS
    <3>4. \A x \in AttachedTo(node) : x.node = node
      BY DEF AttachedTo
    <3> HIDE DEF G, D
    <3> QED
      BY <2>3, <3>1, <3>2, <3>3, <3>4
  <2>4. ASSUME NEW c \in slices[s].components PROVE c.node \in NodesOf
    <3>1. PICK node \in slices[s].nodes : c \in ComponentsOf(node) \cup AttachedTo(node)
      BY <2>1
    <3> QED
      BY <2>2, <2>3, <3>1
  <2>5. \A f \in slices[s].ifaces : f.net \in NetworksOf /\ f.address \in Nat
    BY <2>2 DEF IfaceFields
  <2> QED
    BY <1>1, <2>4, <2>5 DEF SlicesTyped
<1>3. formats \in [Volumes(fabConf) -> 0..MaxSlices]
  <2>1. formats \in [Volumes(fabConf) -> 0..1] /\ MaxSlices \in Nat /\ Len(slices) <= MaxSlices
    BY <1>1, FabricAssumption DEF SlicesTyped
  <2>2. (\E v \in Volumes(fabConf) : formats[v] = 1) => slices # <<>>
    BY <1>1 DEF SlicesTyped
  <2>3. Len(slices) \in Nat /\ (slices # <<>> => Len(slices) >= 1)
    <3>1. fab.slice \in 0..Len(slices)
      BY <1>1 DEF BuilderTyped
    <3> QED
      BY <3>1 DEF BuilderTyped
  <2>4. ASSUME NEW v \in Volumes(fabConf) PROVE formats[v] \in 0..MaxSlices
    <3>1. formats[v] \in {0, 1}
      BY <2>1
    <3> QED
      BY <2>1, <2>2, <2>3, <3>1
  <2> QED
    BY <2>1, <2>4
<1> QED
  BY <1>1, <1>2, <1>3 DEF FabTypeOK, SlicesTyped, BuilderTyped

LEMMA FabHeldInitially == FabInit => FabHeld
<1> SUFFICES ASSUME FabInit PROVE FabHeld
  OBVIOUS
<1>1. slices = <<>> /\ DOMAIN slices = {} /\ Len(slices) = 0
  BY DEF FabInit
<1>2. fab = NewFabric
  BY DEF FabInit
<1>3. MaxSlices \in Nat /\ MaxFabCalls \in Nat
  BY FabricAssumption
<1>4. formats \in [Volumes(fabConf) -> 0..1] /\ \A v \in Volumes(fabConf) : formats[v] = 0
  BY DEF FabInit
<1>5. SlicesTyped
  BY <1>1, <1>3, <1>4 DEF FabInit, SlicesTyped
<1>6. BuilderTyped
  BY <1>1, <1>2, <1>3 DEF FabInit, BuilderTyped, NewFabric, FabSteps
<1>7. DOMAIN slices \subseteq BuiltSlices /\ SlicesFinished
  BY <1>1 DEF SlicesFinished
<1>8. InWork
  BY <1>2 DEF InWork, NewFabric, Working
<1> QED
  BY <1>5, <1>6, <1>7, <1>8 DEF FabHeld

\* What depends on the configuration alone.
SameFabConf ==
  /\ NodesOf' = NodesOf /\ NetworksOf' = NetworksOf /\ IfaceFields' = IfaceFields /\ ToMount' = ToMount
  /\ \A node : /\ Offered(node)' = Offered(node) /\ StorageOf(node)' = StorageOf(node)
               /\ ComponentsOf(node)' = ComponentsOf(node) /\ AttachedTo(node)' = AttachedTo(node)
               /\ \A n : CardOf(node, n)' = CardOf(node, n) /\ PortOf(node, n)' = PortOf(node, n)
  /\ \A place : Mount(place)' = Mount(place)
  /\ \A n : FirstAddress(n)' = FirstAddress(n)

LEMMA FabConfStays == ASSUME UNCHANGED fabConf PROVE SameFabConf
<1>1. NodesOf' = NodesOf /\ NetworksOf' = NetworksOf
  BY DEF NodesOf, NetworksOf, FabMachines
<1>2. IfaceFields' = IfaceFields
  BY <1>1 DEF IfaceFields
<1>3. \A node : StorageOf(node)' = StorageOf(node)
  BY DEF StorageOf
<1>4. ToMount' = ToMount
  BY <1>1, <1>3 DEF ToMount, StorageOf
<1>5. \A n : FirstAddress(n)' = FirstAddress(n)
  BY DEF FirstAddress, Net
<1>6. \A node : Offered(node)' = Offered(node)
  BY <1>1 DEF Offered, NetworksAt, NodeSite, Net, NetworksOf
<1>7. \A node, n : Rank(node, n)' = Rank(node, n)
  BY <1>1 DEF Rank, NetworksAt, NodeSite, Net, NetworksOf
<1>8. \A node, n : CardOf(node, n)' = CardOf(node, n) /\ PortOf(node, n)' = PortOf(node, n)
  BY <1>7 DEF CardOf, PortOf, Net
<1>9. \A node : \A k : NvmeBefore(node, k)' = NvmeBefore(node, k)
  BY DEF NvmeBefore, StorageOf
<1>10. \A node : ComponentsOf(node)' = ComponentsOf(node) /\ AttachedTo(node)' = AttachedTo(node)
  BY <1>9 DEF ComponentsOf, AttachedTo, StorageOf
<1>11. \A place : Mount(place)' = Mount(place)
  BY DEF Mount, NvmeBefore, StorageOf
<1> QED
  BY <1>1, <1>2, <1>3, <1>4, <1>5, <1>6, <1>8, <1>10, <1>11 DEF SameFabConf

\* A step that changes nothing of the slices but what they have become.
SlicesSame ==
  /\ UNCHANGED <<fabConf, allowed, formats>>
  /\ DOMAIN slices' = DOMAIN slices /\ Len(slices') = Len(slices) /\ (slices = <<>> <=> slices' = <<>>)
  /\ \A s \in DOMAIN slices :
        /\ slices'[s].nodes = slices[s].nodes /\ slices'[s].ifaces = slices[s].ifaces
        /\ slices'[s].components = slices[s].components /\ slices'[s].mounts = slices[s].mounts
        /\ slices'[s].status \in {"configuring", "ok", "error", "deleted"}

LEMMA SlicesUntouched ==
  ASSUME FabHeld, UNCHANGED <<fabConf, allowed, formats, slices>>
  PROVE  SlicesSame
  BY DEF FabHeld, SlicesTyped, SlicesSame

LEMMA StatusEdited ==
  ASSUME FabIInv, NEW s \in DOMAIN slices, NEW status \in {"configuring", "ok", "error", "deleted"},
         FabHeld, UNCHANGED <<fabConf, allowed, formats>>, slices' = [slices EXCEPT ![s].status = status]
  PROVE  SlicesSame
<1>1. PICK Q : slices \in Seq(SliceSet(Q))
  BY DEF FabIInv
<1>2. \A t \in DOMAIN slices : slices[t] \in SliceSet(Q)
  BY <1>1
<1>3. DOMAIN slices' = DOMAIN slices /\ Len(slices') = Len(slices)
  BY <1>1
<1>4. ASSUME NEW t \in DOMAIN slices
      PROVE  /\ slices'[t].nodes = slices[t].nodes /\ slices'[t].ifaces = slices[t].ifaces
             /\ slices'[t].components = slices[t].components /\ slices'[t].mounts = slices[t].mounts
             /\ slices'[t].status \in {"configuring", "ok", "error", "deleted"}
  <2>1. slices'[t] = IF t = s THEN [slices[s] EXCEPT !.status = status] ELSE slices[t]
    BY <1>1
  <2> QED
    BY <1>2, <2>1 DEF SliceSet
<1>5. slices = <<>> <=> slices' = <<>>
  BY <1>1, <1>3
<1> QED
  BY <1>3, <1>4, <1>5 DEF SlicesSame

\* What the slices are stays.
LEMMA SlicesHold ==
  ASSUME FabHeld, SlicesSame
  PROVE  /\ SlicesTyped' /\ DOMAIN slices' \subseteq BuiltSlices'
         /\ MountedSlices \subseteq MountedSlices' /\ FinishedSlices \subseteq FinishedSlices'
         /\ \A n : AddressedOn(n) \subseteq AddressedOn(n)'
<1>0. SameFabConf /\ UNCHANGED <<fabConf, allowed, formats>> /\ DOMAIN slices' = DOMAIN slices
  BY FabConfStays DEF SlicesSame
<1>1. SlicesTyped'
  <2>1. Volumes(fabConf)' = Volumes(fabConf)
    BY <1>0 DEF Volumes
  <2> QED
    BY <1>0, <2>1 DEF FabHeld, SlicesTyped, SlicesSame, SameFabConf
<1>2. DOMAIN slices' \subseteq BuiltSlices'
  <2> SUFFICES ASSUME NEW s \in DOMAIN slices PROVE Wired(slices[s])' /\ Equipped(slices[s])'
    BY <1>0 DEF BuiltSlices
  <2>1. Wired(slices[s]) /\ Equipped(slices[s])
    BY DEF FabHeld, BuiltSlices
  <2>2. /\ slices'[s].nodes = slices[s].nodes /\ slices'[s].ifaces = slices[s].ifaces
        /\ slices'[s].components = slices[s].components
    BY DEF SlicesSame
  <2>3. Wired(slices[s])'
    BY <1>0, <2>1, <2>2 DEF Wired, SameFabConf
  <2>4. Equipped(slices[s])'
    BY <1>0, <2>1, <2>2 DEF Equipped, SameFabConf
  <2> QED
    BY <2>3, <2>4
<1>3. MountedSlices \subseteq MountedSlices'
  BY <1>0 DEF MountedSlices, SlicesSame, SameFabConf
<1>4. \A n : AddressedOn(n) \subseteq AddressedOn(n)'
  BY <1>0 DEF AddressedOn, SlicesSame, SameFabConf
<1>5. FinishedSlices \subseteq FinishedSlices'
  BY <1>0, <1>3, <1>4 DEF FinishedSlices, SameFabConf
<1> QED
  BY <1>1, <1>2, <1>3, <1>4, <1>5

\* A step of the client, or of the testbed, that leaves the slices as they are.
LEMMA FabWalks ==
  ASSUME FabHeld, SlicesSame,
         fab'.at \in FabSteps, fab'.slice \in 0..Len(slices), fab'.known \subseteq NodesOf, fab'.todo \subseteq NetworksOf,
         unfinished \subseteq unfinished', unfinished' \subseteq DOMAIN slices, fabCalls' \in 0..MaxFabCalls,
         \/ fab.at \notin Working \/ fab.slice \in unfinished' \/ fab.slice \in FinishedSlices
         \/ fab'.at \in Working /\ fab'.slice = fab.slice,
         fab'.at \in Working \cup {"roles", "ready"} => fab'.slice \in DOMAIN slices,
         fab'.at \in {"storage", "publish"} => fab'.todo = NetworksOf,
         fab'.at \in {"publish", "resubmitted", "configure"} => fab'.slice \in MountedSlices,
         fab'.at = "configure" => \A n \in NetworksOf \ fab'.todo : fab'.slice \in AddressedOn(n),
         fab'.at \in {"storage", "publish", "resubmitted", "configure", "roles", "ready"} =>
            fab'.known = slices[fab'.slice].nodes /\ fab'.slice \in DOMAIN slices,
         fab'.at = "ready" => NodesOf \subseteq fab'.known
  PROVE  FabHeld'
<1>0. SameFabConf /\ DOMAIN slices' = DOMAIN slices /\ Len(slices') = Len(slices)
  BY FabConfStays DEF SlicesSame
<1>1. /\ SlicesTyped' /\ DOMAIN slices' \subseteq BuiltSlices'
      /\ MountedSlices \subseteq MountedSlices' /\ FinishedSlices \subseteq FinishedSlices'
      /\ \A n : AddressedOn(n) \subseteq AddressedOn(n)'
  BY SlicesHold
<1>2. BuilderTyped'
  BY <1>0 DEF BuilderTyped, SameFabConf
<1>3. SlicesFinished'
  <2> SUFFICES ASSUME NEW s \in DOMAIN slices, s \notin unfinished', s \notin FinishedSlices
               PROVE  fab'.at \in Working /\ fab'.slice = s
    BY <1>0, <1>1 DEF SlicesFinished
  <2>1. fab.at \in Working /\ fab.slice = s
    BY DEF FabHeld, SlicesFinished
  <2> QED
    BY <2>1
<1>4. InWork'
  <2>1. \A s \in DOMAIN slices : slices'[s].nodes = slices[s].nodes
    BY DEF SlicesSame
  <2> QED
    BY <1>0, <1>1, <2>1 DEF InWork, SameFabConf
<1> QED
  BY <1>1, <1>2, <1>3, <1>4 DEF FabHeld

\* The client has nothing in hand then.
LEMMA FabRests ==
  ASSUME FabHeld, SlicesSame,
         fab'.at \in {"idle", "check", "find", "build", "raised", "delete", "destroyed"},
         fab'.slice \in 0..Len(slices), fab'.known \subseteq NodesOf, fab'.todo \subseteq NetworksOf,
         unfinished \subseteq unfinished', unfinished' \subseteq DOMAIN slices, fabCalls' \in 0..MaxFabCalls,
         fab.at \in Working => fab.slice \in unfinished'
  PROVE  FabHeld'
<1>1. fab'.at \in FabSteps /\ fab'.at \notin Working \cup {"roles", "ready"}
  BY DEF FabSteps, Working
<1> QED
  BY <1>1, FabWalks DEF Working

\* What is known of the client before a step.
FabKnown ==
  /\ DOMAIN fab = {"at", "call", "forced", "slice", "known", "todo"}
  /\ fab.at \in FabSteps /\ fab.slice \in 0..Len(slices) /\ fab.known \subseteq NodesOf /\ fab.todo \subseteq NetworksOf
  /\ unfinished \subseteq DOMAIN slices /\ fabCalls \in 0..MaxFabCalls
  /\ fab.at \in Working \cup {"roles", "ready"} => fab.slice \in DOMAIN slices

LEMMA FabKnownIs == ASSUME FabIInv, FabHeld PROVE FabKnown
  BY DEF FabIInv, FabHeld, BuilderTyped, InWork, FabKnown

LEMMA BeginFabHeld ==
  ASSUME FabIInv, FabHeld, NEW what, NEW forced, BeginFab(what, forced) PROVE FabHeld'
<1>1. FabKnown
  BY FabKnownIs
<1>2. SlicesSame
  <2>1. UNCHANGED <<fabConf, allowed, formats, slices>>
    BY DEF BeginFab
  <2> QED
    BY <2>1, SlicesUntouched
<1>3. /\ fab'.at \in {"check", "delete"} /\ fab'.slice = fab.slice /\ fab'.known = fab.known /\ fab'.todo = {}
      /\ fab.at \notin Working /\ UNCHANGED unfinished
  BY <1>1 DEF BeginFab, FabKnown, Working
<1>4. fabCalls' \in 0..MaxFabCalls
  <2>1. MaxFabCalls \in Nat
    BY FabricAssumption
  <2> QED
    BY <1>1, <2>1 DEF BeginFab, FabKnown
<1> QED
  BY <1>1, <1>2, <1>3, <1>4, FabRests DEF FabKnown

LEMMA FindFabHeld ==
  ASSUME FabIInv, FabHeld, Check \/ FindSlice \/ FindFails PROVE FabHeld'
<1>1. FabKnown
  BY FabKnownIs
<1>1a. UNCHANGED <<fabConf, allowed, formats, unfinished, fabCalls>>
  BY DEF Check, FindSlice, FindFails
<1>2. CASE Check \/ FindFails
  <2>1. SlicesSame
    <3>1. UNCHANGED <<fabConf, allowed, formats, slices>>
      BY <1>2 DEF Check, FindFails
    <3> QED
      BY <3>1, SlicesUntouched
  <2>2. /\ fab'.at \in {"find", "raised", "build"} /\ fab'.slice = fab.slice /\ fab'.known = fab.known
        /\ fab'.todo = fab.todo /\ fab.at \notin Working
    BY <1>1, <1>2 DEF Check, FindFails, FabGo, FabKnown, Working
  <2> QED
    BY <1>1, <1>1a, <2>1, <2>2, FabRests DEF FabKnown
<1>3. CASE FindSlice /\ Existing = {}
  <2>1. SlicesSame
    <3>1. UNCHANGED <<fabConf, allowed, formats, slices>>
      BY <1>3 DEF FindSlice
    <3> QED
      BY <3>1, SlicesUntouched
  <2>2. /\ fab'.at = "build" /\ fab'.slice = fab.slice /\ fab'.known = fab.known
        /\ fab'.todo = fab.todo /\ fab.at \notin Working
    BY <1>1, <1>3 DEF FindSlice, FabGo, FabKnown, Working
  <2> QED
    BY <1>1, <1>1a, <2>1, <2>2, FabRests DEF FabKnown
<1>4. CASE FindSlice /\ Existing # {}
  <2> DEFINE s == Max(Existing)
  <2>1. s \in DOMAIN slices
    <3>1. PICK Q : slices \in Seq(SliceSet(Q))
      BY DEF FabIInv
    <3>2. s \in Existing
      BY <1>4, <3>1, LastSlice
    <3> QED
      BY <3>2 DEF Existing
  <2>2. CASE fab.forced
    <3>1. slices' = [slices EXCEPT ![s].status = "deleted"]
      BY <1>4, <2>2 DEF FindSlice, Replaced
    <3> HIDE DEF s
    <3>2. SlicesSame
      BY <1>1a, <2>1, <3>1, StatusEdited
    <3>3. /\ fab'.at = "build" /\ fab'.slice = fab.slice /\ fab'.known = fab.known
          /\ fab'.todo = fab.todo /\ fab.at \notin Working
      BY <1>1, <1>4, <2>2 DEF FindSlice, FabGo, FabKnown, Working
    <3> QED
      BY <1>1, <1>1a, <3>2, <3>3, FabRests DEF FabKnown
  <2>3. CASE ~fab.forced
    <3>1. SlicesSame
      <4>1. UNCHANGED <<fabConf, allowed, formats, slices>>
        BY <1>4, <2>3 DEF FindSlice
      <4> QED
        BY <4>1, SlicesUntouched
    <3>2. /\ fab'.at = "roles" /\ fab'.slice = s /\ fab'.known = slices[s].nodes
          /\ fab'.todo = fab.todo /\ fab.at \notin Working
      BY <1>1, <1>4, <2>3 DEF FindSlice, FabKnown, Working
    <3>3. slices[s].nodes \subseteq NodesOf
      BY <2>1 DEF FabHeld, SlicesTyped
    <3>4. s \in 0..Len(slices)
      <4>1. PICK Q : slices \in Seq(SliceSet(Q))
        BY DEF FabIInv
      <4> QED
        BY <2>1, <4>1
    <3> HIDE DEF s
    <3>5. fab'.at \in FabSteps /\ fab'.at \notin Working
      BY <3>2 DEF FabSteps, Working
    <3> QED
      BY <1>1, <1>1a, <2>1, <3>1, <3>2, <3>3, <3>4, <3>5, FabWalks DEF FabKnown, Working
  <2> QED
    BY <2>2, <2>3
<1> QED
  BY <1>2, <1>3, <1>4

LEMMA SettledFabHeld ==
  ASSUME FabIInv, FabHeld, SliceSettled PROVE FabHeld'
<1>1. FabKnown
  BY FabKnownIs
<1>2. SlicesSame
  <2>1. UNCHANGED <<fabConf, allowed, formats, slices>>
    BY DEF SliceSettled
  <2> QED
    BY <2>1, SlicesUntouched
<1>3. /\ fab.at \in {"submitted", "resubmitted"} /\ fab.at \in Working /\ fab.slice \in DOMAIN slices
      /\ UNCHANGED fabCalls
  BY <1>1 DEF SliceSettled, FabKnown, Working
<1>4. ASSUME slices[fab.slice].status = "ok" PROVE FabHeld'
  <2>1. /\ fab'.at = (IF fab.at = "submitted" THEN "storage" ELSE "configure") /\ fab'.slice = fab.slice
        /\ fab'.known = slices[fab.slice].nodes /\ fab'.todo = NetworksOf /\ UNCHANGED unfinished
    BY <1>1, <1>4 DEF SliceSettled, FabKnown
  <2>2. slices[fab.slice].nodes \subseteq NodesOf
    BY <1>3 DEF FabHeld, SlicesTyped
  <2>3. fab'.at \in Working /\ fab'.at \in FabSteps /\ fab'.at \in {"storage", "configure"}
    BY <2>1 DEF Working, FabSteps
  <2>4. fab'.at = "configure" => fab.slice \in MountedSlices
    BY <1>3, <2>1 DEF FabHeld, InWork
  <2> QED
    BY <1>1, <1>2, <1>3, <2>1, <2>2, <2>3, <2>4, FabWalks DEF FabKnown
<1>5. ASSUME slices[fab.slice].status # "ok" PROVE FabHeld'
  <2>1. /\ fab'.at = "raised" /\ fab'.slice = fab.slice /\ fab'.known = fab.known
        /\ fab'.todo = fab.todo /\ unfinished' = unfinished \cup {fab.slice}
    BY <1>1, <1>5 DEF SliceSettled, FabGo, FabKnown
  <2>2. unfinished \subseteq unfinished' /\ unfinished' \subseteq DOMAIN slices /\ fab.slice \in unfinished'
    BY <1>1, <1>3, <2>1 DEF FabKnown
  <2> QED
    BY <1>1, <1>2, <1>3, <2>1, <2>2, FabRests DEF FabKnown
<1> QED
  BY <1>4, <1>5

LEMMA PublishFabHeld ==
  ASSUME FabIInv, FabHeld, PublishAddresses PROVE FabHeld'
<1>1. FabKnown
  BY FabKnownIs
<1>2. /\ fab.at = "publish" /\ fab.at \in Working /\ fab.slice \in DOMAIN slices
      /\ UNCHANGED <<fabConf, allowed, formats, fabCalls>>
  BY <1>1 DEF PublishAddresses, FabKnown, Working
<1>3. ASSUME slices' = [slices EXCEPT ![fab.slice].status = "configuring"], FabGo("resubmitted"), UNCHANGED unfinished
      PROVE  FabHeld'
  <2>1. SlicesSame
    BY <1>2, <1>3, StatusEdited
  <2>2. /\ fab'.at = "resubmitted" /\ fab'.slice = fab.slice /\ fab'.known = fab.known /\ fab'.todo = fab.todo
    BY <1>1, <1>3 DEF FabGo, FabKnown
  <2>3. fab'.at \in Working /\ fab'.at \in FabSteps
    BY <2>2 DEF Working, FabSteps
  <2>4. fab.slice \in MountedSlices /\ fab.known = slices[fab.slice].nodes
    BY <1>2 DEF FabHeld, InWork
  <2> QED
    BY <1>1, <1>2, <1>3, <2>1, <2>2, <2>3, <2>4, FabWalks DEF FabKnown
<1>4. ASSUME FabGo("raised"), unfinished' = unfinished \cup {fab.slice}, UNCHANGED slices PROVE FabHeld'
  <2>1. SlicesSame
    BY <1>2, <1>4, SlicesUntouched
  <2>2. /\ fab'.at = "raised" /\ fab'.slice = fab.slice /\ fab'.known = fab.known
        /\ fab'.todo = fab.todo
    BY <1>1, <1>4 DEF FabGo, FabKnown
  <2>3. unfinished \subseteq unfinished' /\ unfinished' \subseteq DOMAIN slices /\ fab.slice \in unfinished'
    BY <1>1, <1>2, <1>4 DEF FabKnown
  <2> QED
    BY <1>1, <1>2, <2>1, <2>2, <2>3, FabRests DEF FabKnown
<1> QED
  BY <1>3, <1>4 DEF PublishAddresses

LEMMA LeaveFabHeld ==
  ASSUME FabIInv, FabHeld, SliceGone \/ FabKilled PROVE FabHeld'
<1>1. FabKnown
  BY FabKnownIs
<1>2. SlicesSame /\ UNCHANGED fabCalls
  <2>1. UNCHANGED <<fabConf, allowed, formats, slices, fabCalls>>
    BY DEF SliceGone, FabKilled
  <2> QED
    BY <2>1, SlicesUntouched
<1>3. CASE SliceGone
  <2>1. /\ fab'.at = "raised" /\ fab'.slice = fab.slice /\ fab'.known = fab.known
        /\ fab'.todo = fab.todo /\ unfinished' = unfinished \cup {fab.slice} /\ fab.at \in Working
    BY <1>1, <1>3 DEF SliceGone, FabGo, FabKnown, Working
  <2>2. unfinished \subseteq unfinished' /\ unfinished' \subseteq DOMAIN slices /\ fab.slice \in unfinished'
    BY <1>1, <2>1 DEF FabKnown
  <2> QED
    BY <1>1, <1>2, <2>1, <2>2, FabRests DEF FabKnown
<1>4. CASE FabKilled
  <2>1. /\ fab'.at = "idle" /\ fab'.slice = 0 /\ fab'.known = {} /\ fab'.todo = {}
    BY <1>4 DEF FabKilled, NewFabric
  <2>2. unfinished' = IF fab.at \in Working THEN unfinished \cup {fab.slice} ELSE unfinished
    BY <1>4 DEF FabKilled, Working
  <2>3. unfinished \subseteq unfinished' /\ unfinished' \subseteq DOMAIN slices /\ (fab.at \in Working => fab.slice \in unfinished')
    BY <1>1, <2>2 DEF FabKnown
  <2>4. 0 \in 0..Len(slices)
    BY <1>1 DEF FabKnown
  <2> QED
    BY <1>1, <1>2, <2>1, <2>3, <2>4, FabRests DEF FabKnown
<1> QED
  BY <1>3, <1>4

LEMMA ReturnFabHeld ==
  ASSUME FabIInv, FabHeld, Configured \/ Roles PROVE FabHeld'
<1>1. FabKnown
  BY FabKnownIs
<1>2. SlicesSame /\ UNCHANGED <<fabCalls, unfinished>>
  <2>1. UNCHANGED <<fabConf, allowed, formats, slices, fabCalls, unfinished>>
    BY DEF Configured, Roles
  <2> QED
    BY <2>1, SlicesUntouched
<1>3. CASE Configured
  <2>1. /\ fab.at = "configure" /\ fab.todo = {} /\ fab'.at = "roles" /\ fab'.slice = fab.slice
        /\ fab'.known = fab.known /\ fab'.todo = fab.todo
    BY <1>1, <1>3 DEF Configured, FabGo, FabKnown
  <2>2. fab.slice \in DOMAIN slices
    BY <1>1, <2>1 DEF FabKnown, Working
  <2>3. fab.slice \in FinishedSlices /\ fab.known = slices[fab.slice].nodes
    BY <2>1 DEF FabHeld, InWork, FinishedSlices
  <2>4. fab'.at \in FabSteps /\ fab'.at \notin Working
    BY <2>1 DEF FabSteps, Working
  <2> QED
    BY <1>1, <1>2, <2>1, <2>2, <2>3, <2>4, FabWalks DEF FabKnown, Working
<1>4. CASE Roles
  <2>1. /\ fab.at = "roles" /\ fab'.at = (IF NodesOf \subseteq fab.known THEN "ready" ELSE "raised")
        /\ fab'.slice = fab.slice /\ fab'.known = fab.known /\ fab'.todo = fab.todo
    BY <1>1, <1>4 DEF Roles, FabGo, FabKnown
  <2>2. fab.slice \in DOMAIN slices /\ fab.at \notin Working
    BY <1>1, <2>1 DEF FabKnown, Working
  <2>3. fab.known = slices[fab.slice].nodes
    BY <2>1 DEF FabHeld, InWork
  <2>4. fab'.at \in FabSteps /\ fab'.at \in {"ready", "raised"} /\ (fab'.at = "ready" => NodesOf \subseteq fab'.known)
    BY <2>1 DEF FabSteps
  <2> QED
    BY <1>1, <1>2, <2>1, <2>2, <2>3, <2>4, FabWalks DEF FabKnown, Working
<1> QED
  BY <1>3, <1>4

LEMMA DeleteFabHeld ==
  ASSUME FabIInv, FabHeld, DeleteSlice PROVE FabHeld'
<1>1. FabKnown
  BY FabKnownIs
<1>2. fab.at \notin Working /\ UNCHANGED <<fabConf, allowed, formats, unfinished, fabCalls>>
  BY DEF DeleteSlice, Working
<1>3. /\ fab'.at \in {"raised", "destroyed"} /\ fab'.slice = fab.slice /\ fab'.known = fab.known /\ fab'.todo = fab.todo
  BY <1>1 DEF DeleteSlice, FabGo, FabKnown
<1>4. SlicesSame
  <2>1. CASE Existing = {}
    <3>1. UNCHANGED slices
      BY <2>1 DEF DeleteSlice
    <3> QED
      BY <1>2, <3>1, SlicesUntouched
  <2>2. CASE Existing # {}
    <3> DEFINE s == Max(Existing)
    <3>1. s \in DOMAIN slices
      <4>1. PICK Q : slices \in Seq(SliceSet(Q))
        BY DEF FabIInv
      <4>2. s \in Existing
        BY <2>2, <4>1, LastSlice
      <4> QED
        BY <4>2 DEF Existing
    <3>2. slices' = [slices EXCEPT ![s].status = "deleted"]
      BY <2>2 DEF DeleteSlice
    <3> HIDE DEF s
    <3> QED
      BY <1>2, <3>1, <3>2, StatusEdited
  <2> QED
    BY <2>1, <2>2
<1> QED
  BY <1>1, <1>2, <1>3, <1>4, FabRests DEF FabKnown

LEMMA MovesFabHeld ==
  ASSUME FabIInv, FabHeld, NEW s \in DOMAIN slices, SliceMoves(s) PROVE FabHeld'
<1>1. FabKnown
  BY FabKnownIs
<1>2. UNCHANGED <<fabConf, allowed, formats, fab, unfinished, fabCalls>>
  BY DEF SliceMoves
<1>3. PICK status \in {"configuring", "ok", "error", "deleted"} : slices' = [slices EXCEPT ![s].status = status]
  BY DEF SliceMoves, Replaced
<1>4. SlicesSame
  BY <1>2, <1>3, StatusEdited
<1>5. /\ fab.at \in {"storage", "publish"} => fab.todo = NetworksOf
      /\ fab.at \in {"publish", "resubmitted", "configure"} => fab.slice \in MountedSlices
      /\ fab.at = "configure" => \A n \in NetworksOf \ fab.todo : fab.slice \in AddressedOn(n)
      /\ fab.at \in {"storage", "publish", "resubmitted", "configure", "roles", "ready"} =>
            fab.known = slices[fab.slice].nodes /\ fab.slice \in DOMAIN slices
      /\ fab.at = "ready" => NodesOf \subseteq fab.known
  BY DEF FabHeld, InWork, Working
<1>6. fab' = fab /\ unfinished' = unfinished /\ fabCalls' = fabCalls
  BY <1>2
<1>7. \/ fab.at \notin Working \/ fab.slice \in unfinished' \/ fab.slice \in FinishedSlices
      \/ fab'.at \in Working /\ fab'.slice = fab.slice
  BY <1>6
<1> HIDE DEF FabKnown
<1> QED
  BY <1>1, <1>4, <1>5, <1>6, <1>7, FabWalks DEF FabKnown

\* A slice that is not rewritten is what it was.
LEMMA SliceKept ==
  ASSUME UNCHANGED fabConf, DOMAIN slices \subseteq DOMAIN slices', NEW s \in DOMAIN slices, slices'[s] = slices[s]
  PROVE  /\ s \in BuiltSlices => s \in BuiltSlices'
         /\ s \in FinishedSlices => s \in FinishedSlices'
<1>0. SameFabConf /\ s \in DOMAIN slices'
  BY FabConfStays
<1>1. Wired(slices[s]) => Wired(slices[s])'
  BY <1>0 DEF Wired, SameFabConf
<1>2. Equipped(slices[s]) => Equipped(slices[s])'
  BY <1>0 DEF Equipped, SameFabConf
<1>3. s \in MountedSlices => s \in MountedSlices'
  BY <1>0 DEF MountedSlices, SameFabConf
<1>4. \A n : s \in AddressedOn(n) => s \in AddressedOn(n)'
  BY <1>0 DEF AddressedOn, SameFabConf
<1> QED
  BY <1>0, <1>1, <1>2, <1>3, <1>4 DEF BuiltSlices, FinishedSlices, SameFabConf

\* The interfaces that are added.
LEMMA JoinedTyped ==
  ASSUME fabConf \in FabConfs, NEW f \in Joined(NodesOf)
  PROVE  /\ f \in IfaceFields /\ f.net \in Offered(f.node)
         /\ f = [node |-> f.node, card |-> CardOf(f.node, f.net), port |-> PortOf(f.node, f.net), net |-> f.net,
                 address |-> 0]
<1>1. PICK node \in NodesOf : \E n \in NetworksAt(NodeSite(node)) :
         f = [node |-> node, card |-> CardOf(node, n), port |-> PortOf(node, n), net |-> n, address |-> 0]
  BY DEF Joined
<1>2. PICK n \in NetworksAt(NodeSite(node)) :
         f = [node |-> node, card |-> CardOf(node, n), port |-> PortOf(node, n), net |-> n, address |-> 0]
  BY <1>1
<1>3. n \in NetworksOf /\ Net(n).model \in DOMAIN PortsOf /\ PortsOf[Net(n).model] \in Nat \ {0}
  BY FabShape
<1> DEFINE p == PortsOf[Net(n).model]
           a == Rank(node, n)
<1>4. a \in Nat /\ p \in Nat \ {0}
  BY <1>3, RankType
<1> HIDE DEF a, p
<1>5. a % p \in 0..(p - 1) /\ a \div p \in Nat
  BY <1>4, Division
<1>6. p - (a % p) \in Nat
  BY <1>4, <1>5
<1>7. CardOf(node, n) \in CardNames /\ PortOf(node, n) \in Nat
  BY <1>3, <1>5, <1>6 DEF CardOf, PortOf, CardNames, a, p
<1>8. f \in IfaceFields
  BY <1>2, <1>3, <1>7 DEF IfaceFields
<1>9. f.node = node /\ f.net = n
  BY <1>2
<1> QED
  BY <1>2, <1>8, <1>9 DEF Offered

LEMMA NodesFinite == ASSUME fabConf \in FabConfs PROVE IsFiniteSet(NodesOf)
<1> DEFINE at(i) == {i} \X (1..fabConf.machines[i].number)
           F == {at(i) : i \in FabMachines}
           place == [i \in FabMachines |-> at(i)]
<1>1. NodesOf = UNION F
  BY DEF NodesOf
<1>2. Len(fabConf.machines) \in Nat /\ FabMachines = 1..Len(fabConf.machines)
      /\ \A i \in FabMachines : fabConf.machines[i].number \in Nat
  BY FabricAssumption DEF FabMachines
<1>3. IsFiniteSet(FabMachines)
  <2>1. 1 \in Int /\ Len(fabConf.machines) \in Int
    BY <1>2
  <2> QED
    BY <1>2, <2>1, FS_Interval
<1>4. place \in Surjection(FabMachines, F)
  BY DEF Surjection
<1>5. ASSUME NEW i \in FabMachines PROVE IsFiniteSet(at(i))
  <2>1. 1 \in Int /\ fabConf.machines[i].number \in Int
    BY <1>2
  <2>2. IsFiniteSet(1..fabConf.machines[i].number)
    BY <2>1, FS_Interval
  <2>3. IsFiniteSet({i})
    BY FS_Singleton
  <2> QED
    BY <2>2, <2>3, FS_Product
<1> HIDE DEF at, place
<1>6. \A T \in F : IsFiniteSet(T)
  BY <1>5
<1> HIDE DEF F
<1>7. IsFiniteSet(F)
  BY <1>3, <1>4, FS_Surjection
<1> QED
  BY <1>1, <1>6, <1>7, FS_UNION

LEMMA MembersFinite ==
  ASSUME fabConf \in FabConfs, NEW slice, slice.nodes \subseteq NodesOf, Wired(slice), NEW n
  PROVE  IsFiniteSet({f \in slice.ifaces : f.net = n})
<1> DEFINE S == {f \in slice.ifaces : f.net = n}
           where == [f \in S |-> f.node]
<1>1. \A f \in S : f.node \in NodesOf
  BY DEF Wired
<1>2. \A f, g \in S : f.node = g.node => f = g
  BY DEF Wired
<1>3. where \in [S -> NodesOf] /\ \A f, g \in S : where[f] = where[g] => f = g
  BY <1>1, <1>2
<1> HIDE DEF S, where
<1>4. where \in Injection(S, NodesOf)
  BY <1>3 DEF Injection, IsInjective
<1>5. IsFiniteSet(S)
  BY <1>4, NodesFinite, FS_Injection
<1> QED
  BY <1>5 DEF S

LEMMA SubmitFabHeld ==
  ASSUME FabIInv, FabHeld, SubmitSlice PROVE FabHeld'
<1> DEFINE added == NodesOf \ fab.known
           slice == [status |-> "configuring", nodes |-> added,
                     ifaces |-> {f \in Joined(NodesOf) : f.node \in added},
                     components |-> UNION {ComponentsOf(node) \cup AttachedTo(node) : node \in added},
                     mounts |-> {}]
<1>1. FabKnown
  BY FabKnownIs
<1>2. fab.at = "build" /\ fab.at \notin Working /\ UNCHANGED <<fabConf, allowed, formats, fabCalls>>
  BY DEF SubmitSlice, Working
<1>3. ASSUME fab' = [fab EXCEPT !.at = "raised", !.known = NodesOf], UNCHANGED <<slices, uncertain, unfinished>>
      PROVE  FabHeld'
  <2>1. SlicesSame
    BY <1>2, <1>3, SlicesUntouched
  <2>2. fab'.at = "raised" /\ fab'.slice = fab.slice /\ fab'.known = NodesOf /\ fab'.todo = fab.todo
    BY <1>1, <1>3 DEF FabKnown
  <2> QED
    BY <1>1, <1>2, <1>3, <2>1, <2>2, FabRests DEF FabKnown
<1>4. ASSUME Len(slices) < MaxSlices, slices' = Append(slices, slice),
             \/ /\ fab' = [fab EXCEPT !.at = "submitted", !.slice = Len(slices'), !.known = NodesOf]
                /\ UNCHANGED <<uncertain, unfinished>>
             \/ /\ fab' = [fab EXCEPT !.at = "raised", !.known = NodesOf]
                /\ uncertain' = TRUE /\ unfinished' = unfinished \cup {Len(slices')}
      PROVE  FabHeld'
  <2> DEFINE new == Len(slices) + 1
  <2>1. /\ new \in Nat \ {0} /\ Len(slices') = new /\ Len(slices) \in Nat /\ DOMAIN slices = 1..Len(slices)
        /\ DOMAIN slices' = DOMAIN slices \cup {new} /\ new \notin DOMAIN slices /\ slices'[new] = slice
        /\ \A s \in DOMAIN slices : slices'[s] = slices[s]
    <3> HIDE DEF slice
    <3>1. PICK Q : slices \in Seq(SliceSet(Q))
      BY DEF FabIInv
    <3> QED
      BY <1>4, <3>1
  <2>2. /\ slice.status = "configuring" /\ slice.nodes = added /\ slice.mounts = {}
        /\ slice.ifaces = {f \in Joined(NodesOf) : f.node \in added}
        /\ slice.components = UNION {ComponentsOf(node) \cup AttachedTo(node) : node \in added}
    OBVIOUS
  <2> HIDE DEF slice, new
  <2>3. fabConf \in FabConfs /\ SameFabConf /\ MaxSlices \in Nat
    BY <1>2, FabConfStays, FabricAssumption DEF FabHeld, SlicesTyped
  <2>4. added \subseteq NodesOf /\ slice.ifaces \subseteq IfaceFields
    BY <2>2, <2>3, JoinedTyped
  <2>5. Wired(slice)
    <3>1. ASSUME NEW f \in slice.ifaces
          PROVE  /\ f.node \in slice.nodes /\ f.net \in Offered(f.node)
                 /\ f.card = CardOf(f.node, f.net) /\ f.port = PortOf(f.node, f.net)
                 /\ f = [node |-> f.node, card |-> CardOf(f.node, f.net), port |-> PortOf(f.node, f.net),
                         net |-> f.net, address |-> 0]
      <4>1. f \in Joined(NodesOf) /\ f.node \in added
        BY <2>2
      <4>2. /\ f.net \in Offered(f.node)
            /\ f = [node |-> f.node, card |-> CardOf(f.node, f.net), port |-> PortOf(f.node, f.net),
                    net |-> f.net, address |-> 0]
        BY <2>3, <4>1, JoinedTyped
      <4>3. f.card = CardOf(f.node, f.net) /\ f.port = PortOf(f.node, f.net)
        BY <4>2
      <4> QED
        BY <2>2, <4>1, <4>2, <4>3
    <3>2. ASSUME NEW node \in slice.nodes, NEW n \in Offered(node)
          PROVE  \E f \in slice.ifaces : f.node = node /\ f.net = n
      <4> DEFINE f == [node |-> node, card |-> CardOf(node, n), port |-> PortOf(node, n), net |-> n, address |-> 0]
      <4>1. node \in NodesOf /\ node \in added
        BY <2>2
      <4>2. f \in Joined(NodesOf)
        BY <4>1 DEF Joined, Offered
      <4>3. f.node = node /\ f.net = n
        OBVIOUS
      <4> HIDE DEF f
      <4> QED
        BY <2>2, <4>1, <4>2, <4>3
    <3>3. \A f, g \in slice.ifaces : f.node = g.node /\ f.net = g.net => f = g
      <4> SUFFICES ASSUME NEW f \in slice.ifaces, NEW g \in slice.ifaces, f.node = g.node, f.net = g.net PROVE f = g
        OBVIOUS
      <4>1. CardOf(f.node, f.net) = CardOf(g.node, g.net) /\ PortOf(f.node, f.net) = PortOf(g.node, g.net)
        OBVIOUS
      <4> QED
        BY <3>1, <4>1
    <3> QED
      BY <3>1, <3>2, <3>3 DEF Wired
  <2>6. new \in BuiltSlices'
    <3> SUFFICES ASSUME NEW s, s = new PROVE s \in BuiltSlices'
      OBVIOUS
    <3>1. Wired(slices[s])'
      BY <2>1, <2>3, <2>5 DEF Wired, SameFabConf
    <3>2. Equipped(slices[s])'
      BY <2>1, <2>2, <2>3 DEF Equipped, SameFabConf
    <3>3. s \in DOMAIN slices'
      BY <2>1
    <3> QED
      BY <3>1, <3>2, <3>3 DEF BuiltSlices
  <2>7. DOMAIN slices' \subseteq BuiltSlices'
    <3>1. ASSUME NEW s \in DOMAIN slices PROVE s \in BuiltSlices'
      <4>1. s \in BuiltSlices
        BY DEF FabHeld
      <4> QED
        BY <1>2, <2>1, <4>1, SliceKept
    <3> QED
      BY <2>1, <2>6, <3>1
  <2>8. ASSUME NEW s \in DOMAIN slices, s \notin unfinished PROVE s \in FinishedSlices'
    <3>1. s \in FinishedSlices
      BY <1>2, <2>8 DEF FabHeld, SlicesFinished
    <3> QED
      BY <1>2, <2>1, <3>1, SliceKept
  <2>9. SlicesTyped'
    <3>0. SlicesTyped
      BY DEF FabHeld
    <3>1. Volumes(fabConf)' = Volumes(fabConf)
      BY <1>2 DEF Volumes
    <3>2. ASSUME NEW s \in DOMAIN slices'
          PROVE  /\ slices'[s].status \in {"configuring", "ok", "error", "deleted"}
                 /\ slices'[s].nodes \subseteq NodesOf
                 /\ slices'[s].ifaces \subseteq IfaceFields
                 /\ \A m \in slices'[s].mounts : m.node \in NodesOf
      <4>1. CASE s = new
        BY <2>1, <2>2, <2>4, <4>1
      <4>2. CASE s \in DOMAIN slices
        <5>1. slices'[s] = slices[s]
          BY <2>1, <4>2
        <5> QED
          BY <3>0, <4>2, <5>1 DEF SlicesTyped
      <4> QED
        BY <2>1, <4>1, <4>2
    <3>3. Len(slices') <= MaxSlices
      BY <1>4, <2>1, <2>3 DEF new
    <3>4. slices' # <<>>
      BY <2>1
    <3> QED
      BY <1>2, <2>3, <3>0, <3>1, <3>2, <3>3, <3>4 DEF SlicesTyped, SameFabConf
  <2>10. CASE fab' = [fab EXCEPT !.at = "submitted", !.slice = Len(slices'), !.known = NodesOf] /\ UNCHANGED unfinished
    <3>1. fab'.at = "submitted" /\ fab'.slice = new /\ fab'.known = NodesOf /\ fab'.todo = fab.todo
      BY <1>1, <2>1, <2>10 DEF FabKnown
    <3>2. BuilderTyped'
      <4>1. fab'.slice \in 0..Len(slices')
        BY <2>1, <3>1
      <4> QED
        BY <1>1, <1>2, <2>1, <2>3, <2>10, <3>1, <4>1 DEF BuilderTyped, FabKnown, FabSteps, SameFabConf
    <3>3. SlicesFinished'
      BY <2>1, <2>8, <2>10, <3>1 DEF SlicesFinished, Working
    <3>4. InWork'
      BY <2>1, <3>1 DEF InWork
    <3> QED
      BY <2>7, <2>9, <3>2, <3>3, <3>4 DEF FabHeld
  <2>11. CASE fab' = [fab EXCEPT !.at = "raised", !.known = NodesOf] /\ unfinished' = unfinished \cup {Len(slices')}
    <3>1. fab'.at = "raised" /\ fab'.slice = fab.slice /\ fab'.known = NodesOf /\ fab'.todo = fab.todo
          /\ unfinished' = unfinished \cup {new}
      BY <1>1, <2>1, <2>11 DEF FabKnown
    <3>2. BuilderTyped'
      <4>1. fab'.slice \in 0..Len(slices')
        BY <1>1, <2>1, <3>1 DEF FabKnown, new
      <4> QED
        BY <1>1, <1>2, <2>1, <2>3, <3>1, <4>1 DEF BuilderTyped, FabKnown, FabSteps, SameFabConf
    <3>3. SlicesFinished'
      BY <2>1, <2>8, <3>1 DEF SlicesFinished
    <3>4. InWork'
      BY <3>1 DEF InWork, Working
    <3> QED
      BY <2>7, <2>9, <3>2, <3>3, <3>4 DEF FabHeld
  <2> QED
    BY <1>4, <2>10, <2>11
<1> QED
  BY <1>3, <1>4 DEF SubmitSlice

\* A slice that is rewritten, with the interfaces of its networks and its components.
LEMMA OneSliceHeld ==
  ASSUME FabHeld, UNCHANGED <<fabConf, allowed>>, NEW s \in DOMAIN slices,
         DOMAIN slices' = DOMAIN slices, Len(slices') = Len(slices), slices' # <<>>,
         \A t \in DOMAIN slices : t # s => slices'[t] = slices[t],
         slices'[s].status = slices[s].status, slices'[s].nodes = slices[s].nodes,
         slices'[s].components = slices[s].components, slices'[s].ifaces \subseteq IfaceFields,
         \A m \in slices'[s].mounts : m.node \in NodesOf,
         formats' \in [Volumes(fabConf) -> 0..1], Wired(slices'[s])
  PROVE  /\ SlicesTyped' /\ DOMAIN slices' \subseteq BuiltSlices'
         /\ \A t \in FinishedSlices : t # s => t \in FinishedSlices'
<1>0. SameFabConf /\ Volumes(fabConf)' = Volumes(fabConf)
  BY FabConfStays DEF Volumes
<1>1. SlicesTyped'
  <2>0. SlicesTyped
    BY DEF FabHeld
  <2>1. ASSUME NEW t \in DOMAIN slices'
        PROVE  /\ slices'[t].status \in {"configuring", "ok", "error", "deleted"}
               /\ slices'[t].nodes \subseteq NodesOf
               /\ slices'[t].ifaces \subseteq IfaceFields
               /\ \A m \in slices'[t].mounts : m.node \in NodesOf
    <3>1. t = s \/ slices'[t] = slices[t]
      OBVIOUS
    <3> QED
      BY <2>0, <3>1 DEF SlicesTyped
  <2> QED
    BY <1>0, <2>0, <2>1 DEF SlicesTyped, SameFabConf
<1>2. s \in BuiltSlices'
  <2>1. Wired(slices[s])'
    BY <1>0 DEF Wired, SameFabConf
  <2>2. Equipped(slices[s])
    BY DEF FabHeld, BuiltSlices
  <2>3. Equipped(slices[s])'
    BY <1>0, <2>2 DEF Equipped, SameFabConf
  <2> QED
    BY <2>1, <2>3 DEF BuiltSlices
<1>3. ASSUME NEW t \in DOMAIN slices, t # s
      PROVE  t \in BuiltSlices' /\ (t \in FinishedSlices => t \in FinishedSlices')
  <2>1. t \in BuiltSlices
    BY DEF FabHeld
  <2> QED
    BY <1>3, <2>1, SliceKept
<1>4. FinishedSlices \subseteq DOMAIN slices
  BY DEF FinishedSlices, MountedSlices
<1> QED
  BY <1>1, <1>2, <1>3, <1>4

LEMMA StorageFabHeld ==
  ASSUME FabIInv, FabHeld, ConfigureStorage PROVE FabHeld'
<1> DEFINE s == fab.slice
<1>1. FabKnown
  BY FabKnownIs
<1>2. /\ fab.at = "storage" /\ s \in DOMAIN slices /\ UNCHANGED <<fabConf, allowed, fabCalls>>
      /\ fab.known = slices[s].nodes /\ fab.todo = NetworksOf /\ fabConf \in FabConfs
  BY <1>1 DEF ConfigureStorage, FabKnown, Working, FabHeld, InWork, SlicesTyped
<1>3. ASSUME NEW D \in SUBSET ToMount, NEW V, slices' = [slices EXCEPT ![s].mounts = {Mount(place) : place \in D}],
             formats' = Formatted(V)
      PROVE  /\ SlicesTyped' /\ DOMAIN slices' \subseteq BuiltSlices'
             /\ \A t \in FinishedSlices : t # s => t \in FinishedSlices'
             /\ DOMAIN slices' = DOMAIN slices /\ Len(slices') = Len(slices) /\ slices'[s].nodes = slices[s].nodes
             /\ D = ToMount => s \in MountedSlices'
  <2> DEFINE M == {Mount(place) : place \in D}
  <2>1. /\ DOMAIN slices' = DOMAIN slices /\ Len(slices') = Len(slices) /\ slices' # <<>>
        /\ \A t \in DOMAIN slices : t # s => slices'[t] = slices[t]
        /\ slices'[s].status = slices[s].status /\ slices'[s].nodes = slices[s].nodes
        /\ slices'[s].components = slices[s].components /\ slices'[s].ifaces = slices[s].ifaces
        /\ slices'[s].mounts = M
    <3> HIDE DEF M
    <3>1. PICK Q : slices \in Seq(SliceSet(Q))
      BY DEF FabIInv
    <3>2. slices[s] \in SliceSet(Q)
      BY <1>2, <3>1
    <3>3. slices' = [slices EXCEPT ![s] = [slices[s] EXCEPT !.mounts = M]]
      BY <1>3 DEF M
    <3>4. /\ [slices[s] EXCEPT !.mounts = M].status = slices[s].status
          /\ [slices[s] EXCEPT !.mounts = M].nodes = slices[s].nodes
          /\ [slices[s] EXCEPT !.mounts = M].components = slices[s].components
          /\ [slices[s] EXCEPT !.mounts = M].ifaces = slices[s].ifaces
          /\ [slices[s] EXCEPT !.mounts = M].mounts = M
      BY <3>2 DEF SliceSet
    <3>5. /\ DOMAIN slices' = DOMAIN slices /\ Len(slices') = Len(slices) /\ slices' # <<>>
          /\ \A t \in DOMAIN slices : t # s => slices'[t] = slices[t]
          /\ slices'[s] = [slices[s] EXCEPT !.mounts = M]
      BY <1>2, <3>1, <3>3
    <3> QED
      BY <3>4, <3>5
  <2>2. \A m \in M : m.node \in NodesOf
    <3> SUFFICES ASSUME NEW place \in D PROVE Mount(place).node \in NodesOf
      OBVIOUS
    <3>1. place \in ToMount
      OBVIOUS
    <3>2. Mount(place).node = place[1] /\ place[1] \in NodesOf
      BY <1>2, <3>1, MountsFound, PlaceIs
    <3> QED
      BY <3>2
  <2>3. formats' \in [Volumes(fabConf) -> 0..1]
    <3>1. formats \in [Volumes(fabConf) -> 0..1]
      BY DEF FabHeld, SlicesTyped
    <3> QED
      BY <1>3, <3>1 DEF Formatted
  <2>4. slices'[s].ifaces \subseteq IfaceFields /\ Wired(slices[s])
    BY <1>2, <2>1 DEF FabHeld, SlicesTyped, BuiltSlices
  <2>5. Wired(slices'[s])
    BY <2>1, <2>4 DEF Wired
  <2>6. D = ToMount => s \in MountedSlices'
    BY <1>2, <2>1, FabConfStays DEF MountedSlices, SameFabConf
  <2> HIDE DEF M, s
  <2>7. /\ SlicesTyped' /\ DOMAIN slices' \subseteq BuiltSlices'
        /\ \A t \in FinishedSlices : t # s => t \in FinishedSlices'
    BY <1>2, <2>1, <2>2, <2>3, <2>4, <2>5, OneSliceHeld
  <2> QED
    BY <2>1, <2>6, <2>7
<1>4. CASE /\ slices' = [slices EXCEPT ![fab.slice].mounts = {Mount(place) : place \in ToMount}]
           /\ formats' = Formatted({Mount(place).model : place \in ToMount})
           /\ FabGo(IF HasPublic THEN "publish" ELSE "configure") /\ UNCHANGED unfinished
  <2>1. /\ SlicesTyped' /\ DOMAIN slices' \subseteq BuiltSlices'
        /\ \A t \in FinishedSlices : t # s => t \in FinishedSlices'
        /\ DOMAIN slices' = DOMAIN slices /\ Len(slices') = Len(slices) /\ slices'[s].nodes = slices[s].nodes
        /\ s \in MountedSlices'
    BY <1>3, <1>4
  <2>2. /\ fab'.at \in {"publish", "configure"} /\ fab'.slice = s /\ fab'.known = fab.known /\ fab'.todo = NetworksOf
        /\ fab'.at \in FabSteps
    BY <1>1, <1>2, <1>4 DEF FabGo, FabKnown, FabSteps
  <2>3. SameFabConf
    BY <1>2, FabConfStays
  <2>4. BuilderTyped'
    BY <1>1, <1>2, <1>4, <2>1, <2>2, <2>3 DEF BuilderTyped, FabKnown, SameFabConf
  <2>5. SlicesFinished'
    <3> SUFFICES ASSUME NEW t \in DOMAIN slices, t \notin unfinished, t # s PROVE t \in FinishedSlices'
      BY <1>4, <2>1, <2>2 DEF SlicesFinished, Working
    <3>1. t \in FinishedSlices
      BY DEF FabHeld, SlicesFinished
    <3> QED
      BY <2>1, <3>1
  <2>6. InWork'
    BY <1>2, <2>1, <2>2, <2>3 DEF InWork, SameFabConf
  <2> QED
    BY <2>1, <2>4, <2>5, <2>6 DEF FabHeld
<1>5. ASSUME NEW D \in SUBSET ToMount, NEW V, slices' = [slices EXCEPT ![s].mounts = {Mount(place) : place \in D}],
             formats' = Formatted(V), FabGo("raised"), unfinished' = unfinished \cup {s}
      PROVE  FabHeld'
  <2>1. /\ SlicesTyped' /\ DOMAIN slices' \subseteq BuiltSlices'
        /\ \A t \in FinishedSlices : t # s => t \in FinishedSlices'
        /\ DOMAIN slices' = DOMAIN slices /\ Len(slices') = Len(slices)
    BY <1>3, <1>5
  <2>2. /\ fab'.at = "raised" /\ fab'.slice = s /\ fab'.known = fab.known /\ fab'.todo = NetworksOf
    BY <1>1, <1>2, <1>5 DEF FabGo, FabKnown
  <2>3. SameFabConf
    BY <1>2, FabConfStays
  <2>4. BuilderTyped'
    BY <1>1, <1>2, <1>5, <2>1, <2>2, <2>3 DEF BuilderTyped, FabKnown, SameFabConf, FabSteps
  <2>5. SlicesFinished'
    <3> SUFFICES ASSUME NEW t \in DOMAIN slices, t \notin unfinished, t # s PROVE t \in FinishedSlices'
      BY <1>5, <2>1 DEF SlicesFinished
    <3>1. t \in FinishedSlices
      BY DEF FabHeld, SlicesFinished
    <3> QED
      BY <2>1, <3>1
  <2>6. InWork'
    BY <2>2 DEF InWork, Working
  <2> QED
    BY <2>1, <2>4, <2>5, <2>6 DEF FabHeld
<1>6. ASSUME NEW failed \in ToMount,
             LET done == {place \in ToMount : Before(place, failed)}
             IN  /\ slices' = [slices EXCEPT ![fab.slice].mounts = {Mount(place) : place \in done}]
                 /\ \E reached \in {done, done \cup {failed}} :
                       formats' = Formatted({Mount(place).model : place \in reached})
                 /\ FabGo("raised") /\ unfinished' = unfinished \cup {fab.slice}
      PROVE  FabHeld'
  <2> DEFINE D == {place \in ToMount : Before(place, failed)}
  <2>1. D \in SUBSET ToMount
    OBVIOUS
  <2>2. /\ slices' = [slices EXCEPT ![s].mounts = {Mount(place) : place \in D}]
        /\ FabGo("raised") /\ unfinished' = unfinished \cup {s}
    BY <1>6
  <2>3. PICK reached \in {D, D \cup {failed}} : formats' = Formatted({Mount(place).model : place \in reached})
    BY <1>6
  <2> HIDE DEF D
  <2> QED
    BY <1>5, <2>1, <2>2, <2>3
<1> QED
  BY <1>4, <1>6 DEF ConfigureStorage

\* Addresses are given to the first interfaces of a network, in an order of these.
Readdressed(order, first, upto) == {[order[k] EXCEPT !.address = first + k - 1] : k \in 1..upto}
Chosen(order, upto) == {order[k] : k \in 1..upto}

GivenTo(slice, new, n, order, c, upto) ==
  /\ slice.ifaces \subseteq IfaceFields /\ Wired(slice) /\ n \in NetworksOf /\ c \in Nat
  /\ order \in [1..c -> {f \in slice.ifaces : f.net = n}]
  /\ \A i, j \in 1..c : order[i] = order[j] => i = j
  /\ \A f \in slice.ifaces : f.net = n => \E i \in 1..c : order[i] = f
  /\ upto \in 0..c /\ new.nodes = slice.nodes
  /\ new.ifaces = (slice.ifaces \ Chosen(order, upto)) \cup Readdressed(order, FirstAddress(n), upto)

LEMMA AddressesGiven ==
  ASSUME NEW slice, NEW new, NEW n, NEW order, NEW c, NEW upto, GivenTo(slice, new, n, order, c, upto)
  PROVE  /\ new.ifaces \subseteq IfaceFields /\ Wired(new)
         /\ \A f \in new.ifaces : f.net # n => f \in slice.ifaces
         /\ upto = c => \A f \in new.ifaces : f.net = n =>
               /\ f.address >= FirstAddress(n)
               /\ \A g \in new.ifaces : g.net = n /\ g.address = f.address => f = g
<1>0. /\ slice.ifaces \subseteq IfaceFields /\ Wired(slice) /\ n \in NetworksOf /\ c \in Nat
      /\ order \in [1..c -> {f \in slice.ifaces : f.net = n}]
      /\ \A i, j \in 1..c : order[i] = order[j] => i = j
      /\ \A f \in slice.ifaces : f.net = n => \E i \in 1..c : order[i] = f
      /\ upto \in 0..c /\ new.nodes = slice.nodes
      /\ new.ifaces = (slice.ifaces \ Chosen(order, upto)) \cup Readdressed(order, FirstAddress(n), upto)
  BY DEF GivenTo
<1> USE <1>0
<1> DEFINE first == FirstAddress(n)
           given(k) == [order[k] EXCEPT !.address = first + k - 1]
           Untouched(f) == f \in slice.ifaces /\ \A k \in 1..upto : order[k] # f
<1>1. first \in Nat
  BY DEF FirstAddress
<1>2. 1..upto \subseteq 1..c /\ \A k \in 1..c : order[k] \in slice.ifaces /\ order[k].net = n /\ k \in Nat /\ k >= 1
  OBVIOUS
<1> HIDE DEF first
<1>3. ASSUME NEW k \in 1..upto
      PROVE  /\ given(k) \in IfaceFields /\ given(k).node = order[k].node /\ given(k).card = order[k].card
             /\ given(k).port = order[k].port /\ given(k).net = n /\ given(k).address = first + k - 1
  <2>1. order[k] \in IfaceFields /\ order[k].net = n
    BY <1>2
  <2>2. first + k - 1 \in Nat
    BY <1>1, <1>2
  <2> DEFINE a == first + k - 1
  <2> HIDE DEF a
  <2>3. LET g == [order[k] EXCEPT !.address = a]
        IN  /\ g \in IfaceFields /\ g.node = order[k].node /\ g.card = order[k].card
            /\ g.port = order[k].port /\ g.net = order[k].net /\ g.address = a
    BY <2>1, <2>2 DEF IfaceFields, a
  <2> QED
    BY <2>1, <2>3 DEF a
<1>4. new.ifaces = (slice.ifaces \ {order[k] : k \in 1..upto}) \cup {given(k) : k \in 1..upto}
  BY DEF first, Chosen, Readdressed
<1> HIDE DEF given
<1>5. ASSUME NEW f \in new.ifaces PROVE Untouched(f) \/ \E k \in 1..upto : f = given(k)
  BY <1>4
<1>6. ASSUME NEW f, Untouched(f) \/ \E k \in 1..upto : f = given(k) PROVE f \in new.ifaces
  BY <1>4, <1>6
<1>7. new.ifaces \subseteq IfaceFields
  BY <1>3, <1>5
<1>8. ASSUME NEW f \in new.ifaces, f.net # n PROVE f \in slice.ifaces
  BY <1>3, <1>5, <1>8
<1>9. Wired(new)
  <2>1. ASSUME NEW f \in new.ifaces
        PROVE  /\ f.node \in new.nodes /\ f.net \in Offered(f.node)
               /\ f.card = CardOf(f.node, f.net) /\ f.port = PortOf(f.node, f.net)
    <3>1. CASE Untouched(f)
      BY <3>1 DEF Wired
    <3>2. ASSUME NEW k \in 1..upto, f = given(k)
          PROVE  /\ f.node \in new.nodes /\ f.net \in Offered(f.node)
                 /\ f.card = CardOf(f.node, f.net) /\ f.port = PortOf(f.node, f.net)
      <4>1. f.node = order[k].node /\ f.card = order[k].card /\ f.port = order[k].port /\ f.net = order[k].net
        BY <1>2, <1>3, <3>2
      <4>2. order[k] \in slice.ifaces
        BY <1>2
      <4> QED
        BY <4>1, <4>2 DEF Wired
    <3> QED
      BY <1>5, <3>1, <3>2
  <2>2. ASSUME NEW node \in new.nodes, NEW m \in Offered(node)
        PROVE  \E f \in new.ifaces : f.node = node /\ f.net = m
    <3>1. PICK f \in slice.ifaces : f.node = node /\ f.net = m
      BY DEF Wired
    <3>2. CASE Untouched(f)
      BY <1>6, <3>1, <3>2
    <3>3. ASSUME NEW k \in 1..upto, order[k] = f
          PROVE  given(k) \in new.ifaces /\ given(k).node = node /\ given(k).net = m
      BY <1>2, <1>3, <1>6, <3>1, <3>3
    <3> QED
      BY <3>2, <3>3
  <2>3. ASSUME NEW f \in new.ifaces, NEW g \in new.ifaces, f.node = g.node, f.net = g.net PROVE f = g
    <3>1. CASE Untouched(f) /\ Untouched(g)
      BY <2>3, <3>1 DEF Wired
    <3>2. ASSUME NEW x, NEW k \in 1..upto, Untouched(x), x.node = given(k).node, x.net = given(k).net PROVE FALSE
      <4>1. x.node = order[k].node /\ x.net = order[k].net /\ order[k] \in slice.ifaces
        BY <1>2, <1>3, <3>2
      <4>2. x = order[k]
        BY <3>2, <4>1 DEF Wired
      <4> QED
        BY <3>2, <4>2
    <3>3. ASSUME NEW k \in 1..upto, NEW l \in 1..upto, f = given(k), g = given(l) PROVE f = g
      <4>1. order[k].node = order[l].node /\ order[k].net = order[l].net
            /\ order[k] \in slice.ifaces /\ order[l] \in slice.ifaces
        BY <1>2, <1>3, <2>3, <3>3
      <4>2. order[k] = order[l]
        BY <4>1 DEF Wired
      <4>3. k = l
        BY <1>2, <4>2
      <4> QED
        BY <3>3, <4>3
    <3>4. (Untouched(f) \/ \E k \in 1..upto : f = given(k)) /\ (Untouched(g) \/ \E k \in 1..upto : g = given(k))
      BY <1>5
    <3> HIDE DEF Untouched
    <3> QED
      BY <2>3, <3>1, <3>2, <3>3, <3>4
  <2> QED
    BY <2>1, <2>2, <2>3 DEF Wired
<1>10. ASSUME upto = c, NEW f \in new.ifaces, f.net = n
       PROVE  \E k \in 1..upto : f = given(k)
  <2> SUFFICES ASSUME Untouched(f) PROVE FALSE
    BY <1>5
  <2> QED
    BY <1>10
<1>11. ASSUME upto = c, NEW f \in new.ifaces, f.net = n
       PROVE  /\ f.address >= first
              /\ \A g \in new.ifaces : g.net = n /\ g.address = f.address => f = g
  <2>1. PICK k \in 1..upto : f = given(k)
    BY <1>10, <1>11
  <2>2. f.address = first + k - 1 /\ k \in Nat /\ k >= 1
    BY <1>2, <1>3, <2>1
  <2>3. ASSUME NEW g \in new.ifaces, g.net = n, g.address = f.address PROVE f = g
    <3>1. PICK l \in 1..upto : g = given(l)
      BY <1>10, <1>11, <2>3
    <3>2. g.address = first + l - 1 /\ l \in Nat
      BY <1>2, <1>3, <3>1
    <3>3. k = l
      BY <1>1, <2>2, <2>3, <3>2
    <3> QED
      BY <2>1, <3>1, <3>3
  <2> QED
    BY <1>1, <2>2, <2>3
<1> QED
  BY <1>7, <1>8, <1>9, <1>11 DEF first

LEMMA NetworkFabHeld ==
  ASSUME FabIInv, FabHeld, NEW n \in NetworksOf, ConfigureNetwork(n) PROVE FabHeld'
<1> DEFINE s == fab.slice
           members == {f \in slices[fab.slice].ifaces : f.net = n}
           order == SetToSeq(members)
           given(upto) == [k \in 1..upto |-> [order[k] EXCEPT !.address = FirstAddress(n) + k - 1]]
           c == Cardinality(members)
<1>1. FabKnown
  BY FabKnownIs
<1>2. /\ fab.at = "configure" /\ n \in fab.todo /\ s \in DOMAIN slices
      /\ UNCHANGED <<fabConf, allowed, formats, fabCalls>>
      /\ fab.known = slices[s].nodes /\ s \in MountedSlices /\ fabConf \in FabConfs
      /\ \A m \in NetworksOf \ fab.todo : s \in AddressedOn(m)
      /\ slices[s].nodes \subseteq NodesOf /\ slices[s].ifaces \subseteq IfaceFields /\ Wired(slices[s])
  BY <1>1 DEF ConfigureNetwork, FabKnown, Working, FabHeld, InWork, SlicesTyped, BuiltSlices
<1>3. /\ c \in Nat /\ order \in [1..c -> members]
      /\ \A i, j \in 1..c : order[i] = order[j] => i = j
      /\ \A f \in members : \E i \in 1..c : order[i] = f
  <2>1. IsFiniteSet(members)
    <3> DEFINE slice == slices[fab.slice]
    <3>1. slice.nodes \subseteq NodesOf /\ Wired(slice)
      BY <1>2
    <3> HIDE DEF slice
    <3>2. IsFiniteSet({f \in slice.ifaces : f.net = n})
      BY <1>2, <3>1, MembersFinite
    <3> QED
      BY <3>2 DEF slice
  <2> HIDE DEF members
  <2> QED
    BY <2>1, SetToSeqIs
<1>4. Len(order) = c
  <2> HIDE DEF order, members, c
  <2>1. order \in Seq(members) /\ DOMAIN order = 1..c
    BY <1>3
  <2> QED
    BY <1>3, <2>1
<1>5. PICK upto \in 0..c :
         /\ slices' = [slices EXCEPT ![fab.slice].ifaces =
                          (@ \ {order[k] : k \in 1..upto}) \cup ToSet(given(upto))]
         /\ IF upto = c
            THEN fab' = [fab EXCEPT !.todo = @ \ {n}] /\ UNCHANGED unfinished
            ELSE FabGo("raised") /\ unfinished' = unfinished \cup {fab.slice}
  BY <1>4 DEF ConfigureNetwork
<1> DEFINE I == (slices[s].ifaces \ {order[k] : k \in 1..upto}) \cup ToSet(given(upto))
<1>6. I = (slices[s].ifaces \ Chosen(order, upto)) \cup Readdressed(order, FirstAddress(n), upto)
  <2>1. ToSet(given(upto)) = {[order[k] EXCEPT !.address = FirstAddress(n) + k - 1] : k \in 1..upto}
    BY DEF ToSet
  <2> QED
    BY <2>1 DEF Chosen, Readdressed
<1>7. /\ DOMAIN slices' = DOMAIN slices /\ Len(slices') = Len(slices) /\ slices' # <<>>
      /\ \A t \in DOMAIN slices : t # s => slices'[t] = slices[t]
      /\ slices'[s].status = slices[s].status /\ slices'[s].nodes = slices[s].nodes
      /\ slices'[s].components = slices[s].components /\ slices'[s].mounts = slices[s].mounts
      /\ slices'[s].ifaces = I
  <2>3. slices' = [slices EXCEPT ![s] = [slices[s] EXCEPT !.ifaces = I]]
    BY <1>5
  <2> HIDE DEF I
  <2>1. PICK Q : slices \in Seq(SliceSet(Q))
    BY DEF FabIInv
  <2>2. slices[s] \in SliceSet(Q)
    BY <1>2, <2>1
  <2>4. /\ [slices[s] EXCEPT !.ifaces = I].status = slices[s].status
        /\ [slices[s] EXCEPT !.ifaces = I].nodes = slices[s].nodes
        /\ [slices[s] EXCEPT !.ifaces = I].components = slices[s].components
        /\ [slices[s] EXCEPT !.ifaces = I].mounts = slices[s].mounts
        /\ [slices[s] EXCEPT !.ifaces = I].ifaces = I
    BY <2>2 DEF SliceSet
  <2>5. /\ DOMAIN slices' = DOMAIN slices /\ Len(slices') = Len(slices) /\ slices' # <<>>
        /\ \A t \in DOMAIN slices : t # s => slices'[t] = slices[t]
        /\ slices'[s] = [slices[s] EXCEPT !.ifaces = I]
    BY <1>2, <2>1, <2>3
  <2> QED
    BY <2>4, <2>5
<1> DEFINE old == slices[s]
           new == slices'[s]
<1>8. /\ new.ifaces \subseteq IfaceFields /\ Wired(new)
      /\ \A f \in new.ifaces : f.net # n => f \in old.ifaces
      /\ upto = c => \A f \in new.ifaces : f.net = n =>
            /\ f.address >= FirstAddress(n)
            /\ \A g \in new.ifaces : g.net = n /\ g.address = f.address => f = g
  <2>1. old.ifaces \subseteq IfaceFields /\ Wired(old) /\ members = {f \in old.ifaces : f.net = n}
    BY <1>2, <1>3
  <2>2. \A f \in old.ifaces : f.net = n => \E i \in 1..c : order[i] = f
    BY <1>3
  <2>3. new.nodes = old.nodes
        /\ new.ifaces = (old.ifaces \ Chosen(order, upto)) \cup Readdressed(order, FirstAddress(n), upto)
    BY <1>6, <1>7
  <2>4. GivenTo(old, new, n, order, c, upto)
    <3> HIDE DEF old, new, order, c, I, given
    <3>1. order \in [1..c -> {f \in old.ifaces : f.net = n}]
      BY <1>3, <2>1
    <3> HIDE DEF members
    <3> QED
      BY <1>3, <2>1, <2>2, <2>3, <3>1 DEF GivenTo
  <2> HIDE DEF old, new, order, c, I, given, members
  <2> QED
    BY <2>4, AddressesGiven
<1>9. /\ SlicesTyped' /\ DOMAIN slices' \subseteq BuiltSlices'
      /\ \A t \in FinishedSlices : t # s => t \in FinishedSlices'
  <2>1. /\ formats' \in [Volumes(fabConf) -> 0..1]
        /\ \A m \in slices'[s].mounts : m.node \in NodesOf
    BY <1>2, <1>7 DEF FabHeld, SlicesTyped
  <2> HIDE DEF s, I
  <2> QED
    BY <1>2, <1>7, <1>8, <2>1, OneSliceHeld
<1>10. SameFabConf
  BY <1>2, FabConfStays
<1>11. s \in MountedSlices'
  BY <1>2, <1>7, <1>10 DEF MountedSlices, SameFabConf
<1>12. SlicesFinished' /\ BuilderTyped' /\ InWork'
  <2>0. \A t \in DOMAIN slices : t \notin unfinished /\ t # s => t \in FinishedSlices'
    BY <1>9 DEF FabHeld, SlicesFinished
  <2>1. CASE upto = c
    <3>1. fab'.at = "configure" /\ fab'.slice = s /\ fab'.known = fab.known /\ fab'.todo = fab.todo \ {n}
          /\ unfinished' = unfinished
      BY <1>1, <1>2, <1>5, <2>1 DEF FabKnown
    <3>2. BuilderTyped'
      BY <1>1, <1>2, <1>7, <1>10, <3>1 DEF BuilderTyped, FabKnown, SameFabConf
    <3>3. SlicesFinished'
      BY <1>7, <2>0, <3>1 DEF SlicesFinished, Working
    <3>4. ASSUME NEW m \in NetworksOf, m \notin fab'.todo PROVE s \in AddressedOn(m)'
      <4> SUFFICES ASSUME NEW f \in new.ifaces, f.net = m
                   PROVE  /\ f.address >= FirstAddress(m)
                          /\ \A g \in new.ifaces : g.net = m /\ g.address = f.address => f = g
        BY <1>2, <1>7, <1>10 DEF AddressedOn, SameFabConf
      <4>1. CASE m = n
        BY <1>8, <2>1, <4>1
      <4>2. CASE m # n
        <5>1. s \in AddressedOn(m)
          BY <1>2, <3>1, <3>4, <4>2
        <5>2. \A g \in new.ifaces : g.net = m => g \in old.ifaces
          BY <1>8, <4>2
        <5> QED
          BY <5>1, <5>2 DEF AddressedOn
      <4> QED
        BY <4>1, <4>2
    <3>5. InWork'
      <4>1. fab'.slice \in DOMAIN slices' /\ fab'.slice \in MountedSlices' /\ fab'.known = slices'[fab'.slice].nodes
        BY <1>2, <1>7, <1>11, <3>1
      <4>2. \A m \in NetworksOf \ fab'.todo : fab'.slice \in AddressedOn(m)'
        BY <3>1, <3>4
      <4> HIDE DEF s, new, old, I
      <4> QED
        BY <1>10, <3>1, <4>1, <4>2 DEF InWork, SameFabConf
    <3> QED
      BY <3>2, <3>3, <3>5
  <2>2. CASE upto # c
    <3>1. fab'.at = "raised" /\ fab'.slice = s /\ fab'.known = fab.known /\ fab'.todo = fab.todo
          /\ unfinished' = unfinished \cup {s}
      BY <1>1, <1>2, <1>5, <2>2 DEF FabKnown, FabGo
    <3>2. BuilderTyped'
      BY <1>1, <1>2, <1>7, <1>10, <3>1 DEF BuilderTyped, FabKnown, SameFabConf, FabSteps
    <3>3. SlicesFinished'
      BY <1>7, <2>0, <3>1 DEF SlicesFinished
    <3>4. InWork'
      BY <3>1 DEF InWork, Working
    <3> QED
      BY <3>2, <3>3, <3>4
  <2> QED
    BY <2>1, <2>2
<1> QED
  BY <1>9, <1>12 DEF FabHeld

LEMMA FabHeldStays == FabIInv /\ FabHeld /\ [FabNext]_fabVars => FabHeld'
<1> SUFFICES ASSUME FabIInv, FabHeld, [FabNext]_fabVars PROVE FabHeld'
  OBVIOUS
<1>1. ASSUME NEW what, NEW forced, BeginFab(what, forced) PROVE FabHeld'
  BY <1>1, BeginFabHeld
<1>2. CASE Check \/ FindSlice \/ FindFails
  BY <1>2, FindFabHeld
<1>3. CASE SubmitSlice
  BY <1>3, SubmitFabHeld
<1>4. CASE SliceSettled
  BY <1>4, SettledFabHeld
<1>5. CASE ConfigureStorage
  BY <1>5, StorageFabHeld
<1>6. CASE PublishAddresses
  BY <1>6, PublishFabHeld
<1>7. CASE SliceGone \/ FabKilled
  BY <1>7, LeaveFabHeld
<1>8. CASE Configured \/ Roles
  BY <1>8, ReturnFabHeld
<1>9. CASE DeleteSlice
  BY <1>9, DeleteFabHeld
<1>10. ASSUME NEW n \in NetworksOf, ConfigureNetwork(n) PROVE FabHeld'
  BY <1>10, NetworkFabHeld
<1>11. ASSUME NEW s \in DOMAIN slices, SliceMoves(s) PROVE FabHeld'
  BY <1>11, MovesFabHeld
<1>12. CASE UNCHANGED fabVars
  <2>1. UNCHANGED <<fabConf, allowed, formats, slices, fab, unfinished, fabCalls>>
    BY <1>12 DEF fabVars
  <2>2. SlicesSame /\ FabKnown
    BY <2>1, SlicesUntouched, FabKnownIs
  <2>3. fab' = fab /\ unfinished' = unfinished /\ fabCalls' = fabCalls
    BY <2>1
  <2>4. /\ fab.at \in {"storage", "publish"} => fab.todo = NetworksOf
        /\ fab.at \in {"publish", "resubmitted", "configure"} => fab.slice \in MountedSlices
        /\ fab.at = "configure" => \A n \in NetworksOf \ fab.todo : fab.slice \in AddressedOn(n)
        /\ fab.at \in {"storage", "publish", "resubmitted", "configure", "roles", "ready"} =>
              fab.known = slices[fab.slice].nodes /\ fab.slice \in DOMAIN slices
        /\ fab.at = "ready" => NodesOf \subseteq fab.known
    BY DEF FabHeld, InWork, Working
  <2>5. \/ fab.at \notin Working \/ fab.slice \in unfinished' \/ fab.slice \in FinishedSlices
        \/ fab'.at \in Working /\ fab'.slice = fab.slice
    BY <2>3
  <2> QED
    BY <2>2, <2>3, <2>4, <2>5, FabWalks DEF FabKnown
<1> QED
  BY <1>1, <1>2, <1>3, <1>4, <1>5, <1>6, <1>7, <1>8, <1>9, <1>10, <1>11, <1>12 DEF FabNext

-----------------------------------------------------------------------------
(* The answer of test_slot, and the mapping *)

\* The answer of test_slot is that of the status it has read.
SlotInv ==
    /\ slot.asked \in BOOLEAN
    /\ slot.asked => /\ slot.status \in Statuses /\ slot.start \in Nat /\ slot.walltime \in Nat \ {0}
                     /\ slot.ok = TestSlotG5k(g5kConf.machines, slot.status, slot.start, slot.walltime)

\* The answer that was given is exact.
LEMMA SlotTold ==
  ASSUME FinalOK(g5kConf), SlotInv
  PROVE  SlotTestExact
<1> DEFINE M == g5kConf.machines
<1> SUFFICES ASSUME slot.asked,
                    ~ \E n \in G5kNodes : \E i \in DOMAIN slot.status[n].reservations :
                        slot.status[n].reservations[i].from = Undated,
                    ~ \E i \in DOMAIN M :
                        IsServers(M[i]) /\ {M[i].nodes, Cardinality(ToSet(M[i].servers))} # {Len(M[i].servers)},
                    ~ \E i, j \in DOMAIN M : i # j /\ ToSet(M[i].servers) \cap ToSet(M[j].servers) # {}
             PROVE  slot.ok <=> NodesFrom(FreeAt(slot.status, slot.start, slot.walltime), M) # {}
  BY DEF SlotTestExact, FreeAt
<1>1. AllDated(slot.status)
  BY DEF AllDated
<1>2. NoChoice(M)
  <2> SUFFICES ASSUME NEW i \in DOMAIN M, IsServers(M[i])
               PROVE  M[i].nodes = Len(M[i].servers) /\ Cardinality(ToSet(M[i].servers)) = Len(M[i].servers)
    BY DEF NoChoice
  <2>1. {M[i].nodes, Cardinality(ToSet(M[i].servers))} = {Len(M[i].servers)}
    OBVIOUS
  <2> HIDE DEF M
  <2> QED
    BY <2>1, Zenon
<1>3. ListsApart(M)
  BY DEF ListsApart
<1>4. TestSlotG5k(M, slot.status, slot.start, slot.walltime) <=> NodesFrom(FreeAt(slot.status, slot.start, slot.walltime), M) # {}
  BY <1>1, <1>2, <1>3, SlotTestTells DEF SlotInv
<1> QED
  BY <1>4 DEF SlotInv

\* The mapping does not depend on the order in which the jobs list their nodes,
LEMMA MappingByNames ==
  ASSUME NEW c, NEW a, NEW b, ToSet(a) = ToSet(b)
  PROVE  ConcreteNodes(c, a) = ConcreteNodes(c, b)
<1> DEFINE F(S) ==
             LET n == Len(c.machines)
                 turns == Turns(c)
                 sorted == SortedBy(NodesByName, S)
                 machine(k) == c.machines[turns[IF k <= n THEN k ELSE k - n]]
                 left[k \in 0..(2 * n)] ==
                     IF k = 0 THEN S
                     ELSE Remain(left[k - 1], PickNodes(machine(k), sorted, left[k - 1], IF k <= n THEN 1 ELSE 2))
                 had == [k \in 1..(2 * n) |-> PickNodes(machine(k), sorted, left[k - 1], IF k <= n THEN 1 ELSE 2)]
             IN  [ok |-> \A k \in 1..n : Len(had[k]) >= machine(k).min,
                  groups |-> [k \in 1..n |-> [group |-> turns[k], nodes |-> had[k] \o had[n + k]]]]
<1>1. ConcreteNodes(c, a) = F(ToSet(a)) /\ ConcreteNodes(c, b) = F(ToSet(b))
  BY Zenon DEF ConcreteNodes, SortedNames
<1> HIDE DEF F
<1> QED
  BY <1>1

\* nor on that of their networks.
LEMMA MappingByNets ==
  ASSUME NEW c, NEW a, NEW b, ToSet(a) = ToSet(b), NEW sites
  PROVE  ConcreteNetworks(c, a, sites) = ConcreteNetworks(c, b, sites)
<1> DEFINE Taken(S, left, k) ==
             LET net == c.networks[k]
                 sorted == SortedBy(NetsByName, {d \in ToSet(NetsByName) : <<d, net.site>> \in S})
             IN  PickThings(sorted, {d \in ToSet(sorted) : <<d, net.site>> \in left /\ NatureOf[d] = Nature(net)}, Pieces(net))
           F(S) ==
             LET n == Len(c.networks)
                 left[k \in 0..n] ==
                     IF k = 0 THEN S
                     ELSE left[k - 1] \ (ToSet(Taken(S, left[k - 1], k)) \X {c.networks[k].site})
                 had == [k \in 1..n |-> Taken(S, left[k - 1], k)]
                 isProd(k) == c.networks[k].type = "prod"
                 isThere(k) == IF isProd(k) THEN /\ c.networks[k].site \in sites
                                               /\ \A j \in 1..(k - 1) : isProd(j) => c.networks[j].site # c.networks[k].site
                             ELSE had[k] # <<>>
             IN  [ok |-> \A k \in 1..n : isThere(k),
                  nets |-> [k \in 1..n |-> [id |-> c.networks[k].id, type |-> c.networks[k].type, site |-> c.networks[k].site,
                                            names |-> IF isProd(k) THEN <<"DEFAULT">> ELSE had[k]]]]
<1>1. ConcreteNetworks(c, a, sites) = F(ToSet(a)) /\ ConcreteNetworks(c, b, sites) = F(ToSet(b))
  BY Zenon DEF ConcreteNetworks, PickNets, SortedNets
<1> HIDE DEF F
<1> QED
  BY <1>1

-----------------------------------------------------------------------------
(* The networks of a mapping *)

\* What a network of the configuration becomes.
NetRecord(c, nets, pool, k) ==
    [id |-> c.networks[k].id, type |-> c.networks[k].type, site |-> c.networks[k].site,
     names |-> IF c.networks[k].type = "prod" THEN <<"DEFAULT">> ELSE PickNets(c, nets, pool, k)]

\* The networks that the pools give, one after the other.
NetsFound(pools, c, nets, sites) ==
    /\ ConcreteNetworks(c, nets, sites).nets = [k \in 1..Len(c.networks) |-> NetRecord(c, nets, pools[k - 1], k)]
    /\ ConcreteNetworks(c, nets, sites).ok =>
          \A k \in 1..Len(c.networks) : c.networks[k].type # "prod" => PickNets(c, nets, pools[k - 1], k) # <<>>

\* _concretize_networks, by pools.
LEMMA NetworksAre ==
  ASSUME NEW c, NEW nets, NEW sites
  PROVE  \E pools : NetsFound(pools, c, nets, sites)
<1> DEFINE n == Len(c.networks)
           pools == CHOOSE left : left = [k \in 0..n |->
                      IF k = 0 THEN ToSet(nets)
                      ELSE left[k - 1] \ (ToSet(PickNets(c, nets, left[k - 1], k)) \X {c.networks[k].site})]
           had == [k \in 1..n |-> PickNets(c, nets, pools[k - 1], k)]
           isProd(k) == c.networks[k].type = "prod"
           isThere(k) == IF isProd(k) THEN /\ c.networks[k].site \in sites
                                           /\ \A j \in 1..(k - 1) : isProd(j) => c.networks[j].site # c.networks[k].site
                         ELSE had[k] # <<>>
           fine == \A k \in 1..n : isThere(k)
           all == [k \in 1..n |-> [id |-> c.networks[k].id, type |-> c.networks[k].type, site |-> c.networks[k].site,
                                   names |-> IF isProd(k) THEN <<"DEFAULT">> ELSE had[k]]]
<1>1. ConcreteNetworks(c, nets, sites) = [ok |-> fine, nets |-> all]
  BY Zenon DEF ConcreteNetworks
<1> HIDE DEF pools
<1>2. \A k \in 1..n : had[k] = PickNets(c, nets, pools[k - 1], k)
  OBVIOUS
<1>3. all = [k \in 1..n |-> NetRecord(c, nets, pools[k - 1], k)]
  <2> HIDE DEF had
  <2>1. ASSUME NEW k \in 1..n
        PROVE  [id |-> c.networks[k].id, type |-> c.networks[k].type, site |-> c.networks[k].site,
                names |-> IF isProd(k) THEN <<"DEFAULT">> ELSE had[k]] = NetRecord(c, nets, pools[k - 1], k)
    BY <1>2, Zenon DEF NetRecord
  <2> QED
    BY <2>1, Zenon
<1> HIDE DEF had
<1>4. fine => \A k \in 1..n : ~isProd(k) => PickNets(c, nets, pools[k - 1], k) # <<>>
  BY <1>2
<1> HIDE DEF fine, all
<1>5. ConcreteNetworks(c, nets, sites).ok = fine /\ ConcreteNetworks(c, nets, sites).nets = all
  BY <1>1
<1> QED
  BY <1>3, <1>4, <1>5 DEF NetsFound

\* What is picked in a pool are descriptors.
LEMMA NetsPicked ==
  ASSUME NEW c, NEW nets, NEW pool, NEW k
  PROVE  PickNets(c, nets, pool, k) \in Seq(ToSet(NetsByName))
<1> DEFINE net == c.networks[k]
           D == {d \in ToSet(NetsByName) : <<d, net.site>> \in ToSet(nets)}
           sorted == SortedBy(NetsByName, D)
           E == {d \in ToSet(sorted) : <<d, net.site>> \in pool /\ NatureOf[d] = Nature(net)}
<1>1. NetsByName \in Seq(ToSet(NetsByName))
  <2>1. NetsByName \in Seq(DOMAIN NatureOf)
    BY G5kResourcesAssumption
  <2> QED
    BY <2>1 DEF ToSet
<1>2. D \in SUBSET ToSet(NetsByName)
  OBVIOUS
<1> HIDE DEF D
<1>3. Lists(sorted, D)
  BY <1>1, <1>2, SortedByLists
<1> HIDE DEF sorted
<1>4. sorted \in Seq(D) /\ ToSet(sorted) = D
  BY <1>3, ListIs
<1>5. E \in SUBSET ToSet(sorted)
  OBVIOUS
<1>6. Pieces(net) \in Int
  BY G5kResourcesAssumption DEF Pieces
<1>7. PickNets(c, nets, pool, k) = PickThings(sorted, E, Pieces(net))
  BY Zenon DEF PickNets, SortedNets, sorted, D
<1> HIDE DEF E, net
<1>8. Picks(PickThings(sorted, E, Pieces(net)), E, Pieces(net))
  BY <1>4, <1>5, <1>6, PickIs
<1>9. PickThings(sorted, E, Pieces(net)) \in Seq(E) /\ E \subseteq ToSet(NetsByName)
  BY <1>2, <1>4, <1>5, <1>8 DEF Picks
<1> QED
  BY <1>7, <1>9

\* The networks of a mapping: those of the configuration, with descriptors.
NetsMade(c, nets) ==
    /\ DOMAIN nets = 1..Len(c.networks)
    /\ \A k \in DOMAIN nets :
          /\ nets[k].id = c.networks[k].id /\ nets[k].type = c.networks[k].type
          /\ nets[k].type = "prod" => nets[k].names = <<"DEFAULT">>
          /\ nets[k].type # "prod" => nets[k].names \in Seq(ToSet(NetsByName)) /\ nets[k].names # <<>>

\* A mapping that is complete has a descriptor for every network.
LEMMA NetsMapped ==
  ASSUME NEW c, NEW nets, NEW sites, ConcreteNetworks(c, nets, sites).ok
  PROVE  NetsMade(c, ConcreteNetworks(c, nets, sites).nets)
<1> DEFINE all == ConcreteNetworks(c, nets, sites).nets
           n == Len(c.networks)
<1>1. PICK pools :
        /\ all = [k \in 1..n |-> NetRecord(c, nets, pools[k - 1], k)]
        /\ \A k \in 1..n : c.networks[k].type # "prod" => PickNets(c, nets, pools[k - 1], k) # <<>>
  <2>1. PICK pools : NetsFound(pools, c, nets, sites)
    BY NetworksAre
  <2> QED
    BY <2>1 DEF NetsFound
<1> HIDE DEF all
<1>2. ASSUME NEW k \in 1..n
      PROVE  /\ all[k].id = c.networks[k].id /\ all[k].type = c.networks[k].type
             /\ all[k].type = "prod" => all[k].names = <<"DEFAULT">>
             /\ all[k].type # "prod" => all[k].names \in Seq(ToSet(NetsByName)) /\ all[k].names # <<>>
  <2> DEFINE picked == PickNets(c, nets, pools[k - 1], k)
             net == c.networks[k]
  <2>1. picked \in Seq(ToSet(NetsByName))
    BY NetsPicked
  <2>2. net.type # "prod" => picked # <<>>
    BY <1>1
  <2>3. all[k] = [id |-> net.id, type |-> net.type, site |-> net.site,
                  names |-> IF net.type = "prod" THEN <<"DEFAULT">> ELSE picked]
    BY <1>1, Zenon DEF NetRecord
  <2> HIDE DEF picked, net
  <2>4. all[k].id = net.id /\ all[k].type = net.type /\ all[k].names = IF net.type = "prod" THEN <<"DEFAULT">> ELSE picked
    <3> DEFINE names == IF net.type = "prod" THEN <<"DEFAULT">> ELSE picked
    <3> HIDE DEF names
    <3>1. all[k].id = net.id /\ all[k].type = net.type /\ all[k].names = names
      BY <2>3 DEF names
    <3> QED
      BY <3>1 DEF names
  <2> QED
    BY <2>1, <2>2, <2>4 DEF net
<1>3. DOMAIN all = 1..n
  BY <1>1
<1> QED
  BY <1>2, <1>3 DEF NetsMade, all

\* A network is found by its name, and has a VLAN if it is one.
LEMMA LookupIs ==
  ASSUME NEW c, FinalOK(c), NEW nets, NetsMade(c, nets), NEW id \in IdsOf(c)
  PROVE  /\ VlanId(LookupNet(nets, id)) \in ToSet(NetsByName) \cup {"DEFAULT", "none"}
         /\ ~HasKavlan(c) => VlanId(LookupNet(nets, id)) \in {"DEFAULT", "none"}
<1> DEFINE n == Len(c.networks)
           ids == [k \in DOMAIN nets |-> nets[k].id]
           f == FirstAt(ids, id)
           net == nets[f]
<1>1. n \in Nat /\ DOMAIN c.networks = 1..n /\ DOMAIN nets = 1..n
  BY DEF FinalOK, NetsMade
<1>2. ids \in Seq(IdsOf(c)) /\ id \in ToSet(ids)
  <2>1. ids = [k \in 1..n |-> nets[k].id]
    BY <1>1
  <2>2. \A k \in 1..n : nets[k].id = c.networks[k].id /\ nets[k].id \in IdsOf(c)
    BY <1>1 DEF NetsMade, IdsOf
  <2>3. ids \in Seq(IdsOf(c))
    BY <1>1, <2>1, <2>2
  <2>4. PICK k \in 1..n : c.networks[k].id = id
    BY <1>1 DEF IdsOf
  <2>5. k \in DOMAIN ids /\ ids[k] = id
    BY <1>1, <2>2, <2>4
  <2> HIDE DEF ids
  <2> QED
    BY <2>3, <2>5 DEF ToSet
<1>3. f \in DOMAIN nets
  <2>1. DOMAIN ids = DOMAIN nets
    OBVIOUS
  <2> HIDE DEF ids
  <2> QED
    BY <1>2, <2>1, FirstPlace
<1>4. LookupNet(nets, id) = net
  BY DEF LookupNet
<1> HIDE DEF f
<1>5. /\ net.type = c.networks[f].type
      /\ net.type = "prod" => net.names = <<"DEFAULT">>
      /\ net.type # "prod" => net.names \in Seq(ToSet(NetsByName)) /\ net.names # <<>>
  BY <1>3 DEF NetsMade
<1>6. net.type \in KavlanTypes \cup {"prod", "slash_16", "slash_22"} /\ (~HasKavlan(c) => net.type \notin KavlanTypes)
  <2>1. c.networks[f] \in NetworkOK(c)
    BY <1>1, <1>3, EntryIs DEF FinalOK
  <2>2. c.networks[f].type \in KavlanTypes \cup {"prod", "slash_16", "slash_22"}
    BY <2>1 DEF NetworkOK
  <2>3. ~HasKavlan(c) => c.networks[f].type \notin KavlanTypes
    BY <1>1, <1>3 DEF HasKavlan
  <2> QED
    BY <1>5, <2>2, <2>3
<1> HIDE DEF net
<1>7. net.type = "prod" => VlanId(net) = "DEFAULT"
  <2>1. net.type = "prod" => VlanId(net) = Head(net.names)
    BY DEF VlanId
  <2> QED
    BY <1>5, <2>1
<1>8. net.type \in {"slash_16", "slash_22"} => VlanId(net) = "none"
  BY DEF VlanId
<1>9. net.type \in KavlanTypes => VlanId(net) \in ToSet(NetsByName)
  <2> SUFFICES ASSUME net.type \in KavlanTypes PROVE VlanId(net) \in ToSet(NetsByName)
    OBVIOUS
  <2>1. VlanId(net) = Head(net.names) /\ net.type # "prod"
    BY DEF VlanId, KavlanTypes
  <2>2. net.names \in Seq(ToSet(NetsByName)) /\ net.names # <<>>
    BY <1>5, <2>1
  <2> DEFINE s == net.names
             T == ToSet(NetsByName)
  <2>3. s \in Seq(T) /\ s # <<>>
    BY <2>2
  <2> HIDE DEF s, T
  <2>4. Head(s) \in T
    BY <2>3
  <2> QED
    BY <2>1, <2>4 DEF s, T
<1> QED
  BY <1>4, <1>6, <1>7, <1>8, <1>9

-----------------------------------------------------------------------------
(* The cards that are moved *)

\* FlattenSeq keeps what its pieces hold.
LEMMA FlattenCovers ==
  ASSUME NEW S, NEW ss \in Seq(Seq(S))
  PROVE  /\ FlattenSeq(ss) \in Seq(S)
         /\ ToSet(FlattenSeq(ss)) = UNION {ToSet(ss[k]) : k \in DOMAIN ss}
<1> DEFINE flat == FlattenSeq(ss)
           N == Len(ss)
<1>1. flat \in Seq(S)
  BY FlattenLaid
<1>2. PICK off : Laid(flat, ss, N, off)
  BY FlattenLaid
<1> HIDE DEF flat
<1>3. N \in Nat /\ DOMAIN ss = 1..N /\ DOMAIN flat = 1..Len(flat)
  BY <1>1
<1>4. \A k \in 1..N : ss[k] \in Seq(S) /\ DOMAIN ss[k] = 1..Len(ss[k]) /\ Len(ss[k]) \in Nat
  BY <1>3
<1>5. ASSUME NEW k \in DOMAIN ss, NEW x \in ToSet(ss[k]) PROVE x \in ToSet(flat)
  <2>1. PICK i \in 1..Len(ss[k]) : ss[k][i] = x
    BY <1>3, <1>4, <1>5 DEF ToSet
  <2>2. flat[off[k - 1] + i] = x
    BY <1>2, <1>3, <2>1 DEF Laid
  <2>3. off[k - 1] + i \in 1..Len(flat)
    <3>1. k - 1 \in 0..N /\ k \in 0..N /\ N \in 0..N /\ k <= N /\ k \in 1..N
      BY <1>3
    <3>2. off[k] = off[k - 1] + Len(ss[k]) /\ off[k] <= off[N] /\ Len(flat) = off[N]
      BY <1>2, <3>1 DEF Laid
    <3>3. off[k - 1] \in Nat /\ off[k] \in Nat /\ off[N] \in Nat
      BY <1>2, <3>1 DEF Laid
    <3> DEFINE a == off[k - 1]
               b == off[k]
               d == Len(ss[k])
               l == Len(flat)
    <3>4. a \in Nat /\ d \in Nat /\ l \in Nat /\ b = a + d /\ b <= l /\ i \in 1..d
      BY <1>4, <2>1, <3>1, <3>2, <3>3
    <3> HIDE DEF a, b, d, l
    <3>5. a + i \in 1..l
      BY <3>4
    <3> QED
      BY <3>5 DEF a, l
  <2> QED
    BY <1>3, <2>2, <2>3 DEF ToSet
<1>6. ASSUME NEW x \in ToSet(flat) PROVE \E k \in DOMAIN ss : x \in ToSet(ss[k])
  <2>1. PICK p \in 1..Len(flat) : flat[p] = x
    BY <1>3, <1>6 DEF ToSet
  <2>2. Len(flat) = off[N]
    BY <1>2 DEF Laid
  <2>3. PICK k \in 1..N : \E i \in 1..Len(ss[k]) : p = off[k - 1] + i
    BY <1>2, <2>1, <2>2 DEF Laid
  <2>4. PICK i \in 1..Len(ss[k]) : p = off[k - 1] + i
    BY <2>3
  <2>5. flat[off[k - 1] + i] = ss[k][i]
    BY <1>2, <2>4 DEF Laid
  <2> QED
    BY <1>3, <1>4, <2>1, <2>4, <2>5 DEF ToSet
<1>7. ToSet(flat) = UNION {ToSet(ss[k]) : k \in DOMAIN ss}
  BY <1>5, <1>6
<1> QED
  BY <1>1, <1>7 DEF flat

\* The hosts of a mapping, each node once.
HostsMapped(c, hosts) ==
    /\ hosts \in Seq([node : G5kNodes, group : DOMAIN c.machines])
    /\ \A a, b \in DOMAIN hosts : hosts[a].node = hosts[b].node => a = b

\* The moves of a host, as a set.
HostMoves(c, nets, h) ==
    IF Len(c.machines[h.group].secondary) > CardsOf[ClusterOf[h.node]]
    THEN {[node |-> h.node, card |-> 0, vlan |-> "missing"]}
    ELSE {[node |-> h.node, card |-> i, vlan |-> VlanId(Secondary(c, nets, h)[i])] :
             i \in 1..Len(c.machines[h.group].secondary)}
\* All the moves of the hosts.
MovesWanted(c, nets, hosts) == UNION {HostMoves(c, nets, h) : h \in ToSet(hosts)}

\* The secondary networks of a host are those of its group, in their order.
LEMMA SecondariesOf ==
  ASSUME NEW c, FinalOK(c), NEW nets, NEW h, h.group \in DOMAIN c.machines
  PROVE  /\ c.machines[h.group] \in MachineOK(c) /\ c.machines[h.group].secondary \in Seq(IdsOf(c))
         /\ DOMAIN Secondary(c, nets, h) = 1..Len(c.machines[h.group].secondary)
         /\ Len(Secondary(c, nets, h)) = Len(c.machines[h.group].secondary)
         /\ Len(c.machines[h.group].secondary) \in Nat
         /\ DOMAIN c.machines[h.group].secondary = 1..Len(c.machines[h.group].secondary)
         /\ \A i \in 1..Len(c.machines[h.group].secondary) :
              /\ Secondary(c, nets, h)[i] = LookupNet(nets, c.machines[h.group].secondary[i])
              /\ c.machines[h.group].secondary[i] \in IdsOf(c)
<1>1. c.machines[h.group] \in MachineOK(c)
  BY EntryIs DEF FinalOK
<1> DEFINE s == c.machines[h.group].secondary
<1>2. s \in Seq(IdsOf(c))
  BY <1>1 DEF MachineOK
<1>3. Secondary(c, nets, h) = [i \in DOMAIN s |-> LookupNet(nets, s[i])]
  BY DEF Secondary
<1> HIDE DEF s
<1>4. DOMAIN s = 1..Len(s) /\ Len(s) \in Nat /\ \A i \in 1..Len(s) : s[i] \in IdsOf(c)
  BY <1>2
<1>5. Secondary(c, nets, h) = [i \in 1..Len(s) |-> LookupNet(nets, s[i])]
  BY <1>3, <1>4
<1>6. Len(Secondary(c, nets, h)) = Len(s)
  BY <1>4, <1>5
<1> QED
  BY <1>1, <1>2, <1>4, <1>5, <1>6 DEF s

\* The moves of a host.
LEMMA MovesOfAre ==
  ASSUME NEW c, FinalOK(c), NEW nets, NEW h, h.group \in DOMAIN c.machines
  PROVE  MovesOf(c, nets, h) \in Seq(HostMoves(c, nets, h)) /\ ToSet(MovesOf(c, nets, h)) = HostMoves(c, nets, h)
<1> DEFINE n == Len(c.machines[h.group].secondary)
           w == Secondary(c, nets, h)
           m(i) == [node |-> h.node, card |-> i, vlan |-> VlanId(w[i])]
           none == [node |-> h.node, card |-> 0, vlan |-> "missing"]
           cards == CardsOf[ClusterOf[h.node]]
<1>1. DOMAIN w = 1..n /\ Len(w) = n /\ n \in Nat
  BY SecondariesOf
<1>2. CASE n > cards
  <2>1. MovesOf(c, nets, h) = <<none>>
    BY <1>1, <1>2, Zenon DEF MovesOf
  <2>2. HostMoves(c, nets, h) = {none}
    BY <1>2, Zenon DEF HostMoves
  <2> HIDE DEF none
  <2>3. <<none>> \in Seq({none}) /\ ToSet(<<none>>) = {none}
    BY DEF ToSet
  <2> QED
    BY <2>1, <2>2, <2>3
<1>3. CASE ~(n > cards)
  <2> DEFINE s == [i \in DOMAIN w |-> m(i)]
             H == {m(i) : i \in 1..n}
  <2>1. MovesOf(c, nets, h) = s
    BY <1>1, <1>3, Zenon DEF MovesOf
  <2>2. HostMoves(c, nets, h) = H
    BY <1>3, Zenon DEF HostMoves
  <2>3. s = [i \in 1..n |-> m(i)] /\ \A i \in 1..n : m(i) \in H
    BY <1>1
  <2>4. \A x \in H : \E i \in 1..n : x = m(i)
    OBVIOUS
  <2> HIDE DEF m, H, s
  <2>5. s \in Seq(H)
    BY <1>1, <2>3
  <2>6. DOMAIN s = 1..n /\ \A i \in 1..n : s[i] = m(i)
    BY <1>1, <2>3
  <2>7. ToSet(s) = H
    BY <2>3, <2>4, <2>6 DEF ToSet
  <2> QED
    BY <2>1, <2>2, <2>5, <2>7
<1> QED
  BY <1>2, <1>3

\* mirror_state moves the cards of all hosts.
LEMMA MovesAre ==
  ASSUME NEW c, FinalOK(c), NEW nets, NEW hosts, HostsMapped(c, hosts)
  PROVE  /\ CardMoves(c, nets, hosts) \in Seq(MovesWanted(c, nets, hosts))
         /\ ToSet(CardMoves(c, nets, hosts)) = MovesWanted(c, nets, hosts)
<1> DEFINE W == MovesWanted(c, nets, hosts)
           ss == [k \in DOMAIN hosts |-> MovesOf(c, nets, hosts[k])]
<1>1. DOMAIN hosts = 1..Len(hosts) /\ Len(hosts) \in Nat /\ \A k \in 1..Len(hosts) : hosts[k] \in ToSet(hosts)
  BY DEF HostsMapped, ToSet
<1>2. ASSUME NEW k \in 1..Len(hosts)
      PROVE  /\ MovesOf(c, nets, hosts[k]) \in Seq(W)
             /\ ToSet(MovesOf(c, nets, hosts[k])) = HostMoves(c, nets, hosts[k])
  <2>1. hosts[k] \in [node : G5kNodes, group : DOMAIN c.machines]
    BY <1>1, EntryIs DEF HostsMapped
  <2>2. MovesOf(c, nets, hosts[k]) \in Seq(HostMoves(c, nets, hosts[k]))
        /\ ToSet(MovesOf(c, nets, hosts[k])) = HostMoves(c, nets, hosts[k])
    BY <2>1, MovesOfAre
  <2>3. HostMoves(c, nets, hosts[k]) \subseteq W
    BY <1>1 DEF MovesWanted
  <2> HIDE DEF W
  <2> QED
    BY <2>2, <2>3
<1>3. CardMoves(c, nets, hosts) = FlattenSeq(ss)
  BY DEF CardMoves
<1>4. ss \in Seq(Seq(W)) /\ DOMAIN ss = 1..Len(hosts) /\ \A k \in 1..Len(hosts) : ss[k] = MovesOf(c, nets, hosts[k])
  <2>1. ss = [k \in 1..Len(hosts) |-> MovesOf(c, nets, hosts[k])]
    BY <1>1
  <2> HIDE DEF W
  <2> QED
    BY <1>1, <1>2, <2>1
<1> HIDE DEF ss
<1>5. FlattenSeq(ss) \in Seq(W) /\ ToSet(FlattenSeq(ss)) = UNION {ToSet(ss[k]) : k \in DOMAIN ss}
  <2> HIDE DEF W
  <2> QED
    BY <1>4, FlattenCovers
<1>6. UNION {ToSet(ss[k]) : k \in DOMAIN ss} = W
  <2>1. \A k \in DOMAIN ss : ToSet(ss[k]) = HostMoves(c, nets, hosts[k])
    BY <1>2, <1>4
  <2>2. \A h \in ToSet(hosts) : \E k \in DOMAIN ss : h = hosts[k]
    BY <1>1, <1>4 DEF ToSet
  <2>3. \A k \in DOMAIN ss : hosts[k] \in ToSet(hosts)
    BY <1>1, <1>4
  <2> QED
    BY <2>1, <2>2, <2>3 DEF MovesWanted
<1> QED
  BY <1>3, <1>5, <1>6

\* A card has one move.
LEMMA MovesOnce ==
  ASSUME NEW c, FinalOK(c), NEW nets, NEW hosts, HostsMapped(c, hosts)
  PROVE  /\ \A m \in MovesWanted(c, nets, hosts) :
              /\ m.node \in G5kNodes /\ m.card \in 0..CardsOf[ClusterOf[m.node]]
              /\ m.card = 0 => m.vlan = "missing"
         /\ \A m, o \in MovesWanted(c, nets, hosts) : m.node = o.node /\ m.card = o.card => m = o
<1>1. ASSUME NEW m \in MovesWanted(c, nets, hosts)
      PROVE  \E h \in ToSet(hosts) : m \in HostMoves(c, nets, h) /\ m.node = h.node
  BY DEF MovesWanted, HostMoves
<1>2. ASSUME NEW h \in ToSet(hosts)
      PROVE  /\ h.node \in G5kNodes /\ h.group \in DOMAIN c.machines /\ CardsOf[ClusterOf[h.node]] \in Nat
             /\ Len(c.machines[h.group].secondary) \in Nat
  <2>1. PICK k \in DOMAIN hosts : h = hosts[k]
    BY DEF ToSet
  <2>2. h \in [node : G5kNodes, group : DOMAIN c.machines]
    BY <2>1, EntryIs DEF HostsMapped
  <2>3. h.node \in G5kNodes /\ h.group \in DOMAIN c.machines
    BY <2>2
  <2> QED
    BY <2>3, SecondariesOf, G5kResourcesAssumption
<1>3. ASSUME NEW h \in ToSet(hosts), NEW m \in HostMoves(c, nets, h)
      PROVE  m.node \in G5kNodes /\ m.card \in 0..CardsOf[ClusterOf[m.node]] /\ (m.card = 0 => m.vlan = "missing")
  BY <1>2 DEF HostMoves
<1>4. ASSUME NEW h \in ToSet(hosts), NEW m \in HostMoves(c, nets, h), NEW o \in HostMoves(c, nets, h), m.card = o.card
      PROVE  m = o
  BY <1>4 DEF HostMoves
<1>5. ASSUME NEW h \in ToSet(hosts), NEW g \in ToSet(hosts), h.node = g.node
      PROVE  h = g
  BY <1>5 DEF HostsMapped, ToSet
<1>6. ASSUME NEW m \in MovesWanted(c, nets, hosts), NEW o \in MovesWanted(c, nets, hosts), m.node = o.node, m.card = o.card
      PROVE  m = o
  <2>1. PICK h \in ToSet(hosts) : m \in HostMoves(c, nets, h) /\ m.node = h.node
    BY <1>1
  <2>2. PICK g \in ToSet(hosts) : o \in HostMoves(c, nets, g) /\ o.node = g.node
    BY <1>1
  <2>3. h = g
    BY <1>5, <1>6, <2>1, <2>2
  <2> QED
    BY <1>4, <1>6, <2>1, <2>2, <2>3
<1> QED
  BY <1>1, <1>3, <1>6

-----------------------------------------------------------------------------
(* The mapping serves the groups *)

\* What the groups get, as GroupsAsAsked says it.
GroupsServed(c, S, hosts) ==
    /\ Cardinality({h.node : h \in ToSet(hosts)}) = Len(hosts)
    /\ \A i \in DOMAIN c.machines :
          /\ NodesIn(hosts, i) \subseteq Eligible(c.machines[i])
          /\ Cardinality(NodesIn(hosts, i)) >= c.machines[i].min
          /\ c.machines[i].min <= c.machines[i].nodes => Cardinality(NodesIn(hosts, i)) <= c.machines[i].nodes
    /\ \/ S \notin NodesFrom(G5kNodes, c.machines)
       \/ \E i \in DOMAIN c.machines : c.machines[i].min > c.machines[i].nodes
       \/ ~ListsApart(c.machines)
       \/ \A i \in DOMAIN c.machines : Cardinality(NodesIn(hosts, i)) = c.machines[i].nodes

\* A mapping that is complete serves every group.
LEMMA NodesMapped ==
  ASSUME NEW c, FinalOK(c), NEW S \in SUBSET G5kNodes, NEW names \in SetToSeqs(S), ConcreteNodes(c, names).ok
  PROVE  LET hosts == Join(c, ConcreteNodes(c, names).groups)
         IN  /\ HostsMapped(c, hosts) /\ GroupsServed(c, S, hosts)
             /\ \A a \in DOMAIN hosts : hosts[a].node \in S
<1> DEFINE n == Len(c.machines)
           groups == ConcreteNodes(c, names).groups
           hosts == Join(c, groups)
<1>1. PICK deal :
        /\ Dealt(c, S, deal)
        /\ ConcreteNodes(c, names).ok = \A k \in 1..n : Len(deal[k]) >= MachineOf(c, k).min
        /\ groups = Groups2(c, deal)
  BY ConcreteDeals DEF Groups2
<1>2. \A k \in 1..n : Len(deal[k]) >= MachineOf(c, k).min
  BY <1>1
<1>3. n \in Nat /\ DOMAIN c.machines = 1..n
  BY DEF FinalOK
<1>4. Spread(c, S, groups)
  BY <1>1, <1>2, GroupsSpread
<1>5. \A k \in 1..n : /\ groups[k].group = Turns(c)[k]
                      /\ groups[k].nodes = deal[k] \o deal[n + k]
                      /\ MachineOf(c, k) = c.machines[Turns(c)[k]]
  <2> TAKE k \in 1..n
  <2>1. k <= n
    BY <1>3
  <2>2. groups[k] = [group |-> Turns(c)[k], nodes |-> deal[k] \o deal[n + k]]
    BY <1>1, Zenon DEF Groups2
  <2>3. MachineOf(c, k) = c.machines[Turns(c)[k]]
    BY <2>1, Zenon DEF MachineOf
  <2> DEFINE g == Turns(c)[k]
             s == deal[k] \o deal[n + k]
  <2>4. groups[k] = [group |-> g, nodes |-> s]
    BY <2>2, Zenon
  <2> HIDE DEF g, s, groups
  <2>5. groups[k].group = g /\ groups[k].nodes = s
    BY <2>4
  <2> QED
    BY <2>3, <2>5 DEF g, s
<1>6. \A k \in 1..n : Len(groups[k].nodes) = Len(deal[k]) + Len(deal[n + k])
  <2> TAKE k \in 1..n
  <2>1. k \in 1..(2 * n) /\ n + k \in 1..(2 * n)
    BY <1>3
  <2>2. deal[k] \in Seq(S) /\ deal[n + k] \in Seq(S)
    BY <1>1, <1>3, <2>1, DealtOnce
  <2>3. Len(deal[k] \o deal[n + k]) = Len(deal[k]) + Len(deal[n + k])
    BY <2>2, BothLists
  <2> QED
    BY <1>5, <2>3
<1> HIDE DEF groups
<1>7. HostsFrom(c, S, groups, hosts)
  BY <1>4, HostsAre
<1> HIDE DEF hosts
<1>8. /\ Cardinality({h.node : h \in ToSet(hosts)}) = Len(hosts)
      /\ \A i \in DOMAIN c.machines :
           /\ NodesIn(hosts, i) \subseteq Eligible(c.machines[i])
           /\ Cardinality(NodesIn(hosts, i)) >= c.machines[i].min
           /\ c.machines[i].min <= c.machines[i].nodes => Cardinality(NodesIn(hosts, i)) <= c.machines[i].nodes
      /\ \A k \in DOMAIN groups : Cardinality(NodesIn(hosts, groups[k].group)) = Len(groups[k].nodes)
  BY <1>4, <1>7, GroupsGet, SMTT(40)
<1>9. ASSUME S \in NodesFrom(G5kNodes, c.machines), ListsApart(c.machines),
             ~\E i \in DOMAIN c.machines : c.machines[i].min > c.machines[i].nodes,
             NEW i \in DOMAIN c.machines
      PROVE  Cardinality(NodesIn(hosts, i)) = c.machines[i].nodes
  <2>1. \A j \in DOMAIN c.machines : c.machines[j].min <= c.machines[j].nodes
    <3> TAKE j \in DOMAIN c.machines
    <3>1. c.machines[j] \in MachineOK(c)
      BY EntryIs DEF FinalOK
    <3>2. c.machines[j].min \in Nat /\ c.machines[j].nodes \in Nat
      BY <3>1 DEF MachineOK
    <3>3. ~(c.machines[j].min > c.machines[j].nodes)
      BY <1>9
    <3> QED
      BY <3>2, <3>3
  <2>2. PICK k \in DOMAIN groups : groups[k].group = i
    BY <1>4 DEF Spread
  <2>3. k \in 1..n
    BY <1>3, <1>4 DEF Spread
  <2>4. Len(deal[k]) + Len(deal[n + k]) = MachineOf(c, k).nodes
    BY <1>1, <1>2, <1>9, <2>1, <2>3, GroupsFull
  <2>5. Cardinality(NodesIn(hosts, i)) = Len(groups[k].nodes)
    BY <1>8, <2>2
  <2> QED
    BY <1>5, <1>6, <2>2, <2>3, <2>4, <2>5
<1>10. GroupsServed(c, S, hosts)
  BY <1>8, <1>9 DEF GroupsServed
<1>11. HostsMapped(c, hosts) /\ \A a \in DOMAIN hosts : hosts[a].node \in S
  <2>1. hosts \in Seq([node : S, group : DOMAIN c.machines])
        /\ \A a, b \in DOMAIN hosts : hosts[a].node = hosts[b].node => a = b
    BY <1>7 DEF HostsFrom
  <2>2. [node : S, group : DOMAIN c.machines] \subseteq [node : G5kNodes, group : DOMAIN c.machines]
    OBVIOUS
  <2>3. ASSUME NEW a \in DOMAIN hosts PROVE hosts[a].node \in S
    <3>1. hosts[a] \in [node : S, group : DOMAIN c.machines]
      BY <2>1, EntryIs
    <3> QED
      BY <3>1
  <2> DEFINE A == [node : S, group : DOMAIN c.machines]
             B == [node : G5kNodes, group : DOMAIN c.machines]
  <2>4. hosts \in Seq(B)
    <3>1. hosts \in Seq(A) /\ A \subseteq B
      BY <2>1, <2>2
    <3> HIDE DEF A, B
    <3> QED
      BY <3>1
  <2> QED
    BY <2>1, <2>3, <2>4 DEF HostsMapped
<1> QED
  BY <1>10, <1>11 DEF hosts, groups

\* The mapping of what the jobs hold.
NamesOf(S) == CHOOSE names \in SetToSeqs(S) : TRUE
MapNodes(c, jobs) == ConcreteNodes(c, NamesOf(jobs.nodes))
MapNets(c, jobs) == ConcreteNetworks(c, NamesOf(jobs.nets), jobs.sites)

\* A list of nodes that repeats nothing is finite, and so is one of networks.
LEMMA ChosenNames ==
  ASSUME NEW S, IsFiniteSet(S), NEW names \in SetToSeqs(S)
  PROVE  NamesOf(S) \in SetToSeqs(S) /\ ToSet(NamesOf(S)) = ToSet(names)
<1>1. NamesOf(S) \in SetToSeqs(S)
  BY DEF NamesOf
<1> QED
  BY <1>1, JobNames

\* Whatever the order in which the jobs list what they hold.
LEMMA MappingIs ==
  ASSUME NEW c, NEW jobs, IsFiniteSet(jobs.nodes), IsFiniteSet(jobs.nets),
         NEW names \in SetToSeqs(jobs.nodes), NEW nets \in SetToSeqs(jobs.nets)
  PROVE  /\ ConcreteNodes(c, names) = MapNodes(c, jobs)
         /\ ConcreteNetworks(c, nets, jobs.sites) = MapNets(c, jobs)
<1>1. ToSet(NamesOf(jobs.nodes)) = ToSet(names)
  BY ChosenNames
<1>2. ToSet(NamesOf(jobs.nets)) = ToSet(nets)
  BY ChosenNames
<1>3. ConcreteNodes(c, names) = MapNodes(c, jobs)
  BY <1>1, MappingByNames DEF MapNodes
<1>4. ConcreteNetworks(c, nets, jobs.sites) = MapNets(c, jobs)
  BY <1>2, MappingByNets DEF MapNets
<1> QED
  BY <1>3, <1>4

-----------------------------------------------------------------------------
(* What jobs hold *)

\* What OAR may give of networks is what some share gives.
LEMMA NetsFromAre ==
  ASSUME NEW nets, NEW S \in NetsFrom(nets)
  PROVE  \E share :
           /\ DOMAIN share = DOMAIN nets /\ S = UNION Range(share)
           /\ \A k \in DOMAIN nets : share[k] \subseteq Available(nets[k]) /\ Cardinality(share[k]) = Pieces(nets[k])
<1> DEFINE demanded == [k \in DOMAIN nets |-> kSubset(Pieces(nets[k]), Available(nets[k]))]
<1>1. DOMAIN demanded = DOMAIN nets
      /\ \A k \in DOMAIN nets : demanded[k] = {s \in SUBSET Available(nets[k]) : Cardinality(s) = Pieces(nets[k])}
  BY DEF kSubset
<1>2. NetsFrom(nets) = {UNION Range(share) : share \in Allotments(demanded)}
  BY DEF NetsFrom
<1> HIDE DEF demanded
<1>3. PICK share \in Allotments(demanded) : S = UNION Range(share)
  BY <1>2
<1>4. share \in [DOMAIN nets -> UNION Range(demanded)] /\ \A k \in DOMAIN nets : share[k] \in demanded[k]
  BY <1>1 DEF Allotments
<1>5. \A k \in DOMAIN nets : share[k] \subseteq Available(nets[k]) /\ Cardinality(share[k]) = Pieces(nets[k])
  BY <1>1, <1>4
<1> QED
  BY <1>3, <1>4, <1>5

\* What jobs may hold.
JobRecords ==
    [nodes : SUBSET G5kNodes, nets : SUBSET (ToSet(NetsByName) \X Range(SiteOfCluster)),
     sites : SUBSET Range(SiteOfCluster)]

\* What is granted is what the groups asked for.
LEMMA GrantsTyped ==
  ASSUME NEW c, FinalOK(c), NEW jobs \in Grants(c)
  PROVE  jobs \in JobRecords /\ jobs.nodes \in NodesFrom(G5kNodes, c.machines)
<1>1. PICK n \in NodesFrom(G5kNodes, c.machines), v \in NetsFrom(c.networks) :
        jobs = [nodes |-> n, nets |-> v, sites |-> JobSites(c)]
  BY DEF Grants
<1>2. n \in SUBSET G5kNodes
  <2>1. PICK share : SharesOf(G5kNodes, c.machines, share) /\ n = UNION Range(share)
    BY <1>1, NodesFromIs
  <2>2. \A i \in DOMAIN share : share[i] \subseteq G5kNodes
    BY <2>1 DEF SharesOf
  <2> QED
    BY <2>1, <2>2 DEF Range
<1>3. v \in SUBSET (ToSet(NetsByName) \X Range(SiteOfCluster))
  <2>1. PICK share : /\ DOMAIN share = DOMAIN c.networks /\ v = UNION Range(share)
                     /\ \A k \in DOMAIN c.networks : share[k] \subseteq Available(c.networks[k])
    BY <1>1, NetsFromAre
  <2>2. \A k \in DOMAIN c.networks : c.networks[k].site \in Range(SiteOfCluster)
    <3> TAKE k \in DOMAIN c.networks
    <3>1. c.networks[k] \in NetworkOK(c)
      BY EntryIs DEF FinalOK
    <3> QED
      BY <3>1 DEF NetworkOK
  <2>3. \A k \in DOMAIN share : share[k] \subseteq ToSet(NetsByName) \X Range(SiteOfCluster)
    BY <2>1, <2>2 DEF Available
  <2> QED
    BY <2>1, <2>3 DEF Range
<1>4. JobSites(c) \in SUBSET Range(SiteOfCluster)
  <2>1. \A i \in DOMAIN c.machines : SiteOfCluster[c.machines[i].cluster] \in Range(SiteOfCluster)
    <3> TAKE i \in DOMAIN c.machines
    <3>1. c.machines[i] \in MachineOK(c)
      BY EntryIs DEF FinalOK
    <3>2. c.machines[i].cluster \in DOMAIN SiteOfCluster
      BY <3>1 DEF MachineOK
    <3> QED
      BY <3>2 DEF Range
  <2>2. \A i \in DOMAIN c.networks : c.networks[i].site \in Range(SiteOfCluster)
    <3> TAKE i \in DOMAIN c.networks
    <3>1. c.networks[i] \in NetworkOK(c)
      BY EntryIs DEF FinalOK
    <3> QED
      BY <3>1 DEF NetworkOK
  <2> QED
    BY <2>1, <2>2 DEF JobSites
<1> HIDE DEF JobSites
<1> QED
  BY <1>1, <1>2, <1>3, <1>4 DEF JobRecords

\* Jobs hold finitely much.
LEMMA JobsFinite ==
  ASSUME NEW jobs \in JobRecords
  PROVE  IsFiniteSet(jobs.nodes) /\ IsFiniteSet(jobs.nets)
<1>1. jobs.nodes \in SUBSET G5kNodes /\ jobs.nets \in SUBSET (ToSet(NetsByName) \X Range(SiteOfCluster))
  BY DEF JobRecords
<1>2. IsFiniteSet(jobs.nodes)
  BY <1>1, FiniteNodes
<1> DEFINE N == ToSet(NetsByName)
           P == Range(SiteOfCluster)
<1>3. IsFiniteSet(N) /\ IsFiniteSet(P)
  <2>1. IsFiniteSet(N)
    <3>1. NetsByName \in Seq(DOMAIN NatureOf)
      BY G5kResourcesAssumption
    <3> QED
      BY <3>1, ListFinite
  <2>2. IsFiniteSet(P)
    <3>1. IsFiniteSet(DOMAIN SiteOfCluster)
      BY G5kResourcesAssumption
    <3> DEFINE D == DOMAIN SiteOfCluster
               g == [x \in D |-> SiteOfCluster[x]]
    <3>2. g \in [D -> P] /\ \A y \in P : \E x \in D : g[x] = y
      BY DEF Range
    <3>3. g \in Surjection(D, P)
      <4> HIDE DEF g, P, D
      <4> QED
        BY <3>2 DEF Surjection
    <3> HIDE DEF g, D, P
    <3> QED
      BY <3>1, <3>3, FS_Surjection DEF D
  <2> QED
    BY <2>1, <2>2
<1> HIDE DEF N, P
<1>4. IsFiniteSet(N \X P)
  BY <1>3, FS_Product
<1>5. jobs.nets \in SUBSET (N \X P)
  BY <1>1 DEF N, P
<1>6. IsFiniteSet(jobs.nets)
  <2> HIDE DEF JobRecords
  <2> QED
    BY <1>4, <1>5, FS_Subset
<1> QED
  BY <1>2, <1>6

\* When a grant may be nothing, all of them are.
LEMMA NothingGranted ==
  ASSUME NEW c, FinalOK(c), NoJobs \in Grants(c), NEW jobs \in Grants(c)
  PROVE  jobs = NoJobs
<1>1. JobSites(c) = {}
  <2>1. PICK n \in NodesFrom(G5kNodes, c.machines), v \in NetsFrom(c.networks) :
          NoJobs = [nodes |-> n, nets |-> v, sites |-> JobSites(c)]
    BY DEF Grants
  <2> HIDE DEF JobSites
  <2> QED
    BY <2>1 DEF NoJobs
<1>2. PICK n \in NodesFrom(G5kNodes, c.machines), v \in NetsFrom(c.networks) :
        jobs = [nodes |-> n, nets |-> v, sites |-> JobSites(c)]
  BY DEF Grants
<1>3. n = {}
  <2>1. PICK share : SharesOf(G5kNodes, c.machines, share) /\ n = UNION Range(share)
    BY <1>2, NodesFromIs
  <2>2. ASSUME NEW i \in DOMAIN c.machines PROVE share[i] = {}
    <3>1. c.machines[i] \in MachineOK(c)
      BY EntryIs DEF FinalOK
    <3>2. c.machines[i].nodes \in Nat
      BY <3>1 DEF MachineOK
    <3>3. ~(c.machines[i].nodes > 0)
      BY <1>1 DEF JobSites
    <3>4. share[i] \subseteq G5kNodes /\ Cardinality(share[i]) = 0
      BY <2>1, <3>2, <3>3 DEF SharesOf
    <3>5. IsFiniteSet(share[i])
      BY <3>4, FiniteNodes
    <3> QED
      BY <3>4, <3>5, FS_EmptySet
  <2>3. DOMAIN share = DOMAIN c.machines
    BY <2>1 DEF SharesOf
  <2> QED
    BY <2>1, <2>2, <2>3 DEF Range
<1>4. v = {}
  <2>1. PICK share : /\ DOMAIN share = DOMAIN c.networks /\ v = UNION Range(share)
                     /\ \A k \in DOMAIN c.networks :
                          share[k] \subseteq Available(c.networks[k]) /\ Cardinality(share[k]) = Pieces(c.networks[k])
    BY <1>2, NetsFromAre
  <2>2. ASSUME NEW k \in DOMAIN c.networks PROVE share[k] = {}
    <3>1. c.networks[k].type = "prod"
      BY <1>1 DEF JobSites
    <3>2. share[k] \subseteq Available(c.networks[k]) /\ Cardinality(share[k]) = 0
      BY <2>1, <3>1 DEF Pieces
    <3>3. IsFiniteSet(share[k])
      <4> DEFINE N == ToSet(NetsByName)
                 A == {d \in N : NatureOf[d] = Nature(c.networks[k])}
                 site == c.networks[k].site
      <4>1. IsFiniteSet(N)
        <5>1. NetsByName \in Seq(DOMAIN NatureOf)
          BY G5kResourcesAssumption
        <5> QED
          BY <5>1, ListFinite
      <4>2. IsFiniteSet(A)
        <5>1. A \subseteq N
          OBVIOUS
        <5> HIDE DEF A
        <5> QED
          BY <4>1, <5>1, FS_Subset
      <4>3. Available(c.networks[k]) = A \X {site}
        BY DEF Available
      <4> HIDE DEF A, site
      <4>4. IsFiniteSet({site})
        BY FS_Singleton
      <4>5. IsFiniteSet(A \X {site})
        BY <4>2, <4>4, FS_Product
      <4> QED
        BY <3>2, <4>3, <4>5, FS_Subset
    <3> QED
      BY <3>2, <3>3, FS_EmptySet
  <2> QED
    BY <2>1, <2>2 DEF Range
<1> QED
  BY <1>1, <1>2, <1>3, <1>4 DEF NoJobs

-----------------------------------------------------------------------------
(* The inductive invariant of the provider of Grid'5000 *)

\* The mapping of what the jobs hold.
Mapping(c, jobs) == [hosts |-> Join(c, MapNodes(c, jobs).groups), nets |-> MapNets(c, jobs).nets]

\* The jobs hold what was granted, unless they were made by hand.
HeldInv ==
    /\ oar \in JobRecords
    /\ (oar # NoJobs \/ g5k.at # "out" \/ mapped # <<>>) => g5kConf.static \/ oar \in Grants(g5kConf)
    /\ g5kConf.static => oar \in HandMade \cup {NoJobs}

\* A client is a record; before the mapping it has nothing, after mirror_state no card
\* is left to move.
ClientInv ==
    /\ g5k = [at |-> g5k.at, hosts |-> g5k.hosts, nets |-> g5k.nets, moves |-> g5k.moves, found |-> g5k.found]
    /\ g5k.at \in {"out", "reserved", "mirror", "wait", "dhcp", "ready"}
    /\ g5k.at \in {"out", "reserved"} => g5k.hosts = <<>> /\ g5k.nets = <<>> /\ g5k.moves = <<>>
    /\ g5k.at # "mirror" => g5k.moves = <<>>
    /\ g5k.at \in {"out", "reserved", "mirror"} => g5k.found = {}
    /\ g5k.at \in {"wait", "dhcp"} => g5kConf.deploy

\* There is one mapping, and a client that has one has that one.
MapInv ==
    /\ mapped \in {<<>>, <<Mapping(g5kConf, oar)>>}
    /\ g5k.at \notin {"out", "reserved"} =>
          /\ mapped # <<>>
          /\ g5k.hosts = Mapping(g5kConf, oar).hosts /\ g5k.nets = Mapping(g5kConf, oar).nets
          /\ NamesOf(oar.nodes) \in SetToSeqs(oar.nodes) /\ MapNodes(g5kConf, oar).ok /\ MapNets(g5kConf, oar).ok

\* A card is where it has to be, or waits to be moved.
MoveMade(m) == m.vlan # "missing" /\ (m.vlan \in {"none", "DEFAULT"} \/ vlanOf[m.node][m.card] = m.vlan)
CardsInv ==
    /\ vlanOf = [n \in G5kNodes |-> vlanOf[n]]
    /\ \A n \in G5kNodes : vlanOf[n] \in [0..CardsOf[ClusterOf[n]] -> ToSet(NetsByName) \cup {"DEFAULT"}]
    /\ ~g5kConf.deploy => \A n \in G5kNodes : vlanOf[n][0] = "DEFAULT"
    /\ g5k.at \notin {"out", "reserved"} =>
          /\ g5k.moves \in Seq(MovesWanted(g5kConf, g5k.nets, g5k.hosts))
          /\ \A m \in MovesWanted(g5kConf, g5k.nets, g5k.hosts) : m \in ToSet(g5k.moves) \/ MoveMade(m)

\* The hosts that are handed over have their mounted card in the primary network.
MountedOn(h) == IF VlanId(PrimaryOf(h)) = "none" THEN "DEFAULT" ELSE VlanId(PrimaryOf(h))
HandedInv ==
    /\ \A h \in g5k.found :
          /\ \E g \in ToSet(g5k.hosts) : g.node = h.node /\ g.group = h.group
          /\ h.address = AddressOf(h) /\ vlanOf[h.node][0] = MountedOn(h)
    /\ g5k.at = "ready" /\ g5kConf.deploy /\ g5kConf.dhcp => \A h \in g5k.found : CardsFor(h) \subseteq cardsUp
    /\ cardsUp \subseteq UNION {{n} \X (1..CardsOf[ClusterOf[n]]) : n \in G5kNodes}

\* The inductive invariant.
G5kIInv ==
    /\ FinalOK(g5kConf) /\ SlotInv /\ HeldInv /\ ClientInv /\ MapInv /\ CardsInv /\ HandedInv
    /\ Len(mapped) <= 1 /\ g5kCalls \in 0..MaxG5kCalls

-----------------------------------------------------------------------------
(* What the invariant says *)

\* Where a client has no mapping.
OutSteps == {"out", "reserved"}

\* What a client that has its mapping knows of it.
LEMMA ClientKnows ==
  ASSUME FinalOK(g5kConf), HeldInv, MapInv, g5k.at \notin OutSteps
  PROVE  /\ HostsMapped(g5kConf, g5k.hosts) /\ GroupsServed(g5kConf, oar.nodes, g5k.hosts)
         /\ NetsMade(g5kConf, g5k.nets)
         /\ \A a \in DOMAIN g5k.hosts : g5k.hosts[a].node \in oar.nodes
<1> DEFINE c == g5kConf
           names == NamesOf(oar.nodes)
<1>1. /\ g5k.hosts = Mapping(c, oar).hosts /\ g5k.nets = Mapping(c, oar).nets
      /\ names \in SetToSeqs(oar.nodes) /\ MapNodes(c, oar).ok /\ MapNets(c, oar).ok
  BY DEF MapInv, OutSteps
<1>2. oar.nodes \in SUBSET G5kNodes
  BY DEF HeldInv, JobRecords
<1>3. Mapping(c, oar).hosts = Join(c, ConcreteNodes(c, names).groups)
  BY DEF Mapping, MapNodes
<1>4. Mapping(c, oar).nets = ConcreteNetworks(c, NamesOf(oar.nets), oar.sites).nets
  BY DEF Mapping, MapNets
<1>5. ConcreteNodes(c, names).ok /\ ConcreteNetworks(c, NamesOf(oar.nets), oar.sites).ok
  BY <1>1 DEF MapNodes, MapNets
<1>6. LET hosts == Join(c, ConcreteNodes(c, names).groups)
      IN  /\ HostsMapped(c, hosts) /\ GroupsServed(c, oar.nodes, hosts)
          /\ \A a \in DOMAIN hosts : hosts[a].node \in oar.nodes
  <2> HIDE DEF c, names
  <2> QED
    BY <1>1, <1>2, <1>5, NodesMapped DEF c
<1>7. NetsMade(c, ConcreteNetworks(c, NamesOf(oar.nets), oar.sites).nets)
  BY <1>5, NetsMapped
<1> QED
  BY <1>1, <1>3, <1>4, <1>6, <1>7

\* There is one mapping.
LEMMA MappingTold == ASSUME ClientInv, MapInv PROVE MappingFixed
<1> SUFFICES ASSUME g5k.at \notin OutSteps
             PROVE  mapped = <<[hosts |-> g5k.hosts, nets |-> g5k.nets]>>
  BY DEF MappingFixed, OutSteps
<1> DEFINE m == Mapping(g5kConf, oar)
<1>1. mapped = <<m>> /\ g5k.hosts = m.hosts /\ g5k.nets = m.nets
  BY DEF MapInv, OutSteps
<1>2. m = [hosts |-> m.hosts, nets |-> m.nets]
  BY DEF Mapping
<1> HIDE DEF m
<1> QED
  BY <1>1, <1>2

\* The groups get what they ask for.
LEMMA GroupsTold ==
  ASSUME FinalOK(g5kConf), HeldInv, ClientInv, MapInv
  PROVE  GroupsAsAsked
<1> DEFINE M == g5kConf.machines
           share(i) == NodesIn(g5k.hosts, i)
<1> SUFFICES ASSUME g5k.at \notin OutSteps
             PROVE  /\ Cardinality({h.node : h \in ToSet(g5k.hosts)}) = Len(g5k.hosts)
                    /\ \A i \in DOMAIN M :
                          /\ share(i) \subseteq Eligible(M[i])
                          /\ Cardinality(share(i)) >= M[i].min
                          /\ M[i].min <= M[i].nodes => Cardinality(share(i)) <= M[i].nodes
                    /\ \/ g5kConf.static
                       \/ \E i \in DOMAIN M : M[i].min > M[i].nodes
                       \/ \E i, j \in DOMAIN M : i # j /\ ToSet(M[i].servers) \cap ToSet(M[j].servers) # {}
                       \/ \A i \in DOMAIN M : Cardinality(share(i)) = M[i].nodes
  BY DEF GroupsAsAsked, OutSteps, NodesIn
<1> HIDE DEF share, M
<1>1. GroupsServed(g5kConf, oar.nodes, g5k.hosts)
  BY ClientKnows
<1>2. g5kConf.static \/ oar.nodes \in NodesFrom(G5kNodes, g5kConf.machines)
  <2>1. g5kConf.static \/ oar \in Grants(g5kConf)
    BY DEF HeldInv, OutSteps
  <2> QED
    BY <2>1, GrantsTyped
<1>3. ~ListsApart(g5kConf.machines) => \E i, j \in DOMAIN M : i # j /\ ToSet(M[i].servers) \cap ToSet(M[j].servers) # {}
  BY DEF ListsApart, M
<1> QED
  BY <1>1, <1>2, <1>3 DEF GroupsServed, share, M

\* The cards are where they have to be.
LEMMA CardsTold ==
  ASSUME G5kIInv
  PROVE  CardsAsAsked
<1> USE DEF G5kIInv
<1> SUFFICES ASSUME g5k.at = "ready", NEW h \in g5k.found
             PROVE  LET wanted == Secondary(g5kConf, g5k.nets, h)
                        primary == VlanId(PrimaryOf(h))
                    IN  /\ primary \notin {"none", "DEFAULT"} => vlanOf[h.node][0] = primary
                        /\ h.address = IF vlanOf[h.node][0] = "DEFAULT" THEN "plain" ELSE vlanOf[h.node][0]
                        /\ \A i \in DOMAIN wanted :
                              /\ VlanId(wanted[i]) \notin {"none", "DEFAULT"} => vlanOf[h.node][i] = VlanId(wanted[i])
                              /\ g5kConf.deploy /\ g5kConf.dhcp => <<h.node, i>> \in cardsUp
  BY Zenon DEF CardsAsAsked
<1> DEFINE c == g5kConf
           w == Secondary(c, g5k.nets, h)
           primary == VlanId(PrimaryOf(h))
           n == Len(c.machines[h.group].secondary)
<1>1. h.address = AddressOf(h) /\ vlanOf[h.node][0] = MountedOn(h)
  BY DEF HandedInv
<1>2. PICK g \in ToSet(g5k.hosts) : g.node = h.node /\ g.group = h.group
  BY DEF HandedInv
<1>3. HostsMapped(c, g5k.hosts) /\ g5k.moves = <<>> /\ g5k.at \notin OutSteps
  BY ClientKnows DEF ClientInv, OutSteps
<1>4. g.group \in DOMAIN c.machines
  <2>1. PICK k \in DOMAIN g5k.hosts : g = g5k.hosts[k]
    BY DEF ToSet
  <2>2. g \in [node : G5kNodes, group : DOMAIN c.machines]
    BY <1>3, <2>1, EntryIs DEF HostsMapped
  <2> QED
    BY <2>2
<1>5. \A m \in HostMoves(c, g5k.nets, g) : MoveMade(m)
  <2>1. HostMoves(c, g5k.nets, g) \subseteq MovesWanted(c, g5k.nets, g5k.hosts)
    BY DEF MovesWanted
  <2>2. \A m \in MovesWanted(c, g5k.nets, g5k.hosts) : m \in ToSet(g5k.moves) \/ MoveMade(m)
    BY <1>3 DEF CardsInv, OutSteps
  <2>3. ToSet(g5k.moves) = {}
    BY <1>3 DEF ToSet
  <2> QED
    BY <2>1, <2>2, <2>3
<1>6. DOMAIN w = 1..n /\ n \in Nat /\ DOMAIN c.machines[h.group].secondary = 1..n
  BY <1>2, <1>4, SecondariesOf
<1>7. w = Secondary(c, g5k.nets, g) /\ n = Len(c.machines[g.group].secondary)
  BY <1>2 DEF Secondary
<1>8. ASSUME NEW i \in DOMAIN w, VlanId(w[i]) \notin {"none", "DEFAULT"}
      PROVE  vlanOf[h.node][i] = VlanId(w[i])
  <2> DEFINE absent == [node |-> g.node, card |-> 0, vlan |-> "missing"]
             m == [node |-> g.node, card |-> i, vlan |-> VlanId(w[i])]
  <2>1. CASE n > CardsOf[ClusterOf[g.node]]
    <3>1. absent \in HostMoves(c, g5k.nets, g)
      BY <1>7, <2>1, Zenon DEF HostMoves
    <3>2. MoveMade(absent)
      BY <1>5, <3>1
    <3> QED
      BY <3>2 DEF MoveMade
  <2>2. CASE ~(n > CardsOf[ClusterOf[g.node]])
    <3>1. HostMoves(c, g5k.nets, g)
            = {[node |-> g.node, card |-> j, vlan |-> VlanId(Secondary(c, g5k.nets, g)[j])] : j \in 1..n}
      BY <1>7, <2>2, Zenon DEF HostMoves
    <3>2. m \in HostMoves(c, g5k.nets, g)
      BY <1>6, <1>7, <1>8, <3>1, Zenon
    <3>3. MoveMade(m)
      BY <1>5, <3>2
    <3> DEFINE v == VlanId(w[i])
    <3>4. m.node = g.node /\ m.card = i /\ m.vlan = v
      <4> HIDE DEF v
      <4> QED
        BY DEF v
    <3>5. v \notin {"none", "DEFAULT"}
      BY <1>8
    <3> HIDE DEF m, v
    <3>6. vlanOf[g.node][i] = v
      BY <3>3, <3>4, <3>5 DEF MoveMade
    <3> QED
      BY <1>2, <3>6 DEF v
  <2> QED
    BY <2>1, <2>2
<1>9. ASSUME NEW i \in DOMAIN w, c.deploy, c.dhcp
      PROVE  <<h.node, i>> \in cardsUp
  <2>1. CardsFor(h) \subseteq cardsUp
    BY <1>9 DEF HandedInv
  <2>2. <<h.node, i>> \in CardsFor(h)
    BY <1>6, <1>9 DEF CardsFor
  <2> QED
    BY <2>1, <2>2
<1>10. primary \notin {"none", "DEFAULT"} => vlanOf[h.node][0] = primary
  BY <1>1 DEF MountedOn
<1>11. h.address = IF vlanOf[h.node][0] = "DEFAULT" THEN "plain" ELSE vlanOf[h.node][0]
  BY <1>1 DEF AddressOf, MountedOn
<1> QED
  BY <1>8, <1>9, <1>10, <1>11

\* The invariant says what the provider promises.
LEMMA G5kTold == G5kIInv => G5kReadyAsAsked
  BY SlotTold, MappingTold, GroupsTold, CardsTold DEF G5kIInv, G5kReadyAsAsked

-----------------------------------------------------------------------------
(* The steps of the provider of Grid'5000 *)

\* It holds at first,
LEMMA G5kInitOK == G5kInit => G5kIInv
<1> SUFFICES ASSUME G5kInit PROVE G5kIInv
  OBVIOUS
<1>1. FinalOK(g5kConf)
  <2>1. PICK c \in G5kConfs : g5kConf = Finalized(c)
    BY DEF G5kInit
  <2> QED
    BY <2>1, FinalizedOK
<1>2. SlotInv
  BY DEF G5kInit, SlotInv, NotAsked
<1>3. /\ oar \in IF g5kConf.static THEN HandMade ELSE {NoJobs}
      /\ g5k = OutOfCall /\ mapped = <<>> /\ g5kCalls = 0 /\ vlanOf = Default /\ cardsUp = {}
  BY DEF G5kInit
<1>4. HeldInv
  <2>1. \A jobs \in HandMade : jobs \in JobRecords
    BY G5kResourcesAssumption DEF JobRecords
  <2>2. NoJobs \in JobRecords
    BY DEF NoJobs, JobRecords
  <2>3. g5k.at = "out"
    BY <1>3 DEF OutOfCall
  <2> QED
    BY <1>3, <2>1, <2>2, <2>3 DEF HeldInv
<1>5. ClientInv
  BY <1>3 DEF ClientInv, OutOfCall
<1>6. MapInv
  BY <1>3 DEF MapInv, OutOfCall
<1>7. CardsInv
  <2>1. \A n \in G5kNodes : CardsOf[ClusterOf[n]] \in Nat
    BY G5kResourcesAssumption
  <2> QED
    BY <1>3, <2>1 DEF CardsInv, OutOfCall, Default
<1>8. HandedInv
  BY <1>3 DEF HandedInv, OutOfCall
<1>9. Len(mapped) <= 1 /\ g5kCalls \in 0..MaxG5kCalls
  BY <1>3, G5kResourcesAssumption
<1> QED
  BY <1>1, <1>2, <1>4, <1>5, <1>6, <1>7, <1>8, <1>9 DEF G5kIInv

\* All but the answer of test_slot.
ProviderInv ==
    /\ FinalOK(g5kConf) /\ HeldInv /\ ClientInv /\ MapInv /\ CardsInv /\ HandedInv
    /\ Len(mapped) <= 1 /\ g5kCalls \in 0..MaxG5kCalls

\* and it only depends on these variables.
LEMMA ProviderStays ==
  ASSUME ProviderInv, UNCHANGED <<g5kConf, oar, vlanOf, cardsUp, g5k, mapped, g5kCalls>>
  PROVE  ProviderInv'
<1> USE DEF ProviderInv
<1>1. HeldInv'
  BY DEF HeldInv
<1>2. ClientInv'
  BY DEF ClientInv
<1>3. MapInv'
  BY DEF MapInv
<1>4. CardsInv'
  BY DEF CardsInv, MoveMade
<1>5. HandedInv'
  BY DEF HandedInv, AddressOf, MountedOn, PrimaryOf, CardsFor
<1> QED
  BY <1>1, <1>2, <1>3, <1>4, <1>5

\* When a client gives up or is killed, cards and mapping stay.
LEMMA ClientGone ==
  ASSUME ProviderInv, g5k' = OutOfCall, UNCHANGED <<g5kConf, oar, mapped, g5kCalls>>, CardsInv',
         cardsUp' \subseteq UNION {{n} \X (1..CardsOf[ClusterOf[n]]) : n \in G5kNodes}
  PROVE  ProviderInv'
<1> USE DEF ProviderInv
<1>0. g5k'.at = "out" /\ g5k'.found = {}
  BY DEF OutOfCall
<1>1. HeldInv'
  BY <1>0 DEF HeldInv
<1>2. ClientInv'
  BY DEF ClientInv, OutOfCall
<1>3. MapInv'
  BY <1>0 DEF MapInv
<1>5. HandedInv'
  BY <1>0 DEF HandedInv
<1> QED
  BY <1>1, <1>2, <1>3, <1>5

\* Cards that stay while the client is out of its mapping.
LEMMA CardsStay ==
  ASSUME CardsInv, UNCHANGED <<g5kConf, vlanOf>>, g5k'.at \in OutSteps
  PROVE  CardsInv'
BY DEF CardsInv, OutSteps

\* reserve: jobs that are there stay, and the mapping is theirs.
LEMMA ReserveG5kOK ==
  ASSUME ProviderInv, ReserveG5k
  PROVE  ProviderInv'
<1> USE DEF ProviderInv
<1>0. /\ g5k' = [OutOfCall EXCEPT !.at = "reserved"] /\ g5kCalls < MaxG5kCalls /\ g5kCalls' = g5kCalls + 1
      /\ UNCHANGED <<g5kConf, vlanOf, cardsUp, mapped>>
      /\ oar' \in IF oar # NoJobs THEN {oar} ELSE IF g5kConf.static THEN {} ELSE Grants(g5kConf)
  BY DEF ReserveG5k
<1>1. g5k'.at = "reserved" /\ g5k'.found = {} /\ g5k'.at \in OutSteps
  BY <1>0 DEF OutOfCall, OutSteps
<1>2. g5kConf.static \/ oar' \in Grants(g5kConf)
  BY <1>0 DEF HeldInv
<1>3. oar' \in JobRecords
  BY <1>0, GrantsTyped DEF HeldInv
<1>4. mapped # <<>> => oar' = oar
  <2> SUFFICES ASSUME mapped # <<>>, oar = NoJobs PROVE oar' = oar
    BY <1>0
  <2>1. ~g5kConf.static /\ oar' \in Grants(g5kConf) /\ oar \in Grants(g5kConf)
    BY <1>0 DEF HeldInv
  <2> QED
    BY <2>1, NothingGranted
<1>5. HeldInv'
  <2>1. g5kConf.static => oar' = oar
    BY <1>0
  <2> QED
    BY <1>0, <1>2, <1>3, <2>1 DEF HeldInv
<1>6. ClientInv'
  BY <1>0 DEF ClientInv, OutOfCall
<1>7. MapInv'
  BY <1>0, <1>1, <1>4 DEF MapInv
<1>8. CardsInv'
  BY <1>0, <1>1, CardsStay
<1>9. HandedInv'
  BY <1>0, <1>1 DEF HandedInv
<1>10. g5kCalls' \in 0..MaxG5kCalls
  BY <1>0, G5kResourcesAssumption
<1> QED
  BY <1>0, <1>5, <1>6, <1>7, <1>8, <1>9, <1>10

\* The end of the jobs takes all of it away.
LEMMA G5kJobsEndOK ==
  ASSUME ProviderInv, G5kJobsEnd
  PROVE  ProviderInv'
<1> USE DEF ProviderInv
<1>0. /\ oar' = NoJobs /\ vlanOf' = Default /\ cardsUp' = {} /\ mapped' = <<>> /\ g5k' = OutOfCall
      /\ UNCHANGED <<g5kConf, g5kCalls>>
  BY DEF G5kJobsEnd
<1>1. g5k'.at = "out" /\ g5k'.found = {}
  BY <1>0 DEF OutOfCall
<1>2. HeldInv'
  BY <1>0, <1>1 DEF HeldInv, NoJobs, JobRecords
<1>3. ClientInv'
  BY <1>0 DEF ClientInv, OutOfCall
<1>4. MapInv'
  BY <1>0, <1>1 DEF MapInv
<1>5. CardsInv'
  <2>1. \A n \in G5kNodes : CardsOf[ClusterOf[n]] \in Nat
    BY G5kResourcesAssumption
  <2> QED
    BY <1>0, <1>1, <2>1 DEF CardsInv, Default
<1>6. HandedInv'
  BY <1>0, <1>1 DEF HandedInv
<1> QED
  BY <1>0, <1>2, <1>3, <1>4, <1>5, <1>6

\* A client that is killed leaves cards and jobs as they are.
LEMMA G5kKilledOK ==
  ASSUME ProviderInv, G5kKilled
  PROVE  ProviderInv'
<1>0. g5k' = OutOfCall /\ UNCHANGED <<g5kConf, oar, vlanOf, cardsUp, mapped, g5kCalls>>
  BY DEF G5kKilled
<1>1. g5k'.at \in OutSteps
  BY <1>0 DEF OutOfCall, OutSteps
<1>2. CardsInv'
  BY <1>0, <1>1, CardsStay DEF ProviderInv
<1>3. cardsUp' \subseteq UNION {{n} \X (1..CardsOf[ClusterOf[n]]) : n \in G5kNodes}
  BY <1>0 DEF ProviderInv, HandedInv
<1> QED
  BY <1>0, <1>2, <1>3, ClientGone

\* The mapping is that of an earlier call, if there was one.
LEMMA ConcretizeOK ==
  ASSUME ProviderInv, Concretize
  PROVE  ProviderInv'
<1> USE DEF ProviderInv
<1> DEFINE c == g5kConf
<1>0. UNCHANGED <<g5kConf, oar, vlanOf, cardsUp, g5kCalls>> /\ g5k.at = "reserved"
  BY DEF Concretize
<1>1. oar \in JobRecords /\ IsFiniteSet(oar.nodes) /\ IsFiniteSet(oar.nets)
  BY JobsFinite DEF HeldInv
<1>2. PICK names \in SetToSeqs(oar.nodes), nets \in SetToSeqs(oar.nets) :
        LET nodes == ConcreteNodes(g5kConf, names)
            networks == ConcreteNetworks(g5kConf, nets, oar.sites)
            hosts == Join(g5kConf, nodes.groups)
        IN  IF nodes.ok /\ networks.ok
            THEN /\ g5k' = [at |-> "mirror", hosts |-> hosts, nets |-> networks.nets,
                            moves |-> CardMoves(g5kConf, networks.nets, hosts), found |-> {}]
                 /\ mapped' = IF mapped = <<>> THEN <<[hosts |-> hosts, nets |-> networks.nets]>> ELSE mapped
            ELSE g5k' = OutOfCall /\ UNCHANGED mapped
  BY Zenon DEF Concretize
<1>3. ConcreteNodes(c, names) = MapNodes(c, oar) /\ ConcreteNetworks(c, nets, oar.sites) = MapNets(c, oar)
  BY <1>1, MappingIs
<1> DEFINE hosts == Join(c, MapNodes(c, oar).groups)
           all == MapNets(c, oar).nets
           moves == CardMoves(c, all, hosts)
           m == [hosts |-> hosts, nets |-> all]
<1>4. CASE MapNodes(c, oar).ok /\ MapNets(c, oar).ok
  <2>1. /\ g5k' = [at |-> "mirror", hosts |-> hosts, nets |-> all, moves |-> moves, found |-> {}]
        /\ mapped' = IF mapped = <<>> THEN <<m>> ELSE mapped
    BY <1>2, <1>3, <1>4, Zenon
  <2>2. m = Mapping(c, oar)
    BY DEF Mapping
  <2>3. NamesOf(oar.nodes) \in SetToSeqs(oar.nodes) /\ oar.nodes \in SUBSET G5kNodes
    BY <1>1, ChosenNames DEF JobRecords
  <2>4. HostsMapped(c, hosts)
    <3> DEFINE chosen == NamesOf(oar.nodes)
               all2 == Join(c, ConcreteNodes(c, chosen).groups)
    <3>1. ConcreteNodes(c, chosen).ok /\ chosen \in SetToSeqs(oar.nodes)
      BY <1>4, <2>3 DEF MapNodes
    <3>2. HostsMapped(c, all2)
      <4> HIDE DEF chosen
      <4> QED
        BY <2>3, <3>1, NodesMapped
    <3> QED
      BY <3>2 DEF MapNodes
  <2> DEFINE step == g5k'
  <2> HIDE DEF hosts, all, moves, step, c
  <2>5. /\ step.at = "mirror" /\ step.hosts = hosts /\ step.nets = all /\ step.moves = moves /\ step.found = {}
        /\ step = [at |-> step.at, hosts |-> step.hosts, nets |-> step.nets, moves |-> step.moves, found |-> step.found]
    BY <2>1 DEF step
  <2>6. m.hosts = hosts /\ m.nets = all
    OBVIOUS
  <2> HIDE DEF m
  <2>7. mapped' = <<m>>
    BY <2>1, <2>2 DEF MapInv, c
  <2> USE DEF step
  <2>8. HeldInv'
    <3>1. c.static \/ oar \in Grants(c)
      BY <1>0 DEF HeldInv, c
    <3> QED
      BY <1>0, <3>1 DEF HeldInv, c
  <2>9. ClientInv'
    BY <2>5 DEF ClientInv
  <2>10. MapInv'
    <3>1. mapped' # <<>>
      BY <2>7
    <3> QED
      BY <1>0, <1>4, <2>2, <2>3, <2>5, <2>6, <2>7, <3>1 DEF MapInv, c
  <2>11. CardsInv'
    <3>1. moves \in Seq(MovesWanted(c, all, hosts)) /\ ToSet(moves) = MovesWanted(c, all, hosts)
      BY <2>4, MovesAre DEF moves, c
    <3>2. step.moves \in Seq(MovesWanted(c, step.nets, step.hosts)) /\ ToSet(step.moves) = MovesWanted(c, step.nets, step.hosts)
      BY <2>5, <3>1
    <3> QED
      BY <1>0, <3>2 DEF CardsInv, c
  <2>12. HandedInv'
    BY <1>0, <2>5 DEF HandedInv
  <2>13. Len(mapped') <= 1
    BY <2>7
  <2> QED
    BY <1>0, <2>8, <2>9, <2>10, <2>11, <2>12, <2>13
<1>5. CASE ~(MapNodes(c, oar).ok /\ MapNets(c, oar).ok)
  <2>1. g5k' = OutOfCall /\ UNCHANGED mapped
    BY <1>2, <1>3, <1>5, Zenon
  <2>2. g5k'.at \in OutSteps
    BY <2>1 DEF OutOfCall, OutSteps
  <2>3. CardsInv'
    BY <1>0, <2>2, CardsStay
  <2>4. cardsUp' \subseteq UNION {{n} \X (1..CardsOf[ClusterOf[n]]) : n \in G5kNodes}
    BY <1>0 DEF HandedInv
  <2> QED
    BY <1>0, <2>1, <2>3, <2>4, ClientGone
<1> QED
  BY <1>4, <1>5

\* A client that goes on, with the hosts and the networks it has.
LEMMA ClientMovesOn ==
  ASSUME ProviderInv, g5k.at \notin OutSteps, UNCHANGED <<g5kConf, oar, mapped, g5kCalls>>,
         g5k'.at \notin OutSteps, g5k'.hosts = g5k.hosts, g5k'.nets = g5k.nets
  PROVE  HeldInv' /\ MapInv'
<1> USE DEF ProviderInv
<1>1. HeldInv'
  <2>1. g5kConf.static \/ oar \in Grants(g5kConf)
    BY DEF HeldInv, OutSteps
  <2> QED
    BY <2>1 DEF HeldInv
<1>2. MapInv'
  BY DEF MapInv, OutSteps
<1> QED
  BY <1>1, <1>2

\* What is at the head of a queue, and what remains.
LEMMA SentStays ==
  ASSUME NEW T, NEW s \in Seq(T), s # <<>>
  PROVE  /\ Head(s) \in T /\ Tail(s) \in Seq(T)
         /\ \A x \in ToSet(s) : x = Head(s) \/ x \in ToSet(Tail(s))
<1>1. Head(s) = s[1] /\ Len(Tail(s)) = Len(s) - 1 /\ DOMAIN s = 1..Len(s) /\ DOMAIN Tail(s) = 1..(Len(s) - 1)
  OBVIOUS
<1>2. \A i \in 1..(Len(s) - 1) : Tail(s)[i] = s[i + 1]
  OBVIOUS
<1>3. ASSUME NEW x \in ToSet(s), x # Head(s) PROVE x \in ToSet(Tail(s))
  <2>1. PICK i \in 1..Len(s) : s[i] = x
    BY <1>1 DEF ToSet
  <2>2. i - 1 \in 1..(Len(s) - 1) /\ Tail(s)[i - 1] = x
    BY <1>1, <1>2, <1>3, <2>1
  <2> QED
    BY <1>1, <2>2 DEF ToSet
<1> QED
  BY <1>3

\* A card is moved; the others stay, those of other hosts too.
LEMMA MoveCardOK ==
  ASSUME ProviderInv, MoveCard
  PROVE  ProviderInv'
<1> USE DEF ProviderInv
<1> DEFINE c == g5kConf
           W == MovesWanted(c, g5k.nets, g5k.hosts)
<1>a. PICK move : move = Head(g5k.moves)
  OBVIOUS
<1>0. UNCHANGED <<g5kConf, oar, cardsUp, mapped, g5kCalls>> /\ g5k.at = "mirror" /\ g5k.moves # <<>> /\ g5k.at \notin OutSteps
  BY DEF MoveCard, OutSteps
<1>1. HostsMapped(c, g5k.hosts) /\ NetsMade(c, g5k.nets)
  BY <1>0, ClientKnows
<1>2. /\ g5k.moves \in Seq(W)
      /\ \A m \in W : m \in ToSet(g5k.moves) \/ MoveMade(m)
  BY <1>0 DEF CardsInv, OutSteps
<1>3. /\ \A m \in W : m.node \in G5kNodes /\ m.card \in 0..CardsOf[ClusterOf[m.node]] /\ (m.card = 0 => m.vlan = "missing")
      /\ \A m, o \in W : m.node = o.node /\ m.card = o.card => m = o
  BY <1>1, MovesOnce
<1>4. \A m \in W : m.vlan \in ToSet(NetsByName) \cup {"DEFAULT", "none", "missing"} /\ (m.vlan = "missing" \/ m.card # 0)
  <2> TAKE m \in W
  <2>1. PICK h \in ToSet(g5k.hosts) : m \in HostMoves(c, g5k.nets, h)
    BY DEF MovesWanted
  <2>2. h.group \in DOMAIN c.machines
    <3>1. PICK k \in DOMAIN g5k.hosts : h = g5k.hosts[k]
      BY DEF ToSet
    <3>2. h \in [node : G5kNodes, group : DOMAIN c.machines]
      BY <1>1, <3>1, EntryIs DEF HostsMapped
    <3> QED
      BY <3>2
  <2>3. ASSUME NEW i \in 1..Len(c.machines[h.group].secondary)
        PROVE  VlanId(Secondary(c, g5k.nets, h)[i]) \in ToSet(NetsByName) \cup {"DEFAULT", "none"}
    <3>1. Secondary(c, g5k.nets, h)[i] = LookupNet(g5k.nets, c.machines[h.group].secondary[i])
          /\ c.machines[h.group].secondary[i] \in IdsOf(c)
      BY <2>2, SecondariesOf
    <3> QED
      BY <1>1, <3>1, LookupIs
  <2> QED
    BY <1>3, <2>1, <2>3 DEF HostMoves
<1>5. move \in W /\ Tail(g5k.moves) \in Seq(W) /\ \A m \in ToSet(g5k.moves) : m = move \/ m \in ToSet(Tail(g5k.moves))
  <2> HIDE DEF W
  <2> QED
    BY <1>0, <1>2, <1>a, SentStays
<1> HIDE DEF W
<1>6. /\ vlanOf = [n \in G5kNodes |-> vlanOf[n]]
      /\ \A n \in G5kNodes : vlanOf[n] \in [0..CardsOf[ClusterOf[n]] -> ToSet(NetsByName) \cup {"DEFAULT"}]
      /\ ~c.deploy => \A n \in G5kNodes : vlanOf[n][0] = "DEFAULT"
  BY DEF CardsInv
<1>7. ASSUME g5k' = OutOfCall, UNCHANGED vlanOf \/ CardsInv'
      PROVE  ProviderInv'
  <2>1. g5k'.at \in OutSteps
    BY <1>7 DEF OutOfCall, OutSteps
  <2>2. CardsInv'
    BY <1>0, <1>7, <2>1, CardsStay
  <2>3. cardsUp' \subseteq UNION {{n} \X (1..CardsOf[ClusterOf[n]]) : n \in G5kNodes}
    BY <1>0 DEF HandedInv
  <2> QED
    BY <1>0, <1>7, <2>2, <2>3, ClientGone
<1>8. ASSUME g5k' = [g5k EXCEPT !.moves = Tail(@)], MoveMade(move)',
             \A m \in W : MoveMade(m) => MoveMade(m)',
             vlanOf' = [n \in G5kNodes |-> vlanOf'[n]],
             \A n \in G5kNodes : vlanOf'[n] \in [0..CardsOf[ClusterOf[n]] -> ToSet(NetsByName) \cup {"DEFAULT"}],
             ~c.deploy => \A n \in G5kNodes : vlanOf'[n][0] = "DEFAULT"
      PROVE  ProviderInv'
  <2>1. /\ g5k'.at = "mirror" /\ g5k'.hosts = g5k.hosts /\ g5k'.nets = g5k.nets /\ g5k'.moves = Tail(g5k.moves)
        /\ g5k'.found = {}
        /\ g5k' = [at |-> g5k'.at, hosts |-> g5k'.hosts, nets |-> g5k'.nets, moves |-> g5k'.moves, found |-> g5k'.found]
    BY <1>0, <1>8 DEF ClientInv
  <2>2. HeldInv' /\ MapInv'
    BY <1>0, <2>1, ClientMovesOn DEF OutSteps
  <2>3. ClientInv'
    BY <1>0, <2>1 DEF ClientInv
  <2>4. \A m \in W : m \in ToSet(g5k'.moves) \/ MoveMade(m)'
    BY <1>2, <1>5, <1>8, <2>1
  <2>5. W = MovesWanted(c, g5k'.nets, g5k'.hosts) /\ c = g5kConf'
    BY <1>0, <2>1 DEF W
  <2>6. CardsInv'
    BY <1>5, <1>8, <2>1, <2>4, <2>5 DEF CardsInv
  <2>7. HandedInv'
    BY <1>0, <2>1 DEF HandedInv
  <2> QED
    BY <1>0, <2>2, <2>3, <2>6, <2>7
<1>9. CASE move.vlan = "missing"
  BY <1>7, <1>9, <1>a DEF MoveCard
<1>10. CASE move.vlan # "missing" /\ move.vlan \in {"none", "DEFAULT"}
  <2>1. g5k' = [g5k EXCEPT !.moves = Tail(@)] /\ UNCHANGED vlanOf
    BY <1>10, <1>a DEF MoveCard, AfterMove
  <2>2. MoveMade(move)'
    BY <1>10 DEF MoveMade
  <2>3. \A m \in W : MoveMade(m) => MoveMade(m)'
    BY <2>1 DEF MoveMade
  <2> QED
    BY <1>6, <1>8, <2>1, <2>2, <2>3
<1>11. CASE move.vlan # "missing" /\ move.vlan \notin {"none", "DEFAULT"}
  <2>1. PICK done \in BOOLEAN :
          /\ g5k' = AfterMove(done)
          /\ vlanOf' = IF done THEN [vlanOf EXCEPT ![move.node][move.card] = move.vlan] ELSE vlanOf
    BY <1>11, <1>a DEF MoveCard
  <2>2. CASE ~done
    BY <1>7, <2>1, <2>2 DEF AfterMove
  <2>3. CASE done
    <3>1. g5k' = [g5k EXCEPT !.moves = Tail(@)] /\ vlanOf' = [vlanOf EXCEPT ![move.node][move.card] = move.vlan]
      BY <2>1, <2>3 DEF AfterMove
    <3> DEFINE x == move.node
               y == move.card
               v == move.vlan
    <3>2. x \in G5kNodes /\ y \in 0..CardsOf[ClusterOf[x]] /\ v \in ToSet(NetsByName) /\ y # 0
      BY <1>3, <1>4, <1>5, <1>11
    <3> HIDE DEF x, y, v
    <3>3. vlanOf' = [vlanOf EXCEPT ![x] = [vlanOf[x] EXCEPT ![y] = v]]
      BY <3>1 DEF x, y, v
    <3>4. vlanOf' = [n \in G5kNodes |-> vlanOf'[n]]
      BY <1>6, <3>3
    <3>5. \A n \in G5kNodes : \A i \in 0..CardsOf[ClusterOf[n]] :
            vlanOf'[n][i] = IF n = x /\ i = y THEN v ELSE vlanOf[n][i]
      <4> TAKE n \in G5kNodes
      <4> TAKE i \in 0..CardsOf[ClusterOf[n]]
      <4>1. vlanOf'[n] = IF n = x THEN [vlanOf[x] EXCEPT ![y] = v] ELSE vlanOf[n]
        BY <1>6, <3>3
      <4>2. vlanOf[n] \in [0..CardsOf[ClusterOf[n]] -> ToSet(NetsByName) \cup {"DEFAULT"}]
        BY <1>6
      <4> QED
        BY <3>2, <4>1, <4>2
    <3>6. \A n \in G5kNodes : vlanOf'[n] \in [0..CardsOf[ClusterOf[n]] -> ToSet(NetsByName) \cup {"DEFAULT"}]
      <4> TAKE n \in G5kNodes
      <4>1. vlanOf'[n] = IF n = x THEN [vlanOf[x] EXCEPT ![y] = v] ELSE vlanOf[n]
        BY <1>6, <3>3
      <4>2. vlanOf[n] \in [0..CardsOf[ClusterOf[n]] -> ToSet(NetsByName) \cup {"DEFAULT"}]
        BY <1>6
      <4> QED
        BY <3>2, <4>1, <4>2
    <3>7. ~c.deploy => \A n \in G5kNodes : vlanOf'[n][0] = "DEFAULT"
      <4>1. \A n \in G5kNodes : 0 \in 0..CardsOf[ClusterOf[n]]
        BY G5kResourcesAssumption
      <4> QED
        BY <1>6, <3>2, <3>5, <4>1
    <3>8. MoveMade(move)'
      BY <1>11, <3>2, <3>5 DEF MoveMade, x, y, v
    <3>9. ASSUME NEW m \in W, MoveMade(m) PROVE MoveMade(m)'
      <4>1. m.node \in G5kNodes /\ m.card \in 0..CardsOf[ClusterOf[m.node]]
        BY <1>3
      <4>2. CASE m.node = x /\ m.card = y
        <5>1. m = move
          BY <1>3, <1>5, <4>2 DEF x, y
        <5> QED
          BY <3>8, <5>1
      <4>3. CASE ~(m.node = x /\ m.card = y)
        <5>1. vlanOf'[m.node][m.card] = vlanOf[m.node][m.card]
          BY <3>5, <4>1, <4>3
        <5> QED
          BY <3>9, <5>1 DEF MoveMade
      <4> QED
        BY <4>2, <4>3
    <3> QED
      BY <1>8, <3>1, <3>4, <3>6, <3>7, <3>8, <3>9
  <2> QED
    BY <2>2, <2>3
<1> QED
  BY <1>9, <1>10, <1>11

\* The group of a host has a primary network, whose VLAN is one of the testbed.
LEMMA PrimaryIs ==
  ASSUME ProviderInv, g5k.at \notin OutSteps, NEW h \in ToSet(g5k.hosts)
  PROVE  /\ h.node \in G5kNodes /\ h.group \in DOMAIN g5kConf.machines
         /\ VlanId(PrimaryOf(h)) \in ToSet(NetsByName) \cup {"DEFAULT", "none"}
         /\ ~HasKavlan(g5kConf) => VlanId(PrimaryOf(h)) \in {"DEFAULT", "none"}
         /\ \A g \in ToSet(g5k.hosts) : g.node = h.node => g = h
<1> USE DEF ProviderInv
<1>1. HostsMapped(g5kConf, g5k.hosts) /\ NetsMade(g5kConf, g5k.nets)
  BY ClientKnows
<1>2. PICK k \in DOMAIN g5k.hosts : h = g5k.hosts[k]
  BY DEF ToSet
<1>3. h \in [node : G5kNodes, group : DOMAIN g5kConf.machines]
  BY <1>1, <1>2, EntryIs DEF HostsMapped
<1>4. h.node \in G5kNodes /\ h.group \in DOMAIN g5kConf.machines
  BY <1>3
<1>5. g5kConf.machines[h.group].primary \in IdsOf(g5kConf)
  BY <1>4 DEF FinalOK
<1>6. /\ VlanId(PrimaryOf(h)) \in ToSet(NetsByName) \cup {"DEFAULT", "none"}
      /\ ~HasKavlan(g5kConf) => VlanId(PrimaryOf(h)) \in {"DEFAULT", "none"}
  BY <1>1, <1>5, LookupIs DEF PrimaryOf
<1>7. \A g \in ToSet(g5k.hosts) : g.node = h.node => g = h
  BY <1>1 DEF HostsMapped, ToSet
<1> QED
  BY <1>4, <1>6, <1>7

\* The names and the VLANs of hosts are those of their groups.
LEMMA NamesOfGroups ==
  ASSUME UNCHANGED g5kConf, g5k'.nets = g5k.nets, NEW h, NEW g, h.group = g.group
  PROVE  /\ AddressOf(h)' = AddressOf(g) /\ MountedOn(h)' = MountedOn(g)
         /\ VlanId(PrimaryOf(h))' = VlanId(PrimaryOf(g))
<1>1. PrimaryOf(h)' = PrimaryOf(g)
  BY DEF PrimaryOf
<1> QED
  BY <1>1 DEF AddressOf, MountedOn

\* The deployment moves mounted cards only.
LEMMA DeployG5kOK ==
  ASSUME ProviderInv, DeployG5k
  PROVE  ProviderInv'
<1> USE DEF ProviderInv
<1> DEFINE c == g5kConf
           W == MovesWanted(c, g5k.nets, g5k.hosts)
           T == ToSet(NetsByName) \cup {"DEFAULT"}
<1>0. /\ UNCHANGED <<g5kConf, oar, cardsUp, mapped, g5kCalls>> /\ g5k.at = "mirror" /\ g5k.moves = <<>>
      /\ g5k.at \notin OutSteps /\ c.deploy
  BY DEF DeployG5k, OutSteps
<1>1. PICK D \in SUBSET ToSet(g5k.hosts) :
          /\ vlanOf' = [n \in G5kNodes |->
                 IF \E h \in D : h.node = n
                 THEN LET h == CHOOSE h \in D : h.node = n
                          vlan == VlanId(PrimaryOf(h))
                      IN  [vlanOf[n] EXCEPT ![0] = IF vlan = "none" THEN "DEFAULT" ELSE vlan]
                 ELSE vlanOf[n]]
          /\ g5k' = WithHosts("wait", {[node |-> h.node, group |-> h.group, address |-> AddressOf(h)] : h \in D})
  BY Zenon DEF DeployG5k
<1> DEFINE F == {[node |-> h.node, group |-> h.group, address |-> AddressOf(h)] : h \in D}
<1>2. \A f \in F : \E h \in D : f.node = h.node /\ f.group = h.group /\ f.address = AddressOf(h)
  OBVIOUS
<1> HIDE DEF F
<1>3. /\ g5k'.at = "wait" /\ g5k'.hosts = g5k.hosts /\ g5k'.nets = g5k.nets /\ g5k'.moves = <<>> /\ g5k'.found = F
      /\ g5k' = [at |-> g5k'.at, hosts |-> g5k'.hosts, nets |-> g5k'.nets, moves |-> g5k'.moves, found |-> g5k'.found]
  <2>1. g5k' = WithHosts("wait", F)
    BY <1>1 DEF F
  <2> QED
    BY <2>1 DEF WithHosts
<1>4. /\ vlanOf = [n \in G5kNodes |-> vlanOf[n]]
      /\ \A n \in G5kNodes : vlanOf[n] \in [0..CardsOf[ClusterOf[n]] -> T]
      /\ \A n \in G5kNodes : 0 \in 0..CardsOf[ClusterOf[n]]
  BY G5kResourcesAssumption DEF CardsInv
<1>5. \A h \in D : /\ h.node \in G5kNodes /\ VlanId(PrimaryOf(h)) \in ToSet(NetsByName) \cup {"DEFAULT", "none"}
                   /\ MountedOn(h) \in T
                   /\ \A g \in D : g.node = h.node => g = h
  <2> TAKE h \in D
  <2>1. /\ h.node \in G5kNodes /\ VlanId(PrimaryOf(h)) \in ToSet(NetsByName) \cup {"DEFAULT", "none"}
        /\ \A g \in ToSet(g5k.hosts) : g.node = h.node => g = h
    <3>1. h \in ToSet(g5k.hosts)
      OBVIOUS
    <3> QED
      BY <1>0, <3>1, PrimaryIs
  <2> QED
    BY <2>1 DEF MountedOn
<1>6. ASSUME NEW h \in D PROVE vlanOf'[h.node] = [vlanOf[h.node] EXCEPT ![0] = MountedOn(h)]
  <2> DEFINE g == CHOOSE g \in D : g.node = h.node
  <2>1. g \in D /\ g.node = h.node
    OBVIOUS
  <2>2. g = h
    BY <1>5, <2>1
  <2>3. vlanOf'[h.node] = [vlanOf[h.node] EXCEPT ![0] = IF VlanId(PrimaryOf(g)) = "none" THEN "DEFAULT" ELSE VlanId(PrimaryOf(g))]
    BY <1>1, <1>5, Zenon
  <2> HIDE DEF g
  <2> QED
    BY <2>2, <2>3 DEF MountedOn
<1>7. ASSUME NEW n \in G5kNodes, ~ \E h \in D : h.node = n PROVE vlanOf'[n] = vlanOf[n]
  BY <1>1, <1>7
<1>8. vlanOf' = [n \in G5kNodes |-> vlanOf'[n]]
  <2> DEFINE val(n) == IF \E h \in D : h.node = n
                       THEN LET h == CHOOSE h \in D : h.node = n
                                vlan == VlanId(PrimaryOf(h))
                            IN  [vlanOf[n] EXCEPT ![0] = IF vlan = "none" THEN "DEFAULT" ELSE vlan]
                       ELSE vlanOf[n]
  <2>1. vlanOf' = [n \in G5kNodes |-> val(n)]
    BY <1>1, Zenon
  <2> HIDE DEF val
  <2> QED
    BY <2>1
<1>9. ASSUME NEW n \in G5kNodes
      PROVE  /\ vlanOf'[n] \in [0..CardsOf[ClusterOf[n]] -> T]
             /\ \A i \in 0..CardsOf[ClusterOf[n]] : i # 0 => vlanOf'[n][i] = vlanOf[n][i]
             /\ \A h \in D : h.node = n => vlanOf'[n][0] = MountedOn(h)
  <2>1. vlanOf[n] \in [0..CardsOf[ClusterOf[n]] -> T] /\ 0 \in 0..CardsOf[ClusterOf[n]]
    BY <1>4
  <2>2. CASE \E h \in D : h.node = n
    <3>1. PICK h \in D : h.node = n
      BY <2>2
    <3>2. vlanOf'[n] = [vlanOf[n] EXCEPT ![0] = MountedOn(h)] /\ MountedOn(h) \in T
      BY <1>5, <1>6, <3>1
    <3>3. \A g \in D : g.node = n => g = h
      BY <1>5, <3>1
    <3> DEFINE v == MountedOn(h)
    <3> HIDE DEF v, T
    <3>4. vlanOf'[n] \in [0..CardsOf[ClusterOf[n]] -> T]
          /\ (\A i \in 0..CardsOf[ClusterOf[n]] : i # 0 => vlanOf'[n][i] = vlanOf[n][i]) /\ vlanOf'[n][0] = v
      BY <2>1, <3>2 DEF v
    <3> QED
      BY <3>3, <3>4 DEF v
  <2>3. CASE ~ \E h \in D : h.node = n
    BY <1>7, <2>1, <2>3
  <2> QED
    BY <2>2, <2>3
<1>10. HeldInv' /\ MapInv'
  BY <1>0, <1>3, ClientMovesOn DEF OutSteps
<1>11. ClientInv'
  BY <1>0, <1>3 DEF ClientInv
<1>12. CardsInv'
  <2>1. \A m \in W : MoveMade(m)
    <3>1. \A m \in W : m \in ToSet(g5k.moves) \/ MoveMade(m)
      BY <1>0 DEF CardsInv, OutSteps
    <3>2. ToSet(g5k.moves) = {}
      BY <1>0 DEF ToSet
    <3> QED
      BY <3>1, <3>2
  <2>2. HostsMapped(c, g5k.hosts)
    BY <1>0, ClientKnows
  <2>3. \A m \in W : m.node \in G5kNodes /\ m.card \in 0..CardsOf[ClusterOf[m.node]] /\ (m.card = 0 => m.vlan = "missing")
    BY <2>2, MovesOnce
  <2>4. ASSUME NEW m \in W PROVE MoveMade(m)'
    <3>1. MoveMade(m) /\ m.node \in G5kNodes /\ m.card \in 0..CardsOf[ClusterOf[m.node]] /\ m.card # 0
      BY <2>1, <2>3 DEF MoveMade
    <3>2. vlanOf'[m.node][m.card] = vlanOf[m.node][m.card]
      BY <1>9, <3>1
    <3> QED
      BY <3>1, <3>2 DEF MoveMade
  <2>5. W = MovesWanted(g5kConf', g5k'.nets, g5k'.hosts)
    BY <1>0, <1>3
  <2> HIDE DEF W
  <2>6. g5k'.moves \in Seq(W)
    BY <1>3
  <2> QED
    BY <1>0, <1>8, <1>9, <2>4, <2>5, <2>6 DEF CardsInv
<1>13. HandedInv'
  <2>1. ASSUME NEW f \in F
        PROVE  /\ \E g \in ToSet(g5k'.hosts) : g.node = f.node /\ g.group = f.group
               /\ f.address = AddressOf(f)' /\ vlanOf'[f.node][0] = MountedOn(f)'
    <3>1. PICK h \in D : f.node = h.node /\ f.group = h.group /\ f.address = AddressOf(h)
      BY <1>2
    <3>2. AddressOf(f)' = AddressOf(h) /\ MountedOn(f)' = MountedOn(h)
      BY <1>0, <1>3, <3>1, NamesOfGroups
    <3>3. vlanOf'[h.node][0] = MountedOn(h)
      BY <1>5, <1>9
    <3> QED
      BY <1>3, <3>1, <3>2, <3>3
  <2> QED
    BY <1>0, <1>3, <2>1 DEF HandedInv
<1> QED
  BY <1>0, <1>10, <1>11, <1>12, <1>13

\* Without a deployment, primary networks are not VLANs.
LEMMA GrantRootAccessOK ==
  ASSUME ProviderInv, GrantRootAccess
  PROVE  ProviderInv'
<1> USE DEF ProviderInv
<1> DEFINE c == g5kConf
           F == {[node |-> h.node, group |-> h.group, address |-> "plain"] : h \in ToSet(g5k.hosts)}
<1>0. /\ UNCHANGED <<g5kConf, oar, vlanOf, cardsUp, mapped, g5kCalls>> /\ g5k.at = "mirror" /\ g5k.moves = <<>>
      /\ g5k.at \notin OutSteps /\ ~c.deploy
  BY DEF GrantRootAccess, OutSteps
<1>1. g5k' = OutOfCall \/ g5k' = WithHosts("ready", F)
  BY DEF GrantRootAccess
<1>2. \A f \in F : \E h \in ToSet(g5k.hosts) : f.node = h.node /\ f.group = h.group /\ f.address = "plain"
  OBVIOUS
<1> HIDE DEF F
<1>3. CASE g5k' = OutOfCall
  <2>1. g5k'.at \in OutSteps
    BY <1>3 DEF OutOfCall, OutSteps
  <2>2. CardsInv'
    BY <1>0, <2>1, CardsStay
  <2>3. cardsUp' \subseteq UNION {{n} \X (1..CardsOf[ClusterOf[n]]) : n \in G5kNodes}
    BY <1>0 DEF HandedInv
  <2> QED
    BY <1>0, <1>3, <2>2, <2>3, ClientGone
<1>4. CASE g5k' = WithHosts("ready", F)
  <2>1. /\ g5k'.at = "ready" /\ g5k'.hosts = g5k.hosts /\ g5k'.nets = g5k.nets /\ g5k'.moves = <<>> /\ g5k'.found = F
        /\ g5k' = [at |-> g5k'.at, hosts |-> g5k'.hosts, nets |-> g5k'.nets, moves |-> g5k'.moves, found |-> g5k'.found]
    BY <1>4 DEF WithHosts
  <2>2. HeldInv' /\ MapInv'
    BY <1>0, <2>1, ClientMovesOn DEF OutSteps
  <2>3. ClientInv'
    BY <1>0, <2>1 DEF ClientInv
  <2>4. CardsInv'
    BY <1>0, <2>1 DEF CardsInv, MoveMade, OutSteps
  <2>5. HandedInv'
    <3>1. ASSUME NEW f \in F
          PROVE  /\ \E g \in ToSet(g5k'.hosts) : g.node = f.node /\ g.group = f.group
                 /\ f.address = AddressOf(f)' /\ vlanOf'[f.node][0] = MountedOn(f)'
      <4>1. PICK h \in ToSet(g5k.hosts) : f.node = h.node /\ f.group = h.group /\ f.address = "plain"
        BY <1>2
      <4>2. AddressOf(f)' = AddressOf(h) /\ MountedOn(f)' = MountedOn(h)
        BY <1>0, <2>1, <4>1, NamesOfGroups
      <4>3. h.node \in G5kNodes /\ VlanId(PrimaryOf(h)) \in {"DEFAULT", "none"}
        <5>1. ~HasKavlan(c)
          BY <1>0 DEF FinalOK
        <5> QED
          BY <1>0, <5>1, PrimaryIs
      <4>4. AddressOf(h) = "plain" /\ MountedOn(h) = "DEFAULT"
        BY <4>3 DEF AddressOf, MountedOn
      <4>5. vlanOf[h.node][0] = "DEFAULT"
        BY <1>0, <4>3 DEF CardsInv
      <4> QED
        BY <1>0, <2>1, <4>1, <4>2, <4>4, <4>5
    <3> QED
      BY <1>0, <2>1, <3>1 DEF HandedInv
  <2> QED
    BY <1>0, <2>2, <2>3, <2>4, <2>5
<1> QED
  BY <1>1, <1>3, <1>4

\* Hosts that are handed over have the cards that dhcp brings up.
LEMMA CardsThere ==
  ASSUME ProviderInv, g5k.at \notin OutSteps, g5k.moves = <<>>, NEW h \in g5k.found
  PROVE  CardsFor(h) \subseteq {h.node} \X (1..CardsOf[ClusterOf[h.node]]) /\ h.node \in G5kNodes
<1> USE DEF ProviderInv
<1>1. PICK g \in ToSet(g5k.hosts) : g.node = h.node /\ g.group = h.group
  BY DEF HandedInv
<1>2. g.node \in G5kNodes /\ g.group \in DOMAIN g5kConf.machines
  BY <1>1, PrimaryIs
<1> DEFINE n == Len(g5kConf.machines[g.group].secondary)
           absent == [node |-> g.node, card |-> 0, vlan |-> "missing"]
<1>3. DOMAIN g5kConf.machines[g.group].secondary = 1..n /\ n \in Nat
  BY <1>2, SecondariesOf
<1>4. CardsOf[ClusterOf[g.node]] \in Nat
  BY <1>2, G5kResourcesAssumption
<1>5. ~(n > CardsOf[ClusterOf[g.node]])
  <2> SUFFICES ASSUME n > CardsOf[ClusterOf[g.node]] PROVE FALSE
    OBVIOUS
  <2>1. absent \in HostMoves(g5kConf, g5k.nets, g)
    BY Zenon DEF HostMoves
  <2>2. absent \in MovesWanted(g5kConf, g5k.nets, g5k.hosts)
    BY <1>1, <2>1 DEF MovesWanted
  <2>3. MoveMade(absent)
    <3>1. absent \in ToSet(g5k.moves) \/ MoveMade(absent)
      BY <2>2 DEF CardsInv, OutSteps
    <3>2. ToSet(g5k.moves) = {}
      BY DEF ToSet
    <3> QED
      BY <3>1, <3>2
  <2> QED
    BY <2>3 DEF MoveMade
<1>6. CardsFor(h) = {<<h.node, i>> : i \in 1..n}
  BY <1>1, <1>3 DEF CardsFor
<1> HIDE DEF n
<1> QED
  BY <1>1, <1>2, <1>3, <1>4, <1>5, <1>6

\* A step of a client that has its hosts, which leaves them and the cards as they are.
LEMMA ClientWaits ==
  ASSUME ProviderInv, g5k.at \in {"wait", "dhcp"}, UNCHANGED <<g5kConf, oar, vlanOf, mapped, g5kCalls>>,
         NEW step \in {"dhcp", "ready"}, g5k' = [g5k EXCEPT !.at = step],
         step = "ready" /\ g5kConf.deploy /\ g5kConf.dhcp => \A h \in g5k.found : CardsFor(h) \subseteq cardsUp',
         cardsUp' \subseteq UNION {{n} \X (1..CardsOf[ClusterOf[n]]) : n \in G5kNodes}
  PROVE  ProviderInv'
<1> USE DEF ProviderInv
<1>1. /\ g5k'.at = step /\ g5k'.hosts = g5k.hosts /\ g5k'.nets = g5k.nets /\ g5k'.moves = <<>> /\ g5k'.found = g5k.found
      /\ g5k' = [at |-> g5k'.at, hosts |-> g5k'.hosts, nets |-> g5k'.nets, moves |-> g5k'.moves, found |-> g5k'.found]
      /\ g5k.moves = <<>> /\ g5kConf.deploy
  BY DEF ClientInv
<1>2. HeldInv' /\ MapInv'
  BY <1>1, ClientMovesOn DEF OutSteps
<1>3. ClientInv'
  BY <1>1 DEF ClientInv
<1>4. CardsInv'
  BY <1>1 DEF CardsInv, MoveMade
<1>5. HandedInv'
  <2>1. ASSUME NEW h \in g5k.found
        PROVE  /\ \E g \in ToSet(g5k'.hosts) : g.node = h.node /\ g.group = h.group
               /\ h.address = AddressOf(h)' /\ vlanOf'[h.node][0] = MountedOn(h)'
               /\ CardsFor(h)' = CardsFor(h)
    <3>1. AddressOf(h)' = AddressOf(h) /\ MountedOn(h)' = MountedOn(h)
      BY <1>1, NamesOfGroups
    <3> QED
      BY <1>1, <3>1 DEF HandedInv, CardsFor
  <2> QED
    BY <1>1, <2>1 DEF HandedInv
<1> QED
  BY <1>2, <1>3, <1>4, <1>5

\* A client gives up while it waits.
LEMMA ClientGivesUp ==
  ASSUME ProviderInv, g5k' = OutOfCall, UNCHANGED <<g5kConf, oar, vlanOf, mapped, g5kCalls>>,
         cardsUp' \subseteq UNION {{n} \X (1..CardsOf[ClusterOf[n]]) : n \in G5kNodes}
  PROVE  ProviderInv'
<1>1. g5k'.at \in OutSteps
  BY DEF OutOfCall, OutSteps
<1>2. CardsInv'
  BY <1>1, CardsStay DEF ProviderInv
<1> QED
  BY <1>2, ClientGone

\* wait_nodes.
LEMMA WaitNodesOK ==
  ASSUME ProviderInv, WaitNodes
  PROVE  ProviderInv'
<1>0. UNCHANGED <<g5kConf, oar, vlanOf, cardsUp, mapped, g5kCalls>> /\ g5k.at = "wait"
  BY DEF WaitNodes
<1>1. cardsUp' \subseteq UNION {{n} \X (1..CardsOf[ClusterOf[n]]) : n \in G5kNodes}
  BY <1>0 DEF ProviderInv, HandedInv
<1>2. CASE g5k' = OutOfCall
  BY <1>0, <1>1, <1>2, ClientGivesUp
<1>3. CASE g5k' = [g5k EXCEPT !.at = IF g5kConf.dhcp THEN "dhcp" ELSE "ready"]
  <2> DEFINE step == IF g5kConf.dhcp THEN "dhcp" ELSE "ready"
  <2>1. step \in {"dhcp", "ready"} /\ (step = "ready" => ~g5kConf.dhcp)
    OBVIOUS
  <2> HIDE DEF step
  <2>2. g5k' = [g5k EXCEPT !.at = step]
    BY <1>3 DEF step
  <2>3. PICK after2 \in {"dhcp", "ready"} : after2 = step
    BY <2>1
  <2> QED
    BY <1>0, <1>1, <2>1, <2>2, <2>3, ClientWaits
<1> QED
  BY <1>2, <1>3 DEF WaitNodes

\* dhcp_networks: all hosts have their cards up, or init raises.
LEMMA RunDhcpOK ==
  ASSUME ProviderInv, RunDhcp
  PROVE  ProviderInv'
<1>0. UNCHANGED <<g5kConf, oar, vlanOf, mapped, g5kCalls>> /\ g5k.at = "dhcp" /\ g5k.at \notin OutSteps /\ g5k.moves = <<>>
  BY DEF RunDhcp, ProviderInv, ClientInv, OutSteps
<1>1. PICK up \in SUBSET g5k.found :
        /\ cardsUp' = cardsUp \cup UNION {CardsFor(h) : h \in up}
        /\ g5k' = IF up = g5k.found THEN [g5k EXCEPT !.at = "ready"] ELSE OutOfCall
  BY DEF RunDhcp
<1>2. cardsUp' \subseteq UNION {{n} \X (1..CardsOf[ClusterOf[n]]) : n \in G5kNodes}
  <2>1. cardsUp \subseteq UNION {{n} \X (1..CardsOf[ClusterOf[n]]) : n \in G5kNodes}
    BY DEF ProviderInv, HandedInv
  <2>2. \A h \in up : CardsFor(h) \subseteq {h.node} \X (1..CardsOf[ClusterOf[h.node]]) /\ h.node \in G5kNodes
    BY <1>0, CardsThere
  <2> QED
    BY <1>1, <2>1, <2>2
<1>3. CASE up = g5k.found
  BY <1>0, <1>1, <1>2, <1>3, ClientWaits
<1>4. CASE up # g5k.found
  BY <1>0, <1>1, <1>2, <1>4, ClientGivesUp
<1> QED
  BY <1>3, <1>4

\* The answer stays with the status it was given for.
LEMMA SlotStep ==
  ASSUME SlotInv, [G5kNext]_g5kVars
  PROVE  SlotInv'
<1>1. CASE AskSlot
  <2>1. PICK status \in Statuses, start \in 1..3, walltime \in 1..2 :
          slot' = [asked |-> TRUE, status |-> status, start |-> start, walltime |-> walltime,
                   ok |-> TestSlotG5k(g5kConf.machines, status, start, walltime)]
    BY <1>1 DEF AskSlot
  <2>2. g5kConf' = g5kConf
    BY <1>1 DEF AskSlot
  <2> DEFINE yes == TestSlotG5k(g5kConf.machines, status, start, walltime)
  <2> HIDE DEF yes
  <2>3. /\ slot'.asked = TRUE /\ slot'.status = status /\ slot'.start = start /\ slot'.walltime = walltime
        /\ slot'.ok = yes
    BY <2>1 DEF yes
  <2>4. TestSlotG5k(g5kConf'.machines, slot'.status, slot'.start, slot'.walltime) = yes
    <3>1. slot'.status = status /\ slot'.start = start /\ slot'.walltime = walltime
      BY <2>3
    <3>2. yes = TestSlotG5k(g5kConf.machines, status, start, walltime)
      BY Zenon DEF yes
    <3> QED
      BY <2>2, <3>1, <3>2, Zenon
  <2>5. slot'.asked \in BOOLEAN /\ slot'.status \in Statuses /\ slot'.start \in Nat /\ slot'.walltime \in Nat \ {0}
    <3>1. slot'.asked = TRUE /\ slot'.status = status /\ slot'.start = start /\ slot'.walltime = walltime
      BY <2>3
    <3>2. start \in Nat /\ walltime \in Nat \ {0}
      OBVIOUS
    <3> QED
      BY <3>1, <3>2
  <2> QED
    BY <2>3, <2>4, <2>5, Zenon DEF SlotInv
<1>2. CASE ReserveG5k
  BY <1>2 DEF ReserveG5k, NotAsked, SlotInv
<1>3. CASE UNCHANGED <<g5kConf, slot>>
  BY <1>3 DEF SlotInv
<1>4. AskSlot \/ ReserveG5k \/ UNCHANGED <<g5kConf, slot>>
  BY DEF G5kNext, g5kVars, Concretize, MoveCard, DeployG5k, WaitNodes, RunDhcp, GrantRootAccess, G5kKilled, G5kJobsEnd,
         EnterFirewall, CreateRule, LeaveFirewall, DeleteRules
<1> QED
  BY <1>1, <1>2, <1>3, <1>4

\* Every step keeps the invariant.
LEMMA G5kStepOK == G5kIInv /\ [G5kNext]_g5kVars => G5kIInv'
<1> SUFFICES ASSUME G5kIInv, [G5kNext]_g5kVars PROVE G5kIInv'
  OBVIOUS
<1>1. ProviderInv
  BY DEF G5kIInv, ProviderInv
<1>2. SlotInv'
  BY SlotStep DEF G5kIInv
<1>3. ProviderInv'
  <2>1. CASE AskSlot \/ EnterFirewall \/ CreateRule \/ LeaveFirewall \/ DeleteRules \/ UNCHANGED g5kVars
    <3>1. UNCHANGED <<g5kConf, oar, vlanOf, cardsUp, g5k, mapped, g5kCalls>>
      BY <2>1 DEF AskSlot, EnterFirewall, CreateRule, LeaveFirewall, DeleteRules, g5kVars
    <3> QED
      BY <1>1, <3>1, ProviderStays
  <2>2. CASE ReserveG5k
    BY <1>1, <2>2, ReserveG5kOK
  <2>3. CASE Concretize
    BY <1>1, <2>3, ConcretizeOK
  <2>4. CASE MoveCard
    BY <1>1, <2>4, MoveCardOK
  <2>5. CASE DeployG5k
    BY <1>1, <2>5, DeployG5kOK
  <2>6. CASE WaitNodes
    BY <1>1, <2>6, WaitNodesOK
  <2>7. CASE RunDhcp
    BY <1>1, <2>7, RunDhcpOK
  <2>8. CASE GrantRootAccess
    BY <1>1, <2>8, GrantRootAccessOK
  <2>9. CASE G5kKilled
    BY <1>1, <2>9, G5kKilledOK
  <2>10. CASE G5kJobsEnd
    BY <1>1, <2>10, G5kJobsEndOK
  <2> QED
    BY <2>1, <2>2, <2>3, <2>4, <2>5, <2>6, <2>7, <2>8, <2>9, <2>10 DEF G5kNext
<1> QED
  BY <1>2, <1>3 DEF G5kIInv, ProviderInv

\* Once init of the provider of Grid'5000 returns, each group has the nodes it asks for, none
\* of them twice, and at least its minimum; the mounted card of each host is in the VLAN of
\* its primary network and the host bears its name there, its other cards are in the VLANs
\* of its secondary networks, and up if dhcp is wanted; the mapping is the same in every
\* call, in whatever order the jobs list what they hold and however many calls were
\* interrupted; and test_slot has said yes exactly if OAR can give distinct nodes to the
\* groups (G5kBase.init, _concretize_nodes, mirror_state, test_slot).
THEOREM G5kIsReady == Spec => []G5kReadyAsAsked
<1>1. G5kSpec => []G5kIInv
  BY G5kInitOK, G5kStepOK, PTL DEF G5kSpec
<1> QED
  BY <1>1, G5kTold, TestbedsRun, PTL

-----------------------------------------------------------------------------
(* The types of its states *)

\* The answer of test_slot is a boolean, and rules are for nodes of the jobs.
AnswerInv == slot.ok \in BOOLEAN
RulesInv == \A rule \in opened : rule.nodes \subseteq oar.nodes

\* Steps keep the first,
LEMMA AnswerStep ==
  ASSUME AnswerInv, [G5kNext]_g5kVars
  PROVE  AnswerInv'
<1>1. CASE AskSlot
  <2>1. PICK status \in Statuses, start \in 1..3, walltime \in 1..2 :
          slot' = [asked |-> TRUE, status |-> status, start |-> start, walltime |-> walltime,
                   ok |-> TestSlotG5k(g5kConf.machines, status, start, walltime)]
    BY <1>1 DEF AskSlot
  <2> DEFINE yes == TestSlotG5k(g5kConf.machines, status, start, walltime)
  <2>2. yes \in BOOLEAN
    BY Zenon DEF TestSlotG5k
  <2>3. slot'.ok = yes
    <3> HIDE DEF yes
    <3> QED
      BY <2>1 DEF yes
  <2> QED
    BY <2>2, <2>3, Zenon DEF AnswerInv
<1>2. CASE ReserveG5k
  BY <1>2 DEF ReserveG5k, NotAsked, AnswerInv
<1>3. CASE UNCHANGED slot
  BY <1>3 DEF AnswerInv
<1>4. AskSlot \/ ReserveG5k \/ UNCHANGED slot
  BY DEF G5kNext, g5kVars, Concretize, MoveCard, DeployG5k, WaitNodes, RunDhcp, GrantRootAccess, G5kKilled, G5kJobsEnd,
         EnterFirewall, CreateRule, LeaveFirewall, DeleteRules
<1> QED
  BY <1>1, <1>2, <1>3, <1>4

\* and the second.
LEMMA RulesStep ==
  ASSUME FirewallIInv, RulesInv, [G5kNext]_g5kVars
  PROVE  RulesInv'
<1>1. CASE AskSlot \/ Concretize \/ MoveCard \/ DeployG5k \/ WaitNodes \/ RunDhcp \/ GrantRootAccess
           \/ G5kKilled \/ EnterFirewall \/ LeaveFirewall \/ UNCHANGED g5kVars
  <2>1. UNCHANGED <<oar, opened>>
    BY <1>1 DEF AskSlot, Concretize, MoveCard, DeployG5k, WaitNodes, RunDhcp, GrantRootAccess, G5kKilled,
                EnterFirewall, LeaveFirewall, g5kVars
  <2> QED
    BY <2>1 DEF RulesInv
<1>2. CASE ReserveG5k
  <2>1. UNCHANGED opened /\ (oar # NoJobs => oar' = oar)
    BY <1>2 DEF ReserveG5k
  <2>2. oar = NoJobs => opened = {}
    BY DEF FirewallIInv, NoJobs
  <2> QED
    BY <2>1, <2>2 DEF RulesInv
<1>3. CASE G5kJobsEnd
  BY <1>3 DEF G5kJobsEnd, RulesInv
<1>4. CASE CreateRule
  <2>1. PICK site \in gate.jobs, limit \in BOOLEAN, done \in BOOLEAN :
          LET assigned == {n \in oar.nodes : SiteOfNode(n) = site}
              named == {h.node : h \in {h \in g5k.found : h.address = "plain"}}
              left == gate.jobs \ {site}
          IN  IF done
              THEN /\ opened' = opened \cup {[site |-> site, nodes |-> IF limit THEN assigned \cap named
                                                                        ELSE assigned]}
                   /\ gate' = [at |-> IF left = {} THEN "open" ELSE "opening", jobs |-> left]
              ELSE gate' = [at |-> "failed", jobs |-> {}] /\ UNCHANGED opened
    BY <1>4 DEF CreateRule
  <2>2. UNCHANGED oar
    BY <1>4 DEF CreateRule
  <2> DEFINE at == {n \in oar.nodes : SiteOfNode(n) = site}
             nodes == IF limit THEN at \cap {h.node : h \in {h \in g5k.found : h.address = "plain"}} ELSE at
             rule == [site |-> site, nodes |-> nodes]
  <2>3. opened' \in {opened, opened \cup {rule}}
    BY <2>1
  <2>4. nodes \subseteq oar.nodes
    OBVIOUS
  <2>5. rule.nodes = nodes
    <3> HIDE DEF nodes
    <3> QED
      OBVIOUS
  <2> HIDE DEF rule, nodes
  <2> QED
    BY <2>2, <2>3, <2>4, <2>5 DEF RulesInv
<1>5. CASE DeleteRules
  BY <1>5 DEF DeleteRules, RulesInv
<1> QED
  BY <1>1, <1>2, <1>3, <1>4, <1>5 DEF G5kNext

\* What the type of the states says.
LEMMA G5kTypes ==
  ASSUME G5kIInv, FirewallIInv, AnswerInv, RulesInv
  PROVE  G5kTypeOK
<1> USE DEF G5kIInv
<1>1. oar.nodes \subseteq G5kNodes /\ oar.sites \subseteq Range(SiteOfCluster)
  BY DEF HeldInv, JobRecords
<1>2. ASSUME NEW n \in G5kNodes PROVE Range(vlanOf[n]) \subseteq ToSet(NetsByName) \cup {"DEFAULT"}
  <2> DEFINE vlans == ToSet(NetsByName) \cup {"DEFAULT"}
             cards == 0..CardsOf[ClusterOf[n]]
             f == vlanOf[n]
  <2>1. f \in [cards -> vlans]
    BY DEF CardsInv
  <2> HIDE DEF vlans, cards, f
  <2>2. Range(f) \subseteq vlans
    BY <2>1 DEF Range
  <2> QED
    BY <2>2 DEF f, vlans
<1>3. \A i \in DOMAIN g5k.hosts : g5k.hosts[i].node \in oar.nodes
  <2>1. CASE g5k.at \in OutSteps
    BY <2>1 DEF ClientInv, OutSteps
  <2>2. CASE g5k.at \notin OutSteps
    BY <2>2, ClientKnows
  <2> QED
    BY <2>1, <2>2
<1>4. cardsUp \subseteq UNION {{n} \X (1..CardsOf[ClusterOf[n]]) : n \in G5kNodes}
  BY DEF HandedInv
<1>5. \A rule \in opened : rule.site \in oar.sites /\ rule.nodes \subseteq oar.nodes
  BY DEF FirewallIInv, RulesInv
<1>6. gate.at \in {"closed", "opening", "open", "closing", "failed"} /\ gate.jobs \subseteq oar.sites
  BY DEF FirewallIInv
<1>7. g5k.at \in {"out", "reserved", "mirror", "wait", "dhcp", "ready"}
  BY DEF ClientInv
<1> QED
  BY <1>1, <1>2, <1>3, <1>4, <1>5, <1>6, <1>7 DEF G5kTypeOK, AnswerInv

\* What the provider of Grid'5000 holds and hands over has the types of its states.
LEMMA G5kTypesHold == Spec => []G5kTypeOK
<1> DEFINE I == G5kIInv /\ FirewallIInv /\ AnswerInv /\ RulesInv
<1>1. G5kInit => I
  <2>1. G5kInit => AnswerInv /\ RulesInv
    BY DEF G5kInit, AnswerInv, RulesInv, NotAsked
  <2> QED
    BY <2>1, G5kInitOK, FirewallInitOK
<1>2. I /\ [G5kNext]_g5kVars => I'
  BY G5kStepOK, FirewallStepOK, AnswerStep, RulesStep
<1>3. I => G5kTypeOK
  BY G5kTypes
<1>4. G5kSpec => []G5kTypeOK
  BY <1>1, <1>2, <1>3, PTL DEF G5kSpec
<1> QED
  BY <1>4, TestbedsRun, PTL

-----------------------------------------------------------------------------
(* The runs of MCParts *)

LEMMA TestbedRun == Spec => VmSpec /\ DistemSpec /\ VgSpec /\ AddrSpec /\ IotSpec /\ ChSpec /\ FabSpec
<1>1. Init => VmInit /\ DistemInit /\ VgInit /\ AddrInit /\ IotInit /\ ChInit /\ FabInit
  BY DEF Init
<1>2. [Next]_vars => /\ [VmNext]_vmVars /\ [DistemNext]_disVars /\ [VgNext]_vgVars
                     /\ [AddrNext]_addrVars /\ [IotNext]_iotVars /\ [ChNext]_chVars /\ [FabNext]_fabVars
  BY DEF Next, vars, testbedVars, machineVars
<1> QED
  BY <1>1, <1>2, PTL DEF Spec, VmSpec, DistemSpec, VgSpec, AddrSpec, IotSpec, ChSpec, FabSpec

\* The invariants hold.
LEMMA VirtualHolds == Spec => [](VmIInv /\ DisIInv /\ VgIInv)
  BY TestbedRun, VmInitOK, VmStepOK, DisInitOK, DisStepOK, VgInitOK, VgStepOK, PTL
     DEF VmSpec, DistemSpec, VgSpec

LEMMA AddressesHold == Spec => []AddrIInv
  BY TestbedRun, AddrInitOK, AddrStepOK, PTL DEF AddrSpec

LEMMA BoardsHold == Spec => [](IotReadyAsAsked /\ IotSlotExact /\ IotTypeOK)
  BY TestbedRun, BoardsAsAsked, PTL

LEMMA UnitsHold == Spec => []ChHeld
  BY TestbedRun, ChHeldInitially, ChHeldStays, PTL DEF ChSpec

LEMMA SlicesHeld == Spec => [](FabIInv /\ FabHeld)
  BY TestbedRun, FabInitOK, FabStepOK, FabHeldInitially, FabHeldStays, PTL DEF FabSpec

\* Virtual machines are started where the placement has them, once, with addresses of
\* their own and room for their cores and their memory; containers of Distem are in turn on
\* the machines of their group, and nothing else runs there; boxes of Vagrant are one for
\* each machine asked for, new and with addresses of their own when they are forced; boards
\* of FIT IoT-LAB are shared between the groups as they ask, in a slot that is free for all
\* of them; a lease of Chameleon has the machines, or the containers, of every group, and
\* those of no other lease; a slice of FABRIC has an interface of its own for each node and
\* network, with an address of its own, and storage mounted once, on volumes formatted at
\* most once; addresses taken from a network are never those of a machine or
\* of a gateway, nor taken twice (VMonG5k.init, Distem.init, Enos_vagrant.init, Iotlab.init,
\* Chameleonedge.init, ChameleonBareMetal.init, Fabric.init, the pools of infra/enos_g5k/objects.py),
\* whatever earlier calls left.
THEOREM TestbedsAreReady == Spec => []TestbedsReadyAsAsked
<1>1. /\ VmsRunOnce /\ VmsReadyAsAsked /\ DistemReadyAsAsked /\ VagrantReadyAsAsked
      /\ IotReadyAsAsked /\ IotSlotExact /\ ChameleonReadyAsAsked /\ FabricReadyAsAsked
      /\ AddressesFree
      => TestbedsReadyAsAsked
  BY DEF TestbedsReadyAsAsked
<1>2. VmIInv /\ DisIInv /\ VgIInv => /\ VmsRunOnce /\ VmsReadyAsAsked
                                    /\ DistemReadyAsAsked /\ VagrantReadyAsAsked
  BY VmOnce, VmReady, DisReady, VgReady
<1> QED
  BY <1>1, <1>2, VirtualHolds, AddressesHold, AddrFree, BoardsHold, UnitsHold, ChReady,
     SlicesHeld, FabReady, PTL

\* The types of their states.
THEOREM TestbedTypesCorrect ==
  Spec => [](VmTypeOK /\ DistemTypeOK /\ VgTypeOK /\ AddrTypeOK /\ IotTypeOK /\ ChTypeOK /\ FabTypeOK
             /\ G5kTypeOK)
<1>1. VmIInv /\ DisIInv /\ VgIInv => VmTypeOK /\ DistemTypeOK /\ VgTypeOK
  BY VmTypes, DisTypes, VgTypes
<1> QED
  BY <1>1, VirtualHolds, AddressesHold, AddrTypes, BoardsHold, UnitsHold, ChTypes,
     SlicesHeld, FabTypes, G5kTypesHold, PTL

\* Every part keeps its types: the testbeds, network emulation, planning and registry,
\* services, streams, Kwollect and docker (what they hold, hand over and are asked for).
THEOREM TypesAreCorrect == Spec => []PartsTypeOK
<1>1. /\ VmTypeOK /\ DistemTypeOK /\ VgTypeOK /\ AddrTypeOK /\ IotTypeOK /\ ChTypeOK /\ FabTypeOK
      /\ G5kTypeOK
      /\ EmulTypeOK /\ PlanTypeOK /\ ServTypeOK /\ StreamsTypeOK /\ KwTypeOK /\ DkTypeOK
      => PartsTypeOK
  BY DEF PartsTypeOK
<1> QED
  BY <1>1, TestbedTypesCorrect, EmulTypesHold, PlanTypesHold, ServTypesHold, StreamsTypesHold,
     KwTypesHold, DkTypesHold, PTL
=============================================================================
