--------------------------- MODULE TestbedProofs ---------------------------
(* What the providers of virtual machines, of Distem, of Vagrant and of FIT  *)
(* IoT-LAB hand over, and the addresses that are handed out freely: what     *)
(* their configurations ask for, whatever the groups, the machines, the      *)
(* addresses, the calls and what earlier calls left. Last, the nodes of the  *)
(* groups of Grid'5000, in the order of their turns, and its test_slot.      *)
EXTENDS PartsProofs, SequenceTheorems

-----------------------------------------------------------------------------
(* FlattenSeq *)

\* The equation that FlattenSeq solves has a solution, whose prefixes are solutions too.
Flattens(g, ss, n) == g = [i \in 1..n |-> IF i = 1 THEN ss[i] ELSE g[i - 1] \o ss[i]]

LEMMA FlattenExists ==
  ASSUME NEW ss, NEW n \in Nat
  PROVE  \E g : Flattens(g, ss, n)
<1> DEFINE T == {m \in Nat : ~\E g : Flattens(g, ss, m)}
<1>1. ASSUME T # {} PROVE FALSE
  <2>1. PICK m \in T : \A k \in T : m <= k
    <3>1. T \in SUBSET Nat
      OBVIOUS
    <3> QED
      BY <1>1, <3>1, FirstPosition
  <2>2. m \in Nat /\ ~\E g : Flattens(g, ss, m)
    OBVIOUS
  <2>3. m # 0
    <3> DEFINE e == [i \in 1..0 |-> 0]
    <3>1. e = [i \in 1..0 |-> IF i = 1 THEN ss[i] ELSE e[i - 1] \o ss[i]]
      OBVIOUS
    <3> QED
      BY <2>2, <3>1 DEF Flattens
  <2>4. m - 1 \in Nat /\ m - 1 \notin T
    BY <2>1, <2>2, <2>3
  <2>5. PICK g : Flattens(g, ss, m - 1)
    BY <2>4
  <2> DEFINE h == [i \in 1..m |-> IF i = 1 THEN ss[i] ELSE g[i - 1] \o ss[i]]
  <2>6. \A i \in 1..(m - 1) : h[i] = g[i]
    <3> TAKE i \in 1..(m - 1)
    <3>1. g[i] = IF i = 1 THEN ss[i] ELSE g[i - 1] \o ss[i]
      BY <2>5 DEF Flattens
    <3>2. i \in 1..m
      BY <2>2
    <3> QED
      BY <3>1, <3>2
  <2>7. \A i \in 1..m : i # 1 => i - 1 \in 1..(m - 1)
    BY <2>2
  <2>8. h = [i \in 1..m |-> IF i = 1 THEN ss[i] ELSE h[i - 1] \o ss[i]]
    BY <2>6, <2>7
  <2> QED
    BY <2>2, <2>8 DEF Flattens
<1> QED
  BY <1>1

LEMMA FlattenIs ==
  ASSUME NEW ss, Len(ss) \in Nat \ {0}
  PROVE  \E g : Flattens(g, ss, Len(ss)) /\ FlattenSeq(ss) = g[Len(ss)]
<1> DEFINE g == CHOOSE g : g = [i \in 1..Len(ss) |-> IF i = 1 THEN ss[i] ELSE g[i - 1] \o ss[i]]
<1>1. FlattenSeq(ss) = g[Len(ss)]
  BY DEF FlattenSeq
<1>2. Flattens(g, ss, Len(ss))
  BY FlattenExists DEF Flattens
<1> QED
  BY <1>1, <1>2

\* Where the pieces are: the first m of them are laid one after the other, the
\* i-th one after the first off[i - 1] positions.
Laid(flat, ss, m, off) ==
  /\ off \in [0..m -> Nat] /\ off[0] = 0
  /\ \A i \in 1..m : off[i] = off[i - 1] + Len(ss[i])
  /\ Len(flat) = off[m]
  /\ \A i \in 1..m : \A k \in 1..Len(ss[i]) : flat[off[i - 1] + k] = ss[i][k]
  /\ \A i, j \in 0..m : i <= j => off[i] <= off[j]
  /\ \A x \in 1..off[m] : \E i \in 1..m : \E k \in 1..Len(ss[i]) : x = off[i - 1] + k

LEMMA LaidOneMore ==
  ASSUME NEW S, NEW ss \in Seq(Seq(S)), NEW m \in 1..Len(ss), NEW flat \in Seq(S), NEW off,
         Laid(flat, ss, m - 1, off)
  PROVE  Laid(flat \o ss[m], ss, m, [i \in 0..m |-> IF i = m THEN off[m - 1] + Len(ss[m]) ELSE off[i]])
<1> DEFINE new == [i \in 0..m |-> IF i = m THEN off[m - 1] + Len(ss[m]) ELSE off[i]]
           long == flat \o ss[m]
<1>1. /\ m \in Nat /\ m >= 1 /\ m - 1 \in 0..(m - 1)
      /\ ss[m] \in Seq(S) /\ Len(ss[m]) \in Nat
  OBVIOUS
<1>2. /\ off \in [0..(m - 1) -> Nat] /\ off[0] = 0
      /\ \A i \in 1..(m - 1) : off[i] = off[i - 1] + Len(ss[i])
      /\ Len(flat) = off[m - 1]
      /\ \A i \in 1..(m - 1) : \A k \in 1..Len(ss[i]) : flat[off[i - 1] + k] = ss[i][k]
      /\ \A i, j \in 0..(m - 1) : i <= j => off[i] <= off[j]
      /\ \A x \in 1..off[m - 1] : \E i \in 1..(m - 1) : \E k \in 1..Len(ss[i]) : x = off[i - 1] + k
  BY DEF Laid
<1>3. /\ \A i \in 0..(m - 1) : new[i] = off[i]
      /\ new[m] = off[m - 1] + Len(ss[m])
      /\ new \in [0..m -> Nat]
  BY <1>1, <1>2
<1>4. /\ Len(long) = off[m - 1] + Len(ss[m])
      /\ \A x \in 1..off[m - 1] : long[x] = flat[x]
      /\ \A k \in 1..Len(ss[m]) : long[off[m - 1] + k] = ss[m][k]
  <2> DEFINE r == ss[m]
  <2>1. r \in Seq(S) /\ flat \in Seq(S) /\ Len(flat) \in Nat /\ Len(r) \in Nat
    BY <1>1
  <2> HIDE DEF r
  <2>2. Len(flat \o r) = Len(flat) + Len(r)
    BY <2>1
  <2>3. \A x \in 1..Len(flat) : (flat \o r)[x] = flat[x]
    BY <2>1
  <2>4. \A k \in 1..Len(r) : (flat \o r)[Len(flat) + k] = r[k]
    BY <2>1
  <2> QED
    BY <1>2, <2>2, <2>3, <2>4 DEF r
<1> HIDE DEF new, long
<1>5. \A i \in 1..m : new[i] = new[i - 1] + Len(ss[i])
  <2> TAKE i \in 1..m
  <2>1. CASE i = m
    BY <1>1, <1>3, <2>1
  <2>2. CASE i # m
    <3>1. i \in 1..(m - 1) /\ i \in 0..(m - 1) /\ i - 1 \in 0..(m - 1)
      BY <1>1, <2>2
    <3> QED
      BY <1>2, <1>3, <3>1
  <2> QED
    BY <2>1, <2>2
<1>6. \A i \in 1..(m - 1) : \A k \in 1..Len(ss[i]) : off[i - 1] + k \in 1..off[m - 1]
  <2> TAKE i \in 1..(m - 1)
  <2> TAKE k \in 1..Len(ss[i])
  <2>1. ss[i] \in Seq(S) /\ Len(ss[i]) \in Nat
    OBVIOUS
  <2>2. i \in 0..(m - 1) /\ i - 1 \in 0..(m - 1) /\ i <= m - 1
    BY <1>1
  <2>3. off[i] = off[i - 1] + Len(ss[i]) /\ off[i] <= off[m - 1]
    BY <1>1, <1>2, <2>2
  <2>4. off[i - 1] \in Nat /\ off[i] \in Nat /\ off[m - 1] \in Nat
    BY <1>1, <1>2, <2>2
  <2> DEFINE a == off[i - 1]
             b == off[i]
             c == off[m - 1]
             d == Len(ss[i])
  <2>5. k \in Nat /\ 1 <= k /\ k <= Len(ss[i])
    BY <2>1
  <2>6. a \in Nat /\ b \in Nat /\ c \in Nat /\ d \in Nat /\ b = a + d /\ b <= c /\ k <= d
    BY <2>1, <2>3, <2>4, <2>5
  <2> HIDE DEF a, b, c, d
  <2>7. a + k \in 1..c
    BY <2>5, <2>6
  <2> QED
    BY <2>7 DEF a, c
<1>7. \A i \in 1..m : \A k \in 1..Len(ss[i]) : long[new[i - 1] + k] = ss[i][k]
  <2> TAKE i \in 1..m
  <2> TAKE k \in 1..Len(ss[i])
  <2>1. CASE i = m
    BY <1>1, <1>3, <1>4, <2>1
  <2>2. CASE i # m
    <3>1. i \in 1..(m - 1) /\ i - 1 \in 0..(m - 1) /\ new[i - 1] = off[i - 1]
      BY <1>1, <1>3, <2>2
    <3>2. off[i - 1] + k \in 1..off[m - 1]
      BY <1>6, <3>1
    <3> QED
      BY <1>2, <1>4, <3>1, <3>2
  <2> QED
    BY <2>1, <2>2
<1>8. \A i, j \in 0..m : i <= j => new[i] <= new[j]
  <2> TAKE i, j \in 0..m
  <2>1. CASE j = m /\ i # m
    <3>1. i \in 0..(m - 1) /\ new[i] = off[i] /\ off[i] <= off[m - 1] /\ off[i] \in Nat /\ off[m - 1] \in Nat
      BY <1>1, <1>2, <1>3, <2>1
    <3> QED
      BY <1>1, <1>3, <2>1, <3>1
  <2>2. CASE j = m /\ i = m
    BY <1>3, <2>2
  <2>3. ASSUME j # m, i <= j PROVE new[i] <= new[j]
    <3>1. i \in 0..(m - 1) /\ j \in 0..(m - 1)
      BY <1>1, <2>3
    <3>2. new[i] = off[i] /\ new[j] = off[j]
      BY <1>3, <3>1
    <3>3. off[i] <= off[j]
      BY <1>2, <2>3, <3>1
    <3> QED
      BY <3>2, <3>3
  <2> QED
    BY <2>1, <2>2, <2>3
<1>9. \A x \in 1..new[m] : \E i \in 1..m : \E k \in 1..Len(ss[i]) : x = new[i - 1] + k
  <2> TAKE x \in 1..new[m]
  <2>0. x \in Nat /\ x >= 1 /\ x <= off[m - 1] + Len(ss[m]) /\ off[m - 1] \in Nat
    BY <1>1, <1>2, <1>3
  <2>1. CASE x <= off[m - 1]
    <3>1. PICK i \in 1..(m - 1) : \E k \in 1..Len(ss[i]) : x = off[i - 1] + k
      BY <1>2, <2>0, <2>1
    <3>2. i \in 1..m /\ new[i - 1] = off[i - 1]
      BY <1>1, <1>3, <3>1
    <3> QED
      BY <3>1, <3>2
  <2>2. CASE x > off[m - 1]
    <3>1. m \in 1..m /\ new[m - 1] = off[m - 1] /\ Len(ss[m]) \in Nat
      BY <1>1, <1>3
    <3> DEFINE o == off[m - 1]
               d == Len(ss[m])
    <3>2. o \in Nat /\ d \in Nat /\ x \in Nat /\ x > o /\ x <= o + d
      BY <2>0, <2>2, <3>1
    <3> HIDE DEF o, d
    <3>3. x - o \in 1..d /\ x = o + (x - o)
      BY <3>2
    <3> QED
      BY <3>1, <3>3 DEF o, d
  <2> QED
    BY <2>0, <2>1, <2>2
<1>10. new[0] = 0
  BY <1>1, <1>2, <1>3
<1>11. Laid(long, ss, m, new)
  BY <1>3, <1>4, <1>5, <1>7, <1>8, <1>9, <1>10 DEF Laid
<1> QED
  BY <1>11 DEF long, new

\* FlattenSeq lays its pieces one after the other.
LEMMA FlattenLaid ==
  ASSUME NEW S, NEW ss \in Seq(Seq(S))
  PROVE  FlattenSeq(ss) \in Seq(S) /\ \E off : Laid(FlattenSeq(ss), ss, Len(ss), off)
<1> DEFINE n == Len(ss)
<1>0. n \in Nat
  OBVIOUS
<1>1. CASE n = 0
  <2>1. ss = <<>> /\ FlattenSeq(ss) = <<>>
    BY <1>1 DEF FlattenSeq
  <2> DEFINE off == [i \in 0..0 |-> 0]
  <2>2. off \in [0..0 -> Nat] /\ off[0] = 0 /\ (\A i, j \in 0..0 : off[i] <= off[j])
    OBVIOUS
  <2> HIDE DEF off
  <2>3. Laid(<<>>, ss, 0, off)
    <3>1. \A i, j \in 0..0 : i <= j => off[i] <= off[j]
      BY <2>2
    <3>2. 1..0 = {} /\ Len(<<>>) = 0
      OBVIOUS
    <3> QED
      BY <2>2, <3>1, <3>2 DEF Laid
  <2>4. <<>> \in Seq(S)
    OBVIOUS
  <2> QED
    BY <1>1, <2>1, <2>3, <2>4
<1>2. CASE n # 0
  <2>1. PICK g : Flattens(g, ss, n) /\ FlattenSeq(ss) = g[n]
    BY <1>0, <1>2, FlattenIs
  <2> DEFINE Good(m) == g[m] \in Seq(S) /\ \E off : Laid(g[m], ss, m, off)
             T == {m \in 1..n : ~Good(m)}
  <2>2. ASSUME T # {} PROVE FALSE
    <3>1. PICK m \in T : \A k \in T : m <= k
      <4>1. T \in SUBSET Nat
        OBVIOUS
      <4> HIDE DEF T
      <4> QED
        BY <2>2, <4>1, FirstPosition
    <3>2. m \in 1..n /\ ~Good(m)
      OBVIOUS
    <3> HIDE DEF T
    <3>3. g[m] = IF m = 1 THEN ss[m] ELSE g[m - 1] \o ss[m]
      BY <2>1, <3>2 DEF Flattens
    <3>4. CASE m = 1
      <4> DEFINE none == [i \in 0..0 |-> 0]
      <4>1. none \in [0..0 -> Nat] /\ none[0] = 0 /\ (\A i, j \in 0..0 : none[i] <= none[j])
        OBVIOUS
      <4> HIDE DEF none
      <4>2. Laid(<<>>, ss, m - 1, none)
        BY <3>4, <4>1 DEF Laid
      <4>3. ss[m] \in Seq(S) /\ <<>> \in Seq(S) /\ <<>> \o ss[m] = ss[m]
        BY <3>2
      <4>4. \E off : Laid(<<>> \o ss[m], ss, m, off)
        BY <3>2, <4>2, <4>3, LaidOneMore
      <4> QED
        BY <3>2, <3>3, <3>4, <4>3, <4>4
    <3>5. CASE m # 1
      <4>1. m - 1 \in 1..n /\ m - 1 \notin T
        BY <1>0, <3>1, <3>2, <3>5
      <4>2. Good(m - 1)
        BY <4>1 DEF T
      <4>3. PICK off : Laid(g[m - 1], ss, m - 1, off)
        BY <4>2
      <4>4. \E new : Laid(g[m - 1] \o ss[m], ss, m, new)
        BY <3>2, <4>2, <4>3, LaidOneMore
      <4>5. g[m - 1] \o ss[m] \in Seq(S)
        BY <3>2, <4>2
      <4> QED
        BY <3>2, <3>3, <3>5, <4>4, <4>5
    <3> QED
      BY <3>4, <3>5
  <2>3. n \in 1..n
    BY <1>0, <1>2
  <2> QED
    BY <2>1, <2>2, <2>3
<1> QED
  BY <1>1, <1>2

\* So pieces that repeat nothing, and have nothing in common, give a sequence that
\* repeats nothing.
NothingTwice(ss) ==
  \A i, j \in DOMAIN ss : \A k \in DOMAIN ss[i] : \A l \in DOMAIN ss[j] :
     ss[i][k] = ss[j][l] => i = j /\ k = l
FlatOf(S, ss, flat) ==
  /\ flat \in Seq(S)
  /\ \A x, y \in 1..Len(flat) : flat[x] = flat[y] => x = y
  /\ \A x \in 1..Len(flat) : \E i \in DOMAIN ss : \E k \in DOMAIN ss[i] : flat[x] = ss[i][k]

LEMMA FlattenOnce ==
  ASSUME NEW S, NEW ss \in Seq(Seq(S)), NothingTwice(ss)
  PROVE  FlatOf(S, ss, FlattenSeq(ss))
<1> DEFINE flat == FlattenSeq(ss)
<1>1. flat \in Seq(S)
  BY FlattenLaid
<1>2. PICK off : Laid(flat, ss, Len(ss), off)
  BY FlattenLaid
<1>3. /\ Len(flat) = off[Len(ss)]
      /\ \A i \in 1..Len(ss) : \A k \in 1..Len(ss[i]) : flat[off[i - 1] + k] = ss[i][k]
      /\ \A x \in 1..Len(flat) : \E i \in 1..Len(ss) : \E k \in 1..Len(ss[i]) : x = off[i - 1] + k
  BY <1>2 DEF Laid
<1> HIDE DEF flat
<1>4. DOMAIN ss = 1..Len(ss) /\ \A i \in 1..Len(ss) : DOMAIN ss[i] = 1..Len(ss[i])
  <2>1. DOMAIN ss = 1..Len(ss)
    OBVIOUS
  <2>2. ASSUME NEW i \in 1..Len(ss) PROVE DOMAIN ss[i] = 1..Len(ss[i])
    <3>1. ss[i] \in Seq(S)
      BY <2>1
    <3> QED
      BY <3>1
  <2> QED
    BY <2>1, <2>2
<1>5. \A x \in 1..Len(flat) : \E i \in DOMAIN ss : \E k \in DOMAIN ss[i] : x = off[i - 1] + k /\ flat[x] = ss[i][k]
  <2> TAKE x \in 1..Len(flat)
  <2>1. PICK i \in 1..Len(ss) : \E k \in 1..Len(ss[i]) : x = off[i - 1] + k
    BY <1>3
  <2>2. PICK k \in 1..Len(ss[i]) : x = off[i - 1] + k
    BY <2>1
  <2>3. flat[x] = ss[i][k]
    BY <1>3, <2>2
  <2> QED
    BY <1>4, <2>2, <2>3
<1>6. ASSUME NEW x \in 1..Len(flat), NEW y \in 1..Len(flat), flat[x] = flat[y]
      PROVE  x = y
  <2>1. PICK i \in DOMAIN ss : \E k \in DOMAIN ss[i] : x = off[i - 1] + k /\ flat[x] = ss[i][k]
    BY <1>5
  <2>2. PICK j \in DOMAIN ss : \E l \in DOMAIN ss[j] : y = off[j - 1] + l /\ flat[y] = ss[j][l]
    BY <1>5
  <2>3. PICK k \in DOMAIN ss[i] : x = off[i - 1] + k /\ flat[x] = ss[i][k]
    BY <2>1
  <2>4. PICK l \in DOMAIN ss[j] : y = off[j - 1] + l /\ flat[y] = ss[j][l]
    BY <2>2
  <2>5. i = j /\ k = l
    BY <1>6, <2>3, <2>4 DEF NothingTwice
  <2> QED
    BY <2>3, <2>4, <2>5
<1> QED
  BY <1>1, <1>5, <1>6 DEF flat, FlatOf

-----------------------------------------------------------------------------
(* Virtual machines on Grid'5000 *)

\* Euclid's division.
LEMMA Division ==
  ASSUME NEW a \in Nat, NEW b \in Nat \ {0}
  PROVE  /\ a \div b \in Nat /\ a % b \in 0..(b - 1)
         /\ a = b * (a \div b) + (a % b)
  OBVIOUS

\* The division that is rounded up.
LEMMA CeilDivIs ==
  ASSUME NEW a \in Nat, NEW b \in Nat \ {0}
  PROVE  CeilDiv(a, b) \in Nat /\ b * CeilDiv(a, b) >= a
<1>1. (-a) \div b \in Int /\ b * ((-a) \div b) <= -a
  OBVIOUS
<1> DEFINE d == (-a) \div b
<1>2. d \in Int /\ b * d <= -a
  BY <1>1
<1> HIDE DEF d
<1>3. b * (-d) >= a
  BY <1>2
<1>4. -d >= 0
  <2> DEFINE e == d - 1
  <2>1. CASE d <= 0
    BY <1>2, <2>1
  <2>2. CASE d > 0
    <3>1. e \in Nat /\ d = e + 1 /\ b * e >= 0
      BY <1>2, <2>2
    <3> HIDE DEF e
    <3>2. b * d = b * e + b
      BY <3>1
    <3> QED
      BY <1>2, <3>1, <3>2
  <2> QED
    BY <1>2, <2>1, <2>2
<1> QED
  BY <1>2, <1>3, <1>4 DEF CeilDiv, d

\* What a group asks for.
VmGroup(m) ==
  /\ {m.number, m.core, m.mem, m.pmCore} \subseteq Nat \ {0}
  /\ m.pmMem \in Nat /\ m.pmMem > 256

LEMMA ReservedIs ==
  ASSUME NEW m, VmGroup(m)
  PROVE  m.pmMem - ReservedMem(m) \in Nat \ {0}
<1>1. m.pmMem \in Nat /\ m.pmMem > 256 /\ m.pmMem \div 50 \in Nat /\ 50 * (m.pmMem \div 50) <= m.pmMem
  BY DEF VmGroup
<1> DEFINE d == m.pmMem \div 50
<1> HIDE DEF d
<1>2. d \in Nat /\ 50 * d <= m.pmMem
  BY <1>1 DEF d
<1>3. ReservedMem(m) = Lesser(Greater(d, 256), 4096)
  BY DEF ReservedMem, d
<1> QED
  BY <1>1, <1>2, <1>3 DEF Lesser, Greater

\* There are enough machines for the cores and the memory, or one for each virtual machine.
LEMMA NodesForIs ==
  ASSUME NEW m, VmGroup(m)
  PROVE  /\ NodesFor(m) \in 1..m.number
         /\ \/ NodesFor(m) = m.number
            \/ /\ m.pmCore * NodesFor(m) >= m.number * m.core
               /\ (m.pmMem - ReservedMem(m)) * NodesFor(m) >= m.number * m.mem
<1> DEFINE avail == m.pmMem - ReservedMem(m)
           c == CeilDiv(m.number * m.core, m.pmCore)
           d == CeilDiv(m.number * m.mem, avail)
<1>1. /\ m.number \in Nat \ {0} /\ m.core \in Nat \ {0} /\ m.mem \in Nat \ {0} /\ m.pmCore \in Nat \ {0}
      /\ avail \in Nat \ {0}
  BY ReservedIs DEF VmGroup
<1> HIDE DEF avail
<1>2. m.number * m.core \in Nat \ {0} /\ m.number * m.mem \in Nat \ {0}
  BY <1>1
<1>3. c \in Nat /\ m.pmCore * c >= m.number * m.core
  BY <1>1, <1>2, CeilDivIs
<1>4. d \in Nat /\ avail * d >= m.number * m.mem
  BY <1>1, <1>2, CeilDivIs
<1>5. NodesFor(m) = Lesser(Greater(c, d), m.number)
  BY DEF NodesFor, avail
<1> HIDE DEF c, d
<1>6. c >= 1
  BY <1>1, <1>2, <1>3
<1> DEFINE x == Greater(c, d)
<1>7. x \in Nat /\ x >= c /\ x >= d
  BY <1>3, <1>4 DEF Greater
<1> HIDE DEF x
<1>8. m.pmCore * x >= m.pmCore * c /\ avail * x >= avail * d
  BY <1>1, <1>3, <1>4, <1>7
<1>9. m.pmCore * x >= m.number * m.core /\ avail * x >= m.number * m.mem
  <2>1. /\ m.pmCore * x \in Nat /\ m.pmCore * c \in Nat /\ m.number * m.core \in Nat
        /\ avail * x \in Nat /\ avail * d \in Nat /\ m.number * m.mem \in Nat
    BY <1>1, <1>3, <1>4, <1>7
  <2> QED
    BY <2>1, <1>3, <1>4, <1>8
<1>10. NodesFor(m) = IF x < m.number THEN x ELSE m.number
  BY <1>5 DEF x, Lesser
<1> QED
  BY <1>1, <1>3, <1>6, <1>7, <1>9, <1>10 DEF avail

\* Numbers are sorted in one way.
LEMMA SortedOnce ==
  ASSUME NEW S \in SUBSET Nat, IsFiniteSet(S), NEW f \in PmOrders(S), NEW g \in PmOrders(S)
  PROVE  f = g
<1> DEFINE n == Cardinality(S)
<1>1. /\ n \in Nat /\ f \in [1..n -> S] /\ g \in [1..n -> S]
      /\ \A i, j \in 1..n : f[i] = f[j] => i = j
      /\ \A i, j \in 1..n : g[i] = g[j] => i = j
      /\ \A h \in S : (\E i \in 1..n : f[i] = h) /\ (\E i \in 1..n : g[i] = h)
      /\ \A i, j \in 1..n : i < j => f[i] < f[j] /\ g[i] < g[j]
  <2>1. f \in SetToSeqs(S) /\ g \in SetToSeqs(S)
    BY DEF PmOrders
  <2>2. /\ n \in Nat /\ f \in [1..n -> S] /\ g \in [1..n -> S]
        /\ \A i, j \in DOMAIN f : f[i] = f[j] => i = j
        /\ \A i, j \in DOMAIN g : g[i] = g[j] => i = j
        /\ \A h \in S : (\E i \in DOMAIN f : f[i] = h) /\ (\E i \in DOMAIN g : g[i] = h)
    BY <2>1, OrderCovers
  <2>3. DOMAIN f = 1..n /\ DOMAIN g = 1..n
    BY <2>2
  <2> QED
    BY <2>2, <2>3 DEF PmOrders
<1> HIDE DEF n
<1> DEFINE D == {i \in 1..n : f[i] # g[i]}
<1>2. ASSUME D # {} PROVE FALSE
  <2>1. PICK i \in D : \A j \in D : i <= j
    <3>1. D \in SUBSET Nat
      BY <1>1
    <3> HIDE DEF D
    <3> QED
      BY <1>2, <3>1, FirstPosition
  <2>2. i \in 1..n /\ f[i] # g[i] /\ f[i] \in Nat /\ g[i] \in Nat /\ f[i] \in S /\ g[i] \in S
    BY <1>1
  <2>3. \A j \in 1..n : j < i => f[j] = g[j]
    BY <1>1, <2>1, <2>2
  <2>4. PICK j \in 1..n : g[j] = f[i]
    BY <1>1, <2>2
  <2>5. PICK k \in 1..n : f[k] = g[i]
    BY <1>1, <2>2
  <2>6. i \in Nat /\ j \in Nat /\ k \in Nat
    BY <1>1, <2>2
  <2>7. j > i /\ k > i
    BY <1>1, <2>2, <2>3, <2>4, <2>5, <2>6
  <2>8. g[i] < g[j] /\ f[i] < f[k]
    BY <1>1, <2>2, <2>7
  <2> QED
    BY <2>2, <2>4, <2>5, <2>8
<1> QED
  BY <1>1, <1>2

\* The addresses of a site: each once, and none of another site's.
LEMMA MacRangeIs ==
  ASSUME NEW s \in DOMAIN SubnetsOf
  PROVE  /\ MacRange(s) \in Seq(Macs)
         /\ \A x, y \in 1..Len(MacRange(s)) : MacRange(s)[x] = MacRange(s)[y] => x = y
         /\ \A x \in 1..Len(MacRange(s)) : \E i \in DOMAIN SubnetsOf[s] : \E k \in DOMAIN SubnetsOf[s][i] :
               MacRange(s)[x] = SubnetsOf[s][i][k]
<1> DEFINE sub == SubnetsOf[s]
           ss == [i \in DOMAIN sub |-> Tail(sub[i])]
<1>1. /\ sub \in Seq(Seq(Nat) \ {<<>>})
      /\ \A i, j \in DOMAIN sub : \A k \in DOMAIN sub[i], l \in DOMAIN sub[j] :
            sub[i][k] = sub[j][l] => i = j /\ k = l
  BY VMonG5kAssumption
<1>2. MacRange(s) = FlattenSeq(ss)
  BY DEF MacRange
<1>3. \A i \in DOMAIN sub : \A k \in DOMAIN sub[i] : sub[i][k] \in Macs
  BY DEF Macs, ToSet
<1> HIDE DEF sub
<1>4. ASSUME NEW i \in DOMAIN sub
      PROVE  /\ Tail(sub[i]) \in Seq(Macs)
             /\ \A k \in DOMAIN Tail(sub[i]) : /\ k \in Nat /\ k + 1 \in DOMAIN sub[i]
                                               /\ Tail(sub[i])[k] = sub[i][k + 1]
  <2>1. sub[i] \in Seq(Nat) /\ sub[i] # <<>>
    BY <1>1
  <2>2. sub[i] \in Seq(Macs)
    BY <1>3, <2>1
  <2> QED
    BY <2>1, <2>2
<1>5. ss \in Seq(Seq(Macs)) /\ DOMAIN ss = DOMAIN sub /\ \A i \in DOMAIN ss : ss[i] = Tail(sub[i])
  <2>1. DOMAIN sub = 1..Len(sub) /\ Len(sub) \in Nat
    BY <1>1
  <2>2. ss \in [1..Len(sub) -> Seq(Macs)]
    BY <1>4, <2>1
  <2> QED
    BY <2>1, <2>2
<1> HIDE DEF ss
<1>6. NothingTwice(ss)
  <2> USE DEF NothingTwice
  <2> TAKE i, j \in DOMAIN ss
  <2> TAKE k \in DOMAIN ss[i]
  <2> TAKE l \in DOMAIN ss[j]
  <2> HAVE ss[i][k] = ss[j][l]
  <2>1. /\ i \in DOMAIN sub /\ j \in DOMAIN sub /\ k \in Nat /\ l \in Nat
        /\ k + 1 \in DOMAIN sub[i] /\ l + 1 \in DOMAIN sub[j]
        /\ sub[i][k + 1] = sub[j][l + 1]
    BY <1>4, <1>5
  <2>2. i = j /\ k + 1 = l + 1
    BY <1>1, <2>1
  <2> QED
    BY <2>1, <2>2
<1>7. FlatOf(Macs, ss, FlattenSeq(ss))
  BY <1>5, <1>6, FlattenOnce
<1>8. \A x \in 1..Len(FlattenSeq(ss)) : \E i \in DOMAIN sub : \E k \in DOMAIN sub[i] : FlattenSeq(ss)[x] = sub[i][k]
  <2> TAKE x \in 1..Len(FlattenSeq(ss))
  <2>1. PICK i \in DOMAIN ss : \E k \in DOMAIN ss[i] : FlattenSeq(ss)[x] = ss[i][k]
    BY <1>7 DEF FlatOf
  <2>2. PICK k \in DOMAIN ss[i] : FlattenSeq(ss)[x] = ss[i][k]
    BY <2>1
  <2>3. k + 1 \in DOMAIN sub[i] /\ ss[i][k] = sub[i][k + 1] /\ i \in DOMAIN sub
    BY <1>4, <1>5
  <2> QED
    BY <2>2, <2>3
<1> QED
  BY <1>2, <1>7, <1>8 DEF sub, FlatOf

LEMMA LenOfEmpty ==
  ASSUME NEW s, DOMAIN s = 1..0
  PROVE  Len(s) = 0
  OBVIOUS

\* The groups are numbered, and each asks for something.
VmConfOK ==
  /\ vmConf \in VmConfs
  /\ Len(vmConf) \in Nat /\ VmGroups = 1..Len(vmConf)
  /\ \A g \in VmGroups : VmGroup(vmConf[g]) /\ vmConf[g].number \in Nat \ {0} /\ vmConf[g].site \in DOMAIN SubnetsOf

LEMMA ConfIs == ASSUME vmConf \in VmConfs PROVE VmConfOK
  BY VMonG5kAssumption DEF VmConfOK, VmGroups, VmGroup

\* A group takes its addresses after those of the groups before it on its site.
LEMMA TakenIs ==
  ASSUME VmConfOK, NEW g \in VmGroups
  PROVE  /\ TakenBefore(g) \in Nat
         /\ \A h \in VmGroups : h < g /\ vmConf[h].site = vmConf[g].site =>
               TakenBefore(h) + vmConf[h].number <= TakenBefore(g)
<1> DEFINE before(i) == {h \in 1..(i - 1) : vmConf[h].site = vmConf[i].site}
           own(h) == {h} \X (1..vmConf[h].number)
           all(i) == UNION {own(h) : h \in before(i)}
<1>1. \A h \in VmGroups : h \in Nat /\ vmConf[h].number \in Nat
  BY DEF VmConfOK
<1>2. \A h \in VmGroups : TakenBefore(h) = Cardinality(all(h))
  BY DEF TakenBefore
<1>3. ASSUME NEW h \in VmGroups
      PROVE  IsFiniteSet(own(h)) /\ Cardinality(own(h)) = vmConf[h].number
  <2>1. IsFiniteSet({h}) /\ Cardinality({h}) = 1
    BY FS_Singleton
  <2> DEFINE n == vmConf[h].number
  <2>0. n \in Nat
    BY <1>1
  <2> HIDE DEF n
  <2>2. IsFiniteSet(1..n) /\ Cardinality(1..n) = n
    BY <2>0, FS_Interval
  <2> DEFINE H == {h}
             N == 1..n
  <2>3. IsFiniteSet(H) /\ Cardinality(H) = 1 /\ IsFiniteSet(N) /\ Cardinality(N) = n
    BY <2>1, <2>2
  <2> HIDE DEF H, N
  <2>4. IsFiniteSet(H \X N) /\ Cardinality(H \X N) = Cardinality(H) * Cardinality(N)
    BY <2>3, FS_Product
  <2>5. Cardinality(H \X N) = n
    BY <2>0, <2>3, <2>4
  <2> QED
    BY <2>4, <2>5 DEF n, H, N
<1>4. \A i \in VmGroups : before(i) \subseteq VmGroups /\ before(i) \subseteq 1..(i - 1)
  BY DEF VmConfOK
<1> HIDE DEF own
<1>5. ASSUME NEW i \in VmGroups PROVE IsFiniteSet(all(i)) /\ Cardinality(all(i)) \in Nat
  <2>1. IsFiniteSet(before(i))
    <3>1. IsFiniteSet(1..(i - 1))
      <4>1. 1 \in Int /\ i - 1 \in Int
        BY <1>1
      <4> QED
        BY <4>1, FS_Interval
    <3> QED
      BY <1>4, <3>1, FS_Subset
  <2> DEFINE F == {own(h) : h \in before(i)}
  <2>2. IsFiniteSet(F)
    <3> DEFINE f == [h \in before(i) |-> own(h)]
    <3>1. f \in Surjection(before(i), F)
      BY DEF Surjection
    <3> HIDE DEF before, f, F
    <3> QED
      BY <2>1, <3>1, FS_Surjection
  <2>3. \A T \in F : IsFiniteSet(T)
    BY <1>3, <1>4
  <2> HIDE DEF F
  <2>4. IsFiniteSet(UNION F)
    BY <2>2, <2>3, FS_UNION
  <2>5. IsFiniteSet(all(i))
    BY <2>4 DEF F
  <2> QED
    BY <2>5, FS_CardinalityType
<1>6. ASSUME NEW h \in VmGroups, h < g, vmConf[h].site = vmConf[g].site
      PROVE  TakenBefore(h) + vmConf[h].number <= TakenBefore(g)
  <2>0. h \in Nat /\ g \in Nat /\ h >= 1
    BY <1>1 DEF VmConfOK
  <2>1. h \in before(g) /\ before(h) \subseteq before(g) /\ h \notin before(h)
    <3>1. h \in before(g)
      BY <1>6, <2>0
    <3>2. \A x \in before(h) : x \in 1..(g - 1) /\ vmConf[x].site = vmConf[g].site /\ x # h
      BY <1>6, <2>0
    <3> QED
      BY <3>1, <3>2
  <2>2. all(h) \cup own(h) \subseteq all(g)
    BY <2>1
  <2>3. all(h) \cap own(h) = {}
    BY <2>1 DEF own
  <2> DEFINE A == all(h)
             B == own(h)
             C == all(g)
  <2>4. IsFiniteSet(A) /\ IsFiniteSet(B) /\ IsFiniteSet(C) /\ Cardinality(B) = vmConf[h].number
        /\ Cardinality(A) \in Nat /\ Cardinality(C) \in Nat
    BY <1>3, <1>5
  <2>5. A \cup B \subseteq C /\ A \cap B = {}
    BY <2>2, <2>3
  <2>6. Cardinality(A) = TakenBefore(h) /\ Cardinality(C) = TakenBefore(g)
    BY <1>2
  <2> HIDE DEF A, B, C
  <2>7. Cardinality(A \cup B) = Cardinality(A) + Cardinality(B) - Cardinality(A \cap B)
    BY <2>4, FS_Union
  <2>8. Cardinality(A \cap B) = 0
    BY <2>5, FS_EmptySet
  <2>9. Cardinality(A \cup B) <= Cardinality(C)
    BY <2>4, <2>5, FS_Subset
  <2> QED
    BY <1>1, <2>4, <2>6, <2>7, <2>8, <2>9
<1> QED
  BY <1>2, <1>5, <1>6

\* With enough addresses, no two virtual machines have the same one.
LEMMA MacsDistinct ==
  ASSUME VmConfOK, EnoughMacs,
         NEW g \in VmGroups, NEW k \in 1..vmConf[g].number
  PROVE  /\ MacsOf(g)[k] \in Macs
         /\ \A h \in VmGroups : \A l \in 1..vmConf[h].number : MacsOf(g)[k] = MacsOf(h)[l] => g = h /\ k = l
<1>1. ASSUME NEW h \in VmGroups, NEW l \in 1..vmConf[h].number
      PROVE  /\ TakenBefore(h) + l \in 1..Len(MacRange(vmConf[h].site))
             /\ MacsOf(h)[l] = MacRange(vmConf[h].site)[TakenBefore(h) + l]
  <2> DEFINE range == MacRange(vmConf[h].site)
             t == TakenBefore(h)
             n == vmConf[h].number
             last == Lesser(t + n, Len(range))
  <2>1. range \in Seq(Macs) /\ Len(range) \in Nat
    BY MacRangeIs DEF VmConfOK
  <2>2. t \in Nat /\ n \in Nat \ {0} /\ l \in 1..n
    BY TakenIs DEF VmConfOK
  <2>3. MacsOf(h) = SubSeq(range, t + 1, last) /\ Len(MacsOf(h)) >= n
    BY DEF MacsOf, EnoughMacs
  <2>9. Len(MacsOf(h)) >= n
    BY <2>3
  <2> HIDE DEF t, n, range
  <2>4. last \in Nat /\ last <= Len(range) /\ last <= t + n
    BY <2>1, <2>2 DEF Lesser
  <2> HIDE DEF last
  <2>5. SubSeq(range, t + 1, last) = [i \in 1..(1 + last - (t + 1)) |-> range[i + (t + 1) - 1]]
    BY <2>1, <2>2, <2>4
  <2>6. t + n <= last
    <3>1. CASE last - t < n
      <4> DEFINE d == 1 + last - (t + 1)
                 s == [i \in 1..d |-> range[i + (t + 1) - 1]]
      <4>1. d \in Int /\ d < n
        BY <2>2, <2>4, <3>1
      <4>2. CASE d >= 0
        <5>1. d \in Nat /\ DOMAIN s = 1..d
          BY <4>1, <4>2
        <5>2. Len(s) = d
          <6> HIDE DEF d
          <6> QED
            BY <5>1
        <5>3. MacsOf(h) = s
          BY <2>3, <2>5
        <5> HIDE DEF s
        <5> QED
          BY <2>2, <2>9, <4>1, <5>2, <5>3
      <4>3. CASE d < 0
        <5>1. DOMAIN s = 1..0
          BY <4>1, <4>3
        <5>2. Len(s) = 0
          <6> HIDE DEF s
          <6> QED
            BY <5>1, LenOfEmpty
        <5>3. MacsOf(h) = s
          BY <2>3, <2>5
        <5> HIDE DEF s
        <5> QED
          BY <2>2, <2>9, <5>2, <5>3
      <4> QED
        BY <4>1, <4>2, <4>3
    <3> QED
      BY <2>2, <2>4, <3>1
  <2>7. t + l \in 1..Len(range) /\ l \in 1..(1 + last - (t + 1)) /\ l + (t + 1) - 1 = t + l
    BY <2>1, <2>2, <2>4, <2>6
  <2>8. MacsOf(h)[l] = range[t + l]
    BY <2>3, <2>5, <2>7
  <2> QED
    BY <2>7, <2>8 DEF t, range
<1> DEFINE s == vmConf[g].site
<1>2. s \in DOMAIN SubnetsOf
  BY DEF VmConfOK
<1>3. ASSUME NEW h \in VmGroups, NEW l \in 1..vmConf[h].number, MacsOf(g)[k] = MacsOf(h)[l]
      PROVE  g = h /\ k = l
  <2> DEFINE r == vmConf[h].site
             x == TakenBefore(g) + k
             y == TakenBefore(h) + l
  <2>1. r \in DOMAIN SubnetsOf
    BY DEF VmConfOK
  <2>2. x \in 1..Len(MacRange(s)) /\ y \in 1..Len(MacRange(r)) /\ MacRange(s)[x] = MacRange(r)[y]
    BY <1>1, <1>3
  <2> HIDE DEF x, y, r, s
  <2>3. s = r
    <3>1. PICK i \in DOMAIN SubnetsOf[s] : \E m \in DOMAIN SubnetsOf[s][i] : MacRange(s)[x] = SubnetsOf[s][i][m]
      BY <1>2, <2>2, MacRangeIs
    <3>2. PICK j \in DOMAIN SubnetsOf[r] : \E m \in DOMAIN SubnetsOf[r][j] : MacRange(r)[y] = SubnetsOf[r][j][m]
      BY <2>1, <2>2, MacRangeIs
    <3>3. PICK m \in DOMAIN SubnetsOf[s][i] : MacRange(s)[x] = SubnetsOf[s][i][m]
      BY <3>1
    <3>4. PICK o \in DOMAIN SubnetsOf[r][j] : MacRange(r)[y] = SubnetsOf[r][j][o]
      BY <3>2
    <3>5. SubnetsOf[s][i][m] = SubnetsOf[r][j][o]
      BY <2>2, <3>3, <3>4
    <3> QED
      BY <1>2, <2>1, <3>5, VMonG5kAssumption
  <2>4. x = y
    BY <1>2, <2>2, <2>3, MacRangeIs
  <2>5. TakenBefore(g) + k = TakenBefore(h) + l /\ vmConf[g].site = vmConf[h].site
    BY <2>3, <2>4 DEF x, y, s, r
  <2>6. /\ g \in Nat /\ h \in Nat /\ k \in 1..vmConf[g].number /\ l \in 1..vmConf[h].number
        /\ vmConf[g].number \in Nat /\ vmConf[h].number \in Nat
        /\ TakenBefore(g) \in Nat /\ TakenBefore(h) \in Nat
    BY TakenIs DEF VmConfOK
  <2>7. ~(h < g)
    <3>1. h < g => TakenBefore(h) + vmConf[h].number <= TakenBefore(g)
      BY <2>5, TakenIs
    <3> QED
      BY <2>5, <2>6, <3>1
  <2>8. ~(g < h)
    <3>1. g < h => TakenBefore(g) + vmConf[g].number <= TakenBefore(h)
      BY <2>5, TakenIs
    <3> QED
      BY <2>5, <2>6, <3>1
  <2> QED
    BY <2>5, <2>6, <2>7, <2>8
<1>4. MacsOf(g)[k] \in Macs
  <2>1. MacRange(s) \in Seq(Macs)
    BY <1>2, MacRangeIs
  <2> QED
    BY <1>1, <2>1
<1> QED
  BY <1>3, <1>4

\* The turns of a machine, when machines are taken in turn.
InTurn(n, L, order, pm) == {k \in 1..n : order[((k - 1) % L) + 1] = pm}

\* Round robin: a machine gets no more than the rounds.
LEMMA RoundRobin ==
  ASSUME NEW n \in Nat \ {0}, NEW L \in Nat \ {0}, NEW q \in Nat, L * q >= n,
         NEW order, \A i, j \in 1..L : order[i] = order[j] => i = j,
         NEW pm
  PROVE  Cardinality(InTurn(n, L, order, pm)) <= q
<1> DEFINE on == {k \in 1..n : order[((k - 1) % L) + 1] = pm}
           f == [k \in on |-> ((k - 1) \div L) + 1]
<1>1. ASSUME NEW k \in on
      PROVE  /\ k \in Nat /\ (k - 1) % L \in 0..(L - 1) /\ f[k] \in 1..q
             /\ k - 1 = L * (f[k] - 1) + ((k - 1) % L)
             /\ order[((k - 1) % L) + 1] = pm
  <2> DEFINE a == k - 1
             d == a \div L
             r == a % L
  <2>1. a \in Nat /\ a < n /\ k \in Nat
    OBVIOUS
  <2>2. d \in Nat /\ r \in 0..(L - 1) /\ a = L * d + r
    BY <2>1, Division
  <2>3. f[k] = d + 1
    OBVIOUS
  <2>4. order[r + 1] = pm
    OBVIOUS
  <2> HIDE DEF a, d, r, f, on
  <2>5. d < q
    <3>1. CASE d >= q
      <4>1. L * d >= L * q
        BY <2>2, <3>1
      <4>2. L * d \in Nat /\ L * q \in Nat
        BY <2>2
      <4> QED
        BY <2>1, <2>2, <4>1, <4>2
    <3> QED
      BY <2>2, <3>1
  <2>6. f[k] \in 1..q /\ f[k] - 1 = d
    BY <2>2, <2>3, <2>5
  <2> QED
    BY <2>1, <2>2, <2>4, <2>6 DEF a, r
<1>2. f \in Injection(on, 1..q)
  <2>1. f \in [on -> 1..q]
    BY <1>1
  <2>2. ASSUME NEW i \in on, NEW j \in on, f[i] = f[j] PROVE i = j
    <3> DEFINE r == (i - 1) % L
               t == (j - 1) % L
               d == f[i] - 1
    <3>0. /\ r \in 0..(L - 1) /\ order[r + 1] = pm
          /\ t \in 0..(L - 1) /\ order[t + 1] = pm
      <4> HIDE DEF f, on
      <4> QED
        BY <1>1
    <3>1. r \in 0..(L - 1) /\ t \in 0..(L - 1) /\ order[r + 1] = order[t + 1]
      BY <3>0
    <3>2. i - 1 = L * d + r /\ j - 1 = L * d + t /\ i \in Nat /\ j \in Nat /\ d \in Nat
      <4>1. f[i] \in 1..q /\ i \in Nat /\ j \in Nat /\ i - 1 = L * (f[i] - 1) + r /\ j - 1 = L * (f[j] - 1) + t
        <5> HIDE DEF f, on
        <5> QED
          BY <1>1
      <4> HIDE DEF f, on
      <4> QED
        BY <2>2, <4>1
    <3> HIDE DEF r, t, d
    <3>3. r = t
      BY <3>1
    <3> QED
      BY <3>2, <3>3
  <2> HIDE DEF f, on
  <2> QED
    BY <2>1, <2>2 DEF Injection, IsInjective
<1>3. IsFiniteSet(1..q) /\ Cardinality(1..q) = q
  BY FS_Interval
<1> HIDE DEF f, on
<1>4. Cardinality(on) <= Cardinality(1..q)
  BY <1>2, <1>3, FS_Injection
<1> QED
  BY <1>3, <1>4 DEF on, InTurn

VmSteps == {"idle", "job", "place", "destroy", "start", "ready", "raised"}

\* The client is at work on the job that is there.
OnVmJob == vmJob # NoJob /\ vmJob.id = vmc.job

VmTyped ==
  /\ vmConf \in VmConfs /\ force \in BOOLEAN /\ vmCalls \in 0..MaxVmCalls
  /\ vmJob.id \in 0..vmCalls
  /\ vmJob # NoJob => vmJob.id # 0 /\ vmJob.pms \in Undercloud
  /\ guests \in [PMs -> SUBSET [mac : Macs, born : 1..vmCalls]]

VmClientTyped ==
  vmc \in [at : VmSteps, job : 0..vmCalls, placed : {vmc.placed}, todo : SUBSET PMs, forced : BOOLEAN, ok : BOOLEAN]

\* Virtual machines run on a job where its placement, which is always the same, has them.
GuestsPlaced ==
  \A pm \in PMs : \A u \in guests[pm] :
     /\ vmJob # NoJob /\ EnoughMacs
     /\ \E placed \in Placements(vmJob.pms) : \E g \in VmGroups : \E k \in 1..vmConf[g].number :
           placed[g][k] = [mac |-> u.mac, pm |-> pm]
     /\ \A v \in guests[pm] : u.mac = v.mac => u = v

\* What a client that has placed its machines knows.
ClientPlaced ==
  /\ vmc.at # "idle" => vmCalls # 0
  /\ vmc.at \in {"place", "destroy", "start", "ready"} => vmc.job # 0
  /\ vmc.at \in {"destroy", "start", "ready"} => HostingPms(vmc.placed) \subseteq PMs
  /\ vmc.at \in {"destroy", "start", "ready"} /\ OnVmJob =>
        EnoughMacs /\ vmc.placed \in Placements(vmJob.pms)
  /\ vmc.at = "ready" => vmc.todo = {} /\ vmc.ok

\* How far its plays have come on the machines that are done.
PlaysDone ==
  vmc.at \in {"destroy", "start", "ready"} /\ OnVmJob /\ vmc.ok =>
     /\ vmc.at = "destroy" =>
           \A pm \in HostingPms(vmc.placed) \ vmc.todo : \A u \in guests[pm] : u.mac \notin PlacedOn(pm)
     /\ vmc.at \in {"start", "ready"} =>
           /\ \A pm \in HostingPms(vmc.placed) \ vmc.todo : \A mac \in PlacedOn(pm) :
                 \E u \in guests[pm] : u.mac = mac
           /\ vmc.forced => \A pm \in HostingPms(vmc.placed) : \A u \in guests[pm] :
                 u.mac \in PlacedOn(pm) => u.born = vmCalls

VmIInv == VmTyped /\ VmClientTyped /\ GuestsPlaced /\ ClientPlaced /\ PlaysDone

PlacementOf(o) ==
  [g \in VmGroups |-> [k \in 1..vmConf[g].number |->
      [mac |-> MacsOf(g)[k], pm |-> o[g][((k - 1) % Len(o[g])) + 1]]]]

\* A placement gives each virtual machine an address and a machine of its group, in turn.
PlacedGroup(placed, pms, o, g) ==
  /\ pms[g] \subseteq PMs
  /\ Len(o[g]) = NodesFor(vmConf[g]) /\ Len(o[g]) \in Nat \ {0}
  /\ \A i \in 1..Len(o[g]) : o[g][i] \in pms[g]
  /\ \A i, j \in 1..Len(o[g]) : o[g][i] = o[g][j] => i = j
  /\ DOMAIN placed[g] = 1..vmConf[g].number
  /\ \A k \in 1..vmConf[g].number :
        /\ placed[g][k] = [mac |-> MacsOf(g)[k], pm |-> o[g][((k - 1) % Len(o[g])) + 1]]
        /\ placed[g][k].pm \in pms[g]
        /\ placed[g][k].mac = MacsOf(g)[k]

IsPlacement(placed, pms, o) ==
  DOMAIN placed = VmGroups /\ \A g \in VmGroups : PlacedGroup(placed, pms, o, g)

LEMMA PlacementIs ==
  ASSUME VmConfOK, NEW pms \in Undercloud, NEW placed \in Placements(pms)
  PROVE  \E o : IsPlacement(placed, pms, o)
<1>1. PICK o \in [VmGroups -> UNION {PmOrders(pms[g]) : g \in VmGroups}] :
         (\A g \in VmGroups : o[g] \in PmOrders(pms[g])) /\ placed = PlacementOf(o)
  BY DEF Placements, PlacementOf
<1>2. ASSUME NEW g \in VmGroups
      PROVE  /\ pms[g] \subseteq PMs
             /\ Len(o[g]) = NodesFor(vmConf[g]) /\ Len(o[g]) \in Nat \ {0}
             /\ \A i \in 1..Len(o[g]) : o[g][i] \in pms[g]
             /\ \A i, j \in 1..Len(o[g]) : o[g][i] = o[g][j] => i = j
  <2> DEFINE S == pms[g]
             f == o[g]
  <2>1. S \subseteq PMs /\ Cardinality(S) = NodesFor(vmConf[g])
    BY DEF Undercloud
  <2>2. IsFiniteSet(S)
    BY <2>1, VMonG5kAssumption, FS_Subset
  <2>3. f \in SetToSeqs(S)
    BY <1>1 DEF PmOrders
  <2> HIDE DEF S, f
  <2>4. /\ f \in [1..Cardinality(S) -> S] /\ Cardinality(S) \in Nat
        /\ \A i, j \in DOMAIN f : f[i] = f[j] => i = j
    BY <2>2, <2>3, OrderCovers
  <2>5. Len(f) = Cardinality(S) /\ DOMAIN f = 1..Len(f)
    BY <2>4
  <2>6. VmGroup(vmConf[g])
    BY DEF VmConfOK
  <2>7. NodesFor(vmConf[g]) # 0
    BY <2>6, NodesForIs DEF VmGroup
  <2> QED
    BY <2>1, <2>4, <2>5, <2>7 DEF S, f
<1>3. DOMAIN placed = VmGroups /\ \A g \in VmGroups : DOMAIN placed[g] = 1..vmConf[g].number
  BY <1>1 DEF PlacementOf
<1>4. ASSUME NEW g \in VmGroups, NEW k \in 1..vmConf[g].number
      PROVE  /\ placed[g][k] = [mac |-> MacsOf(g)[k], pm |-> o[g][((k - 1) % Len(o[g])) + 1]]
             /\ placed[g][k].pm \in pms[g]
             /\ placed[g][k].mac = MacsOf(g)[k]
  <2>1. placed[g][k] = [mac |-> MacsOf(g)[k], pm |-> o[g][((k - 1) % Len(o[g])) + 1]]
    BY <1>1 DEF PlacementOf
  <2> DEFINE L == Len(o[g])
             a == k - 1
  <2>0. vmConf[g].number \in Nat
    BY DEF VmConfOK
  <2>2. L \in Nat \ {0} /\ a \in Nat
    BY <1>2, <2>0
  <2> HIDE DEF L, a
  <2>3. a % L \in 0..(L - 1)
    BY <2>2, Division
  <2>4. (a % L) + 1 \in 1..L
    BY <2>2, <2>3
  <2> QED
    BY <1>2, <2>1, <2>4 DEF L, a
<1>5. ASSUME NEW g \in VmGroups PROVE PlacedGroup(placed, pms, o, g)
  BY <1>2, <1>3, <1>4 DEF PlacedGroup
<1> QED
  BY <1>3, <1>5 DEF IsPlacement

LEMMA PlacementOnce ==
  ASSUME VmConfOK, NEW pms \in Undercloud, NEW p \in Placements(pms), NEW q \in Placements(pms)
  PROVE  p = q
<1>1. PICK o \in [VmGroups -> UNION {PmOrders(pms[g]) : g \in VmGroups}] :
         (\A g \in VmGroups : o[g] \in PmOrders(pms[g])) /\ p = PlacementOf(o)
  BY DEF Placements, PlacementOf
<1>2. PICK r \in [VmGroups -> UNION {PmOrders(pms[g]) : g \in VmGroups}] :
         (\A g \in VmGroups : r[g] \in PmOrders(pms[g])) /\ q = PlacementOf(r)
  BY DEF Placements, PlacementOf
<1>3. ASSUME NEW g \in VmGroups PROVE o[g] = r[g]
  <2>1. pms[g] \subseteq PMs /\ PMs \subseteq Nat /\ IsFiniteSet(PMs)
    BY VMonG5kAssumption DEF Undercloud
  <2>2. pms[g] \in SUBSET Nat /\ IsFiniteSet(pms[g])
    BY <2>1, FS_Subset
  <2> QED
    BY <1>1, <1>2, <2>2, SortedOnce
<1>4. o = r
  BY <1>1, <1>2, <1>3
<1> QED
  BY <1>1, <1>2, <1>4

\* What is placed on a machine.
LEMMA PlacedOnIs ==
  ASSUME VmConfOK, NEW pms \in Undercloud, NEW placed \in Placements(pms)
  PROVE  /\ placed = vmc.placed =>
               \A pm : \A mac : mac \in PlacedOn(pm) <=>
                  \E g \in VmGroups : \E k \in 1..vmConf[g].number : placed[g][k] = [mac |-> mac, pm |-> pm]
         /\ HostingPms(placed) \subseteq PMs
         /\ \A g \in VmGroups : \A k \in 1..vmConf[g].number : placed[g][k].pm \in HostingPms(placed)
<1> DEFINE all == UNION {ToSet(placed[g]) : g \in DOMAIN placed}
<1>1. PICK o : IsPlacement(placed, pms, o)
  BY PlacementIs
<1>2. /\ DOMAIN placed = VmGroups
      /\ \A g \in VmGroups : DOMAIN placed[g] = 1..vmConf[g].number
      /\ \A g \in VmGroups : \A k \in 1..vmConf[g].number :
            /\ placed[g][k] = [mac |-> placed[g][k].mac, pm |-> placed[g][k].pm]
            /\ placed[g][k].pm \in PMs
  <2>1. DOMAIN placed = VmGroups
    BY <1>1 DEF IsPlacement
  <2>2. ASSUME NEW g \in VmGroups PROVE PlacedGroup(placed, pms, o, g)
    BY <1>1 DEF IsPlacement
  <2>3. ASSUME NEW g \in VmGroups, NEW k \in 1..vmConf[g].number
        PROVE  /\ placed[g][k] = [mac |-> placed[g][k].mac, pm |-> placed[g][k].pm]
               /\ placed[g][k].pm \in PMs
    <3> DEFINE x == o[g][((k - 1) % Len(o[g])) + 1]
               y == MacsOf(g)[k]
               v == placed[g][k]
    <3>1. v = [mac |-> y, pm |-> x] /\ v.pm \in pms[g] /\ pms[g] \subseteq PMs
      BY <2>2 DEF PlacedGroup
    <3> HIDE DEF x, y, v
    <3>2. v = [mac |-> v.mac, pm |-> v.pm] /\ v.pm \in PMs
      BY <3>1
    <3> QED
      BY <3>2 DEF v
  <2>4. \A g \in VmGroups : DOMAIN placed[g] = 1..vmConf[g].number
    BY <2>2 DEF PlacedGroup
  <2> QED
    BY <2>1, <2>3, <2>4
<1>3. \A vm : vm \in all <=> \E g \in VmGroups : \E k \in 1..vmConf[g].number : placed[g][k] = vm
  <2> TAKE vm
  <2>1. vm \in all <=> \E g \in DOMAIN placed : vm \in ToSet(placed[g])
    OBVIOUS
  <2>2. \A g \in VmGroups : vm \in ToSet(placed[g]) <=> \E k \in 1..vmConf[g].number : placed[g][k] = vm
    BY <1>2 DEF ToSet
  <2> HIDE DEF all
  <2> QED
    BY <1>2, <2>1, <2>2
<1>4. ASSUME placed = vmc.placed PROVE \A pm : PlacedOn(pm) = {vm.mac : vm \in {vm \in all : vm.pm = pm}}
  BY <1>4 DEF PlacedOn
<1>5. HostingPms(placed) = {vm.pm : vm \in all}
  BY DEF HostingPms
<1> HIDE DEF all
<1>6. ASSUME placed = vmc.placed, NEW pm, NEW mac
      PROVE  mac \in PlacedOn(pm) <=>
                \E g \in VmGroups : \E k \in 1..vmConf[g].number : placed[g][k] = [mac |-> mac, pm |-> pm]
  <2>1. ASSUME mac \in PlacedOn(pm)
        PROVE  \E g \in VmGroups : \E k \in 1..vmConf[g].number : placed[g][k] = [mac |-> mac, pm |-> pm]
    <3>1. PICK vm \in all : vm.pm = pm /\ vm.mac = mac
      BY <1>4, <1>6, <2>1
    <3>2. PICK g \in VmGroups : \E k \in 1..vmConf[g].number : placed[g][k] = vm
      BY <1>3, <3>1
    <3> QED
      BY <1>2, <3>1, <3>2
  <2>2. ASSUME NEW g \in VmGroups, NEW k \in 1..vmConf[g].number, placed[g][k] = [mac |-> mac, pm |-> pm]
        PROVE  mac \in PlacedOn(pm)
    BY <1>3, <1>4, <1>6, <2>2
  <2> QED
    BY <2>1, <2>2
<1>7. HostingPms(placed) \subseteq PMs
  <2> SUFFICES ASSUME NEW pm \in HostingPms(placed) PROVE pm \in PMs
    OBVIOUS
  <2>1. PICK vm \in all : vm.pm = pm
    BY <1>5
  <2>2. PICK g \in VmGroups : \E k \in 1..vmConf[g].number : placed[g][k] = vm
    BY <1>3, <2>1
  <2> QED
    BY <1>2, <2>1, <2>2
<1>8. \A g \in VmGroups : \A k \in 1..vmConf[g].number : placed[g][k].pm \in HostingPms(placed)
  BY <1>3, <1>5
<1> QED
  BY <1>6, <1>7, <1>8

LEMMA VmInitOK == VmInit => VmIInv
<1> SUFFICES ASSUME VmInit PROVE VmIInv
  OBVIOUS
<1>1. VmTyped
  <2>1. /\ vmConf \in VmConfs /\ force = FALSE /\ vmCalls = 0 /\ vmJob = NoJob /\ vmJob.id = 0
        /\ guests = [pm \in PMs |-> {}] /\ MaxVmCalls \in Nat
    BY VMonG5kAssumption DEF VmInit, NoJob
  <2>2. guests \in [PMs -> SUBSET [mac : Macs, born : 1..vmCalls]]
    BY <2>1
  <2>3. vmCalls \in 0..MaxVmCalls
    <3>1. vmCalls = 0 /\ MaxVmCalls \in Nat
      BY <2>1
    <3> QED
      BY <3>1
  <2>6. force \in BOOLEAN /\ vmConf \in VmConfs
    <3>1. force = FALSE /\ vmConf \in VmConfs
      BY DEF VmInit
    <3> QED
      BY <3>1, Zenon
  <2>5. vmJob.id \in 0..vmCalls
    <3>1. vmJob.id = 0 /\ vmCalls = 0
      BY <2>1
    <3> QED
      BY <3>1
  <2>4. ~(vmJob # NoJob)
    BY <2>1
  <2> QED
    BY <2>2, <2>3, <2>4, <2>5, <2>6 DEF VmTyped
<1>3. VmClientTyped
  <2>1. /\ vmc = [at |-> "idle", job |-> 0, placed |-> <<>>, todo |-> {}, forced |-> FALSE, ok |-> TRUE]
        /\ vmc.placed = <<>> /\ vmCalls = 0
    BY DEF VmInit, Resting
  <2> QED
    BY <2>1 DEF VmClientTyped, VmSteps
<1>2. GuestsPlaced /\ ClientPlaced /\ PlaysDone
  BY DEF VmInit, GuestsPlaced, ClientPlaced, PlaysDone, Resting
<1> QED
  BY <1>1, <1>2, <1>3 DEF VmIInv

\* A play on a machine, and what comes next.
PlayDone(pm, ok) ==
  /\ vmc'.placed = vmc.placed /\ vmc'.job = vmc.job /\ vmc'.forced = vmc.forced
  /\ vmc' \in [at : VmSteps, job : 0..vmCalls, placed : {vmc'.placed}, todo : SUBSET PMs, forced : BOOLEAN, ok : BOOLEAN]
  /\ \/ vmc'.at = vmc.at /\ vmc'.todo = vmc.todo \ {pm} /\ (vmc'.ok => vmc.ok /\ ok)
     \/ vmc'.at = "raised"
     \/ /\ vmc.todo \ {pm} = {} /\ vmc.ok /\ ok /\ vmc'.ok
        /\ \/ vmc.at = "destroy" /\ vmc'.at = "start" /\ vmc'.todo = HostingPms(vmc.placed)
           \/ vmc.at = "start" /\ vmc'.at = "ready" /\ vmc'.todo = {}

LEMMA NextPlayIs ==
  ASSUME VmClientTyped, ClientPlaced, NEW pm, NEW ok \in BOOLEAN, vmc.at \in {"destroy", "start"},
         NextPlay(pm, ok)
  PROVE  PlayDone(pm, ok)
<1> DEFINE todo == vmc.todo \ {pm}
           all == vmc.ok /\ ok
           hosting == HostingPms(vmc.placed)
<1>1. vmc \in [at : VmSteps, job : 0..vmCalls, placed : {vmc.placed}, todo : SUBSET PMs, forced : BOOLEAN, ok : BOOLEAN]
  BY DEF VmClientTyped
<1>2. vmc.ok \in BOOLEAN /\ all \in BOOLEAN /\ todo \subseteq PMs /\ hosting \subseteq PMs
  BY <1>1 DEF ClientPlaced
<1>3. vmc' = IF todo # {} THEN [vmc EXCEPT !.todo = todo, !.ok = all]
             ELSE IF ~all THEN [vmc EXCEPT !.at = "raised", !.todo = {}]
             ELSE IF vmc.at = "destroy" THEN [vmc EXCEPT !.at = "start", !.todo = hosting]
             ELSE [vmc EXCEPT !.at = "ready", !.todo = {}]
  BY DEF NextPlay
<1>4. (all => vmc.ok /\ ok) /\ (todo = {} => vmc.todo \ {pm} = {})
  BY <1>2
<1>5. todo = vmc.todo \ {pm} /\ (all = (vmc.ok /\ ok))
  OBVIOUS
<1> HIDE DEF todo, all, hosting
<1>6. CASE todo # {}
  <2>1. vmc' = [vmc EXCEPT !.todo = todo, !.ok = all]
    BY <1>3, <1>6
  <2> QED
    BY <1>1, <1>2, <1>4, <1>5, <2>1 DEF PlayDone
<1>7. CASE todo = {} /\ ~all
  <2>1. vmc' = [vmc EXCEPT !.at = "raised", !.todo = {}]
    BY <1>3, <1>7
  <2> QED
    BY <1>1, <1>2, <2>1 DEF PlayDone, VmSteps
<1>8. CASE todo = {} /\ all /\ vmc.at = "destroy"
  <2>1. vmc' = [vmc EXCEPT !.at = "start", !.todo = hosting]
    BY <1>3, <1>8
  <2> QED
    BY <1>1, <1>2, <1>4, <1>8, <2>1 DEF PlayDone, VmSteps, hosting
<1>9. CASE todo = {} /\ all /\ vmc.at = "start"
  <2>1. vmc' = [vmc EXCEPT !.at = "ready", !.todo = {}]
    BY <1>3, <1>9
  <2> QED
    BY <1>1, <1>2, <1>4, <1>9, <2>1 DEF PlayDone, VmSteps
<1> QED
  BY <1>6, <1>7, <1>8, <1>9

\* What depends on the configuration only.
SameVms ==
  /\ VmGroups' = VmGroups /\ Undercloud' = Undercloud /\ EnoughMacs' = EnoughMacs
  /\ \A pms : Placements(pms)' = Placements(pms)

LEMMA SameConf == ASSUME UNCHANGED vmConf PROVE SameVms
<1>1. VmGroups' = VmGroups /\ Undercloud' = Undercloud
  BY DEF VmGroups, Undercloud
<1>2. \A g : MacsOf(g)' = MacsOf(g)
  BY DEF MacsOf, TakenBefore
<1>3. EnoughMacs' = EnoughMacs
  BY <1>1, <1>2 DEF EnoughMacs
<1>4. \A pms : Placements(pms)' = Placements(pms)
  BY <1>1, <1>2, SMTT(40) DEF Placements
<1> QED
  BY <1>1, <1>3, <1>4 DEF SameVms

LEMMA GuestsFrame ==
  ASSUME GuestsPlaced, UNCHANGED <<vmConf, vmJob, guests>>
  PROVE  GuestsPlaced'
  BY SameConf DEF GuestsPlaced, SameVms

LEMMA NoGuests ==
  ASSUME guests' = [pm \in PMs |-> {}]
  PROVE  GuestsPlaced'
  BY DEF GuestsPlaced

\* Before it is placed, or once it has raised, a client knows nothing.
LEMMA ClientAway ==
  ASSUME VmTyped', VmClientTyped', GuestsPlaced', vmc'.at \in {"idle", "job", "raised"},
         vmc'.at # "idle" => vmCalls' # 0
  PROVE  VmIInv'
  BY DEF VmIInv, ClientPlaced, PlaysDone

LEMMA VmStepOK == VmIInv /\ [VmNext]_vmVars => VmIInv'
<1> SUFFICES ASSUME VmIInv, [VmNext]_vmVars PROVE VmIInv'
  OBVIOUS
<1>0. VmConfOK /\ VmTyped /\ VmClientTyped /\ GuestsPlaced /\ ClientPlaced /\ PlaysDone /\ MaxVmCalls \in Nat
  BY ConfIs, VMonG5kAssumption DEF VmTyped, VmIInv
<1>t. /\ vmConf \in VmConfs /\ force \in BOOLEAN /\ vmCalls \in 0..MaxVmCalls
      /\ vmJob.id \in 0..vmCalls
      /\ (vmJob # NoJob => vmJob.id # 0 /\ vmJob.pms \in Undercloud)
      /\ guests \in [PMs -> SUBSET [mac : Macs, born : 1..vmCalls]]
  BY <1>0 DEF VmTyped
<1>r. vmc \in [at : VmSteps, job : 0..vmCalls, placed : {vmc.placed}, todo : SUBSET PMs, forced : BOOLEAN, ok : BOOLEAN]
  BY <1>0 DEF VmClientTyped
<1>1. CASE UNCHANGED vmVars
  <2>1. SameVms /\ UNCHANGED <<vmConf, force, vmJob, guests, vmc, vmCalls>>
    BY <1>1, SameConf DEF vmVars
  <2>2. VmTyped' /\ VmClientTyped'
    BY <1>0, <2>1 DEF VmTyped, VmClientTyped, SameVms
  <2>3. GuestsPlaced'
    BY <1>0, <2>1, GuestsFrame
  <2>4. ClientPlaced'
    BY <1>0, <2>1 DEF ClientPlaced, SameVms, OnVmJob, HostingPms
  <2>5. PlaysDone'
    BY <1>0, <2>1 DEF PlaysDone, OnVmJob, HostingPms, PlacedOn
  <2> QED
    BY <2>2, <2>3, <2>4, <2>5 DEF VmIInv
<1>2. ASSUME NEW forced \in BOOLEAN, BeginVmInit(forced) PROVE VmIInv'
  <2>1. /\ vmCalls < MaxVmCalls /\ vmCalls' = vmCalls + 1 /\ force' = (force \/ forced)
        /\ UNCHANGED <<vmConf, vmJob, guests>>
        /\ vmc' = [at |-> "job", job |-> 0, placed |-> <<>>, todo |-> {}, forced |-> force', ok |-> TRUE]
    BY <1>2 DEF BeginVmInit, Resting
  <2>2. vmCalls \in Nat /\ vmCalls' \in 1..MaxVmCalls /\ 0..vmCalls \subseteq 0..vmCalls' /\ 1..vmCalls \subseteq 1..vmCalls'
    BY <1>0, <1>t, <2>1
  <2>3. [mac : Macs, born : 1..vmCalls] \subseteq [mac : Macs, born : 1..vmCalls']
    BY <2>2
  <2>4. VmTyped'
    <3>1. guests' \in [PMs -> SUBSET [mac : Macs, born : 1..vmCalls']]
      BY <1>t, <2>1, <2>3
    <3>2. force' \in BOOLEAN /\ vmCalls' \in 0..MaxVmCalls /\ vmJob'.id \in 0..vmCalls'
      BY <1>0, <1>t, <2>1, <2>2
    <3>3. SameVms
      BY <2>1, SameConf
    <3> QED
      BY <1>t, <2>1, <3>1, <3>2, <3>3 DEF VmTyped, SameVms
  <2>5. VmClientTyped'
    BY <2>1, <2>2, <1>t DEF VmClientTyped, VmSteps
  <2>6. GuestsPlaced'
    BY <1>0, <2>1, GuestsFrame
  <2> QED
    BY <2>1, <2>2, <2>4, <2>5, <2>6, ClientAway
<1>3. CASE GetVmJob
  <2>1. /\ vmc.at = "job" /\ UNCHANGED <<vmConf, force, guests, vmCalls>>
        /\ vmc' = [vmc EXCEPT !.at = "place", !.job = vmJob'.id]
    BY <1>3 DEF GetVmJob
  <2>2. vmCalls \in Nat /\ vmCalls # 0 /\ SameVms
    BY <1>0, <1>t, <2>1, SameConf DEF ClientPlaced
  <2>3. /\ vmJob'.id \in 1..vmCalls /\ vmJob'.pms \in Undercloud /\ GuestsPlaced'
    <3>1. CASE vmJob # NoJob /\ UNCHANGED vmJob
      <4>1. GuestsPlaced'
        BY <1>0, <2>1, <3>1, GuestsFrame
      <4> QED
        BY <1>t, <2>2, <3>1, <4>1
    <3>2. CASE vmJob = NoJob /\ \E pms \in Undercloud : vmJob' = [id |-> vmCalls, pms |-> pms]
      <4>1. \A pm \in PMs : guests[pm] = {}
        BY <1>0, <3>2 DEF GuestsPlaced
      <4>2. guests' = [pm \in PMs |-> {}]
        BY <1>t, <2>1, <4>1
      <4> QED
        BY <2>2, <3>2, <4>2, NoGuests
    <3> QED
      BY <1>3, <3>1, <3>2 DEF GetVmJob
  <2>4. VmTyped'
    BY <1>t, <2>1, <2>2, <2>3 DEF VmTyped, SameVms
  <2>5. /\ vmc'.at = "place" /\ vmc'.job = vmJob'.id /\ VmClientTyped'
    <3> DEFINE id == vmJob'.id
    <3>1. id \in 0..vmCalls /\ vmCalls' = vmCalls
      BY <2>1, <2>2, <2>3
    <3>2. vmc' = [vmc EXCEPT !.at = "place", !.job = id]
      BY <2>1
    <3> HIDE DEF id
    <3>3. vmc'.at = "place" /\ vmc'.job = id /\ vmc'.placed = vmc.placed
      BY <1>r, <3>2
    <3>4. vmc' \in [at : VmSteps, job : 0..vmCalls, placed : {vmc.placed}, todo : SUBSET PMs, forced : BOOLEAN, ok : BOOLEAN]
      BY <1>r, <3>1, <3>2 DEF VmSteps
    <3> QED
      BY <3>1, <3>3, <3>4 DEF VmClientTyped, id
  <2>6. ClientPlaced' /\ PlaysDone'
    BY <2>1, <2>2, <2>3, <2>5 DEF ClientPlaced, PlaysDone
  <2> QED
    BY <2>3, <2>4, <2>5, <2>6 DEF VmIInv
<1>4. CASE NoVmJob
  <2>1. /\ vmc.at = "job" /\ UNCHANGED <<vmConf, force, vmJob, guests, vmCalls>>
        /\ vmc' = [vmc EXCEPT !.at = "raised"] /\ SameVms
    BY <1>4, SameConf DEF NoVmJob
  <2>2. VmTyped'
    BY <1>t, <2>1 DEF VmTyped, SameVms
  <2>3. VmClientTyped' /\ vmc'.at = "raised" /\ vmCalls # 0
    BY <1>0, <1>r, <2>1 DEF VmClientTyped, VmSteps, ClientPlaced
  <2>4. GuestsPlaced'
    BY <1>0, <2>1, GuestsFrame
  <2> QED
    BY <2>1, <2>2, <2>3, <2>4, ClientAway
<1>5. CASE Place
  <2>1. vmc.at = "place" /\ vmJob.id = vmc.job /\ UNCHANGED <<vmConf, force, vmJob, guests, vmCalls>> /\ SameVms
    BY <1>5, SameConf DEF Place
  <2>2. VmTyped' /\ GuestsPlaced'
    <3>1. VmTyped'
      BY <1>t, <2>1 DEF VmTyped, SameVms
    <3> QED
      BY <1>0, <2>1, <3>1, GuestsFrame
  <2>3. vmc.job # 0 /\ vmCalls # 0 /\ vmJob # NoJob
    BY <1>0, <2>1 DEF ClientPlaced, NoJob
  <2>4. CASE ~EnoughMacs
    <3>1. vmc' = [vmc EXCEPT !.at = "raised"]
      BY <1>5, <2>4 DEF Place
    <3>2. VmClientTyped' /\ vmc'.at = "raised"
      BY <1>r, <2>1, <3>1 DEF VmClientTyped, VmSteps
    <3> QED
      BY <2>1, <2>2, <2>3, <3>2, ClientAway
  <2>5. CASE EnoughMacs
    <3>1. PICK placed \in Placements(vmJob.pms) :
            vmc' = [vmc EXCEPT !.at = IF vmc.forced THEN "destroy" ELSE "start",
                               !.placed = placed, !.todo = HostingPms(placed)]
      BY <1>5, <2>5 DEF Place
    <3> DEFINE H == HostingPms(placed)
    <3>2. /\ vmc'.at = (IF vmc.forced THEN "destroy" ELSE "start")
          /\ vmc'.placed = placed /\ vmc'.todo = H
          /\ vmc'.job = vmc.job /\ vmc'.forced = vmc.forced /\ vmc'.ok = vmc.ok
          /\ vmc' = [at |-> vmc'.at, job |-> vmc'.job, placed |-> vmc'.placed, todo |-> vmc'.todo, forced |-> vmc'.forced, ok |-> vmc'.ok]
      <4> HIDE DEF H
      <4> QED
        BY <1>r, <3>1 DEF H
    <3>3. H \subseteq PMs
      BY <1>0, <1>t, <2>3, PlacedOnIs
    <3> HIDE DEF H
    <3>4. VmClientTyped'
      BY <1>r, <2>1, <3>2, <3>3 DEF VmClientTyped, VmSteps
    <3>5. ClientPlaced'
      BY <2>1, <2>3, <2>5, <3>1, <3>2, <3>3 DEF ClientPlaced, SameVms, HostingPms, H
    <3>6. PlaysDone'
      <4>1. HostingPms(vmc.placed)' = H
        BY <3>2 DEF H, HostingPms
      <4> QED
        BY <2>1, <3>2, <4>1 DEF PlaysDone
    <3> QED
      BY <2>2, <3>4, <3>5, <3>6 DEF VmIInv
  <2> QED
    BY <2>4, <2>5
<1>6. ASSUME NEW pm \in PMs, DestroyGuests(pm) PROVE VmIInv'
  <2>1. /\ vmc.at = "destroy" /\ pm \in vmc.todo /\ vmJob.id = vmc.job
        /\ guests' = [guests EXCEPT ![pm] = {vm \in guests[pm] : vm.mac \notin PlacedOn(pm)}]
        /\ NextPlay(pm, TRUE) /\ UNCHANGED <<vmConf, force, vmJob, vmCalls>> /\ SameVms
    BY <1>6, SameConf DEF DestroyGuests
  <2>2. PlayDone(pm, TRUE)
    BY <1>0, <2>1, NextPlayIs
  <2>3. OnVmJob /\ EnoughMacs /\ vmc.placed \in Placements(vmJob.pms) /\ HostingPms(vmc.placed) \subseteq PMs
    BY <1>0, <2>1 DEF ClientPlaced, OnVmJob, NoJob
  <2>4. \A q \in PMs : guests'[q] \subseteq guests[q]
    BY <1>t, <2>1
  <2>5. VmTyped'
    <3>1. guests' \in [PMs -> SUBSET [mac : Macs, born : 1..vmCalls]]
      BY <1>t, <2>1
    <3> QED
      BY <1>t, <2>1, <3>1 DEF VmTyped, SameVms
  <2>6. GuestsPlaced'
    BY <1>0, <2>1, <2>4 DEF GuestsPlaced, SameVms
  <2>7. PlaysDone'
    <3> DEFINE H == HostingPms(vmc.placed)
    <3>1. /\ vmc'.placed = vmc.placed /\ HostingPms(vmc.placed)' = H /\ vmc'.forced = vmc.forced
          /\ \A q : PlacedOn(q)' = PlacedOn(q)
      BY <2>2 DEF PlayDone, HostingPms, PlacedOn
    <3>2. ASSUME vmc.ok, NEW q \in H, q \notin vmc.todo \ {pm}, NEW u \in guests'[q] PROVE u.mac \notin PlacedOn(q)
      <4>1. CASE q = pm
        BY <1>t, <2>1, <3>2, <4>1
      <4>2. CASE q # pm
        <5>1. q \in HostingPms(vmc.placed) \ vmc.todo /\ u \in guests[q] /\ q \in PMs
          BY <2>3, <2>4, <3>2, <4>2
        <5> QED
          BY <1>0, <2>1, <2>3, <3>2, <5>1 DEF PlaysDone
      <4> QED
        BY <4>1, <4>2
    <3>3. CASE vmc'.at = vmc.at /\ vmc'.todo = vmc.todo \ {pm} /\ (vmc'.ok => vmc.ok /\ TRUE)
      BY <2>1, <3>1, <3>2, <3>3 DEF PlaysDone
    <3>4. CASE vmc'.at = "raised"
      BY <3>4 DEF PlaysDone
    <3>5. CASE vmc.todo \ {pm} = {} /\ vmc.ok /\ vmc'.at = "start" /\ vmc'.todo = H
      BY <2>1, <3>1, <3>2, <3>5 DEF PlaysDone
    <3> QED
      BY <2>1, <2>2, <3>3, <3>4, <3>5 DEF PlayDone
  <2>8. ClientPlaced'
    <3>1. HostingPms(vmc.placed)' = HostingPms(vmc.placed) /\ vmc'.placed = vmc.placed /\ vmc'.job = vmc.job
      BY <2>2 DEF PlayDone, HostingPms
    <3>2. vmc.job # 0 /\ vmCalls' # 0
      BY <1>0, <2>1 DEF ClientPlaced
    <3>3. vmc'.at # "ready"
      BY <2>1, <2>2 DEF PlayDone
    <3> QED
      BY <2>1, <2>3, <3>1, <3>2, <3>3 DEF ClientPlaced, SameVms
  <2>9. VmClientTyped'
    BY <2>1, <2>2 DEF PlayDone, VmClientTyped
  <2> QED
    BY <2>5, <2>6, <2>7, <2>8, <2>9 DEF VmIInv
<1>7. ASSUME NEW pm \in PMs, StartGuests(pm) PROVE VmIInv'
  <2> DEFINE missing == PlacedOn(pm) \ {vm.mac : vm \in guests[pm]}
             H == HostingPms(vmc.placed)
  <2>1. /\ vmc.at = "start" /\ pm \in vmc.todo /\ vmJob.id = vmc.job
        /\ UNCHANGED <<vmConf, force, vmJob, vmCalls>> /\ SameVms
    BY <1>7, SameConf DEF StartGuests
  <2>2. PICK started \in SUBSET missing :
          /\ guests' = [guests EXCEPT ![pm] = guests[pm] \cup {[mac |-> mac, born |-> vmCalls] : mac \in started}]
          /\ NextPlay(pm, started = missing)
    BY <1>7 DEF StartGuests
  <2> DEFINE all == started = missing
             new == {[mac |-> mac, born |-> vmCalls] : mac \in started}
  <2>3. all \in BOOLEAN /\ NextPlay(pm, all)
    BY <2>2
  <2>4. PlayDone(pm, all)
    <3> HIDE DEF all
    <3> QED
      BY <1>0, <2>1, <2>3, NextPlayIs
  <2>5. OnVmJob /\ EnoughMacs /\ vmc.placed \in Placements(vmJob.pms) /\ H \subseteq PMs /\ vmJob # NoJob
        /\ vmJob.pms \in Undercloud /\ vmc.job # 0 /\ vmCalls # 0
    BY <1>0, <1>t, <2>1 DEF ClientPlaced, OnVmJob, NoJob
  <2>6. \A mac : mac \in PlacedOn(pm) <=>
           \E g \in VmGroups : \E k \in 1..vmConf[g].number : vmc.placed[g][k] = [mac |-> mac, pm |-> pm]
    BY <1>0, <2>5, PlacedOnIs
  <2>7. \A mac \in PlacedOn(pm) : mac \in Macs
    <3> TAKE mac \in PlacedOn(pm)
    <3>1. PICK g \in VmGroups : \E k \in 1..vmConf[g].number : vmc.placed[g][k] = [mac |-> mac, pm |-> pm]
      BY <2>6
    <3>2. PICK k \in 1..vmConf[g].number : vmc.placed[g][k] = [mac |-> mac, pm |-> pm]
      BY <3>1
    <3>3. PICK o : IsPlacement(vmc.placed, vmJob.pms, o)
      BY <1>0, <2>5, PlacementIs
    <3>4. vmc.placed[g][k].mac = MacsOf(g)[k]
      BY <3>3 DEF IsPlacement, PlacedGroup
    <3>5. MacsOf(g)[k] \in Macs
      BY <1>0, <2>5, MacsDistinct
    <3>6. vmc.placed[g][k].mac = mac
      BY <3>2
    <3> QED
      BY <3>4, <3>5, <3>6
  <2>8. /\ \A q \in PMs : q # pm => guests'[q] = guests[q]
        /\ guests'[pm] = guests[pm] \cup new
        /\ \A q \in PMs : guests[q] \subseteq guests'[q]
        /\ new \subseteq [mac : Macs, born : 1..vmCalls]
    <3>1. vmCalls \in 1..vmCalls
      BY <1>0, <1>t, <2>5
    <3>2. started \subseteq PlacedOn(pm)
      OBVIOUS
    <3>3. new \subseteq [mac : Macs, born : 1..vmCalls]
      BY <2>7, <3>1, <3>2
    <3> QED
      BY <1>t, <2>2, <3>3
  <2>9. \A u \in new : u.mac \in missing /\ u.born = vmCalls
    OBVIOUS
  <2>n. \A mac \in started : \E u \in new : u.mac = mac
    <3> TAKE mac \in started
    <3> DEFINE u == [mac |-> mac, born |-> vmCalls]
    <3>1. u \in new /\ u.mac = mac
      OBVIOUS
    <3> QED
      BY <3>1
  <2>m. \A u, v \in new : u.mac = v.mac => u = v
    OBVIOUS
  <2>o. /\ missing \subseteq PlacedOn(pm) /\ \A u \in guests[pm] : u.mac \notin missing
        /\ \A mac \in PlacedOn(pm) : mac \notin missing => \E u \in guests[pm] : u.mac = mac
    OBVIOUS
  <2> HIDE DEF new, missing, H
  <2>10. VmTyped'
    <3>1. guests' \in [PMs -> SUBSET [mac : Macs, born : 1..vmCalls]]
      BY <1>t, <2>2, <2>8 DEF new
    <3> QED
      BY <1>t, <2>1, <3>1 DEF VmTyped, SameVms
  <2>11. GuestsPlaced'
    <3> SUFFICES ASSUME NEW q \in PMs, NEW u \in guests'[q]
                 PROVE  /\ \E placed \in Placements(vmJob.pms) : \E g \in VmGroups : \E k \in 1..vmConf[g].number :
                              placed[g][k] = [mac |-> u.mac, pm |-> q]
                        /\ \A v \in guests'[q] : u.mac = v.mac => u = v
      BY <2>1, <2>5 DEF GuestsPlaced, SameVms
    <3>1. CASE u \in guests[q]
      <4>1. /\ \E placed \in Placements(vmJob.pms) : \E g \in VmGroups : \E k \in 1..vmConf[g].number :
                 placed[g][k] = [mac |-> u.mac, pm |-> q]
            /\ \A v \in guests[q] : u.mac = v.mac => u = v
        BY <1>0, <3>1 DEF GuestsPlaced
      <4>2. \A v \in guests'[q] : u.mac = v.mac => u = v
        BY <2>8, <2>9, <2>o, <3>1, <4>1
      <4> QED
        BY <4>1, <4>2
    <3>2. CASE u \notin guests[q]
      <4>1. q = pm /\ u \in new
        BY <2>8, <3>2
      <4>2. u.mac \in PlacedOn(pm) /\ u.mac \in missing
        BY <2>9, <2>o, <4>1
      <4>3. \E g \in VmGroups : \E k \in 1..vmConf[g].number : vmc.placed[g][k] = [mac |-> u.mac, pm |-> q]
        BY <2>6, <4>1, <4>2
      <4>4. \A v \in guests'[q] : u.mac = v.mac => u = v
        BY <2>8, <2>m, <2>o, <4>1, <4>2
      <4> QED
        BY <2>5, <4>3, <4>4
    <3> QED
      BY <3>1, <3>2
  <2>12. PlaysDone'
    <3>1. /\ vmc'.placed = vmc.placed /\ HostingPms(vmc.placed)' = H /\ vmc'.forced = vmc.forced
          /\ \A q : PlacedOn(q)' = PlacedOn(q)
      BY <2>4 DEF PlayDone, HostingPms, PlacedOn, H
    <3>2. ASSUME vmc.ok, all, NEW q \in H, q \notin vmc.todo \ {pm}, NEW mac \in PlacedOn(q)
          PROVE  \E u \in guests'[q] : u.mac = mac
      <4>1. CASE q = pm
        <5>1. CASE mac \in missing
          BY <2>8, <2>n, <3>2, <4>1, <5>1
        <5>2. CASE mac \notin missing
          BY <2>8, <2>o, <3>2, <4>1, <5>2
        <5> QED
          BY <5>1, <5>2
      <4>2. CASE q # pm
        <5>1. q \in HostingPms(vmc.placed) \ vmc.todo /\ q \in PMs
          BY <2>5, <3>2, <4>2 DEF H
        <5>2. \E u \in guests[q] : u.mac = mac
          BY <1>0, <2>1, <2>5, <3>2, <5>1 DEF PlaysDone
        <5> QED
          BY <2>8, <5>1, <5>2
      <4> QED
        BY <4>1, <4>2
    <3>3. ASSUME vmc.ok, vmc.forced, NEW q \in H, NEW u \in guests'[q], u.mac \in PlacedOn(q)
          PROVE  u.born = vmCalls
      <4>1. CASE u \in guests[q]
        BY <1>0, <2>1, <2>5, <3>3, <4>1 DEF PlaysDone, H
      <4>2. CASE u \notin guests[q]
        BY <2>5, <2>8, <2>9, <3>3, <4>2
      <4> QED
        BY <4>1, <4>2
    <3> HIDE DEF all
    <3>4. CASE vmc'.at = vmc.at /\ vmc'.todo = vmc.todo \ {pm} /\ (vmc'.ok => vmc.ok /\ all)
      BY <2>1, <3>1, <3>2, <3>3, <3>4 DEF PlaysDone
    <3>5. CASE vmc'.at = "raised"
      BY <3>5 DEF PlaysDone
    <3>6. CASE vmc.todo \ {pm} = {} /\ vmc.ok /\ all /\ vmc'.at = "ready" /\ vmc'.todo = {}
      BY <2>1, <3>1, <3>2, <3>3, <3>6 DEF PlaysDone
    <3> QED
      BY <2>1, <2>4, <3>4, <3>5, <3>6 DEF PlayDone
  <2>13. ClientPlaced'
    <3>1. /\ HostingPms(vmc.placed)' = H /\ vmc'.placed = vmc.placed /\ vmc'.job = vmc.job
          /\ (vmc'.at = "ready" => vmc'.todo = {} /\ vmc'.ok)
      BY <2>1, <2>4 DEF PlayDone, HostingPms, H
    <3> QED
      BY <2>1, <2>5, <3>1 DEF ClientPlaced, SameVms
  <2>14. VmClientTyped'
    BY <2>1, <2>4 DEF PlayDone, VmClientTyped
  <2> QED
    BY <2>10, <2>11, <2>12, <2>13, <2>14 DEF VmIInv
<1>8. ASSUME NEW pm \in PMs, Unreachable(pm) PROVE VmIInv'
  <2> DEFINE H == HostingPms(vmc.placed)
  <2>1. /\ vmc.at \in {"destroy", "start"} /\ pm \in vmc.todo /\ NextPlay(pm, FALSE)
        /\ UNCHANGED <<vmConf, force, vmJob, guests, vmCalls>> /\ SameVms
    BY <1>8, SameConf DEF Unreachable
  <2>2. PlayDone(pm, FALSE)
    BY <1>0, <2>1, NextPlayIs
  <2>3. /\ vmc'.placed = vmc.placed /\ HostingPms(vmc.placed)' = H /\ vmc'.job = vmc.job
        /\ (vmc'.at = vmc.at /\ ~vmc'.ok) \/ vmc'.at = "raised"
    BY <2>2 DEF PlayDone, HostingPms
  <2>4. VmTyped' /\ GuestsPlaced'
    <3>1. VmTyped'
      BY <1>t, <2>1 DEF VmTyped, SameVms
    <3> QED
      BY <1>0, <2>1, <3>1, GuestsFrame
  <2>5. VmClientTyped'
    BY <2>1, <2>2 DEF PlayDone, VmClientTyped
  <2>6. PlaysDone'
    BY <2>3 DEF PlaysDone
  <2>7. ClientPlaced'
    BY <1>0, <2>1, <2>3 DEF ClientPlaced, OnVmJob, SameVms
  <2> QED
    BY <2>4, <2>5, <2>6, <2>7 DEF VmIInv
<1>9. CASE VmJobEnds
  <2>1. /\ vmJob' = NoJob /\ guests' = [pm \in PMs |-> {}] /\ UNCHANGED <<vmConf, force, vmc, vmCalls>>
        /\ SameVms /\ vmc.at # "place"
    BY <1>9, SameConf DEF VmJobEnds, JobGone
  <2>2. VmTyped'
    BY <1>t, <2>1 DEF VmTyped, NoJob
  <2>3. VmClientTyped'
    BY <1>0, <2>1 DEF VmClientTyped
  <2>4. GuestsPlaced'
    BY <2>1, NoGuests
  <2>5. ClientPlaced' /\ PlaysDone'
    BY <1>0, <2>1 DEF ClientPlaced, PlaysDone, OnVmJob, HostingPms
  <2> QED
    BY <2>2, <2>3, <2>4, <2>5 DEF VmIInv
<1>10. CASE VmDestroy
  <2>1. /\ vmJob' = NoJob /\ guests' = [pm \in PMs |-> {}] /\ UNCHANGED <<vmConf, force>>
        /\ vmc' = [at |-> "idle", job |-> 0, placed |-> <<>>, todo |-> {}, forced |-> FALSE, ok |-> TRUE]
        /\ vmCalls < MaxVmCalls /\ vmCalls' = vmCalls + 1
    BY <1>10 DEF VmDestroy, JobGone, Resting
  <2>2. vmCalls' \in 0..MaxVmCalls
    BY <1>0, <1>t, <2>1
  <2>3. VmTyped'
    BY <1>t, <2>1, <2>2 DEF VmTyped, NoJob
  <2>4. VmClientTyped'
    BY <2>1, <2>2 DEF VmClientTyped, VmSteps
  <2> QED
    BY <2>1, <2>3, <2>4, NoGuests, ClientAway
<1>11. CASE VmKilled
  <2>1. /\ vmc' = [at |-> "idle", job |-> 0, placed |-> <<>>, todo |-> {}, forced |-> FALSE, ok |-> TRUE]
        /\ force' = FALSE /\ UNCHANGED <<vmConf, vmJob, guests, vmCalls>> /\ SameVms
    BY <1>11, SameConf DEF VmKilled, Resting
  <2>2. VmTyped'
    BY <1>t, <2>1 DEF VmTyped, SameVms
  <2>3. VmClientTyped'
    BY <1>t, <2>1 DEF VmClientTyped, VmSteps
  <2> QED
    BY <1>0, <2>1, <2>2, <2>3, GuestsFrame, ClientAway
<1> QED
  BY <1>1, <1>2, <1>3, <1>4, <1>5, <1>6, <1>7, <1>8, <1>9, <1>10, <1>11 DEF VmNext

\* No two virtual machines of a job are given one address.
LEMMA PlacedApart ==
  ASSUME VmConfOK, EnoughMacs, NEW pms \in Undercloud, NEW placed \in Placements(pms),
         NEW g \in VmGroups, NEW k \in 1..vmConf[g].number,
         NEW h \in VmGroups, NEW l \in 1..vmConf[h].number,
         placed[g][k].mac = placed[h][l].mac
  PROVE  g = h /\ k = l
<1>1. PICK o : IsPlacement(placed, pms, o)
  BY PlacementIs
<1>2. PlacedGroup(placed, pms, o, g) /\ PlacedGroup(placed, pms, o, h)
  BY <1>1 DEF IsPlacement
<1>3. placed[g][k].mac = MacsOf(g)[k] /\ placed[h][l].mac = MacsOf(h)[l]
  BY <1>2 DEF PlacedGroup
<1>4. \A h2 \in VmGroups : \A l2 \in 1..vmConf[h2].number : MacsOf(g)[k] = MacsOf(h2)[l2] => g = h2 /\ k = l2
  BY MacsDistinct
<1> QED
  BY <1>3, <1>4

LEMMA VmOnce == VmIInv => VmsRunOnce
<1> SUFFICES ASSUME VmIInv, NEW p \in PMs, NEW q \in PMs, NEW u \in guests[p], NEW v \in guests[q],
                    u.mac = v.mac
             PROVE  p = q /\ u = v
  BY DEF VmsRunOnce
<1>0. VmConfOK /\ VmTyped /\ GuestsPlaced
  BY ConfIs DEF VmTyped, VmIInv
<1>1. vmJob # NoJob /\ EnoughMacs /\ vmJob.pms \in Undercloud
  BY <1>0 DEF GuestsPlaced, VmTyped
<1>2. PICK placed \in Placements(vmJob.pms) : \E g \in VmGroups : \E k \in 1..vmConf[g].number :
         placed[g][k] = [mac |-> u.mac, pm |-> p]
  BY <1>0 DEF GuestsPlaced
<1>3. PICK other \in Placements(vmJob.pms) : \E g \in VmGroups : \E k \in 1..vmConf[g].number :
         other[g][k] = [mac |-> v.mac, pm |-> q]
  BY <1>0 DEF GuestsPlaced
<1>4. placed = other
  BY <1>0, <1>1, PlacementOnce
<1>5. PICK g \in VmGroups : \E k \in 1..vmConf[g].number : placed[g][k] = [mac |-> u.mac, pm |-> p]
  BY <1>2
<1>6. PICK k \in 1..vmConf[g].number : placed[g][k] = [mac |-> u.mac, pm |-> p]
  BY <1>5
<1>7. PICK h \in VmGroups : \E k2 \in 1..vmConf[h].number : placed[h][k2] = [mac |-> v.mac, pm |-> q]
  BY <1>3, <1>4
<1>8. PICK l \in 1..vmConf[h].number : placed[h][l] = [mac |-> v.mac, pm |-> q]
  BY <1>7
<1>9. placed[g][k].mac = u.mac /\ placed[g][k].pm = p /\ placed[h][l].mac = v.mac /\ placed[h][l].pm = q
  BY <1>6, <1>8
<1>10. g = h /\ k = l
  BY <1>0, <1>1, <1>9, PlacedApart
<1>11. p = q
  BY <1>9, <1>10
<1> QED
  BY <1>0, <1>11 DEF GuestsPlaced

\* What a group is promised.
GroupReady(g) ==
  LET m == vmConf[g]
      on(pm) == {k \in 1..m.number : vmc.placed[g][k].pm = pm}
  IN  /\ Cardinality({vm.mac : vm \in ToSet(vmc.placed[g])}) = m.number
      /\ \A h \in VmGroups \ {g} : \A u \in ToSet(vmc.placed[g]), v \in ToSet(vmc.placed[h]) :
            u.mac # v.mac
      /\ \A vm \in ToSet(vmc.placed[g]) :
            /\ vm.pm \in vmJob.pms[g]
            /\ \E guest \in guests[vm.pm] :
                  guest.mac = vm.mac /\ (vmc.forced => guest.born = vmCalls)
      /\ m.pmCore % m.core = 0 /\ (m.pmMem - ReservedMem(m)) % m.mem = 0 =>
            \A pm \in vmJob.pms[g] :
               /\ Cardinality(on(pm)) * m.core <= m.pmCore
               /\ Cardinality(on(pm)) * m.mem <= m.pmMem - ReservedMem(m)

\* Machines taken in turn have room for all when those of one divide theirs.
LEMMA Room ==
  ASSUME NEW n \in Nat \ {0}, NEW L \in Nat \ {0}, NEW need \in Nat \ {0}, NEW has \in Nat \ {0},
         has % need = 0, L = n \/ has * L >= n * need, NEW c \in Nat,
         L = n => c <= 1,
         \A q \in Nat : L * q >= n => c <= q
  PROVE  c * need <= has
<1> DEFINE q == has \div need
<1>1. q \in Nat /\ has = need * q
  BY Division
<1> HIDE DEF q
<1>2. CASE has * L >= n * need
  <2>1. need * (q * L) >= need * n
    <3>1. has * L = need * (q * L)
      BY <1>1
    <3> QED
      BY <1>2, <3>1
  <2>2. q * L >= n
    <3> DEFINE x == q * L
    <3>1. x \in Nat /\ need * x >= need * n
      BY <1>1, <2>1
    <3> HIDE DEF x
    <3>2. x >= n
      BY <3>1
    <3> QED
      BY <3>2 DEF x
  <2>3. L * q >= n
    BY <1>1, <2>2
  <2>4. c <= q
    BY <1>1, <2>3
  <2> QED
    BY <1>1, <2>4
<1>3. CASE L = n
  <2>1. c <= 1
    BY <1>3
  <2>2. q # 0
    BY <1>1
  <2>3. need * q >= need
    BY <1>1, <2>2
  <2>4. c * need <= need
    BY <2>1
  <2> QED
    BY <1>1, <2>3, <2>4
<1> QED
  BY <1>2, <1>3
\* A group that has been placed and whose plays are done has what it is promised.
LEMMA GroupIsReady ==
  ASSUME VmIInv, vmc.at = "ready", vmJob.id = vmc.job, NEW g \in VmGroups
  PROVE  GroupReady(g)
<1> DEFINE m == vmConf[g]
           p == vmc.placed
           pms == vmJob.pms
<1>0. VmConfOK /\ VmTyped /\ GuestsPlaced /\ ClientPlaced /\ PlaysDone
  BY ConfIs DEF VmTyped, VmIInv
<1>1. OnVmJob /\ vmJob # NoJob /\ EnoughMacs /\ pms \in Undercloud /\ p \in Placements(pms)
      /\ vmc.todo = {} /\ vmc.ok /\ HostingPms(p) \subseteq PMs
  BY <1>0 DEF ClientPlaced, VmTyped, OnVmJob, NoJob
<1>2. PICK o : IsPlacement(p, pms, o)
  BY <1>0, <1>1, PlacementIs
<1>3. \A h \in VmGroups : PlacedGroup(p, pms, o, h)
  BY <1>2 DEF IsPlacement
<1>4. \A h \in VmGroups : ToSet(p[h]) = {p[h][k] : k \in 1..vmConf[h].number}
  BY <1>3 DEF PlacedGroup, ToSet
<1>5. VmGroup(m) /\ m.number \in Nat \ {0}
  BY <1>0 DEF VmConfOK
<1>6. Cardinality({vm.mac : vm \in ToSet(p[g])}) = m.number
  <2> DEFINE n == m.number
             S == {p[g][k].mac : k \in 1..n}
             f == [k \in 1..n |-> p[g][k].mac]
  <2>1. {vm.mac : vm \in ToSet(p[g])} = S
    BY <1>4
  <2>2. \A k, l \in 1..n : p[g][k].mac = p[g][l].mac => k = l
    BY <1>0, <1>1, PlacedApart
  <2>3. n \in Nat
    BY <1>5
  <2>4. f \in Bijection(1..n, S)
    <3>1. f \in [1..n -> S]
      OBVIOUS
    <3>2. \A k, l \in 1..n : f[k] = f[l] => k = l
      BY <2>2
    <3>3. \A x \in S : \E k \in 1..n : f[k] = x
      OBVIOUS
    <3> HIDE DEF f, S, n
    <3> QED
      BY <3>1, <3>2, <3>3 DEF Bijection, Injection, Surjection, IsInjective
  <2> HIDE DEF f, S, n
  <2>5. IsFiniteSet(1..n) /\ Cardinality(1..n) = n
    BY <2>3, FS_Interval
  <2>6. Cardinality(S) = n
    BY <2>4, <2>5, FS_Bijection DEF ExistsBijection
  <2> QED
    BY <2>1, <2>6 DEF n
<1>7. \A h \in VmGroups \ {g} : \A u \in ToSet(p[g]), v \in ToSet(p[h]) : u.mac # v.mac
  <2> SUFFICES ASSUME NEW h \in VmGroups, h # g, NEW k \in 1..m.number, NEW l \in 1..vmConf[h].number,
                      p[g][k].mac = p[h][l].mac
               PROVE  FALSE
    BY <1>4
  <2> QED
    BY <1>0, <1>1, PlacedApart
<1>8. \A vm \in ToSet(p[g]) :
         /\ vm.pm \in pms[g]
         /\ \E guest \in guests[vm.pm] : guest.mac = vm.mac /\ (vmc.forced => guest.born = vmCalls)
  <2> SUFFICES ASSUME NEW k \in 1..m.number
               PROVE  /\ p[g][k].pm \in pms[g]
                      /\ \E guest \in guests[p[g][k].pm] :
                            guest.mac = p[g][k].mac /\ (vmc.forced => guest.born = vmCalls)
    BY <1>4
  <2> DEFINE pm == p[g][k].pm
             mac == p[g][k].mac
  <2>1. pm \in pms[g]
    BY <1>3 DEF PlacedGroup
  <2>2. p[g][k] = [mac |-> mac, pm |-> pm]
    <3> DEFINE x == o[g][((k - 1) % Len(o[g])) + 1]
               y == MacsOf(g)[k]
               v == p[g][k]
    <3>1. v = [mac |-> y, pm |-> x]
      BY <1>3 DEF PlacedGroup
    <3> HIDE DEF x, y, v
    <3>2. v = [mac |-> v.mac, pm |-> v.pm]
      BY <3>1
    <3> QED
      BY <3>2 DEF v
  <2>3. pm \in HostingPms(p)
    BY <1>0, <1>1, PlacedOnIs
  <2>4. mac \in PlacedOn(pm)
    <3>1. mac \in PlacedOn(pm) <=>
             \E h \in VmGroups : \E l \in 1..vmConf[h].number : p[h][l] = [mac |-> mac, pm |-> pm]
      BY <1>0, <1>1, PlacedOnIs
    <3> QED
      BY <2>2, <3>1
  <2> HIDE DEF pm, mac
  <2>5. \E u \in guests[pm] : u.mac = mac
    BY <1>0, <1>1, <2>3, <2>4 DEF PlaysDone
  <2>6. vmc.forced => \A u \in guests[pm] : u.mac \in PlacedOn(pm) => u.born = vmCalls
    BY <1>0, <1>1, <2>3 DEF PlaysDone
  <2> QED
    BY <2>1, <2>4, <2>5, <2>6 DEF pm, mac
<1>9. ASSUME m.pmCore % m.core = 0, (m.pmMem - ReservedMem(m)) % m.mem = 0, NEW pm \in pms[g]
      PROVE  LET c == Cardinality({k \in 1..m.number : p[g][k].pm = pm})
             IN  c * m.core <= m.pmCore /\ c * m.mem <= m.pmMem - ReservedMem(m)
  <2> DEFINE n == m.number
             L == Len(o[g])
             r == o[g]
             T == InTurn(n, L, r, pm)
             c == Cardinality(T)
             mem == m.pmMem - ReservedMem(m)
             core == m.pmCore
             u == m.core
             w == m.mem
  <2>1. {k \in 1..n : p[g][k].pm = pm} = T
    <3>1. \A k \in 1..n : p[g][k].pm = r[((k - 1) % L) + 1]
      <4> TAKE k \in 1..n
      <4> DEFINE x == r[((k - 1) % L) + 1]
                 y == MacsOf(g)[k]
                 v == p[g][k]
      <4>1. v = [mac |-> y, pm |-> x]
        BY <1>3 DEF PlacedGroup
      <4> HIDE DEF x, y, v
      <4>2. v.pm = x
        BY <4>1
      <4> QED
        BY <4>2 DEF v, x
    <3> HIDE DEF n, r, L
    <3> QED
      BY <3>1 DEF InTurn
  <2>2. /\ n \in Nat \ {0} /\ L \in Nat \ {0} /\ core \in Nat \ {0} /\ u \in Nat \ {0} /\ w \in Nat \ {0}
        /\ mem \in Nat \ {0}
    <3>1. mem \in Nat \ {0}
      BY <1>5, ReservedIs
    <3>2. L \in Nat \ {0}
      BY <1>3 DEF PlacedGroup
    <3> QED
      BY <1>5, <3>1, <3>2 DEF VmGroup
  <2>3. L = n \/ (core * L >= n * u /\ mem * L >= n * w)
    BY <1>3, <1>5, NodesForIs DEF PlacedGroup
  <2>4. \A i, j \in 1..L : r[i] = r[j] => i = j
    BY <1>3 DEF PlacedGroup
  <2>5. core % u = 0 /\ mem % w = 0
    BY <1>9
  <2> HIDE DEF n, L, r, core, u, w, mem
  <2>6. IsFiniteSet(1..n)
    <3>1. 1 \in Int /\ n \in Int
      BY <2>2
    <3> QED
      BY <3>1, FS_Interval
  <2>7. c \in Nat
    <3>1. T \subseteq 1..n
      BY DEF InTurn
    <3> QED
      BY <2>6, <3>1, FS_Subset, FS_CardinalityType
  <2>8. ASSUME NEW q \in Nat, L * q >= n PROVE c <= q
    BY <2>2, <2>4, <2>8, RoundRobin
  <2>9. L = n => c <= 1
    BY <2>2, <2>8
  <2> HIDE DEF c
  <2>10. c * u <= core
    <3>1. L = n \/ core * L >= n * u
      BY <2>3
    <3> QED
      BY <2>2, <2>5, <2>7, <2>8, <2>9, <3>1, Room
  <2>11. c * w <= mem
    <3>1. L = n \/ mem * L >= n * w
      BY <2>3
    <3> QED
      BY <2>2, <2>5, <2>7, <2>8, <2>9, <3>1, Room
  <2> QED
    BY <2>1, <2>10, <2>11 DEF n, L, r, core, u, w, mem, c
<1> QED
  BY <1>6, <1>7, <1>8, <1>9 DEF GroupReady

LEMMA VmReady == VmIInv => VmsReadyAsAsked
  BY GroupIsReady DEF GroupReady, VmsReadyAsAsked

LEMMA VmTypes == VmIInv => VmTypeOK
<1> SUFFICES ASSUME VmIInv PROVE VmTypeOK
  OBVIOUS
<1>0. VmTyped /\ VmClientTyped /\ MaxVmCalls \in Nat
  BY VMonG5kAssumption DEF VmIInv
<1>1. vmCalls \in 0..MaxVmCalls /\ vmJob.id \in 0..vmCalls
  BY <1>0 DEF VmTyped
<1>2. vmc.todo \subseteq PMs /\ vmc.job \in 0..vmCalls
  BY <1>0 DEF VmClientTyped
<1>3. vmJob.id \in 0..MaxVmCalls /\ vmc.job \in 0..MaxVmCalls
  BY <1>0, <1>1, <1>2
<1> QED
  BY <1>0, <1>1, <1>2, <1>3 DEF VmTyped, VmTypeOK

-----------------------------------------------------------------------------
(* Distem *)

\* Machines taken in turn have as many, give or take one.
LEMMA TurnsAreEven ==
  ASSUME NEW n \in Nat, NEW L \in Nat \ {0},
         NEW order, \A i, j \in 1..L : order[i] = order[j] => i = j,
         NEW a \in 1..L, NEW b \in 1..L
  PROVE  Cardinality(InTurn(n, L, order, order[a])) <= Cardinality(InTurn(n, L, order, order[b])) + 1
<1> DEFINE A == InTurn(n, L, order, order[a])
           B == InTurn(n, L, order, order[b])
           f == [k \in A \ {a} |-> (k - a - L) + b]
<1>0. IsFiniteSet(1..n) /\ A \subseteq 1..n /\ B \subseteq 1..n
  <2>1. IsFiniteSet(1..n)
    BY FS_Interval
  <2> QED
    BY <2>1 DEF InTurn
<1>1. IsFiniteSet(A) /\ IsFiniteSet(B) /\ Cardinality(A) \in Nat /\ Cardinality(B) \in Nat
  BY <1>0, FS_Subset, FS_CardinalityType
<1>2. ASSUME NEW k \in A, k # a
      PROVE  k \in Nat /\ (k - a - L) + b \in B
  <2> DEFINE x == k - 1
             d == x \div L
             r == x % L
  <2>1. k \in 1..n /\ order[r + 1] = order[a] /\ x \in Nat
    BY DEF InTurn
  <2>2. d \in Nat /\ r \in 0..(L - 1) /\ x = L * d + r
    BY <2>1, Division
  <2> HIDE DEF d, r
  <2>3. r + 1 = a
    <3>1. r + 1 \in 1..L
      BY <2>2
    <3> QED
      BY <2>1, <3>1
  <2>4. d # 0
    BY <1>2, <2>1, <2>2, <2>3
  <2> DEFINE e == d - 1
             y == L * e + (b - 1)
  <2>5. e \in Nat /\ d = e + 1
    BY <2>2, <2>4
  <2> HIDE DEF e
  <2>6. k = L * e + L + a /\ L * e \in Nat
    <3>1. L * d = L * e + L
      BY <2>5
    <3> QED
      BY <2>1, <2>2, <2>3, <2>5, <3>1
  <2>7. (k - a - L) + b = y + 1
    BY <2>6
  <2>8. y \in Nat /\ y + 1 \in 1..n
    BY <2>1, <2>6
  <2>9. y % L = b - 1
    <3>1. b - 1 \in 0..(L - 1)
      OBVIOUS
    <3> DEFINE c == b - 1
               w == y % L
               z == y \div L
    <3>2. z \in Nat /\ w \in 0..(L - 1) /\ y = L * z + w
      BY <2>8, Division
    <3>3. y = L * e + c /\ c \in 0..(L - 1)
      BY <3>1
    <3> HIDE DEF y, c, w, z
    <3>4. z = e
      <4>1. CASE z < e
        <5>1. L * e >= L * z + L
          <6> DEFINE t == e - z - 1
          <6>1. t \in Nat /\ e = z + 1 + t
            BY <2>5, <3>2, <4>1
          <6> HIDE DEF t
          <6>2. L * e = L * z + L + L * t /\ L * t \in Nat
            BY <3>2, <6>1
          <6>3. L * z \in Nat
            BY <3>2
          <6> QED
            BY <6>2, <6>3
        <5>2. L * z \in Nat /\ L * e \in Nat
          BY <2>5, <3>2
        <5> QED
          BY <3>2, <3>3, <5>1, <5>2
      <4>2. CASE z > e
        <5>1. L * z >= L * e + L
          <6> DEFINE t == z - e - 1
          <6>1. t \in Nat /\ z = e + 1 + t
            BY <2>5, <3>2, <4>2
          <6> HIDE DEF t
          <6>2. L * z = L * e + L + L * t /\ L * t \in Nat
            BY <2>5, <6>1
          <6>3. L * e \in Nat
            BY <2>5
          <6> QED
            BY <6>2, <6>3
        <5>2. L * z \in Nat /\ L * e \in Nat
          BY <2>5, <3>2
        <5> QED
          BY <3>2, <3>3, <5>1, <5>2
      <4> QED
        BY <2>5, <3>2, <4>1, <4>2
    <3>5. w = c
      BY <3>2, <3>3, <3>4
    <3> QED
      BY <3>5 DEF w, c
  <2>10. y + 1 \in B
    <3>1. (((y + 1) - 1) % L) + 1 = b
      <4>1. (y + 1) - 1 = y
        BY <2>8
      <4> QED
        BY <2>9, <4>1
    <3> HIDE DEF y
    <3> QED
      BY <2>8, <3>1 DEF InTurn
  <2> QED
    BY <2>1, <2>7, <2>10
<1>3. f \in Injection(A \ {a}, B)
  <2>1. f \in [A \ {a} -> B]
    BY <1>2
  <2>2. ASSUME NEW i \in A \ {a}, NEW j \in A \ {a}, f[i] = f[j] PROVE i = j
    <3>1. i \in Nat /\ j \in Nat /\ (i - a - L) + b = (j - a - L) + b
      BY <1>2, <2>2
    <3> QED
      BY <3>1
  <2> HIDE DEF f, A, B
  <2> QED
    BY <2>1, <2>2 DEF Injection, IsInjective
<1> HIDE DEF f, A, B
<1>4. Cardinality(A \ {a}) <= Cardinality(B)
  <2>1. IsFiniteSet(A \ {a})
    BY <1>1, FS_Subset
  <2> QED
    BY <1>1, <1>3, <2>1, FS_Injection
<1>5. Cardinality(A) <= Cardinality(A \ {a}) + 1
  <2> DEFINE c == Cardinality(A)
             d == Cardinality(A \ {a})
  <2>1. d = IF a \in A THEN c - 1 ELSE c
    BY <1>1, FS_RemoveElement
  <2>2. c \in Nat
    BY <1>1
  <2> HIDE DEF c, d
  <2>3. c <= d + 1
    BY <2>1, <2>2
  <2> QED
    BY <2>3 DEF c, d
<1>6. Cardinality(A \ {a}) \in Nat
  BY <1>1, FS_CardinalityType, FS_Subset
<1>7. Cardinality(A) <= Cardinality(B) + 1
  BY <1>1, <1>4, <1>5, <1>6
<1> QED
  BY <1>7 DEF A, B

\* The machines of the job do not change while a client is at work.
DisTyped ==
  /\ disConf \in DistemConfs /\ disCalls \in 0..MaxDistemCalls /\ keyFile \in 0..disCalls
  /\ disJob = <<>> \/ disJob \in Undergrounds
  /\ authorized \in [DistemHosts -> SUBSET (1..disCalls)]
  /\ coordinator \in [DistemHosts -> SUBSET JobHosts]
  /\ vnodes \subseteq [name : Nat, host : JobHosts, key : 1..disCalls]

DisClient ==
  /\ dis = [at |-> dis.at, todo |-> dis.todo, got |-> dis.got, handed |-> dis.handed]
  /\ dis.at \in {"out", "booked", "keys", "quit", "start", "pnodes", "create", "ready"}
  /\ dis.at # "out" => keyFile \in 1..disCalls /\ disJob \in Undergrounds
  /\ dis.at \notin {"create", "ready"} => dis.handed = {}

\* Containers run where the coordinator of the first machine knows of them; what it said of
\* them is still true; those that ran are stopped before others are created.
DisTidy ==
  /\ vnodes # {} => coordinator[Min(JobHosts)] = JobHosts
  /\ dis.at \in {"keys", "quit"} => dis.got = (coordinator[Min(JobHosts)] # {})
  /\ dis.at \in {"start", "pnodes"} => vnodes = {}
  /\ dis.at \in {"quit", "start", "pnodes", "create", "ready"} => \A h \in JobHosts : keyFile \in authorized[h]
  /\ dis.at \in {"create", "ready"} /\ JobHosts # {} => coordinator[Min(JobHosts)] = JobHosts

Container(plan, x) == [name |-> x - 1, host |-> plan[x].host, key |-> keyFile, group |-> plan[x].group]
Vnode(plan, x) == [name |-> x - 1, host |-> plan[x].host, key |-> keyFile]

\* The first k containers of the plan have been created.
Created(plan, k) ==
  /\ k <= Len(plan) /\ dis.todo = SubSeq(plan, k + 1, Len(plan))
  /\ dis.handed = {Container(plan, x) : x \in 1..k}
  /\ vnodes = {Vnode(plan, x) : x \in 1..k}
  /\ dis.at = "ready" => k = Len(plan)

DisCreated == dis.at \in {"create", "ready"} => \E plan \in Plans5k : \E k \in 0..Len(plan) : Created(plan, k)
DisIInv == DisTyped /\ DisClient /\ DisTidy /\ DisCreated

DisConfOK ==
  /\ Len(disConf) \in Nat /\ DistemGroups = 1..Len(disConf)
  /\ \A g \in DistemGroups : {disConf[g].number, disConf[g].vcores, disConf[g].cores} \subseteq Nat \ {0}

LEMMA DisConfIs == ASSUME disConf \in DistemConfs PROVE DisConfOK
  BY DistemAssumption DEF DisConfOK, DistemGroups

\* There is a machine at least in a group.
LEMMA DistemNodesIs ==
  ASSUME DisConfOK, NEW g \in DistemGroups
  PROVE  DistemNodesFor(disConf[g]) \in Nat \ {0}
<1> DEFINE m == disConf[g]
           a == m.number * m.vcores
           b == m.cores
           c == CeilDiv(a, b)
<1>1. m.number \in Nat \ {0} /\ m.vcores \in Nat \ {0} /\ b \in Nat \ {0}
  BY DEF DisConfOK
<1>2. a \in Nat \ {0}
  BY <1>1
<1>3. DistemNodesFor(m) = c
  BY DEF DistemNodesFor, CeilDiv
<1> HIDE DEF a, b, m
<1>4. c \in Nat /\ b * c >= a
  BY <1>1, <1>2, CeilDivIs
<1> HIDE DEF c
<1>5. c # 0
  BY <1>1, <1>2, <1>4
<1> QED
  BY <1>3, <1>4, <1>5 DEF m

LEMMA JobIs ==
  ASSUME DisConfOK, disJob \in Undergrounds
  PROVE  /\ DOMAIN disJob = DistemGroups /\ JobHosts \subseteq DistemHosts
         /\ \A g \in DistemGroups : disJob[g] \subseteq JobHosts /\ IsFiniteSet(disJob[g]) /\ disJob[g] # {}
<1>1. disJob \in [DistemGroups -> SUBSET DistemHosts]
  BY DEF Undergrounds
<1>2. JobHosts = UNION {disJob[g] : g \in DistemGroups}
  BY <1>1 DEF JobHosts, Range
<1>3. ASSUME NEW g \in DistemGroups
      PROVE  IsFiniteSet(disJob[g]) /\ disJob[g] # {}
  <2>1. IsFiniteSet(disJob[g])
    BY <1>1, DistemAssumption, FS_Subset
  <2>2. Cardinality(disJob[g]) = DistemNodesFor(disConf[g])
    BY DEF Undergrounds
  <2>3. Cardinality(disJob[g]) # 0
    BY <2>2, DistemNodesIs
  <2> QED
    BY <2>1, <2>3, FS_EmptySet
<1> QED
  BY <1>1, <1>2, <1>3

\* The order of the machines of a group.
InOrder(order, hosts) ==
  /\ Len(order) \in Nat \ {0}
  /\ \A i \in 1..Len(order) : order[i] \in hosts
  /\ \A i, j \in 1..Len(order) : order[i] = order[j] => i = j
  /\ \A h \in hosts : \E i \in 1..Len(order) : order[i] = h

PlanLaid(plan, o, off) ==
  /\ plan \in Seq([group : DistemGroups, host : JobHosts])
  /\ \A g \in DistemGroups : InOrder(o[g], disJob[g])
  /\ \A g \in DistemGroups : off[g - 1] \in Nat
  /\ \A g \in DistemGroups : \A k \in 1..disConf[g].number :
        /\ off[g - 1] + k \in 1..Len(plan)
        /\ plan[off[g - 1] + k] = [group |-> g, host |-> o[g][((k - 1) % Len(o[g])) + 1]]
  /\ \A x \in 1..Len(plan) : \E g \in DistemGroups : \E k \in 1..disConf[g].number : x = off[g - 1] + k

LEMMA PlanIsLaid ==
  ASSUME DisConfOK, disJob \in Undergrounds, NEW plan \in Plans5k
  PROVE  \E o : \E off : PlanLaid(plan, o, off)
<1>1. PICK o \in [DistemGroups -> UNION {SetToSeqs(disJob[g]) : g \in DistemGroups}] :
         /\ \A g \in DistemGroups : ToSet(o[g]) = disJob[g]
         /\ plan = FlattenSeq([g \in DistemGroups |-> ContainersOf(g, o[g])])
  BY DEF Plans5k
<1>2. ASSUME NEW g \in DistemGroups PROVE InOrder(o[g], disJob[g])
  <2>1. PICK h \in DistemGroups : o[g] \in SetToSeqs(disJob[h])
    BY <1>1
  <2> DEFINE S == disJob[h]
             f == o[g]
             n == Cardinality(S)
  <2>2. IsFiniteSet(S) /\ S # {}
    BY JobIs
  <2>3. f \in SetToSeqs(S)
    BY <2>1
  <2>4. ToSet(f) = disJob[g]
    BY <1>1
  <2> HIDE DEF S, f
  <2>5. /\ f \in [1..n -> S] /\ n \in Nat
        /\ \A i, j \in DOMAIN f : f[i] = f[j] => i = j
        /\ \A x \in S : \E i \in DOMAIN f : f[i] = x
    BY <2>2, <2>3, OrderCovers
  <2>6. Len(f) = n /\ DOMAIN f = 1..n
    BY <2>5
  <2>7. n # 0
    BY <2>2, FS_EmptySet
  <2>8. \A x : x \in ToSet(f) <=> \E i \in 1..n : f[i] = x
    BY <2>6 DEF ToSet
  <2> QED
    BY <2>4, <2>5, <2>6, <2>7, <2>8 DEF InOrder, f
<1> DEFINE S == [group : DistemGroups, host : JobHosts]
           ss == [g \in DistemGroups |-> ContainersOf(g, o[g])]
<1>3. ASSUME NEW g \in DistemGroups
      PROVE  /\ ss[g] \in Seq(S) /\ Len(ss[g]) = disConf[g].number
             /\ \A k \in 1..disConf[g].number : ss[g][k] = [group |-> g, host |-> o[g][((k - 1) % Len(o[g])) + 1]]
  <2> DEFINE n == disConf[g].number
             r == o[g]
             L == Len(r)
  <2>1. n \in Nat
    BY DEF DisConfOK
  <2>2. ss[g] = [i \in 1..n |-> [group |-> g, host |-> r[((i - 1) % L) + 1]]]
    BY DEF ContainersOf
  <2>3. L \in Nat \ {0} /\ \A i \in 1..L : r[i] \in JobHosts
    BY <1>2, JobIs DEF InOrder
  <2> HIDE DEF n, r, L, ss
  <2>4. ASSUME NEW i \in 1..n PROVE r[((i - 1) % L) + 1] \in JobHosts
    <3>1. i - 1 \in Nat
      BY <2>1
    <3>2. (i - 1) % L \in 0..(L - 1)
      BY <2>3, <3>1, Division
    <3> DEFINE x == (i - 1) % L
    <3> HIDE DEF x
    <3>3. x + 1 \in 1..L
      BY <2>3, <3>2 DEF x
    <3> QED
      BY <2>3, <3>3 DEF x
  <2>5. ss[g] \in [1..n -> S]
    BY <2>2, <2>4
  <2>6. ss[g] \in Seq(S) /\ Len(ss[g]) = n
    <3> DEFINE x == ss[g]
    <3>1. x \in [1..n -> S]
      BY <2>5
    <3> HIDE DEF x, S
    <3>2. x \in Seq(S) /\ Len(x) = n
      BY <2>1, <3>1
    <3> QED
      BY <3>2 DEF x
  <2> QED
    BY <2>2, <2>6 DEF n, r, L
<1>4. ss \in Seq(Seq(S)) /\ Len(ss) = Len(disConf) /\ plan = FlattenSeq(ss)
  <2>1. ss \in [1..Len(disConf) -> Seq(S)]
    BY <1>3 DEF DisConfOK
  <2>2. Len(disConf) \in Nat
    BY DEF DisConfOK
  <2>3. plan = FlattenSeq(ss)
    BY <1>1
  <2> HIDE DEF ss, S
  <2> QED
    BY <2>1, <2>2, <2>3
<1> DEFINE N == Len(disConf)
<1>5. N \in Nat /\ DistemGroups = 1..N
  BY DEF DisConfOK
<1> HIDE DEF ss, N, S
<1>6. plan \in Seq(S) /\ \E off : Laid(plan, ss, N, off)
  BY <1>4, FlattenLaid DEF N
<1>7. PICK off : Laid(plan, ss, N, off)
  BY <1>6
<1>8. /\ off \in [0..N -> Nat] /\ Len(plan) = off[N]
      /\ \A i \in 1..N : off[i] = off[i - 1] + Len(ss[i])
      /\ \A i \in 1..N : \A k \in 1..Len(ss[i]) : plan[off[i - 1] + k] = ss[i][k]
      /\ \A i, j \in 0..N : i <= j => off[i] <= off[j]
      /\ \A x \in 1..off[N] : \E i \in 1..N : \E k \in 1..Len(ss[i]) : x = off[i - 1] + k
  BY <1>7 DEF Laid
<1>9. ASSUME NEW g \in DistemGroups
      PROVE  /\ off[g - 1] \in Nat
             /\ \A k \in 1..disConf[g].number :
                  /\ off[g - 1] + k \in 1..Len(plan)
                  /\ plan[off[g - 1] + k] = [group |-> g, host |-> o[g][((k - 1) % Len(o[g])) + 1]]
  <2>1. g \in 1..N /\ g \in 0..N /\ g - 1 \in 0..N /\ g <= N /\ N \in 0..N
    BY <1>5
  <2> DEFINE a == off[g - 1]
             b == off[g]
             c == off[N]
             d == disConf[g].number
  <2>2. a \in Nat /\ b \in Nat /\ c \in Nat /\ b = a + d /\ b <= c /\ d \in Nat
    BY <1>3, <1>8, <2>1 DEF DisConfOK
  <2>3. \A k \in 1..d : plan[a + k] = [group |-> g, host |-> o[g][((k - 1) % Len(o[g])) + 1]]
    <3>1. Len(ss[g]) = d
      BY <1>3
    <3>2. \A k \in 1..d : plan[a + k] = ss[g][k]
      BY <1>8, <2>1, <3>1
    <3>3. \A k \in 1..d : ss[g][k] = [group |-> g, host |-> o[g][((k - 1) % Len(o[g])) + 1]]
      BY <1>3
    <3> HIDE DEF a, d
    <3> QED
      BY <3>2, <3>3
  <2>4. Len(plan) = c
    BY <1>8
  <2> HIDE DEF a, b, c, d
  <2>5. \A k \in 1..d : a + k \in 1..c
    BY <2>2
  <2> QED
    BY <2>2, <2>3, <2>4, <2>5 DEF a, d
<1>10. \A x \in 1..Len(plan) : \E g \in DistemGroups : \E k \in 1..disConf[g].number : x = off[g - 1] + k
  <2>1. Len(plan) = off[N] /\ \A g \in 1..N : Len(ss[g]) = disConf[g].number
    BY <1>3, <1>5, <1>8
  <2>2. \A x \in 1..Len(plan) : \E g \in 1..N : \E k \in 1..Len(ss[g]) : x = off[g - 1] + k
    BY <1>8, <2>1
  <2> TAKE x \in 1..Len(plan)
  <2>3. PICK g \in 1..N : \E k \in 1..Len(ss[g]) : x = off[g - 1] + k
    BY <2>2
  <2> QED
    BY <1>5, <2>1, <2>3
<1>11. PlanLaid(plan, o, off)
  BY <1>2, <1>6, <1>9, <1>10 DEF PlanLaid, S
<1> QED
  BY <1>11

LEMMA DisInitOK == DistemInit => DisIInv
<1> SUFFICES ASSUME DistemInit PROVE DisIInv
  OBVIOUS
<1>1. /\ disConf \in DistemConfs /\ disJob = <<>> /\ keyFile = 0 /\ vnodes = {} /\ disCalls = 0
      /\ authorized = [h \in DistemHosts |-> {}] /\ coordinator = [h \in DistemHosts |-> {}]
      /\ dis = [at |-> "out", todo |-> <<>>, got |-> FALSE, handed |-> {}] /\ MaxDistemCalls \in Nat
  BY DistemAssumption DEF DistemInit, AwayFromDistem
<1>2. dis.at = "out" /\ dis.handed = {}
  BY <1>1
<1>3. DisTyped
  <2>1. disCalls \in 0..MaxDistemCalls /\ keyFile \in 0..disCalls
    BY <1>1
  <2>2. /\ authorized \in [DistemHosts -> SUBSET (1..disCalls)]
        /\ coordinator \in [DistemHosts -> SUBSET JobHosts]
        /\ vnodes \subseteq [name : Nat, host : JobHosts, key : 1..disCalls]
    BY <1>1
  <2> QED
    BY <1>1, <2>1, <2>2 DEF DisTyped
<1>4. DisClient
  BY <1>1 DEF DisClient
<1> QED
  BY <1>1, <1>2, <1>3, <1>4 DEF DisIInv, DisTidy, DisCreated

\* What depends on the configuration and the job only.
SameJob ==
  /\ DistemGroups' = DistemGroups /\ Undergrounds' = Undergrounds /\ JobHosts' = JobHosts
  /\ Plans5k' = Plans5k

LEMMA SameJobIs == ASSUME UNCHANGED <<disConf, disJob>> PROVE SameJob
<1>1. DistemGroups' = DistemGroups /\ Undergrounds' = Undergrounds /\ JobHosts' = JobHosts
  BY DEF DistemGroups, Undergrounds, JobHosts
<1>2. \A g, order : ContainersOf(g, order)' = ContainersOf(g, order)
  BY DEF ContainersOf
<1>3. Plans5k' = Plans5k
  BY <1>1, <1>2, SMTT(40) DEF Plans5k
<1> QED
  BY <1>1, <1>3 DEF SameJob

\* A client that is away.
LEMMA AwayIs ==
  ASSUME dis' = AwayFromDistem
  PROVE  DisClient' /\ DisCreated' /\ dis'.at = "out"
<1>1. dis' = [at |-> "out", todo |-> <<>>, got |-> FALSE, handed |-> {}]
  BY DEF AwayFromDistem
<1> QED
  BY <1>1 DEF DisClient, DisCreated

LEMMA DisStepOK == DisIInv /\ [DistemNext]_disVars => DisIInv'
<1> SUFFICES ASSUME DisIInv, [DistemNext]_disVars PROVE DisIInv'
  OBVIOUS
<1>0. DisConfOK /\ DisTyped /\ DisClient /\ DisTidy /\ DisCreated /\ MaxDistemCalls \in Nat
  BY DisConfIs, DistemAssumption DEF DisTyped, DisIInv
<1>t. /\ disConf \in DistemConfs /\ disCalls \in 0..MaxDistemCalls /\ keyFile \in 0..disCalls
      /\ (disJob = <<>> \/ disJob \in Undergrounds)
      /\ authorized \in [DistemHosts -> SUBSET (1..disCalls)]
      /\ coordinator \in [DistemHosts -> SUBSET JobHosts]
      /\ vnodes \subseteq [name : Nat, host : JobHosts, key : 1..disCalls]
  BY <1>0 DEF DisTyped
<1>d. dis = [at |-> dis.at, todo |-> dis.todo, got |-> dis.got, handed |-> dis.handed]
  BY <1>0 DEF DisClient
<1>h. disJob = <<>> => JobHosts = {}
  BY DEF JobHosts, Range
<1>1. CASE UNCHANGED disVars
  <2>1. SameJob /\ UNCHANGED <<disConf, disJob, keyFile, authorized, coordinator, vnodes, dis, disCalls>>
    BY <1>1, SameJobIs DEF disVars
  <2>2. DisTyped' /\ DisClient' /\ DisTidy'
    BY <1>0, <2>1 DEF DisTyped, DisClient, DisTidy, SameJob
  <2>3. DisCreated'
    BY <1>0, <2>1 DEF DisCreated, SameJob, Created, Container, Vnode
  <2> QED
    BY <2>2, <2>3 DEF DisIInv
<1>2. CASE BookDistem
  <2>1. /\ disCalls < MaxDistemCalls /\ disCalls' = disCalls + 1 /\ keyFile' = disCalls'
        /\ UNCHANGED <<disConf, authorized, coordinator, vnodes>>
        /\ dis' = [at |-> "booked", todo |-> <<>>, got |-> FALSE, handed |-> {}]
        /\ DistemGroups' = DistemGroups /\ Undergrounds' = Undergrounds
    BY <1>2 DEF BookDistem, AwayFromDistem, DistemGroups, Undergrounds
  <2>2. disJob' \in Undergrounds /\ (disJob # <<>> => disJob' = disJob)
    BY <1>2, <1>t DEF BookDistem
  <2>3. disCalls' \in 1..MaxDistemCalls /\ keyFile' \in 1..disCalls' /\ 1..disCalls \subseteq 1..disCalls'
    BY <1>0, <1>t, <2>1
  <2>4. JobHosts \subseteq JobHosts' /\ (disJob = <<>> => JobHosts = {}) /\ (disJob # <<>> => JobHosts' = JobHosts)
    BY <1>h, <2>2 DEF JobHosts
  <2>5. DisTyped'
    <3>1. authorized' \in [DistemHosts -> SUBSET (1..disCalls')]
      BY <1>t, <2>1, <2>3
    <3>2. coordinator' \in [DistemHosts -> SUBSET JobHosts']
      BY <1>t, <2>1, <2>4
    <3>3. vnodes' \subseteq [name : Nat, host : JobHosts', key : 1..disCalls']
      BY <1>t, <2>1, <2>3, <2>4
    <3>4. disCalls' \in 0..MaxDistemCalls /\ keyFile' \in 0..disCalls'
      BY <2>3
    <3> QED
      BY <1>t, <2>1, <2>2, <3>1, <3>2, <3>3, <3>4 DEF DisTyped
  <2>6. dis'.at = "booked" /\ dis'.handed = {} /\ DisClient'
    BY <2>1, <2>2, <2>3 DEF DisClient
  <2>7. DisTidy'
    <3>1. vnodes # {} => disJob # <<>>
      BY <1>t, <1>h
    <3> QED
      BY <1>0, <2>1, <2>4, <2>6, <3>1 DEF DisTidy
  <2> QED
    BY <2>5, <2>6, <2>7 DEF DisIInv, DisCreated
<1>3. CASE FindPnodes
  <2>1. /\ dis.at = "booked" /\ UNCHANGED <<disConf, disJob, keyFile, authorized, coordinator, vnodes, disCalls>>
        /\ dis' = [dis EXCEPT !.at = "keys", !.got = coordinator[Min(JobHosts)] # {}] /\ SameJob
    BY <1>3, SameJobIs DEF FindPnodes, FirstHosts
  <2>2. DisTyped'
    BY <1>0, <2>1 DEF DisTyped, SameJob
  <2>3. dis'.at = "keys" /\ dis'.handed = dis.handed /\ dis'.got = (coordinator[Min(JobHosts)] # {})
    BY <1>d, <2>1
  <2>4. DisClient'
    BY <1>0, <1>d, <2>1, <2>3 DEF DisClient, SameJob
  <2>5. DisTidy'
    BY <1>0, <2>1, <2>3 DEF DisTidy, SameJob
  <2> QED
    BY <2>2, <2>3, <2>4, <2>5 DEF DisIInv, DisCreated
<1>4. CASE InstallKeys
  <2>1. /\ dis.at = "keys" /\ UNCHANGED <<disConf, disJob, keyFile, coordinator, vnodes, disCalls>> /\ SameJob
    BY <1>4, SameJobIs DEF InstallKeys
  <2>2. PICK reached \in SUBSET JobHosts :
          /\ authorized' = [h \in DistemHosts |-> IF h \in reached THEN authorized[h] \cup {keyFile} ELSE authorized[h]]
          /\ dis' = IF reached = JobHosts THEN [dis EXCEPT !.at = "quit"] ELSE AwayFromDistem
    BY <1>4 DEF InstallKeys
  <2>3. keyFile \in 1..disCalls /\ JobHosts \subseteq DistemHosts /\ dis.handed = {} /\ disJob \in Undergrounds
    BY <1>0, <2>1, JobIs DEF DisClient
  <2>4. DisTyped'
    <3>1. authorized' \in [DistemHosts -> SUBSET (1..disCalls)]
      BY <1>t, <2>2, <2>3
    <3> QED
      BY <1>0, <2>1, <3>1 DEF DisTyped, SameJob
  <2>5. CASE reached = JobHosts
    <3>1. dis' = [dis EXCEPT !.at = "quit"]
      BY <2>2, <2>5
    <3>2. dis'.at = "quit" /\ dis'.handed = {} /\ dis'.got = dis.got
      BY <1>d, <2>3, <3>1
    <3>3. DisClient'
      BY <1>d, <2>1, <2>3, <3>1, <3>2 DEF DisClient, SameJob
    <3>4. \A h \in JobHosts : keyFile \in authorized'[h]
      BY <2>2, <2>3, <2>5
    <3>5. DisTidy'
      BY <1>0, <2>1, <3>2, <3>4 DEF DisTidy, SameJob
    <3> QED
      BY <2>4, <3>2, <3>3, <3>5 DEF DisIInv, DisCreated
  <2>6. CASE reached # JobHosts
    <3>1. dis' = AwayFromDistem
      BY <2>2, <2>6
    <3>2. DisClient' /\ DisCreated' /\ dis'.at = "out"
      BY <3>1, AwayIs
    <3>3. DisTidy'
      BY <1>0, <2>1, <3>2 DEF DisTidy, SameJob
    <3> QED
      BY <2>4, <3>2, <3>3 DEF DisIInv
  <2> QED
    BY <2>5, <2>6
<1>5. CASE QuitPnodes
  <2>1. /\ dis.at = "quit" /\ UNCHANGED <<disConf, disJob, keyFile, authorized, coordinator, disCalls>> /\ SameJob
        /\ vnodes' = IF dis.got THEN {v \in vnodes : v.host \notin coordinator[Min(JobHosts)]} ELSE vnodes
        /\ dis' = [dis EXCEPT !.at = "start"]
    BY <1>5, SameJobIs DEF QuitPnodes, FirstHosts, Quits
  <2>2. vnodes' = {} 
    <3>1. CASE vnodes = {}
      BY <2>1, <3>1
    <3>2. CASE vnodes # {}
      <4>1. JobHosts # {} /\ coordinator[Min(JobHosts)] = JobHosts
        BY <1>0, <1>t, <3>2 DEF DisTidy
      <4>2. dis.got
        BY <1>0, <2>1, <4>1 DEF DisTidy
      <4> QED
        BY <1>t, <2>1, <4>1, <4>2
    <3> QED
      BY <3>1, <3>2
  <2>3. DisTyped'
    BY <1>0, <2>1, <2>2 DEF DisTyped, SameJob
  <2>4. dis'.at = "start" /\ dis'.handed = {} /\ DisClient'
    BY <1>0, <1>d, <2>1 DEF DisClient, SameJob
  <2>5. DisTidy'
    BY <1>0, <2>1, <2>2, <2>4 DEF DisTidy, SameJob
  <2> QED
    BY <2>3, <2>4, <2>5 DEF DisIInv, DisCreated
<1>6. CASE StartCoordinator
  <2>1. /\ dis.at = "start" /\ UNCHANGED <<disConf, disJob, keyFile, authorized, vnodes, disCalls>> /\ SameJob
        /\ coordinator' = [h \in DistemHosts |-> {}] /\ dis' = [dis EXCEPT !.at = "pnodes"]
    BY <1>6, SameJobIs DEF StartCoordinator
  <2>2. DisTyped'
    <3>1. coordinator' \in [DistemHosts -> SUBSET JobHosts]
      BY <2>1
    <3> QED
      BY <1>0, <2>1, <3>1 DEF DisTyped, SameJob
  <2>3. dis'.at = "pnodes" /\ dis'.handed = {} /\ DisClient'
    BY <1>0, <1>d, <2>1 DEF DisClient, SameJob
  <2>4. vnodes' = {}
    BY <1>0, <2>1 DEF DisTidy
  <2>5. DisTidy'
    BY <1>0, <2>1, <2>3, <2>4 DEF DisTidy, SameJob
  <2> QED
    BY <2>2, <2>3, <2>5 DEF DisIInv, DisCreated
<1>7. CASE InitPnodes
  <2>1. /\ dis.at = "pnodes" /\ UNCHANGED <<disConf, disJob, keyFile, authorized, vnodes, disCalls>> /\ SameJob
        /\ coordinator' = [coordinator EXCEPT ![Min(JobHosts)] = JobHosts]
    BY <1>7, SameJobIs DEF InitPnodes, FirstHosts
  <2>2. PICK plan \in Plans5k : dis' = [dis EXCEPT !.at = "create", !.todo = plan]
    BY <1>7 DEF InitPnodes
  <2>3. vnodes = {} /\ dis.handed = {} /\ disJob \in Undergrounds /\ keyFile \in 1..disCalls
    BY <1>0, <2>1 DEF DisTidy, DisClient
  <2>4. dis'.at = "create" /\ dis'.handed = {} /\ dis'.todo = plan /\ DisClient'
    BY <1>0, <1>d, <2>1, <2>2, <2>3 DEF DisClient, SameJob
  <2>5. DisTyped'
    <3>1. coordinator' \in [DistemHosts -> SUBSET JobHosts]
      BY <1>t, <2>1
    <3> QED
      BY <1>0, <2>1, <3>1 DEF DisTyped, SameJob
  <2>6. JobHosts # {} => coordinator'[Min(JobHosts)] = JobHosts
    <3> SUFFICES ASSUME JobHosts # {} PROVE coordinator'[Min(JobHosts)] = JobHosts
      OBVIOUS
    <3>1. JobHosts \subseteq DistemHosts /\ JobHosts \in SUBSET Nat
      BY <1>0, <2>3, JobIs, DistemAssumption
    <3>2. Min(JobHosts) \in DistemHosts
      BY <3>1, FirstPosition
    <3> QED
      BY <1>t, <2>1, <3>2
  <2>7. DisTidy'
    BY <1>0, <2>1, <2>3, <2>4, <2>6 DEF DisTidy, SameJob
  <2>8. DisCreated'
    <3>1. PICK o, off : PlanLaid(plan, o, off)
      BY <1>0, <2>3, PlanIsLaid
    <3>2. Len(plan) \in Nat /\ plan \in Seq([group : DistemGroups, host : JobHosts])
      BY <3>1 DEF PlanLaid
    <3>3. SubSeq(plan, 0 + 1, Len(plan)) = plan
      BY <3>2, SubSeqFull
    <3>4. 0 \in 0..Len(plan)
      BY <3>2
    <3>5. Created(plan, 0)'
      BY <2>1, <2>3, <2>4, <3>2, <3>3 DEF Created
    <3> QED
      BY <2>1, <3>4, <3>5 DEF DisCreated, SameJob
  <2> QED
    BY <2>4, <2>5, <2>7, <2>8 DEF DisIInv
<1>8. CASE CreateVnode
  <2> DEFINE next == Head(dis.todo)
             name == Cardinality(dis.handed)
  <2>1. /\ dis.at = "create" /\ dis.todo # <<>>
        /\ UNCHANGED <<disConf, disJob, keyFile, authorized, coordinator, disCalls>> /\ SameJob
        /\ vnodes' = vnodes \cup {[name |-> name, host |-> next.host, key |-> keyFile]}
        /\ dis' = [dis EXCEPT !.todo = Tail(dis.todo),
                              !.at = IF Len(dis.todo) = 1 THEN "ready" ELSE "create",
                              !.handed = dis.handed \cup {[name |-> name, host |-> next.host, key |-> keyFile,
                                                           group |-> next.group]}]
    BY <1>8, SameJobIs DEF CreateVnode
  <2>2. /\ dis'.todo = Tail(dis.todo) /\ dis'.at = (IF Len(dis.todo) = 1 THEN "ready" ELSE "create")
        /\ dis'.handed = dis.handed \cup {[name |-> name, host |-> next.host, key |-> keyFile, group |-> next.group]}
        /\ dis' = [at |-> dis'.at, todo |-> dis'.todo, got |-> dis'.got, handed |-> dis'.handed]
    BY <1>d, <2>1
  <2>3. disJob \in Undergrounds /\ keyFile \in 1..disCalls
    BY <1>0, <2>1 DEF DisClient
  <2>4. PICK plan \in Plans5k : \E k \in 0..Len(plan) : Created(plan, k)
    BY <1>0, <2>1 DEF DisCreated
  <2>5. PICK k \in 0..Len(plan) : Created(plan, k)
    BY <2>4
  <2>6. PICK o, off : PlanLaid(plan, o, off)
    BY <1>0, <2>3, PlanIsLaid
  <2> DEFINE S == [group : DistemGroups, host : JobHosts]
  <2>7. plan \in Seq(S) /\ Len(plan) \in Nat /\ k \in Nat /\ k <= Len(plan) /\ dis.todo = SubSeq(plan, k + 1, Len(plan))
    <3>1. plan \in Seq(S)
      BY <2>6 DEF PlanLaid
    <3> HIDE DEF S
    <3>2. Len(plan) \in Nat
      BY <3>1
    <3>3. k <= Len(plan) /\ dis.todo = SubSeq(plan, k + 1, Len(plan))
      BY <2>5 DEF Created
    <3>4. k \in Nat
      BY <3>2
    <3> QED
      BY <3>1, <3>2, <3>3, <3>4
  <2>8. /\ k + 1 \in 1..Len(plan) /\ k + 1 \in 0..Len(plan) /\ next = plan[k + 1]
        /\ Tail(dis.todo) = SubSeq(plan, (k + 1) + 1, Len(plan))
        /\ Len(dis.todo) = 1 => k + 1 = Len(plan)
    <3> DEFINE n == Len(plan)
               m == k + 1
    <3>1. n \in Nat /\ k \in 0..n /\ m = k + 1 /\ dis.todo = SubSeq(plan, m, n)
      BY <2>7
    <3>2. m \in 1..n /\ m \in 0..n /\ n \in m..n /\ m \in Int
      <4>1. CASE k = n
        <5>1. n < m /\ m \in Int /\ n \in Int
          BY <3>1, <4>1
        <5> HIDE DEF m, n
        <5>2. dis.todo = <<>>
          BY <3>1, <5>1, SubSeqEmpty
        <5> QED
          BY <2>1, <5>2
      <4>2. CASE k # n
        BY <3>1, <4>2
      <4> QED
        BY <4>1, <4>2
    <3> HIDE DEF S
    <3>9. plan \in Seq(S) /\ n = Len(plan) /\ \A i \in 1..Len(plan) : plan[i] \in S
      BY <2>7
    <3> HIDE DEF m, n
    <3>3. plan \in Seq(S) /\ n = Len(plan) /\ \A i \in m..n : plan[i] \in S
      BY <3>1, <3>2, <3>9
    <3>4. Head(dis.todo) = plan[m] /\ Tail(dis.todo) = SubSeq(plan, m + 1, n)
      <4>1. m \in 1..Len(plan) /\ n \in m..Len(plan)
        BY <3>2, <3>3
      <4> QED
        BY <3>1, <3>3, <4>1, HeadTailOfSubSeq
    <3>5. Len(dis.todo) = n - m + 1
      <4>1. Len(SubSeq(plan, m, n)) = IF m <= n THEN n - m + 1 ELSE 0
        BY <3>1, <3>2, <3>3, SubSeqProperties
      <4> QED
        BY <3>1, <3>2, <4>1
    <3>6. Len(dis.todo) = 1 => m = n
      BY <3>1, <3>2, <3>5
    <3> QED
      BY <3>2, <3>4, <3>6 DEF m, n
  <2>9. name = k
    <3> DEFINE H == {Container(plan, x) : x \in 1..k}
               f == [x \in 1..k |-> Container(plan, x)]
    <3>1. dis.handed = H
      BY <2>5 DEF Created
    <3>2. \A x, y \in 1..k : Container(plan, x) = Container(plan, y) => x = y
      <4> SUFFICES ASSUME NEW x \in 1..k, NEW y \in 1..k, Container(plan, x) = Container(plan, y) PROVE x = y
        OBVIOUS
      <4>1. Container(plan, x).name = x - 1 /\ Container(plan, y).name = y - 1
        BY DEF Container
      <4> QED
        BY <2>7, <4>1
    <3>3. f \in [1..k -> H] /\ (\A x \in H : \E i \in 1..k : f[i] = x) /\ \A x, y \in 1..k : f[x] = f[y] => x = y
      BY <3>2
    <3> HIDE DEF f, H
    <3>4. f \in Bijection(1..k, H)
      BY <3>3 DEF Bijection, Injection, Surjection, IsInjective
    <3>5. IsFiniteSet(1..k) /\ Cardinality(1..k) = k
      BY <2>7, FS_Interval
    <3>6. Cardinality(H) = k
      BY <3>4, <3>5, FS_Bijection DEF ExistsBijection
    <3> QED
      BY <3>1, <3>6
  <2>10. next \in S
    <3> HIDE DEF S
    <3> QED
      BY <2>7, <2>8
  <2>11. /\ dis'.handed = dis.handed \cup {Container(plan, k + 1)}
         /\ vnodes' = vnodes \cup {Vnode(plan, k + 1)}
    <3>1. (k + 1) - 1 = name
      BY <2>7, <2>9
    <3> HIDE DEF name, next
    <3> QED
      BY <2>1, <2>2, <2>8, <3>1 DEF Container, Vnode
  <2> HIDE DEF next, name, S
  <2>12. 1..(k + 1) = (1..k) \cup {k + 1}
    BY <2>7
  <2>13. Created(plan, k + 1)'
    <3>1. /\ dis.handed = {Container(plan, x) : x \in 1..k} /\ vnodes = {Vnode(plan, x) : x \in 1..k}
      BY <2>5 DEF Created
    <3>2. /\ dis'.handed = {Container(plan, x) : x \in 1..(k + 1)}
          /\ vnodes' = {Vnode(plan, x) : x \in 1..(k + 1)}
      BY <2>11, <2>12, <3>1
    <3>3. \A x : Container(plan, x)' = Container(plan, x) /\ Vnode(plan, x)' = Vnode(plan, x)
      BY <2>1 DEF Container, Vnode
    <3>4. k + 1 <= Len(plan) /\ (dis'.at = "ready" => k + 1 = Len(plan))
      BY <2>2, <2>8
    <3> QED
      BY <2>2, <2>8, <3>2, <3>3, <3>4 DEF Created
  <2>14. DisCreated'
    BY <2>1, <2>8, <2>13 DEF DisCreated, SameJob
  <2>15. DisTyped'
    <3>1. Vnode(plan, k + 1) \in [name : Nat, host : JobHosts, key : 1..disCalls]
      BY <2>3, <2>7, <2>8, <2>10, SMTT(40) DEF Vnode, S
    <3>2. vnodes' \subseteq [name : Nat, host : JobHosts, key : 1..disCalls]
      BY <1>t, <2>11, <3>1
    <3> QED
      BY <1>0, <2>1, <3>2 DEF DisTyped, SameJob
  <2>16. DisClient'
    BY <2>1, <2>2, <2>3 DEF DisClient, SameJob
  <2>17. DisTidy'
    <3>1. JobHosts # {}
      BY <2>10 DEF S
    <3>2. dis'.at \in {"create", "ready"}
      BY <2>2
    <3> QED
      BY <1>0, <2>1, <3>1, <3>2 DEF DisTidy, SameJob
  <2> QED
    BY <2>14, <2>15, <2>16, <2>17 DEF DisIInv
<1>9. CASE DistemKilled
  <2>1. /\ dis' = AwayFromDistem /\ SameJob
        /\ UNCHANGED <<disConf, disJob, keyFile, authorized, coordinator, vnodes, disCalls>>
    BY <1>9, SameJobIs DEF DistemKilled
  <2>2. DisClient' /\ DisCreated' /\ dis'.at = "out"
    BY <2>1, AwayIs
  <2>3. DisTyped' /\ DisTidy'
    BY <1>0, <2>1, <2>2 DEF DisTyped, DisTidy, SameJob
  <2> QED
    BY <2>2, <2>3 DEF DisIInv
<1>10. CASE DistemJobEnds
  <2>1. /\ disJob' = <<>> /\ vnodes' = {} /\ dis' = AwayFromDistem
        /\ authorized' = [h \in DistemHosts |-> {}] /\ coordinator' = [h \in DistemHosts |-> {}]
        /\ UNCHANGED <<disConf, keyFile, disCalls>>
    BY <1>10 DEF DistemJobEnds
  <2>2. DisClient' /\ DisCreated' /\ dis'.at = "out"
    BY <2>1, AwayIs
  <2>3. DisTyped'
    <3>1. authorized' \in [DistemHosts -> SUBSET (1..disCalls)] /\ coordinator' \in [DistemHosts -> SUBSET JobHosts']
      BY <2>1
    <3> QED
      BY <1>t, <2>1, <3>1 DEF DisTyped
  <2>4. DisTidy'
    BY <2>1, <2>2 DEF DisTidy
  <2> QED
    BY <2>2, <2>3, <2>4 DEF DisIInv
<1> QED
  BY <1>1, <1>2, <1>3, <1>4, <1>5, <1>6, <1>7, <1>8, <1>9, <1>10 DEF DistemNext

\* Containers have names of their own: there are as many as there are positions.
ContainersAt(plan, a, T) == {Container(plan, a + k) : k \in T}

LEMMA CountContainers ==
  ASSUME NEW plan, NEW n \in Nat, NEW T \in SUBSET (1..n), NEW a \in Nat
  PROVE  Cardinality(ContainersAt(plan, a, T)) = Cardinality(T)
<1> DEFINE H == {Container(plan, a + k) : k \in T}
           f == [k \in T |-> Container(plan, a + k)]
<1>1. \A x, y \in T : Container(plan, a + x) = Container(plan, a + y) => x = y
  <2> SUFFICES ASSUME NEW x \in T, NEW y \in T, Container(plan, a + x) = Container(plan, a + y) PROVE x = y
    OBVIOUS
  <2>1. Container(plan, a + x).name = (a + x) - 1 /\ Container(plan, a + y).name = (a + y) - 1
    BY DEF Container
  <2>2. x \in Nat /\ y \in Nat
    OBVIOUS
  <2> QED
    BY <2>1, <2>2
<1>2. f \in [T -> H] /\ (\A x \in H : \E i \in T : f[i] = x) /\ \A x, y \in T : f[x] = f[y] => x = y
  BY <1>1
<1> HIDE DEF f, H
<1>3. f \in Bijection(T, H)
  BY <1>2 DEF Bijection, Injection, Surjection, IsInjective
<1>4. IsFiniteSet(T)
  <2>1. IsFiniteSet(1..n)
    BY FS_Interval
  <2> QED
    BY <2>1, FS_Subset
<1>5. Cardinality(H) = Cardinality(T)
  BY <1>3, <1>4, FS_Bijection DEF ExistsBijection
<1> QED
  BY <1>5 DEF H, ContainersAt

GroupHanded(g) ==
  LET on(h) == Cardinality({v \in dis.handed : v.group = g /\ v.host = h})
  IN  /\ Cardinality({v \in dis.handed : v.group = g}) = disConf[g].number
      /\ \A h, i \in disJob[g] : on(h) <= on(i) + 1

LEMMA DisReady == DisIInv => DistemReadyAsAsked
<1> SUFFICES ASSUME DisIInv, dis.at = "ready"
             PROVE  /\ {[name |-> v.name, host |-> v.host, key |-> v.key] : v \in dis.handed} = vnodes
                    /\ \A v \in dis.handed : v.host \in disJob[v.group] /\ v.key = keyFile /\ keyFile \in authorized[v.host]
                    /\ \A g \in DistemGroups : GroupHanded(g)
  BY DEF DistemReadyAsAsked, GroupHanded
<1>0. DisConfOK /\ DisTyped /\ DisClient /\ DisTidy /\ DisCreated
  BY DisConfIs DEF DisTyped, DisIInv
<1>1. disJob \in Undergrounds /\ \A h \in JobHosts : keyFile \in authorized[h]
  BY <1>0 DEF DisClient, DisTidy
<1>2. PICK plan \in Plans5k : \E k \in 0..Len(plan) : Created(plan, k)
  BY <1>0 DEF DisCreated
<1>3. Created(plan, Len(plan))
  BY <1>2 DEF Created
<1>4. PICK o, off : PlanLaid(plan, o, off)
  BY <1>0, <1>1, PlanIsLaid
<1> DEFINE N == Len(plan)
<1>5. /\ N \in Nat
      /\ \A g \in DistemGroups : InOrder(o[g], disJob[g])
      /\ \A g \in DistemGroups : off[g - 1] \in Nat
      /\ \A g \in DistemGroups : \A k \in 1..disConf[g].number :
           /\ off[g - 1] + k \in 1..N
           /\ plan[off[g - 1] + k] = [group |-> g, host |-> o[g][((k - 1) % Len(o[g])) + 1]]
      /\ \A x \in 1..N : \E g \in DistemGroups : \E k \in 1..disConf[g].number : x = off[g - 1] + k
  <2>1. plan \in Seq([group : DistemGroups, host : JobHosts])
    BY <1>4 DEF PlanLaid
  <2>2. N \in Nat
    <3> DEFINE S == [group : DistemGroups, host : JobHosts]
    <3>1. plan \in Seq(S)
      BY <2>1
    <3> HIDE DEF S
    <3> QED
      BY <3>1
  <2> QED
    BY <1>4, <2>2 DEF PlanLaid
<1>6. dis.handed = {Container(plan, x) : x \in 1..N} /\ vnodes = {Vnode(plan, x) : x \in 1..N}
  BY <1>3 DEF Created
<1> HIDE DEF N
<1>7. {[name |-> v.name, host |-> v.host, key |-> v.key] : v \in dis.handed} = vnodes
  <2>1. \A x : [name |-> Container(plan, x).name, host |-> Container(plan, x).host, key |-> Container(plan, x).key]
               = Vnode(plan, x)
    BY DEF Container, Vnode
  <2> QED
    BY <1>6, <2>1
<1>8. ASSUME NEW x \in 1..N
      PROVE  plan[x].group \in DistemGroups /\ plan[x].host \in disJob[plan[x].group]
  <2>1. PICK g \in DistemGroups : \E k \in 1..disConf[g].number : x = off[g - 1] + k
    BY <1>5
  <2>2. PICK k \in 1..disConf[g].number : x = off[g - 1] + k
    BY <2>1
  <2> DEFINE r == o[g]
             L == Len(r)
             y == (k - 1) % L
  <2>3. plan[x] = [group |-> g, host |-> r[y + 1]]
    BY <1>5, <2>2
  <2>4. L \in Nat \ {0} /\ \A i \in 1..L : r[i] \in disJob[g]
    BY <1>5 DEF InOrder
  <2>5. k - 1 \in Nat
    BY <1>0 DEF DisConfOK
  <2> HIDE DEF L, r
  <2>6. y \in 0..(L - 1)
    BY <2>4, <2>5, Division
  <2> HIDE DEF y
  <2>7. y + 1 \in 1..L
    BY <2>4, <2>6
  <2> QED
    BY <2>3, <2>4, <2>7
<1>9. \A v \in dis.handed : v.host \in disJob[v.group] /\ v.key = keyFile /\ keyFile \in authorized[v.host]
  <2> SUFFICES ASSUME NEW x \in 1..N
               PROVE  LET v == Container(plan, x)
                      IN  v.host \in disJob[v.group] /\ v.key = keyFile /\ keyFile \in authorized[v.host]
    BY <1>6
  <2>1. /\ Container(plan, x).host = plan[x].host /\ Container(plan, x).group = plan[x].group
        /\ Container(plan, x).key = keyFile
    BY DEF Container
  <2>2. plan[x].host \in JobHosts
    BY <1>0, <1>1, <1>8, JobIs
  <2> QED
    BY <1>1, <1>8, <2>1, <2>2
<1>10. ASSUME NEW g \in DistemGroups PROVE GroupHanded(g)
  <2> DEFINE n == disConf[g].number
             a == off[g - 1]
             r == o[g]
             L == Len(r)
             of == {v \in dis.handed : v.group = g}
             on(h) == {v \in dis.handed : v.group = g /\ v.host = h}
             rec(k) == Container(plan, a + k)
  <2>1. n \in Nat /\ a \in Nat
    BY <1>0, <1>5 DEF DisConfOK
  <2>2. ASSUME NEW k \in 1..n
        PROVE  a + k \in 1..N /\ rec(k).group = g /\ rec(k).host = r[((k - 1) % L) + 1] /\ rec(k) \in dis.handed
    <3>1. a + k \in 1..N /\ plan[a + k] = [group |-> g, host |-> r[((k - 1) % L) + 1]]
      BY <1>5
    <3>2. rec(k).group = plan[a + k].group /\ rec(k).host = plan[a + k].host
      BY DEF Container
    <3> DEFINE y == r[((k - 1) % L) + 1]
    <3>3. plan[a + k].group = g /\ plan[a + k].host = y
      <4> HIDE DEF y
      <4> QED
        BY <3>1 DEF y
    <3> QED
      BY <1>6, <3>1, <3>2, <3>3
  <2>3. ASSUME NEW v \in dis.handed, v.group = g
        PROVE  \E k \in 1..n : v = rec(k)
    <3>1. PICK x \in 1..N : v = Container(plan, x)
      BY <1>6
    <3>2. plan[x].group = g
      BY <2>3, <3>1 DEF Container
    <3>3. PICK h \in DistemGroups : \E k \in 1..disConf[h].number : x = off[h - 1] + k
      BY <1>5
    <3>4. PICK k \in 1..disConf[h].number : x = off[h - 1] + k
      BY <3>3
    <3>5. plan[x] = [group |-> h, host |-> o[h][((k - 1) % Len(o[h])) + 1]]
      BY <1>5, <3>4
    <3> DEFINE y == o[h][((k - 1) % Len(o[h])) + 1]
    <3>6. h = g
      <4> HIDE DEF y
      <4> QED
        BY <3>2, <3>5 DEF y
    <3> QED
      BY <3>1, <3>4, <3>6
  <2>4. of = {rec(k) : k \in 1..n}
    <3> HIDE DEF rec, n
    <3> QED
      BY <2>2, <2>3
  <2>5. \A h : on(h) = {rec(k) : k \in InTurn(n, L, r, h)}
    <3> TAKE h
    <3>1. \A k : k \in InTurn(n, L, r, h) <=> k \in 1..n /\ rec(k).host = h
      BY <2>2 DEF InTurn
    <3> HIDE DEF rec, n
    <3> QED
      BY <2>2, <2>3, <3>1
  <2>6. Cardinality(of) = n
    <3>1. of = ContainersAt(plan, a, 1..n)
      BY <2>4 DEF ContainersAt
    <3> HIDE DEF a, n, of
    <3>2. 1..n \in SUBSET (1..n)
      OBVIOUS
    <3>3. Cardinality(ContainersAt(plan, a, 1..n)) = Cardinality(1..n)
      BY <2>1, <3>2, CountContainers
    <3>4. Cardinality(1..n) = n
      BY <2>1, FS_Interval
    <3> QED
      BY <3>1, <3>3, <3>4
  <2>7. \A h : Cardinality(on(h)) = Cardinality(InTurn(n, L, r, h))
    <3> TAKE h
    <3> DEFINE T == InTurn(n, L, r, h)
               S == on(h)
    <3>1. S = ContainersAt(plan, a, T)
      BY <2>5 DEF ContainersAt
    <3>2. T \in SUBSET (1..n)
      BY DEF InTurn
    <3> HIDE DEF T, S, a, n
    <3>3. Cardinality(ContainersAt(plan, a, T)) = Cardinality(T)
      BY <2>1, <3>2, CountContainers
    <3> QED
      BY <3>1, <3>3 DEF T, S
  <2>8. ASSUME NEW h \in disJob[g], NEW i \in disJob[g]
        PROVE  Cardinality(on(h)) <= Cardinality(on(i)) + 1
    <3>1. /\ L \in Nat \ {0} /\ \A x, y \in 1..L : r[x] = r[y] => x = y
          /\ (\E x \in 1..L : r[x] = h) /\ (\E y \in 1..L : r[y] = i)
      BY <1>5 DEF InOrder
    <3>2. PICK x \in 1..L : r[x] = h
      BY <3>1
    <3>3. PICK y \in 1..L : r[y] = i
      BY <3>1
    <3> HIDE DEF L, r, n, on
    <3>4. Cardinality(InTurn(n, L, r, r[x])) <= Cardinality(InTurn(n, L, r, r[y])) + 1
      BY <2>1, <3>1, TurnsAreEven
    <3> QED
      BY <2>7, <3>2, <3>3, <3>4
  <2> QED
    BY <2>6, <2>8 DEF GroupHanded
<1> QED
  BY <1>7, <1>9, <1>10

LEMMA DisTypes == DisIInv => DistemTypeOK
<1> SUFFICES ASSUME DisIInv PROVE DistemTypeOK
  OBVIOUS
<1>1. DisTyped /\ DisClient /\ DisCreated /\ DisConfOK
  BY DisConfIs DEF DisIInv, DisTyped
<1>2. JobHosts \subseteq DistemHosts
  <2>1. CASE disJob = <<>>
    <3>1. JobHosts = {}
      BY <2>1 DEF JobHosts, Range
    <3> QED
      BY <3>1
  <2>2. CASE disJob \in Undergrounds
    BY <1>1, <2>2, JobIs
  <2> QED
    BY <1>1, <2>1, <2>2 DEF DisTyped
<1>3. ASSUME NEW h \in DistemHosts
      PROVE  authorized[h] \subseteq 1..disCalls /\ coordinator[h] \subseteq JobHosts
  BY <1>1 DEF DisTyped
<1>4. ASSUME NEW v \in vnodes
      PROVE  v.host \in JobHosts /\ v.key \in 1..disCalls
  BY <1>1 DEF DisTyped
<1>5. ASSUME NEW v \in dis.handed
      PROVE  v \in [name : Nat, host : DistemHosts, key : 1..MaxDistemCalls, group : Nat]
  <2>1. dis.at \in {"create", "ready"}
    BY <1>1, <1>5 DEF DisClient
  <2>2. PICK plan \in Plans5k : \E k \in 0..Len(plan) : Created(plan, k)
    BY <1>1, <2>1 DEF DisCreated
  <2>3. PICK k \in 0..Len(plan) : Created(plan, k)
    BY <2>2
  <2>4. disJob \in Undergrounds /\ keyFile \in 1..disCalls /\ disCalls \in 0..MaxDistemCalls /\ MaxDistemCalls \in Nat
    BY <1>1, <2>1, DistemAssumption DEF DisClient, DisTyped
  <2>5. \E o : \E off : PlanLaid(plan, o, off)
    BY <1>1, <2>2, <2>4, PlanIsLaid
  <2>6. plan \in Seq([group : DistemGroups, host : JobHosts])
    BY <2>5 DEF PlanLaid
  <2>7. PICK x \in 1..k : v = Container(plan, x)
    BY <2>3 DEF Created
  <2> DEFINE T == [group : DistemGroups, host : JobHosts]
             n == Len(plan)
  <2>8. n \in Nat /\ plan \in Seq(T)
    BY <2>6
  <2>9. x \in 1..n /\ x - 1 \in Nat
    <3> HIDE DEF n, T
    <3>1. k \in 0..n
      BY <2>3 DEF n
    <3> QED
      BY <2>7, <2>8, <3>1
  <2>10. plan[x] \in T
    <3> HIDE DEF T
    <3> QED
      BY <2>8, <2>9 DEF n
  <2>11. keyFile \in 1..MaxDistemCalls
    BY <2>4
  <2>12. DistemGroups \subseteq Nat
    BY <1>1 DEF DisConfOK
  <2>13. plan[x].group \in Nat /\ plan[x].host \in DistemHosts
    BY <1>2, <2>10, <2>12
  <2> QED
    BY <2>7, <2>9, <2>11, <2>13 DEF Container
<1>6. /\ disConf \in DistemConfs /\ disCalls \in 0..MaxDistemCalls /\ keyFile \in 0..disCalls
      /\ dis.at \in {"out", "booked", "keys", "quit", "start", "pnodes", "create", "ready"}
  BY <1>1 DEF DisTyped, DisClient
<1>7. dis.handed \subseteq [name : Nat, host : DistemHosts, key : 1..MaxDistemCalls, group : Nat]
  BY <1>5
<1> QED
  BY <1>2, <1>3, <1>4, <1>6, <1>7 DEF DistemTypeOK

-----------------------------------------------------------------------------
(* Vagrant *)

Fits(conf) == \A n \in DOMAIN conf.pools : Len(MachinesOf(conf)) <= Len(conf.pools[n])
FileOf(conf) == [conf |-> {conf}, defs |-> Definitions(conf)]

\* The file is that of a configuration that has enough addresses; boxes have names of their own.
VgTyped ==
  /\ vagrantfile = NoFile \/ \E conf \in VgConfs : Fits(conf) /\ vagrantfile = FileOf(conf)
  /\ vgCalls \in 0..MaxVgCalls
  /\ \A b \in boxes : b.made \in 1..vgCalls
  /\ \A b, c \in boxes : b.name = c.name => b = c

VgClient ==
  /\ vg = [at |-> vg.at, forced |-> vg.forced, handed |-> vg.handed]
  /\ vg.at \in {"out", "written", "creating", "ready"}
  /\ vg.at # "out" => vgCalls # 0 /\ vagrantfile # NoFile

\* Boxes of a file whose client forces them are those of the file.
VgFresh ==
  vg.at \in {"creating", "ready"} /\ vg.forced =>
     \A b \in boxes : b.name \in DefinedNames => b.made = vgCalls /\ b.ips = IpsOf(b.name)

VgHanded ==
  vg.at = "ready" =>
     MissingNames = {} /\ vg.handed = {[group |-> d.group, name |-> d.name] : d \in ToSet(vagrantfile.defs)}

VgIInv == VgTyped /\ VgClient /\ VgFresh /\ VgHanded

\* The machines of a configuration: each of each group has a position.
MachinesLaid(conf, off) ==
  /\ Len(MachinesOf(conf)) \in Nat /\ DOMAIN MachinesOf(conf) = 1..Len(MachinesOf(conf))
  /\ \A g \in DOMAIN conf.groups : \A i \in 1..conf.groups[g].number :
        /\ off[g - 1] + i \in DOMAIN MachinesOf(conf)
        /\ MachinesOf(conf)[off[g - 1] + i] = [group |-> g, name |-> BoxName(conf.groups[g], g - 1, i)]
  /\ \A m \in DOMAIN MachinesOf(conf) : \E g \in DOMAIN conf.groups : \E i \in 1..conf.groups[g].number :
        m = off[g - 1] + i

LEMMA MachinesAreLaid ==
  ASSUME NEW conf \in VgConfs
  PROVE  \E off : MachinesLaid(conf, off)
<1> DEFINE G == DOMAIN conf.groups
           N == Len(conf.groups)
           number(g) == conf.groups[g].number
           names == {BoxName(conf.groups[g], g - 1, i) : g \in G, i \in Nat}
           S == [group : G, name : names]
           rec(g, i) == [group |-> g, name |-> BoxName(conf.groups[g], g - 1, i)]
           ss == [g \in G |-> [i \in 1..number(g) |-> rec(g, i)]]
           flat == MachinesOf(conf)
<1>1. N \in Nat /\ G = 1..N /\ \A g \in G : number(g) \in Nat
  BY VagrantAssumption
<1>2. flat = FlattenSeq(ss)
  BY DEF MachinesOf
<1>3. \A g \in G : \A i \in 1..number(g) : rec(g, i) \in S
  BY <1>1
<1>4. ASSUME NEW g \in G
      PROVE  /\ ss[g] \in Seq(S) /\ Len(ss[g]) = number(g)
             /\ \A i \in 1..number(g) : ss[g][i] = rec(g, i)
  <2> DEFINE n == number(g)
             t == ss[g]
  <2>1. t = [i \in 1..n |-> rec(g, i)] /\ n \in Nat
    BY <1>1
  <2>2. \A i \in 1..n : rec(g, i) \in S
    BY <1>3
  <2> HIDE DEF t, n, rec, S
  <2>3. t \in [1..n -> S]
    BY <2>1, <2>2
  <2>4. t \in Seq(S) /\ Len(t) = n
    BY <2>1, <2>3
  <2> QED
    BY <2>1, <2>4 DEF t, n
<1> HIDE DEF ss, S, rec, flat, N, G, number
<1>5. ss \in Seq(Seq(S)) /\ Len(ss) = N
  <2>1. ss \in [1..N -> Seq(S)]
    <3>1. DOMAIN ss = G /\ ss = [g \in DOMAIN ss |-> ss[g]]
      BY DEF ss
    <3> QED
      BY <1>1, <1>4, <3>1
  <2> QED
    BY <1>1, <2>1
<1>6. flat \in Seq(S) /\ \E off : Laid(flat, ss, N, off)
  BY <1>2, <1>5, FlattenLaid
<1>7. PICK off : Laid(flat, ss, N, off)
  BY <1>6
<1>8. /\ off \in [0..N -> Nat] /\ Len(flat) = off[N]
      /\ \A i \in 1..N : off[i] = off[i - 1] + Len(ss[i])
      /\ \A i \in 1..N : \A k \in 1..Len(ss[i]) : flat[off[i - 1] + k] = ss[i][k]
      /\ \A i, j \in 0..N : i <= j => off[i] <= off[j]
      /\ \A x \in 1..off[N] : \E i \in 1..N : \E k \in 1..Len(ss[i]) : x = off[i - 1] + k
  BY <1>7 DEF Laid
<1>9. Len(flat) \in Nat /\ DOMAIN flat = 1..Len(flat)
  BY <1>6
<1>10. ASSUME NEW g \in G, NEW i \in 1..number(g)
       PROVE  off[g - 1] + i \in 1..Len(flat) /\ flat[off[g - 1] + i] = rec(g, i)
  <2>1. g \in 1..N /\ g \in 0..N /\ g - 1 \in 0..N /\ g <= N /\ N \in 0..N
    BY <1>1
  <2>2. Len(ss[g]) = number(g) /\ ss[g][i] = rec(g, i) /\ number(g) \in Nat
    BY <1>1, <1>4
  <2>3. flat[off[g - 1] + i] = rec(g, i)
    BY <1>8, <2>1, <2>2
  <2> DEFINE a == off[g - 1]
             b == off[g]
             c == off[N]
             d == number(g)
  <2>4. a \in Nat /\ b \in Nat /\ c \in Nat /\ b = a + d /\ b <= c /\ d \in Nat /\ i \in 1..d
    BY <1>8, <2>1, <2>2
  <2> HIDE DEF a, b, c, d
  <2>5. a + i \in 1..c
    BY <2>4
  <2> QED
    BY <1>8, <2>3, <2>5 DEF a, c
<1>11. ASSUME NEW m \in 1..Len(flat)
       PROVE  \E g \in G : \E i \in 1..number(g) : m = off[g - 1] + i
  <2>1. PICK g \in 1..N : \E k \in 1..Len(ss[g]) : m = off[g - 1] + k
    BY <1>8
  <2>2. g \in G /\ Len(ss[g]) = number(g)
    BY <1>1, <1>4
  <2> QED
    BY <2>1, <2>2
<1>12. MachinesLaid(conf, off)
  BY <1>9, <1>10, <1>11 DEF MachinesLaid, flat, G, number, rec
<1> QED
  BY <1>12

\* What the file says of each machine.
DefsAre(conf) ==
  /\ DOMAIN Definitions(conf) = DOMAIN MachinesOf(conf)
  /\ \A m \in DOMAIN MachinesOf(conf) :
        /\ Definitions(conf)[m].group = MachinesOf(conf)[m].group
        /\ Definitions(conf)[m].name = MachinesOf(conf)[m].name
        /\ Definitions(conf)[m].ips = {Popped(conf.pools[n], m) : n \in DOMAIN conf.pools}

LEMMA DefinitionsAre == ASSUME NEW conf PROVE DefsAre(conf)
<1> DEFINE D == DOMAIN MachinesOf(conf)
           group(m) == MachinesOf(conf)[m].group
           name(m) == MachinesOf(conf)[m].name
           ips(m) == {Popped(conf.pools[n], m) : n \in DOMAIN conf.pools}
<1>1. Definitions(conf) = [m \in D |-> [group |-> group(m), name |-> name(m), ips |-> ips(m)]]
  BY DEF Definitions
<1> HIDE DEF D, group, name, ips
<1>2. /\ DOMAIN Definitions(conf) = D
      /\ \A m \in D : /\ Definitions(conf)[m].group = group(m) /\ Definitions(conf)[m].name = name(m)
                      /\ Definitions(conf)[m].ips = ips(m)
  BY <1>1
<1> QED
  BY <1>2 DEF DefsAre, D, group, name, ips

\* No address is given twice.
LEMMA AddressesOnce ==
  ASSUME NEW conf \in VgConfs, Fits(conf),
         NEW m \in DOMAIN MachinesOf(conf), NEW l \in DOMAIN MachinesOf(conf), NEW ip,
         ip \in Definitions(conf)[m].ips, ip \in Definitions(conf)[l].ips
  PROVE  m = l
<1>1. PICK off : MachinesLaid(conf, off)
  BY MachinesAreLaid
<1> DEFINE M == Len(MachinesOf(conf))
           pool(n) == conf.pools[n]
<1>2. M \in Nat /\ m \in 1..M /\ l \in 1..M
  BY <1>1 DEF MachinesLaid
<1>3. PICK n \in DOMAIN conf.pools : ip = Popped(pool(n), m)
  <2>1. DefsAre(conf)
    BY DefinitionsAre
  <2>2. Definitions(conf)[m].ips = {Popped(conf.pools[x], m) : x \in DOMAIN conf.pools}
    BY <2>1 DEF DefsAre
  <2> QED
    BY <2>2
<1>4. PICK k \in DOMAIN conf.pools : ip = Popped(pool(k), l)
  <2>1. DefsAre(conf)
    BY DefinitionsAre
  <2>2. Definitions(conf)[l].ips = {Popped(conf.pools[x], l) : x \in DOMAIN conf.pools}
    BY <2>1 DEF DefsAre
  <2> QED
    BY <2>2
<1>5. /\ M <= Len(pool(n)) /\ M <= Len(pool(k)) /\ Len(pool(n)) \in Nat /\ Len(pool(k)) \in Nat
      /\ DOMAIN pool(n) = 1..Len(pool(n)) /\ DOMAIN pool(k) = 1..Len(pool(k))
  BY VagrantAssumption DEF Fits
<1> DEFINE x == Len(pool(n)) + 1 - m
           y == Len(pool(k)) + 1 - l
<1>6. x \in DOMAIN pool(n) /\ y \in DOMAIN pool(k)
  <2> HIDE DEF pool, M
  <2> QED
    BY <1>2, <1>5
<1>7. pool(n)[x] = pool(k)[y]
  BY <1>3, <1>4 DEF Popped
<1> HIDE DEF x, y, M
<1>8. n = k /\ x = y
  <2>1. conf.pools[n][x] = conf.pools[k][y]
    BY <1>7
  <2>2. x \in DOMAIN conf.pools[n] /\ y \in DOMAIN conf.pools[k]
    BY <1>6
  <2> QED
    BY <2>1, <2>2, VagrantAssumption
<1> HIDE DEF pool
<1>9. Len(pool(n)) + 1 - m = Len(pool(n)) + 1 - l
  BY <1>8 DEF x, y
<1> QED
  BY <1>2, <1>5, <1>9

\* Names are told apart by their groups and their numbers.
NameGiven(conf, g, i) == BoxName(conf.groups[g], g - 1, i)
OwnPrefixes(conf) ==
  \A g, h \in DOMAIN conf.groups : g # h => conf.groups[g].prefix # conf.groups[h].prefix
                                            \/ conf.groups[g].prefix = <<>>

LEMMA NamesApart ==
  ASSUME NEW conf \in VgConfs,
         NEW g \in DOMAIN conf.groups, NEW i \in 1..conf.groups[g].number,
         NEW h \in DOMAIN conf.groups, NEW j \in 1..conf.groups[h].number,
         NameGiven(conf, g, i) = NameGiven(conf, h, j), g = h \/ OwnPrefixes(conf)
  PROVE  g = h /\ i = j
<1> DEFINE p == conf.groups[g].prefix
           q == conf.groups[h].prefix
           n == conf.groups[g].number
           k == conf.groups[h].number
           u == IF n > 1 THEN <<i>> ELSE <<>>
           v == IF k > 1 THEN <<j>> ELSE <<>>
           a == IF p # <<>> THEN p ELSE <<"enos", g - 1>>
           b == IF q # <<>> THEN q ELSE <<"enos", h - 1>>
<1>1. /\ n \in Nat /\ k \in Nat /\ p \in Seq(STRING) /\ q \in Seq(STRING) /\ Len(p) <= 1 /\ Len(q) <= 1
      /\ p # <<"enos">> /\ q # <<"enos">> /\ g \in Nat /\ h \in Nat
  BY VagrantAssumption
<1>2. a \o u = b \o v
  BY DEF NameGiven, BoxName
<1>3. g # h => p # q \/ p = <<>>
  BY DEF OwnPrefixes
<1>4. i \in 1..n /\ j \in 1..k /\ (g = h => p = q /\ n = k)
  OBVIOUS
<1> HIDE DEF p, q, n, k
<1> DEFINE S == STRING \cup {"enos"} \cup Nat
<1>5. ASSUME NEW x \in Seq(STRING), Len(x) <= 1, x # <<"enos">>, x # <<>>
      PROVE  x \in Seq(S) /\ Len(x) = 1 /\ x[1] # "enos"
  <2>1. x \in Seq(S) /\ Len(x) = 1
    <3> DEFINE T == STRING
    <3>1. x \in Seq(T) /\ T \subseteq S
      OBVIOUS
    <3> HIDE DEF S, T
    <3>2. x \in Seq(S) /\ Len(x) \in Nat /\ Len(x) # 0
      BY <1>5, <3>1
    <3> DEFINE l == Len(x)
    <3>3. l \in Nat /\ l # 0 /\ l <= 1
      BY <1>5, <3>2
    <3> HIDE DEF l
    <3>4. l = 1
      BY <3>3
    <3> QED
      BY <3>2, <3>4 DEF l
  <2>2. CASE x[1] = "enos"
    <3> DEFINE e == <<"enos">>
    <3>1. e \in Seq(S) /\ Len(e) = 1 /\ e[1] = "enos"
      <4> DEFINE n0 == "enos"
      <4>1. n0 \in S
        OBVIOUS
      <4> HIDE DEF n0, S
      <4>2. <<n0>> \in Seq(S) /\ Len(<<n0>>) = 1 /\ <<n0>>[1] = n0
        BY <4>1
      <4> QED
        BY <4>2 DEF n0
    <3> HIDE DEF e
    <3>2. x = e
      BY <2>1, <2>2, <3>1, SeqEqual
    <3> QED
      BY <1>5, <3>2 DEF e
  <2> QED
    BY <2>1, <2>2
<1>6. ASSUME NEW x \in Nat
      PROVE  <<"enos", x>> \in Seq(S) /\ Len(<<"enos", x>>) = 2 /\ <<"enos", x>>[1] = "enos" /\ <<"enos", x>>[2] = x
  <2> DEFINE n0 == "enos"
  <2>1. n0 \in S /\ x \in S
    OBVIOUS
  <2> HIDE DEF n0, S
  <2>2. <<n0, x>> \in Seq(S) /\ Len(<<n0, x>>) = 2 /\ <<n0, x>>[1] = n0 /\ <<n0, x>>[2] = x
    BY <2>1
  <2> QED
    BY <2>2 DEF n0
<1>7. ASSUME NEW x \in Nat
      PROVE  <<x>> \in Seq(S) /\ Len(<<x>>) = 1 /\ <<x>>[1] = x
  OBVIOUS
<1>8. <<>> \in Seq(S) /\ Len(<<>>) = 0
  OBVIOUS
<1>9. i \in Nat /\ j \in Nat /\ g - 1 \in Nat /\ h - 1 \in Nat
  <2>1. g >= 1 /\ h >= 1
    BY VagrantAssumption
  <2> QED
    BY <1>1, <1>4, <2>1
<1> HIDE DEF S
<1>10. /\ a \in Seq(S) /\ (p # <<>> => a = p /\ Len(a) = 1 /\ a[1] # "enos")
       /\ (p = <<>> => Len(a) = 2 /\ a[1] = "enos" /\ a[2] = g - 1)
  BY <1>1, <1>5, <1>6, <1>9
<1>11. /\ b \in Seq(S) /\ (q # <<>> => b = q /\ Len(b) = 1 /\ b[1] # "enos")
       /\ (q = <<>> => Len(b) = 2 /\ b[1] = "enos" /\ b[2] = h - 1)
  BY <1>1, <1>5, <1>6, <1>9
<1>12. u \in Seq(S) /\ (n > 1 => Len(u) = 1 /\ u[1] = i) /\ (~(n > 1) => Len(u) = 0 /\ i = 1)
  BY <1>1, <1>4, <1>7, <1>8, <1>9
<1>13. v \in Seq(S) /\ (k > 1 => Len(v) = 1 /\ v[1] = j) /\ (~(k > 1) => Len(v) = 0 /\ j = 1)
  BY <1>1, <1>4, <1>7, <1>8, <1>9
<1> HIDE DEF a, b, u, v
<1>14. /\ \A x \in 1..Len(a) : (a \o u)[x] = a[x]
       /\ \A x \in 1..Len(b) : (b \o v)[x] = b[x]
       /\ Len(u) = 1 => (a \o u)[Len(a) + 1] = u[1]
       /\ Len(v) = 1 => (b \o v)[Len(b) + 1] = v[1]
  BY <1>10, <1>11, <1>12, <1>13
<1>15. a[1] = b[1]
  BY <1>2, <1>10, <1>11, <1>14
<1>16. g = h
  <2>1. CASE p # <<>>
    <3>1. q # <<>>
      BY <1>10, <1>11, <1>15, <2>1
    <3>2. p = q
      BY <1>10, <1>11, <1>15, <2>1, <3>1, SeqEqual
    <3> QED
      BY <1>3, <2>1, <3>2
  <2>2. CASE p = <<>>
    <3>1. q = <<>>
      BY <1>10, <1>11, <1>15, <2>2
    <3>2. g - 1 = h - 1
      BY <1>2, <1>10, <1>11, <1>14, <2>2, <3>1
    <3> QED
      BY <1>1, <3>2
  <2> QED
    BY <2>1, <2>2
<1>17. p = q /\ n = k /\ Len(a) = Len(b)
  BY <1>4, <1>10, <1>11, <1>16
<1>18. n > 1 => i = j
  BY <1>2, <1>12, <1>13, <1>14, <1>17
<1> QED
  BY <1>12, <1>13, <1>16, <1>17, <1>18

LEMMA VgInitOK == VgInit => VgIInv
<1> SUFFICES ASSUME VgInit PROVE VgIInv
  OBVIOUS
<1>1. /\ vagrantfile = NoFile /\ boxes = {} /\ vgCalls = 0 /\ MaxVgCalls \in Nat
      /\ vg = [at |-> "out", forced |-> FALSE, handed |-> {}]
  BY VagrantAssumption DEF VgInit, AwayFromVagrant
<1>2. vgCalls \in 0..MaxVgCalls /\ vg.at = "out"
  BY <1>1
<1>3. VgClient
  BY <1>1 DEF VgClient
<1> QED
  BY <1>1, <1>2, <1>3 DEF VgIInv, VgTyped, VgFresh, VgHanded

LEMMA VgStepOK == VgIInv /\ [VgNext]_vgVars => VgIInv'
<1> SUFFICES ASSUME VgIInv, [VgNext]_vgVars PROVE VgIInv'
  OBVIOUS
<1>0. VgTyped /\ VgClient /\ VgFresh /\ VgHanded /\ MaxVgCalls \in Nat
  BY VagrantAssumption DEF VgIInv
<1>t. /\ vagrantfile = NoFile \/ \E conf \in VgConfs : Fits(conf) /\ vagrantfile = FileOf(conf)
      /\ vgCalls \in 0..MaxVgCalls
      /\ \A b \in boxes : b.made \in 1..vgCalls
      /\ \A b, c \in boxes : b.name = c.name => b = c
  BY <1>0 DEF VgTyped
<1>c. /\ vg = [at |-> vg.at, forced |-> vg.forced, handed |-> vg.handed]
      /\ vg.at \in {"out", "written", "creating", "ready"}
      /\ (vg.at # "out" => vgCalls # 0 /\ vagrantfile # NoFile)
  BY <1>0 DEF VgClient
<1>s. ASSUME UNCHANGED vagrantfile
      PROVE  DefinedNames' = DefinedNames /\ \A name : IpsOf(name)' = IpsOf(name)
  BY <1>s DEF DefinedNames, IpsOf
<1>a. ASSUME vg' = AwayFromVagrant
      PROVE  VgClient' /\ VgFresh' /\ VgHanded'
  <2>1. vg' = [at |-> "out", forced |-> FALSE, handed |-> {}]
    BY <1>a DEF AwayFromVagrant
  <2> QED
    BY <2>1 DEF VgClient, VgFresh, VgHanded
<1>1. CASE UNCHANGED vgVars
  <2>1. UNCHANGED <<vagrantfile, boxes, vg, vgCalls>>
    BY <1>1 DEF vgVars
  <2>2. VgTyped' /\ VgClient'
    BY <1>0, <2>1 DEF VgTyped, VgClient
  <2>3. VgFresh' /\ VgHanded'
    BY <1>0, <1>s, <2>1 DEF VgFresh, VgHanded, MissingNames
  <2> QED
    BY <2>2, <2>3 DEF VgIInv
<1>2. CASE WriteVagrantfile
  <2>1. vgCalls < MaxVgCalls /\ vgCalls' = vgCalls + 1 /\ UNCHANGED boxes
    BY <1>2 DEF WriteVagrantfile
  <2>2. PICK conf \in VgConfs, forced \in BOOLEAN :
          IF Fits(conf)
          THEN vagrantfile' = FileOf(conf) /\ vg' = [AwayFromVagrant EXCEPT !.at = "written", !.forced = forced]
          ELSE vg' = AwayFromVagrant /\ UNCHANGED vagrantfile
    BY <1>2 DEF WriteVagrantfile, Fits, FileOf
  <2>3. vgCalls' \in 1..MaxVgCalls /\ vgCalls' \in 0..MaxVgCalls /\ 1..vgCalls \subseteq 1..vgCalls'
    BY <1>0, <1>t, <2>1
  <2>4. VgTyped'
    <3>1. vagrantfile' = NoFile \/ \E c \in VgConfs : Fits(c) /\ vagrantfile' = FileOf(c)
      BY <1>t, <2>2
    <3> QED
      BY <1>t, <2>1, <2>3, <3>1 DEF VgTyped
  <2>5. CASE Fits(conf)
    <3>1. vagrantfile' = FileOf(conf) /\ vg' = [at |-> "written", forced |-> forced, handed |-> {}]
      BY <2>2, <2>5 DEF AwayFromVagrant
    <3>2. vagrantfile' # NoFile
      <4>1. vagrantfile'.conf = {conf} /\ NoFile.conf = {}
        BY <3>1 DEF FileOf, NoFile
      <4> QED
        BY <4>1
    <3>3. VgClient' /\ vg'.at = "written"
      BY <2>3, <3>1, <3>2 DEF VgClient
    <3> QED
      BY <2>4, <3>3 DEF VgIInv, VgFresh, VgHanded
  <2>6. CASE ~Fits(conf)
    BY <1>a, <2>2, <2>4, <2>6 DEF VgIInv
  <2> QED
    BY <2>5, <2>6
<1>3. CASE ForceDestroy
  <2>1. /\ vg.at = "written" /\ UNCHANGED <<vagrantfile, vgCalls>>
        /\ boxes' = IF vg.forced THEN boxes \ BoxesNamed ELSE boxes
        /\ vg' = [vg EXCEPT !.at = "creating"]
    BY <1>3 DEF ForceDestroy
  <2>2. boxes' \subseteq boxes
    BY <2>1
  <2>3. vg'.at = "creating" /\ vg'.forced = vg.forced /\ VgClient'
    BY <1>c, <2>1 DEF VgClient
  <2>4. VgTyped'
    BY <1>t, <2>1, <2>2 DEF VgTyped
  <2>5. VgFresh'
    <3>1. vg.forced => \A b \in boxes' : b.name \notin DefinedNames
      BY <2>1 DEF BoxesNamed
    <3> QED
      BY <1>s, <2>1, <2>3, <3>1 DEF VgFresh
  <2> QED
    BY <2>3, <2>4, <2>5 DEF VgIInv, VgHanded
<1>4. CASE UpBox
  <2>1. vg.at = "creating" /\ UNCHANGED <<vagrantfile, vg, vgCalls>>
    BY <1>4 DEF UpBox
  <2>2. PICK d \in ToSet(vagrantfile.defs) :
          /\ d.name \in MissingNames
          /\ boxes' = boxes \cup {[name |-> d.name, ips |-> IpsOf(d.name), made |-> vgCalls]}
    BY <1>4 DEF UpBox
  <2> DEFINE new == [name |-> d.name, ips |-> IpsOf(d.name), made |-> vgCalls]
  <2>3. new.name = d.name /\ new.ips = IpsOf(d.name) /\ new.made = vgCalls /\ boxes' = boxes \cup {new}
    BY <2>2
  <2> HIDE DEF new
  <2>4. \A b \in boxes : b.name # d.name
    BY <2>2 DEF MissingNames
  <2>5. vgCalls \in 1..vgCalls
    BY <1>0, <1>t, <1>c, <2>1
  <2>6. VgTyped'
    <3>1. \A b \in boxes' : b.made \in 1..vgCalls
      BY <1>t, <2>3, <2>5
    <3>2. \A b, c \in boxes' : b.name = c.name => b = c
      BY <1>t, <2>3, <2>4
    <3> QED
      BY <1>t, <2>1, <3>1, <3>2 DEF VgTyped
  <2>7. VgFresh'
    BY <1>0, <1>s, <2>1, <2>3 DEF VgFresh
  <2>8. VgClient'
    BY <1>0, <2>1 DEF VgClient
  <2> QED
    BY <2>1, <2>6, <2>7, <2>8 DEF VgIInv, VgHanded
<1>5. CASE HandBoxes
  <2>1. /\ vg.at = "creating" /\ MissingNames = {} /\ UNCHANGED <<vagrantfile, boxes, vgCalls>>
        /\ vg' = [vg EXCEPT !.at = "ready",
                            !.handed = {[group |-> d.group, name |-> d.name] : d \in ToSet(vagrantfile.defs)}]
    BY <1>5 DEF HandBoxes
  <2> DEFINE handed == {[group |-> d.group, name |-> d.name] : d \in ToSet(vagrantfile.defs)}
  <2>2. vg'.at = "ready" /\ vg'.forced = vg.forced /\ vg'.handed = handed /\ VgClient'
    <3> HIDE DEF handed
    <3> QED
      BY <1>c, <2>1 DEF VgClient, handed
  <2>3. MissingNames' = MissingNames
    BY <1>s, <2>1 DEF MissingNames
  <2>4. VgHanded'
    BY <2>1, <2>2, <2>3 DEF VgHanded
  <2>5. VgTyped' /\ VgFresh'
    BY <1>0, <1>s, <2>1, <2>2 DEF VgTyped, VgFresh
  <2> QED
    BY <2>2, <2>4, <2>5 DEF VgIInv
<1>6. CASE DestroyVagrant
  <2>1. boxes' = boxes \ BoxesNamed /\ vg' = AwayFromVagrant /\ UNCHANGED <<vagrantfile, vgCalls>>
    BY <1>6 DEF DestroyVagrant
  <2>2. VgTyped'
    BY <1>t, <2>1 DEF VgTyped
  <2> QED
    BY <1>a, <2>1, <2>2 DEF VgIInv
<1>7. CASE VagrantKilled
  <2>1. vg' = AwayFromVagrant /\ UNCHANGED <<vagrantfile, boxes, vgCalls>>
    BY <1>7 DEF VagrantKilled
  <2>2. VgTyped'
    BY <1>t, <2>1 DEF VgTyped
  <2> QED
    BY <1>a, <2>1, <2>2 DEF VgIInv
<1> QED
  BY <1>1, <1>2, <1>3, <1>4, <1>5, <1>6, <1>7 DEF VgNext

LEMMA VgReady == VgIInv => VagrantReadyAsAsked
<1> SUFFICES ASSUME VgIInv, vg.at = "ready", NEW conf \in vagrantfile.conf
             PROVE  /\ \A h \in vg.handed : \E b \in boxes : b.name = h.name
                    /\ OwnPrefixes(conf) =>
                          /\ \A g \in DOMAIN conf.groups :
                                Cardinality({h \in vg.handed : h.group = g}) = conf.groups[g].number
                          /\ \A h, i \in vg.handed : h.name = i.name => h = i
                    /\ vg.forced =>
                          /\ \A b \in boxes : b.name \in DefinedNames => b.made = vgCalls
                          /\ \A b, c \in boxes :
                                {b.name, c.name} \subseteq DefinedNames /\ b # c => b.ips \cap c.ips = {}
  BY DEF VagrantReadyAsAsked, OwnPrefixes
<1>0. VgTyped /\ VgClient /\ VgFresh /\ VgHanded
  BY DEF VgIInv
<1>1. conf \in VgConfs /\ Fits(conf) /\ vagrantfile.defs = Definitions(conf)
  <2>1. vagrantfile # NoFile
    BY DEF NoFile
  <2>2. PICK c \in VgConfs : Fits(c) /\ vagrantfile = FileOf(c)
    BY <1>0, <2>1 DEF VgTyped
  <2>3. vagrantfile.conf = {c} /\ vagrantfile.defs = Definitions(c)
    BY <2>2 DEF FileOf
  <2> QED
    BY <2>2, <2>3
<1>2. PICK off : MachinesLaid(conf, off)
  BY <1>1, MachinesAreLaid
<1> DEFINE D == DOMAIN MachinesOf(conf)
           defs == Definitions(conf)
           G == DOMAIN conf.groups
           number(g) == conf.groups[g].number
           pos(g, i) == off[g - 1] + i
<1>3. DOMAIN defs = D /\ \A m \in D : /\ defs[m].group = MachinesOf(conf)[m].group
                                      /\ defs[m].name = MachinesOf(conf)[m].name
  BY DefinitionsAre DEF DefsAre
<1>4. \A g \in G : \A i \in 1..number(g) :
         pos(g, i) \in D /\ defs[pos(g, i)].group = g /\ defs[pos(g, i)].name = NameGiven(conf, g, i)
  <2> TAKE g \in G
  <2> TAKE i \in 1..number(g)
  <2>1. pos(g, i) \in D /\ MachinesOf(conf)[pos(g, i)] = [group |-> g, name |-> NameGiven(conf, g, i)]
    BY <1>2 DEF MachinesLaid, NameGiven
  <2> QED
    BY <1>3, <2>1
<1>5. \A m \in D : \E g \in G : \E i \in 1..number(g) : m = pos(g, i)
  BY <1>2 DEF MachinesLaid
<1>6. ToSet(vagrantfile.defs) = {defs[m] : m \in D}
  BY <1>1, <1>3 DEF ToSet
<1> HIDE DEF defs, D
<1> DEFINE rec(g, i) == [group |-> g, name |-> NameGiven(conf, g, i)]
<1>7. \A h : h \in vg.handed <=> \E g \in G : \E i \in 1..number(g) : h = rec(g, i)
  <2>1. vg.handed = {[group |-> d.group, name |-> d.name] : d \in ToSet(vagrantfile.defs)}
    BY <1>0 DEF VgHanded
  <2>2. vg.handed = {[group |-> defs[m].group, name |-> defs[m].name] : m \in D}
    BY <1>6, <2>1
  <2>3. ASSUME NEW h \in vg.handed PROVE \E g \in G : \E i \in 1..number(g) : h = rec(g, i)
    <3>1. PICK m \in D : h = [group |-> defs[m].group, name |-> defs[m].name]
      BY <2>2
    <3>2. PICK g \in G : \E i \in 1..number(g) : m = pos(g, i)
      BY <1>5
    <3>3. PICK i \in 1..number(g) : m = pos(g, i)
      BY <3>2
    <3> QED
      BY <1>4, <3>1, <3>3
  <2>4. ASSUME NEW g \in G, NEW i \in 1..number(g) PROVE rec(g, i) \in vg.handed
    <3>1. pos(g, i) \in D /\ defs[pos(g, i)].group = g /\ defs[pos(g, i)].name = NameGiven(conf, g, i)
      BY <1>4
    <3> DEFINE m == pos(g, i)
    <3> HIDE DEF m
    <3>2. [group |-> defs[m].group, name |-> defs[m].name] \in vg.handed
      BY <2>2, <3>1 DEF m
    <3> QED
      BY <3>1, <3>2 DEF m
  <2> QED
    BY <2>3, <2>4
<1>8. DefinedNames = {defs[m].name : m \in D}
  BY <1>6 DEF DefinedNames
<1>9. ASSUME NEW h \in vg.handed PROVE \E b \in boxes : b.name = h.name
  <2>1. PICK g \in G : \E i \in 1..number(g) : h = rec(g, i)
    BY <1>7
  <2>2. PICK i \in 1..number(g) : h = rec(g, i)
    BY <2>1
  <2>3. h.name \in DefinedNames
    BY <1>4, <1>8, <2>2
  <2> QED
    BY <1>0, <2>3 DEF VgHanded, MissingNames
<1>10. ASSUME NEW g \in G PROVE Cardinality({h \in vg.handed : h.group = g}) = number(g)
  <2> DEFINE n == number(g)
             H == {h \in vg.handed : h.group = g}
             f == [i \in 1..n |-> rec(g, i)]
  <2>1. n \in Nat
    BY <1>1, VagrantAssumption
  <2>2. \A i \in 1..n : f[i] \in H
    BY <1>7
  <2>3. \A i, j \in 1..n : f[i] = f[j] => i = j
    <3> SUFFICES ASSUME NEW i \in 1..n, NEW j \in 1..n, f[i] = f[j] PROVE i = j
      OBVIOUS
    <3>1. NameGiven(conf, g, i) = NameGiven(conf, g, j)
      OBVIOUS
    <3> QED
      BY <1>1, <3>1, NamesApart
  <2>4. \A h \in H : \E i \in 1..n : f[i] = h
    <3> TAKE h \in H
    <3>1. PICK k \in G : \E i \in 1..number(k) : h = rec(k, i)
      BY <1>7
    <3>2. k = g
      BY <3>1
    <3> QED
      BY <3>1, <3>2
  <2>5. DOMAIN f = 1..n /\ f \in [1..n -> H]
    BY <2>2
  <2> HIDE DEF f, H, n
  <2>6. f \in Bijection(1..n, H)
    BY <2>3, <2>4, <2>5 DEF Bijection, Injection, Surjection, IsInjective
  <2>7. IsFiniteSet(1..n) /\ Cardinality(1..n) = n
    BY <2>1, FS_Interval
  <2>8. Cardinality(H) = n
    BY <2>6, <2>7, FS_Bijection DEF ExistsBijection
  <2> QED
    BY <2>8 DEF H, n
<1>11. ASSUME OwnPrefixes(conf), NEW h \in vg.handed, NEW k \in vg.handed, h.name = k.name
       PROVE  h = k
  <2>1. PICK g \in G : \E i \in 1..number(g) : h = rec(g, i)
    BY <1>7
  <2>2. PICK i \in 1..number(g) : h = rec(g, i)
    BY <2>1
  <2>3. PICK l \in G : \E j \in 1..number(l) : k = rec(l, j)
    BY <1>7
  <2>4. PICK j \in 1..number(l) : k = rec(l, j)
    BY <2>3
  <2>5. NameGiven(conf, g, i) = NameGiven(conf, l, j)
    BY <1>11, <2>2, <2>4
  <2>6. g = l /\ i = j
    BY <1>1, <1>11, <2>5, NamesApart
  <2> QED
    BY <2>2, <2>4, <2>6
<1>12. vg.forced => \A b \in boxes : b.name \in DefinedNames => b.made = vgCalls /\ b.ips = IpsOf(b.name)
  BY <1>0 DEF VgFresh
<1>13. ASSUME vg.forced, NEW b \in boxes, NEW c \in boxes, b.name \in DefinedNames, c.name \in DefinedNames, b # c,
              NEW ip \in b.ips, ip \in c.ips
       PROVE  FALSE
  <2>1. ip \in IpsOf(b.name) /\ ip \in IpsOf(c.name)
    BY <1>12, <1>13
  <2>2. ASSUME NEW name, ip \in IpsOf(name)
        PROVE  \E m \in D : defs[m].name = name /\ ip \in defs[m].ips
    <3>1. PICK d \in ToSet(vagrantfile.defs) : d.name = name /\ ip \in d.ips
      BY <2>2 DEF IpsOf
    <3> QED
      BY <1>6, <3>1
  <2>3. PICK m \in D : defs[m].name = b.name /\ ip \in defs[m].ips
    BY <2>1, <2>2
  <2>4. PICK l \in D : defs[l].name = c.name /\ ip \in defs[l].ips
    BY <2>1, <2>2
  <2>5. m = l
    BY <1>1, <2>3, <2>4, AddressesOnce DEF D, defs
  <2> QED
    BY <1>0, <1>13, <2>3, <2>4, <2>5 DEF VgTyped
<1> QED
  BY <1>9, <1>10, <1>11, <1>12, <1>13

LEMMA VgTypes == VgIInv => VgTypeOK
<1> SUFFICES ASSUME VgIInv PROVE VgTypeOK
  OBVIOUS
<1>1. vagrantfile.conf \subseteq VgConfs
  <2>1. CASE vagrantfile = NoFile
    BY <2>1 DEF NoFile
  <2>2. CASE \E conf \in VgConfs : Fits(conf) /\ vagrantfile = FileOf(conf)
    <3>1. PICK conf \in VgConfs : vagrantfile = FileOf(conf)
      BY <2>2
    <3>2. vagrantfile.conf = {conf}
      BY <3>1 DEF FileOf
    <3> QED
      BY <3>2
  <2> QED
    BY <2>1, <2>2 DEF VgIInv, VgTyped
<1> QED
  BY <1>1 DEF VgTypeOK, VgIInv, VgTyped, VgClient

-----------------------------------------------------------------------------
(* Addresses *)

\* A network of some addresses, in blocks for a VLAN.
Nets4 ==
    {net \in [kind : {"vlan", "local", "subnet", "default"}, first : Nat, last : Nat] :
        /\ net.kind = "vlan" => net.last + 1 = net.first + BlockSize * 32
        /\ net.kind = "local" => net.last + 1 = net.first + BlockSize * 16}

LEMMA EnosNetsAre ==
  ASSUME NEW conf \in AddrConfs
  PROVE  AddressNets(conf) \in Seq(Nets4)
<1> DEFINE ss == [r \in DOMAIN conf |-> EnosNetsOf(conf[r])]
<1>1. Len(conf) \in Nat /\ DOMAIN conf = 1..Len(conf)
  BY AddressesAssumption
<1>2. ASSUME NEW r \in DOMAIN conf PROVE EnosNetsOf(conf[r]) \in Seq(Nets4)
  <2>1. /\ conf[r].kind \in {"vlan", "local", "subnet", "default"}
        /\ conf[r].first \in Nat /\ conf[r].last \in Nat
        /\ conf[r].kind = "vlan" => conf[r].last + 1 = conf[r].first + BlockSize * 32
        /\ conf[r].kind = "local" => conf[r].last + 1 = conf[r].first + BlockSize * 16
        /\ conf[r].kind = "subnet" =>
              /\ Len(conf[r].parts) \in Nat /\ DOMAIN conf[r].parts = 1..Len(conf[r].parts)
              /\ \A p \in DOMAIN conf[r].parts : conf[r].parts[p][1] \in Nat /\ conf[r].parts[p][2] \in Nat
    BY AddressesAssumption
  <2>2. CASE conf[r].kind = "subnet"
    <3> DEFINE parts == conf[r].parts
               piece(p) == [kind |-> "subnet", first |-> parts[p][1], last |-> parts[p][2]]
    <3>1. \A p \in 1..Len(parts) : piece(p) \in Nets4
      BY <2>1, <2>2 DEF Nets4
    <3>2. EnosNetsOf(conf[r]) = [p \in 1..Len(parts) |-> piece(p)]
      BY <2>1, <2>2 DEF EnosNetsOf
    <3>3. Len(parts) \in Nat
      BY <2>1, <2>2
    <3> HIDE DEF piece, parts
    <3> QED
      BY <3>1, <3>2, <3>3
  <2>3. CASE conf[r].kind # "subnet"
    <3> DEFINE net == [kind |-> conf[r].kind, first |-> conf[r].first, last |-> conf[r].last]
    <3>1. net \in Nets4
      BY <2>1, <2>3 DEF Nets4
    <3>2. EnosNetsOf(conf[r]) = <<net>>
      BY <2>3 DEF EnosNetsOf
    <3> HIDE DEF net
    <3> QED
      BY <3>1, <3>2
  <2> QED
    BY <2>2, <2>3
<1>3. ss \in Seq(Seq(Nets4))
  BY <1>1, <1>2
<1> HIDE DEF ss
<1>4. FlattenSeq(ss) \in Seq(Nets4)
  BY <1>3, FlattenLaid
<1> QED
  BY <1>4 DEF AddressNets, ss

\* A number between two multiples of a block is in one of the blocks between them.
LEMMA BlockBetween ==
  ASSUME NEW B \in Nat \ {0}, NEW x \in Nat, NEW from \in Nat, NEW to \in Nat,
         from * B <= x, x < to * B
  PROVE  x \div B \in from..(to - 1)
<1> DEFINE q == x \div B
           r == x % B
<1>1. q \in Nat /\ r \in 0..(B - 1) /\ x = B * q + r
  BY Division
<1> HIDE DEF q, r
<1>2. CASE q < from
  <2> DEFINE d == from - q - 1
  <2>1. d \in Nat /\ from = q + 1 + d
    BY <1>1, <1>2
  <2> HIDE DEF d
  <2>2. from * B = q * B + B + d * B /\ d * B \in Nat /\ q * B = B * q
    BY <1>1, <2>1
  <2>3. B * q \in Nat
    BY <1>1
  <2> QED
    BY <1>1, <2>2, <2>3
<1>3. CASE q >= to
  <2> DEFINE d == q - to
  <2>1. d \in Nat /\ q = to + d
    BY <1>1, <1>3
  <2> HIDE DEF d
  <2>2. B * q = to * B + d * B /\ d * B \in Nat /\ to * B \in Nat
    BY <1>1, <2>1
  <2> QED
    BY <1>1, <2>2
<1> QED
  BY <1>1, <1>2, <1>3 DEF q

\* What is drawn is in the pool of its network, and has its mac.
AddrIInv ==
    /\ addrConf \in AddrConfs
    /\ taking \in [of : 0..Len(EnosNets), given : 0..MaxTaken]
    /\ \A d \in taken :
          /\ d.net \in 1..Len(EnosNets)
          /\ \E k \in 0..MaxTaken : d.ip = IpPool(EnosNets[d.net]).first + k
          /\ d.ip <= IpPool(EnosNets[d.net]).last
          /\ d.mac = MacOf(EnosNets[d.net], d.ip)

LEMMA AddrInitOK == AddrInit => AddrIInv
<1> SUFFICES ASSUME AddrInit PROVE AddrIInv
  OBVIOUS
<1>1. addrConf \in AddrConfs /\ taking = NotTaking /\ taken = {}
  BY DEF AddrInit
<1>2. EnosNets \in Seq(Nets4)
  BY <1>1, EnosNetsAre DEF EnosNets
<1>3. Len(EnosNets) \in Nat /\ MaxTaken \in Nat
  BY <1>2, AddressesAssumption
<1>4. taking \in [of : 0..Len(EnosNets), given : 0..MaxTaken]
  BY <1>1, <1>3 DEF NotTaking
<1> QED
  BY <1>1, <1>4 DEF AddrIInv

LEMMA AddrStepOK == AddrIInv /\ [AddrNext]_addrVars => AddrIInv'
<1> SUFFICES ASSUME AddrIInv, [AddrNext]_addrVars PROVE AddrIInv'
  OBVIOUS
<1>1. EnosNets \in Seq(Nets4) /\ MaxTaken \in Nat
  BY EnosNetsAre, AddressesAssumption DEF AddrIInv, EnosNets
<1>2. Len(EnosNets) \in Nat /\ DOMAIN EnosNets = 1..Len(EnosNets)
  BY <1>1
<1>3. UNCHANGED addrConf => EnosNets' = EnosNets
  BY DEF EnosNets
<1>4. CASE OpenPool
  <2>1. UNCHANGED <<addrConf, taken>> /\ \E n \in 1..Len(EnosNets) : taking' = [of |-> n, given |-> 0]
    BY <1>2, <1>4 DEF OpenPool
  <2>2. taking' \in [of : 0..Len(EnosNets), given : 0..MaxTaken]
    BY <1>1, <1>2, <2>1
  <2> QED
    BY <1>3, <2>1, <2>2 DEF AddrIInv
<1>5. CASE TakeAddress
  <2> DEFINE net == EnosNets[taking.of]
             ip == IpPool(net).first + taking.given
             new == [net |-> taking.of, ip |-> ip, mac |-> MacOf(net, ip)]
  <2>1. /\ UNCHANGED addrConf /\ taking.of # 0 /\ taking.given < MaxTaken
        /\ ip <= IpPool(net).last
        /\ taking' = [taking EXCEPT !.given = @ + 1] /\ taken' = taken \cup {new}
    BY <1>5 DEF TakeAddress
  <2>2. taking.of \in 1..Len(EnosNets) /\ taking.given \in 0..MaxTaken
    BY <1>1, <1>2, <2>1 DEF AddrIInv
  <2>3. taking' \in [of : 0..Len(EnosNets), given : 0..MaxTaken]
    BY <1>1, <1>2, <2>1 DEF AddrIInv
  <2>4. new.net = taking.of /\ new.ip = ip /\ new.mac = MacOf(net, ip)
    OBVIOUS
  <2> HIDE DEF new
  <2> QED
    BY <1>3, <2>1, <2>2, <2>3, <2>4 DEF AddrIInv
<1>6. CASE UNCHANGED addrVars
  BY <1>3, <1>6 DEF AddrIInv, addrVars
<1> QED
  BY <1>4, <1>5, <1>6 DEF AddrNext

\* An address of a pool is one of its network, in the blocks that are free.
LEMMA PoolIsFree ==
  ASSUME NEW net \in Nets4, NEW ip, NEW k \in Nat, ip = IpPool(net).first + k, ip <= IpPool(net).last
  PROVE  /\ ip \in net.first..net.last
         /\ net.kind = "vlan" => (ip - net.first) \div BlockSize \in 12..30
         /\ net.kind = "local" => (ip - net.first) \div BlockSize \in 1..14
         /\ net.kind = "subnet" => ip \notin {net.first, net.last}
<1>1. /\ BlockSize \in Nat \ {0} /\ net.first \in Nat /\ net.last \in Nat
      /\ net.kind \in {"vlan", "local", "subnet", "default"}
  BY AddressesAssumption DEF Nets4
<1>2. CASE net.kind = "vlan"
  <2>1. /\ net.last + 1 = net.first + BlockSize * 32
        /\ ip = net.first + 13 * BlockSize + k /\ ip <= net.first + 31 * BlockSize - 1
    BY <1>2 DEF Nets4, IpPool, VlanPool, BlockRange
  <2>2. ip - net.first \in Nat /\ 13 * BlockSize <= ip - net.first /\ ip - net.first < 31 * BlockSize
    BY <1>1, <2>1
  <2>3. (ip - net.first) \div BlockSize \in 13..(31 - 1)
    BY <1>1, <2>2, BlockBetween
  <2>4. (ip - net.first) \div BlockSize \in 12..30
    BY <2>3
  <2> QED
    BY <1>1, <1>2, <2>1, <2>4
<1>3. CASE net.kind = "local"
  <2>1. /\ net.last + 1 = net.first + BlockSize * 16
        /\ ip = net.first + 4 * BlockSize + k /\ ip <= net.first + 7 * BlockSize - 1
    BY <1>3 DEF Nets4, IpPool, VlanPool, BlockRange
  <2>2. ip - net.first \in Nat /\ 4 * BlockSize <= ip - net.first /\ ip - net.first < 7 * BlockSize
    BY <1>1, <2>1
  <2>3. (ip - net.first) \div BlockSize \in 4..(7 - 1)
    BY <1>1, <2>2, BlockBetween
  <2>4. (ip - net.first) \div BlockSize \in 1..14
    BY <2>3
  <2> QED
    BY <1>1, <1>3, <2>1, <2>4
<1>4. CASE net.kind = "subnet"
  <2>1. ip = net.first + 1 + k /\ ip <= net.last - 1
    BY <1>4 DEF IpPool, SubnetPool
  <2> QED
    BY <1>1, <1>4, <2>1
<1>5. CASE net.kind = "default"
  <2>1. ip = net.first + k /\ ip <= net.last - 1
    BY <1>5 DEF IpPool, DefaultPool
  <2> QED
    BY <1>1, <1>5, <2>1
<1> QED
  BY <1>1, <1>2, <1>3, <1>4, <1>5

\* Between two addresses with the same first byte, that byte is the same.
LEMMA SameByte ==
  ASSUME NEW B \in Nat \ {0}, NEW a \in Nat, NEW b \in Nat, NEW x \in Nat,
         a <= x, x <= b, a \div B = b \div B
  PROVE  x \div B = a \div B
<1> DEFINE q == a \div B
<1>1. q \in Nat /\ a = B * q + (a % B) /\ a % B \in 0..(B - 1)
      /\ b = B * q + (b % B) /\ b % B \in 0..(B - 1)
  <2>1. q \in Nat /\ a = B * q + (a % B) /\ a % B \in 0..(B - 1)
    BY Division
  <2>2. b = B * (b \div B) + (b % B) /\ b % B \in 0..(B - 1)
    BY Division
  <2> QED
    BY <2>1, <2>2
<1> HIDE DEF q
<1>2. q * B <= x /\ x < (q + 1) * B
  <2>1. (q + 1) * B = B * q + B /\ q * B = B * q /\ B * q \in Nat
    BY <1>1
  <2> QED
    BY <1>1, <2>1
<1>3. q + 1 \in Nat
  BY <1>1
<1>4. x \div B \in q..((q + 1) - 1)
  BY <1>1, <1>2, <1>3, BlockBetween
<1> QED
  BY <1>1, <1>4 DEF q

LEMMA AddrFree == AddrIInv => AddressesFree
<1> SUFFICES ASSUME AddrIInv PROVE AddressesFree
  OBVIOUS
<1> DEFINE N == Len(EnosNets)
<1>1. EnosNets \in Seq(Nets4) /\ addrConf \in AddrConfs
  BY EnosNetsAre DEF AddrIInv, EnosNets
<1>2. N \in Nat /\ DOMAIN EnosNets = 1..N /\ \A n \in 1..N : EnosNets[n] \in Nets4
  BY <1>1
<1>3. \A m, n \in 1..N :
        /\ m # n /\ "default" \notin {EnosNets[m].kind, EnosNets[n].kind} =>
              EnosNets[m].last < EnosNets[n].first \/ EnosNets[n].last < EnosNets[m].first
        /\ EnosNets[m].kind = "subnet" /\ EnosNets[n].kind = "subnet" =>
              EnosNets[m].first \div ThreeBytes = EnosNets[n].last \div ThreeBytes
  BY <1>1, <1>2, AddressesAssumption DEF EnosNets
<1> HIDE DEF N
<1>4. ASSUME NEW d \in taken
      PROVE  /\ d.net \in 1..N /\ EnosNets[d.net] \in Nets4
             /\ d.ip \in EnosNets[d.net].first..EnosNets[d.net].last
             /\ EnosNets[d.net].kind = "vlan" => BlockOf(d) \in 12..30
             /\ EnosNets[d.net].kind = "local" => BlockOf(d) \in 1..14
             /\ EnosNets[d.net].kind = "subnet" => d.ip \notin {EnosNets[d.net].first, EnosNets[d.net].last}
             /\ d.mac = MacOf(EnosNets[d.net], d.ip)
  <2>1. d.net \in 1..N /\ EnosNets[d.net] \in Nets4 /\ d.mac = MacOf(EnosNets[d.net], d.ip)
    BY <1>2 DEF AddrIInv, N
  <2>2. PICK k \in 0..MaxTaken : d.ip = IpPool(EnosNets[d.net]).first + k
    BY DEF AddrIInv
  <2>3. d.ip <= IpPool(EnosNets[d.net]).last
    BY DEF AddrIInv
  <2> QED
    BY <2>1, <2>2, <2>3, PoolIsFree DEF BlockOf
<1>5. \A n \in 1..N : EnosNets[n].first \in Nat /\ EnosNets[n].last \in Nat
  BY <1>2 DEF Nets4
<1>6. \A d \in taken : d.ip \in Nat
  BY <1>4, <1>5
<1>7. ThreeBytes \in Nat \ {0}
  BY DEF ThreeBytes
<1>8. ASSUME NEW d \in taken, NEW e \in taken, <<>> \notin {d.mac, e.mac}
      PROVE  d.mac = e.mac <=> d.ip = e.ip
  <2>1. EnosNets[d.net].kind = "subnet" /\ EnosNets[e.net].kind = "subnet"
    BY <1>4, <1>8 DEF MacOf
  <2>2. d.mac = <<"00:16:3E", d.ip % ThreeBytes>> /\ e.mac = <<"00:16:3E", e.ip % ThreeBytes>>
    BY <1>4, <2>1 DEF MacOf
  <2>3. d.mac = e.mac <=> d.ip % ThreeBytes = e.ip % ThreeBytes
    BY <2>2
  <2>4. /\ EnosNets[d.net].first \div ThreeBytes = EnosNets[d.net].last \div ThreeBytes
        /\ EnosNets[e.net].first \div ThreeBytes = EnosNets[e.net].last \div ThreeBytes
        /\ EnosNets[d.net].first \div ThreeBytes = EnosNets[e.net].last \div ThreeBytes
    BY <1>3, <1>4, <2>1
  <2>5. d.ip \div ThreeBytes = EnosNets[d.net].first \div ThreeBytes
    <3>1. EnosNets[d.net].first <= d.ip /\ d.ip <= EnosNets[d.net].last
      BY <1>4, <1>5, <1>6
    <3> QED
      BY <1>4, <1>5, <1>6, <1>7, <2>4, <3>1, SameByte
  <2>6. e.ip \div ThreeBytes = EnosNets[e.net].first \div ThreeBytes
    <3>1. EnosNets[e.net].first <= e.ip /\ e.ip <= EnosNets[e.net].last
      BY <1>4, <1>5, <1>6
    <3> QED
      BY <1>4, <1>5, <1>6, <1>7, <2>4, <3>1, SameByte
  <2>7. d.ip = ThreeBytes * (d.ip \div ThreeBytes) + (d.ip % ThreeBytes)
    BY <1>6, <1>7, Division
  <2>8. e.ip = ThreeBytes * (e.ip \div ThreeBytes) + (e.ip % ThreeBytes)
    BY <1>6, <1>7, Division
  <2>9. d.ip \div ThreeBytes = e.ip \div ThreeBytes
    BY <2>4, <2>5, <2>6
  <2>10. d.ip % ThreeBytes = e.ip % ThreeBytes => d.ip = e.ip
    BY <2>7, <2>8, <2>9
  <2> QED
    BY <2>3, <2>10
<1>9. ASSUME NEW d \in taken, NEW e \in taken, d.net # e.net,
             "default" \notin {EnosNets[d.net].kind, EnosNets[e.net].kind}
      PROVE  d.ip # e.ip
  <2>1. EnosNets[d.net].last < EnosNets[e.net].first \/ EnosNets[e.net].last < EnosNets[d.net].first
    BY <1>3, <1>4, <1>9
  <2> QED
    BY <1>4, <1>5, <1>6, <2>1
<1> QED
  BY <1>4, <1>8, <1>9 DEF AddressesFree

LEMMA AddrTypes == AddrIInv => AddrTypeOK
<1> SUFFICES ASSUME AddrIInv PROVE AddrTypeOK
  OBVIOUS
<1>1. EnosNets \in Seq(Nets4)
  BY EnosNetsAre DEF AddrIInv, EnosNets
<1>2. DOMAIN EnosNets = 1..Len(EnosNets)
  BY <1>1
<1> QED
  BY <1>2 DEF AddrIInv, AddrTypeOK

-----------------------------------------------------------------------------
(* FIT IoT-LAB *)

\* Boards that make shares of what is asked for.
AsShared(nodes) == \E t \in Shares(Boards) : nodes = UNION {t[g] : g \in Groupings}

JobOK(e) ==
    /\ e.flashed \subseteq e.nodes
    /\ e.state = "waiting" => e.flashed = {}
    /\ e.state = "running" => AsShared(e.nodes)

\* What a process that was initialised once has picked, from the boards of its experiment.
HandedOut(p) ==
    /\ experiments[p.job].state # "waiting"
    /\ p.boards \in Picked(experiments[p.job].nodes)

UserOK(u) ==
    LET p == proc[u] IN
    /\ p.inits \in Nat /\ p.job \in 0..Len(experiments)
    /\ p.known \subseteq iotConf.profiles /\ p.todo \subseteq iotConf.profiles
    /\ p.status = {} \/ \E w \in Worlds : p.status = {w}
    /\ p.inits = 0 => p.boards = <<>> /\ p.at \notin InitSteps \cup {"ready"}
    /\ p.inits = 1 /\ p.at \in {"profiles", "reserve", "submit", "wait"} => p.boards = <<>>
    /\ p.at \in {"wait", "flash", "ready"} => p.job \in DOMAIN experiments
    /\ p.inits = 1 /\ p.at \in {"flash", "ready"} => HandedOut(p)
    /\ p.inits = 1 /\ p.at = "ready" => Sensors(u) \subseteq experiments[p.job].flashed

\* The last answer is about the status that was read.
AnswerOK ==
    answer.seen = {} \/ \E w \in Worlds : answer.seen = {w} /\ answer.ok = SlotIsOk(w, answer.at) /\ answer.at \in Nat

IotHeld ==
    /\ iotConf \in IotConfs /\ world \in Worlds /\ profiles \subseteq iotConf.profiles
    /\ iotCalls \in 0..MaxIotCalls
    /\ \A i \in DOMAIN experiments : JobOK(experiments[i])
    /\ \A u \in Users : UserOK(u)
    /\ AnswerOK

\* The configuration, in one place.
IotConfOK ==
    /\ Len(iotConf.machines) \in Nat \ {0} /\ Groupings = 1..Len(iotConf.machines)
    /\ iotConf.sort \in {"board", "phys"}
    /\ iotConf.sort = "board" => \A g \in Groupings : Group(g).number \in Nat
    /\ iotConf.sort = "phys" => (\A g \in Groupings : Group(g).hostname \in Seq(Boards)) /\ NamedOnce(iotConf.machines)

LEMMA IotConfIs == ASSUME iotConf \in IotConfs PROVE IotConfOK
<1>1. /\ Len(iotConf.machines) \in Nat /\ DOMAIN iotConf.machines = 1..Len(iotConf.machines)
      /\ iotConf.sort \in {"board", "phys"} /\ iotConf.machines # <<>>
      /\ iotConf.sort = "board" => \A g \in DOMAIN iotConf.machines : iotConf.machines[g].number \in Nat
      /\ iotConf.sort = "phys" =>
            /\ \A g \in DOMAIN iotConf.machines : iotConf.machines[g].hostname \in Seq(Boards)
            /\ NamedOnce(iotConf.machines)
  BY IotlabAssumption
<1> QED
  BY <1>1 DEF IotConfOK, Groupings, Group

\* Two families of sets that are disjoint and have the same union: when none of the sets of
\* the first is larger than that of the second, they have the same sizes.
Below(s, m) == UNION {s[i] : i \in 1..m}
LEMMA SizesAgree ==
  ASSUME NEW n \in Nat, NEW B, IsFiniteSet(B), NEW s \in [1..n -> SUBSET B], NEW t \in [1..n -> SUBSET B],
         \A i, j \in 1..n : i # j => s[i] \cap s[j] = {} /\ t[i] \cap t[j] = {},
         \A i \in 1..n : Cardinality(s[i]) <= Cardinality(t[i]),
         Below(s, n) = Below(t, n)
  PROVE  \A i \in 1..n : Cardinality(s[i]) = Cardinality(t[i])
<1> DEFINE size(f, m) == Cardinality(Below(f, m))
           Less(m) == /\ size(s, m) <= size(t, m)
                      /\ (\E i \in 1..m : Cardinality(s[i]) < Cardinality(t[i])) => size(s, m) < size(t, m)
           T == {m \in 0..n : ~Less(m)}
<1>1. \A i \in 1..n : /\ IsFiniteSet(s[i]) /\ IsFiniteSet(t[i])
                      /\ Cardinality(s[i]) \in Nat /\ Cardinality(t[i]) \in Nat
  BY FS_Subset, FS_CardinalityType
<1>2. ASSUME NEW f \in [1..n -> SUBSET B], \A i, j \in 1..n : i # j => f[i] \cap f[j] = {}, NEW m \in 1..n
      PROVE  /\ size(f, m) = size(f, m - 1) + Cardinality(f[m])
             /\ size(f, m - 1) \in Nat /\ Cardinality(f[m]) \in Nat
  <2>1. m - 1 \in 0..n /\ 1..m = 1..(m - 1) \cup {m} /\ 1..m \subseteq 1..n /\ 1..(m - 1) \subseteq 1..n
    OBVIOUS
  <2>2. Below(f, m) = Below(f, m - 1) \cup f[m]
    BY <2>1 DEF Below
  <2>3. Below(f, m - 1) \cap f[m] = {}
    <3>1. \A i \in 1..(m - 1) : i \in 1..n /\ i # m
      BY <2>1
    <3> QED
      BY <1>2, <3>1 DEF Below
  <2>4. Below(f, m - 1) \in SUBSET B /\ f[m] \in SUBSET B
    BY <2>1 DEF Below
  <2>5. /\ IsFiniteSet(Below(f, m - 1)) /\ IsFiniteSet(f[m])
        /\ Cardinality(Below(f, m - 1)) \in Nat /\ Cardinality(f[m]) \in Nat
    BY <2>4, FS_Subset, FS_CardinalityType
  <2>6. Cardinality(Below(f, m - 1) \cap f[m]) = 0
    BY <2>3, FS_EmptySet
  <2>7. Cardinality(Below(f, m - 1) \cup f[m])
          = Cardinality(Below(f, m - 1)) + Cardinality(f[m]) - Cardinality(Below(f, m - 1) \cap f[m])
    BY <2>5, FS_Union
  <2> QED
    BY <2>2, <2>5, <2>6, <2>7
<1>3. Less(0)
  <2>1. 1..0 = {}
    OBVIOUS
  <2>2. Below(s, 0) = {} /\ Below(t, 0) = {}
    BY <2>1 DEF Below
  <2>3. size(s, 0) = 0 /\ size(t, 0) = 0
    BY <2>2, FS_EmptySet
  <2> HIDE DEF size
  <2> QED
    BY <2>1, <2>3
<1>4. ASSUME T # {} PROVE FALSE
  <2>1. T \in SUBSET Nat
    OBVIOUS
  <2>2. PICK m \in T : \A k \in T : m <= k
    <3> HIDE DEF T
    <3> QED
      BY <1>4, <2>1, FirstPosition
  <2>3. m \in 1..n /\ ~Less(m) /\ m - 1 \in 0..n /\ m - 1 \notin T
    <3>1. m \in 0..n /\ ~Less(m)
      OBVIOUS
    <3>2. m # 0
      BY <1>3, <3>1
    <3> HIDE DEF T, Less
    <3> QED
      BY <2>2, <3>1, <3>2
  <2>4. Less(m - 1)
    BY <2>3
  <2>5. /\ size(s, m) = size(s, m - 1) + Cardinality(s[m]) /\ size(s, m - 1) \in Nat
        /\ size(t, m) = size(t, m - 1) + Cardinality(t[m]) /\ size(t, m - 1) \in Nat
    BY <1>2, <2>3
  <2>6. Cardinality(s[m]) \in Nat /\ Cardinality(t[m]) \in Nat /\ Cardinality(s[m]) <= Cardinality(t[m])
    BY <1>1, <2>3
  <2> HIDE DEF size, T
  <2>7. size(s, m) <= size(t, m)
    BY <2>4, <2>5, <2>6
  <2>8. ASSUME NEW i \in 1..m, Cardinality(s[i]) < Cardinality(t[i]) PROVE size(s, m) < size(t, m)
    <3>1. CASE i = m
      BY <2>4, <2>5, <2>6, <2>8, <3>1
    <3>2. CASE i # m
      <4>1. i \in 1..(m - 1)
        BY <2>3, <3>2
      <4>2. size(s, m - 1) < size(t, m - 1)
        BY <2>4, <2>8, <4>1
      <4> QED
        BY <2>5, <2>6, <4>2
    <3> QED
      BY <3>1, <3>2
  <2> QED
    BY <2>3, <2>7, <2>8
<1>5. Less(n)
  <2>1. n \in 0..n
    OBVIOUS
  <2> QED
    BY <1>4, <2>1
<1>6. size(s, n) = size(t, n)
  OBVIOUS
<1>7. size(s, n) \in Nat
  <2>1. Below(s, n) \in SUBSET B
    BY DEF Below
  <2> QED
    BY <2>1, FS_Subset, FS_CardinalityType
<1> HIDE DEF size
<1> QED
  BY <1>1, <1>5, <1>6, <1>7

\* What the groups have picked, when nothing is left, is what they ask for.
LEMMA PickedIs ==
  ASSUME NEW nodes, NEW s \in Picked(nodes)
  PROVE  /\ s \in [Groupings -> SUBSET nodes] /\ UNION ToSet(s) = nodes
         /\ \A g \in Groupings : s[g] \in Pick(nodes \ UNION {s[h] : h \in 1..(g - 1)}, g)
<1>1. PICK to \in [nodes -> Groupings] : s = [g \in Groupings |-> {b \in nodes : to[b] = g}]
  BY DEF Picked
<1>2. s \in [Groupings -> SUBSET nodes] /\ DOMAIN s = Groupings
  BY <1>1
<1>3. UNION ToSet(s) \subseteq nodes
  BY <1>2 DEF ToSet
<1>4. ASSUME NEW b \in nodes PROVE b \in UNION ToSet(s)
  <2>1. to[b] \in Groupings
    BY <1>1
  <2>2. b \in s[to[b]]
    BY <1>1, <2>1
  <2> QED
    BY <1>2, <2>1, <2>2 DEF ToSet
<1> QED
  BY <1>2, <1>3, <1>4 DEF Picked

LEMMA PickedIsShared ==
  ASSUME IotConfOK, NEW nodes, AsShared(nodes), NEW s \in Picked(nodes)
  PROVE  [g \in Groupings |-> s[g]] \in Shares(nodes)
<1> DEFINE n == Len(iotConf.machines)
           left(g) == nodes \ UNION {s[h] : h \in 1..(g - 1)}
<1>1. n \in Nat /\ Groupings = 1..n
  BY DEF IotConfOK
<1>2. PICK t \in Shares(Boards) : nodes = UNION {t[g] : g \in Groupings}
  BY DEF AsShared
<1>3. /\ t \in [Groupings -> SUBSET Boards]
      /\ \A g, h \in Groupings : g # h => t[g] \cap t[h] = {}
      /\ iotConf.sort # "phys" => \A g \in Groupings : Cardinality(t[g]) = Group(g).number /\ \A b \in t[g] : Of(g, b)
  BY DEF Shares
<1>4. nodes \subseteq Boards /\ IsFiniteSet(Boards) /\ IsFiniteSet(nodes)
  <2>1. nodes \subseteq Boards
    BY <1>2, <1>3
  <2> QED
    BY <2>1, FS_Subset, IotlabAssumption
<1>5. /\ s \in [Groupings -> SUBSET nodes] /\ UNION ToSet(s) = nodes
      /\ \A g \in Groupings : s[g] \in Pick(left(g), g)
  BY PickedIs
<1>6. \A g \in Groupings : s[g] \subseteq left(g)
  <2> SUFFICES ASSUME NEW g \in Groupings PROVE s[g] \subseteq left(g)
    OBVIOUS
  <2>1. CASE iotConf.sort = "phys"
    BY <1>5, <2>1 DEF Pick
  <2>2. CASE iotConf.sort # "phys"
    <3>1. s[g] \subseteq Pool(left(g), g)
      BY <1>5, <2>2 DEF Pick, kSubset
    <3> HIDE DEF left
    <3> QED
      BY <3>1 DEF Pool
  <2> QED
    BY <2>1, <2>2
<1>7. \A g, h \in Groupings : g # h => s[g] \cap s[h] = {}
  <2>1. ASSUME NEW g \in 1..n, NEW h \in 1..n, h < g PROVE s[g] \cap s[h] = {}
    <3>1. h \in 1..(g - 1)
      BY <1>1, <2>1
    <3>2. s[g] \subseteq left(g)
      BY <1>1, <1>6
    <3> QED
      BY <3>1, <3>2
  <2>2. \A g, h \in 1..n : g # h => g < h \/ h < g
    BY <1>1
  <2> HIDE DEF n
  <2> QED
    BY <1>1, <2>1, <2>2
<1>8. CASE iotConf.sort = "phys"
  <2>1. \A g \in Groupings : s[g] = ToSet(Group(g).hostname)
    BY <1>5, <1>8 DEF Pick
  <2> QED
    BY <1>5, <1>7, <1>8, <2>1 DEF Shares
<1>9. CASE iotConf.sort # "phys"
  <2>0. iotConf.sort = "board" /\ \A g \in Groupings : Group(g).number \in Nat
    BY <1>9 DEF IotConfOK
  <2>1. ASSUME NEW g \in Groupings
        PROVE  Cardinality(s[g]) <= Group(g).number /\ s[g] \subseteq Pool(left(g), g)
    <3> DEFINE pool == Pool(left(g), g)
               k == IF Group(g).number < Cardinality(pool) THEN Group(g).number ELSE Cardinality(pool)
    <3>1. s[g] \in kSubset(k, pool)
      BY <1>5, <1>9 DEF Pick
    <3>2. s[g] \subseteq pool /\ Cardinality(s[g]) = k
      BY <3>1 DEF kSubset
    <3>3. pool \subseteq nodes
      <4> HIDE DEF left
      <4>1. pool \subseteq left(g)
        BY DEF Pool
      <4>2. left(g) \subseteq nodes
        BY DEF left
      <4> QED
        BY <4>1, <4>2
    <3>4. Cardinality(pool) \in Nat
      BY <1>4, <3>3, FS_Subset, FS_CardinalityType
    <3> HIDE DEF pool
    <3>5. Cardinality(s[g]) <= Group(g).number
      BY <2>0, <3>2, <3>4
    <3> QED
      BY <3>2, <3>5 DEF pool
  <2>2. \A g \in Groupings : \A b \in s[g] : Of(g, b)
    BY <2>1 DEF Pool, PoolOf, Of
  <2>3. \A g \in 1..n : Cardinality(s[g]) <= Cardinality(t[g])
    BY <1>1, <1>3, <1>9, <2>1
  <2>4. Below(s, n) = nodes /\ Below(t, n) = nodes
    <3>1. Below(t, n) = nodes
      BY <1>1, <1>2 DEF Below
    <3>2. ToSet(s) = {s[g] : g \in 1..n}
      BY <1>1, <1>5 DEF ToSet
    <3> QED
      BY <1>5, <3>1, <3>2 DEF Below
  <2>5. s \in [1..n -> SUBSET Boards] /\ t \in [1..n -> SUBSET Boards]
    BY <1>1, <1>3, <1>4, <1>5
  <2>6. \A i, j \in 1..n : i # j => s[i] \cap s[j] = {} /\ t[i] \cap t[j] = {}
    BY <1>1, <1>3, <1>7
  <2> HIDE DEF n
  <2>7. \A i \in 1..n : Cardinality(s[i]) = Cardinality(t[i])
    BY <1>1, <1>4, <2>3, <2>4, <2>5, <2>6, SizesAgree
  <2>8. \A g \in Groupings : Cardinality(s[g]) = Group(g).number
    BY <1>1, <1>3, <1>9, <2>7
  <2> QED
    BY <1>5, <1>7, <1>9, <2>2, <2>8 DEF Shares
<1> QED
  BY <1>8, <1>9

\* From a set to one that is not smaller there is an injection.
LEMMA InjectionExists ==
  ASSUME NEW S, NEW T, IsFiniteSet(S), IsFiniteSet(T), Cardinality(S) <= Cardinality(T)
  PROVE  \E f : f \in Injection(S, T)
<1>1. PICK a : a \in Bijection(1..Cardinality(S), S)
  BY FS_CardinalityType DEF ExistsBijection
<1>2. PICK b : b \in Bijection(1..Cardinality(T), T)
  BY FS_CardinalityType DEF ExistsBijection
<1>3. Cardinality(S) \in Nat /\ Cardinality(T) \in Nat
  BY FS_CardinalityType
<1>4. /\ a \in [1..Cardinality(S) -> S] /\ \A x \in S : \E i \in 1..Cardinality(S) : a[i] = x
      /\ b \in [1..Cardinality(T) -> T] /\ \A i, j \in 1..Cardinality(T) : b[i] = b[j] => i = j
  BY <1>1, <1>2 DEF Bijection, Injection, Surjection, IsInjective
<1> DEFINE place(x) == CHOOSE i \in 1..Cardinality(S) : a[i] = x
           f == [x \in S |-> b[place(x)]]
<1>5. \A x \in S : place(x) \in 1..Cardinality(S) /\ a[place(x)] = x
  BY <1>4
<1> HIDE DEF place
<1>6. \A x \in S : place(x) \in 1..Cardinality(T)
  BY <1>3, <1>5
<1>7. f \in [S -> T]
  BY <1>4, <1>6
<1>8. \A x, y \in S : f[x] = f[y] => x = y
  BY <1>4, <1>5, <1>6
<1> QED
  BY <1>7, <1>8 DEF Injection, IsInjective

\* The boards that are required are finitely many.
LEMMA RequiredIs ==
  ASSUME IotConfOK, NEW kind
  PROVE  /\ IsFiniteSet(RequiredOf(kind))
         /\ \A x : x \in RequiredOf(kind) <=>
               \E g \in Groupings : \E k \in 1..SizeOf(g) : SiteAndArchi(g) = kind /\ x = <<g, k>>
<1> DEFINE own == {g \in Groupings : SiteAndArchi(g) = kind}
           piece == [g \in own |-> {g} \X (1..SizeOf(g))]
           pieces == {{g} \X (1..SizeOf(g)) : g \in own}
<1>1. \A g \in Groupings : SizeOf(g) \in Nat
  BY DEF IotConfOK, SizeOf
<1>2. IsFiniteSet(Groupings)
  <2>1. 1 \in Int /\ Len(iotConf.machines) \in Int /\ Groupings = 1..Len(iotConf.machines)
    BY DEF IotConfOK
  <2> QED
    BY <2>1, FS_Interval
<1>3. IsFiniteSet(own)
  BY <1>2, FS_Subset
<1>4. piece \in Surjection(own, pieces)
  BY DEF Surjection
<1>5. IsFiniteSet(pieces)
  <2> HIDE DEF own, piece, pieces
  <2> QED
    BY <1>3, <1>4, FS_Surjection
<1>6. ASSUME NEW P \in pieces PROVE IsFiniteSet(P)
  <2>1. PICK g \in own : P = {g} \X (1..SizeOf(g))
    OBVIOUS
  <2>2. 1 \in Int /\ SizeOf(g) \in Int
    BY <1>1
  <2>3. IsFiniteSet(1..SizeOf(g)) /\ IsFiniteSet({g})
    BY <2>2, FS_Interval, FS_Singleton
  <2> QED
    BY <2>1, <2>3, FS_Product
<1>7. IsFiniteSet(UNION pieces)
  <2> HIDE DEF pieces
  <2> QED
    BY <1>5, <1>6, FS_UNION
<1>8. RequiredOf(kind) = UNION pieces
  BY DEF RequiredOf
<1>9. ASSUME NEW x
      PROVE  x \in UNION pieces <=>
               \E g \in Groupings : \E k \in 1..SizeOf(g) : SiteAndArchi(g) = kind /\ x = <<g, k>>
  <2>1. x \in UNION pieces <=> \E g \in own : x \in {g} \X (1..SizeOf(g))
    OBVIOUS
  <2>2. \A g : x \in {g} \X (1..SizeOf(g)) <=> \E k \in 1..SizeOf(g) : x = <<g, k>>
    OBVIOUS
  <2> QED
    BY <2>1, <2>2
<1> HIDE DEF pieces
<1> QED
  BY <1>7, <1>8, <1>9

\* Boards that are given one for one, each of its kind, are enough of every kind.
BoardPlaces == UNION {{g} \X (1..SizeOf(g)) : g \in Groupings}
GivenFrom(h, free) ==
    /\ \A g \in Groupings : \A k \in 1..SizeOf(g) : h[<<g, k>>] \in OfKind(free, SiteAndArchi(g))
    /\ \A g, i \in Groupings : \A k \in 1..SizeOf(g) : \A l \in 1..SizeOf(i) :
          h[<<g, k>>] = h[<<i, l>>] => g = i /\ k = l
Enough(free) ==
    \A kind \in {SiteAndArchi(g) : g \in Groupings} :
       Cardinality(RequiredOf(kind)) <= Cardinality(OfKind(free, kind))

LEMMA GivenIsEnough ==
  ASSUME IotConfOK, NEW free \in SUBSET Boards, NEW h, GivenFrom(h, free)
  PROVE  Enough(free)
<1> SUFFICES ASSUME NEW kind PROVE Cardinality(RequiredOf(kind)) <= Cardinality(OfKind(free, kind))
  BY DEF Enough
<1> DEFINE R == RequiredOf(kind)
           F == OfKind(free, kind)
           f == [x \in R |-> h[x]]
<1>1. \A x : x \in R <=> \E g \in Groupings : \E k \in 1..SizeOf(g) : SiteAndArchi(g) = kind /\ x = <<g, k>>
  BY RequiredIs
<1>2. IsFiniteSet(F)
  <2>1. F \in SUBSET Boards
    BY DEF OfKind
  <2> QED
    BY <2>1, FS_Subset, IotlabAssumption
<1> HIDE DEF R, F
<1>3. \A x \in R : h[x] \in F
  BY <1>1 DEF GivenFrom, F
<1>4. \A x, y \in R : h[x] = h[y] => x = y
  <2> SUFFICES ASSUME NEW x \in R, NEW y \in R, h[x] = h[y] PROVE x = y
    OBVIOUS
  <2>1. PICK g \in Groupings : \E k \in 1..SizeOf(g) : x = <<g, k>>
    BY <1>1
  <2>2. PICK k \in 1..SizeOf(g) : x = <<g, k>>
    BY <2>1
  <2>3. PICK i \in Groupings : \E l \in 1..SizeOf(i) : y = <<i, l>>
    BY <1>1
  <2>4. PICK l \in 1..SizeOf(i) : y = <<i, l>>
    BY <2>3
  <2> QED
    BY <2>2, <2>4 DEF GivenFrom
<1>5. f \in Injection(R, F)
  BY <1>3, <1>4 DEF Injection, IsInjective
<1>6. Cardinality(R) <= Cardinality(F)
  <2> HIDE DEF f
  <2> QED
    BY <1>2, <1>5, FS_Injection
<1> QED
  BY <1>6 DEF R, F

\* Conversely, when there are enough of every kind they can be shared out.
LEMMA EnoughIsShared ==
  ASSUME IotConfOK, NEW free \in SUBSET Boards, iotConf.sort = "board", Enough(free)
  PROVE  Shares(free) # {}
<1> DEFINE kinds == {SiteAndArchi(g) : g \in Groupings}
           give(kind) == CHOOSE f : f \in Injection(RequiredOf(kind), OfKind(free, kind))
           s == [g \in Groupings |-> {give(SiteAndArchi(g))[<<g, k>>] : k \in 1..SizeOf(g)}]
<1>1. ASSUME NEW kind \in kinds PROVE give(kind) \in Injection(RequiredOf(kind), OfKind(free, kind))
  <2>1. Cardinality(RequiredOf(kind)) <= Cardinality(OfKind(free, kind))
    BY DEF Enough
  <2>2. IsFiniteSet(RequiredOf(kind))
    BY RequiredIs
  <2>3. OfKind(free, kind) \in SUBSET Boards
    BY DEF OfKind
  <2>4. IsFiniteSet(OfKind(free, kind))
    BY <2>3, FS_Subset, IotlabAssumption
  <2> QED
    BY <2>1, <2>2, <2>4, InjectionExists
<1> HIDE DEF give
<1>2. ASSUME NEW g \in Groupings
      PROVE  /\ SizeOf(g) \in Nat /\ SizeOf(g) = Group(g).number /\ SiteAndArchi(g) = <<Group(g).site, Group(g).archi>>
             /\ \A k \in 1..SizeOf(g) : <<g, k>> \in RequiredOf(SiteAndArchi(g))
  <2>1. /\ SizeOf(g) \in Nat /\ SizeOf(g) = Group(g).number /\ SiteAndArchi(g) = <<Group(g).site, Group(g).archi>>
    BY DEF SizeOf, SiteAndArchi, IotConfOK
  <2>2. ASSUME NEW k \in 1..SizeOf(g) PROVE <<g, k>> \in RequiredOf(SiteAndArchi(g))
    BY RequiredIs
  <2> QED
    BY <2>1, <2>2
<1>3. ASSUME NEW g \in Groupings, NEW k \in 1..SizeOf(g)
      PROVE  /\ give(SiteAndArchi(g))[<<g, k>>] \in free
             /\ <<SiteOf[give(SiteAndArchi(g))[<<g, k>>]], ArchiOf[give(SiteAndArchi(g))[<<g, k>>]]>> = SiteAndArchi(g)
  <2>1. SiteAndArchi(g) \in kinds
    OBVIOUS
  <2>2. give(SiteAndArchi(g)) \in [RequiredOf(SiteAndArchi(g)) -> OfKind(free, SiteAndArchi(g))]
    BY <1>1, <2>1 DEF Injection, IsInjective
  <2>3. <<g, k>> \in RequiredOf(SiteAndArchi(g))
    BY <1>2
  <2>4. give(SiteAndArchi(g))[<<g, k>>] \in OfKind(free, SiteAndArchi(g))
    BY <2>2, <2>3
  <2> QED
    BY <2>4 DEF OfKind
<1>4. ASSUME NEW g \in Groupings, NEW i \in Groupings, NEW k \in 1..SizeOf(g), NEW l \in 1..SizeOf(i),
             give(SiteAndArchi(g))[<<g, k>>] = give(SiteAndArchi(i))[<<i, l>>]
      PROVE  g = i /\ k = l
  <2>1. SiteAndArchi(g) = SiteAndArchi(i)
    <3>1. SiteAndArchi(g) = <<SiteOf[give(SiteAndArchi(g))[<<g, k>>]], ArchiOf[give(SiteAndArchi(g))[<<g, k>>]]>>
      BY <1>3
    <3>2. SiteAndArchi(i) = <<SiteOf[give(SiteAndArchi(i))[<<i, l>>]], ArchiOf[give(SiteAndArchi(i))[<<i, l>>]]>>
      BY <1>3
    <3> QED
      BY <1>4, <3>1, <3>2
  <2> DEFINE kind == SiteAndArchi(g)
             f == give(kind)
  <2>2. kind \in kinds
    OBVIOUS
  <2>3. f \in Injection(RequiredOf(kind), OfKind(free, kind))
    BY <1>1, <2>2
  <2>4. <<g, k>> \in RequiredOf(kind) /\ <<i, l>> \in RequiredOf(kind)
    BY <1>2, <2>1
  <2>5. f[<<g, k>>] = f[<<i, l>>]
    BY <1>4, <2>1
  <2> HIDE DEF kind, f
  <2>6. <<g, k>> = <<i, l>>
    BY <2>3, <2>4, <2>5 DEF Injection, IsInjective
  <2> QED
    BY <2>6
<1>5. ASSUME NEW g \in Groupings
      PROVE  s[g] \subseteq free /\ Cardinality(s[g]) = Group(g).number /\ \A b \in s[g] : Of(g, b)
  <2> DEFINE f == [k \in 1..SizeOf(g) |-> give(SiteAndArchi(g))[<<g, k>>]]
             own == s[g]
  <2>1. own = {give(SiteAndArchi(g))[<<g, k>>] : k \in 1..SizeOf(g)}
    OBVIOUS
  <2>2. own \subseteq free
    BY <1>3, <2>1
  <2>3. \A b \in own : <<SiteOf[b], ArchiOf[b]>> = <<Group(g).site, Group(g).archi>>
    BY <1>2, <1>3, <2>1
  <2>4. f \in Bijection(1..SizeOf(g), own)
    <3>1. f \in [1..SizeOf(g) -> own] /\ \A b \in own : \E k \in 1..SizeOf(g) : f[k] = b
      BY <2>1
    <3>2. \A k, l \in 1..SizeOf(g) : f[k] = f[l] => k = l
      BY <1>4
    <3> HIDE DEF f, own
    <3> QED
      BY <3>1, <3>2 DEF Bijection, Injection, Surjection, IsInjective
  <2>5. 1 \in Int /\ SizeOf(g) \in Int /\ SizeOf(g) \in Nat
    BY <1>2
  <2>6. IsFiniteSet(1..SizeOf(g)) /\ Cardinality(1..SizeOf(g)) = SizeOf(g)
    BY <2>5, FS_Interval
  <2> HIDE DEF own, f
  <2>7. ExistsBijection(1..SizeOf(g), own)
    BY <2>4 DEF ExistsBijection
  <2>8. Cardinality(own) = SizeOf(g)
    BY <2>6, <2>7, FS_Bijection
  <2> QED
    BY <1>2, <2>2, <2>3, <2>8 DEF own, Of
<1>6. ASSUME NEW g \in Groupings, NEW i \in Groupings, NEW b \in s[g], b \in s[i] PROVE g = i
  <2>1. PICK k \in 1..SizeOf(g) : b = give(SiteAndArchi(g))[<<g, k>>]
    OBVIOUS
  <2>2. PICK l \in 1..SizeOf(i) : b = give(SiteAndArchi(i))[<<i, l>>]
    BY <1>6
  <2> QED
    BY <1>4, <2>1, <2>2
<1>7. s \in [Groupings -> SUBSET free]
  BY <1>5
<1> HIDE DEF s
<1>8. s \in Shares(free)
  BY <1>5, <1>6, <1>7 DEF Shares
<1> QED
  BY <1>8

\* A share gives each group its boards one for one.
LEMMA SharedIsEnough ==
  ASSUME IotConfOK, NEW free \in SUBSET Boards, iotConf.sort = "board", NEW s \in Shares(free)
  PROVE  Enough(free)
<1>1. /\ s \in [Groupings -> SUBSET free] /\ \A g, h \in Groupings : g # h => s[g] \cap s[h] = {}
      /\ \A g \in Groupings : Cardinality(s[g]) = Group(g).number /\ \A b \in s[g] : Of(g, b)
  BY DEF Shares
<1> DEFINE own(g) == CHOOSE f : f \in Bijection(1..SizeOf(g), s[g])
           h == [x \in BoardPlaces |-> own(x[1])[x[2]]]
<1>2. ASSUME NEW g \in Groupings PROVE own(g) \in Bijection(1..SizeOf(g), s[g])
  <2>1. s[g] \in SUBSET Boards
    BY <1>1
  <2>2. IsFiniteSet(s[g])
    BY <2>1, FS_Subset, IotlabAssumption
  <2>3. Cardinality(s[g]) = SizeOf(g)
    BY <1>1 DEF SizeOf
  <2>4. \E f : f \in Bijection(1..SizeOf(g), s[g])
    BY <2>2, <2>3, FS_CardinalityType DEF ExistsBijection
  <2> QED
    BY <2>4
<1> HIDE DEF own
<1>3. ASSUME NEW g \in Groupings, NEW k \in 1..SizeOf(g)
      PROVE  h[<<g, k>>] = own(g)[k] /\ h[<<g, k>>] \in s[g]
  <2>1. <<g, k>> \in BoardPlaces
    BY DEF BoardPlaces
  <2>2. own(g) \in [1..SizeOf(g) -> s[g]]
    BY <1>2 DEF Bijection, Injection, IsInjective
  <2> QED
    BY <2>1, <2>2
<1> HIDE DEF h
<1>4. \A g \in Groupings : \A k \in 1..SizeOf(g) : h[<<g, k>>] \in OfKind(free, SiteAndArchi(g))
  <2> TAKE g \in Groupings
  <2> TAKE k \in 1..SizeOf(g)
  <2>1. h[<<g, k>>] \in s[g] /\ h[<<g, k>>] \in free /\ Of(g, h[<<g, k>>])
    BY <1>1, <1>3
  <2>2. SiteAndArchi(g) = <<Group(g).site, Group(g).archi>>
    BY DEF SiteAndArchi
  <2> QED
    BY <2>1, <2>2 DEF OfKind, Of
<1>5. ASSUME NEW g \in Groupings, NEW i \in Groupings, NEW k \in 1..SizeOf(g), NEW l \in 1..SizeOf(i),
             h[<<g, k>>] = h[<<i, l>>]
      PROVE  g = i /\ k = l
  <2>1. g = i
    BY <1>1, <1>3, <1>5
  <2>2. own(g)[k] = own(g)[l]
    BY <1>3, <1>5, <2>1
  <2>3. k = l
    BY <1>2, <2>1, <2>2 DEF Bijection, Injection, IsInjective
  <2> QED
    BY <2>1, <2>3
<1>6. GivenFrom(h, free)
  BY <1>4, <1>5 DEF GivenFrom
<1> QED
  BY <1>6, GivenIsEnough

\* By hostnames: the boards that are named, when they are free.
LEMMA NamedShares ==
  ASSUME IotConfOK, NEW free \in SUBSET Boards, iotConf.sort = "phys"
  PROVE  /\ (\A g \in Groupings : ToSet(Group(g).hostname) \subseteq free) => Enough(free)
         /\ (\A g \in Groupings : ToSet(Group(g).hostname) \subseteq free) <=> Shares(free) # {}
<1> DEFINE N(g) == Group(g).hostname
           h == [x \in BoardPlaces |-> N(x[1])[x[2]]]
           s == [g \in Groupings |-> ToSet(N(g))]
<1>1. /\ \A g \in Groupings : N(g) \in Seq(Boards) /\ N(g) # <<>>
      /\ \A g, i \in Groupings : \A k \in DOMAIN N(g) : \A l \in DOMAIN N(i) : N(g)[k] = N(i)[l] => g = i /\ k = l
      /\ \A g \in Groupings : \A k, l \in DOMAIN N(g) :
            SiteOf[N(g)[k]] = SiteOf[N(g)[l]] /\ ArchiOf[N(g)[k]] = ArchiOf[N(g)[l]]
  BY DEF IotConfOK, NamedOnce, Groupings, Group
<1>2. ASSUME NEW g \in Groupings
      PROVE  /\ SizeOf(g) = Len(N(g)) /\ DOMAIN N(g) = 1..SizeOf(g) /\ 1 \in DOMAIN N(g)
             /\ ToSet(N(g)) = {N(g)[k] : k \in 1..SizeOf(g)}
             /\ SiteAndArchi(g) = <<SiteOf[N(g)[1]], ArchiOf[N(g)[1]]>>
  <2>1. N(g) \in Seq(Boards) /\ N(g) # <<>>
    BY <1>1
  <2>2. SizeOf(g) = Len(N(g))
    BY DEF SizeOf
  <2>3. SiteAndArchi(g) = <<SiteOf[N(g)[1]], ArchiOf[N(g)[1]]>>
    BY DEF SiteAndArchi
  <2> HIDE DEF N
  <2>4. DOMAIN N(g) = 1..Len(N(g)) /\ 1 \in DOMAIN N(g)
    BY <2>1
  <2> QED
    BY <2>2, <2>3, <2>4 DEF ToSet
<1> HIDE DEF N
<1>3. ASSUME \A g \in Groupings : ToSet(N(g)) \subseteq free
      PROVE  Enough(free)
  <2>1. ASSUME NEW g \in Groupings, NEW k \in 1..SizeOf(g) PROVE h[<<g, k>>] = N(g)[k]
    <3>1. <<g, k>> \in BoardPlaces
      BY DEF BoardPlaces
    <3> QED
      BY <3>1
  <2> HIDE DEF h
  <2>2. ASSUME NEW g \in Groupings, NEW k \in 1..SizeOf(g) PROVE h[<<g, k>>] \in OfKind(free, SiteAndArchi(g))
    <3>1. N(g)[k] \in free
      BY <1>2, <1>3
    <3>2. <<SiteOf[N(g)[k]], ArchiOf[N(g)[k]]>> = SiteAndArchi(g)
      BY <1>1, <1>2
    <3> QED
      BY <2>1, <3>1, <3>2 DEF OfKind
  <2>3. \A g, i \in Groupings : \A k \in 1..SizeOf(g) : \A l \in 1..SizeOf(i) :
           h[<<g, k>>] = h[<<i, l>>] => g = i /\ k = l
    BY <1>1, <1>2, <2>1
  <2>4. GivenFrom(h, free)
    BY <2>2, <2>3 DEF GivenFrom
  <2> QED
    BY <2>4, GivenIsEnough
<1>4. ASSUME \A g \in Groupings : ToSet(N(g)) \subseteq free
      PROVE  Shares(free) # {}
  <2>1. s \in [Groupings -> SUBSET free]
    BY <1>4
  <2>2. \A g, i \in Groupings : g # i => s[g] \cap s[i] = {}
    BY <1>1, <1>2
  <2>3. \A g \in Groupings : s[g] = ToSet(Group(g).hostname)
    BY DEF N
  <2> HIDE DEF s
  <2>4. s \in Shares(free)
    BY <2>1, <2>2, <2>3 DEF Shares
  <2> QED
    BY <2>4
<1>5. ASSUME NEW t \in Shares(free) PROVE \A g \in Groupings : ToSet(N(g)) \subseteq free
  <2>1. t \in [Groupings -> SUBSET free] /\ \A g \in Groupings : t[g] = ToSet(Group(g).hostname)
    BY <1>5 DEF Shares
  <2> QED
    BY <2>1 DEF N
<1> QED
  BY <1>3, <1>4, <1>5 DEF N

\* The boards that are free for a time that is not empty.
LEMMA FreeIs ==
  ASSUME NEW w \in Worlds, NEW at \in Nat
  PROVE  FreeNodes(w, at) = (Boards \ w.dead) \ UNION {e.nodes : e \in {e \in w.others :
                       \E t \in at..(at + IotWalltime - 1) : e.from <= t /\ t < e.to}}
<1>1. IotWalltime \in Nat /\ IotWalltime # 0
  BY IotlabAssumption
<1>2. ASSUME NEW e \in w.others
      PROVE  ~(at >= e.to \/ at + IotWalltime <= e.from)
               <=> \E t \in at..(at + IotWalltime - 1) : e.from <= t /\ t < e.to
  <2>1. e.from \in Nat /\ e.to \in Nat /\ e.from < e.to
    BY IotlabAssumption
  <2>2. CASE e.from <= at
    <3>1. at \in at..(at + IotWalltime - 1)
      BY <1>1
    <3> QED
      BY <1>1, <2>1, <2>2, <3>1
  <2>3. CASE e.from > at
    <3>1. at + IotWalltime > e.from => e.from \in at..(at + IotWalltime - 1)
      BY <1>1, <2>1, <2>3
    <3> QED
      BY <1>1, <2>1, <2>3, <3>1
  <2> QED
    BY <2>1, <2>2, <2>3
<1> DEFINE one == {e \in w.others : ~(at >= e.to \/ at + IotWalltime <= e.from)}
           two == {e \in w.others : \E t \in at..(at + IotWalltime - 1) : e.from <= t /\ t < e.to}
<1>3. one = two
  BY <1>2
<1>4. FreeNodes(w, at) = (Boards \ w.dead) \ UNION {e.nodes : e \in one}
  BY DEF FreeNodes, CandidatesOf
<1> HIDE DEF one
<1> QED
  BY <1>3, <1>4

LEMMA SlotExact ==
  ASSUME IotConfOK, NEW w \in Worlds, NEW at \in Nat
  PROVE  SlotIsOk(w, at) = (Shares(FreeNodes(w, at)) # {})
<1> DEFINE free == FreeNodes(w, at)
<1>1. free \in SUBSET Boards
  BY DEF FreeNodes, CandidatesOf
<1>2. SlotIsOk(w, at) <=>
        /\ iotConf.sort = "phys" => \A g \in Groupings : ToSet(Group(g).hostname) \subseteq free
        /\ Enough(free)
  BY DEF SlotIsOk, Enough
<1>3. SlotIsOk(w, at) \in BOOLEAN
  BY DEF SlotIsOk
<1> HIDE DEF free
<1> DEFINE all == \A g \in Groupings : ToSet(Group(g).hostname) \subseteq free
           some == Shares(free) # {}
           ok == SlotIsOk(w, at)
           enough == Enough(free)
<1>4. iotConf.sort = "phys" => (all => enough) /\ (all <=> some)
  BY <1>1, NamedShares
<1>5. iotConf.sort = "board" => (enough => some)
  BY <1>1, EnoughIsShared
<1>6. iotConf.sort = "board" => (some => enough)
  <2> SUFFICES ASSUME iotConf.sort = "board", some PROVE enough
    OBVIOUS
  <2>1. PICK s : s \in Shares(free)
    OBVIOUS
  <2> QED
    BY <1>1, <2>1, SharedIsEnough
<1>7. ok <=> (iotConf.sort = "phys" => all) /\ enough
  BY <1>2
<1>8. iotConf.sort = "phys" \/ iotConf.sort = "board"
  BY DEF IotConfOK
<1>9. ok \in BOOLEAN /\ some \in BOOLEAN
  BY <1>3
<1> HIDE DEF ok, enough, all, some
<1>10. ok <=> some
  BY <1>4, <1>5, <1>6, <1>7, <1>8
<1>11. ok = some
  BY <1>9, <1>10
<1> QED
  BY <1>11 DEF ok, some, free

\* What is derived from the configuration alone stays.
LEMMA IotSame ==
  ASSUME iotConf' = iotConf
  PROVE  /\ Groupings' = Groupings /\ IotConfOK' = IotConfOK
         /\ \A nodes : Picked(nodes)' = Picked(nodes) /\ AsShared(nodes)' = AsShared(nodes)
         /\ \A w, at : SlotIsOk(w, at)' = SlotIsOk(w, at)
<1>1. Groupings' = Groupings
  BY DEF Groupings
<1>2. \A g : Group(g)' = Group(g)
  BY DEF Group
<1>3. \A g, b : Of(g, b)' = Of(g, b)
  BY <1>2 DEF Of
<1>4. \A free : Shares(free)' = Shares(free)
  BY <1>1, <1>2, <1>3 DEF Shares
<1>5. \A left, g : Pick(left, g)' = Pick(left, g)
  BY <1>2, <1>3 DEF Pick, Pool
<1>6. \A nodes : Picked(nodes)' = Picked(nodes)
  BY <1>1, <1>5 DEF Picked
<1>7. \A nodes : AsShared(nodes)' = AsShared(nodes)
  BY <1>1, <1>4 DEF AsShared
<1>8. \A g : SiteAndArchi(g)' = SiteAndArchi(g) /\ SizeOf(g)' = SizeOf(g)
  BY <1>2 DEF SiteAndArchi, SizeOf
<1>9. \A kind : RequiredOf(kind)' = RequiredOf(kind)
  BY <1>1, <1>8 DEF RequiredOf
<1>10. \A w, at : SlotIsOk(w, at)' = SlotIsOk(w, at)
  BY <1>1, <1>2, <1>8, <1>9 DEF SlotIsOk
<1>11. IotConfOK' = IotConfOK
  BY <1>1, <1>2 DEF IotConfOK, NamedOnce
<1> QED
  BY <1>1, <1>6, <1>7, <1>10, <1>11

\* Experiments are only added; the boards of one that has started stay, and those
\* that were flashed.
Grown ==
    /\ iotConf' = iotConf
    /\ DOMAIN experiments = 1..Len(experiments) /\ DOMAIN experiments' = 1..Len(experiments')
    /\ Len(experiments) \in Nat /\ Len(experiments') \in Nat /\ Len(experiments) <= Len(experiments')
    /\ \A i \in DOMAIN experiments :
          /\ experiments[i].flashed \subseteq experiments'[i].flashed
          /\ experiments[i].state # "waiting" =>
                experiments'[i].state # "waiting" /\ experiments'[i].nodes = experiments[i].nodes

\* A process keeps what it is about, whatever others do.
KeptOwn(u) ==
    /\ proc'[u].at = proc[u].at /\ proc'[u].job = proc[u].job /\ proc'[u].boards = proc[u].boards
    /\ proc'[u].known = proc[u].known /\ proc'[u].todo = proc[u].todo
    /\ proc'[u].status = proc[u].status /\ proc'[u].inits = proc[u].inits

LEMMA BoardsStay ==
  ASSUME Grown, NEW u \in Users, proc'[u].job = proc[u].job, proc'[u].boards = proc[u].boards,
         proc[u].job \in DOMAIN experiments
  PROVE  /\ HandedOut(proc[u]) => HandedOut(proc[u])'
         /\ Sensors(u)' = Sensors(u)
         /\ Sensors(u) \subseteq experiments[proc[u].job].flashed => Sensors(u)' \subseteq experiments'[proc[u].job].flashed
<1>1. \A nodes : Picked(nodes)' = Picked(nodes)
  BY IotSame DEF Grown
<1>2. Sensors(u)' = Sensors(u)
  BY DEF Sensors, GroupAt, Group, Grown
<1>3. HandedOut(proc[u]) => HandedOut(proc[u])'
  BY <1>1 DEF HandedOut, Grown
<1> QED
  BY <1>2, <1>3 DEF Grown

LEMMA UserKept ==
  ASSUME Grown, NEW u \in Users, KeptOwn(u), UserOK(u)
  PROVE  UserOK(u)'
<1>1. proc[u].job \in 0..Len(experiments) => proc'[u].job \in 0..Len(experiments')
  BY DEF Grown, KeptOwn
<1>2. proc[u].job \in DOMAIN experiments => proc'[u].job \in DOMAIN experiments'
  BY DEF Grown, KeptOwn
<1>3. proc[u].job \in DOMAIN experiments /\ HandedOut(proc[u]) => HandedOut(proc[u])'
  BY BoardsStay DEF KeptOwn
<1>4. proc[u].job \in DOMAIN experiments /\ Sensors(u) \subseteq experiments[proc[u].job].flashed
        => Sensors(u)' \subseteq experiments'[proc'[u].job].flashed
  BY BoardsStay DEF KeptOwn
<1> QED
  BY <1>1, <1>2, <1>3, <1>4 DEF UserOK, KeptOwn, Grown

\* What the invariant of the release knows of the data.
IotShape ==
    /\ \E Q : experiments \in Seq(ExperimentSet(Q))
    /\ DOMAIN proc = Users /\ \A u \in Users : DOMAIN proc[u] = ProcessFields

LEMMA GrownSame ==
  ASSUME IotShape, IotHeld, UNCHANGED <<iotConf, experiments>>
  PROVE  Grown /\ \A i \in DOMAIN experiments' : JobOK(experiments[i])'
<1>1. DOMAIN experiments = 1..Len(experiments) /\ Len(experiments) \in Nat
  BY DEF IotShape
<1>2. Grown
  BY <1>1 DEF Grown
<1>3. \A nodes : AsShared(nodes)' = AsShared(nodes)
  BY IotSame
<1> QED
  BY <1>2, <1>3 DEF IotHeld, JobOK

\* An experiment that changes.
LEMMA GrownWith ==
  ASSUME IotShape, IotHeld, UNCHANGED iotConf, NEW i \in DOMAIN experiments, NEW e,
         experiments' = [experiments EXCEPT ![i] = e],
         experiments[i].flashed \subseteq e.flashed, JobOK(e),
         experiments[i].state # "waiting" => e.state # "waiting" /\ e.nodes = experiments[i].nodes
  PROVE  Grown /\ experiments'[i] = e /\ \A j \in DOMAIN experiments' : JobOK(experiments[j])'
<1>1. /\ DOMAIN experiments = 1..Len(experiments) /\ Len(experiments) \in Nat
      /\ DOMAIN experiments' = DOMAIN experiments /\ Len(experiments') = Len(experiments)
      /\ \A j \in DOMAIN experiments : j # i => experiments'[j] = experiments[j]
      /\ experiments'[i] = e
  <2>1. PICK Q : experiments \in Seq(ExperimentSet(Q))
    BY DEF IotShape
  <2>2. experiments \in [1..Len(experiments) -> ExperimentSet(Q)] /\ Len(experiments) \in Nat
    BY <2>1
  <2>3. experiments' \in [1..Len(experiments) -> ExperimentSet(Q) \cup {e}]
    BY <2>2
  <2>4. experiments' \in Seq(ExperimentSet(Q) \cup {e}) /\ Len(experiments') = Len(experiments)
    BY <2>2, <2>3
  <2> QED
    BY <2>2, <2>3, <2>4
<1>2. Grown
  BY <1>1 DEF Grown
<1>3. \A nodes : AsShared(nodes)' = AsShared(nodes)
  BY IotSame
<1>4. \A j \in DOMAIN experiments' : j # i => JobOK(experiments[j])'
  BY <1>1, <1>3 DEF IotHeld, JobOK
<1>5. JobOK(experiments[i])'
  BY <1>1, <1>3 DEF JobOK
<1> QED
  BY <1>1, <1>2, <1>4, <1>5

\* A step of one process.
LEMMA HeldBy ==
  ASSUME IotShape, IotHeld, Grown, \A i \in DOMAIN experiments' : JobOK(experiments[i])', NEW u \in Users, UserOK(u)',
         NEW p, proc' = [proc EXCEPT ![u] = p],
         UNCHANGED world, profiles' \subseteq iotConf.profiles, iotCalls' \in 0..MaxIotCalls, AnswerOK'
  PROVE  IotHeld'
<1>1. \A v \in Users : v # u => proc'[v] = proc[v]
  BY DEF IotShape
<1>2. \A v \in Users : v # u => UserOK(v)'
  BY <1>1, UserKept DEF IotHeld, KeptOwn
<1> QED
  BY <1>2 DEF IotHeld, Grown

LEMMA AnswerStays ==
  ASSUME IotHeld, UNCHANGED <<iotConf, answer>>
  PROVE  AnswerOK'
<1>1. \A w, at : SlotIsOk(w, at)' = SlotIsOk(w, at)
  BY IotSame
<1> QED
  BY <1>1 DEF IotHeld, AnswerOK

LEMMA HeldInitially == IotInit => IotHeld
<1> SUFFICES ASSUME IotInit PROVE IotHeld
  OBVIOUS
<1>0. MaxIotCalls \in Nat
  BY IotlabAssumption
<1>1. /\ iotConf \in IotConfs /\ world \in Worlds /\ profiles \subseteq iotConf.profiles
      /\ iotCalls \in 0..MaxIotCalls
  BY <1>0 DEF IotInit
<1>2. DOMAIN experiments = {} /\ Len(experiments) = 0
  BY DEF IotInit
<1>3. \A u \in Users : UserOK(u)
  <2> SUFFICES ASSUME NEW u \in Users PROVE UserOK(u)
    OBVIOUS
  <2>1. proc[u] = NewProcess
    BY DEF IotInit
  <2> QED
    BY <1>2, <2>1 DEF UserOK, NewProcess, InitSteps
<1>4. AnswerOK
  BY DEF IotInit, AnswerOK, NoAnswer
<1> QED
  BY <1>1, <1>2, <1>3, <1>4 DEF IotHeld

LEMMA ProfilesHeld ==
  ASSUME IotShape, IotHeld, NEW u \in Users, CreateProfile(u) \/ Lookup(u)
  PROVE  IotHeld'
<1>1. /\ UNCHANGED <<iotConf, world, experiments, answer, iotCalls>>
      /\ proc[u].at \in {"profiles", "reserve"}
  BY DEF CreateProfile, Lookup
<1>2. Grown /\ (\A i \in DOMAIN experiments' : JobOK(experiments[i])') /\ AnswerOK'
  BY <1>1, GrownSame, AnswerStays
<1>3. proc[u].at \in InitSteps /\ UserOK(u) /\ proc[u].todo \subseteq iotConf.profiles
  BY <1>1 DEF InitSteps, IotHeld, UserOK
<1>4. PICK p : /\ proc' = [proc EXCEPT ![u] = p] /\ DOMAIN p = ProcessFields
               /\ p.at \in {"profiles", "reserve", "submit", "wait"}
               /\ p.at = "wait" => p.job \in DOMAIN experiments
               /\ p.job \in 0..Len(experiments) /\ p.boards = proc[u].boards /\ p.status = proc[u].status
               /\ p.inits = proc[u].inits
               /\ p.known \subseteq iotConf.profiles /\ p.todo \subseteq iotConf.profiles
  <2>0. DOMAIN proc[u] = ProcessFields /\ u \in DOMAIN proc
    BY DEF IotShape
  <2>1. proc[u].job \in 0..Len(experiments) /\ proc[u].known \subseteq iotConf.profiles
    BY <1>3 DEF UserOK
  <2>2. CASE CreateProfile(u)
    <3>1. CASE proc[u].todo = {}
      <4>1. proc' = [proc EXCEPT ![u] = [proc[u] EXCEPT !.at = "reserve"]]
        BY <2>0, <2>2, <3>1 DEF CreateProfile, To
      <4> DEFINE p == [proc[u] EXCEPT !.at = "reserve"]
      <4>2. /\ DOMAIN p = ProcessFields /\ p.at = "reserve" /\ p.job = proc[u].job /\ p.boards = proc[u].boards
            /\ p.status = proc[u].status /\ p.inits = proc[u].inits /\ p.known = proc[u].known /\ p.todo = proc[u].todo
        BY <2>0 DEF ProcessFields
      <4>9. proc' = [proc EXCEPT ![u] = p]
        BY <4>1
      <4> HIDE DEF p
      <4> QED
        BY <1>3, <2>1, <4>9, <4>2
    <3>2. CASE proc[u].todo # {}
      <4>1. PICK q \in proc[u].todo :
              proc' = [proc EXCEPT ![u].known = @ \cup {q}, ![u].todo = @ \ {q}]
        BY <2>2, <3>2 DEF CreateProfile
      <4>2. proc' = [proc EXCEPT ![u] = [proc[u] EXCEPT !.known = @ \cup {q}, !.todo = @ \ {q}]]
        BY <2>0, <4>1
      <4>3. q \in iotConf.profiles
        BY <1>3
      <4>4. proc[u].at = "profiles"
        BY <2>2 DEF CreateProfile
      <4> DEFINE p == [proc[u] EXCEPT !.known = @ \cup {q}, !.todo = @ \ {q}]
      <4>5. /\ DOMAIN p = ProcessFields /\ p.at = "profiles" /\ p.job = proc[u].job /\ p.boards = proc[u].boards
            /\ p.status = proc[u].status /\ p.inits = proc[u].inits
            /\ p.known = proc[u].known \cup {q} /\ p.todo = proc[u].todo \ {q}
        BY <2>0, <4>4 DEF ProcessFields
      <4>9. proc' = [proc EXCEPT ![u] = p]
        BY <4>2
      <4> HIDE DEF p
      <4> QED
        BY <1>3, <2>1, <4>9, <4>3, <4>5
    <3> QED
      BY <3>1, <3>2
  <2>3. CASE Lookup(u)
    <3>0. Len(experiments) \in Nat /\ DOMAIN experiments = 1..Len(experiments)
      BY DEF IotShape
    <3>1. \E at \in {"submit", "wait"} : \E job \in 0..Len(experiments) :
            /\ proc' = [proc EXCEPT ![u].at = at, ![u].job = job]
            /\ at = "wait" => job \in DOMAIN experiments
      <4>1. CASE ActiveJobs = {}
        BY <2>3, <3>0, <4>1 DEF Lookup
      <4>2. CASE ActiveJobs # {}
        <5>1. PICK i \in ActiveJobs : proc' = [proc EXCEPT ![u].at = "wait", ![u].job = i]
          BY <2>3, <4>2 DEF Lookup
        <5>2. i \in DOMAIN experiments
          BY DEF ActiveJobs
        <5>3. i \in 0..Len(experiments)
          BY <3>0, <5>2
        <5> QED
          BY <5>1, <5>2, <5>3
      <4> QED
        BY <4>1, <4>2
    <3>2. PICK at \in {"submit", "wait"}, job \in 0..Len(experiments) :
            /\ proc' = [proc EXCEPT ![u].at = at, ![u].job = job]
            /\ at = "wait" => job \in DOMAIN experiments
      BY <3>1
    <3>3. proc' = [proc EXCEPT ![u] = [proc[u] EXCEPT !.at = at, !.job = job]]
      BY <2>0, <3>2
    <3> DEFINE p == [proc[u] EXCEPT !.at = at, !.job = job]
    <3>4. /\ DOMAIN p = ProcessFields /\ p.at = at /\ p.job = job /\ p.boards = proc[u].boards
          /\ p.status = proc[u].status /\ p.inits = proc[u].inits /\ p.known = proc[u].known /\ p.todo = proc[u].todo
      BY <2>0 DEF ProcessFields
    <3>9. proc' = [proc EXCEPT ![u] = p]
      BY <3>3
    <3> HIDE DEF p
    <3> QED
      BY <1>3, <2>1, <3>2, <3>9, <3>4
  <2> QED
    BY <2>2, <2>3
<1>5. proc'[u] = p
  BY <1>4 DEF IotShape
<1>6. UserOK(u)'
  BY <1>1, <1>3, <1>4, <1>5 DEF UserOK, InitSteps
<1>7. profiles' \subseteq iotConf.profiles
  <2>1. profiles' \subseteq profiles \cup proc[u].todo
    BY DEF CreateProfile, Lookup
  <2> QED
    BY <1>3, <2>1 DEF IotHeld
<1>8. iotCalls' \in 0..MaxIotCalls
  BY <1>1 DEF IotHeld
<1> QED
  BY <1>1, <1>2, <1>4, <1>6, <1>7, <1>8, HeldBy

LEMMA SubmitHeld ==
  ASSUME IotShape, IotHeld, NEW u \in Users, NEW async \in BOOLEAN, Submit(u, async)
  PROVE  IotHeld'
<1>1. UNCHANGED <<iotConf, world, profiles, answer, iotCalls>> /\ proc[u].at = "submit" /\ UserOK(u)
  BY DEF Submit, IotHeld
<1>2. AnswerOK' /\ profiles' \subseteq iotConf.profiles /\ iotCalls' \in 0..MaxIotCalls
  BY <1>1, AnswerStays DEF IotHeld
<1>0. DOMAIN experiments = 1..Len(experiments) /\ Len(experiments) \in Nat
  BY DEF IotShape
<1> DEFINE new == [state |-> "waiting", nodes |-> {}, flashed |-> {}]
<1>3. experiments' = experiments \/ experiments' = Append(experiments, new)
  BY DEF Submit
<1>4. Grown /\ \A i \in DOMAIN experiments' : JobOK(experiments[i])'
  <2>1. CASE experiments' = experiments
    BY <1>1, <2>1, GrownSame
  <2>2. CASE experiments' = Append(experiments, new)
    <3>1. PICK Q : experiments \in Seq(ExperimentSet(Q))
      BY DEF IotShape
    <3> HIDE DEF new
    <3>2. /\ Len(experiments') = Len(experiments) + 1 /\ DOMAIN experiments' = 1..(Len(experiments) + 1)
          /\ experiments'[Len(experiments) + 1] = new
          /\ \A i \in 1..Len(experiments) : experiments'[i] = experiments[i]
      BY <2>2, <3>1
    <3>3. Grown
      BY <1>0, <1>1, <3>2 DEF Grown
    <3>4. \A nodes : AsShared(nodes)' = AsShared(nodes)
      BY <1>1, IotSame
    <3>5. \A i \in 1..Len(experiments) : JobOK(experiments[i])'
      BY <1>0, <3>2, <3>4 DEF IotHeld, JobOK
    <3>6. new.state = "waiting" /\ new.flashed = {}
      BY DEF new
    <3>8. \A i \in DOMAIN experiments' : i \in 1..Len(experiments) \/ i = Len(experiments) + 1
      BY <1>0, <3>2
    <3>9. ASSUME NEW i \in DOMAIN experiments' PROVE JobOK(experiments[i])'
      <4>1. CASE i \in 1..Len(experiments)
        BY <3>5, <4>1
      <4>2. CASE i = Len(experiments) + 1
        BY <1>0, <3>2, <3>6, <4>2 DEF JobOK
      <4> QED
        BY <3>8, <4>1, <4>2
    <3> QED
      BY <3>3, <3>9
  <2> QED
    BY <1>3, <2>1, <2>2
<1>5. PICK p : /\ proc' = [proc EXCEPT ![u] = p] /\ DOMAIN p = ProcessFields
               /\ p.at \in {"raised", "idle", "wait"}
               /\ p.at = "wait" => p.job \in DOMAIN experiments'
               /\ p.job \in 0..Len(experiments') /\ p.boards = proc[u].boards /\ p.status = proc[u].status
               /\ p.inits = proc[u].inits /\ p.known = proc[u].known /\ p.todo = proc[u].todo
  <2>0. DOMAIN proc[u] = ProcessFields /\ u \in DOMAIN proc
    BY DEF IotShape
  <2>1. CASE To(u, "raised")
    <3>1. proc' = [proc EXCEPT ![u] = [proc[u] EXCEPT !.at = "raised"]]
      BY <2>0, <2>1 DEF To
    <3>2. proc[u].job \in 0..Len(experiments')
      BY <1>1, <1>4 DEF UserOK, Grown
    <3> DEFINE p == [proc[u] EXCEPT !.at = "raised"]
    <3>3. /\ DOMAIN p = ProcessFields /\ p.at = "raised" /\ p.job = proc[u].job /\ p.boards = proc[u].boards
          /\ p.status = proc[u].status /\ p.inits = proc[u].inits /\ p.known = proc[u].known /\ p.todo = proc[u].todo
      BY <2>0 DEF ProcessFields
    <3>9. proc' = [proc EXCEPT ![u] = p]
      BY <3>1
    <3> HIDE DEF p
    <3> QED
      BY <3>9, <3>2, <3>3
  <2>2. CASE /\ experiments' = Append(experiments, new)
             /\ proc' = [proc EXCEPT ![u].at = IF async THEN "idle" ELSE "wait", ![u].job = Len(experiments) + 1]
    <3>1. PICK at \in {"idle", "wait"} : at = IF async THEN "idle" ELSE "wait"
      OBVIOUS
    <3>2. proc' = [proc EXCEPT ![u] = [proc[u] EXCEPT !.at = at, !.job = Len(experiments) + 1]]
      BY <2>0, <2>2, <3>1
    <3>3. Len(experiments') = Len(experiments) + 1
      <4> HIDE DEF new
      <4> QED
        BY <2>2 DEF IotShape
    <3>4. Len(experiments) + 1 \in DOMAIN experiments' /\ Len(experiments) + 1 \in 0..Len(experiments')
      BY <1>0, <1>4, <3>3 DEF Grown
    <3> DEFINE p == [proc[u] EXCEPT !.at = at, !.job = Len(experiments) + 1]
    <3>5. /\ DOMAIN p = ProcessFields /\ p.at = at /\ p.job = Len(experiments) + 1 /\ p.boards = proc[u].boards
          /\ p.status = proc[u].status /\ p.inits = proc[u].inits /\ p.known = proc[u].known /\ p.todo = proc[u].todo
      BY <2>0 DEF ProcessFields
    <3>9. proc' = [proc EXCEPT ![u] = p]
      BY <3>2
    <3> HIDE DEF p, new
    <3> QED
      BY <3>9, <3>4, <3>5
  <2> QED
    BY <2>1, <2>2 DEF Submit
<1>6. proc'[u] = p
  BY <1>5 DEF IotShape
<1>7. UserOK(u)'
  BY <1>1, <1>5, <1>6 DEF UserOK, InitSteps
<1> QED
  BY <1>1, <1>2, <1>4, <1>5, <1>7, HeldBy

LEMMA PopulateHeld ==
  ASSUME IotShape, IotHeld, NEW u \in Users, Populate(u)
  PROVE  IotHeld'
<1>1. UNCHANGED <<iotConf, world, profiles, experiments, answer, iotCalls>> /\ proc[u].at = "wait" /\ UserOK(u)
  BY DEF Populate, IotHeld
<1>2. AnswerOK' /\ profiles' \subseteq iotConf.profiles /\ iotCalls' \in 0..MaxIotCalls
  BY <1>1, AnswerStays DEF IotHeld
<1>3. Grown /\ \A i \in DOMAIN experiments' : JobOK(experiments[i])'
  BY <1>1, GrownSame
<1>4. DOMAIN proc[u] = ProcessFields /\ u \in DOMAIN proc
  BY DEF IotShape
<1> DEFINE job == experiments[proc[u].job]
<1>5. \/ To(u, "raised")
      \/ /\ job.state = "running"
         /\ \E s \in Picked(job.nodes) :
               proc' = [proc EXCEPT ![u].at = "flash", ![u].boards = @ \o s]
  BY DEF Populate
<1>6. CASE To(u, "raised")
  <2>1. proc' = [proc EXCEPT ![u] = [proc[u] EXCEPT !.at = "raised"]]
    BY <1>4, <1>6 DEF To
  <2>2. proc'[u] = [proc[u] EXCEPT !.at = "raised"]
    BY <1>4, <2>1
  <2>3. UserOK(u)'
    BY <1>1, <1>4, <2>2 DEF UserOK, InitSteps, ProcessFields
  <2> QED
    BY <1>1, <1>2, <1>3, <2>1, <2>3, HeldBy
<1>7. CASE /\ job.state = "running"
           /\ \E s \in Picked(job.nodes) :
                 proc' = [proc EXCEPT ![u].at = "flash", ![u].boards = @ \o s]
  <2>1. PICK s \in Picked(job.nodes) :
           proc' = [proc EXCEPT ![u].at = "flash", ![u].boards = @ \o s]
    BY <1>7
  <2> DEFINE p == [proc[u] EXCEPT !.at = "flash", !.boards = proc[u].boards \o s]
  <2>2. proc' = [proc EXCEPT ![u] = p]
    BY <1>4, <2>1
  <2>3. p.boards = proc[u].boards \o s /\ p.at = "flash" /\ p.job = proc[u].job /\ p.inits = proc[u].inits
        /\ p.known = proc[u].known /\ p.todo = proc[u].todo /\ p.status = proc[u].status
    BY <1>4 DEF ProcessFields
  <2> HIDE DEF p
  <2>4. proc[u].inits = 1 => p.boards = s
    <3>1. proc[u].inits = 1 => proc[u].boards = <<>>
      BY <1>1 DEF UserOK
    <3>2. IotConfOK
      BY IotConfIs DEF IotHeld
    <3>3. s \in [1..Len(iotConf.machines) -> SUBSET job.nodes] /\ Len(iotConf.machines) \in Nat
      BY <3>2, PickedIs DEF IotConfOK
    <3>4. s \in Seq(SUBSET job.nodes)
      BY <3>3
    <3>5. <<>> \o s = s
      BY <3>4
    <3> QED
      BY <2>3, <3>1, <3>5
  <2>5. proc'[u] = p
    BY <1>4, <2>2
  <2>6. proc[u].inits = 1 => HandedOut(proc[u])'
    <3>1. \A nodes : Picked(nodes)' = Picked(nodes)
      BY <1>1, IotSame
    <3>2. experiments'[p.job] = job /\ job.state = "running"
      BY <1>1, <1>7, <2>3
    <3> HIDE DEF job
    <3> QED
      BY <2>1, <2>3, <2>4, <2>5, <3>1, <3>2 DEF HandedOut
  <2>7. UserOK(u)'
    BY <1>1, <2>3, <2>5, <2>6 DEF UserOK, InitSteps
  <2> QED
    BY <1>1, <1>2, <1>3, <2>2, <2>7, HeldBy
<1> QED
  BY <1>5, <1>6, <1>7

LEMMA FlashHeld ==
  ASSUME IotShape, IotHeld, NEW u \in Users, Flash(u)
  PROVE  IotHeld'
<1>1. UNCHANGED <<iotConf, world, profiles, answer, iotCalls>> /\ proc[u].at = "flash" /\ UserOK(u)
  BY DEF Flash, IotHeld
<1>2. AnswerOK' /\ profiles' \subseteq iotConf.profiles /\ iotCalls' \in 0..MaxIotCalls
  BY <1>1, AnswerStays DEF IotHeld
<1>3. DOMAIN proc[u] = ProcessFields /\ u \in DOMAIN proc
  BY DEF IotShape
<1> DEFINE job == proc[u].job
           e == [experiments[job] EXCEPT !.flashed = @ \cup Sensors(u)]
<1>4. ASSUME NEW at \in {"ready", "raised"}, To(u, at), Grown, \A i \in DOMAIN experiments' : JobOK(experiments[i])',
             /\ proc[u].inits = 1 /\ at = "ready" /\ job \in DOMAIN experiments
                => Sensors(u) \subseteq experiments'[job].flashed
      PROVE  IotHeld'
  <2> DEFINE p == [proc[u] EXCEPT !.at = at]
  <2>1. proc' = [proc EXCEPT ![u] = p]
    BY <1>3, <1>4 DEF To
  <2>2. /\ p.at = at /\ p.job = proc[u].job /\ p.boards = proc[u].boards
        /\ p.status = proc[u].status /\ p.inits = proc[u].inits /\ p.known = proc[u].known /\ p.todo = proc[u].todo
    BY <1>3 DEF ProcessFields
  <2> HIDE DEF p
  <2>3. proc'[u] = p
    BY <1>3, <2>1
  <2>4. /\ job \in DOMAIN experiments /\ job \in DOMAIN experiments'
        /\ job \in 0..Len(experiments') /\ proc[u].inits \in Nat /\ proc[u].inits # 0
    BY <1>1, <1>4 DEF UserOK, Grown, InitSteps
  <2>5. Sensors(u)' = Sensors(u)
    BY <1>4, <2>2, <2>3, <2>4, BoardsStay
  <2>6. proc[u].inits = 1 => HandedOut(proc[u])'
    BY <1>1, <1>4, <2>2, <2>3, <2>4, BoardsStay DEF UserOK
  <2>7. UserOK(u)'
    BY <1>1, <1>4, <2>2, <2>3, <2>4, <2>5, <2>6 DEF UserOK
  <2> QED
    BY <1>1, <1>2, <1>4, <2>1, <2>7, HeldBy
<1>0. job \in DOMAIN experiments
  BY <1>1 DEF UserOK
<1>5. CASE ~(experiments[job].state = "running" /\ Sensors(u) \subseteq experiments[job].nodes)
  <2>1. UNCHANGED experiments /\ (To(u, "raised") \/ (To(u, "ready") /\ Sensors(u) = {}))
    BY <1>5 DEF Flash
  <2>2. Grown /\ \A i \in DOMAIN experiments' : JobOK(experiments[i])'
    BY <1>1, <2>1, GrownSame
  <2> QED
    BY <1>4, <2>1, <2>2
<1>6. CASE experiments[job].state = "running" /\ Sensors(u) \subseteq experiments[job].nodes
  <2>1. To(u, "ready") /\ experiments' = [experiments EXCEPT ![job] = e]
    BY <1>6 DEF Flash
  <2>2. /\ e.state = "running" /\ e.nodes = experiments[job].nodes
        /\ e.flashed = experiments[job].flashed \cup Sensors(u)
    <3>1. PICK Q : experiments \in Seq(ExperimentSet(Q))
      BY DEF IotShape
    <3>2. experiments[job] \in ExperimentSet(Q)
      BY <1>0, <3>1
    <3> QED
      BY <1>6, <3>2 DEF ExperimentSet
  <2> HIDE DEF e
  <2>3. JobOK(experiments[job])
    BY <1>0 DEF IotHeld
  <2>4. JobOK(e)
    <3>1. e.flashed \subseteq e.nodes /\ AsShared(e.nodes)
      BY <1>6, <2>2, <2>3 DEF JobOK
    <3> QED
      BY <2>2, <3>1 DEF JobOK
  <2>5. Grown /\ experiments'[job] = e /\ \A i \in DOMAIN experiments' : JobOK(experiments[i])'
    BY <1>0, <1>1, <1>6, <2>1, <2>2, <2>4, GrownWith
  <2> QED
    BY <1>4, <2>1, <2>2, <2>5
<1> QED
  BY <1>5, <1>6

LEMMA DestroyHeld ==
  ASSUME IotShape, IotHeld, NEW u \in Users,
         BeginDestroy(u) \/ DeleteProfile(u) \/ \E wait \in BOOLEAN : Destroyed(u, wait)
  PROVE  IotHeld'
<1>1. UNCHANGED <<iotConf, world, experiments, answer>> /\ UserOK(u)
  BY DEF BeginDestroy, DeleteProfile, Destroyed, IotHeld
<1>2. Grown /\ (\A i \in DOMAIN experiments' : JobOK(experiments[i])') /\ AnswerOK'
  BY <1>1, GrownSame, AnswerStays
<1>3. /\ profiles' \subseteq profiles
      /\ iotCalls' = iotCalls \/ (iotCalls < MaxIotCalls /\ iotCalls' = iotCalls + 1)
  BY DEF BeginDestroy, DeleteProfile, Destroyed
<1>4. profiles' \subseteq iotConf.profiles /\ iotCalls' \in 0..MaxIotCalls
  <2>1. MaxIotCalls \in Nat /\ iotCalls \in 0..MaxIotCalls
    BY IotlabAssumption DEF IotHeld
  <2>2. iotCalls' \in 0..MaxIotCalls
    BY <1>3, <2>1
  <2> QED
    BY <1>3, <2>2 DEF IotHeld
<1>5. DOMAIN proc[u] = ProcessFields /\ u \in DOMAIN proc
  BY DEF IotShape
<1>6. \E at \in DestroySteps : \E known \in SUBSET proc[u].known : \E todo \in SUBSET proc[u].todo : \E alone :
         proc' = [proc EXCEPT ![u] = [proc[u] EXCEPT !.at = at, !.known = known, !.todo = todo, !.alone = alone]]
  <2>1. CASE BeginDestroy(u)
    <3> DEFINE alone == Cardinality(ActiveJobs) <= 1 /\ \A v \in Users : proc[v].at \notin InitSteps
    <3>1. proc' = [proc EXCEPT ![u] = [proc[u] EXCEPT !.at = "stop", !.known = proc[u].known,
                                                      !.todo = proc[u].todo, !.alone = alone]]
      BY <1>5, <2>1 DEF BeginDestroy, ProcessFields
    <3> HIDE DEF alone
    <3> QED
      BY <3>1 DEF DestroySteps
  <2>2. CASE DeleteProfile(u)
    <3>1. PICK q \in proc[u].todo : proc' = [proc EXCEPT ![u].todo = @ \ {q}]
      BY <2>2 DEF DeleteProfile
    <3>2. proc[u].at = "delete"
      BY <2>2 DEF DeleteProfile
    <3>3. proc' = [proc EXCEPT ![u] = [proc[u] EXCEPT !.at = "delete", !.known = proc[u].known,
                                                      !.todo = proc[u].todo \ {q}, !.alone = proc[u].alone]]
      BY <1>5, <3>1, <3>2 DEF ProcessFields
    <3>4. proc[u].todo \ {q} \in SUBSET proc[u].todo
      OBVIOUS
    <3> QED
      BY <3>3, <3>4 DEF DestroySteps
  <2>3. CASE \E wait \in BOOLEAN : Destroyed(u, wait)
    <3>1. proc' = [proc EXCEPT ![u].at = "destroyed", ![u].known = {}]
      BY <2>3 DEF Destroyed
    <3>2. proc' = [proc EXCEPT ![u] = [proc[u] EXCEPT !.at = "destroyed", !.known = {},
                                                      !.todo = proc[u].todo, !.alone = proc[u].alone]]
      BY <1>5, <3>1 DEF ProcessFields
    <3> QED
      BY <3>2 DEF DestroySteps
  <2> QED
    BY <2>1, <2>2, <2>3
<1>7. PICK at \in DestroySteps : \E known \in SUBSET proc[u].known : \E todo \in SUBSET proc[u].todo : \E alone :
         proc' = [proc EXCEPT ![u] = [proc[u] EXCEPT !.at = at, !.known = known, !.todo = todo, !.alone = alone]]
  BY <1>6
<1>8. PICK known \in SUBSET proc[u].known : \E todo \in SUBSET proc[u].todo : \E alone :
         proc' = [proc EXCEPT ![u] = [proc[u] EXCEPT !.at = at, !.known = known, !.todo = todo, !.alone = alone]]
  BY <1>7
<1>9. PICK todo \in SUBSET proc[u].todo : \E alone :
         proc' = [proc EXCEPT ![u] = [proc[u] EXCEPT !.at = at, !.known = known, !.todo = todo, !.alone = alone]]
  BY <1>8
<1>10. PICK alone :
         proc' = [proc EXCEPT ![u] = [proc[u] EXCEPT !.at = at, !.known = known, !.todo = todo, !.alone = alone]]
  BY <1>9
<1> DEFINE p == [proc[u] EXCEPT !.at = at, !.known = known, !.todo = todo, !.alone = alone]
<1>11. /\ p.at \in DestroySteps /\ p.job = proc[u].job /\ p.boards = proc[u].boards
       /\ p.status = proc[u].status /\ p.inits = proc[u].inits /\ p.known = known /\ p.todo = todo
  BY <1>5 DEF ProcessFields
<1>12. proc' = [proc EXCEPT ![u] = p] /\ proc'[u] = p
  BY <1>5, <1>10
<1> HIDE DEF p
<1>13. UserOK(u)'
  BY <1>1, <1>11, <1>12 DEF UserOK, DestroySteps, InitSteps
<1> QED
  BY <1>1, <1>2, <1>4, <1>12, <1>13, HeldBy

LEMMA StopHeld ==
  ASSUME IotShape, IotHeld, NEW u \in Users, StopExperiment(u)
  PROVE  IotHeld'
<1>1. UNCHANGED <<iotConf, world, profiles, answer, iotCalls>> /\ UserOK(u) /\ profiles \subseteq iotConf.profiles
  BY DEF StopExperiment, IotHeld
<1>2. AnswerOK' /\ profiles' \subseteq iotConf.profiles /\ iotCalls' \in 0..MaxIotCalls
  BY <1>1, AnswerStays DEF IotHeld
<1>3. DOMAIN proc[u] = ProcessFields /\ u \in DOMAIN proc
  BY DEF IotShape
<1>4. Grown /\ \A i \in DOMAIN experiments' : JobOK(experiments[i])'
  <2>1. CASE ActiveJobs = {}
    BY <1>1, <2>1, GrownSame DEF StopExperiment
  <2>2. CASE ActiveJobs # {}
    <3>1. PICK Q : experiments \in Seq(ExperimentSet(Q))
      BY DEF IotShape
    <3>2. PICK i \in DOMAIN experiments : i = Min(ActiveJobs)
      BY <2>2, <3>1, JobsAre
    <3> DEFINE e == [experiments[i] EXCEPT !.state = "over"]
    <3>3. experiments' = [experiments EXCEPT ![i] = e]
      BY <2>2, <3>2 DEF StopExperiment
    <3>4. experiments[i] \in ExperimentSet(Q)
      BY <3>1
    <3>5. e.state = "over" /\ e.nodes = experiments[i].nodes /\ e.flashed = experiments[i].flashed
      BY <3>4 DEF ExperimentSet
    <3> HIDE DEF e
    <3>6. JobOK(e)
      BY <3>5 DEF IotHeld, JobOK
    <3> QED
      BY <1>1, <3>3, <3>5, <3>6, GrownWith
  <2> QED
    BY <2>1, <2>2
<1> DEFINE p == [proc[u] EXCEPT !.at = "delete", !.todo = ReloadedProfiles(u)]
<1>5. proc' = [proc EXCEPT ![u] = p]
  BY <1>3 DEF StopExperiment
<1>6. /\ p.at = "delete" /\ p.job = proc[u].job /\ p.boards = proc[u].boards /\ p.status = proc[u].status
      /\ p.inits = proc[u].inits /\ p.known = proc[u].known /\ p.todo = profiles
  BY <1>3 DEF ProcessFields, ReloadedProfiles
<1> HIDE DEF p
<1>7. proc'[u] = p
  BY <1>3, <1>5
<1>8. proc[u].job \in 0..Len(experiments')
  BY <1>1, <1>4 DEF UserOK, Grown
<1>9. UserOK(u)'
  BY <1>1, <1>6, <1>7, <1>8 DEF UserOK, InitSteps
<1> QED
  BY <1>1, <1>2, <1>4, <1>5, <1>9, HeldBy

LEMMA BeginHeld ==
  ASSUME IotShape, IotHeld, NEW u \in Users, BeginInit(u)
  PROVE  IotHeld'
<1>1. UNCHANGED <<iotConf, world, profiles, experiments>> /\ UserOK(u) /\ proc[u].at \in {"idle", "ready", "destroyed"}
  BY DEF BeginInit, IotHeld
<1>2. Grown /\ \A i \in DOMAIN experiments' : JobOK(experiments[i])'
  BY <1>1, GrownSame
<1>3. iotCalls' \in 0..MaxIotCalls
  <2>1. MaxIotCalls \in Nat /\ iotCalls \in 0..MaxIotCalls /\ iotCalls < MaxIotCalls /\ iotCalls' = iotCalls + 1
    BY IotlabAssumption DEF IotHeld, BeginInit
  <2> QED
    BY <2>1
<1>4. AnswerOK'
  BY DEF BeginInit, AnswerOK, NoAnswer
<1>5. DOMAIN proc = Users /\ \A v \in Users : DOMAIN proc[v] = ProcessFields
  BY DEF IotShape
<1> DEFINE todo == {q \in iotConf.profiles : q \notin iotConf.empty}
           p == [proc[u] EXCEPT !.at = "profiles", !.inits = @ + 1, !.todo = todo]
<1>6. proc' = [Others(u) EXCEPT ![u] = p]
  BY <1>5 DEF BeginInit, Others
<1>7. /\ p.at = "profiles" /\ p.job = proc[u].job /\ p.boards = proc[u].boards /\ p.status = proc[u].status
      /\ p.inits = proc[u].inits + 1 /\ p.known = proc[u].known /\ p.todo = todo
  BY <1>5 DEF ProcessFields
<1>8. todo \subseteq iotConf.profiles
  OBVIOUS
<1> HIDE DEF p, todo
<1>9. proc'[u] = p
  BY <1>6 DEF Others
<1>10. UserOK(u)'
  BY <1>1, <1>7, <1>8, <1>9 DEF UserOK, InitSteps
<1>11. \A v \in Users : v # u => UserOK(v)'
  <2> SUFFICES ASSUME NEW v \in Users, v # u PROVE UserOK(v)'
    OBVIOUS
  <2>1. proc'[v] = [proc[v] EXCEPT !.alone = FALSE]
    BY <1>6 DEF Others
  <2>2. KeptOwn(v)
    BY <1>5, <2>1 DEF KeptOwn, ProcessFields
  <2> QED
    BY <1>2, <2>2, UserKept DEF IotHeld
<1> QED
  BY <1>1, <1>2, <1>3, <1>4, <1>10, <1>11 DEF IotHeld

LEMMA KilledHeld ==
  ASSUME IotShape, IotHeld, NEW u \in Users, Killed(u)
  PROVE  IotHeld'
<1>1. UNCHANGED <<iotConf, world, profiles, experiments, answer, iotCalls>> /\ proc' = [proc EXCEPT ![u] = NewProcess]
  BY DEF Killed
<1>2. Grown /\ (\A i \in DOMAIN experiments' : JobOK(experiments[i])') /\ AnswerOK'
  BY <1>1, GrownSame, AnswerStays
<1>3. profiles' \subseteq iotConf.profiles /\ iotCalls' \in 0..MaxIotCalls
  BY <1>1 DEF IotHeld
<1>4. proc'[u] = NewProcess
  BY <1>1 DEF IotShape
<1>5. 0 \in 0..Len(experiments')
  BY <1>2 DEF Grown
<1>6. UserOK(u)'
  BY <1>4, <1>5 DEF UserOK, NewProcess, InitSteps
<1> QED
  BY <1>1, <1>2, <1>3, <1>6, HeldBy

LEMMA SlotHeld ==
  ASSUME IotShape, IotHeld, NEW u \in Users, NEW at \in 0..LastDate, TestSlot(u, at)
  PROVE  IotHeld'
<1>1. UNCHANGED <<iotConf, world, profiles, experiments>> /\ UserOK(u)
  BY DEF TestSlot, IotHeld
<1>2. Grown /\ (\A i \in DOMAIN experiments' : JobOK(experiments[i])')
  BY <1>1, GrownSame
<1>3. profiles' \subseteq iotConf.profiles /\ world \in Worlds
  BY <1>1 DEF IotHeld
<1>4. iotCalls' \in 0..MaxIotCalls
  <2>1. MaxIotCalls \in Nat /\ iotCalls \in 0..MaxIotCalls /\ iotCalls < MaxIotCalls /\ iotCalls' = iotCalls + 1
    BY IotlabAssumption DEF IotHeld, TestSlot
  <2> QED
    BY <2>1
<1> DEFINE status == IF proc[u].status = {} THEN {world} ELSE proc[u].status
           p == [proc[u] EXCEPT !.status = status]
<1>5. DOMAIN proc[u] = ProcessFields /\ u \in DOMAIN proc
  BY DEF IotShape
<1>6. PICK w \in Worlds : status = {w}
  BY <1>1, <1>3 DEF UserOK
<1>7. proc' = [proc EXCEPT ![u] = p] /\ answer' = [ok |-> SlotIsOk(w, at), at |-> at, seen |-> {w}]
  BY <1>6 DEF TestSlot
<1>8. /\ p.at = proc[u].at /\ p.job = proc[u].job /\ p.boards = proc[u].boards /\ p.status = {w}
      /\ p.inits = proc[u].inits /\ p.known = proc[u].known /\ p.todo = proc[u].todo
  BY <1>5, <1>6 DEF ProcessFields
<1> HIDE DEF p, status
<1>9. proc[u].at = "idle"
  BY DEF TestSlot
<1>10. proc'[u] = p
  BY <1>5, <1>7
<1>11. UserOK(u)'
  BY <1>1, <1>8, <1>9, <1>10 DEF UserOK, InitSteps
<1>12. AnswerOK'
  <2>1. at \in Nat
    BY IotlabAssumption
  <2>2. SlotIsOk(w, at)' = SlotIsOk(w, at)
    BY <1>1, IotSame
  <2> QED
    BY <1>7, <2>1, <2>2 DEF AnswerOK
<1> QED
  BY <1>1, <1>2, <1>3, <1>4, <1>7, <1>11, <1>12, HeldBy

\* The testbed moves.
LEMMA MovedHeld ==
  ASSUME IotShape, IotHeld, UNCHANGED <<iotConf, profiles, proc, answer, iotCalls>>, world' \in Worlds,
         Grown, \A i \in DOMAIN experiments' : JobOK(experiments[i])'
  PROVE  IotHeld'
<1>1. \A u \in Users : UserOK(u)'
  BY UserKept DEF IotHeld, KeptOwn
<1>2. AnswerOK'
  BY AnswerStays
<1> QED
  BY <1>1, <1>2 DEF IotHeld

LEMMA StartHeld ==
  ASSUME IotShape, IotHeld, NEW i \in DOMAIN experiments, ExperimentStarts(i) \/ ExperimentEnds(i)
  PROVE  IotHeld'
<1>1. UNCHANGED <<iotConf, world, profiles, proc, answer, iotCalls>> /\ world \in Worlds /\ JobOK(experiments[i])
  BY DEF ExperimentStarts, ExperimentEnds, IotHeld
<1>2. PICK Q : experiments \in Seq(ExperimentSet(Q))
  BY DEF IotShape
<1>3. experiments[i] \in ExperimentSet(Q)
  BY <1>2
<1>4. CASE ExperimentEnds(i)
  <2> DEFINE e == [experiments[i] EXCEPT !.state = "over"]
  <2>1. experiments' = [experiments EXCEPT ![i] = e]
    BY <1>4 DEF ExperimentEnds
  <2>2. e.state = "over" /\ e.nodes = experiments[i].nodes /\ e.flashed = experiments[i].flashed
    BY <1>3 DEF ExperimentSet
  <2> HIDE DEF e
  <2>3. JobOK(e)
    BY <1>1, <2>2 DEF JobOK
  <2>4. Grown /\ \A j \in DOMAIN experiments' : JobOK(experiments[j])'
    BY <1>1, <2>1, <2>2, <2>3, GrownWith
  <2> QED
    BY <1>1, <2>4, MovedHeld
<1>5. CASE ExperimentStarts(i)
  <2> DEFINE free == CandidatesOf(world) \ TakenBoards
  <2>1. PICK s \in Shares(free) : experiments' = [experiments EXCEPT ![i].state = "running",
                                                     ![i].nodes = UNION {s[g] : g \in Groupings}]
    BY <1>5 DEF ExperimentStarts
  <2> DEFINE e == [experiments[i] EXCEPT !.state = "running", !.nodes = UNION {s[g] : g \in Groupings}]
  <2>2. experiments' = [experiments EXCEPT ![i] = e]
    BY <1>2, <2>1
  <2>3. e.state = "running" /\ e.nodes = UNION {s[g] : g \in Groupings} /\ e.flashed = experiments[i].flashed
    BY <1>3 DEF ExperimentSet
  <2> HIDE DEF e
  <2>4. experiments[i].state = "waiting" /\ experiments[i].flashed = {}
    BY <1>1, <1>5 DEF ExperimentStarts, JobOK
  <2>5. s \in Shares(Boards)
    <3>1. free \subseteq Boards
      BY DEF CandidatesOf
    <3> HIDE DEF free
    <3> QED
      BY <3>1 DEF Shares
  <2>6. JobOK(e)
    BY <2>3, <2>4, <2>5 DEF JobOK, AsShared
  <2>7. Grown /\ \A j \in DOMAIN experiments' : JobOK(experiments[j])'
    BY <1>1, <2>2, <2>3, <2>4, <2>6, GrownWith
  <2> QED
    BY <1>1, <2>7, MovedHeld
<1> QED
  BY <1>4, <1>5

LEMMA IotHeldStays == IotShape /\ IotHeld /\ [IotNext]_iotVars => IotHeld'
<1> SUFFICES ASSUME IotShape, IotHeld, [IotNext]_iotVars PROVE IotHeld'
  OBVIOUS
<1>1. CASE UNCHANGED iotVars
  <2>1. UNCHANGED <<iotConf, world, profiles, experiments, proc, answer, iotCalls>>
    BY <1>1 DEF iotVars
  <2>2. world' \in Worlds
    BY <2>1 DEF IotHeld
  <2> QED
    BY <2>1, <2>2, GrownSame, MovedHeld
<1>2. CASE WorldChanges
  <2>1. UNCHANGED <<iotConf, profiles, experiments, proc, answer, iotCalls>> /\ world' \in Worlds
    BY <1>2 DEF WorldChanges
  <2> QED
    BY <2>1, GrownSame, MovedHeld
<1> QED
  BY <1>1, <1>2, ProfilesHeld, SubmitHeld, PopulateHeld, FlashHeld, DestroyHeld, StopHeld, BeginHeld,
     KilledHeld, SlotHeld, StartHeld DEF IotNext

LEMMA HeldIsReady == ASSUME IotHeld PROVE IotReadyAsAsked
<1> SUFFICES ASSUME NEW u \in Users, proc[u].at = "ready", proc[u].inits = 1,
                    experiments[proc[u].job].state = "running"
             PROVE  /\ [g \in Groupings |-> proc[u].boards[g]] \in Shares(experiments[proc[u].job].nodes)
                    /\ UNION ToSet(proc[u].boards) = experiments[proc[u].job].nodes
                    /\ Sensors(u) \subseteq experiments[proc[u].job].flashed
  BY DEF IotReadyAsAsked
<1>1. UserOK(u) /\ \A i \in DOMAIN experiments : JobOK(experiments[i])
  BY DEF IotHeld
<1>2. proc[u].job \in DOMAIN experiments /\ HandedOut(proc[u]) /\ Sensors(u) \subseteq experiments[proc[u].job].flashed
  BY <1>1 DEF UserOK
<1>3. AsShared(experiments[proc[u].job].nodes)
  BY <1>1, <1>2 DEF JobOK
<1>4. IotConfOK
  BY IotConfIs DEF IotHeld
<1>5. [g \in Groupings |-> proc[u].boards[g]] \in Shares(experiments[proc[u].job].nodes)
  BY <1>2, <1>3, <1>4, PickedIsShared DEF HandedOut
<1>6. UNION ToSet(proc[u].boards) = experiments[proc[u].job].nodes
  BY <1>2, PickedIs DEF HandedOut
<1> QED
  BY <1>2, <1>5, <1>6

LEMMA HeldIsExact == ASSUME IotHeld PROVE IotSlotExact
<1>1. IotConfOK
  BY IotConfIs DEF IotHeld
<1>2. CASE answer.seen = {}
  BY <1>2 DEF IotSlotExact
<1>3. CASE \E w \in Worlds : answer.seen = {w} /\ answer.ok = SlotIsOk(w, answer.at) /\ answer.at \in Nat
  <2>1. PICK w \in Worlds : answer.seen = {w} /\ answer.ok = SlotIsOk(w, answer.at) /\ answer.at \in Nat
    BY <1>3
  <2>2. SlotIsOk(w, answer.at) = (Shares(FreeNodes(w, answer.at)) # {})
    BY <1>1, <2>1, SlotExact
  <2>3. FreeNodes(w, answer.at) = (Boards \ w.dead) \ UNION {e.nodes : e \in {e \in w.others :
                       \E t \in answer.at..(answer.at + IotWalltime - 1) : e.from <= t /\ t < e.to}}
    BY <2>1, FreeIs
  <2> QED
    BY <2>1, <2>2, <2>3 DEF IotSlotExact
<1> QED
  BY <1>2, <1>3 DEF IotHeld, AnswerOK

LEMMA HeldTypes == ASSUME IotShape, IotHeld PROVE IotTypeOK
<1>1. \A i \in DOMAIN experiments :
         experiments[i].state \in {"waiting", "running", "over"} /\ experiments[i].flashed \subseteq experiments[i].nodes
  <2>1. PICK Q : experiments \in Seq(ExperimentSet(Q))
    BY DEF IotShape
  <2>2. \A i \in DOMAIN experiments : experiments[i] \in ExperimentSet(Q)
    BY <2>1
  <2> QED
    BY <2>2 DEF IotHeld, JobOK, ExperimentSet
<1>2. \A u \in Users : proc[u].job \in 0..Len(experiments) /\ proc[u].known \subseteq iotConf.profiles
  BY DEF IotHeld, UserOK
<1> QED
  BY <1>1, <1>2 DEF IotTypeOK, IotHeld

\* What the release of a slot and what a ready process holds come together.
LEMMA BoardsAsAsked == IotSpec => [](IotReadyAsAsked /\ IotSlotExact /\ IotTypeOK)
<1> DEFINE I == IotIInv /\ IotHeld
<1>1. IotIInv => IotShape
  BY DEF IotIInv, IotShape
<1>2. IotInit => I
  BY IotInitOK, HeldInitially
<1>3. I /\ [IotNext]_iotVars => I'
  BY <1>1, IotStepOK, IotHeldStays
<1>4. I => IotReadyAsAsked /\ IotSlotExact /\ IotTypeOK
  BY <1>1, HeldIsReady, HeldIsExact, HeldTypes
<1> HIDE DEF I
<1> QED
  BY <1>2, <1>3, <1>4, PTL DEF IotSpec

-----------------------------------------------------------------------------
(* Orders, and the lists that sorting makes *)

\* What is before what in S, and a sequence of what S holds, each once.
IsOrder(before, S) ==
    /\ \A x \in S : <<x, x>> \notin before
    /\ \A x, y \in S : x = y \/ <<x, y>> \in before \/ <<y, x>> \in before
    /\ \A x, y, z \in S : <<x, y>> \in before /\ <<y, z>> \in before => <<x, z>> \in before
Lists(seq, S) ==
    /\ Cardinality(S) \in Nat /\ seq \in [1..Cardinality(S) -> S]
    /\ \A i, j \in 1..Cardinality(S) : seq[i] = seq[j] => i = j
    /\ \A x \in S : \E i \in 1..Cardinality(S) : seq[i] = x

\* How many are before x.
RankOf(S, before, x) == Cardinality({y \in S : <<y, x>> \in before})

\* Ranks are from 0, one for each.
LEMMA RankOnce ==
  ASSUME NEW S, IsFiniteSet(S), NEW before, IsOrder(before, S)
  PROVE  /\ \A x \in S : RankOf(S, before, x) \in 0..(Cardinality(S) - 1)
         /\ \A x, y \in S : RankOf(S, before, x) = RankOf(S, before, y) => x = y
<1> DEFINE below(x) == {y \in S : <<y, x>> \in before}
<1>1. Cardinality(S) \in Nat
  BY FS_CardinalityType
<1>2. ASSUME NEW x \in S
      PROVE  /\ IsFiniteSet(below(x)) /\ Cardinality(below(x)) \in Nat /\ Cardinality(below(x)) < Cardinality(S)
             /\ RankOf(S, before, x) = Cardinality(below(x))
  <2>1. below(x) \subseteq S /\ x \notin below(x)
    BY DEF IsOrder
  <2>2. RankOf(S, before, x) = Cardinality(below(x))
    BY DEF RankOf
  <2> HIDE DEF below
  <2>3. IsFiniteSet(below(x)) /\ Cardinality(below(x)) <= Cardinality(S)
    BY <2>1, FS_Subset
  <2>4. below(x) # S
    BY <2>1
  <2>5. Cardinality(below(x)) # Cardinality(S)
    BY <2>1, <2>4, FS_Subset
  <2>6. Cardinality(below(x)) \in Nat
    BY <2>3, FS_CardinalityType
  <2> QED
    BY <1>1, <2>2, <2>3, <2>5, <2>6
<1>3. ASSUME NEW x \in S, NEW y \in S, <<x, y>> \in before
      PROVE  Cardinality(below(x)) < Cardinality(below(y))
  <2>1. below(x) \subseteq below(y) /\ x \in below(y) /\ x \notin below(x)
    BY <1>3 DEF IsOrder
  <2>2. IsFiniteSet(below(y))
    BY <1>2
  <2> HIDE DEF below
  <2>3. Cardinality(below(x)) <= Cardinality(below(y)) /\ Cardinality(below(x)) # Cardinality(below(y))
    BY <2>1, <2>2, FS_Subset
  <2>4. Cardinality(below(x)) \in Nat /\ Cardinality(below(y)) \in Nat
    BY <1>2
  <2> QED
    BY <2>3, <2>4
<1> HIDE DEF below
<1>4. ASSUME NEW x \in S, NEW y \in S, RankOf(S, before, x) = RankOf(S, before, y)
      PROVE  x = y
  <2>1. x = y \/ <<x, y>> \in before \/ <<y, x>> \in before
    BY DEF IsOrder
  <2> QED
    BY <1>2, <1>3, <1>4, <2>1
<1>5. ASSUME NEW x \in S PROVE RankOf(S, before, x) \in 0..(Cardinality(S) - 1)
  BY <1>1, <1>2
<1> QED
  BY <1>4, <1>5

\* Sorting lists what is sorted.
LEMMA SortedLists ==
  ASSUME NEW S, IsFiniteSet(S), NEW before, IsOrder(before, S)
  PROVE  Lists(Sorted(S, before), S)
<1> DEFINE n == Cardinality(S)
           r == [x \in S |-> RankOf(S, before, x)]
<1>1. n \in Nat
  BY FS_CardinalityType
<1>2. r \in [S -> 0..(n - 1)] /\ \A x, y \in S : r[x] = r[y] => x = y
  BY RankOnce
<1>3. r \in Injection(S, 0..(n - 1))
  BY <1>2 DEF Injection, IsInjective
<1>4. IsFiniteSet(0..(n - 1)) /\ Cardinality(0..(n - 1)) = n
  BY <1>1, FS_Interval
<1>5. r \in Surjection(S, 0..(n - 1))
  <2> HIDE DEF r
  <2> QED BY <1>3, <1>4, FS_Injection
<1>6. \A k \in 1..n : \E x \in S : RankOf(S, before, x) = k - 1
  <2> TAKE k \in 1..n
  <2>1. k - 1 \in 0..(n - 1)
    BY <1>1
  <2>2. \E x \in S : r[x] = k - 1
    <3> HIDE DEF r
    <3> QED
      BY <1>5, <2>1 DEF Surjection
  <2> QED
    BY <2>2
<1> DEFINE s == Sorted(S, before)
<1>7. s = [k \in 1..n |-> CHOOSE x \in S : RankOf(S, before, x) = k - 1]
  BY DEF Sorted, RankOf
<1> HIDE DEF s, r
<1>8. \A k \in 1..n : s[k] \in S /\ RankOf(S, before, s[k]) = k - 1
  BY <1>6, <1>7
<1>9. \A i, j \in 1..n : s[i] = s[j] => i = j
  BY <1>1, <1>8
<1>10. \A x \in S : \E i \in 1..n : s[i] = x
  <2> TAKE x \in S
  <2>1. RankOf(S, before, x) \in 0..(n - 1)
    BY RankOnce
  <2> DEFINE k == RankOf(S, before, x) + 1
  <2>2. k \in 1..n /\ k - 1 = RankOf(S, before, x)
    BY <1>1, <2>1
  <2>3. s[k] \in S /\ RankOf(S, before, s[k]) = RankOf(S, before, x)
    BY <1>8, <2>2
  <2> QED
    BY <2>2, <2>3, RankOnce
<1>11. s \in [1..n -> S]
  BY <1>7, <1>8
<1> QED
  BY <1>1, <1>9, <1>10, <1>11 DEF Lists, n, s

\* What is before has a smaller rank.
LEMMA RanksGrowing ==
  ASSUME NEW S, IsFiniteSet(S), NEW before, IsOrder(before, S), NEW x \in S, NEW y \in S, <<x, y>> \in before
  PROVE  RankOf(S, before, x) < RankOf(S, before, y)
<1> DEFINE below(z) == {w \in S : <<w, z>> \in before}
<1>1. below(x) \subseteq below(y) /\ x \in below(y) /\ x \notin below(x) /\ below(y) \subseteq S
  BY DEF IsOrder
<1>2. RankOf(S, before, x) = Cardinality(below(x)) /\ RankOf(S, before, y) = Cardinality(below(y))
  BY DEF RankOf
<1> HIDE DEF below
<1>3. IsFiniteSet(below(y)) /\ IsFiniteSet(below(x))
  BY <1>1, FS_Subset
<1>4. Cardinality(below(x)) <= Cardinality(below(y)) /\ Cardinality(below(x)) # Cardinality(below(y))
  BY <1>1, <1>3, FS_Subset
<1>5. Cardinality(below(x)) \in Nat /\ Cardinality(below(y)) \in Nat
  BY <1>3, FS_CardinalityType
<1> QED
  BY <1>2, <1>4, <1>5

\* In what is sorted, place k has rank k - 1.
LEMMA SortedRanks ==
  ASSUME NEW S, IsFiniteSet(S), NEW before, IsOrder(before, S), NEW k \in DOMAIN Sorted(S, before)
  PROVE  RankOf(S, before, Sorted(S, before)[k]) = k - 1
<1> DEFINE n == Cardinality(S)
           r == [x \in S |-> RankOf(S, before, x)]
<1>1. n \in Nat
  BY FS_CardinalityType
<1>2. r \in Injection(S, 0..(n - 1))
  BY RankOnce DEF Injection, IsInjective
<1>3. IsFiniteSet(0..(n - 1)) /\ Cardinality(0..(n - 1)) = n
  BY <1>1, FS_Interval
<1>4. r \in Surjection(S, 0..(n - 1))
  <2> HIDE DEF r
  <2> QED BY <1>2, <1>3, FS_Injection
<1>5. k \in 1..n /\ k - 1 \in 0..(n - 1)
  BY <1>1 DEF Sorted
<1>6. \E x \in S : r[x] = k - 1
  <2> HIDE DEF r
  <2> QED
    BY <1>4, <1>5 DEF Surjection
<1>7. \E x \in S : RankOf(S, before, x) = k - 1
  BY <1>6
<1>8. Sorted(S, before)[k] = CHOOSE x \in S : RankOf(S, before, x) = k - 1
  BY <1>5 DEF Sorted, RankOf
<1> QED
  BY <1>7, <1>8

\* Lists are sequences.
LEMMA ListIs ==
  ASSUME NEW seq, NEW S, Lists(seq, S)
  PROVE  /\ seq \in Seq(S) /\ Len(seq) = Cardinality(S) /\ Len(seq) \in Nat /\ DOMAIN seq = 1..Len(seq)
         /\ ToSet(seq) = S
         /\ \A i, j \in DOMAIN seq : seq[i] = seq[j] => i = j
<1>1. seq \in Seq(S) /\ Len(seq) = Cardinality(S) /\ DOMAIN seq = 1..Len(seq) /\ Len(seq) \in Nat
  BY DEF Lists
<1>2. ToSet(seq) = S
  BY <1>1 DEF Lists, ToSet
<1> QED
  BY <1>1, <1>2 DEF Lists

\* Places in a list, the first ones.
LEMMA FirstPlace ==
  ASSUME NEW T, NEW list \in Seq(T), NEW x \in ToSet(list)
  PROVE  /\ FirstAt(list, x) \in DOMAIN list /\ FirstAt(list, x) \in Nat /\ list[FirstAt(list, x)] = x
         /\ \A j \in 1..(FirstAt(list, x) - 1) : list[j] # x
<1> DEFINE D == {i \in DOMAIN list : list[i] = x}
<1>1. D \in SUBSET Nat /\ D # {} /\ DOMAIN list = 1..Len(list) /\ Len(list) \in Nat
  BY DEF ToSet
<1>2. PICK m \in D : \A i \in D : m <= i
  <2> HIDE DEF D
  <2> QED
    BY <1>1, FirstPosition
<1>3. m \in DOMAIN list /\ list[m] = x /\ \A j \in 1..(m - 1) : list[j] # x
  BY <1>1, <1>2
<1>4. FirstAt(list, x) \in DOMAIN list /\ list[FirstAt(list, x)] = x
      /\ \A j \in 1..(FirstAt(list, x) - 1) : list[j] # x
  BY <1>3 DEF FirstAt
<1> QED
  BY <1>1, <1>4

\* The places in a list are an order.
LEMMA PlacesOrder ==
  ASSUME NEW T, NEW list \in Seq(T), NEW S \in SUBSET ToSet(list)
  PROVE  IsOrder(ByPlace(list, S), S)
<1>1. \A x \in S : FirstAt(list, x) \in Nat /\ list[FirstAt(list, x)] = x
  BY FirstPlace
<1>2. \A x, y \in S : <<x, y>> \in ByPlace(list, S) <=> FirstAt(list, x) < FirstAt(list, y)
  BY DEF ByPlace
<1> QED
  BY <1>1, <1>2 DEF IsOrder

\* A list is finite.
LEMMA ListFinite == ASSUME NEW T, NEW list \in Seq(T) PROVE IsFiniteSet(ToSet(list))
<1>1. Len(list) \in Nat /\ DOMAIN list = 1..Len(list)
  OBVIOUS
<1> DEFINE f == [i \in 1..Len(list) |-> list[i]]
<1>2. f \in Surjection(1..Len(list), ToSet(list))
  BY <1>1 DEF Surjection, ToSet
<1>3. IsFiniteSet(1..Len(list))
  BY <1>1, FS_Interval
<1> HIDE DEF f
<1> QED
  BY <1>2, <1>3, FS_Surjection

\* What a list sorts is each element of S, once.
LEMMA SortedByLists ==
  ASSUME NEW T, NEW list \in Seq(T), NEW S \in SUBSET ToSet(list)
  PROVE  Lists(SortedBy(list, S), S) /\ IsFiniteSet(S)
<1>1. IsFiniteSet(S)
  BY ListFinite, FS_Subset
<1> DEFINE b == ByPlace(list, S)
<1>2. IsOrder(b, S)
  BY PlacesOrder
<1>3. SortedBy(list, S) = Sorted(S, b)
  BY DEF SortedBy, b
<1> HIDE DEF b
<1>4. Lists(Sorted(S, b), S)
  BY <1>1, <1>2, SortedLists, Zenon
<1> QED
  BY <1>1, <1>3, <1>4

\* So do numbers, in increasing order.
LEMMA IncreasingLists ==
  ASSUME NEW n \in Nat, NEW S \in SUBSET (1..n)
  PROVE  Lists(Increasing(S), S)
<1>1. IsFiniteSet(S)
  <2>1. IsFiniteSet(1..n)
    BY FS_Interval
  <2> QED
    BY <2>1, FS_Subset
<1>2. IsOrder(ByNumber(S), S)
  BY DEF IsOrder, ByNumber
<1> QED
  BY <1>1, <1>2, SortedLists DEF Increasing

-----------------------------------------------------------------------------
(* Picking nodes on Grid'5000, turn by turn *)

\* What is picked is in the pool, each thing once, as many as are asked for or all.
Picks(things, S, n) ==
    /\ things \in Seq(S) /\ Len(things) \in Nat /\ DOMAIN things = 1..Len(things) /\ ToSet(things) \subseteq S
    /\ \A i, j \in DOMAIN things : things[i] = things[j] => i = j
    /\ IsFiniteSet(ToSet(things)) /\ Cardinality(ToSet(things)) = Len(things)
    /\ n \in Nat => Len(things) <= n /\ (Len(things) < n => ToSet(things) = S)

\* A sequence without repetition has as many elements as places.
LEMMA OnceCounts ==
  ASSUME NEW S, NEW seq \in Seq(S), \A i, j \in DOMAIN seq : seq[i] = seq[j] => i = j
  PROVE  IsFiniteSet(ToSet(seq)) /\ Cardinality(ToSet(seq)) = Len(seq)
<1>1. Len(seq) \in Nat /\ DOMAIN seq = 1..Len(seq)
  OBVIOUS
<1>2. IsFiniteSet(1..Len(seq)) /\ Cardinality(1..Len(seq)) = Len(seq)
  BY <1>1, FS_Interval
<1> DEFINE f == [i \in 1..Len(seq) |-> seq[i]]
<1>3. f \in Bijection(1..Len(seq), ToSet(seq))
  BY <1>1 DEF Bijection, Injection, IsInjective, Surjection, ToSet
<1> HIDE DEF f
<1>4. IsFiniteSet(ToSet(seq)) /\ Cardinality(ToSet(seq)) = Cardinality(1..Len(seq))
  BY <1>2, <1>3, FS_Bijection DEF ExistsBijection
<1> QED
  BY <1>2, <1>4

\* What a slice of Python takes.
LEMMA CutIs ==
  ASSUME NEW size \in Nat, NEW n \in Int
  PROVE  /\ Cut(size, n) \in 0..size
         /\ n \in Nat => Cut(size, n) <= n /\ (Cut(size, n) < n => Cut(size, n) = size)
<1>1. CASE n < 0
  <2>1. Cut(size, n) = Max({0, size + n})
    BY <1>1 DEF Cut
  <2>2. Max({0, size + n}) = IF size + n >= 0 THEN size + n ELSE 0
    BY DEF Max
  <2> QED
    BY <1>1, <2>1, <2>2
<1>2. CASE ~(n < 0)
  <2>1. Cut(size, n) = Min({n, size})
    BY <1>2 DEF Cut
  <2>2. Min({n, size}) = IF n <= size THEN n ELSE size
    BY DEF Min
  <2> QED
    BY <1>2, <2>1, <2>2
<1> QED
  BY <1>1, <1>2

\* pick_things: things of the pool, once each, as many as asked for if they are there.
LEMMA PickIs ==
  ASSUME NEW T, NEW list \in Seq(T), NEW S \in SUBSET ToSet(list), NEW n \in Int
  PROVE  Picks(PickThings(list, S, n), S, n)
<1> DEFINE all == SortedBy(list, S)
           size == Cut(Cardinality(S), n)
           things == PickThings(list, S, n)
<1>1. Lists(all, S)
  BY SortedByLists
<1>2. all \in Seq(S) /\ Len(all) = Cardinality(S) /\ Len(all) \in Nat /\ DOMAIN all = 1..Len(all) /\ ToSet(all) = S
      /\ \A i, j \in DOMAIN all : all[i] = all[j] => i = j
  <2> HIDE DEF all
  <2> QED
    BY <1>1, ListIs
<1>3. size \in 0..Len(all) /\ (n \in Nat => size <= n /\ (size < n => size = Len(all)))
  BY <1>2, CutIs
<1>4. things = SubSeq(all, 1, size)
  BY DEF PickThings
<1> HIDE DEF all, size, things
<1>5. things \in Seq(S) /\ Len(things) = size /\ DOMAIN things = 1..size /\ \A i \in 1..size : things[i] = all[i]
  BY <1>2, <1>3, <1>4
<1>6. \A i, j \in DOMAIN things : things[i] = things[j] => i = j
  BY <1>2, <1>3, <1>5
<1>7. IsFiniteSet(ToSet(things)) /\ Cardinality(ToSet(things)) = Len(things)
  BY <1>5, <1>6, OnceCounts
<1>8. ToSet(things) \subseteq S
  BY <1>5 DEF ToSet
<1>9. size = Len(all) => ToSet(things) = S
  BY <1>2, <1>5 DEF ToSet
<1>10. Picks(things, S, n)
  BY <1>3, <1>5, <1>6, <1>7, <1>8, <1>9 DEF Picks
<1> QED
  BY <1>10 DEF things

-----------------------------------------------------------------------------
(* The nodes that are left after each turn *)

\* The group that is served in turn k, and which of its two turns it is.
MachineOf(c, k) == c.machines[Turns(c)[IF k <= Len(c.machines) THEN k ELSE k - Len(c.machines)]]
TurnOf(c, k) == IF k <= Len(c.machines) THEN 1 ELSE 2
\* The function left of ConcreteNodes, and that it exists.
Leaves(left, c, names, N) ==
    left = [k \in 0..N |->
              IF k = 0 THEN ToSet(names)
              ELSE Remain(left[k - 1], PickNodes(MachineOf(c, k), SortedNames(names), left[k - 1], TurnOf(c, k)))]

LEMMA LeavesExist ==
  ASSUME NEW c, NEW names, NEW N \in Nat
  PROVE  \E left : Leaves(left, c, names, N)
<1> DEFINE T == {m \in Nat : ~\E g : Leaves(g, c, names, m)}
           Then(S, k) == Remain(S, PickNodes(MachineOf(c, k), SortedNames(names), S, TurnOf(c, k)))
<1>1. ASSUME T # {} PROVE FALSE
  <2>1. PICK m \in T : \A k \in T : m <= k
    <3>1. T \in SUBSET Nat
      OBVIOUS
    <3> QED
      BY <1>1, <3>1, FirstPosition
  <2>2. m \in Nat /\ ~\E g : Leaves(g, c, names, m)
    OBVIOUS
  <2>3. m # 0
    <3> DEFINE e == [k \in 0..0 |-> ToSet(names)]
    <3>1. e = [k \in 0..0 |-> IF k = 0 THEN ToSet(names) ELSE Then(e[k - 1], k)]
      OBVIOUS
    <3> HIDE DEF e
    <3> QED
      BY <2>2, <3>1 DEF Leaves
  <2>4. m - 1 \in Nat /\ m - 1 \notin T
    BY <2>1, <2>2, <2>3
  <2>5. PICK g : Leaves(g, c, names, m - 1)
    BY <2>4
  <2> HIDE DEF T
  <2> DEFINE h == [k \in 0..m |-> IF k = 0 THEN ToSet(names) ELSE Then(g[k - 1], k)]
  <2>6. \A k \in 0..(m - 1) : h[k] = g[k]
    <3> TAKE k \in 0..(m - 1)
    <3>1. g[k] = IF k = 0 THEN ToSet(names) ELSE Then(g[k - 1], k)
      BY <2>5 DEF Leaves
    <3>2. k \in 0..m
      BY <2>2
    <3> HIDE DEF Then
    <3> QED
      BY <3>1, <3>2
  <2>7. \A k \in 0..m : k # 0 => k - 1 \in 0..(m - 1)
    BY <2>2
  <2>8. h = [k \in 0..m |-> IF k = 0 THEN ToSet(names) ELSE Then(h[k - 1], k)]
    <3> HIDE DEF Then
    <3> QED
      BY <2>6, <2>7
  <2> HIDE DEF h
  <2> QED
    BY <2>2, <2>8 DEF Leaves
<1> QED
  BY <1>1

\* What the turns give, and what becomes of it.
GotAt(left, c, names, k) == PickNodes(MachineOf(c, k), SortedNames(names), left[k - 1], TurnOf(c, k))

\* _concretize_nodes, by turns.
Concretes(left, c, names) ==
    /\ Leaves(left, c, names, 2 * Len(c.machines))
    /\ ConcreteNodes(c, names).ok
         = \A k \in 1..Len(c.machines) : Len(GotAt(left, c, names, k)) >= MachineOf(c, k).min
    /\ ConcreteNodes(c, names).groups
         = [k \in 1..Len(c.machines) |->
              [group |-> Turns(c)[k],
               nodes |-> GotAt(left, c, names, k) \o GotAt(left, c, names, Len(c.machines) + k)]]

\* The turns of _concretize_nodes.
LEMMA ConcreteIs ==
  ASSUME NEW c, NEW names, Len(c.machines) \in Nat
  PROVE  \E left : Concretes(left, c, names)
<1> DEFINE n == Len(c.machines)
           step(left, k) == PickNodes(MachineOf(c, k), SortedNames(names), left[k - 1], TurnOf(c, k))
           left == CHOOSE left : left = [k \in 0..(2 * n) |->
                      IF k = 0 THEN ToSet(names) ELSE Remain(left[k - 1], step(left, k))]
<1>0. n \in Nat /\ 2 * n \in Nat
  OBVIOUS
<1>1. Leaves(left, c, names, 2 * n)
  BY <1>0, LeavesExist DEF Leaves
<1> DEFINE things == [k \in 1..(2 * n) |-> step(left, k)]
<1>2. ConcreteNodes(c, names) =
        [ok |-> \A k \in 1..n : Len(things[k]) >= MachineOf(c, k).min,
         groups |-> [k \in 1..n |-> [group |-> Turns(c)[k], nodes |-> things[k] \o things[n + k]]]]
  BY DEF ConcreteNodes, MachineOf, TurnOf
<1> HIDE DEF left
<1>3. \A k \in 1..n : things[k] = GotAt(left, c, names, k) /\ things[n + k] = GotAt(left, c, names, n + k)
  BY <1>0 DEF GotAt
<1> DEFINE fine == \A k \in 1..n : Len(things[k]) >= MachineOf(c, k).min
           all == [k \in 1..n |-> [group |-> Turns(c)[k], nodes |-> things[k] \o things[n + k]]]
<1>6. ConcreteNodes(c, names) = [ok |-> fine, groups |-> all]
  BY <1>2, Zenon
<1>7. ConcreteNodes(c, names).ok = fine /\ ConcreteNodes(c, names).groups = all
  <2> HIDE DEF fine, all
  <2> QED
    BY <1>6
<1> HIDE DEF things
<1>4. ConcreteNodes(c, names).ok = \A k \in 1..n : Len(GotAt(left, c, names, k)) >= MachineOf(c, k).min
  BY <1>3, <1>7
<1>5. ConcreteNodes(c, names).groups
        = [k \in 1..n |-> [group |-> Turns(c)[k], nodes |-> GotAt(left, c, names, k) \o GotAt(left, c, names, n + k)]]
  <2>1. ConcreteNodes(c, names).groups = [k \in 1..n |-> [group |-> Turns(c)[k], nodes |-> things[k] \o things[n + k]]]
    BY <1>7, Zenon
  <2>2. \A k \in 1..n : [group |-> Turns(c)[k], nodes |-> things[k] \o things[n + k]]
           = [group |-> Turns(c)[k], nodes |-> GotAt(left, c, names, k) \o GotAt(left, c, names, n + k)]
    BY <1>3, Zenon
  <2> QED
    BY <2>1, <2>2, Zenon
<1> QED
  BY <1>1, <1>4, <1>5 DEF Concretes

-----------------------------------------------------------------------------
(* The configurations of Grid'5000, read and finalised *)

\* A configuration that is finalised: its machines have their primary network.
FinalOK(c) ==
    /\ c.machines \in Seq(MachineOK(c)) /\ c.networks \in Seq(NetworkOK(c))
    /\ \A i \in DOMAIN c.machines :
          /\ c.machines[i].primary \in IdsOf(c)
          /\ \A s \in ToSet(c.machines[i].servers) : ClusterOf[s] = c.machines[i].cluster
    /\ {c.deploy, c.dhcp, c.static} \subseteq BOOLEAN /\ (HasKavlan(c) => c.deploy)

\* A configuration, by its own networks.
ConfRecords(c) ==
    [machines : Seq(MachineOK(c)), networks : Seq(NetworkOK(c)), deploy : BOOLEAN, env : BOOLEAN,
     dhcp : BOOLEAN, dictionary : BOOLEAN, static : BOOLEAN]

\* What from_dictionary reads is a configuration, of the same networks.
LEMMA ReadOK ==
  ASSUME NEW c, G5kConfOK(c)
  PROVE  LET d == FromDictionary(c)
         IN  G5kConfOK(d) /\ d.networks = c.networks /\ d.deploy = c.deploy /\ d.env = c.env
<1> DEFINE d == FromDictionary(c)
           M == c.machines
           X == [i \in DOMAIN M |-> ReadMachine(c, M[i])]
<1>1. c \in ConfRecords(c) /\ M \in Seq(MachineOK(c)) /\ c.networks \in Seq(NetworkOK(c))
      /\ DOMAIN M = 1..Len(M) /\ Len(M) \in Nat
  BY DEF G5kConfOK, ConfRecords
<1>2. d = [c EXCEPT !.machines = X]
  BY DEF FromDictionary
<1> HIDE DEF d, X
<1>3. /\ d.machines = X /\ d.networks = c.networks /\ d.deploy = c.deploy /\ d.env = c.env
      /\ IdsOf(d) = IdsOf(c) /\ MachineOK(d) = MachineOK(c) /\ NetworkOK(d) = NetworkOK(c)
      /\ X \in Seq(MachineOK(c)) => d \in ConfRecords(c)
  <2>1. d.machines = X /\ d.networks = c.networks /\ d.deploy = c.deploy /\ d.env = c.env
    BY <1>1, <1>2 DEF ConfRecords
  <2>2. X \in Seq(MachineOK(c)) => d \in ConfRecords(c)
    BY <1>1, <1>2 DEF ConfRecords
  <2>3. IdsOf(d) = IdsOf(c)
    BY <2>1 DEF IdsOf
  <2> QED
    BY <2>1, <2>2, <2>3 DEF MachineOK, NetworkOK
<1>4. ASSUME NEW i \in DOMAIN M
      PROVE  ReadMachine(c, M[i]) \in MachineOK(c) /\ ReadMachine(c, M[i]).servers = M[i].servers
             /\ ReadMachine(c, M[i]).cluster = M[i].cluster
  <2> DEFINE m == M[i]
             K == {k \in DOMAIN c.networks : c.networks[k].id \in ToSet(m.secondary)}
             wanted == Increasing(K)
             ids == [r \in DOMAIN wanted |-> c.networks[wanted[r]].id]
  <2>1. m \in MachineOK(c) /\ m.servers \in Seq(G5kNodes) /\ m.nodes \in Nat
    <3>1. m \in MachineOK(c)
      <4> HIDE DEF M
      <4> QED
        BY <1>1, <1>4
    <3> HIDE DEF m
    <3> QED
      BY <3>1 DEF MachineOK
  <2>2. K \subseteq 1..Len(c.networks) /\ Len(c.networks) \in Nat
    BY <1>1
  <2>3. \A k \in K : c.networks[k].id \in IdsOf(c)
    BY DEF IdsOf
  <2> HIDE DEF K
  <2>4. Lists(wanted, K)
    BY <2>2, IncreasingLists
  <2> HIDE DEF wanted
  <2>5. wanted \in Seq(K) /\ DOMAIN wanted = 1..Len(wanted) /\ Len(wanted) \in Nat
    BY <2>4, ListIs
  <2>6. ids \in Seq(IdsOf(c))
    <3>1. \A r \in 1..Len(wanted) : c.networks[wanted[r]].id \in IdsOf(c)
      BY <2>3, <2>5
    <3>2. ids = [r \in 1..Len(wanted) |-> c.networks[wanted[r]].id]
      BY <2>5
    <3> QED
      BY <2>5, <3>1, <3>2
  <2>7. ReadMachine(c, m) = [servers |-> m.servers, cluster |-> m.cluster, primary |-> m.primary, min |-> 0,
                               nodes |-> IF IsServers(m) THEN Len(m.servers) ELSE m.nodes, secondary |-> ids]
    BY DEF ReadMachine, K, wanted
  <2> HIDE DEF ids
  <2>8. Len(m.servers) \in Nat
    BY <2>1
  <2> HIDE DEF m, M
  <2>9. ReadMachine(c, m) \in MachineOK(c) /\ ReadMachine(c, m).servers = m.servers /\ ReadMachine(c, m).cluster = m.cluster
    BY <2>1, <2>6, <2>7, <2>8 DEF MachineOK
  <2> QED
    BY <2>9 DEF m
<1>5. X \in Seq(MachineOK(c)) /\ DOMAIN X = DOMAIN M /\ \A i \in DOMAIN M : X[i] = ReadMachine(c, M[i])
  BY <1>1, <1>4 DEF X
<1>6. \A i \in DOMAIN d.machines : \A s \in ToSet(d.machines[i].servers) : ClusterOf[s] = d.machines[i].cluster
  <2>1. \A i \in DOMAIN M : \A s \in ToSet(M[i].servers) : ClusterOf[s] = M[i].cluster
    BY DEF G5kConfOK
  <2> QED
    BY <1>3, <1>4, <1>5, <2>1
<1>7. d \in ConfRecords(d)
  BY <1>3, <1>5 DEF ConfRecords
<1>8. G5kConfOK(d)
  BY <1>6, <1>7 DEF G5kConfOK, ConfRecords
<1> QED
  BY <1>3, <1>8 DEF d

\* The networks that are fresh: one for each site that lacks one.
LacksProd(c, i) == c.machines[i].primary = "none" /\ ProdsAt(c, SiteOfMachine(c.machines[i])) = {}
\* The machines that lack a production network, and the networks made for them.
MakersOf(c) == Increasing({i \in DOMAIN c.machines : MakesProd(c, i)})
MadeBy(c) ==
    [k \in DOMAIN MakersOf(c) |->
        LET site == SiteOfMachine(c.machines[MakersOf(c)[k]])
        IN  [id |-> ProdName(site), site |-> site, type |-> "prod"]]

\* Each site that lacks a production network gets one.
LEMMA MadeIs ==
  ASSUME NEW c, G5kConfOK(c)
  PROVE  /\ MadeBy(c) \in Seq([id : {MadeBy(c)[k].id : k \in DOMAIN MadeBy(c)}, site : Range(SiteOfCluster), type : {"prod"}])
         /\ \A i \in DOMAIN c.machines : LacksProd(c, i) =>
              \E k \in DOMAIN MadeBy(c) : MadeBy(c)[k].id = ProdName(SiteOfMachine(c.machines[i]))
<1> DEFINE M == c.machines
           K == {i \in DOMAIN M : MakesProd(c, i)}
           mk == MakersOf(c)
           fresh == MadeBy(c)
           site(i) == SiteOfMachine(M[i])
           ids == {fresh[k].id : k \in DOMAIN fresh}
<1>1. M \in Seq(MachineOK(c)) /\ DOMAIN M = 1..Len(M) /\ Len(M) \in Nat
  BY DEF G5kConfOK
<1>2. \A i \in DOMAIN M : site(i) \in Range(SiteOfCluster)
  <2> TAKE i \in DOMAIN M
  <2>1. M[i] \in MachineOK(c)
    BY <1>1
  <2>2. M[i].cluster \in DOMAIN SiteOfCluster
    BY <2>1 DEF MachineOK
  <2> QED
    BY <2>2 DEF SiteOfMachine, Range
<1>3. K \subseteq 1..Len(M) /\ \A i \in K : i \in DOMAIN M
  BY <1>1
<1> HIDE DEF K
<1>4. mk = Increasing(K)
  BY DEF MakersOf, K
<1> HIDE DEF mk
<1>5. Lists(mk, K)
  BY <1>1, <1>3, <1>4, IncreasingLists
<1>6. mk \in Seq(K) /\ DOMAIN mk = 1..Len(mk) /\ Len(mk) \in Nat /\ ToSet(mk) = K
  BY <1>5, ListIs
<1>7. fresh = [k \in 1..Len(mk) |-> [id |-> ProdName(site(mk[k])), site |-> site(mk[k]), type |-> "prod"]]
  BY <1>6 DEF MadeBy, mk
<1> HIDE DEF site
<1>8. fresh \in Seq([id : ids, site : Range(SiteOfCluster), type : {"prod"}])
  <2>1. DOMAIN fresh = 1..Len(mk)
    BY <1>7
  <2>2. \A k \in 1..Len(mk) : fresh[k] \in [id : ids, site : Range(SiteOfCluster), type : {"prod"}]
    <3> TAKE k \in 1..Len(mk)
    <3>1. mk[k] \in K
      BY <1>6
    <3>2. fresh[k] = [id |-> ProdName(site(mk[k])), site |-> site(mk[k]), type |-> "prod"] /\ k \in DOMAIN fresh
      BY <1>7
    <3>3. site(mk[k]) \in Range(SiteOfCluster)
      BY <1>2, <1>3, <3>1
    <3>4. fresh[k].id \in ids
      BY <3>2
    <3> HIDE DEF fresh, ids
    <3> QED
      BY <3>2, <3>3, <3>4
  <2>3. fresh = [k \in 1..Len(mk) |-> fresh[k]]
    BY <1>7
  <2> HIDE DEF fresh, ids
  <2> QED
    BY <1>6, <2>2, <2>3
<1>9. ASSUME NEW i \in DOMAIN M, LacksProd(c, i)
      PROVE  \E k \in DOMAIN fresh : fresh[k].id = ProdName(site(i))
  <2> DEFINE F == {j \in DOMAIN M : LacksProd(c, j) /\ site(j) = site(i)}
  <2>1. i \in F /\ F \in SUBSET Nat
    BY <1>1, <1>9
  <2>2. PICK j \in F : \A l \in F : j <= l
    <3> HIDE DEF F
    <3> QED
      BY <2>1, FirstPosition
  <2>3. j \in DOMAIN M /\ LacksProd(c, j) /\ site(j) = site(i) /\ \A l \in 1..(j - 1) : l \in DOMAIN M /\ ~(l \in F)
    BY <1>1, <2>2
  <2>4. \A l \in 1..(j - 1) : LacksProd(c, l) => site(l) # site(j)
    BY <2>3
  <2>5. j \in K
    BY <2>3, <2>4 DEF MakesProd, K, LacksProd, site
  <2>6. PICK k \in 1..Len(mk) : mk[k] = j
    BY <1>6, <2>5 DEF ToSet
  <2>7. k \in DOMAIN fresh /\ fresh[k] = [id |-> ProdName(site(j)), site |-> site(j), type |-> "prod"]
    BY <1>7, <2>6
  <2> HIDE DEF fresh
  <2> QED
    BY <2>3, <2>7
<1> QED
  BY <1>8, <1>9 DEF site

\* Every machine gets a primary network that the configuration has.
LEMMA PrimariesAre ==
  ASSUME NEW c, G5kConfOK(c)
  PROVE  LET d == WithPrimaries(c)
         IN  /\ d \in ConfRecords(d) /\ (HasKavlan(d) <=> HasKavlan(c)) /\ d.deploy = c.deploy
             /\ \A i \in DOMAIN d.machines :
                  /\ d.machines[i].primary \in IdsOf(d)
                  /\ \A s \in ToSet(d.machines[i].servers) : ClusterOf[s] = d.machines[i].cluster
<1> DEFINE M == c.machines
           N == c.networks
           fresh == MadeBy(c)
           new == {fresh[k].id : k \in DOMAIN fresh}
           X == [i \in DOMAIN M |-> [M[i] EXCEPT !.primary = PrimaryFor(c, M[i])]]
           Y == N \o fresh
           d == WithPrimaries(c)
           sites == Range(SiteOfCluster)
           kinds == KavlanTypes \cup {"prod", "slash_16", "slash_22"}
<1>1. c \in ConfRecords(c) /\ M \in Seq(MachineOK(c)) /\ N \in Seq(NetworkOK(c))
      /\ DOMAIN M = 1..Len(M) /\ Len(M) \in Nat /\ DOMAIN N = 1..Len(N) /\ Len(N) \in Nat
  BY DEF G5kConfOK, ConfRecords
<1>2. d = [c EXCEPT !.networks = Y, !.machines = X]
  BY DEF WithPrimaries, MadeBy, MakersOf
<1>3. fresh \in Seq([id : new, site : sites, type : {"prod"}])
      /\ \A i \in DOMAIN M : LacksProd(c, i) => \E k \in DOMAIN fresh : fresh[k].id = ProdName(SiteOfMachine(M[i]))
  BY MadeIs
<1> HIDE DEF fresh
<1>4. DOMAIN fresh = 1..Len(fresh) /\ Len(fresh) \in Nat
  BY <1>3
<1> DEFINE ids == IdsOf(c) \cup new
<1>5. /\ Y \in Seq([id : ids, site : sites, type : kinds]) /\ DOMAIN Y = 1..(Len(N) + Len(fresh))
      /\ \A k \in DOMAIN N : k \in DOMAIN Y /\ Y[k] = N[k]
      /\ \A k \in DOMAIN fresh : Len(N) + k \in DOMAIN Y /\ Y[Len(N) + k] = fresh[k]
      /\ \A k \in DOMAIN Y : (k \in DOMAIN N /\ Y[k] = N[k]) \/ \E l \in DOMAIN fresh : Y[k] = fresh[l]
  <2> DEFINE R == [id : ids, site : sites, type : kinds]
  <2>1. N \in Seq(R)
    <3>1. NetworkOK(c) \subseteq R
      BY DEF NetworkOK
    <3> HIDE DEF R, N
    <3> QED
      BY <1>1, <3>1, SeqGrows
  <2>2. fresh \in Seq(R)
    <3>1. [id : new, site : sites, type : {"prod"}] \subseteq R
      <4> HIDE DEF new, sites
      <4> QED
        OBVIOUS
    <3> HIDE DEF R, new
    <3> QED
      BY <1>3, <3>1, SeqGrows
  <2>3. Y \in Seq(R)
    <3> HIDE DEF R, N
    <3> QED
      BY <2>1, <2>2
  <2> HIDE DEF R
  <2>4. DOMAIN Y = 1..(Len(N) + Len(fresh))
    BY <1>1, <1>4, <2>1, <2>2
  <2>5. \A k \in DOMAIN N : k \in DOMAIN Y /\ Y[k] = N[k]
    BY <1>1, <1>4, <2>1, <2>2
  <2>6. \A k \in DOMAIN fresh : Len(N) + k \in DOMAIN Y /\ Y[Len(N) + k] = fresh[k]
    BY <1>1, <1>4, <2>1, <2>2
  <2>7. \A k \in DOMAIN Y : (k \in DOMAIN N /\ Y[k] = N[k]) \/ \E l \in DOMAIN fresh : Y[k] = fresh[l]
    <3> TAKE k \in DOMAIN Y
    <3>1. CASE k \in DOMAIN N
      BY <2>5, <3>1
    <3>2. CASE k \notin DOMAIN N
      <4>1. k - Len(N) \in DOMAIN fresh /\ Len(N) + (k - Len(N)) = k
        BY <1>1, <1>4, <2>4, <3>2
      <4> QED
        BY <2>6, <4>1
    <3> QED
      BY <3>1, <3>2
  <2> QED
    BY <2>3, <2>4, <2>5, <2>6, <2>7 DEF R
<1> HIDE DEF Y, X, d
<1>6. d.machines = X /\ d.networks = Y /\ d.deploy = c.deploy
  BY <1>1, <1>2 DEF ConfRecords
<1>7. IdsOf(d) = ids
  <2>1. IdsOf(d) = {Y[k].id : k \in DOMAIN Y}
    BY <1>6 DEF IdsOf
  <2>2. \A k \in DOMAIN Y : Y[k].id \in ids
    <3> DEFINE R == [id : ids, site : sites, type : kinds]
    <3>1. \A k \in DOMAIN Y : Y[k] \in R
      <4> HIDE DEF R
      <4>1. Y \in Seq(R)
        BY <1>5 DEF R
      <4> QED
        BY <4>1
    <3>2. \A r \in R : r.id \in ids
      <4> HIDE DEF ids, sites, kinds
      <4> QED
        OBVIOUS
    <3> QED
      BY <3>1, <3>2
  <2>3. ASSUME NEW x \in ids PROVE \E k \in DOMAIN Y : Y[k].id = x
    <3>1. CASE x \in IdsOf(c)
      BY <1>5, <3>1 DEF IdsOf
    <3>2. CASE x \in new
      BY <1>5, <3>2
    <3> QED
      BY <3>1, <3>2
  <2> HIDE DEF ids
  <2> QED
    BY <2>1, <2>2, <2>3
<1>8. ASSUME NEW i \in DOMAIN M PROVE PrimaryFor(c, M[i]) \in ids
  <2> DEFINE prods == ProdsAt(c, SiteOfMachine(M[i]))
  <2>0. M[i] \in MachineOK(c)
    BY <1>1
  <2>1. CASE M[i].primary # "none"
    <3>1. M[i].primary \in IdsOf(c) \cup {"none"}
      BY <2>0 DEF MachineOK
    <3> QED
      BY <2>1, <3>1 DEF PrimaryFor
  <2>2. CASE M[i].primary = "none" /\ prods = {}
    <3>1. LacksProd(c, i)
      BY <2>2 DEF LacksProd
    <3>2. PICK k \in DOMAIN fresh : fresh[k].id = ProdName(SiteOfMachine(M[i]))
      BY <1>3, <3>1
    <3>3. PrimaryFor(c, M[i]) = ProdName(SiteOfMachine(M[i]))
      BY <2>2 DEF PrimaryFor
    <3> QED
      BY <3>2, <3>3
  <2>3. CASE M[i].primary = "none" /\ prods # {}
    <3>1. prods \in SUBSET Nat /\ prods \subseteq DOMAIN N
      BY <1>1 DEF ProdsAt
    <3>2. Min(prods) \in prods
      <4> HIDE DEF prods
      <4> QED
        BY <2>3, <3>1, FirstPosition
    <3>3. PrimaryFor(c, M[i]) = N[Min(prods)].id
      BY <2>3 DEF PrimaryFor
    <3>4. N[Min(prods)].id \in IdsOf(c)
      BY <3>1, <3>2 DEF IdsOf
    <3> QED
      BY <3>3, <3>4
  <2> QED
    BY <2>1, <2>2, <2>3
<1>9. ASSUME NEW i \in DOMAIN M
      PROVE  X[i] \in MachineOK(d) /\ X[i].primary \in ids /\ X[i].servers = M[i].servers /\ X[i].cluster = M[i].cluster
  <2> DEFINE m == M[i]
             p == PrimaryFor(c, M[i])
  <2>1. m \in MachineOK(c) /\ X[i] = [m EXCEPT !.primary = p] /\ p \in ids
    BY <1>1, <1>8 DEF X
  <2>2. Seq(IdsOf(c)) \subseteq Seq(ids)
    BY SeqGrows
  <2> HIDE DEF m, p, M, ids
  <2> QED
    BY <1>7, <2>1, <2>2 DEF MachineOK, m, M
<1>10. X \in Seq(MachineOK(d)) /\ DOMAIN X = DOMAIN M
  <2>1. DOMAIN X = 1..Len(M) /\ X = [i \in 1..Len(M) |-> X[i]]
    BY <1>1 DEF X
  <2>2. \A i \in 1..Len(M) : X[i] \in MachineOK(d)
    BY <1>1, <1>9
  <2>3. Len(M) \in Nat
    BY <1>1
  <2> DEFINE R == MachineOK(d)
  <2>4. \A i \in 1..Len(M) : X[i] \in R
    BY <2>2
  <2> HIDE DEF R
  <2> DEFINE n == Len(M)
  <2>5. n \in Nat /\ X = [i \in 1..n |-> X[i]] /\ \A i \in 1..n : X[i] \in R
    BY <2>1, <2>3, <2>4
  <2> HIDE DEF n
  <2>6. X \in Seq(R)
    BY <2>5
  <2> QED
    BY <1>1, <2>1, <2>6 DEF R
<1>11. Y \in Seq(NetworkOK(d))
  BY <1>5, <1>7 DEF NetworkOK
<1>12. d \in ConfRecords(d)
  BY <1>1, <1>2, <1>10, <1>11 DEF ConfRecords
<1>13. HasKavlan(d) <=> HasKavlan(c)
  <2>1. HasKavlan(d) <=> \E k \in DOMAIN Y : Y[k].type \in KavlanTypes
    BY <1>6 DEF HasKavlan
  <2>2. \A l \in DOMAIN fresh : fresh[l].type = "prod"
    <3> DEFINE R == [id : new, site : sites, type : {"prod"}]
    <3>1. \A l \in DOMAIN fresh : fresh[l] \in R
      <4> HIDE DEF R
      <4>1. fresh \in Seq(R)
        BY <1>3 DEF R
      <4> QED
        BY <4>1
    <3>2. \A r \in R : r.type = "prod"
      <4> HIDE DEF new, sites
      <4> QED
        OBVIOUS
    <3> QED
      BY <3>1, <3>2
  <2>3. "prod" \notin KavlanTypes
    BY DEF KavlanTypes
  <2> QED
    BY <1>5, <2>1, <2>2, <2>3 DEF HasKavlan
<1>14. \A i \in DOMAIN M : \A s \in ToSet(M[i].servers) : ClusterOf[s] = M[i].cluster
  BY DEF G5kConfOK
<1>15. \A i \in DOMAIN d.machines :
         /\ d.machines[i].primary \in IdsOf(d)
         /\ \A s \in ToSet(d.machines[i].servers) : ClusterOf[s] = d.machines[i].cluster
  BY <1>6, <1>7, <1>9, <1>10, <1>14
<1> QED
  BY <1>6, <1>12, <1>13, <1>15 DEF d

\* What finalize makes of any configuration that may be written.
LEMMA FinalizedOK ==
  ASSUME NEW c \in G5kConfs
  PROVE  FinalOK(Finalized(c))
<1> DEFINE read == IF c.dictionary THEN FromDictionary(c) ELSE c
           d == WithPrimaries(read)
           f == Finalized(c)
<1>1. G5kConfOK(c)
  BY G5kResourcesAssumption
<1>2. G5kConfOK(read)
  BY <1>1, ReadOK
<1>3. read.deploy \in BOOLEAN /\ read.env \in BOOLEAN
  BY <1>2 DEF G5kConfOK
<1>4. Deploys(read) \in BOOLEAN /\ (HasKavlan(read) => Deploys(read))
  BY <1>3 DEF Deploys, HasKavlan
<1>5. f = [d EXCEPT !.deploy = Deploys(read)]
  BY DEF Finalized
<1> HIDE DEF read
<1>6. /\ d \in ConfRecords(d) /\ (HasKavlan(d) <=> HasKavlan(read))
      /\ \A i \in DOMAIN d.machines :
           /\ d.machines[i].primary \in IdsOf(d)
           /\ \A s \in ToSet(d.machines[i].servers) : ClusterOf[s] = d.machines[i].cluster
  BY <1>2, PrimariesAre
<1> HIDE DEF d, f
<1>7. f.machines = d.machines /\ f.networks = d.networks /\ f.deploy = Deploys(read) /\ f.dhcp = d.dhcp /\ f.static = d.static
  BY <1>4, <1>5, <1>6 DEF ConfRecords
<1>8. IdsOf(f) = IdsOf(d) /\ (HasKavlan(f) <=> HasKavlan(d))
  BY <1>7 DEF IdsOf, HasKavlan
<1>9. MachineOK(f) = MachineOK(d) /\ NetworkOK(f) = NetworkOK(d)
  BY <1>8 DEF MachineOK, NetworkOK
<1>10. d.machines \in Seq(MachineOK(d)) /\ d.networks \in Seq(NetworkOK(d)) /\ d.dhcp \in BOOLEAN /\ d.static \in BOOLEAN
  BY <1>6 DEF ConfRecords
<1>11. FinalOK(f)
  BY <1>4, <1>6, <1>7, <1>8, <1>9, <1>10 DEF FinalOK
<1> QED
  BY <1>11 DEF f

-----------------------------------------------------------------------------
(* The nodes of the groups *)

\* Lists of servers have rank 0, then clusters by min.
RankA(m) == IF IsServers(m) THEN 0 ELSE 1
\* sort: lists of servers first, then by min.
RankB(m) == IF IsServers(m) THEN 0 ELSE m.min
\* Machines in the order of sort, and those that are the same in their own.
Goes(c) ==
    {p \in (DOMAIN c.machines) \X (DOMAIN c.machines) :
        LET a == c.machines[p[1]]
            b == c.machines[p[2]]
        IN  \/ RankA(a) < RankA(b)
            \/ RankA(a) = RankA(b) /\ RankB(a) < RankB(b)
            \/ RankA(a) = RankA(b) /\ RankB(a) = RankB(b) /\ p[1] < p[2]}

\* The turns are the machines in that order.
LEMMA TurnsSorted ==
  ASSUME NEW c
  PROVE  Turns(c) = Sorted(DOMAIN c.machines, Goes(c))
<1> DEFINE D == DOMAIN c.machines
           key(m) == IF IsServers(m) THEN <<0, 0>> ELSE <<1, m.min>>
           earlier(i, j) ==
             LET a == key(c.machines[i])
                 b == key(c.machines[j])
             IN  \/ a[1] < b[1]
                 \/ a[1] = b[1] /\ a[2] < b[2]
                 \/ a = b /\ i < j
           B == {p \in D \X D : earlier(p[1], p[2])}
<1>1. Turns(c) = Sorted(D, B)
  BY DEF Turns
<1>2. \A m : key(m)[1] = RankA(m) /\ key(m)[2] = RankB(m)
  BY DEF RankA, RankB
<1>3. \A m, k : key(m) = key(k) <=> RankA(m) = RankA(k) /\ RankB(m) = RankB(k)
  BY DEF RankA, RankB
<1> HIDE DEF key
<1>4. B = Goes(c)
  BY <1>2, <1>3 DEF Goes
<1> QED
  BY <1>1, <1>4

\* Each group has its turn, and lists of servers go before clusters.
LEMMA TurnsAre ==
  ASSUME NEW c, FinalOK(c)
  PROVE  /\ Lists(Turns(c), DOMAIN c.machines)
         /\ \A k, l \in DOMAIN Turns(c) :
              IsServers(c.machines[Turns(c)[l]]) /\ ~IsServers(c.machines[Turns(c)[k]]) => l < k
<1> DEFINE M == c.machines
           D == DOMAIN M
           B == Goes(c)
           n == Len(M)
           t == Turns(c)
<1>1. M \in Seq(MachineOK(c)) /\ D = 1..n /\ n \in Nat
  BY DEF FinalOK
<1>2. IsFiniteSet(D) /\ Cardinality(D) = n
  BY <1>1, FS_Interval
<1>3. \A i \in D : RankA(M[i]) \in Nat /\ RankB(M[i]) \in Nat
  <2> TAKE i \in D
  <2>1. M[i] \in MachineOK(c)
    BY <1>1
  <2>2. M[i].min \in Nat
    BY <2>1 DEF MachineOK
  <2> QED
    BY <2>2 DEF RankA, RankB
<1>4. \A i, j \in D : <<i, j>> \in B <=>
        \/ RankA(M[i]) < RankA(M[j])
        \/ RankA(M[i]) = RankA(M[j]) /\ RankB(M[i]) < RankB(M[j])
        \/ RankA(M[i]) = RankA(M[j]) /\ RankB(M[i]) = RankB(M[j]) /\ i < j
  BY DEF Goes
<1>5. \A i, j \in D : IsServers(M[i]) /\ ~IsServers(M[j]) => <<i, j>> \in B
  BY <1>4 DEF RankA
<1> HIDE DEF B, M, n
<1>6. IsOrder(B, D)
  <2>1. \A x \in D : <<x, x>> \notin B
    BY <1>1, <1>3, <1>4
  <2>2. ASSUME NEW x \in D, NEW y \in D, x # y PROVE <<x, y>> \in B \/ <<y, x>> \in B
    <3>1. x \in Int /\ y \in Int
      BY <1>1
    <3>2. /\ RankA(M[x]) \in Nat /\ RankB(M[x]) \in Nat /\ RankA(M[y]) \in Nat /\ RankB(M[y]) \in Nat
      BY <1>3
    <3> QED
      BY <1>4, <2>2, <3>1, <3>2
  <2>3. \A x, y, z \in D : <<x, y>> \in B /\ <<y, z>> \in B => <<x, z>> \in B
    BY <1>1, <1>3, <1>4
  <2> QED
    BY <2>1, <2>2, <2>3 DEF IsOrder
<1>7. t = Sorted(D, B)
  BY TurnsSorted DEF B, M
<1>8. Lists(t, D)
  BY <1>2, <1>6, <1>7, SortedLists
<1>9. t \in Seq(D) /\ DOMAIN t = 1..Len(t) /\ Len(t) \in Nat /\ \A k \in DOMAIN t : t[k] \in D
  BY <1>8, ListIs
<1>10. \A k \in DOMAIN t : RankOf(D, B, t[k]) = k - 1
  BY <1>2, <1>6, <1>7, SortedRanks
<1>11. ASSUME NEW k \in DOMAIN t, NEW l \in DOMAIN t, IsServers(M[t[l]]), ~IsServers(M[t[k]])
       PROVE  l < k
  <2>1. <<t[l], t[k]>> \in B
    BY <1>5, <1>9, <1>11
  <2>2. RankOf(D, B, t[l]) < RankOf(D, B, t[k])
    BY <1>2, <1>6, <1>9, <2>1, RanksGrowing
  <2> QED
    BY <1>9, <1>10, <2>2
<1> QED
  BY <1>8, <1>11 DEF M, t

\* What is left before turn k, and the turns: each takes from what is left.
PileOf(S, deal, k) == {x \in S : \A l \in 1..(k - 1) : x \notin ToSet(deal[l])}
\* What the turns deal: each node once, of those that are left.
Dealt(c, S, deal) ==
    \A k \in 1..(2 * Len(c.machines)) :
        Picks(deal[k], PileOf(S, deal, k) \cap Eligible(MachineOf(c, k)), HowMany(MachineOf(c, k), TurnOf(c, k)))

\* The names of the jobs are those of their nodes.
LEMMA JobNames ==
  ASSUME NEW S, IsFiniteSet(S), NEW names \in SetToSeqs(S)
  PROVE  ToSet(names) = S
<1>1. /\ names \in [1..Cardinality(S) -> S] /\ Cardinality(S) \in Nat
      /\ \A x \in S : \E i \in DOMAIN names : names[i] = x
  BY OrderCovers
<1> QED
  BY <1>1 DEF ToSet

\* Nodes are finite.
LEMMA FiniteNodes == ASSUME NEW S \in SUBSET G5kNodes PROVE IsFiniteSet(S)
<1>1. IsFiniteSet(G5kNodes)
  BY G5kResourcesAssumption, ListFinite DEF G5kNodes
<1> QED
  BY <1>1, FS_Subset

\* The machine of a turn.
LEMMA MachinesOfTurns ==
  ASSUME NEW c, FinalOK(c), NEW k \in 1..(2 * Len(c.machines))
  PROVE  /\ MachineOf(c, k) \in MachineOK(c)
         /\ Turns(c)[IF k <= Len(c.machines) THEN k ELSE k - Len(c.machines)] \in DOMAIN c.machines
         /\ HowMany(MachineOf(c, k), TurnOf(c, k)) \in Int
<1> DEFINE n == Len(c.machines)
           l == IF k <= n THEN k ELSE k - n
           m == MachineOf(c, k)
<1>1. c.machines \in Seq(MachineOK(c)) /\ n \in Nat /\ DOMAIN c.machines = 1..n
  BY DEF FinalOK
<1>2. Lists(Turns(c), DOMAIN c.machines)
  BY TurnsAre
<1>3. Turns(c) \in Seq(DOMAIN c.machines) /\ DOMAIN Turns(c) = 1..Len(Turns(c)) /\ Len(Turns(c)) = n
  <2>1. Cardinality(1..n) = n
    BY <1>1, FS_Interval
  <2> QED
    BY <1>1, <1>2, <2>1, ListIs
<1>4. l \in 1..n
  BY <1>1
<1>5. Turns(c)[l] \in DOMAIN c.machines
  BY <1>3, <1>4
<1>6. m \in MachineOK(c)
  BY <1>1, <1>5 DEF MachineOf
<1> HIDE DEF m
<1>7. m.nodes \in Nat /\ m.min \in Nat
  BY <1>6 DEF MachineOK
<1>8. HowMany(m, TurnOf(c, k)) \in Int
  BY <1>7 DEF HowMany
<1> QED
  BY <1>5, <1>6, <1>8 DEF m

\* _concretize_nodes deals the nodes of the jobs, the minimum first, the rest after.
LEMMA ConcreteDeals ==
  ASSUME NEW c, FinalOK(c), NEW S \in SUBSET G5kNodes, NEW names \in SetToSeqs(S)
  PROVE  \E deal :
           /\ Dealt(c, S, deal)
           /\ ConcreteNodes(c, names).ok = \A k \in 1..Len(c.machines) : Len(deal[k]) >= MachineOf(c, k).min
           /\ ConcreteNodes(c, names).groups
                = [k \in 1..Len(c.machines) |-> [group |-> Turns(c)[k], nodes |-> deal[k] \o deal[Len(c.machines) + k]]]
<1> DEFINE n == Len(c.machines)
<1>1. n \in Nat /\ 2 * n \in Nat
  <2>1. n \in Nat
    BY DEF FinalOK
  <2> QED
    BY <2>1
<1>2. IsFiniteSet(S) /\ ToSet(names) = S
  <2>1. IsFiniteSet(S)
    BY FiniteNodes
  <2> QED
    BY <2>1, JobNames
<1>3a. PICK left : Concretes(left, c, names)
  <2>1. Len(c.machines) \in Nat
    BY <1>1
  <2> QED
    BY <2>1, ConcreteIs
<1>3. /\ Leaves(left, c, names, 2 * n)
      /\ ConcreteNodes(c, names).ok = \A k \in 1..n : Len(GotAt(left, c, names, k)) >= MachineOf(c, k).min
      /\ ConcreteNodes(c, names).groups
             = [k \in 1..n |-> [group |-> Turns(c)[k], nodes |-> GotAt(left, c, names, k) \o GotAt(left, c, names, n + k)]]
  BY <1>3a DEF Concretes
<1> DEFINE deal == [k \in 1..(2 * n) |-> GotAt(left, c, names, k)]
<1>4. \A k \in 1..(2 * n) : deal[k] = GotAt(left, c, names, k)
  OBVIOUS
<1> HIDE DEF deal
<1>5. left[0] = S /\ \A k \in 1..(2 * n) : left[k] = left[k - 1] \ ToSet(deal[k])
  <2>1. left[0] = S
    BY <1>1, <1>2, <1>3 DEF Leaves
  <2>2. ASSUME NEW k \in 1..(2 * n) PROVE left[k] = left[k - 1] \ ToSet(deal[k])
    <3>1. k \in 0..(2 * n) /\ k # 0
      BY <1>1
    <3>2. left[k] = Remain(left[k - 1], GotAt(left, c, names, k))
      BY <1>3, <3>1 DEF Leaves, GotAt
    <3> QED
      BY <1>4, <3>2 DEF Remain
  <2> QED
    BY <2>1, <2>2
<1>6. \A k \in 1..(2 * n) : left[k - 1] = PileOf(S, deal, k)
  <2> DEFINE T == {k \in 1..(2 * n) : left[k - 1] # PileOf(S, deal, k)}
  <2>1. ASSUME T # {} PROVE FALSE
    <3>1. PICK m \in T : \A k \in T : m <= k
      <4>1. T \in SUBSET Nat
        BY <1>1
      <4> HIDE DEF T
      <4> QED
        BY <2>1, <4>1, FirstPosition
    <3>2. m \in 1..(2 * n) /\ left[m - 1] # PileOf(S, deal, m)
      OBVIOUS
    <3>3. m # 1
      <4>1. 1..(1 - 1) = {}
        OBVIOUS
      <4>2. PileOf(S, deal, 1) = S
        BY <4>1 DEF PileOf
      <4> QED
        BY <1>5, <3>2, <4>2
    <3>4. m - 1 \in 1..(2 * n) /\ m - 1 \notin T
      BY <1>1, <3>1, <3>2, <3>3
    <3>5. left[(m - 1) - 1] = PileOf(S, deal, m - 1)
      BY <3>4
    <3>6. left[m - 1] = PileOf(S, deal, m - 1) \ ToSet(deal[m - 1])
      BY <1>5, <3>4, <3>5
    <3>7. \A l : l \in 1..(m - 1) <=> l \in 1..((m - 1) - 1) \/ l = m - 1
      BY <3>2, <3>3
    <3>8. PileOf(S, deal, m) = PileOf(S, deal, m - 1) \ ToSet(deal[m - 1])
      BY <3>7 DEF PileOf
    <3> QED
      BY <3>2, <3>6, <3>8
  <2> QED
    BY <2>1
<1>7. Dealt(c, S, deal)
  <2> SUFFICES ASSUME NEW k \in 1..(2 * n)
               PROVE  Picks(deal[k], PileOf(S, deal, k) \cap Eligible(MachineOf(c, k)), HowMany(MachineOf(c, k), TurnOf(c, k)))
    BY DEF Dealt
  <2> DEFINE m == MachineOf(c, k)
             P == PileOf(S, deal, k) \cap Eligible(m)
             list == IF IsServers(m) THEN m.servers ELSE SortedNames(names)
  <2>1. m \in MachineOK(c) /\ HowMany(m, TurnOf(c, k)) \in Int
    BY MachinesOfTurns
  <2>2. deal[k] = PickThings(list, P, HowMany(m, TurnOf(c, k)))
    BY <1>4, <1>6 DEF GotAt, PickNodes
  <2>3. Lists(SortedNames(names), S)
    <3>1. S \in SUBSET ToSet(NodesByName) /\ NodesByName \in Seq(DOMAIN ClusterOf)
      BY G5kResourcesAssumption DEF G5kNodes
    <3> QED
      BY <1>2, <3>1, SortedByLists DEF SortedNames
  <2>4. list \in Seq(G5kNodes)
    <3>1. m.servers \in Seq(G5kNodes)
      BY <2>1 DEF MachineOK
    <3>2. SortedNames(names) \in Seq(G5kNodes)
      BY <2>3, ListIs, SeqGrows
    <3> QED
      BY <3>1, <3>2
  <2>5. P \in SUBSET ToSet(list)
    <3>1. PileOf(S, deal, k) \subseteq S
      BY DEF PileOf
    <3>2. ToSet(SortedNames(names)) = S
      BY <2>3, ListIs
    <3> QED
      BY <3>1, <3>2 DEF Eligible
  <2> HIDE DEF P, list, m
  <2>6. Picks(deal[k], P, HowMany(m, TurnOf(c, k)))
    BY <2>1, <2>2, <2>4, <2>5, PickIs
  <2> QED
    BY <2>6 DEF P, m
<1>8. ConcreteNodes(c, names).ok = \A k \in 1..n : Len(deal[k]) >= MachineOf(c, k).min
  <2>1. \A k \in 1..n : k \in 1..(2 * n)
    BY <1>1
  <2> QED
    BY <1>3, <1>4, <2>1
<1>9. ConcreteNodes(c, names).groups = [k \in 1..n |-> [group |-> Turns(c)[k], nodes |-> deal[k] \o deal[n + k]]]
  <2>1. \A k \in 1..n : k \in 1..(2 * n) /\ n + k \in 1..(2 * n)
    BY <1>1
  <2> QED
    BY <1>3, <1>4, <2>1
<1> QED
  BY <1>7, <1>8, <1>9

\* What a list of groups with their nodes is: each group once, nodes of the jobs that the
\* group may have, each once, its minimum and no more than it asks for.
Spread(c, S, groups) ==
    /\ groups \in Seq([group : DOMAIN c.machines, nodes : Seq(S)])
    /\ DOMAIN groups = DOMAIN c.machines
    /\ \A k, l \in DOMAIN groups : groups[k].group = groups[l].group => k = l
    /\ \A i \in DOMAIN c.machines : \E k \in DOMAIN groups : groups[k].group = i
    /\ \A k, l \in DOMAIN groups : \A a \in DOMAIN groups[k].nodes : \A b \in DOMAIN groups[l].nodes :
         groups[k].nodes[a] = groups[l].nodes[b] => k = l /\ a = b
    /\ \A k \in DOMAIN groups :
         LET m == c.machines[groups[k].group]
             have == groups[k].nodes
         IN  /\ ToSet(have) \subseteq Eligible(m) /\ Len(have) >= m.min
             /\ m.min <= m.nodes => Len(have) <= m.nodes

\* A node is dealt once, to a group that may have it.
LEMMA DealtOnce ==
  ASSUME NEW c, NEW S, NEW deal, Dealt(c, S, deal), Len(c.machines) \in Nat,
         NEW k \in 1..(2 * Len(c.machines)), NEW l \in 1..(2 * Len(c.machines))
  PROVE  /\ DOMAIN deal[k] = 1..Len(deal[k]) /\ Len(deal[k]) \in Nat
         /\ deal[k] \in Seq(S) /\ ToSet(deal[k]) \subseteq Eligible(MachineOf(c, k))
         /\ \A a \in DOMAIN deal[k] : \A b \in DOMAIN deal[l] : deal[k][a] = deal[l][b] => k = l /\ a = b
<1>1. \A j \in 1..(2 * Len(c.machines)) :
        /\ DOMAIN deal[j] = 1..Len(deal[j]) /\ Len(deal[j]) \in Nat /\ deal[j] \in Seq(PileOf(S, deal, j) \cap Eligible(MachineOf(c, j)))
        /\ ToSet(deal[j]) \subseteq PileOf(S, deal, j) \cap Eligible(MachineOf(c, j))
        /\ \A a, b \in DOMAIN deal[j] : deal[j][a] = deal[j][b] => a = b
  BY DEF Dealt, Picks
<1>2. PileOf(S, deal, k) \cap Eligible(MachineOf(c, k)) \subseteq S
  BY DEF PileOf
<1>3. deal[k] \in Seq(S)
  BY <1>1, <1>2, SeqGrows
<1>4. ASSUME NEW i \in 1..(2 * Len(c.machines)), NEW j \in 1..(2 * Len(c.machines)), i < j
      PROVE  ToSet(deal[i]) \cap ToSet(deal[j]) = {}
  <2>1. i \in 1..(j - 1)
    BY <1>4
  <2> QED
    BY <1>1, <2>1 DEF PileOf
<1>5. ASSUME NEW a \in DOMAIN deal[k], NEW b \in DOMAIN deal[l], deal[k][a] = deal[l][b]
      PROVE  k = l /\ a = b
  <2>1. deal[k][a] \in ToSet(deal[k]) /\ deal[l][b] \in ToSet(deal[l])
    BY DEF ToSet
  <2>2. ~(k < l) /\ ~(l < k)
    BY <1>4, <1>5, <2>1
  <2>3. k = l
    BY <2>2
  <2> QED
    BY <1>1, <1>5, <2>3
<1> QED
  BY <1>1, <1>3, <1>5

\* Two lists, one after the other.
LEMMA BothLists ==
  ASSUME NEW S, NEW s \in Seq(S), NEW t \in Seq(S)
  PROVE  /\ s \o t \in Seq(S) /\ Len(s \o t) = Len(s) + Len(t) /\ DOMAIN (s \o t) = 1..(Len(s) + Len(t))
         /\ \A a \in DOMAIN (s \o t) :
              \/ a \in DOMAIN s /\ (s \o t)[a] = s[a]
              \/ a - Len(s) \in DOMAIN t /\ (s \o t)[a] = t[a - Len(s)]
         /\ ToSet(s \o t) = ToSet(s) \cup ToSet(t)
<1>1. s \o t \in Seq(S) /\ Len(s \o t) = Len(s) + Len(t) /\ DOMAIN (s \o t) = 1..(Len(s) + Len(t))
      /\ DOMAIN s = 1..Len(s) /\ DOMAIN t = 1..Len(t) /\ Len(s) \in Nat /\ Len(t) \in Nat
  OBVIOUS
<1>2. ASSUME NEW a \in DOMAIN (s \o t)
      PROVE  \/ a \in DOMAIN s /\ (s \o t)[a] = s[a]
             \/ a - Len(s) \in DOMAIN t /\ (s \o t)[a] = t[a - Len(s)]
  BY <1>1
<1>3. \A a \in DOMAIN s : a \in DOMAIN (s \o t) /\ (s \o t)[a] = s[a]
  BY <1>1
<1>4. \A a \in DOMAIN t : a + Len(s) \in DOMAIN (s \o t) /\ (s \o t)[a + Len(s)] = t[a]
  BY <1>1
<1>5. ToSet(s \o t) = ToSet(s) \cup ToSet(t)
  <2>1. \A x \in ToSet(s \o t) : x \in ToSet(s) \cup ToSet(t)
    BY <1>2 DEF ToSet
  <2>2. \A x \in ToSet(s) \cup ToSet(t) : x \in ToSet(s \o t)
    BY <1>3, <1>4 DEF ToSet
  <2> QED
    BY <2>1, <2>2
<1> QED
  BY <1>1, <1>2, <1>5

\* The groups, as they are concretised.
Groups2(c, deal) ==
    [k \in 1..Len(c.machines) |-> [group |-> Turns(c)[k], nodes |-> deal[k] \o deal[Len(c.machines) + k]]]

\* The groups that the deal makes.
LEMMA GroupsSpread ==
  ASSUME NEW c, FinalOK(c), NEW S, NEW deal, Dealt(c, S, deal),
         \A k \in 1..Len(c.machines) : Len(deal[k]) >= MachineOf(c, k).min
  PROVE  Spread(c, S, Groups2(c, deal))
<1> DEFINE n == Len(c.machines)
           g == Groups2(c, deal)
           D == DOMAIN c.machines
           t == Turns(c)
<1>1. n \in Nat /\ D = 1..n /\ \A k \in 1..n : k \in 1..(2 * n) /\ n + k \in 1..(2 * n)
  <2>1. n \in Nat /\ D = 1..n
    BY DEF FinalOK
  <2> QED
    BY <2>1
<1>2. Lists(t, D)
  BY TurnsAre
<1>3. t \in Seq(D) /\ DOMAIN t = 1..n /\ (\A i \in D : \E k \in 1..n : t[k] = i) /\ (\A k, l \in 1..n : t[k] = t[l] => k = l)
  <2>1. Cardinality(D) = n
    BY <1>1, FS_Interval
  <2> HIDE DEF t, D, n
  <2>2. t \in Seq(D) /\ Len(t) = Cardinality(D) /\ DOMAIN t = 1..Len(t) /\ ToSet(t) = D
        /\ \A i, j \in DOMAIN t : t[i] = t[j] => i = j
    BY <1>2, ListIs
  <2>3. DOMAIN t = 1..n
    BY <2>1, <2>2
  <2> QED
    BY <2>2, <2>3 DEF ToSet
<1>4. \A k \in 1..(2 * n) : deal[k] \in Seq(S) /\ ToSet(deal[k]) \subseteq Eligible(MachineOf(c, k)) /\ Len(deal[k]) \in Nat
  BY <1>1, DealtOnce
<1>5. \A k, l \in 1..(2 * n) : \A a \in DOMAIN deal[k] : \A b \in DOMAIN deal[l] : deal[k][a] = deal[l][b] => k = l /\ a = b
  BY <1>1, DealtOnce
<1>6. \A k \in 1..n : MachineOf(c, k) = c.machines[t[k]] /\ MachineOf(c, n + k) = c.machines[t[k]]
                      /\ TurnOf(c, k) = 1 /\ TurnOf(c, n + k) = 2
  <2>1. \A k \in 1..n : k <= n /\ ~(n + k <= n) /\ (n + k) - n = k
    BY <1>1
  <2> QED
    BY <2>1 DEF MachineOf, TurnOf
<1>7. \A k \in 1..n : g[k] = [group |-> t[k], nodes |-> deal[k] \o deal[n + k]]
  BY DEF Groups2
<1>8. DOMAIN g = 1..n
  BY DEF Groups2
<1>9. \A k \in 1..n : g[k].group = t[k] /\ g[k].nodes = deal[k] \o deal[n + k] /\ t[k] \in D
  <2> HIDE DEF g, t, D
  <2> TAKE k \in 1..n
  <2> DEFINE nodes == deal[k] \o deal[n + k]
             group == t[k]
  <2>1. group \in D
    BY <1>3
  <2>2. g[k] = [group |-> group, nodes |-> nodes]
    BY <1>7
  <2> HIDE DEF nodes, group
  <2>3. g[k].group = group /\ g[k].nodes = nodes
    BY <2>2
  <2> QED
    BY <2>1, <2>3 DEF nodes, group
<1>10. \A k \in 1..n :
         /\ deal[k] \o deal[n + k] \in Seq(S) /\ Len(deal[k] \o deal[n + k]) = Len(deal[k]) + Len(deal[n + k])
         /\ ToSet(deal[k] \o deal[n + k]) = ToSet(deal[k]) \cup ToSet(deal[n + k])
         /\ \A a \in DOMAIN (deal[k] \o deal[n + k]) :
              \/ a \in DOMAIN deal[k] /\ (deal[k] \o deal[n + k])[a] = deal[k][a]
              \/ a - Len(deal[k]) \in DOMAIN deal[n + k] /\ (deal[k] \o deal[n + k])[a] = deal[n + k][a - Len(deal[k])]
  <2> TAKE k \in 1..n
  <2> DEFINE u == deal[k]
             v == deal[n + k]
  <2>1. u \in Seq(S) /\ v \in Seq(S)
    BY <1>1, <1>4
  <2> HIDE DEF u, v
  <2>2. /\ u \o v \in Seq(S) /\ Len(u \o v) = Len(u) + Len(v) /\ ToSet(u \o v) = ToSet(u) \cup ToSet(v)
        /\ \A a \in DOMAIN (u \o v) :
             \/ a \in DOMAIN u /\ (u \o v)[a] = u[a]
             \/ a - Len(u) \in DOMAIN v /\ (u \o v)[a] = v[a - Len(u)]
    BY <2>1, BothLists
  <2> QED
    BY <2>2, Zenon DEF u, v
<1>11. g \in Seq([group : D, nodes : Seq(S)])
  <2>1. \A k \in 1..n : [group |-> t[k], nodes |-> deal[k] \o deal[n + k]] \in [group : D, nodes : Seq(S)]
    BY <1>9, <1>10
  <2>2. g = [k \in 1..n |-> [group |-> t[k], nodes |-> deal[k] \o deal[n + k]]]
    BY DEF Groups2
  <2> HIDE DEF n, D, t, g
  <2> QED
    BY <1>1, <2>1, <2>2
<1>16. /\ \A k \in 1..n : Len(deal[k]) >= MachineOf(c, k).min
       /\ \A k \in 1..(2 * n) : HowMany(MachineOf(c, k), TurnOf(c, k)) \in Nat
                                 => Len(deal[k]) <= HowMany(MachineOf(c, k), TurnOf(c, k))
       /\ \A i \in D : c.machines[i] \in MachineOK(c)
  <2>1. \A k \in 1..(2 * n) : HowMany(MachineOf(c, k), TurnOf(c, k)) \in Nat
                                 => Len(deal[k]) <= HowMany(MachineOf(c, k), TurnOf(c, k))
    BY DEF Dealt, Picks
  <2>2. \A i \in D : c.machines[i] \in MachineOK(c)
    <3>1. c.machines \in Seq(MachineOK(c))
      BY DEF FinalOK
    <3> QED
      BY <3>1
  <2> QED
    BY <2>1, <2>2
<1>17. \A k \in DOMAIN g : k \in 1..n /\ g[k].group = t[k]
  BY <1>8, <1>9
<1> HIDE DEF g, D, t, n
<1>12. ASSUME NEW k \in 1..n, NEW l \in 1..n, NEW a \in DOMAIN g[k].nodes, NEW b \in DOMAIN g[l].nodes,
              g[k].nodes[a] = g[l].nodes[b]
       PROVE  k = l /\ a = b
  <2>1. k \in 1..(2 * n) /\ n + k \in 1..(2 * n) /\ l \in 1..(2 * n) /\ n + l \in 1..(2 * n) /\ Len(deal[k]) \in Nat
        /\ k \in Int /\ l \in Int /\ n \in Int
    BY <1>1, <1>4
  <2>2. \/ a \in DOMAIN deal[k] /\ g[k].nodes[a] = deal[k][a]
        \/ a - Len(deal[k]) \in DOMAIN deal[n + k] /\ g[k].nodes[a] = deal[n + k][a - Len(deal[k])]
    BY <1>9, <1>10
  <2>3. \/ b \in DOMAIN deal[l] /\ g[l].nodes[b] = deal[l][b]
        \/ b - Len(deal[l]) \in DOMAIN deal[n + l] /\ g[l].nodes[b] = deal[n + l][b - Len(deal[l])]
    BY <1>9, <1>10
  <2>4. a \in Int /\ b \in Int
    <3>1. g[k].nodes \in Seq(S) /\ g[l].nodes \in Seq(S)
      BY <1>9, <1>10
    <3> QED
      BY <3>1
  <2>5. k # n + l /\ l # n + k
    BY <1>1
  <2>6. CASE a \in DOMAIN deal[k] /\ g[k].nodes[a] = deal[k][a] /\ b \in DOMAIN deal[l] /\ g[l].nodes[b] = deal[l][b]
    <3>1. deal[k][a] = deal[l][b]
      BY <1>12, <2>6
    <3> QED
      BY <1>5, <2>1, <2>6, <3>1
  <2>7. CASE a - Len(deal[k]) \in DOMAIN deal[n + k] /\ g[k].nodes[a] = deal[n + k][a - Len(deal[k])]
             /\ b - Len(deal[l]) \in DOMAIN deal[n + l] /\ g[l].nodes[b] = deal[n + l][b - Len(deal[l])]
    <3>1. n + k = n + l /\ a - Len(deal[k]) = b - Len(deal[l])
      <4>1. deal[n + k][a - Len(deal[k])] = deal[n + l][b - Len(deal[l])]
        BY <1>12, <2>7
      <4> QED
        BY <1>5, <2>1, <2>7, <4>1
    <3>2. k = l
      BY <2>1, <3>1
    <3> QED
      BY <2>1, <2>4, <3>1, <3>2
  <2>8. CASE a \in DOMAIN deal[k] /\ g[k].nodes[a] = deal[k][a]
             /\ b - Len(deal[l]) \in DOMAIN deal[n + l] /\ g[l].nodes[b] = deal[n + l][b - Len(deal[l])]
    <3>1. deal[k][a] = deal[n + l][b - Len(deal[l])]
      BY <1>12, <2>8
    <3> QED
      BY <1>5, <2>1, <2>5, <2>8, <3>1
  <2>9. CASE a - Len(deal[k]) \in DOMAIN deal[n + k] /\ g[k].nodes[a] = deal[n + k][a - Len(deal[k])]
             /\ b \in DOMAIN deal[l] /\ g[l].nodes[b] = deal[l][b]
    <3>1. deal[n + k][a - Len(deal[k])] = deal[l][b]
      BY <1>12, <2>9
    <3> QED
      BY <1>5, <2>1, <2>5, <2>9, <3>1
  <2> QED
    BY <2>2, <2>3, <2>6, <2>7, <2>8, <2>9
<1>13. ASSUME NEW k \in 1..n
       PROVE  /\ ToSet(g[k].nodes) \subseteq Eligible(c.machines[g[k].group]) /\ Len(g[k].nodes) >= c.machines[g[k].group].min
              /\ c.machines[g[k].group].min <= c.machines[g[k].group].nodes
                   => Len(g[k].nodes) <= c.machines[g[k].group].nodes
  <2> DEFINE m == c.machines[t[k]]
  <2>1. m \in MachineOK(c)
    BY <1>9, <1>16
  <2> HIDE DEF m
  <2>2. m.min \in Nat /\ m.nodes \in Nat
    BY <2>1 DEF MachineOK
  <2>3. k \in 1..(2 * n) /\ n + k \in 1..(2 * n) /\ MachineOf(c, k) = m /\ MachineOf(c, n + k) = m
    BY <1>1, <1>6 DEF m
  <2>4. Len(g[k].nodes) = Len(deal[k]) + Len(deal[n + k]) /\ Len(deal[k]) \in Nat /\ Len(deal[n + k]) \in Nat
    BY <1>4, <1>9, <1>10, <2>3
  <2>5. ToSet(g[k].nodes) \subseteq Eligible(m)
    BY <1>4, <1>9, <1>10, <2>3
  <2>6. Len(deal[k]) >= m.min
    BY <1>16, <2>3
  <2>7. HowMany(m, 1) \in Nat => Len(deal[k]) <= HowMany(m, 1)
    BY <1>6, <1>16, <2>3
  <2>8. HowMany(m, 2) \in Nat => Len(deal[n + k]) <= HowMany(m, 2)
    BY <1>6, <1>16, <2>3
  <2>9. m.min <= m.nodes => HowMany(m, 1) \in Nat /\ HowMany(m, 2) \in Nat /\ HowMany(m, 1) + HowMany(m, 2) = m.nodes
    BY <2>2 DEF HowMany
  <2>10. g[k].group = t[k]
    BY <1>9
  <2> DEFINE x == Len(deal[k])
             y == Len(deal[n + k])
             z == Len(g[k].nodes)
             a == HowMany(m, 1)
             b == HowMany(m, 2)
             min == m.min
             nodes == m.nodes
  <2>13. /\ x \in Nat /\ y \in Nat /\ z = x + y /\ x >= min /\ min \in Nat /\ nodes \in Nat
         /\ (a \in Nat => x <= a) /\ (b \in Nat => y <= b)
         /\ min <= nodes => a \in Nat /\ b \in Nat /\ a + b = nodes
    BY <2>2, <2>4, <2>6, <2>7, <2>8, <2>9
  <2> HIDE DEF x, y, z, a, b, min, nodes
  <2>14. (min <= nodes => z <= nodes) /\ z >= min
    BY <2>13
  <2>11. m.min <= m.nodes => Len(g[k].nodes) <= m.nodes
    BY <2>14 DEF min, nodes, z
  <2>12. Len(g[k].nodes) >= m.min
    BY <2>14 DEF min, z
  <2> QED
    BY <2>5, <2>10, <2>11, <2>12 DEF m
<1>14. \A k, l \in DOMAIN g : g[k].group = g[l].group => k = l
  BY <1>3, <1>17
<1>15. \A i \in D : \E k \in DOMAIN g : g[k].group = i
  BY <1>3, <1>8, <1>17
<1> QED
  BY <1>1, <1>8, <1>11, <1>12, <1>13, <1>14, <1>15 DEF Spread, D, g, n

\* The hosts of the groups, each node once; a group has the nodes it is given.
NodesIn(hosts, i) == {h.node : h \in {h \in ToSet(hosts) : h.group = i}}
HostsFrom(c, S, groups, hosts) ==
    /\ hosts \in Seq([node : S, group : DOMAIN c.machines])
    /\ \A a, b \in DOMAIN hosts : hosts[a].node = hosts[b].node => a = b
    /\ \A k \in DOMAIN groups : NodesIn(hosts, groups[k].group) = ToSet(groups[k].nodes)

\* An entry of a sequence.
LEMMA EntryIs == ASSUME NEW S, NEW s \in Seq(S), NEW i \in DOMAIN s PROVE s[i] \in S
  OBVIOUS

\* _join makes the hosts of the groups.
LEMMA HostsAre ==
  ASSUME NEW c, FinalOK(c), NEW S, NEW groups, Spread(c, S, groups)
  PROVE  HostsFrom(c, S, groups, Join(c, groups))
<1> DEFINE R == [node : S, group : DOMAIN c.machines]
           piece(k) == [i \in DOMAIN groups[k].nodes |-> [node |-> groups[k].nodes[i], group |-> groups[k].group]]
           ss == [k \in DOMAIN groups |-> piece(k)]
           hosts == Join(c, groups)
           N == Len(ss)
<1>1. groups \in Seq([group : DOMAIN c.machines, nodes : Seq(S)]) /\ DOMAIN groups = 1..Len(groups) /\ Len(groups) \in Nat
  BY DEF Spread
<1>2. ASSUME NEW k \in DOMAIN groups
      PROVE  /\ groups[k].nodes \in Seq(S) /\ groups[k].group \in DOMAIN c.machines
             /\ DOMAIN groups[k].nodes = 1..Len(groups[k].nodes) /\ Len(groups[k].nodes) \in Nat
             /\ piece(k) \in Seq(R) /\ Len(piece(k)) = Len(groups[k].nodes)
             /\ \A i \in 1..Len(piece(k)) : piece(k)[i].node = groups[k].nodes[i] /\ piece(k)[i].group = groups[k].group
  <2>1. groups[k] \in [group : DOMAIN c.machines, nodes : Seq(S)]
    BY <1>1, EntryIs
  <2> DEFINE s == groups[k].nodes
             g == groups[k].group
  <2>2. s \in Seq(S) /\ g \in DOMAIN c.machines
    BY <2>1
  <2> HIDE DEF s, g
  <2>3. DOMAIN s = 1..Len(s) /\ Len(s) \in Nat /\ \A i \in 1..Len(s) : s[i] \in S
    BY <2>2
  <2> DEFINE p == [i \in DOMAIN s |-> [node |-> s[i], group |-> g]]
  <2>4. \A i \in 1..Len(s) : [node |-> s[i], group |-> g] \in R
    BY <2>2, <2>3
  <2>5. p = [i \in 1..Len(s) |-> [node |-> s[i], group |-> g]]
    BY <2>3
  <2> HIDE DEF R
  <2>6. p \in Seq(R) /\ Len(p) = Len(s) /\ \A i \in 1..Len(s) : p[i] = [node |-> s[i], group |-> g]
    BY <2>3, <2>4, <2>5
  <2>7. \A i \in 1..Len(s) : p[i].node = s[i] /\ p[i].group = g
    BY <2>6
  <2>8. p = piece(k)
    BY DEF s, g
  <2> HIDE DEF p
  <2>9. piece(k) \in Seq(R) /\ Len(piece(k)) = Len(s)
    BY <2>6, <2>8
  <2> HIDE DEF piece
  <2> QED
    BY <2>2, <2>3, <2>7, <2>8, <2>9 DEF s, g
<1> HIDE DEF piece, R
<1>3. ss \in Seq(Seq(R)) /\ N = Len(groups) /\ \A k \in DOMAIN groups : ss[k] = piece(k)
  <2>1. ss = [k \in 1..Len(groups) |-> piece(k)]
    BY <1>1
  <2>2. \A k \in 1..Len(groups) : piece(k) \in Seq(R)
    BY <1>1, <1>2
  <2> QED
    BY <1>1, <2>1, <2>2
<1>4. hosts = FlattenSeq(ss)
  BY DEF Join, ss, piece
<1> HIDE DEF ss, hosts
<1>5. hosts \in Seq(R)
  BY <1>3, <1>4, FlattenLaid
<1>6. PICK off : Laid(hosts, ss, N, off)
  BY <1>3, <1>4, FlattenLaid
<1>7. /\ Len(hosts) = off[N] /\ DOMAIN hosts = 1..Len(hosts)
      /\ \A k \in DOMAIN groups : \A i \in DOMAIN groups[k].nodes :
           /\ off[k - 1] + i \in DOMAIN hosts
           /\ hosts[off[k - 1] + i].node = groups[k].nodes[i] /\ hosts[off[k - 1] + i].group = groups[k].group
      /\ \A x \in DOMAIN hosts : \E k \in DOMAIN groups : \E i \in DOMAIN groups[k].nodes : x = off[k - 1] + i
  <2>1. Len(hosts) = off[N] /\ DOMAIN hosts = 1..Len(hosts)
    BY <1>5, <1>6 DEF Laid
  <2>2. \A k \in DOMAIN groups : k \in 1..N /\ ss[k] = piece(k) /\ DOMAIN groups[k].nodes = 1..Len(ss[k]) /\ Len(ss[k]) \in Nat
    BY <1>1, <1>2, <1>3
  <2>3. ASSUME NEW k \in DOMAIN groups, NEW i \in DOMAIN groups[k].nodes
        PROVE  /\ off[k - 1] + i \in DOMAIN hosts
               /\ hosts[off[k - 1] + i].node = groups[k].nodes[i] /\ hosts[off[k - 1] + i].group = groups[k].group
    <3>1. hosts[off[k - 1] + i] = ss[k][i]
      BY <1>6, <2>2 DEF Laid
    <3>2. ss[k][i].node = groups[k].nodes[i] /\ ss[k][i].group = groups[k].group
      BY <1>2, <2>2
    <3>3. off[k - 1] + i \in 1..off[N]
      <4>1. off[k] = off[k - 1] + Len(ss[k]) /\ off[k] <= off[N] /\ off[k - 1] \in Nat /\ off[N] \in Nat /\ Len(ss[k]) \in Nat
        <5>1. k \in 0..N /\ k - 1 \in 0..N /\ N \in 0..N /\ k <= N /\ k \in 1..N
          BY <1>1, <1>3, <2>2
        <5> QED
          BY <1>6, <2>2, <5>1 DEF Laid
      <4>2. i \in 1..Len(ss[k])
        BY <2>2
      <4> QED
        BY <4>1, <4>2
    <3> QED
      BY <2>1, <3>1, <3>2, <3>3
  <2>4. ASSUME NEW x \in DOMAIN hosts
        PROVE  \E k \in DOMAIN groups : \E i \in DOMAIN groups[k].nodes : x = off[k - 1] + i
    <3>1. PICK k \in 1..N : \E i \in 1..Len(ss[k]) : x = off[k - 1] + i
      BY <1>6, <2>1 DEF Laid
    <3>2. k \in DOMAIN groups
      BY <1>1, <1>3
    <3> QED
      BY <2>2, <3>1, <3>2
  <2> QED
    BY <2>1, <2>3, <2>4
<1>8. ASSUME NEW x \in DOMAIN hosts, NEW y \in DOMAIN hosts, hosts[x].node = hosts[y].node
      PROVE  x = y
  <2>1. PICK k \in DOMAIN groups : \E i \in DOMAIN groups[k].nodes : x = off[k - 1] + i
    BY <1>7
  <2>2. PICK i \in DOMAIN groups[k].nodes : x = off[k - 1] + i
    BY <2>1
  <2>3. PICK l \in DOMAIN groups : \E j \in DOMAIN groups[l].nodes : y = off[l - 1] + j
    BY <1>7
  <2>4. PICK j \in DOMAIN groups[l].nodes : y = off[l - 1] + j
    BY <2>3
  <2>5. groups[k].nodes[i] = groups[l].nodes[j]
    BY <1>7, <1>8, <2>2, <2>4
  <2>6. k = l /\ i = j
    BY <2>5, ZenonT(40) DEF Spread
  <2> QED
    BY <2>2, <2>4, <2>6
<1>9. ASSUME NEW k \in DOMAIN groups
      PROVE  NodesIn(hosts, groups[k].group) = ToSet(groups[k].nodes)
  <2>1. ASSUME NEW n \in ToSet(groups[k].nodes) PROVE n \in NodesIn(hosts, groups[k].group)
    <3>1. PICK i \in DOMAIN groups[k].nodes : groups[k].nodes[i] = n
      BY DEF ToSet
    <3>2. off[k - 1] + i \in DOMAIN hosts /\ hosts[off[k - 1] + i].node = n /\ hosts[off[k - 1] + i].group = groups[k].group
      BY <1>7, <3>1
    <3> DEFINE h == hosts[off[k - 1] + i]
    <3>3. h \in ToSet(hosts) /\ h.group = groups[k].group /\ h.node = n
      BY <3>2 DEF ToSet
    <3> QED
      BY <3>3 DEF NodesIn
  <2>2. ASSUME NEW n \in NodesIn(hosts, groups[k].group) PROVE n \in ToSet(groups[k].nodes)
    <3>1. PICK h \in ToSet(hosts) : h.group = groups[k].group /\ n = h.node
      BY DEF NodesIn
    <3>2. PICK x \in DOMAIN hosts : hosts[x] = h
      BY DEF ToSet
    <3>3. PICK l \in DOMAIN groups : \E i \in DOMAIN groups[l].nodes : x = off[l - 1] + i
      BY <1>7
    <3>4. PICK i \in DOMAIN groups[l].nodes : x = off[l - 1] + i
      BY <3>3
    <3>5. hosts[x].node = groups[l].nodes[i] /\ hosts[x].group = groups[l].group
      BY <1>7, <3>4
    <3>6. l = k
      BY <3>1, <3>2, <3>5 DEF Spread
    <3> QED
      BY <3>1, <3>2, <3>5, <3>6 DEF ToSet
  <2> QED
    BY <2>1, <2>2
<1> QED
  BY <1>5, <1>8, <1>9 DEF HostsFrom, R, hosts

\* What the groups get, whatever the jobs hold.
LEMMA GroupsGet ==
  ASSUME NEW c, FinalOK(c), NEW S, NEW groups, Spread(c, S, groups), NEW hosts, HostsFrom(c, S, groups, hosts)
  PROVE  /\ Cardinality({h.node : h \in ToSet(hosts)}) = Len(hosts)
         /\ \A i \in DOMAIN c.machines :
              /\ NodesIn(hosts, i) \subseteq Eligible(c.machines[i])
              /\ Cardinality(NodesIn(hosts, i)) >= c.machines[i].min
              /\ c.machines[i].min <= c.machines[i].nodes => Cardinality(NodesIn(hosts, i)) <= c.machines[i].nodes
         /\ \A k \in DOMAIN groups : Cardinality(NodesIn(hosts, groups[k].group)) = Len(groups[k].nodes)
<1>1. Cardinality({h.node : h \in ToSet(hosts)}) = Len(hosts)
  <2> DEFINE R == [node : S, group : DOMAIN c.machines]
             s == [a \in DOMAIN hosts |-> hosts[a].node]
             all == {h.node : h \in ToSet(hosts)}
  <2>1. hosts \in Seq(R) /\ DOMAIN hosts = 1..Len(hosts) /\ Len(hosts) \in Nat
    BY DEF HostsFrom
  <2>2. \A a \in DOMAIN hosts : hosts[a].node \in S
    <3>1. \A a \in DOMAIN hosts : hosts[a] \in R
      <4> HIDE DEF R
      <4> QED
        BY <2>1
    <3> QED
      BY <3>1
  <2>3. s \in Seq(S) /\ DOMAIN s = DOMAIN hosts /\ Len(s) = Len(hosts)
    BY <2>1, <2>2
  <2>4. \A a, b \in DOMAIN s : s[a] = s[b] => a = b
    BY DEF HostsFrom
  <2>5. ToSet(s) = all
    BY DEF ToSet
  <2> HIDE DEF s, all
  <2>6. Cardinality(ToSet(s)) = Len(s)
    BY <2>3, <2>4, OnceCounts
  <2> QED
    BY <2>3, <2>5, <2>6 DEF all
<1>2. ASSUME NEW k \in DOMAIN groups
      PROVE  Cardinality(NodesIn(hosts, groups[k].group)) = Len(groups[k].nodes)
  <2> DEFINE s == groups[k].nodes
  <2>1. s \in Seq(S)
    <3>1. groups \in Seq([group : DOMAIN c.machines, nodes : Seq(S)])
      BY DEF Spread
    <3>2. groups[k] \in [group : DOMAIN c.machines, nodes : Seq(S)]
      BY <3>1, EntryIs
    <3> QED
      BY <3>2
  <2>2. \A a, b \in DOMAIN s : s[a] = s[b] => a = b
    BY DEF Spread
  <2>3. NodesIn(hosts, groups[k].group) = ToSet(s)
    BY DEF HostsFrom
  <2> HIDE DEF s
  <2>4. Cardinality(ToSet(s)) = Len(s)
    BY <2>1, <2>2, OnceCounts
  <2> QED
    BY <2>3, <2>4 DEF s
<1>3. ASSUME NEW i \in DOMAIN c.machines
      PROVE  /\ NodesIn(hosts, i) \subseteq Eligible(c.machines[i])
             /\ Cardinality(NodesIn(hosts, i)) >= c.machines[i].min
             /\ c.machines[i].min <= c.machines[i].nodes => Cardinality(NodesIn(hosts, i)) <= c.machines[i].nodes
  <2>1. PICK k \in DOMAIN groups : groups[k].group = i
    BY DEF Spread
  <2>2. NodesIn(hosts, i) = ToSet(groups[k].nodes) /\ Cardinality(NodesIn(hosts, i)) = Len(groups[k].nodes)
    BY <1>2, <2>1 DEF HostsFrom
  <2>3. /\ ToSet(groups[k].nodes) \subseteq Eligible(c.machines[i]) /\ Len(groups[k].nodes) >= c.machines[i].min
        /\ c.machines[i].min <= c.machines[i].nodes => Len(groups[k].nodes) <= c.machines[i].nodes
    BY <2>1 DEF Spread
  <2> QED
    BY <2>2, <2>3
<1> QED
  BY <1>1, <1>2, <1>3

-----------------------------------------------------------------------------
(* What OAR may give, and test_slot *)

\* The first m sets of a family, and families whose sets are finite and no larger, one by one.
Upto(f, m) == UNION {f[k] : k \in 1..m}
Smaller(T, P, n) ==
    \A k \in 1..n : IsFiniteSet(T[k]) /\ IsFiniteSet(P[k]) /\ Cardinality(T[k]) <= Cardinality(P[k])
\* Families that share nothing.
NoneShared(P, n) == \A k, l \in 1..n : k # l => P[k] \cap P[l] = {}
\* The union of a family has as many elements as all of them.
Counted(T, P, m) ==
    /\ IsFiniteSet(Upto(T, m)) /\ IsFiniteSet(Upto(P, m)) /\ Cardinality(Upto(T, m)) <= Cardinality(Upto(P, m))
    /\ (\E k \in 1..m : Cardinality(T[k]) < Cardinality(P[k])) => Cardinality(Upto(T, m)) < Cardinality(Upto(P, m))

\* One set more.
LEMMA UptoNext ==
  ASSUME NEW f, NEW m \in Nat, m # 0
  PROVE  Upto(f, m) = Upto(f, m - 1) \cup f[m]
<1>1. \A k : k \in 1..m <=> k \in 1..(m - 1) \/ k = m
  OBVIOUS
<1> QED
  BY <1>1 DEF Upto

\* What is smaller set by set is smaller in all, when the larger sets are apart.
LEMMA FamilyCounts ==
  ASSUME NEW T, NEW P, NEW n \in Nat, Smaller(T, P, n), NoneShared(P, n)
  PROVE  Counted(T, P, n)
<1> DEFINE B == {m \in 0..n : ~Counted(T, P, m)}
<1>1. ASSUME B # {} PROVE FALSE
  <2>1. PICK m \in B : \A k \in B : m <= k
    <3>1. B \in SUBSET Nat
      OBVIOUS
    <3> HIDE DEF B
    <3> QED
      BY <1>1, <3>1, FirstPosition
  <2>2. m \in 0..n /\ ~Counted(T, P, m)
    OBVIOUS
  <2>3. m # 0
    <3>1. 1..0 = {}
      OBVIOUS
    <3>2. Upto(T, 0) = {} /\ Upto(P, 0) = {}
      BY <3>1 DEF Upto
    <3>3. Counted(T, P, 0)
      BY <3>1, <3>2, FS_EmptySet DEF Counted
    <3> QED
      BY <2>2, <3>3
  <2>4. m - 1 \in 0..n /\ m - 1 \notin B /\ m \in 1..n /\ m \in Nat
    BY <2>1, <2>2, <2>3
  <2>5. Counted(T, P, m - 1)
    BY <2>4
  <2> HIDE DEF B
  <2> DEFINE a == Upto(T, m - 1)
             b == Upto(P, m - 1)
             x == T[m]
             y == P[m]
  <2>6. IsFiniteSet(a) /\ IsFiniteSet(b) /\ IsFiniteSet(x) /\ IsFiniteSet(y)
        /\ Cardinality(a) <= Cardinality(b) /\ Cardinality(x) <= Cardinality(y)
    BY <2>4, <2>5 DEF Counted, Smaller
  <2>7. b \cap y = {}
    <3>1. \A k \in 1..(m - 1) : k \in 1..n /\ k # m
      BY <2>4
    <3> QED
      BY <2>4, <3>1 DEF Upto, NoneShared
  <2>8. Upto(T, m) = a \cup x /\ Upto(P, m) = b \cup y
    BY <2>3, <2>4, UptoNext
  <2>9. (\E k \in 1..(m - 1) : Cardinality(T[k]) < Cardinality(P[k])) => Cardinality(a) < Cardinality(b)
    BY <2>5 DEF Counted
  <2>10. (\E k \in 1..m : Cardinality(T[k]) < Cardinality(P[k]))
            => Cardinality(a) < Cardinality(b) \/ Cardinality(x) < Cardinality(y)
    <3>1. \A k : k \in 1..m <=> k \in 1..(m - 1) \/ k = m
      BY <2>4
    <3> QED
      BY <2>9, <3>1
  <2> HIDE DEF a, b, x, y
  <2>11. /\ Cardinality(a) \in Nat /\ Cardinality(b) \in Nat /\ Cardinality(x) \in Nat /\ Cardinality(y) \in Nat
         /\ IsFiniteSet(a \cup x) /\ IsFiniteSet(b \cup y)
         /\ Cardinality(a \cap x) \in Nat /\ Cardinality(b \cap y) = 0
         /\ Cardinality(a \cup x) = Cardinality(a) + Cardinality(x) - Cardinality(a \cap x)
         /\ Cardinality(b \cup y) = Cardinality(b) + Cardinality(y) - Cardinality(b \cap y)
    <3>1. Cardinality(a) \in Nat /\ Cardinality(b) \in Nat /\ Cardinality(x) \in Nat /\ Cardinality(y) \in Nat
      BY <2>6, FS_CardinalityType
    <3>2. IsFiniteSet(a \cap x)
      BY <2>6, FS_Intersection
    <3>3. Cardinality(a \cap x) \in Nat
      BY <3>2, FS_CardinalityType
    <3>4. Cardinality(b \cap y) = 0
      BY <2>7, FS_EmptySet
    <3>5. IsFiniteSet(a \cup x) /\ Cardinality(a \cup x) = Cardinality(a) + Cardinality(x) - Cardinality(a \cap x)
      BY <2>6, FS_Union
    <3>6. IsFiniteSet(b \cup y) /\ Cardinality(b \cup y) = Cardinality(b) + Cardinality(y) - Cardinality(b \cap y)
      BY <2>6, FS_Union
    <3> QED
      BY <3>1, <3>3, <3>4, <3>5, <3>6
  <2>12. Cardinality(a \cup x) <= Cardinality(b \cup y)
         /\ (Cardinality(a) < Cardinality(b) \/ Cardinality(x) < Cardinality(y) => Cardinality(a \cup x) < Cardinality(b \cup y))
    BY <2>6, <2>11
  <2>13. Counted(T, P, m)
    BY <2>8, <2>10, <2>11, <2>12 DEF Counted
  <2> QED
    BY <2>2, <2>13
<1>2. n \in 0..n
  OBVIOUS
<1> QED
  BY <1>1, <1>2

-----------------------------------------------------------------------------
(* What the jobs were asked for is enough *)

\* The nodes that a group may have are of its cluster.
LEMMA EligibleCluster ==
  ASSUME NEW c, FinalOK(c), NEW i \in DOMAIN c.machines, NEW x \in Eligible(c.machines[i])
  PROVE  ClusterOf[x] = c.machines[i].cluster /\ x \in G5kNodes
BY DEF Eligible, FinalOK

\* Shares for all the machines.
SharesOf(free, machines, share) ==
    /\ DOMAIN share = DOMAIN machines
    /\ \A i \in DOMAIN machines : share[i] \subseteq free \cap Eligible(machines[i]) /\ Cardinality(share[i]) = machines[i].nodes
    /\ \A i, j \in DOMAIN machines : i # j => share[i] \cap share[j] = {}

\* What OAR may give is what some share gives.
LEMMA NodesFromIs ==
  ASSUME NEW free, NEW machines, NEW S
  PROVE  S \in NodesFrom(free, machines) <=> \E share : SharesOf(free, machines, share) /\ S = UNION Range(share)
                                                        /\ share = [i \in DOMAIN machines |-> share[i]]
<1> DEFINE wanted == [i \in DOMAIN machines |-> kSubset(machines[i].nodes, free \cap Eligible(machines[i]))]
<1>1. DOMAIN wanted = DOMAIN machines
      /\ \A i \in DOMAIN machines : wanted[i] = {s \in SUBSET (free \cap Eligible(machines[i])) : Cardinality(s) = machines[i].nodes}
  BY DEF kSubset
<1>2. NodesFrom(free, machines) = {UNION Range(share) : share \in Allotments(wanted)}
  BY DEF NodesFrom
<1> HIDE DEF wanted
<1>3. ASSUME NEW share \in Allotments(wanted)
      PROVE  SharesOf(free, machines, share) /\ share = [i \in DOMAIN machines |-> share[i]]
  <2>1. /\ share \in [DOMAIN machines -> UNION Range(wanted)]
        /\ \A i \in DOMAIN machines : share[i] \in wanted[i]
        /\ \A i, j \in DOMAIN machines : i # j => share[i] \cap share[j] = {}
    BY <1>1 DEF Allotments
  <2>2. \A i \in DOMAIN machines : share[i] \subseteq free \cap Eligible(machines[i]) /\ Cardinality(share[i]) = machines[i].nodes
    BY <1>1, <2>1
  <2> QED
    BY <2>1, <2>2 DEF SharesOf
<1>4. ASSUME NEW share, SharesOf(free, machines, share), share = [i \in DOMAIN machines |-> share[i]]
      PROVE  share \in Allotments(wanted)
  <2>1. \A i \in DOMAIN machines : share[i] \in wanted[i] /\ wanted[i] \in Range(wanted)
    BY <1>1, <1>4 DEF SharesOf, Range
  <2>2. share \in [DOMAIN machines -> UNION Range(wanted)]
    BY <1>4, <2>1
  <2> QED
    BY <1>1, <1>4, <2>1, <2>2 DEF Allotments, SharesOf
<1> QED
  BY <1>2, <1>3, <1>4

\* No server is in two lists.
ListsApart(machines) ==
    \A i, j \in DOMAIN machines : i # j => ToSet(machines[i].servers) \cap ToSet(machines[j].servers) = {}

\* The union of two finite sets.
LEMMA PairFinite ==
  ASSUME NEW A, NEW B, IsFiniteSet(A), IsFiniteSet(B)
  PROVE  IsFiniteSet(A \cup B) /\ Cardinality(A \cup B) <= Cardinality(A) + Cardinality(B)
         /\ Cardinality(A) \in Nat /\ Cardinality(B) \in Nat /\ Cardinality(A \cup B) \in Nat
<1>1. Cardinality(A) \in Nat /\ Cardinality(B) \in Nat
  BY FS_CardinalityType
<1>2. IsFiniteSet(A \cap B)
  BY FS_Intersection
<1>3. Cardinality(A \cap B) \in Nat
  BY <1>2, FS_CardinalityType
<1>4. IsFiniteSet(A \cup B) /\ Cardinality(A \cup B) = Cardinality(A) + Cardinality(B) - Cardinality(A \cap B)
  BY FS_Union
<1>5. Cardinality(A \cup B) \in Nat
  BY <1>4, FS_CardinalityType
<1> QED
  BY <1>1, <1>3, <1>4, <1>5

\* Groups get all that they ask for when the jobs hold what they were asked for.
LEMMA GroupsFull ==
  ASSUME NEW c, FinalOK(c), NEW S \in NodesFrom(G5kNodes, c.machines), NEW deal, Dealt(c, S, deal),
         \A k \in 1..Len(c.machines) : Len(deal[k]) >= MachineOf(c, k).min,
         \A i \in DOMAIN c.machines : c.machines[i].min <= c.machines[i].nodes,
         ListsApart(c.machines),
         NEW k \in 1..Len(c.machines)
  PROVE  Len(deal[k]) + Len(deal[Len(c.machines) + k]) = MachineOf(c, k).nodes
<1> DEFINE n == Len(c.machines)
           M == c.machines
           t == Turns(c)
           mach(l) == MachineOf(c, l)
<1>1. n \in Nat /\ DOMAIN M = 1..n
  BY DEF FinalOK
<1>2. \A l \in 1..n : l \in 1..(2 * n) /\ n + l \in 1..(2 * n) /\ l <= n /\ ~(n + l <= n) /\ (n + l) - n = l
  BY <1>1
<1>3. \A l \in 1..n : /\ t[l] \in DOMAIN M /\ mach(l) = M[t[l]] /\ mach(n + l) = M[t[l]]
                      /\ TurnOf(c, l) = 1 /\ TurnOf(c, n + l) = 2
                      /\ mach(l).nodes \in Nat /\ mach(l).min \in Nat /\ mach(l).min <= mach(l).nodes
  <2> TAKE l \in 1..n
  <2>1. t[l] \in DOMAIN M /\ mach(l) \in MachineOK(c)
    BY <1>2, MachinesOfTurns
  <2>2. mach(l) = M[t[l]] /\ mach(n + l) = M[t[l]] /\ TurnOf(c, l) = 1 /\ TurnOf(c, n + l) = 2
    BY <1>2 DEF MachineOf, TurnOf
  <2> HIDE DEF mach
  <2>3. mach(l).nodes \in Nat /\ mach(l).min \in Nat
    BY <2>1 DEF MachineOK
  <2>4. mach(l).min <= mach(l).nodes
    BY <2>1, <2>2
  <2> QED
    BY <2>1, <2>2, <2>3, <2>4
<1>4. (\A i, j \in 1..n : t[i] = t[j] => i = j)
      /\ (\A i, j \in 1..n : IsServers(mach(j)) /\ ~IsServers(mach(i)) => j < i)
  <2> DEFINE D == DOMAIN M
  <2>1. Lists(t, D) /\ \A i, j \in DOMAIN t : IsServers(M[t[j]]) /\ ~IsServers(M[t[i]]) => j < i
    BY TurnsAre
  <2>2. Cardinality(D) = n
    BY <1>1, FS_Interval
  <2> HIDE DEF D, t, n, M
  <2>3. DOMAIN t = 1..n /\ \A i, j \in DOMAIN t : t[i] = t[j] => i = j
    BY <2>1, <2>2, ListIs
  <2> QED
    BY <1>3, <2>1, <2>3
<1>5. \A l \in 1..(2 * n) :
        /\ IsFiniteSet(ToSet(deal[l])) /\ Cardinality(ToSet(deal[l])) = Len(deal[l]) /\ Len(deal[l]) \in Nat
        /\ ToSet(deal[l]) \subseteq S \cap Eligible(mach(l))
        /\ HowMany(mach(l), TurnOf(c, l)) \in Nat =>
             /\ Len(deal[l]) <= HowMany(mach(l), TurnOf(c, l))
             /\ Len(deal[l]) < HowMany(mach(l), TurnOf(c, l)) => ToSet(deal[l]) = PileOf(S, deal, l) \cap Eligible(mach(l))
  BY DEF Dealt, Picks, PileOf
<1>6. PICK share : SharesOf(G5kNodes, M, share) /\ S = UNION Range(share)
  BY NodesFromIs
<1>7. S \in SUBSET G5kNodes /\ \A i \in DOMAIN M : /\ share[i] \subseteq S \cap Eligible(M[i]) /\ Cardinality(share[i]) = M[i].nodes
                               /\ IsFiniteSet(share[i])
  <2>1. \A i \in DOMAIN M : share[i] \subseteq G5kNodes \cap Eligible(M[i]) /\ Cardinality(share[i]) = M[i].nodes
    BY <1>6 DEF SharesOf
  <2>2. S = UNION {share[i] : i \in DOMAIN M}
    BY <1>6 DEF SharesOf, Range
  <2>3. \A i \in DOMAIN M : IsFiniteSet(share[i])
    BY <2>1, FiniteNodes
  <2> QED
    BY <2>1, <2>2, <2>3
<1>8. \A i, j \in DOMAIN M : i # j => share[i] \cap share[j] = {}
  BY <1>6 DEF SharesOf
<1>9. \A l \in 1..n : Len(deal[l]) >= mach(l).min
  OBVIOUS
<1> DEFINE m == mach(k)
           x == Len(deal[k])
           y == Len(deal[n + k])
<1>10. x \in Nat /\ y \in Nat /\ m.nodes \in Nat /\ m.min \in Nat /\ m.min <= m.nodes /\ x >= m.min
  BY <1>2, <1>3, <1>5, <1>9
<1> DEFINE all == m.nodes
           min == m.min
<1>13. x \in Nat /\ y \in Nat /\ all \in Nat /\ min \in Nat /\ min <= all /\ x >= min
  BY <1>10
<1>11. CASE IsServers(m)
  <2>1. HowMany(m, 1) = m.nodes /\ HowMany(m, 2) = 0
    BY <1>11 DEF HowMany
  <2>2. x <= m.nodes /\ y <= 0 /\ (x < m.nodes => ToSet(deal[k]) = PileOf(S, deal, k) \cap Eligible(m))
    <3>1. HowMany(m, 1) \in Nat /\ HowMany(m, 2) \in Nat
      BY <1>10, <2>1
    <3>2. mach(n + k) = m /\ TurnOf(c, k) = 1 /\ TurnOf(c, n + k) = 2 /\ k \in 1..(2 * n) /\ n + k \in 1..(2 * n)
      BY <1>2, <1>3
    <3> QED
      BY <1>5, <2>1, <3>1, <3>2
  <2>3. ASSUME x < m.nodes PROVE FALSE
    <3>1. S \cap Eligible(m) \subseteq PileOf(S, deal, k)
      <4> SUFFICES ASSUME NEW a \in S \cap Eligible(m), NEW l \in 1..(k - 1)
                   PROVE  a \notin ToSet(deal[l])
        BY DEF PileOf
      <4>1. l \in 1..n /\ l < k /\ l # k
        BY <1>1
      <4>2. IsServers(mach(l))
        BY <1>4, <1>11, <4>1
      <4>3. t[l] # t[k] /\ t[l] \in DOMAIN M /\ t[k] \in DOMAIN M /\ mach(l) = M[t[l]] /\ m = M[t[k]]
        BY <1>3, <1>4, <4>1
      <4>4. Eligible(mach(l)) \subseteq ToSet(mach(l).servers) /\ Eligible(m) \subseteq ToSet(m.servers)
        BY <1>11, <4>2 DEF Eligible
      <4>5. ToSet(mach(l).servers) \cap ToSet(m.servers) = {}
        BY <4>3 DEF ListsApart
      <4>6. ToSet(deal[l]) \subseteq Eligible(mach(l))
        BY <1>2, <1>5, <4>1
      <4> QED
        BY <4>4, <4>5, <4>6
    <3>2. share[t[k]] \subseteq ToSet(deal[k]) /\ Cardinality(share[t[k]]) = m.nodes
      BY <1>3, <1>7, <2>2, <2>3, <3>1
    <3>3. IsFiniteSet(ToSet(deal[k])) /\ Cardinality(ToSet(deal[k])) = x
      BY <1>2, <1>5
    <3>4. m.nodes <= x
      BY <3>2, <3>3, FS_Subset
    <3> QED
      BY <1>10, <2>3, <3>4
  <2>4. ~(x < all) /\ x <= all /\ y <= 0
    BY <2>2, <2>3
  <2>5. x + y = all
    <3> HIDE DEF x, y, all, min
    <3> QED
      BY <1>13, <2>4
  <2> QED
    BY <2>5
<1>12. CASE ~IsServers(m)
  <2>1. HowMany(m, 1) = m.min /\ HowMany(m, 2) = m.nodes - m.min
    BY <1>12 DEF HowMany
  <2>2. x <= m.min /\ y <= m.nodes - m.min
        /\ (y < m.nodes - m.min => ToSet(deal[n + k]) = PileOf(S, deal, n + k) \cap Eligible(m))
    <3>1. HowMany(m, 1) \in Nat /\ HowMany(m, 2) \in Nat
      BY <1>10, <2>1
    <3>2. mach(n + k) = m /\ TurnOf(c, k) = 1 /\ TurnOf(c, n + k) = 2 /\ k \in 1..(2 * n) /\ n + k \in 1..(2 * n)
      BY <1>2, <1>3
    <3> QED
      BY <1>5, <2>1, <3>1, <3>2
  <2>3. ASSUME y < m.nodes - m.min PROVE FALSE
    <3> DEFINE C == m.cluster
               T == [l \in 1..n |-> IF mach(l).cluster = C THEN ToSet(deal[l]) \cup ToSet(deal[n + l]) ELSE {}]
               P == [l \in 1..n |-> IF mach(l).cluster = C THEN share[t[l]] ELSE {}]
    <3>1. \A l \in 1..n : Len(deal[l]) + Len(deal[n + l]) <= mach(l).nodes
      <4> TAKE l \in 1..n
      <4>1. HowMany(mach(l), 1) \in Nat /\ HowMany(mach(l), 2) \in Nat
            /\ HowMany(mach(l), 1) + HowMany(mach(l), 2) = mach(l).nodes
        BY <1>3 DEF HowMany
      <4>2. mach(n + l) = mach(l) /\ TurnOf(c, l) = 1 /\ TurnOf(c, n + l) = 2 /\ l \in 1..(2 * n) /\ n + l \in 1..(2 * n)
        BY <1>2, <1>3
      <4>3. Len(deal[l]) <= HowMany(mach(l), 1) /\ Len(deal[n + l]) <= HowMany(mach(l), 2)
            /\ Len(deal[l]) \in Nat /\ Len(deal[n + l]) \in Nat
        BY <1>5, <4>1, <4>2
      <4> DEFINE a == HowMany(mach(l), 1)
                 b == HowMany(mach(l), 2)
                 u == Len(deal[l])
                 v == Len(deal[n + l])
                 most == mach(l).nodes
      <4>4. a \in Nat /\ b \in Nat /\ u \in Nat /\ v \in Nat /\ u <= a /\ v <= b /\ a + b = most
        BY <4>1, <4>3
      <4> HIDE DEF a, b, u, v, most
      <4>5. u + v <= most
        BY <4>4
      <4> QED
        BY <4>5 DEF u, v, most
    <3>2. \A l \in 1..n :
            /\ IsFiniteSet(ToSet(deal[l]) \cup ToSet(deal[n + l]))
            /\ Cardinality(ToSet(deal[l]) \cup ToSet(deal[n + l])) <= Len(deal[l]) + Len(deal[n + l])
            /\ Cardinality(ToSet(deal[l]) \cup ToSet(deal[n + l])) \in Nat
            /\ Len(deal[l]) \in Nat /\ Len(deal[n + l]) \in Nat
      <4> TAKE l \in 1..n
      <4> DEFINE a == ToSet(deal[l])
                 b == ToSet(deal[n + l])
      <4>1. IsFiniteSet(a) /\ IsFiniteSet(b) /\ Cardinality(a) = Len(deal[l]) /\ Cardinality(b) = Len(deal[n + l])
        BY <1>2, <1>5
      <4> HIDE DEF a, b
      <4>2. IsFiniteSet(a \cup b) /\ Cardinality(a \cup b) <= Cardinality(a) + Cardinality(b)
            /\ Cardinality(a) \in Nat /\ Cardinality(b) \in Nat /\ Cardinality(a \cup b) \in Nat
        BY <4>1, PairFinite
      <4> QED
        BY <4>1, <4>2 DEF a, b
    <3>3. \A l \in 1..n : IsFiniteSet(T[l]) /\ IsFiniteSet(P[l]) /\ Cardinality(T[l]) <= Cardinality(P[l])
      <4> TAKE l \in 1..n
      <4>1. CASE mach(l).cluster = C
        <5>1. T[l] = ToSet(deal[l]) \cup ToSet(deal[n + l]) /\ P[l] = share[t[l]]
          BY <4>1
        <5>2. IsFiniteSet(share[t[l]]) /\ Cardinality(share[t[l]]) = mach(l).nodes
          BY <1>3, <1>7
        <5>3. Cardinality(ToSet(deal[l]) \cup ToSet(deal[n + l])) <= mach(l).nodes
          <6> DEFINE u == Len(deal[l])
                     v == Len(deal[n + l])
                     z == Cardinality(ToSet(deal[l]) \cup ToSet(deal[n + l]))
                     w == mach(l).nodes
          <6>1. u \in Nat /\ v \in Nat /\ z \in Nat /\ w \in Nat /\ z <= u + v /\ u + v <= w
            BY <1>3, <3>1, <3>2
          <6> HIDE DEF u, v, z, w
          <6>2. z <= w
            BY <6>1
          <6> QED
            BY <6>2 DEF z, w
        <5> QED
          BY <3>2, <5>1, <5>2, <5>3
      <4>2. CASE mach(l).cluster # C
        <5>1. T[l] = {} /\ P[l] = {}
          BY <4>2
        <5>2. IsFiniteSet({}) /\ Cardinality({}) = 0
          BY FS_EmptySet
        <5>3. 0 <= 0
          OBVIOUS
        <5> HIDE DEF T, P
        <5> QED
          BY <5>1, <5>2, <5>3
      <4> QED
        BY <4>1, <4>2
    <3>4. NoneShared(P, n)
      <4> SUFFICES ASSUME NEW i \in 1..n, NEW j \in 1..n, i # j PROVE P[i] \cap P[j] = {}
        BY DEF NoneShared
      <4>1. t[i] # t[j] /\ t[i] \in DOMAIN M /\ t[j] \in DOMAIN M
        BY <1>3, <1>4
      <4> QED
        BY <1>8, <4>1
    <3>5. Cardinality(T[k]) < Cardinality(P[k])
      <4>1. T[k] = ToSet(deal[k]) \cup ToSet(deal[n + k]) /\ P[k] = share[t[k]]
        OBVIOUS
      <4>2. Cardinality(share[t[k]]) = m.nodes
        BY <1>3, <1>7
      <4>3. Cardinality(ToSet(deal[k]) \cup ToSet(deal[n + k])) <= x + y
            /\ Cardinality(ToSet(deal[k]) \cup ToSet(deal[n + k])) \in Nat
        BY <3>2
      <4>4. x <= min /\ y < all - min
        BY <2>2, <2>3
      <4> DEFINE z == Cardinality(ToSet(deal[k]) \cup ToSet(deal[n + k]))
      <4>5. z \in Nat /\ z <= x + y
        BY <4>3
      <4>6. z < all
        <5> HIDE DEF x, y, z, all, min
        <5> QED
          BY <1>13, <4>4, <4>5
      <4> QED
        BY <4>1, <4>2, <4>6
    <3> HIDE DEF T, P
    <3>6. Counted(T, P, n)
      <4>1. Smaller(T, P, n)
        BY <3>3 DEF Smaller
      <4> HIDE DEF n
      <4> QED
        BY <1>1, <3>4, <4>1, FamilyCounts
    <3>7. Upto(P, n) \subseteq Upto(T, n)
      <4> SUFFICES ASSUME NEW a \in Upto(P, n) PROVE a \in Upto(T, n)
        OBVIOUS
      <4>1. PICK i \in 1..n : a \in P[i]
        BY DEF Upto
      <4>2. mach(i).cluster = C /\ a \in share[t[i]] /\ t[i] \in DOMAIN M /\ mach(i) = M[t[i]]
        BY <1>3, <4>1 DEF P
      <4>3. a \in S /\ a \in Eligible(M[t[i]])
        BY <1>7, <4>2
      <4>4. ClusterOf[a] = C /\ a \in G5kNodes
        BY <4>2, <4>3, EligibleCluster
      <4>5. a \in Eligible(m)
        BY <1>12, <4>4 DEF Eligible
      <4>6. \E l \in 1..(2 * n) : a \in ToSet(deal[l])
        <5>1. CASE a \in PileOf(S, deal, n + k)
          BY <1>2, <2>2, <2>3, <4>5, <5>1
        <5>2. CASE a \notin PileOf(S, deal, n + k)
          <6>1. PICK l \in 1..((n + k) - 1) : a \in ToSet(deal[l])
            BY <4>3, <5>2 DEF PileOf
          <6>2. l \in 1..(2 * n)
            BY <1>1
          <6> QED
            BY <6>1, <6>2
        <5> QED
          BY <5>1, <5>2
      <4>7. PICK l \in 1..(2 * n) : a \in ToSet(deal[l])
        BY <4>6
      <4>8. PICK j \in 1..n : (l = j \/ l = n + j)
        <5>1. l \in 1..n \/ (l - n \in 1..n /\ l = n + (l - n))
          BY <1>1
        <5> QED
          BY <5>1
      <4>9. mach(l) = M[t[j]] /\ t[j] \in DOMAIN M /\ mach(j) = M[t[j]]
        BY <1>3, <4>8
      <4>10. a \in Eligible(M[t[j]])
        BY <1>5, <4>7, <4>9
      <4>11. mach(j).cluster = C
        BY <4>4, <4>9, <4>10, EligibleCluster, SMTT(40)
      <4>12. a \in T[j]
        BY <4>7, <4>8, <4>11 DEF T
      <4> QED
        BY <4>12 DEF Upto
    <3> DEFINE A == Upto(T, n)
               B == Upto(P, n)
    <3>8. IsFiniteSet(A) /\ B \subseteq A /\ Cardinality(A) < Cardinality(B)
      BY <3>5, <3>6, <3>7 DEF Counted
    <3> HIDE DEF A, B
    <3>9. Cardinality(B) <= Cardinality(A) /\ Cardinality(A) \in Nat /\ Cardinality(B) \in Nat
      <4>1. IsFiniteSet(B) /\ Cardinality(B) <= Cardinality(A)
        BY <3>8, FS_Subset
      <4> QED
        BY <3>8, <4>1, FS_CardinalityType
    <3> QED
      BY <3>8, <3>9
  <2>4. ~(y < all - min) /\ x <= min /\ y <= all - min
    BY <2>2, <2>3
  <2>5. x + y = all
    <3> HIDE DEF x, y, all, min
    <3> QED
      BY <1>13, <2>4
  <2> QED
    BY <2>5
<1> QED
  BY <1>11, <1>12
-----------------------------------------------------------------------------
(* test_slot *)

\* The nodes that are free for the whole job, as SlotTestExact says it.
FreeAt(status, start, walltime) ==
    {n \in G5kNodes : /\ status[n].hard \notin {"dead", "suspected"}
                      /\ \A i \in DOMAIN status[n].reservations :
                            LET r == status[n].reservations[i]
                            IN  \/ r.queue = "besteffort"
                                \/ r.from + r.walltime <= start
                                \/ start + walltime <= r.from}
\* All reservations have dates.
AllDated(status) ==
    \A n \in G5kNodes : \A i \in DOMAIN status[n].reservations : status[n].reservations[i].from # Undated
\* Lists of servers leave no choice.
NoChoice(machines) ==
    \A i \in DOMAIN machines : IsServers(machines[i]) =>
        machines[i].nodes = Len(machines[i].servers) /\ Cardinality(ToSet(machines[i].servers)) = Len(machines[i].servers)

\* Two segments overlap unless one ends before the other starts.
LEMMA OverlapIs ==
  ASSUME NEW r, r.from \in Int, r.walltime \in Nat \ {0}, NEW start \in Nat, NEW walltime \in Nat \ {0}
  PROVE  Overlaps(r, start, walltime) <=> ~(r.from + r.walltime <= start) /\ ~(start + walltime <= r.from)
<1> DEFINE a == r.from
           w == r.walltime
           lo == Min({a + w, start + walltime})
           hi == Max({a, start})
<1>1. a \in Int /\ w \in Nat \ {0}
  OBVIOUS
<1>2. Overlaps(r, start, walltime) <=> lo - hi > 0
  BY DEF Overlaps
<1> HIDE DEF a, w
<1>3. lo = (IF a + w <= start + walltime THEN a + w ELSE start + walltime)
  BY <1>1 DEF Min
<1>4. hi = (IF a <= start THEN start ELSE a)
  BY <1>1 DEF Max
<1> HIDE DEF lo, hi
<1>5. lo - hi > 0 <=> ~(a + w <= start) /\ ~(start + walltime <= a)
  BY <1>1, <1>3, <1>4
<1> QED
  BY <1>2, <1>5 DEF a, w

\* With dates, the candidates of test_slot are the nodes that are free.
LEMMA CandidatesAre ==
  ASSUME NEW status \in Statuses, NEW start \in Nat, NEW walltime \in Nat \ {0}, AllDated(status)
  PROVE  Candidates(status, start, walltime) = FreeAt(status, start, walltime)
<1>1. ASSUME NEW n \in G5kNodes
      PROVE  ~InTheWay(status[n].reservations, start, walltime) <=>
               \A i \in DOMAIN status[n].reservations :
                 LET r == status[n].reservations[i]
                 IN  r.queue = "besteffort" \/ r.from + r.walltime <= start \/ start + walltime <= r.from
  <2> DEFINE rs == status[n].reservations
             R == [queue : STRING, from : Int, walltime : Nat \ {0}]
  <2>1. rs \in Seq(R)
    BY G5kResourcesAssumption
  <2>2. ASSUME NEW i \in DOMAIN rs
        PROVE  rs[i].from \in Int /\ rs[i].walltime \in Nat \ {0}
    <3>1. rs[i] \in R
      <4> HIDE DEF rs, R
      <4> QED
        BY <2>1, EntryIs
    <3> HIDE DEF rs
    <3> QED
      BY <3>1
  <2>3. \A i \in DOMAIN rs : rs[i].from # Undated
    BY DEF AllDated
  <2> HIDE DEF rs, R
  <2>4. DOMAIN rs = 1..Len(rs) /\ Len(rs) \in Nat
    BY <2>1
  <2>5. \A i \in DOMAIN rs : \A j \in 1..i : j \in DOMAIN rs
    BY <2>4
  <2>6. InTheWay(rs, start, walltime) <=> \E i \in DOMAIN rs : rs[i].queue # "besteffort" /\ Overlaps(rs[i], start, walltime)
    BY <2>3, <2>5 DEF InTheWay
  <2>7. \A i \in DOMAIN rs : Overlaps(rs[i], start, walltime)
            <=> ~(rs[i].from + rs[i].walltime <= start) /\ ~(start + walltime <= rs[i].from)
    BY <2>2, OverlapIs
  <2>8. ~InTheWay(rs, start, walltime) <=>
          \A i \in DOMAIN rs : rs[i].queue = "besteffort" \/ rs[i].from + rs[i].walltime <= start \/ start + walltime <= rs[i].from
    BY <2>6, <2>7
  <2> QED
    BY <2>8 DEF rs
<1> QED
  BY <1>1 DEF Candidates, FreeAt

\* What test_slot counts, cluster by cluster.
GroupsOn(machines, cluster) == {i \in DOMAIN machines : machines[i].cluster = cluster}
\* A ticket for each node that a group demands; the servers of the lists of a cluster.
Tickets(machines, I) == UNION {{i} \X (1..Demand(machines[i])) : i \in I}
Exact(machines, cluster) == UNION {ToSet(machines[i].servers) : i \in GroupsOn(machines, cluster)}
\* The nodes of a cluster.
FreeOn(free, cluster) == {n \in free : ClusterOf[n] = cluster}

\* test_slot, in these words.
LEMMA SlotTestIs ==
  ASSUME NEW machines, NEW status, NEW start, NEW walltime
  PROVE  TestSlotG5k(machines, status, start, walltime) <=>
           \A cluster \in {machines[i].cluster : i \in DOMAIN machines} :
             /\ Cardinality(FreeOn(Candidates(status, start, walltime), cluster))
                  >= Cardinality(Tickets(machines, GroupsOn(machines, cluster)))
             /\ Exact(machines, cluster) \subseteq FreeOn(Candidates(status, start, walltime), cluster)
BY DEF TestSlotG5k, FreeOn, Tickets, GroupsOn, Exact

\* The tickets of some machines, as a family.
TicketsOf(machines, I) == [i \in DOMAIN machines |-> IF i \in I THEN {i} \X (1..Demand(machines[i])) ELSE {}]

\* A group has as many tickets as nodes it asks for.
LEMMA TicketsAre ==
  ASSUME NEW c, FinalOK(c), NoChoice(c.machines), NEW I \in SUBSET DOMAIN c.machines
  PROVE  /\ Upto(TicketsOf(c.machines, I), Len(c.machines)) = Tickets(c.machines, I)
         /\ NoneShared(TicketsOf(c.machines, I), Len(c.machines))
         /\ \A i \in I : Demand(c.machines[i]) = c.machines[i].nodes
         /\ \A i \in DOMAIN c.machines :
              /\ IsFiniteSet(TicketsOf(c.machines, I)[i])
              /\ Cardinality(TicketsOf(c.machines, I)[i]) = IF i \in I THEN c.machines[i].nodes ELSE 0
<1> DEFINE M == c.machines
           n == Len(M)
           f == TicketsOf(M, I)
<1>1. M \in Seq(MachineOK(c)) /\ n \in Nat /\ DOMAIN M = 1..n
  BY DEF FinalOK
<1>2. \A i \in DOMAIN M : M[i].nodes \in Nat /\ Demand(M[i]) = M[i].nodes
  <2> TAKE i \in DOMAIN M
  <2>1. M[i] \in MachineOK(c)
    BY <1>1, EntryIs
  <2>2. M[i].nodes \in Nat
    BY <2>1 DEF MachineOK
  <2> QED
    BY <2>2 DEF NoChoice, Demand
<1> DEFINE hand(i) == {i} \X (1..Demand(M[i]))
<1>3. \A i \in DOMAIN M : f[i] = IF i \in I THEN hand(i) ELSE {}
  BY DEF TicketsOf
<1>7. \A i : \A a \in hand(i) : a[1] = i
  OBVIOUS
<1>8. Tickets(M, I) = UNION {hand(i) : i \in I}
  BY DEF Tickets
<1>9. \A i \in DOMAIN M : hand(i) = {i} \X (1..M[i].nodes)
  BY <1>2
<1> HIDE DEF hand, f
<1>4. Upto(f, n) = Tickets(M, I)
  <2>1. \A a \in Upto(f, n) : a \in Tickets(M, I)
    <3> TAKE a \in Upto(f, n)
    <3>1. PICK i \in 1..n : a \in f[i]
      BY DEF Upto
    <3>2. i \in I /\ a \in hand(i)
      BY <1>1, <1>3, <3>1
    <3> QED
      BY <1>8, <3>2
  <2>2. \A a \in Tickets(M, I) : a \in Upto(f, n)
    <3> TAKE a \in Tickets(M, I)
    <3>1. PICK i \in I : a \in hand(i)
      BY <1>8
    <3>2. i \in 1..n /\ a \in f[i]
      BY <1>1, <1>3, <3>1
    <3> QED
      BY <3>2 DEF Upto
  <2> QED
    BY <2>1, <2>2
<1>5. NoneShared(f, n)
  <2> SUFFICES ASSUME NEW i \in 1..n, NEW j \in 1..n, i # j PROVE f[i] \cap f[j] = {}
    BY DEF NoneShared
  <2>1. \A a \in f[i] : a[1] = i
    BY <1>1, <1>3, <1>7
  <2>2. \A a \in f[j] : a[1] = j
    BY <1>1, <1>3, <1>7
  <2> QED
    BY <2>1, <2>2
<1>6. ASSUME NEW i \in DOMAIN M
      PROVE  IsFiniteSet(f[i]) /\ Cardinality(f[i]) = IF i \in I THEN M[i].nodes ELSE 0
  <2>1. CASE i \in I
    <3> DEFINE k == M[i].nodes
    <3>1. k \in Nat /\ f[i] = {i} \X (1..k)
      <4>1. k \in Nat
        BY <1>2
      <4>2. f[i] = hand(i)
        BY <1>3, <2>1
      <4>3. hand(i) = {i} \X (1..k)
        BY <1>9, Zenon
      <4> QED
        BY <4>1, <4>2, <4>3, Zenon
    <3> HIDE DEF k
    <3>2. IsFiniteSet(1..k) /\ Cardinality(1..k) = k /\ IsFiniteSet({i}) /\ Cardinality({i}) = 1
      <4>1. IsFiniteSet(1..k) /\ Cardinality(1..k) = k
        <5>1. IsFiniteSet(1..k) /\ Cardinality(1..k) = IF 1 > k THEN 0 ELSE k - 1 + 1
          BY <3>1, FS_Interval
        <5> QED
          BY <3>1, <5>1
      <4> QED
        BY <4>1, FS_Singleton
    <3>3. IsFiniteSet({i} \X (1..k)) /\ Cardinality({i} \X (1..k)) = Cardinality({i}) * Cardinality(1..k)
      BY <3>2, FS_Product
    <3>4. Cardinality({i} \X (1..k)) = k
      BY <3>1, <3>2, <3>3
    <3> QED
      BY <2>1, <3>1, <3>3, <3>4 DEF k
  <2>2. CASE i \notin I
    <3>1. f[i] = {}
      BY <1>3, <2>2
    <3> QED
      BY <2>2, <3>1, FS_EmptySet
  <2> QED
    BY <2>1, <2>2
<1> QED
  BY <1>2, <1>4, <1>5, <1>6 DEF f

\* A finite set goes into one that is no smaller.
LEMMA FitsInto ==
  ASSUME NEW A, NEW B, IsFiniteSet(A), IsFiniteSet(B), Cardinality(A) <= Cardinality(B)
  PROVE  \E f : f \in Injection(A, B)
<1> DEFINE a == Cardinality(A)
           b == Cardinality(B)
<1>1. a \in Nat /\ b \in Nat /\ ExistsBijection(1..a, A) /\ ExistsBijection(1..b, B)
  BY FS_CardinalityType
<1>2. PICK p \in Bijection(1..a, A) : TRUE
  BY <1>1 DEF ExistsBijection
<1>3. PICK q \in Bijection(1..b, B) : TRUE
  BY <1>1 DEF ExistsBijection
<1>4. /\ p \in [1..a -> A] /\ \A x \in A : \E k \in 1..a : p[k] = x
      /\ q \in [1..b -> B] /\ \A k, l \in 1..b : q[k] = q[l] => k = l
  BY <1>2, <1>3 DEF Bijection, Injection, IsInjective, Surjection
<1> DEFINE at(x) == CHOOSE k \in 1..a : p[k] = x
           f == [x \in A |-> q[at(x)]]
<1>5. \A x \in A : at(x) \in 1..a /\ p[at(x)] = x
  BY <1>4
<1>6. a <= b
  OBVIOUS
<1> HIDE DEF at, a, b
<1>7. \A x \in A : at(x) \in 1..b
  BY <1>1, <1>5, <1>6
<1>8. f \in [A -> B]
  BY <1>4, <1>7
<1>9. \A x, y \in A : f[x] = f[y] => x = y
  BY <1>4, <1>5, <1>7
<1>10. f \in Injection(A, B)
  BY <1>8, <1>9 DEF Injection, IsInjective
<1> QED
  BY <1>10

\* Distinct free nodes for all the groups: test_slot says yes.
LEMMA SharesEnough ==
  ASSUME NEW c, FinalOK(c), NoChoice(c.machines), NEW free \in SUBSET G5kNodes, NEW share,
         SharesOf(free, c.machines, share), NEW cluster
  PROVE  /\ Cardinality(FreeOn(free, cluster)) >= Cardinality(Tickets(c.machines, GroupsOn(c.machines, cluster)))
         /\ Exact(c.machines, cluster) \subseteq FreeOn(free, cluster)
<1> DEFINE M == c.machines
           n == Len(M)
           I == GroupsOn(M, cluster)
           T == TicketsOf(M, I)
           P == [i \in 1..n |-> IF i \in I THEN share[i] ELSE {}]
           A == FreeOn(free, cluster)
<1>1. n \in Nat /\ DOMAIN M = 1..n /\ I \subseteq DOMAIN M /\ \A i \in I : M[i].cluster = cluster
  BY DEF FinalOK, GroupsOn
<1>2. /\ Upto(T, n) = Tickets(M, I) /\ NoneShared(T, n)
      /\ \A i \in DOMAIN M : IsFiniteSet(T[i]) /\ Cardinality(T[i]) = IF i \in I THEN M[i].nodes ELSE 0
  BY <1>1, TicketsAre
<1>3. \A i \in DOMAIN M : share[i] \subseteq free \cap Eligible(M[i]) /\ Cardinality(share[i]) = M[i].nodes /\ IsFiniteSet(share[i])
  <2>1. \A i \in DOMAIN M : share[i] \subseteq free \cap Eligible(M[i]) /\ Cardinality(share[i]) = M[i].nodes
    BY DEF SharesOf
  <2>2. \A i \in DOMAIN M : share[i] \in SUBSET G5kNodes
    BY <2>1
  <2> QED
    BY <2>1, <2>2, FiniteNodes
<1>4. \A i \in DOMAIN M : M[i].nodes \in Nat
  <2> TAKE i \in DOMAIN M
  <2>1. M[i] \in MachineOK(c)
    BY EntryIs DEF FinalOK
  <2> QED
    BY <2>1 DEF MachineOK
<1> HIDE DEF T
<1>5. Smaller(T, P, n)
  <2> SUFFICES ASSUME NEW i \in 1..n
               PROVE  IsFiniteSet(T[i]) /\ IsFiniteSet(P[i]) /\ Cardinality(T[i]) <= Cardinality(P[i])
    BY DEF Smaller
  <2>1. CASE i \in I
    <3>1. P[i] = share[i] /\ Cardinality(T[i]) = M[i].nodes /\ Cardinality(share[i]) = M[i].nodes /\ M[i].nodes \in Nat
      BY <1>1, <1>2, <1>3, <1>4, <2>1
    <3> QED
      BY <1>1, <1>2, <1>3, <3>1
  <2>2. CASE i \notin I
    <3>1. P[i] = {} /\ Cardinality(T[i]) = 0
      BY <1>1, <1>2, <2>2
    <3>2. IsFiniteSet({}) /\ Cardinality({}) = 0 /\ 0 <= 0
      BY FS_EmptySet
    <3> HIDE DEF P
    <3> QED
      BY <1>1, <1>2, <3>1, <3>2
  <2> QED
    BY <2>1, <2>2
<1>6. NoneShared(P, n)
  <2>1. \A i, j \in DOMAIN M : i # j => share[i] \cap share[j] = {}
    BY DEF SharesOf
  <2> QED
    BY <1>1, <2>1 DEF NoneShared
<1>7. Counted(T, P, n)
  <2> HIDE DEF T, P, n
  <2> QED
    BY <1>1, <1>5, <1>6, FamilyCounts
<1>8. Upto(P, n) \subseteq A
  <2> SUFFICES ASSUME NEW a \in Upto(P, n) PROVE a \in A
    OBVIOUS
  <2>1. PICK i \in 1..n : a \in P[i]
    BY DEF Upto
  <2>2. i \in I /\ i \in DOMAIN M /\ a \in free /\ a \in Eligible(M[i])
    BY <1>1, <1>3, <2>1
  <2>3. ClusterOf[a] = cluster
    BY <1>1, <2>2, EligibleCluster
  <2> QED
    BY <2>2, <2>3 DEF FreeOn
<1>9. IsFiniteSet(A)
  <2>1. A \in SUBSET G5kNodes
    BY DEF FreeOn
  <2> QED
    BY <2>1, FiniteNodes
<1>10. Cardinality(A) >= Cardinality(Tickets(M, I))
  <2> DEFINE u == Upto(T, n)
             v == Upto(P, n)
  <2>1. IsFiniteSet(u) /\ IsFiniteSet(v) /\ Cardinality(u) <= Cardinality(v) /\ u = Tickets(M, I) /\ v \subseteq A
    BY <1>2, <1>7, <1>8 DEF Counted
  <2> HIDE DEF u, v, A
  <2>2. Cardinality(v) <= Cardinality(A)
    BY <1>9, <2>1, FS_Subset
  <2>3. Cardinality(u) \in Nat /\ Cardinality(v) \in Nat /\ Cardinality(A) \in Nat
    BY <1>9, <2>1, FS_CardinalityType
  <2>4. Cardinality(A) >= Cardinality(u)
    BY <2>1, <2>2, <2>3
  <2> QED
    BY <2>1, <2>4
<1>11. Exact(M, cluster) \subseteq A
  <2> SUFFICES ASSUME NEW a \in Exact(M, cluster) PROVE a \in A
    OBVIOUS
  <2>1. PICK i \in I : a \in ToSet(M[i].servers)
    BY DEF Exact
  <2>2. i \in DOMAIN M /\ M[i].cluster = cluster /\ M[i] \in MachineOK(c)
    BY <1>1, EntryIs DEF FinalOK
  <2> DEFINE s == M[i].servers
  <2>3. s \in Seq(G5kNodes)
    BY <2>2 DEF MachineOK
  <2>4. IsServers(M[i])
    BY <2>1 DEF IsServers, ToSet
  <2>5. M[i].nodes = Len(s) /\ Cardinality(ToSet(s)) = Len(s)
    BY <2>2, <2>4 DEF NoChoice
  <2>6. share[i] \subseteq ToSet(s)
    BY <1>3, <2>2, <2>4 DEF Eligible
  <2>7. IsFiniteSet(ToSet(s))
    BY <2>3, ListFinite
  <2>8. Cardinality(share[i]) = M[i].nodes
    BY <1>3, <2>2
  <2>9. share[i] = ToSet(s)
    BY <2>5, <2>6, <2>7, <2>8, FS_Subset
  <2>10. a \in free
    BY <1>3, <2>1, <2>2, <2>9
  <2>11. ClusterOf[a] = cluster
    BY <2>1, <2>2 DEF FinalOK
  <2> QED
    BY <2>10, <2>11 DEF FreeOn
<1> QED
  BY <1>10, <1>11

\* The groups of a cluster that have lists of servers, those that have not, and what is
\* left for them.
ListsOn(machines, cluster) == {i \in GroupsOn(machines, cluster) : IsServers(machines[i])}
\* The groups of a cluster that have no list, and the nodes that are left for them.
OthersOn(machines, cluster) == {i \in GroupsOn(machines, cluster) : ~IsServers(machines[i])}
Spare(free, machines, cluster) == FreeOn(free, cluster) \ Exact(machines, cluster)

\* When test_slot says yes, the others can have nodes that are in no list.
LEMMA SpareEnough ==
  ASSUME NEW c, FinalOK(c), NoChoice(c.machines), NEW free \in SUBSET G5kNodes, NEW cluster,
         Cardinality(FreeOn(free, cluster)) >= Cardinality(Tickets(c.machines, GroupsOn(c.machines, cluster))),
         Exact(c.machines, cluster) \subseteq FreeOn(free, cluster)
  PROVE  \E f : f \in Injection(Tickets(c.machines, OthersOn(c.machines, cluster)), Spare(free, c.machines, cluster))
<1> DEFINE M == c.machines
           n == Len(M)
           L == ListsOn(M, cluster)
           K == OthersOn(M, cluster)
           I == GroupsOn(M, cluster)
           T == [i \in 1..n |-> IF i \in L THEN ToSet(M[i].servers) ELSE {}]
           P == TicketsOf(M, L)
           A == FreeOn(free, cluster)
           X == Exact(M, cluster)
           tl == Tickets(M, L)
           tk == Tickets(M, K)
           ti == Tickets(M, I)
<1>1. /\ n \in Nat /\ DOMAIN M = 1..n /\ I \in SUBSET DOMAIN M /\ L \in SUBSET DOMAIN M /\ K \in SUBSET DOMAIN M
      /\ I = L \cup K /\ L \cap K = {}
  BY DEF FinalOK, GroupsOn, ListsOn, OthersOn
<1>2. /\ Upto(P, n) = tl /\ NoneShared(P, n)
      /\ \A i \in DOMAIN M : IsFiniteSet(P[i]) /\ Cardinality(P[i]) = IF i \in L THEN M[i].nodes ELSE 0
  BY <1>1, TicketsAre
<1>3. ASSUME NEW i \in L
      PROVE  IsFiniteSet(ToSet(M[i].servers)) /\ Cardinality(ToSet(M[i].servers)) = M[i].nodes /\ M[i].nodes \in Nat
  <2>1. M[i] \in MachineOK(c) /\ i \in DOMAIN M /\ IsServers(M[i])
    BY <1>1, EntryIs DEF FinalOK, ListsOn
  <2>2. M[i].servers \in Seq(G5kNodes) /\ M[i].nodes \in Nat
    BY <2>1 DEF MachineOK
  <2>3. IsFiniteSet(ToSet(M[i].servers))
    BY <2>2, ListFinite
  <2>4. Cardinality(ToSet(M[i].servers)) = M[i].nodes
    BY <2>1 DEF NoChoice
  <2> QED
    BY <2>2, <2>3, <2>4
<1> HIDE DEF P
<1>4. Smaller(T, P, n)
  <2> SUFFICES ASSUME NEW i \in 1..n
               PROVE  IsFiniteSet(T[i]) /\ IsFiniteSet(P[i]) /\ Cardinality(T[i]) <= Cardinality(P[i])
    BY DEF Smaller
  <2>1. CASE i \in L
    <3>1. T[i] = ToSet(M[i].servers) /\ Cardinality(P[i]) = M[i].nodes
      BY <1>1, <1>2, <2>1
    <3> QED
      BY <1>1, <1>2, <1>3, <2>1, <3>1
  <2>2. CASE i \notin L
    <3>1. T[i] = {} /\ Cardinality(P[i]) = 0
      BY <1>1, <1>2, <2>2
    <3>2. IsFiniteSet({}) /\ Cardinality({}) = 0 /\ 0 <= 0
      BY FS_EmptySet
    <3> HIDE DEF T
    <3> QED
      BY <1>1, <1>2, <3>1, <3>2
  <2> QED
    BY <2>1, <2>2
<1>5. Upto(T, n) = X
  <2>1. \A i \in DOMAIN M : ~IsServers(M[i]) => ToSet(M[i].servers) = {}
    BY DEF IsServers, ToSet
  <2>2. \A a \in Upto(T, n) : a \in X
    <3> TAKE a \in Upto(T, n)
    <3>1. PICK i \in 1..n : a \in T[i]
      BY DEF Upto
    <3>2. i \in L /\ a \in ToSet(M[i].servers)
      BY <3>1
    <3> QED
      BY <3>2 DEF Exact, ListsOn
  <2>3. \A a \in X : a \in Upto(T, n)
    <3> TAKE a \in X
    <3>1. PICK i \in I : a \in ToSet(M[i].servers)
      BY DEF Exact
    <3>2. i \in L /\ i \in 1..n
      BY <1>1, <2>1, <3>1 DEF ListsOn
    <3>3. a \in T[i]
      BY <3>1, <3>2
    <3> QED
      BY <3>2, <3>3 DEF Upto
  <2> QED
    BY <2>2, <2>3
<1>6. Counted(T, P, n)
  <2> HIDE DEF T, n
  <2> QED
    BY <1>1, <1>2, <1>4, FamilyCounts
<1>7. IsFiniteSet(X) /\ IsFiniteSet(tl) /\ Cardinality(X) <= Cardinality(tl)
  BY <1>2, <1>5, <1>6 DEF Counted
<1>8. IsFiniteSet(tk)
  <2> DEFINE Q == TicketsOf(M, K)
  <2>1. Upto(Q, n) = tk /\ NoneShared(Q, n) /\ \A i \in DOMAIN M : IsFiniteSet(Q[i])
    BY <1>1, TicketsAre
  <2>2. Upto(Q, n) = UNION {Q[i] : i \in 1..n}
    BY DEF Upto
  <2> DEFINE F == {Q[i] : i \in 1..n}
             q == [i \in 1..n |-> Q[i]]
  <2>3. q \in Surjection(1..n, F)
    BY DEF Surjection
  <2>4. IsFiniteSet(1..n)
    BY <1>1, FS_Interval
  <2>5. \A S \in F : IsFiniteSet(S)
    BY <1>1, <2>1
  <2> HIDE DEF F, q, Q, n
  <2>6. IsFiniteSet(F)
    BY <2>3, <2>4, FS_Surjection
  <2>7. IsFiniteSet(UNION F)
    BY <2>5, <2>6, FS_UNION
  <2>8. UNION F = tk
    BY <2>1, <2>2 DEF F
  <2> QED
    BY <2>7, <2>8
<1>9. ti = tl \cup tk /\ tl \cap tk = {}
  <2> DEFINE hand(i) == {i} \X (1..Demand(M[i]))
  <2>1. ti = UNION {hand(i) : i \in I} /\ tl = UNION {hand(i) : i \in L} /\ tk = UNION {hand(i) : i \in K}
    BY DEF Tickets
  <2>2. \A i, j : i # j => hand(i) \cap hand(j) = {}
    <3>1. \A i : \A a \in hand(i) : a[1] = i
      OBVIOUS
    <3> HIDE DEF hand
    <3> QED
      BY <3>1
  <2> HIDE DEF hand, ti, tl, tk, L, K, I
  <2>3. ti = tl \cup tk
    BY <1>1, <2>1
  <2>4. tl \cap tk = {}
    BY <1>1, <2>1, <2>2
  <2> QED
    BY <2>3, <2>4
<1>10. IsFiniteSet(A)
  <2>1. A \in SUBSET G5kNodes
    BY DEF FreeOn
  <2> QED
    BY <2>1, FiniteNodes
<1>11. X \subseteq A /\ Cardinality(A) >= Cardinality(ti)
  OBVIOUS
<1> HIDE DEF A, X, tl, tk, ti
<1>12. IsFiniteSet(A \ X) /\ Cardinality(tk) <= Cardinality(A \ X)
  <2>1. IsFiniteSet(A \ X) /\ Cardinality(A \ X) = Cardinality(A) - Cardinality(A \cap X)
    BY <1>10, FS_Difference
  <2>2. A \cap X = X
    BY <1>11
  <2>3. IsFiniteSet(ti) /\ Cardinality(ti) = Cardinality(tl) + Cardinality(tk) - Cardinality(tl \cap tk)
    BY <1>7, <1>8, <1>9, FS_Union
  <2>4. Cardinality(tl \cap tk) = 0
    BY <1>9, FS_EmptySet
  <2>5. Cardinality(A) \in Nat /\ Cardinality(X) \in Nat /\ Cardinality(tl) \in Nat /\ Cardinality(tk) \in Nat
    BY <1>7, <1>8, <1>10, FS_CardinalityType
  <2> DEFINE ca == Cardinality(A)
             cx == Cardinality(X)
             cl == Cardinality(tl)
             ck == Cardinality(tk)
             ci == Cardinality(ti)
             co == Cardinality(A \ X)
  <2>6. /\ ca \in Nat /\ cx \in Nat /\ cl \in Nat /\ ck \in Nat /\ ca >= ci /\ cx <= cl
        /\ ci = cl + ck - 0 /\ co = ca - cx
    BY <1>7, <1>11, <2>1, <2>2, <2>3, <2>4, <2>5
  <2> HIDE DEF ca, cx, cl, ck, ci, co
  <2>7. ck <= co
    BY <2>6
  <2> QED
    BY <2>1, <2>7 DEF ck, co
<1>13. \E f : f \in Injection(tk, A \ X)
  BY <1>8, <1>12, FitsInto
<1>14. Spare(free, M, cluster) = A \ X
  BY DEF Spare, A, X
<1> QED
  BY <1>13, <1>14 DEF tk

\* test_slot says yes: distinct free nodes for all the groups.
LEMMA SharesFound ==
  ASSUME NEW c, FinalOK(c), NoChoice(c.machines), ListsApart(c.machines), NEW free \in SUBSET G5kNodes,
         \A cluster \in {c.machines[i].cluster : i \in DOMAIN c.machines} :
           /\ Cardinality(FreeOn(free, cluster)) >= Cardinality(Tickets(c.machines, GroupsOn(c.machines, cluster)))
           /\ Exact(c.machines, cluster) \subseteq FreeOn(free, cluster)
  PROVE  \E share : SharesOf(free, c.machines, share) /\ share = [i \in DOMAIN c.machines |-> share[i]]
<1> DEFINE M == c.machines
           cl(i) == M[i].cluster
           tickets(k) == Tickets(M, OthersOn(M, k))
           spare(k) == Spare(free, M, k)
           inj(k) == CHOOSE f : f \in Injection(tickets(k), spare(k))
           hand(i) == {i} \X (1..M[i].nodes)
           mine(i) == {inj(cl(i))[a] : a \in hand(i)}
           share == [i \in DOMAIN M |-> IF IsServers(M[i]) THEN ToSet(M[i].servers) ELSE mine(i)]
<1>1. \A i \in DOMAIN M : M[i].nodes \in Nat /\ M[i].servers \in Seq(G5kNodes) /\ Demand(M[i]) = M[i].nodes
  <2> TAKE i \in DOMAIN M
  <2>1. M[i] \in MachineOK(c)
    BY EntryIs DEF FinalOK
  <2>2. M[i].nodes \in Nat /\ M[i].servers \in Seq(G5kNodes)
    BY <2>1 DEF MachineOK
  <2> QED
    BY <2>2 DEF Demand, NoChoice
<1>2. ASSUME NEW i \in DOMAIN M
      PROVE  inj(cl(i)) \in Injection(tickets(cl(i)), spare(cl(i)))
  <2>1. \E f : f \in Injection(tickets(cl(i)), spare(cl(i)))
    BY SpareEnough
  <2> HIDE DEF tickets, spare
  <2> QED
    BY <2>1
<1>3. ASSUME NEW i \in DOMAIN M, ~IsServers(M[i])
      PROVE  hand(i) \subseteq tickets(cl(i))
  <2>1. i \in OthersOn(M, cl(i))
    BY <1>3 DEF OthersOn, GroupsOn
  <2>2. hand(i) = {i} \X (1..Demand(M[i]))
    BY <1>1
  <2> HIDE DEF hand
  <2> QED
    BY <2>1, <2>2 DEF Tickets
<1>4. \A k : \A x \in spare(k) : x \in free /\ x \in G5kNodes /\ ClusterOf[x] = k /\ x \notin Exact(M, k)
  BY DEF Spare, FreeOn
<1>5. \A i, j : i # j => hand(i) \cap hand(j) = {}
  <2>1. \A i : \A a \in hand(i) : a[1] = i
    OBVIOUS
  <2> HIDE DEF hand
  <2> QED
    BY <2>1
<1>6. \A i \in DOMAIN M : IsFiniteSet(hand(i)) /\ Cardinality(hand(i)) = M[i].nodes
  <2> TAKE i \in DOMAIN M
  <2> DEFINE k == M[i].nodes
  <2>1. k \in Nat
    BY <1>1
  <2>2. hand(i) = {i} \X (1..k)
    OBVIOUS
  <2> HIDE DEF k, hand
  <2>3. IsFiniteSet(1..k) /\ Cardinality(1..k) = k
    <3>1. IsFiniteSet(1..k) /\ Cardinality(1..k) = IF 1 > k THEN 0 ELSE k - 1 + 1
      BY <2>1, FS_Interval
    <3> QED
      BY <2>1, <3>1
  <2>4. IsFiniteSet({i}) /\ Cardinality({i}) = 1
    BY FS_Singleton
  <2>5. IsFiniteSet({i} \X (1..k)) /\ Cardinality({i} \X (1..k)) = Cardinality({i}) * Cardinality(1..k)
    BY <2>3, <2>4, FS_Product
  <2>6. Cardinality({i} \X (1..k)) = k
    BY <2>1, <2>3, <2>4, <2>5
  <2> QED
    BY <2>2, <2>5, <2>6 DEF k
<1> HIDE DEF tickets, spare, inj, hand
<1>7. ASSUME NEW i \in DOMAIN M, ~IsServers(M[i])
      PROVE  /\ mine(i) \subseteq spare(cl(i))
             /\ Cardinality(mine(i)) = M[i].nodes
  <2> DEFINE f == inj(cl(i))
             H == hand(i)
             g == [a \in H |-> f[a]]
             R == mine(i)
  <2>1. H \subseteq tickets(cl(i)) /\ f \in [tickets(cl(i)) -> spare(cl(i))]
        /\ \A a, b \in tickets(cl(i)) : f[a] = f[b] => a = b
    BY <1>2, <1>3, <1>7 DEF Injection, IsInjective
  <2>2. R = {f[a] : a \in H}
    OBVIOUS
  <2> HIDE DEF f, R, H
  <2>3. R \subseteq spare(cl(i))
    BY <2>1, <2>2
  <2>4. g \in Bijection(H, R)
    BY <2>1, <2>2 DEF Bijection, Injection, IsInjective, Surjection
  <2> HIDE DEF g
  <2>5. ExistsBijection(H, R)
    BY <2>4 DEF ExistsBijection
  <2>6. IsFiniteSet(H) /\ Cardinality(H) = M[i].nodes
    BY <1>6 DEF H
  <2>7. Cardinality(R) = Cardinality(H)
    BY <2>5, <2>6, FS_Bijection
  <2> QED
    BY <2>3, <2>6, <2>7 DEF R
<1>8. ASSUME NEW i \in DOMAIN M
      PROVE  share[i] \subseteq free \cap Eligible(M[i]) /\ Cardinality(share[i]) = M[i].nodes
  <2>1. CASE IsServers(M[i])
    <3>1. share[i] = ToSet(M[i].servers)
      BY <2>1
    <3>2. ToSet(M[i].servers) \subseteq Exact(M, cl(i))
      BY DEF Exact, GroupsOn
    <3>3. Exact(M, cl(i)) \subseteq free
      BY DEF FreeOn
    <3>4. Cardinality(ToSet(M[i].servers)) = M[i].nodes
      BY <2>1 DEF NoChoice
    <3> HIDE DEF share
    <3> QED
      BY <2>1, <3>1, <3>2, <3>3, <3>4 DEF Eligible
  <2>2. CASE ~IsServers(M[i])
    <3>1. share[i] = mine(i)
      BY <2>2
    <3>2. mine(i) \subseteq spare(cl(i)) /\ Cardinality(mine(i)) = M[i].nodes
      BY <1>7, <2>2
    <3>3. \A x \in spare(cl(i)) : x \in free /\ x \in Eligible(M[i])
      BY <1>4, <2>2 DEF Eligible
    <3> HIDE DEF share, mine
    <3> QED
      BY <3>1, <3>2, <3>3
  <2> QED
    BY <2>1, <2>2
<1>9. ASSUME NEW i \in DOMAIN M, NEW j \in DOMAIN M, i # j, NEW x \in share[i], x \in share[j]
      PROVE  FALSE
  <2>1. CASE IsServers(M[i]) /\ IsServers(M[j])
    BY <1>9, <2>1 DEF ListsApart
  <2>2. ASSUME NEW k \in DOMAIN M, NEW l \in DOMAIN M, IsServers(M[k]), ~IsServers(M[l]), x \in share[k], x \in share[l]
        PROVE  FALSE
    <3>1. x \in ToSet(M[k].servers) /\ x \in spare(cl(l))
      BY <1>7, <2>2
    <3>2. ClusterOf[x] = cl(k)
      BY <3>1 DEF FinalOK
    <3>3. ClusterOf[x] = cl(l) /\ x \notin Exact(M, cl(l))
      BY <1>4, <3>1
    <3>4. x \in Exact(M, cl(l))
      BY <3>1, <3>2, <3>3 DEF Exact, GroupsOn
    <3> QED
      BY <3>3, <3>4
  <2>3. CASE ~IsServers(M[i]) /\ ~IsServers(M[j])
    <3>1. x \in mine(i) /\ x \in mine(j)
      BY <1>9, <2>3
    <3>2. x \in spare(cl(i)) /\ x \in spare(cl(j))
      BY <1>7, <2>3, <3>1
    <3>3. cl(i) = cl(j)
      BY <1>4, <3>2
    <3>4. PICK a \in hand(i) : x = inj(cl(i))[a]
      BY <3>1
    <3>5. PICK b \in hand(j) : x = inj(cl(j))[b]
      BY <3>1
    <3>6. a \in tickets(cl(i)) /\ b \in tickets(cl(i))
      BY <1>3, <2>3, <3>3
    <3>7. a = b
      BY <1>2, <3>3, <3>4, <3>5, <3>6 DEF Injection, IsInjective
    <3> QED
      BY <1>5, <1>9, <3>7
  <2> QED
    BY <1>9, <2>1, <2>2, <2>3
<1>10. SharesOf(free, M, share)
  <2>1. DOMAIN share = DOMAIN M
    OBVIOUS
  <2> HIDE DEF share
  <2>2. \A i, j \in DOMAIN M : i # j => share[i] \cap share[j] = {}
    BY <1>9
  <2> QED
    BY <1>8, <2>1, <2>2 DEF SharesOf
<1>11. share = [i \in DOMAIN M |-> share[i]]
  OBVIOUS
<1> QED
  BY <1>10, <1>11

\* The answer of test_slot.
LEMMA SlotTestTells ==
  ASSUME NEW c, FinalOK(c), NEW status \in Statuses, NEW start \in Nat, NEW walltime \in Nat \ {0},
         AllDated(status), NoChoice(c.machines), ListsApart(c.machines)
  PROVE  TestSlotG5k(c.machines, status, start, walltime) <=> NodesFrom(FreeAt(status, start, walltime), c.machines) # {}
<1> DEFINE M == c.machines
           free == FreeAt(status, start, walltime)
           says == \A cluster \in {M[i].cluster : i \in DOMAIN M} :
             /\ Cardinality(FreeOn(free, cluster)) >= Cardinality(Tickets(M, GroupsOn(M, cluster)))
             /\ Exact(M, cluster) \subseteq FreeOn(free, cluster)
<1>1. free \in SUBSET G5kNodes
  BY DEF FreeAt
<1>2. TestSlotG5k(M, status, start, walltime) <=> says
  BY CandidatesAre, SlotTestIs
<1> HIDE DEF free
<1>3. says => \E share : SharesOf(free, M, share) /\ share = [i \in DOMAIN M |-> share[i]]
  BY <1>1, SharesFound
<1>4. (\E share : SharesOf(free, M, share)) => says
  BY <1>1, SharesEnough
<1>5. NodesFrom(free, M) # {} <=> \E share : SharesOf(free, M, share) /\ share = [i \in DOMAIN M |-> share[i]]
  <2> HIDE DEF M
  <2>1. \A S : S \in NodesFrom(free, M) <=>
          \E share : SharesOf(free, M, share) /\ S = UNION Range(share) /\ share = [i \in DOMAIN M |-> share[i]]
    BY NodesFromIs, Zenon
  <2>2. ASSUME NEW share, SharesOf(free, M, share), share = [i \in DOMAIN M |-> share[i]]
        PROVE  NodesFrom(free, M) # {}
    <3>1. UNION Range(share) \in NodesFrom(free, M)
      BY <2>1, <2>2, Zenon
    <3> QED
      BY <3>1
  <2>3. ASSUME NodesFrom(free, M) # {}
        PROVE  \E share : SharesOf(free, M, share) /\ share = [i \in DOMAIN M |-> share[i]]
    <3>1. PICK S : S \in NodesFrom(free, M)
      BY <2>3
    <3> QED
      BY <2>1, <3>1, Zenon
  <2> QED
    BY <2>2, <2>3
<1> HIDE DEF says
<1> QED
  BY <1>2, <1>3, <1>4, <1>5 DEF free
=============================================================================
