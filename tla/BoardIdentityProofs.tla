------------------------ MODULE BoardIdentityProofs ------------------------
(***************************************************************************)
(* Theorems about the board's identity, for every chip, every width it is  *)
(* programmed in and every serial number.                                  *)
(***************************************************************************)
EXTENDS BoardIdentity, TLAPS, WellFoundedInduction

-----------------------------------------------------------------------------
(* The table of erase regions                                              *)

\* Induction over the naturals, for a set: a set that has 0 and the successor
\* of each of its numbers has them all.
LEMMA SetInduction ==
  ASSUME NEW S, 0 \in S, \A n \in Nat : n \in S => n + 1 \in S
  PROVE  \A n \in Nat : n \in S
<1> DEFINE R == {ss \in Nat \X Nat : ss[1] < ss[2]}
           T == {n \in Nat : n \notin S}
<1>1. IsWellFoundedOn(R, Nat)
  <2>1. OpToRel(<, Nat) = R
    BY Zenon DEF OpToRel
  <2> HIDE DEF R
  <2> QED BY <2>1, NatLessThanWellFounded, Zenon
<1>2. ASSUME T # {} PROVE FALSE
  <2>1. T \subseteq Nat
    OBVIOUS
  <2>2. PICK n \in T : \A m \in T : <<m, n>> \notin R
    <3> HIDE DEF R, T
    <3> QED BY <1>1, <1>2, <2>1, WFMin
  <2>3. n \in Nat /\ n # 0 /\ n \notin S
    OBVIOUS
  <2>4. n - 1 \in Nat /\ n - 1 < n
    BY <2>3
  <2>5. <<n - 1, n>> \in R
    BY <2>3, <2>4
  <2>6. n - 1 \in S
    BY <2>2, <2>4, <2>5
  <2>7. n - 1 + 1 \in S
    BY <2>4, <2>6
  <2> QED BY <2>3, <2>7
<1> QED BY <1>2

\* A function from 0 .. n that starts at a and takes each value from the one
\* before by G exists: what a recursive definition over 0 .. n needs to be
\* what it says.
LEMMA RecursionUpTo ==
  ASSUME NEW n \in Nat, NEW S, NEW a \in S, NEW G \in [1 .. n -> [S -> S]]
  PROVE  \E f \in [0 .. n -> S] :
           f[0] = a /\ \A m \in 1 .. n : f[m] = G[m][f[m - 1]]
<1> DEFINE UpTo(m) == {f \in [0 .. m -> S] :
                         f[0] = a /\ \A j \in 1 .. m : f[j] = G[j][f[j - 1]]}
           T == {m \in Nat : m <= n => UpTo(m) # {}}
<1>1. 0 \in T
  <2>1. [j \in 0 .. 0 |-> a] \in UpTo(0)
    OBVIOUS
  <2> QED BY <2>1
<1>2. ASSUME NEW m \in Nat, m \in T PROVE m + 1 \in T
  <2>1. SUFFICES ASSUME m + 1 <= n PROVE UpTo(m + 1) # {}
    OBVIOUS
  <2>2. PICK f \in UpTo(m) : TRUE
    BY <1>2, <2>1
  <2>3. m + 1 \in 1 .. n /\ f[m] \in S
    BY <2>1, <2>2
  <2>4. G[m + 1][f[m]] \in S
    BY <2>3
  <2> DEFINE v == G[m + 1][f[m]]
             g == [j \in 0 .. m + 1 |-> IF j = m + 1 THEN v ELSE f[j]]
  <2>5. g \in [0 .. m + 1 -> S] /\ g[0] = a
    <3>1. v \in S /\ f[0] = a /\ f \in [0 .. m -> S]
      BY <2>2, <2>4
    <3> HIDE DEF v, UpTo
    <3>2. ASSUME NEW j \in 0 .. m + 1
          PROVE  (IF j = m + 1 THEN v ELSE f[j]) \in S
      BY <3>1
    <3> QED BY <3>1, <3>2
  <2>6. ASSUME NEW j \in 1 .. m + 1 PROVE g[j] = G[j][g[j - 1]]
    <3>1. j - 1 \in 0 .. m /\ g[j - 1] = f[j - 1]
      BY <2>2
    <3>2. CASE j = m + 1
      BY <3>1, <3>2
    <3>3. CASE j # m + 1
      BY <2>2, <3>1, <3>3
    <3> QED BY <3>2, <3>3
  <2>7. g \in UpTo(m + 1)
    <3> HIDE DEF g
    <3> QED BY <2>5, <2>6
  <2> QED BY <2>7
<1>3. n \in T
  <2> HIDE DEF T
  <2> QED BY <1>1, <1>2, SetInduction
<1> QED BY <1>3

\* The values of such a function keep the type that its first one has and each
\* passes on.
LEMMA TypedUpTo ==
  ASSUME NEW n \in Nat, NEW S, NEW f, f[0] \in S,
         \A m \in 1 .. n : f[m - 1] \in S => f[m] \in S
  PROVE  \A m \in 0 .. n : f[m] \in S
<1> DEFINE T == {m \in Nat : m <= n => f[m] \in S}
<1>1. 0 \in T
  OBVIOUS
<1>2. ASSUME NEW m \in Nat, m \in T PROVE m + 1 \in T
  <2>1. SUFFICES ASSUME m + 1 <= n PROVE f[m + 1] \in S
    OBVIOUS
  <2>2. m + 1 \in 1 .. n /\ m + 1 - 1 = m /\ f[m] \in S
    BY <1>2, <2>1
  <2> QED BY <2>2
<1>3. \A m \in Nat : m \in T
  <2> HIDE DEF T
  <2> QED BY <1>1, <1>2, SetInduction
<1> QED BY <1>3

\* A region is at least as large as one of its blocks.
LEMMA RegionSizeNat ==
  ASSUME NEW r \in Region
  PROVE  RegionSize(r) \in Nat /\ RegionSize(r) >= r.size
<1>1. r.blocks \in Nat \ {0} /\ r.size \in Nat
  BY DEF Region
<1>2. \A a \in Nat \ {0}, b \in Nat : a * b \in Nat /\ a * b >= b
  OBVIOUS
<1> QED BY <1>1, <1>2 DEF RegionSize

\* The offsets are the running sums of the sizes of the regions.
LEMMA OffsetStep ==
  ASSUME NEW rs \in Seq(Region)
  PROVE  /\ Offset(rs, 1) = 0
         /\ \A n \in 1 .. Len(rs) + 1 : Offset(rs, n) \in Nat
         /\ \A n \in 1 .. Len(rs) :
              Offset(rs, n + 1) = Offset(rs, n) + RegionSize(rs[n])
<1> DEFINE L == Len(rs)
           Sums(f) == f = [m \in 0 .. L |->
                             IF m = 0 THEN 0 ELSE f[m - 1] + RegionSize(rs[m])]
           G == [m \in 1 .. L |-> [v \in Nat |-> v + RegionSize(rs[m])]]
<1>1. \A m \in 1 .. L : RegionSize(rs[m]) \in Nat
  <2>1. \A m \in 1 .. L : rs[m] \in Region
    OBVIOUS
  <2> QED BY <2>1, RegionSizeNat
<1>2. L \in Nat /\ G \in [1 .. L -> [Nat -> Nat]]
  BY <1>1
<1>3. PICK f \in [0 .. L -> Nat] :
        f[0] = 0 /\ \A m \in 1 .. L : f[m] = G[m][f[m - 1]]
  <2> DEFINE S == Nat
             a == 0
  <2>1. L \in Nat /\ a \in S /\ G \in [1 .. L -> [S -> S]]
    BY <1>2
  <2> HIDE DEF G, L, S, a
  <2>2. \E f \in [0 .. L -> S] :
           f[0] = a /\ \A m \in 1 .. L : f[m] = G[m][f[m - 1]]
    BY <2>1, RecursionUpTo
  <2> QED BY <2>2 DEF S, a
<1>4. Sums(f)
  <2>1. ASSUME NEW m \in 1 .. L PROVE f[m] = f[m - 1] + RegionSize(rs[m])
    <3>1. m - 1 \in 0 .. L /\ f[m - 1] \in Nat
      <4> HIDE DEF L, G
      <4> QED BY <1>2
    <3>2. G[m][f[m - 1]] = f[m - 1] + RegionSize(rs[m])
      BY <3>1
    <3> QED BY <1>3, <3>2
  <2> QED BY <1>2, <1>3, <2>1
<1> DEFINE sum == CHOOSE g : Sums(g)
<1>5. Sums(sum)
  <2> HIDE DEF Sums
  <2> QED BY <1>4
<1>6. \A n : Offset(rs, n) = sum[n - 1]
  BY DEF Offset
<1> HIDE DEF sum
<1>7. sum[0] = 0 /\ \A m \in 1 .. L : sum[m] = sum[m - 1] + RegionSize(rs[m])
  BY <1>2, <1>5
<1>8. \A m \in 0 .. L : sum[m] \in Nat
  <2>1. sum[0] \in Nat
    BY <1>7
  <2>2. \A m \in 1 .. L : sum[m - 1] \in Nat => sum[m] \in Nat
    BY <1>1, <1>7
  <2> HIDE DEF L
  <2> QED BY <1>2, <2>1, <2>2, TypedUpTo
<1>9. Offset(rs, 1) = 0
  BY <1>6, <1>7
<1>10. ASSUME NEW n \in 1 .. L + 1 PROVE Offset(rs, n) \in Nat
  <2>1. n - 1 \in 0 .. L
    BY <1>2
  <2> QED BY <1>6, <1>8, <2>1
<1>11. ASSUME NEW n \in 1 .. L
       PROVE  Offset(rs, n + 1) = Offset(rs, n) + RegionSize(rs[n])
  <2>1. n + 1 - 1 = n
    OBVIOUS
  <2>2. Offset(rs, n + 1) = sum[n] /\ Offset(rs, n) = sum[n - 1]
    BY <1>6, <2>1
  <2> QED BY <1>7, <2>2
<1> QED BY <1>9, <1>10, <1>11

\* A region ends before any later one begins.
LEMMA OffsetsInOrder ==
  ASSUME NEW rs \in Seq(Region), NEW m \in 1 .. Len(rs), NEW n \in 1 .. Len(rs),
         m < n
  PROVE  Offset(rs, m) + RegionSize(rs[m]) <= Offset(rs, n)
<1> DEFINE L == Len(rs)
           T == {d \in Nat : m + 1 + d <= L =>
                   Offset(rs, m + 1) <= Offset(rs, m + 1 + d)}
<1>1. L \in Nat
  OBVIOUS
<1>2. 0 \in T
  <2>1. m + 1 + 0 = m + 1 /\ m + 1 \in 1 .. L + 1
    BY <1>1
  <2>2. Offset(rs, m + 1) \in Nat
    BY <2>1, OffsetStep
  <2> QED BY <2>1, <2>2
<1>3. ASSUME NEW d \in Nat, d \in T PROVE d + 1 \in T
  <2>1. SUFFICES ASSUME m + 1 + (d + 1) <= L
                 PROVE  Offset(rs, m + 1) <= Offset(rs, m + 1 + (d + 1))
    OBVIOUS
  <2> DEFINE p == m + 1 + d
  <2>2. p \in 1 .. L /\ p <= L /\ m + 1 + (d + 1) = p + 1
        /\ m + 1 \in 1 .. L + 1 /\ p \in 1 .. L + 1
    BY <1>1, <2>1
  <2>3. Offset(rs, m + 1) <= Offset(rs, p)
    BY <1>3, <2>2
  <2>4. rs[p] \in Region
    BY <2>2
  <2>5. RegionSize(rs[p]) \in Nat
    <3> HIDE DEF p
    <3> QED BY <2>4, RegionSizeNat
  <2>6. Offset(rs, p + 1) = Offset(rs, p) + RegionSize(rs[p])
        /\ Offset(rs, p) \in Nat /\ Offset(rs, m + 1) \in Nat
    <3> HIDE DEF p
    <3> QED BY <2>2, OffsetStep
  <2> HIDE DEF p
  <2> QED BY <2>2, <2>3, <2>5, <2>6
<1>4. n - (m + 1) \in Nat /\ m + 1 + (n - (m + 1)) = n /\ n <= L
  BY <1>1
<1>5. n - (m + 1) \in T
  <2> HIDE DEF T
  <2> QED BY <1>2, <1>3, <1>4, SetInduction
<1>6. Offset(rs, m + 1) <= Offset(rs, n)
  BY <1>4, <1>5
<1> QED BY <1>6, OffsetStep

\* Regions laid out one after the other, as the driver and the chip do.
Layout(rs) == [n \in DOMAIN rs |-> [blocks |-> rs[n].blocks, size |-> rs[n].size,
                                    offset |-> Offset(rs, n)]]

\* The driver's search ends at the last block of the last region, and every
\* other block of the layout ends where this one begins or before.
LEMMA LastBlockIsLast ==
  ASSUME NEW rs \in Seq(Region), rs # <<>>
  PROVE  LET last == [start |-> LastSectorOffset(Layout(rs)),
                      size |-> rs[Len(rs)].size]
         IN  /\ last \in BlocksOf(Layout(rs)) /\ last.start \in Nat
             /\ \A b \in BlocksOf(Layout(rs)) :
                  /\ b.start \in Nat /\ b.size \in Nat
                  /\ b.size >= ImageLen
                  /\ b = last \/ b.start + b.size <= last.start
<1> DEFINE L == Len(rs)
           R == Layout(rs)
           top == Offset(rs, L) + (rs[L].blocks - 1) * rs[L].size
<1>1. L \in Nat \ {0} /\ DOMAIN rs = 1 .. L /\ DOMAIN R = 1 .. L
  BY DEF Layout
<1>2. \A n \in 1 .. L :
        /\ R[n].offset = Offset(rs, n) /\ R[n].blocks = rs[n].blocks
        /\ R[n].size = rs[n].size /\ R[n].offset \in Nat
        /\ rs[n] \in Region
  BY <1>1, OffsetStep DEF Layout
<1>3. \A r \in Region : /\ r.blocks \in Nat \ {0} /\ r.size \in Nat
                        /\ r.size >= ImageLen /\ r.size > 0
  <2>1. \A n \in Nat \ {0} : n % 256 = 0 => n >= 32
    OBVIOUS
  <2>2. ASSUME NEW r \in Region
        PROVE  /\ r.blocks \in Nat \ {0} /\ r.size \in Nat \ {0}
               /\ r.size % 256 = 0
    BY DEF Region
  <2>3. ASSUME NEW r \in Region PROVE r.size >= 32 /\ r.size > 0
    BY <2>1, <2>2
  <2> QED BY <2>2, <2>3 DEF ImageLen
<1>4. \A n \in 1 .. L - 1 : Offset(rs, n) < Offset(rs, L)
  <2>1. ASSUME NEW n \in 1 .. L - 1
        PROVE  Offset(rs, n) < Offset(rs, L)
    <3>1. n \in 1 .. L /\ L \in 1 .. L /\ n < L /\ rs[n] \in Region
      BY <1>1, <1>2
    <3>2. Offset(rs, n) + RegionSize(rs[n]) <= Offset(rs, L)
      BY <3>1, OffsetsInOrder
    <3>3. RegionSize(rs[n]) \in Nat /\ RegionSize(rs[n]) > 0
      <4>1. rs[n].size \in Nat /\ rs[n].size > 0
        BY <1>3, <3>1
      <4>2. RegionSize(rs[n]) \in Nat /\ RegionSize(rs[n]) >= rs[n].size
        BY <3>1, RegionSizeNat
      <4> QED BY <4>1, <4>2
    <3>4. Offset(rs, n) \in Nat /\ Offset(rs, L) \in Nat
      BY <1>2, <3>1
    <3> QED BY <3>2, <3>3, <3>4
  <2> QED BY <2>1
<1>5. LastSectorOffset(R) = top
  <2> DEFINE Highest(n) == n \in DOMAIN R
                           /\ \A m \in DOMAIN R : R[m].offset <= R[n].offset
  <2>1. Highest(L)
    BY <1>1, <1>2, <1>4
  <2>2. ASSUME NEW n, Highest(n) PROVE n = L
    <3>1. n \in 1 .. L /\ Offset(rs, L) <= Offset(rs, n)
          /\ Offset(rs, L) \in Nat /\ Offset(rs, n) \in Nat
      BY <1>1, <1>2, <2>2
    <3>2. n \in 1 .. L - 1 => Offset(rs, n) < Offset(rs, L)
      BY <1>4
    <3> HIDE DEF L
    <3> QED BY <1>1, <3>1, <3>2
  <2>3. (CHOOSE n \in DOMAIN R : \A m \in DOMAIN R : R[m].offset <= R[n].offset) = L
    BY <2>1, <2>2
  <2>4. R # <<>>
    BY <1>1
  <2>5. R[L].offset + (R[L].blocks - 1) * R[L].size = top
    BY <1>1, <1>2
  <2> HIDE DEF R
  <2> QED BY <2>3, <2>4, <2>5 DEF LastSectorOffset
<1> DEFINE last == [start |-> top, size |-> rs[L].size]
\* A block of a region, by its number.
<1>6. \A b : b \in BlocksOf(R) <=>
        \E n \in 1 .. L : \E j \in 0 .. rs[n].blocks - 1 :
          b = [start |-> Offset(rs, n) + j * rs[n].size, size |-> rs[n].size]
  <2>1. ToSet(R) = {R[n] : n \in 1 .. L}
    BY <1>1 DEF ToSet
  <2> DEFINE Block(n, j) == [start |-> R[n].offset + j * R[n].size,
                             size |-> R[n].size]
  <2> HIDE DEF R, L
  <2>2. BlocksOf(R) =
          UNION {{Block(n, j) : j \in 0 .. R[n].blocks - 1} : n \in 1 .. L}
    BY <2>1 DEF BlocksOf
  <2>3. \A b : b \in BlocksOf(R) <=>
          \E n \in 1 .. L : \E j \in 0 .. R[n].blocks - 1 : b = Block(n, j)
    BY <2>2
  <2> QED BY <1>2, <2>3
<1>7. top \in Nat
  <2>1. rs[L].blocks - 1 \in Nat /\ rs[L].size \in Nat /\ Offset(rs, L) \in Nat
    BY <1>1, <1>2, <1>3
  <2> QED BY <2>1
<1>8. last \in BlocksOf(R)
  <2>1. L \in 1 .. L /\ rs[L].blocks - 1 \in 0 .. rs[L].blocks - 1
    BY <1>1, <1>2, <1>3
  <2> HIDE DEF R, L
  <2> QED BY <1>6, <2>1
<1>9. ASSUME NEW b \in BlocksOf(R)
      PROVE  /\ b.start \in Nat /\ b.size \in Nat /\ b.size >= ImageLen
             /\ b = last \/ b.start + b.size <= top
  <2>0. PICK n \in 1 .. L : \E j \in 0 .. rs[n].blocks - 1 :
          b = [start |-> Offset(rs, n) + j * rs[n].size, size |-> rs[n].size]
    <3> HIDE DEF R, L
    <3> QED BY <1>6
  <2>1. PICK j \in 0 .. rs[n].blocks - 1 :
          b = [start |-> Offset(rs, n) + j * rs[n].size, size |-> rs[n].size]
    BY <2>0
  <2> DEFINE s == rs[n].size
             B == rs[n].blocks
             o == Offset(rs, n)
  <2>2. s \in Nat /\ s >= ImageLen /\ B \in Nat \ {0} /\ o \in Nat /\ j \in 0 .. B - 1
        /\ b.start = o + j * s /\ b.size = s
    BY <1>2, <1>3, <2>1
  <2>3. RegionSize(rs[n]) = B * s
    BY DEF RegionSize
  <2> HIDE DEF s, B, o
  <2>4. b.start \in Nat /\ b.start + b.size = o + (j + 1) * s
    BY <2>2
  <2>5. \A c \in Nat, d \in Nat : c <= d => c * s <= d * s
    BY <2>2
  <2>6. ASSUME n = L, j = B - 1 PROVE b = last
    BY <2>1, <2>6 DEF B
  <2>7. ASSUME n = L, j # B - 1 PROVE b.start + b.size <= top
    <3>1. j + 1 \in Nat /\ B - 1 \in Nat /\ j + 1 <= B - 1
      BY <2>2, <2>7
    <3>2. (j + 1) * s <= (B - 1) * s
      BY <2>5, <3>1
    <3>3. top = o + (B - 1) * s
      BY <2>7 DEF o, B, s
    <3>4. (j + 1) * s \in Int /\ (B - 1) * s \in Int
      BY <2>2
    <3> HIDE DEF top
    <3> QED BY <2>2, <2>4, <3>2, <3>3, <3>4
  <2>8. ASSUME n # L PROVE b.start + b.size <= top
    <3>1. n < L /\ L \in 1 .. L
      <4> HIDE DEF L
      <4> QED BY <1>1, <2>8
    <3>2. o + B * s <= Offset(rs, L)
      <4>1. Offset(rs, n) + RegionSize(rs[n]) <= Offset(rs, L)
        BY <3>1, OffsetsInOrder
      <4> QED BY <2>3, <4>1 DEF o
    <3>3. (j + 1) * s <= B * s
      <4>1. j + 1 \in Nat /\ B \in Nat /\ j + 1 <= B
        BY <2>2
      <4> QED BY <2>5, <4>1
    <3>4. Offset(rs, L) <= top /\ Offset(rs, L) \in Nat
      <4>1. rs[L].blocks - 1 \in Nat /\ rs[L].size \in Nat /\ Offset(rs, L) \in Nat
        BY <1>1, <1>2, <1>3
      <4>2. (rs[L].blocks - 1) * rs[L].size \in Nat
        BY <4>1
      <4> QED BY <4>1, <4>2
    <3>5. (j + 1) * s \in Int /\ B * s \in Int
      BY <2>2
    <3> HIDE DEF top
    <3> QED BY <1>7, <2>2, <2>4, <3>2, <3>3, <3>4, <3>5
  <2>9. b = last \/ b.start + b.size <= top
    <3> HIDE DEF L, R, top, last
    <3> QED BY <2>6, <2>7, <2>8
  <2>10. b.start \in Nat /\ b.size \in Nat /\ b.size >= ImageLen
    BY <2>2, <2>4 DEF ImageLen
  <2> QED BY <2>9, <2>10
<1> QED BY <1>5, <1>7, <1>8, <1>9

\* The sector the driver finds is the chip's last one, an image written at its
\* start stays inside it, and the write erases no other.
THEOREM ImageInLastSector ==
  ASSUME NEW c \in Chips, LastSectorOffset(Regions(c)) # -1
  PROVE  LET T == LastSectorOffset(Regions(c))
         IN  /\ T \in Nat /\ T \in Starts(c) /\ LastSector(c).start = T
             /\ \A a \in T .. T + ImageLen - 1 : SectorAt(c, a).start = T
             /\ {SectorAt(c, b.start).start :
                   b \in BlocksWritten(Regions(c), T, ImageLen)} = {T}
<1> DEFINE rs == Ordered(c)
           S == BlocksOf(Layout(rs))
           T == LastSectorOffset(Layout(rs))
           last == [start |-> T, size |-> rs[Len(rs)].size]
<1>1. c.regs \in Seq(Region) /\ c.size \in Nat \ {0}
      /\ (c.alg = "amd" => (c.smallAtTop <=> c.boot = TopBoot))
  BY ChipAssumption
<1>2. ~TableError(c) /\ Regions(c) = Layout(rs)
  <2>1. TableError(c) => Regions(c) = <<>>
    BY DEF Regions
  <2>2. LastSectorOffset(<<>>) = -1
    BY DEF LastSectorOffset
  <2> QED BY <2>1, <2>2 DEF Regions, Layout
<1>3. rs \in Seq(Region) /\ Len(rs) = Len(c.regs)
  <2>1. Reverse(c.regs) \in Seq(Region) /\ Len(Reverse(c.regs)) = Len(c.regs)
    BY <1>1 DEF Reverse
  <2> QED BY <1>1, <2>1 DEF Ordered
<1>4. rs # <<>>
  <2>1. Offset(c.regs, 1) = 0
    BY <1>1, OffsetStep
  <2>2. Len(c.regs) # 0
    BY <1>1, <1>2, <2>1 DEF TableError
  <2> QED BY <1>3, <2>2
<1>5. PhysicalRegions(c) = rs
  BY <1>1 DEF PhysicalRegions, Ordered
<1>6. Sectors(c) = S
  BY <1>5 DEF Sectors, Layout
<1>7. /\ last \in S /\ T \in Nat
      /\ \A b \in S : /\ b.start \in Nat /\ b.size \in Nat /\ b.size >= ImageLen
                      /\ b = last \/ b.start + b.size <= T
  <2> HIDE DEF rs
  <2> QED BY <1>3, <1>4, LastBlockIsLast
<1> HIDE DEF rs, S
<1>8. last.start = T /\ last.size \in Nat /\ last.size >= ImageLen
  BY <1>7
<1> HIDE DEF T, last
\* Only the last sector has a byte from T on.
<1>9. ASSUME NEW b \in S, NEW a \in Nat, T <= a, a < b.start + b.size
      PROVE  b = last
  BY <1>7, <1>9
<1>10. LastSector(c).start = T
  <2>1. \A t \in S : t.start <= last.start
    BY <1>7, <1>8
  <2>2. LastSector(c) \in S /\ \A t \in S : t.start <= LastSector(c).start
    BY <1>6, <1>7, <2>1 DEF LastSector
  <2>3. LastSector(c).start \in Nat /\ T <= LastSector(c).start
        /\ LastSector(c).start <= T
    BY <1>7, <1>8, <2>1, <2>2
  <2> QED BY <1>7, <2>3
<1>11. ASSUME NEW a \in Nat, T <= a, a < T + ImageLen
       PROVE  SectorAt(c, a) = last
  <2>1. last.start <= a /\ a < last.start + last.size
    BY <1>7, <1>8, <1>11 DEF ImageLen
  <2>2. SectorAt(c, a) \in S
        /\ a < SectorAt(c, a).start + SectorAt(c, a).size
    BY <1>6, <1>7, <2>1 DEF SectorAt
  <2> QED BY <1>9, <1>11, <2>2
<1>12. ASSUME NEW a \in T .. T + ImageLen - 1 PROVE SectorAt(c, a).start = T
  <2>1. a \in Nat /\ T <= a /\ a < T + ImageLen
    BY <1>7 DEF ImageLen
  <2> QED BY <1>8, <1>11, <2>1
<1>13. BlocksWritten(Regions(c), T, ImageLen) = {last}
  <2>1. BlocksWritten(Regions(c), T, ImageLen) =
          {b \in S : T < b.start + b.size /\ b.start < T + ImageLen}
    BY <1>2 DEF BlocksWritten, S
  <2>2. T < last.start + last.size /\ last.start < T + ImageLen
    BY <1>7, <1>8 DEF ImageLen
  <2>3. ASSUME NEW b \in S, T < b.start + b.size PROVE b = last
    <3>1. T <= T
      BY <1>7
    <3> QED BY <1>7, <1>9, <2>3, <3>1
  <2> QED BY <1>7, <2>1, <2>2, <2>3
<1>14. {SectorAt(c, b.start).start : b \in {last}} = {T}
  <2>1. T \in T .. T + ImageLen - 1
    BY <1>7 DEF ImageLen
  <2> QED BY <1>8, <1>12, <2>1
<1>15. T \in Starts(c)
  BY <1>6, <1>7, <1>8 DEF Starts
<1>16. LastSectorOffset(Regions(c)) = T
  BY <1>2 DEF T
<1> QED BY <1>7, <1>10, <1>12, <1>13, <1>14, <1>15, <1>16

-----------------------------------------------------------------------------
(* The serial number                                                       *)

\* The value of digits is a number, and get_serial_number accepts nothing but
\* digits.
LEMMA ConvertNumber ==
  ASSUME NEW keys \in Seq(Key)
  PROVE  /\ Convert(keys) \in Nat
         /\ Convert(keys) # 0 => AllDigits(keys) /\ Convert(keys) = Decimal(keys)
<1>1. SUFFICES ASSUME AllDigits(keys) PROVE Decimal(keys) \in Nat
  BY DEF Convert
<1> DEFINE L == Len(keys)
           Values(f) == f = [n \in 0 .. L |->
                               IF n = 0 THEN 0 ELSE 10 * f[n - 1] + keys[n]]
           G == [m \in 1 .. L |-> [v \in Nat |-> 10 * v + keys[m]]]
<1>2. \A m \in 1 .. L : keys[m] \in Nat
  BY <1>1 DEF AllDigits, ToSet
<1>3. L \in Nat /\ G \in [1 .. L -> [Nat -> Nat]]
  BY <1>2
<1>4. PICK f \in [0 .. L -> Nat] :
        f[0] = 0 /\ \A m \in 1 .. L : f[m] = G[m][f[m - 1]]
  <2> DEFINE S == Nat
             a == 0
  <2>1. L \in Nat /\ a \in S /\ G \in [1 .. L -> [S -> S]]
    BY <1>3
  <2> HIDE DEF G, L, S, a
  <2>2. \E f \in [0 .. L -> S] :
           f[0] = a /\ \A m \in 1 .. L : f[m] = G[m][f[m - 1]]
    BY <2>1, RecursionUpTo
  <2> QED BY <2>2 DEF S, a
<1>5. Values(f)
  <2>1. ASSUME NEW m \in 1 .. L PROVE f[m] = 10 * f[m - 1] + keys[m]
    <3>1. m - 1 \in 0 .. L /\ f[m - 1] \in Nat
      <4> HIDE DEF L, G
      <4> QED BY <1>3
    <3>2. G[m][f[m - 1]] = 10 * f[m - 1] + keys[m]
      BY <3>1
    <3> QED BY <1>4, <3>2
  <2> QED BY <1>3, <1>4, <2>1
<1> DEFINE value == CHOOSE g : Values(g)
<1>6. Values(value)
  <2> HIDE DEF Values
  <2> QED BY <1>5
<1>7. Decimal(keys) = value[L]
  BY DEF Decimal
<1> HIDE DEF value
<1>8. value[0] = 0 /\ \A m \in 1 .. L : value[m] = 10 * value[m - 1] + keys[m]
  BY <1>3, <1>6
<1>9. \A m \in 0 .. L : value[m] \in Nat
  <2>1. value[0] \in Nat
    BY <1>8
  <2>2. \A m \in 1 .. L : value[m - 1] \in Nat => value[m] \in Nat
    BY <1>2, <1>8
  <2> HIDE DEF L
  <2> QED BY <1>3, <2>1, <2>2, TypedUpTo
<1> QED BY <1>3, <1>7, <1>9

\* The index of get_serial_number counts the keys typed that are no
\* backspaces, and the array holds them up to there.
LineInv == Len(typed) = i /\ \A j \in 1 .. i : typed[j] = line[j - 1]

\* One key: where the index goes, what the line is then, and, when the line is
\* full, that it is what was typed.
LEMMA KeyStep ==
  ASSUME TypeOK, LineInv, NEW key \in Key
  PROVE  LET cells == [line EXCEPT ![i] = key]
             keys == [j \in 1 .. SerialLen |-> cells[j - 1]]
         IN  /\ cells \in [0 .. SerialLen - 1 -> Key] /\ keys \in Seq(Key)
             /\ Len(keys) = SerialLen /\ cells[i] = key
             /\ Step(key) = IF key = Backspace THEN i ELSE i + 1
             /\ Step(key) = SerialLen =>
                  key # Backspace /\ i = SerialLen - 1 /\ keys = Append(typed, key)
<1> DEFINE cells == [line EXCEPT ![i] = key]
           keys == [j \in 1 .. SerialLen |-> cells[j - 1]]
<1>1. SerialLen \in Nat \ {0} /\ i \in 0 .. SerialLen - 1
      /\ line \in [0 .. SerialLen - 1 -> Key] /\ typed \in Seq(Key \ {Backspace})
  BY IdentityAssumption DEF TypeOK
<1>2. cells \in [0 .. SerialLen - 1 -> Key] /\ cells[i] = key
      /\ \A j \in 0 .. SerialLen - 1 : j # i => cells[j] = line[j]
  BY <1>1
<1>3. keys \in Seq(Key) /\ Len(keys) = SerialLen
  <2>1. \A j \in 1 .. SerialLen : cells[j - 1] \in Key
    BY <1>1, <1>2
  <2> HIDE DEF cells
  <2> QED BY <1>1, <2>1
<1>4. Step(key) = IF key = Backspace THEN i ELSE i + 1
  BY <1>1 DEF Step
<1>5. ASSUME Step(key) = SerialLen
      PROVE  key # Backspace /\ i = SerialLen - 1 /\ keys = Append(typed, key)
  <2>1. key # Backspace /\ i = SerialLen - 1 /\ i + 1 = SerialLen
    BY <1>1, <1>4, <1>5
  <2>2. typed \in Seq(Key) /\ Len(typed) = i
    BY <1>1 DEF LineInv
  <2>3. Append(typed, key) \in Seq(Key) /\ Len(Append(typed, key)) = SerialLen
        /\ Append(typed, key)[SerialLen] = key
        /\ \A j \in 1 .. i : Append(typed, key)[j] = typed[j]
    BY <2>1, <2>2
  <2>4. ASSUME NEW j \in 1 .. SerialLen PROVE keys[j] = Append(typed, key)[j]
    <3>1. CASE j = SerialLen
      BY <1>2, <2>1, <2>3, <3>1
    <3>2. CASE j # SerialLen
      <4>1. j \in 1 .. i /\ j - 1 \in 0 .. SerialLen - 1 /\ j - 1 # i
        BY <1>1, <2>1, <3>2
      <4>2. keys[j] = line[j - 1]
        BY <1>2, <4>1
      <4>3. Append(typed, key)[j] = line[j - 1]
        BY <2>3, <4>1 DEF LineInv
      <4> QED BY <4>2, <4>3
    <3> QED BY <3>1, <3>2
  <2> HIDE DEF keys
  <2> QED BY <1>3, <2>1, <2>3, <2>4
<1> QED BY <1>2, <1>3, <1>4, <1>5

LEMMA LineStep == TypeOK /\ LineInv /\ [Next]_vars => LineInv'
<1> SUFFICES ASSUME TypeOK, LineInv, [Next]_vars PROVE LineInv'
  OBVIOUS
<1>1. ASSUME NEW key \in Key, PressKey(key) PROVE LineInv'
  <2> DEFINE cells == [line EXCEPT ![i] = key]
  <2>1. SerialLen \in Nat \ {0} /\ i \in 0 .. SerialLen - 1
        /\ line \in [0 .. SerialLen - 1 -> Key] /\ typed \in Seq(Key)
    BY IdentityAssumption DEF TypeOK
  <2>2. cells[i] = key /\ \A j \in 0 .. SerialLen - 1 : j # i => cells[j] = line[j]
    BY <2>1
  <2>5. Step(key) = IF key = Backspace THEN i ELSE i + 1
    BY <2>1 DEF Step
  <2>3. CASE i' = 0 /\ typed' = <<>>
    BY <2>3 DEF LineInv
  <2>4. CASE line' = cells /\ i' = Step(key)
             /\ typed' = IF key = Backspace THEN typed ELSE Append(typed, key)
    <3>1. CASE key = Backspace
      <4>1. i' = i /\ typed' = typed
        BY <2>4, <2>5, <3>1
      <4>2. ASSUME NEW j \in 1 .. i PROVE line'[j - 1] = line[j - 1]
        <5>1. j - 1 \in 0 .. SerialLen - 1 /\ j - 1 # i
          BY <2>1
        <5> QED BY <2>2, <2>4, <5>1
      <4> QED BY <4>1, <4>2 DEF LineInv
    <3>2. CASE key # Backspace
      <4>1. i' = i + 1 /\ typed' = Append(typed, key) /\ Len(typed) = i
        BY <2>4, <2>5, <3>2 DEF LineInv
      <4>2. Len(typed') = i + 1 /\ typed'[i + 1] = key
            /\ \A j \in 1 .. i : typed'[j] = typed[j]
        BY <2>1, <4>1
      <4>3. ASSUME NEW j \in 1 .. i + 1 PROVE typed'[j] = line'[j - 1]
        <5>1. CASE j = i + 1
          BY <2>1, <2>2, <2>4, <4>2, <5>1
        <5>2. CASE j # i + 1
          <6>1. j \in 1 .. i /\ j - 1 \in 0 .. SerialLen - 1 /\ j - 1 # i
            BY <2>1, <5>2
          <6> QED BY <2>2, <2>4, <4>2, <6>1 DEF LineInv
        <5> QED BY <5>1, <5>2
      <4> QED BY <4>1, <4>2, <4>3 DEF LineInv
    <3> QED BY <3>1, <3>2
  <2> QED BY <1>1, <2>3, <2>4 DEF PressKey
<1>2. CASE PowerLoss
  BY <1>2 DEF PowerLoss, ResetRam, LineInv
<1>3. CASE Program \/ UNCHANGED vars
  <2>1. UNCHANGED <<line, i, typed>>
    BY <1>3 DEF Program, PowerOn, Find, Check, Erase, ProgramWord, ReadMac, vars, ram
  <2> QED BY <2>1 DEF LineInv
<1> QED BY <1>1, <1>2, <1>3 DEF Next

-----------------------------------------------------------------------------
(* The identity                                                            *)

\* The sector found is the one used until the next boot, and only a board
\* with a flash stores what it asks for.
TargetInv ==
  /\ pc \in {"check", "erase", "program", "read"} => offset = Target /\ Target # -1
  /\ pc = "keys" /\ store => offset = Target /\ Target # -1
  /\ pc \in {"off", "find", "check"} => serial = 0

\* Once an address has been read from a signed sector the sector still has
\* it, the board never gets as far as asking for another, and nothing it
\* does in a boot fails.
IdentityInv ==
  identity # NoMac =>
    /\ Target # -1
    /\ Signed(flash[Target])
    /\ MacOf(flash[Target]) = identity
    /\ pc \in {"off", "find", "check", "read", "up"}
    /\ pc = "read" => serial = 0
    /\ pc = "up" => mac = identity

IInv == TargetInv /\ IdentityInv

LEMMA InitIInv == Init => IInv
BY DEF Init, IInv, TargetInv, IdentityInv

\* What a step does when the board already has an identity: the three
\* actions that write the flash or ask for a number are not enabled.
LEMMA NextIInv == IInv /\ [Next]_vars => IInv'
<1> SUFFICES ASSUME IInv, [Next]_vars PROVE IInv'
  OBVIOUS
<1> USE DEF IInv, TargetInv, IdentityInv
<1>t. chip' = chip => Target' = Target
  BY DEF Target
<1>1. CASE PowerOn
  BY <1>1, <1>t DEF PowerOn, ram
<1>2. CASE Find
  BY <1>2, <1>t DEF Find
<1>3. CASE Check
  <2>1. flash' = flash /\ chip' = chip /\ identity' = identity /\ serial' = serial
        /\ offset' = offset /\ store' = store /\ mac' = mac
    BY <1>3 DEF Check, ram
  <2>2. CASE Signed(flash[offset])
    BY <1>3, <1>t, <2>1, <2>2 DEF Check
  <2>3. CASE ~Signed(flash[offset])
    <3>1. identity = NoMac
      BY <1>3, <2>3 DEF Check
    <3>2. pc = "check" /\ pc' = "keys"
      BY <1>3, <2>3 DEF Check
    <3> QED BY <1>t, <2>1, <3>1, <3>2
  <2> QED BY <2>2, <2>3
<1>4. CASE Erase
  <2>1. identity = NoMac /\ identity' = NoMac
    BY <1>4 DEF Erase
  <2>2. pc' \in {"program", "read"} /\ offset' = offset /\ chip' = chip
    BY <1>4 DEF Erase
  <2> QED BY <1>4, <1>t, <2>1, <2>2 DEF Erase
<1>5. CASE ProgramWord
  <2>1. identity = NoMac /\ identity' = NoMac
    BY <1>5 DEF ProgramWord
  <2>2. pc' \in {"program", "read"} /\ offset' = offset /\ chip' = chip
    BY <1>5 DEF ProgramWord
  <2> QED BY <1>5, <1>t, <2>1, <2>2 DEF ProgramWord
<1>6. CASE ReadMac
  <2>1. /\ flash' = flash /\ chip' = chip /\ offset' = offset /\ store' = store
        /\ serial' = serial /\ pc' = "up" /\ pc = "read" /\ hurt' = hurt
    BY <1>6 DEF ReadMac
  <2>2. offset = Target /\ Target # -1 /\ Target' = Target
    BY <1>t, <2>1
  <2>3. TargetInv'
    BY <2>1, <2>2
  <2>4. CASE mac' = MacOf(flash[Target])
    <3>1. CASE Signed(flash[Target]) /\ mac' # NoMac
      <4>1. identity' = mac'
        BY <1>6, <2>2, <3>1 DEF ReadMac
      <4> QED BY <2>1, <2>2, <2>3, <2>4, <3>1, <4>1
    <3>2. CASE ~(Signed(flash[Target]) /\ mac' # NoMac)
      <4>1. identity' = identity
        BY <1>6, <2>2, <3>2 DEF ReadMac
      <4> QED BY <2>1, <2>2, <2>3, <2>4, <3>2, <4>1
    <3> QED BY <3>1, <3>2
  <2>5. CASE ChipStuck /\ mac' = NoMac
    <3>1. identity = NoMac
      BY <2>1, <2>5 DEF ChipStuck
    <3>2. identity' = NoMac
      BY <1>6, <2>2, <2>5, <3>1 DEF ReadMac
    <3> QED BY <2>1, <2>2, <2>3, <3>2
  <2> QED BY <1>6, <2>2, <2>4, <2>5 DEF ReadMac
<1>7. ASSUME NEW key \in Key, PressKey(key) PROVE IInv'
  <2>1. /\ pc = "keys" /\ chip' = chip /\ flash' = flash /\ offset' = offset
        /\ store' = store /\ identity' = identity
    BY <1>7 DEF PressKey
  <2>2. identity = NoMac
    BY <2>1
  <2>3. pc' = "keys" \/ (store /\ pc' = "erase") \/ (~store /\ pc' = "up")
    BY <1>7, <2>1 DEF PressKey
  <2> QED BY <1>t, <2>1, <2>2, <2>3
<1>8. CASE PowerLoss
  <2>1. pc' = "off" /\ serial' = 0 /\ identity' = identity /\ chip' = chip
    BY <1>8 DEF PowerLoss, ResetRam
  <2>2. CASE identity = NoMac
    BY <1>t, <2>1, <2>2
  <2>3. CASE identity # NoMac
    <3>1. flash' = flash
      BY <1>8, <2>3 DEF PowerLoss
    <3> QED BY <1>t, <2>1, <2>3, <3>1
  <2> QED BY <2>2, <2>3
<1>9. CASE UNCHANGED vars
  BY <1>9, <1>t DEF vars, ram
<1> QED
  BY <1>1, <1>2, <1>3, <1>4, <1>5, <1>6, <1>7, <1>8, <1>9 DEF Next, Program

LEMMA Invariance == Spec => []IInv
<1>1. Init => IInv  BY InitIInv
<1>2. IInv /\ [Next]_vars => IInv'  BY NextIInv
<1> QED BY <1>1, <1>2, PTL DEF Spec

\* The body of StableIdentity.
IdentityStays ==
  identity # NoMac => /\ identity' = identity
                      /\ pc' = "up" => mac' = identity

LEMMA StepKeepsIdentity == IInv /\ IInv' /\ [Next]_vars => [IdentityStays]_vars
<1> SUFFICES ASSUME IInv, IInv', Next, identity # NoMac
             PROVE  identity' = identity
  BY DEF IInv, IdentityInv, IdentityStays
<1>1. pc \in {"off", "find", "check", "read", "up"}
  BY DEF IInv, IdentityInv
<1>2. CASE ReadMac
  <2>1. pc = "read" /\ serial = 0 /\ offset = Target
        /\ Signed(flash[Target]) /\ MacOf(flash[Target]) = identity
    BY <1>2 DEF ReadMac, IInv, IdentityInv, TargetInv
  <2>2. mac' = identity
    BY <1>2, <2>1 DEF ReadMac, ChipStuck
  <2> QED BY <1>2, <2>1, <2>2 DEF ReadMac
<1>3. CASE PowerOn \/ Find \/ Check \/ PowerLoss
  BY <1>3 DEF PowerOn, Find, Check, PowerLoss
<1>4. ~Erase /\ ~ProgramWord /\ ~(\E key \in Key : PressKey(key))
  BY <1>1 DEF Erase, ProgramWord, PressKey
<1> QED BY <1>2, <1>3, <1>4 DEF Next, Program

\* Whatever the chip and however often the power fails in whatever step, the
\* address the board has once read from a signed sector is the one it has
\* after every later boot (get_board_mac_addr).
THEOREM IdentityIsStable == Spec => StableIdentity
<1>1. IInv /\ IInv' /\ [Next]_vars => [IdentityStays]_vars
  BY StepKeepsIdentity
<1>2. Spec => [][IdentityStays]_vars
  BY <1>1, Invariance, PTL DEF Spec
<1> QED BY <1>2 DEF StableIdentity, IdentityStays

-----------------------------------------------------------------------------
(* The flash                                                               *)

\* What the steps of a boot rely on beside TargetInv: whether a number is to
\* be stored is decided by there being a flash, and it is never zero.
BootInv ==
  /\ pc \in {"check", "keys"} => (store <=> Target # -1)
  /\ store => offset = Target
  /\ pc \in {"erase", "program"} => serial # 0

\* Of an image that is being written the words so far are there.  Outside
\* that, and unless a write was cut short, a signature is followed by a whole
\* image, and an image just written is that of the number entered.
WholeInv ==
  /\ pc = "program" =>
       /\ ~hurt /\ k < ImageLen /\ k % Width = 0
       /\ \A j \in 0 .. k - 1 : flash[Target][j] = Image(MacFrom(serial))[j]
  /\ pc # "program" /\ ~hurt /\ Target # -1 /\ Signed(flash[Target])
       => flash[Target] = Image(MacOf(flash[Target]))
  /\ pc = "read" /\ ~hurt =>
       /\ Signed(flash[Target])
       /\ serial # 0 => flash[Target] = Image(MacFrom(serial))

BoardInv ==
  /\ TypeOK
  /\ OnlyLastSectorWritten
  /\ LineInv
  /\ BootInv
  /\ WholeInv
  /\ UpMeansWhole

\* The bytes of an address, an image and the contents the model names.
LEMMA Contents ==
  /\ \A n \in Nat : MacFrom(n) \in [MacBytes -> Cell]
  /\ \A m \in [MacBytes -> Cell] : Image(m) \in [Bytes -> Cell]
  /\ \A content \in [Bytes -> Cell] : MacOf(content) \in [MacBytes -> Cell]
  /\ Erased \in [Bytes -> Cell] /\ Foreign \in [Bytes -> Cell]
  /\ NoMac \in [MacBytes -> Cell]
<1>1. ASSUME NEW n \in Nat PROVE MacFrom(n) \in [MacBytes -> Cell]
  <2> DEFINE hi == (n \div 256) % 256
             lo == n % 256
             byte(j) == CASE j = 4 -> 0
                          [] j = 5 -> 7
                          [] j = 6 -> 237
                          [] j = 7 -> 255
                          [] j = 8 -> hi
                          [] j = 9 -> lo
  <2>1. hi \in 0 .. 255 /\ lo \in 0 .. 255
    OBVIOUS
  <2>2. MacFrom(n) = [j \in MacBytes |-> byte(j)]
    BY DEF MacFrom
  <2> HIDE DEF hi, lo
  <2>3. ASSUME NEW j \in MacBytes PROVE byte(j) \in 0 .. 255
    <3>1. j \in {4, 5, 6, 7, 8, 9}
      BY DEF MacBytes
    <3> QED BY <2>1, <3>1
  <2> HIDE DEF byte
  <2>4. \A j \in MacBytes : byte(j) \in Cell
    BY <2>3 DEF Cell
  <2> QED BY <2>2, <2>4
<1>2. ASSUME NEW m \in [MacBytes -> Cell] PROVE Image(m) \in [Bytes -> Cell]
  <2>1. ASSUME NEW j \in Bytes PROVE Image(m)[j] \in Cell
    <3>1. CASE j < 4
      <4>1. j \in 0 .. 3 /\ j \notin MacBytes
        BY <3>1 DEF Bytes, MacBytes, ImageLen
      <4>2. Image(m)[j] = Signature[j]
        BY <3>1, <4>1 DEF Image
      <4>3. Signature[j] \in {254, 90, 0}
        BY <4>1 DEF Signature
      <4> QED BY <4>2, <4>3 DEF Cell
    <3>2. CASE j \in MacBytes
      <4>1. ~(j < 4)
        BY <3>2 DEF MacBytes
      <4> QED BY <3>2, <4>1 DEF Image
    <3>3. CASE ~(j < 4) /\ j \notin MacBytes
      BY <3>3 DEF Image, Settings, Cell
    <3> QED BY <3>1, <3>2, <3>3
  <2>2. Image(m) = [j \in Bytes |-> Image(m)[j]]
    BY DEF Image
  <2> QED BY <2>1, <2>2
<1>3. ASSUME NEW content \in [Bytes -> Cell]
      PROVE  MacOf(content) \in [MacBytes -> Cell]
  BY DEF MacOf, MacBytes, Bytes, ImageLen
<1>4. Erased \in [Bytes -> Cell] /\ Foreign \in [Bytes -> Cell]
      /\ NoMac \in [MacBytes -> Cell]
  BY DEF Erased, Foreign, NoMac, Cell, Blank, Junk
<1> QED BY <1>1, <1>2, <1>3, <1>4

\* An image is signed and holds the address it was made of; it is the only
\* image that holds it.
LEMMA ImageHolds ==
  ASSUME NEW m \in [MacBytes -> Cell]
  PROVE  Signed(Image(m)) /\ MacOf(Image(m)) = m
<1>1. Signed(Image(m))
  <2>1. ASSUME NEW j \in 0 .. 3 PROVE Image(m)[j] = Signature[j]
    <3>1. j \in Bytes /\ j < 4 /\ j \notin MacBytes
      BY DEF Bytes, MacBytes, ImageLen
    <3> QED BY <3>1 DEF Image
  <2> QED BY <2>1 DEF Signed
<1>2. ASSUME NEW j \in MacBytes PROVE Image(m)[j] = m[j]
  BY DEF Image, MacBytes, Bytes, ImageLen
<1> QED BY <1>1, <1>2 DEF MacOf

\* An erasure of the image's place erases the last sector.
LEMMA ErasesLast ==
  ASSUME TypeOK, offset = Target, Target # -1
  PROVE  SectorsToErase = {Target} /\ Target \in DOMAIN flash
         /\ Target = LastSector(chip).start
BY ImageInLastSector DEF SectorsToErase, Target, TypeOK

\* A word programmed at k changes these bytes of the last sector only.
LEMMA ProgramsWord ==
  ASSUME TypeOK, offset = Target, Target # -1, k < ImageLen, NEW w
  PROVE  Programmed(w) =
           [flash EXCEPT ![Target] =
              [j \in Bytes |-> IF j \in k .. k + Width - 1 THEN w[j - k]
                                                           ELSE flash[Target][j]]]
<1>1. k \in 0 .. ImageLen - 1 /\ Target \in Nat
  BY ImageInLastSector DEF TypeOK, Target, ImageLen
<1>2. offset + k \in Target .. Target + ImageLen - 1
  BY <1>1 DEF ImageLen
<1>3. SectorAt(chip, offset + k).start = Target
  BY <1>2, ImageInLastSector DEF Target, TypeOK
<1>4. offset + k - Target = k
  BY <1>1
<1> QED BY <1>3, <1>4 DEF Programmed

\* The words are whole: the last one ends with the image.
LEMMA WordsFit ==
  ASSUME TypeOK, k < ImageLen, k % Width = 0
  PROVE  /\ k + Width <= ImageLen /\ (k + Width) % Width = 0
         /\ k + Width \in 0 .. ImageLen
         /\ NextWord \in [0 .. Width - 1 -> Cell]
         /\ HalfWords \subseteq [0 .. Width - 1 -> Cell]
<1>1. k \in 0 .. 31 /\ Width \in {1, 2, 4}
  BY IdentityAssumption DEF TypeOK, ImageLen
<1>2. k + Width <= 32 /\ (k + Width) % Width = 0 /\ k + Width \in 0 .. 32
  <2>1. CASE Width = 1
    BY <1>1, <2>1
  <2>2. CASE Width = 2
    BY <1>1, <2>2 DEF ImageLen
  <2>3. CASE Width = 4
    BY <1>1, <2>3 DEF ImageLen
  <2> QED BY <1>1, <2>1, <2>2, <2>3
<1>3. NextWord \in [0 .. Width - 1 -> Cell]
  <2>1. Image(MacFrom(serial)) \in [Bytes -> Cell]
    BY Contents DEF TypeOK
  <2>2. \A j \in 0 .. Width - 1 : k + j \in Bytes
    BY <1>1, <1>2 DEF Bytes, ImageLen
  <2> QED BY <2>1, <2>2 DEF NextWord
<1>4. HalfWords \subseteq [0 .. Width - 1 -> Cell]
  <2>1. {Blank, Junk} \subseteq Cell
    BY DEF Cell, Blank, Junk
  <2>2. [0 .. Width - 1 -> {Blank, Junk}] \subseteq [0 .. Width - 1 -> Cell]
    BY <2>1
  <2> QED BY <1>3, <2>2 DEF HalfWords
<1> QED BY <1>2, <1>3, <1>4 DEF ImageLen

\* Whatever a step does to the flash it does to the last sector.
LEMMA FlashStep ==
  ASSUME IInv, TypeOK, WholeInv, [Next]_vars
  PROVE  \/ flash' = flash
         \/ /\ Target # -1
            /\ \E content \in [Bytes -> Cell] :
                 flash' = [flash EXCEPT ![Target] = content]
<1>1. ASSUME pc = "erase",
             \E s \in SectorsToErase : \E left \in HalfErased(flash[s]) :
               flash' = [flash EXCEPT ![s] = left]
      PROVE  /\ Target # -1
             /\ \E content \in [Bytes -> Cell] :
                  flash' = [flash EXCEPT ![Target] = content]
  <2>1. offset = Target /\ Target # -1
    BY <1>1 DEF IInv, TargetInv
  <2>2. PICK left \in HalfErased(flash[Target]) :
               flash' = [flash EXCEPT ![Target] = left]
    BY <1>1, <2>1, ErasesLast
  <2>3. flash[Target] \in [Bytes -> Cell] /\ [j \in Bytes |-> Junk] \in [Bytes -> Cell]
    <3>1. flash \in [Starts(chip) -> [Bytes -> Cell]] /\ Target \in Starts(chip)
      BY <2>1, ErasesLast DEF TypeOK
    <3>2. 256 \in Cell
      BY DEF Cell
    <3> QED BY <3>1, <3>2 DEF Junk
  <2>4. left \in [Bytes -> Cell]
    BY <2>2, <2>3, Contents DEF HalfErased
  <2> QED BY <2>1, <2>2, <2>4
<1>2. ASSUME pc = "program", NEW w \in HalfWords, flash' = Programmed(w)
      PROVE  /\ Target # -1
             /\ \E content \in [Bytes -> Cell] :
                  flash' = [flash EXCEPT ![Target] = content]
  <2>1. offset = Target /\ Target # -1 /\ k < ImageLen /\ k % Width = 0
    BY <1>2 DEF IInv, TargetInv, WholeInv
  <2>2. w \in [0 .. Width - 1 -> Cell]
    BY <2>1, WordsFit
  <2>3. flash[Target] \in [Bytes -> Cell]
    BY <2>1, ErasesLast DEF TypeOK
  <2> DEFINE content == [j \in Bytes |-> IF j \in k .. k + Width - 1 THEN w[j - k]
                                                       ELSE flash[Target][j]]
  <2>4. content \in [Bytes -> Cell]
    <3>1. ASSUME NEW j \in Bytes, j \in k .. k + Width - 1 PROVE w[j - k] \in Cell
      <4>1. j - k \in 0 .. Width - 1
        BY <3>1, IdentityAssumption DEF TypeOK, Bytes, ImageLen
      <4> QED BY <2>2, <4>1
    <3> QED BY <2>3, <3>1
  <2>5. flash' = [flash EXCEPT ![Target] = content]
    BY <1>2, <2>1, ProgramsWord
  <2> QED BY <2>1, <2>4, <2>5
<1>3. CASE Erase
  <2>1. CASE flash' = [a \in DOMAIN flash |->
                         IF a \in SectorsToErase THEN Erased ELSE flash[a]]
    <3>1. offset = Target /\ Target # -1
      BY <1>3 DEF Erase, IInv, TargetInv
    <3>2. flash' = [flash EXCEPT ![Target] = Erased]
      BY <2>1, <3>1, ErasesLast
    <3> QED BY <3>1, <3>2, Contents
  <2> QED BY <1>1, <1>3, <2>1 DEF Erase
<1>4. CASE ProgramWord
  <2>1. NextWord \in HalfWords
    BY DEF HalfWords
  <2> QED BY <1>2, <1>4, <2>1 DEF ProgramWord
<1>5. CASE PowerLoss
  BY <1>1, <1>2, <1>5 DEF PowerLoss
<1>6. CASE PowerOn \/ Find \/ Check \/ ReadMac \/ (\E key \in Key : PressKey(key))
           \/ UNCHANGED vars
  BY <1>6 DEF PowerOn, Find, Check, ReadMac, PressKey, vars
<1> QED BY <1>3, <1>4, <1>5, <1>6 DEF Next, Program

\* The flash keeps its type, and every other sector what was in it.
LEMMA OthersKept ==
  ASSUME IInv, TypeOK, WholeInv, OnlyLastSectorWritten, [Next]_vars
  PROVE  /\ chip' = chip /\ Target' = Target
         /\ flash' \in [Starts(chip) -> [Bytes -> Cell]]
         /\ OnlyLastSectorWritten'
<1>1. chip' = chip
  BY DEF Next, Program, PowerOn, Find, Check, PressKey, Erase, ProgramWord,
         ReadMac, PowerLoss, vars
<1>2. flash \in [Starts(chip) -> [Bytes -> Cell]]
  BY DEF TypeOK
<1>3. CASE flash' = flash
  BY <1>1, <1>2, <1>3 DEF OnlyLastSectorWritten, Target
<1>4. ASSUME Target # -1, NEW content \in [Bytes -> Cell],
             flash' = [flash EXCEPT ![Target] = content]
      PROVE  /\ flash' \in [Starts(chip) -> [Bytes -> Cell]]
             /\ OnlyLastSectorWritten'
  <2>1. LastSector(chip).start = Target
    BY <1>4, ImageInLastSector DEF TypeOK, Target
  <2>2. \A a \in Starts(chip) \ {Target} : flash'[a] = flash[a]
    BY <1>2, <1>4
  <2>3. flash' \in [Starts(chip) -> [Bytes -> Cell]]
    BY <1>2, <1>4
  <2> QED BY <1>1, <2>1, <2>2, <2>3 DEF OnlyLastSectorWritten
<1> QED BY <1>1, <1>3, <1>4, FlashStep DEF Target

-----------------------------------------------------------------------------
(* The steps keep BoardInv                                                 *)

LEMMA InitBoardInv == Init => BoardInv
<1> SUFFICES ASSUME Init PROVE BoardInv
  OBVIOUS
<1>1. Image(Factory) \in [Bytes -> Cell] /\ Factory \in [MacBytes -> Cell]
  <2>1. Factory \in [MacBytes -> Cell]
    BY IdentityAssumption DEF Cell
  <2> QED BY <2>1, Contents
<1>2. PICK last \in {Erased, Foreign, Image(Factory)} :
        flash = [a \in Starts(chip) |->
                   IF a = LastSector(chip).start THEN last ELSE Foreign]
  BY DEF Init
<1>3. last \in [Bytes -> Cell]
  BY <1>1, Contents
<1>4. flash \in [Starts(chip) -> [Bytes -> Cell]]
  BY <1>2, <1>3, Contents
<1>5. TypeOK
  <2>1. SerialLen \in Nat \ {0} /\ MaxBackspaces \in Nat
    BY IdentityAssumption
  <2>2. line \in [0 .. SerialLen - 1 -> Key] /\ i \in 0 .. SerialLen - 1
    BY <2>1 DEF Init, Key
  <2>3. /\ {typed, kept} \subseteq Seq(Key \ {Backspace})
        /\ backspaces \in 0 .. MaxBackspaces
    BY <2>1 DEF Init
  <2>4. chip \in Chips /\ pc = "off" /\ offset = 0 /\ serial = 0 /\ k = 0
        /\ store = FALSE /\ hurt = FALSE /\ mac = NoMac /\ identity = NoMac
    BY DEF Init
  <2>5. {store, hurt} \subseteq BOOLEAN
    BY <2>4
  <2>6. {mac, identity} \subseteq [MacBytes -> Cell]
    BY <2>4, Contents
  <2>7. serial \in Nat /\ k \in 0 .. ImageLen /\ offset \in {0, Target}
    BY <2>4 DEF ImageLen
  <2> QED BY <1>4, <2>2, <2>3, <2>4, <2>5, <2>6, <2>7 DEF TypeOK
<1>6. OnlyLastSectorWritten
  BY <1>2 DEF OnlyLastSectorWritten
<1>7. LineInv
  BY DEF Init, LineInv
<1>8. WholeInv
  <2>1. SUFFICES ASSUME Target # -1, Signed(flash[Target])
                 PROVE  flash[Target] = Image(MacOf(flash[Target]))
    BY DEF Init, WholeInv
  <2>2. flash[Target] = last
    BY <1>2, <2>1, ImageInLastSector DEF Init, Target
  <2>3. ~Signed(Erased) /\ ~Signed(Foreign)
    <3>1. 0 \in 0 .. 3 /\ 0 \in Bytes
      BY DEF Bytes, ImageLen
    <3>2. Signature[0] = 254 /\ Erased[0] = 255 /\ Foreign[0] = 0
      BY <3>1 DEF Signature, Erased, Foreign, Blank
    <3>3. Erased[0] # Signature[0] /\ Foreign[0] # Signature[0]
      BY <3>2
    <3> QED BY <3>1, <3>3 DEF Signed
  <2>4. last = Image(Factory)
    BY <2>1, <2>2, <2>3
  <2> QED BY <1>1, <2>2, <2>4, ImageHolds
<1> QED BY <1>5, <1>6, <1>7, <1>8 DEF Init, BoardInv, BootInv, UpMeansWhole

LEMMA TypeStep ==
  ASSUME IInv, BoardInv, [Next]_vars
  PROVE  TypeOK'
<1>1. /\ chip' = chip /\ Target' = Target /\ chip \in Chips
      /\ flash' \in [Starts(chip) -> [Bytes -> Cell]]
  BY OthersKept DEF BoardInv, TypeOK
<1>t. TypeOK
  BY DEF BoardInv
<1> USE DEF TypeOK
<1>2. CASE PowerOn \/ Check \/ UNCHANGED vars
  BY <1>t, <1>1, <1>2 DEF PowerOn, Check, vars, ram
<1>3. CASE Find
  BY <1>t, <1>1, <1>3 DEF Find
<1>4. ASSUME NEW key \in Key, PressKey(key) PROVE TypeOK'
  <2> DEFINE cells == [line EXCEPT ![i] = key]
             keys == [j \in 1 .. SerialLen |-> cells[j - 1]]
  <2>0. SerialLen \in Nat \ {0} /\ MaxBackspaces \in Nat
    BY IdentityAssumption
  <2>1. cells \in [0 .. SerialLen - 1 -> Key] /\ keys \in Seq(Key)
        /\ Step(key) = IF key = Backspace THEN i ELSE i + 1
    BY <1>t, KeyStep DEF BoardInv
  <2>2. Convert(keys) \in Nat
    BY <2>1, ConvertNumber
  <2>3. line' = cells /\ pc' \in {"keys", "erase", "up"}
        /\ serial' \in {serial, Convert(keys)}
        /\ UNCHANGED <<offset, store, k, hurt, identity>>
    BY <1>4 DEF PressKey
  <2>4. i' \in 0 .. SerialLen - 1 /\ i' \in {0, Step(key)}
    BY <1>t, <1>4, <2>0, <2>1 DEF PressKey
  <2>5. mac' \in {mac, MacFrom(Convert(keys))}
    BY <1>4 DEF PressKey
  <2>6. backspaces' \in 0 .. MaxBackspaces
    BY <1>t, <1>4, <2>0 DEF PressKey
  <2>7. {typed', kept'} \subseteq Seq(Key \ {Backspace})
    <3> DEFINE Keys == Seq(Key \ {Backspace})
    <3>1. \/ typed' = <<>>
          \/ typed' = typed
          \/ key # Backspace /\ typed' = Append(typed, key)
      BY <1>4 DEF PressKey
    <3>2. kept' = <<>> \/ kept' = KeptAfter(key)
      BY <1>4 DEF PressKey
    <3>3. <<>> \in Keys /\ typed \in Keys /\ kept \in Keys
      <4>1. <<>> \in Keys
        OBVIOUS
      <4>2. {typed, kept} \subseteq Keys
        BY <1>t, Zenon
      <4> QED BY <4>1, <4>2, Zenon
    <3>4. ASSUME key # Backspace
          PROVE  Append(typed, key) \in Keys /\ Append(kept, key) \in Keys
      <4>1. key \in Key \ {Backspace}
        BY <1>4, <3>4
      <4> QED BY <3>3, <4>1
    <3>5. SubSeq(kept, 1, Len(kept) - 1) \in Keys
      <4>1. \A S : \A s \in Seq(S) : SubSeq(s, 1, Len(s) - 1) \in Seq(S)
        OBVIOUS
      <4> QED BY <3>3, <4>1, Zenon
    <3>6. KeptAfter(key) \in Keys
      BY <3>4, <3>5 DEF KeptAfter
    <3> HIDE DEF TypeOK, Keys
    <3>7. typed' \in Keys /\ kept' \in Keys
      BY <3>1, <3>2, <3>3, <3>4, <3>6
    <3> QED BY <3>7 DEF Keys
  <2>8. mac' \in [MacBytes -> Cell]
    BY <1>t, <2>2, <2>5, Contents
  <2> HIDE DEF cells, keys
  <2>9. serial' \in Nat /\ offset' \in {0, Target'} /\ k' \in 0 .. ImageLen
        /\ line' \in [0 .. SerialLen - 1 -> Key]
    BY <1>t, <1>1, <2>1, <2>2, <2>3
  <2>10. {store', hurt'} \subseteq BOOLEAN /\ identity' \in [MacBytes -> Cell]
    BY <1>t, <2>3
  <2>11. i' \in 0 .. SerialLen - 1
    BY <2>4
  <2>12. {mac', identity'} \subseteq [MacBytes -> Cell]
    BY <2>8, <2>10
  <2>13. pc' \in {"off", "find", "check", "keys", "erase", "program", "read", "up"}
    BY <2>3
  <2>14. chip' \in Chips /\ flash' \in [Starts(chip') -> [Bytes -> Cell]]
    BY <1>1
  <2> HIDE DEF TypeOK
  <2> QED BY <2>6, <2>7, <2>9, <2>10, <2>11, <2>12, <2>13, <2>14 DEF TypeOK
<1>5. CASE Erase
  <2>1. /\ k' = 0 /\ pc' \in {"program", "read"} /\ hurt' \in BOOLEAN
        /\ UNCHANGED <<offset, line, i, store, serial, mac, typed, kept, backspaces,
                       identity>>
    BY <1>5 DEF Erase
  <2> QED BY <1>t, <1>1, <2>1 DEF ImageLen
<1>6. CASE ProgramWord
  <2>1. k + Width \in 0 .. ImageLen
    BY <1>t, <1>6, WordsFit DEF ProgramWord, BoardInv, WholeInv
  <2> QED BY <1>t, <1>1, <1>6, <2>1 DEF ProgramWord
<1>7. CASE ReadMac
  <2>1. flash[offset] \in [Bytes -> Cell]
    BY <1>t, <1>7, ErasesLast DEF ReadMac, IInv, TargetInv
  <2>2. mac' \in [MacBytes -> Cell]
    BY <1>7, <2>1, Contents DEF ReadMac
  <2> QED BY <1>t, <1>1, <1>7, <2>2 DEF ReadMac
<1>8. CASE PowerLoss
  <2>1. SerialLen \in Nat \ {0} /\ MaxBackspaces \in Nat
    BY IdentityAssumption
  <2>2. line' \in [0 .. SerialLen - 1 -> Key] /\ i' \in 0 .. SerialLen - 1
    BY <1>8, <2>1 DEF PowerLoss, ResetRam, Key
  <2>3. /\ {typed', kept'} \subseteq Seq(Key \ {Backspace})
        /\ backspaces' \in 0 .. MaxBackspaces
    BY <1>8, <2>1 DEF PowerLoss, ResetRam
  <2>4. hurt' \in BOOLEAN
    BY <1>t, <1>8 DEF PowerLoss
  <2>5. pc' = "off" /\ offset' = 0 /\ store' = FALSE /\ serial' = 0 /\ k' = 0
        /\ mac' = NoMac /\ identity' = identity
    BY <1>8 DEF PowerLoss, ResetRam
  <2>6. {store', hurt'} \subseteq BOOLEAN /\ {mac', identity'} \subseteq [MacBytes -> Cell]
    BY <1>t, <2>4, <2>5, Contents
  <2>7. k' \in 0 .. ImageLen /\ serial' \in Nat /\ offset' \in {0, Target'}
    BY <2>5 DEF ImageLen
  <2> HIDE DEF TypeOK
  <2> QED BY <1>1, <2>2, <2>3, <2>5, <2>6, <2>7 DEF TypeOK
<1> QED BY <1>2, <1>3, <1>4, <1>5, <1>6, <1>7, <1>8 DEF Next, Program

LEMMA BootStep ==
  ASSUME IInv, BoardInv, [Next]_vars
  PROVE  BootInv'
<1>1. chip' = chip /\ Target' = Target
  BY OthersKept DEF BoardInv
<1> USE DEF BootInv, BoardInv
<1>2. CASE PowerOn \/ Check \/ ReadMac \/ UNCHANGED vars
  BY <1>1, <1>2 DEF PowerOn, Check, ReadMac, vars, ram
<1>3. CASE Find
  BY <1>1, <1>3 DEF Find
<1>4. ASSUME NEW key \in Key, PressKey(key) PROVE BootInv'
  BY <1>1, <1>4 DEF PressKey
<1>5. CASE Erase \/ ProgramWord
  BY <1>1, <1>5 DEF Erase, ProgramWord
<1>6. CASE PowerLoss
  BY <1>1, <1>6 DEF PowerLoss, ResetRam
<1> QED BY <1>2, <1>3, <1>4, <1>5, <1>6 DEF Next, Program

\* A word programmed extends the image by itself.
LEMMA WordStep ==
  ASSUME IInv, BoardInv, ProgramWord, ~hurt'
  PROVE  /\ UNCHANGED <<hurt, serial>> /\ k' = k + Width /\ Target # -1
         /\ \A j \in 0 .. k' - 1 : flash'[Target][j] = Image(MacFrom(serial))[j]
         /\ flash'[Target] \in [Bytes -> Cell]
<1>t. /\ TypeOK /\ pc = "program" /\ offset = Target /\ Target # -1
      /\ ~hurt /\ k < ImageLen /\ k % Width = 0
      /\ \A j \in 0 .. k - 1 : flash[Target][j] = Image(MacFrom(serial))[j]
  BY DEF ProgramWord, IInv, TargetInv, BoardInv, WholeInv
<1>1. flash' = Programmed(NextWord) /\ k' = k + Width /\ UNCHANGED <<hurt, serial>>
  BY DEF ProgramWord
<1> DEFINE content == [j \in Bytes |-> IF j \in k .. k + Width - 1
                                         THEN NextWord[j - k]
                                         ELSE flash[Target][j]]
<1>2. flash' = [flash EXCEPT ![Target] = content]
  BY <1>t, <1>1, ProgramsWord
<1>3. Target \in DOMAIN flash /\ flash[Target] \in [Bytes -> Cell]
  BY <1>t, ErasesLast DEF TypeOK
<1>4. flash'[Target] = content
  BY <1>2, <1>3
<1>5. k \in Nat /\ Width \in Nat \ {0} /\ k + Width <= ImageLen
  BY <1>t, WordsFit, IdentityAssumption DEF TypeOK
<1>6. ASSUME NEW j \in 0 .. k + Width - 1
      PROVE  content[j] = Image(MacFrom(serial))[j]
  <2>1. j \in Bytes
    BY <1>5 DEF Bytes, ImageLen
  <2>2. CASE j < k
    <3>1. j \in 0 .. k - 1 /\ j \notin k .. k + Width - 1
      BY <1>5, <2>2
    <3> QED BY <1>t, <2>1, <3>1
  <2>3. CASE ~(j < k)
    <3>1. j \in k .. k + Width - 1 /\ j - k \in 0 .. Width - 1 /\ k + (j - k) = j
      BY <1>5, <2>3
    <3>2. content[j] = NextWord[j - k]
      BY <2>1, <3>1
    <3>3. NextWord[j - k] = Image(MacFrom(serial))[k + (j - k)]
      BY <3>1 DEF NextWord
    <3> QED BY <3>1, <3>2, <3>3
  <2> QED BY <2>2, <2>3
<1>7. content \in [Bytes -> Cell]
  <2>1. NextWord \in [0 .. Width - 1 -> Cell]
    BY <1>t, WordsFit
  <2>2. ASSUME NEW j \in Bytes, j \in k .. k + Width - 1
        PROVE  NextWord[j - k] \in Cell
    <3>1. j - k \in 0 .. Width - 1
      BY <1>5, <2>2 DEF Bytes, ImageLen
    <3> QED BY <2>1, <3>1
  <2> QED BY <1>3, <2>2
<1> HIDE DEF content
<1>8. \A j \in 0 .. k' - 1 : flash'[Target][j] = Image(MacFrom(serial))[j]
  <2>0. k' = k + Width
    BY <1>1
  <2>1. \A j \in 0 .. k' - 1 : j \in 0 .. k + Width - 1
    BY <1>5, <2>0
  <2>2. \A j \in 0 .. k + Width - 1 : content[j] = Image(MacFrom(serial))[j]
    BY <1>6
  <2> QED BY <1>4, <2>1, <2>2
<1>9. flash'[Target] \in [Bytes -> Cell]
  BY <1>4, <1>7
<1> QED BY <1>t, <1>1, <1>8, <1>9

LEMMA WholeStep ==
  ASSUME IInv, BoardInv, [Next]_vars
  PROVE  WholeInv'
<1>1. chip' = chip /\ Target' = Target /\ TypeOK
  BY OthersKept DEF BoardInv
<1>w. WholeInv
  BY DEF BoardInv
<1>2. CASE PowerOn \/ Find \/ UNCHANGED vars
  BY <1>1, <1>w, <1>2 DEF PowerOn, Find, vars, ram, WholeInv
<1>3. CASE Check
  BY <1>1, <1>w, <1>3 DEF Check, ram, WholeInv, IInv, TargetInv
<1>4. ASSUME NEW key \in Key, PressKey(key) PROVE WholeInv'
  <2>1. pc = "keys" /\ UNCHANGED <<flash, hurt>> /\ pc' \in {"keys", "erase", "up"}
    BY <1>4 DEF PressKey
  <2> QED BY <1>1, <1>w, <2>1 DEF WholeInv
<1>5. CASE Erase
  <2>1. CASE pc' = "read" /\ hurt'
    BY <2>1 DEF WholeInv
  <2>2. CASE pc' = "program" /\ ~hurt'
    <3>1. k' = 0 /\ Width \in {1, 2, 4}
      BY <1>5, IdentityAssumption DEF Erase
    <3> QED BY <2>2, <3>1 DEF WholeInv, ImageLen
  <2> QED BY <1>5, <2>1, <2>2 DEF Erase
<1>6. CASE ProgramWord
  <2>1. CASE hurt'
    BY <1>6, <1>w, <2>1 DEF ProgramWord, WholeInv
  <2>2. CASE ~hurt'
    <3>1. /\ UNCHANGED <<hurt, serial>> /\ k' = k + Width /\ Target # -1
          /\ \A j \in 0 .. k' - 1 : flash'[Target][j] = Image(MacFrom(serial))[j]
          /\ flash'[Target] \in [Bytes -> Cell]
      <4>1. ProgramWord /\ ~hurt' /\ IInv /\ BoardInv
        BY <1>6, <2>2
      <4> QED BY <4>1, WordStep, Zenon
    <3>2. pc = "program" /\ k < ImageLen /\ k % Width = 0
      BY <1>6, <1>w DEF ProgramWord, WholeInv
    <3>3. k + Width <= ImageLen /\ (k + Width) % Width = 0 /\ k + Width \in 0 .. ImageLen
      BY <1>1, <3>2, WordsFit
    <3>4. CASE pc' = "program"
      <4>1. k' < ImageLen
        BY <1>6, <2>2, <3>1, <3>4, <1>w DEF ProgramWord, WholeInv
      <4> QED BY <1>1, <2>2, <3>1, <3>3, <3>4, <4>1 DEF WholeInv
    <3>5. CASE pc' = "read"
      <4>1. k' = ImageLen
        <5>1. ~(k' < ImageLen)
          BY <1>6, <2>2, <3>5 DEF ProgramWord
        <5> QED BY <3>1, <3>3, <5>1 DEF ImageLen
      <4>2. \A j \in Bytes : flash'[Target][j] = Image(MacFrom(serial))[j]
        BY <3>1, <4>1 DEF Bytes
      <4>3. serial \in Nat /\ MacFrom(serial) \in [MacBytes -> Cell]
        BY <1>1, Contents DEF TypeOK
      <4>4. flash'[Target] = Image(MacFrom(serial))
        BY <3>1, <4>2, <4>3, Contents
      <4>5. Signed(flash'[Target]) /\ MacOf(flash'[Target]) = MacFrom(serial)
        BY <4>3, <4>4, ImageHolds
      <4> QED BY <1>1, <3>1, <3>5, <4>4, <4>5 DEF WholeInv
    <3> QED BY <1>6, <3>4, <3>5 DEF ProgramWord
  <2> QED BY <2>1, <2>2
<1>7. CASE ReadMac
  BY <1>1, <1>w, <1>7 DEF ReadMac, WholeInv
<1>8. CASE PowerLoss
  BY <1>1, <1>w, <1>8 DEF PowerLoss, ResetRam, WholeInv
<1> QED BY <1>2, <1>3, <1>4, <1>5, <1>6, <1>7, <1>8 DEF Next, Program

LEMMA UpStep ==
  ASSUME IInv, BoardInv, [Next]_vars
  PROVE  UpMeansWhole'
<1>1. chip' = chip /\ Target' = Target /\ TypeOK
  BY OthersKept DEF BoardInv
<1> SUFFICES ASSUME pc' = "up", ~hurt'
             PROVE  /\ serial' # 0 => mac' = MacFrom(serial')
                    /\ Target # -1 => flash'[Target] = Image(mac')
  BY <1>1 DEF UpMeansWhole
<1>2. CASE ReadMac
  <2>1. /\ pc = "read" /\ UNCHANGED <<flash, hurt, serial>> /\ offset = Target
        /\ Target # -1 /\ mac' = MacOf(flash[Target])
    BY <1>2 DEF ReadMac, ChipStuck, IInv, TargetInv
  <2>2. Signed(flash[Target])
        /\ (serial # 0 => flash[Target] = Image(MacFrom(serial)))
        /\ flash[Target] = Image(MacOf(flash[Target]))
    BY <2>1 DEF BoardInv, WholeInv
  <2>3. serial # 0 => MacOf(flash[Target]) = MacFrom(serial)
    BY <1>1, <2>2, Contents, ImageHolds DEF TypeOK
  <2> QED BY <2>1, <2>2, <2>3
<1>3. ASSUME NEW key \in Key, PressKey(key)
      PROVE  /\ serial' # 0 => mac' = MacFrom(serial')
             /\ Target # -1 => flash'[Target] = Image(mac')
  <2>1. pc = "keys" /\ ~store /\ mac' = MacFrom(serial')
    BY <1>3 DEF PressKey
  <2>2. Target = -1
    BY <2>1 DEF BoardInv, BootInv
  <2> QED BY <2>1, <2>2
<1>4. CASE UNCHANGED vars
  BY <1>4 DEF vars, ram, BoardInv, UpMeansWhole
<1> QED BY <1>2, <1>3, <1>4
        DEF Next, Program, PowerOn, Find, Check, Erase, ProgramWord, PowerLoss

LEMMA BoardInvariant == Spec => []BoardInv
<1>1. IInv /\ BoardInv /\ [Next]_vars => BoardInv'
  BY OthersKept, LineStep, TypeStep, BootStep, WholeStep, UpStep DEF BoardInv
<1> QED BY <1>1, InitBoardInv, Invariance, PTL DEF Spec

\* TypeOK, proved.
THEOREM IdentityTypes == Spec => []TypeOK
<1>1. BoardInv => TypeOK  BY DEF BoardInv
<1> QED BY <1>1, BoardInvariant, PTL

\* OnlyLastSectorWritten, proved: for every chip whose table the driver
\* accepts, the search, the reversal of the table and the write agree on the
\* last sector, and no cut or failure reaches another.
THEOREM OtherSectorsKept == Spec => []OnlyLastSectorWritten
<1>1. BoardInv => OnlyLastSectorWritten  BY DEF BoardInv
<1> QED BY <1>1, BoardInvariant, PTL

\* UpMeansWhole, proved: a board that is up, and whose last write was not cut
\* short, has the address of the number entered and a whole image of it.
THEOREM UpIsWhole == Spec => []UpMeansWhole
<1>1. BoardInv => UpMeansWhole  BY DEF BoardInv
<1> QED BY <1>1, BoardInvariant, PTL

\* What get_serial_number's two loops accept: the value of all the keys that
\* are no backspaces, in the order pressed, every one a digit.  A comment in the
\* code has it otherwise: a backspace would take back the key before it
\* (BackspaceTakesBack, which does not hold).
SerialIgnoresBackspaces ==
  [][pc = "keys" /\ pc' \in {"erase", "up"} =>
       LET keys == Append(typed, line'[SerialLen - 1])
       IN  /\ Len(keys) = SerialLen /\ AllDigits(keys)
           /\ serial' = Decimal(keys) /\ serial' # 0]_vars

\* The body of SerialIgnoresBackspaces.
AcceptsWhatWasTyped ==
  pc = "keys" /\ pc' \in {"erase", "up"} =>
    LET keys == Append(typed, line'[SerialLen - 1])
    IN  /\ Len(keys) = SerialLen /\ AllDigits(keys)
        /\ serial' = Decimal(keys) /\ serial' # 0

LEMMA AcceptStep == BoardInv /\ [Next]_vars => [AcceptsWhatWasTyped]_vars
<1> SUFFICES ASSUME BoardInv, Next, pc = "keys", pc' \in {"erase", "up"}
             PROVE  LET keys == Append(typed, line'[SerialLen - 1])
                    IN  /\ Len(keys) = SerialLen /\ AllDigits(keys)
                        /\ serial' = Decimal(keys) /\ serial' # 0
  BY DEF AcceptsWhatWasTyped
<1>1. PICK key \in Key : PressKey(key)
  BY DEF Next, Program, PowerOn, Find, Check, Erase, ProgramWord, ReadMac, PowerLoss
<1> DEFINE cells == [line EXCEPT ![i] = key]
           keys == [j \in 1 .. SerialLen |-> cells[j - 1]]
<1>2. /\ Step(key) = SerialLen /\ Convert(keys) # 0
      /\ line' = cells /\ serial' = Convert(keys)
  BY <1>1 DEF PressKey
<1>3. /\ keys \in Seq(Key) /\ Len(keys) = SerialLen /\ cells[i] = key
      /\ i = SerialLen - 1 /\ keys = Append(typed, key)
  BY <1>2, KeyStep DEF BoardInv
<1>4. AllDigits(keys) /\ Convert(keys) = Decimal(keys)
  BY <1>2, <1>3, ConvertNumber
<1>5. line'[SerialLen - 1] = key
  BY <1>2, <1>3
<1> HIDE DEF keys, cells
<1> QED BY <1>2, <1>3, <1>4, <1>5

\* SerialIgnoresBackspaces, proved: however long the number and wherever the
\* backspaces, the keys before them stay in the number.
THEOREM SerialIsWhatWasTyped == Spec => SerialIgnoresBackspaces
<1>1. Spec => [][AcceptsWhatWasTyped]_vars
  BY AcceptStep, BoardInvariant, PTL DEF Spec
<1> QED BY <1>1 DEF SerialIgnoresBackspaces, AcceptsWhatWasTyped

\* A sector that has a signature is never written again, in this boot or in a
\* later one, once the write that put it there is over: an address that was
\* cut short is never repaired (get_board_mac_addr, which looks at nothing but
\* the signature).
SignedIsFinal ==
  [][Target # -1 /\ Signed(flash[Target]) /\ pc # "program" => flash' = flash]_vars

\* A number is only asked for, and a sector only erased, when there is no
\* signature.
AskedUnsigned ==
  pc \in {"keys", "erase"} /\ Target # -1 => ~Signed(flash[Target])

LEMMA AskedStep ==
  ASSUME IInv, BoardInv, AskedUnsigned, [Next]_vars
  PROVE  AskedUnsigned'
<1>1. chip' = chip /\ Target' = Target
  BY OthersKept DEF BoardInv
<1>2. CASE Check
  BY <1>1, <1>2 DEF Check, AskedUnsigned, IInv, TargetInv
<1>3. ASSUME NEW key \in Key, PressKey(key) PROVE AskedUnsigned'
  BY <1>1, <1>3 DEF PressKey, AskedUnsigned
<1>4. CASE Find
  BY <1>1, <1>4 DEF Find, AskedUnsigned
<1>5. CASE UNCHANGED vars
  BY <1>1, <1>5 DEF vars, AskedUnsigned
<1>6. CASE PowerOn \/ Erase \/ ProgramWord \/ ReadMac \/ PowerLoss
  BY <1>6 DEF PowerOn, Erase, ProgramWord, ReadMac, PowerLoss, AskedUnsigned
<1> QED BY <1>2, <1>3, <1>4, <1>5, <1>6 DEF Next, Program

\* SignedIsFinal, proved for every chip and any power cuts and failures.
THEOREM SignedStays == Spec => SignedIsFinal
<1>1. Init => AskedUnsigned
  BY DEF Init, AskedUnsigned
<1>2. IInv /\ BoardInv /\ AskedUnsigned /\ [Next]_vars => AskedUnsigned'
  BY AskedStep
<1>3. AskedUnsigned /\ [Next]_vars
        => [Target # -1 /\ Signed(flash[Target]) /\ pc # "program"
              => flash' = flash]_vars
  BY DEF AskedUnsigned, Next, Program, PowerOn, Find, Check, PressKey, Erase,
         ProgramWord, ReadMac, PowerLoss, vars
<1> QED BY <1>1, <1>2, <1>3, Invariance, BoardInvariant, PTL
        DEF Spec, SignedIsFinal
=============================================================================
