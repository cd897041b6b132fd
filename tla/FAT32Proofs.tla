---------------------------- MODULE FAT32Proofs ----------------------------
(* Proofs for module FAT32: what the driver delivers is what the boot sector, *)
(* the table and the directory say, for every disk and every request.         *)
EXTENDS FAT32, WellFoundedInduction, TLAPS

----------------------------------------------------------------------------
(* The invariant                                                              *)

\* The first sector after the two tables, in true arithmetic.
DataStart(boot) == boot.reserved_sectors + 2 * boot.fat_size_sectors

\* What sb_fat32_mount demands of a boot sector it has read.
GoodBoot(boot) == /\ BootOK(boot) /\ FieldsOK(boot) /\ FatSizeOK(boot)
                  /\ first_data(boot) < disk.total_sectors

\* What the driver keeps of a boot sector it has accepted.
FsOf(boot) == [bytes_per_sector |-> boot.bytes_per_sector,
               sectors_per_cluster |-> boot.sectors_per_cluster,
               reserved_sectors |-> boot.reserved_sectors,
               fat_size_sectors |-> boot.fat_size_sectors,
               root_cluster |-> boot.root_cluster,
               first_data_sector |-> DataStart(boot)]

\* The disk has been mounted: also after a later mount that failed, since the
\* disk is still the same.
Known == GoodBoot(disk.boot) /\ fs = FsOf(disk.boot)

\* The running call is in the n-th cluster of the chain from start, or beyond
\* the end of the chain.
OnChain(start, n) == ChainOf(start)[n] \in {0, cluster}

CallsType == [call : {"none"}] \cup [call : {"root"}, index : 0..U32 - 1]
             \cup [call : {"file"}, offset : 0..U32 - 1, length : 0..U32 - 1]

FatType ==
  /\ disk \in Disks
  /\ entry \in Files
  /\ cluster \in Nat /\ offset \in Nat /\ remaining \in Nat
  /\ dst \in Seq(Nat \X Nat)
  /\ req \in CallsType
  /\ pc \in {"idle", "walk", "skip", "copy", "follow"}

\* sb_fat32_read_root_entry in its loop: whole clusters of entries are behind it.
Walking ==
  /\ req.call = "root"
  /\ cluster >= 2
  /\ \E n \in 0..U32 - 1 : /\ req.index = n * entries_per_cluster + remaining
                           /\ OnChain(disk.boot.root_cluster, n)

\* sb_fat32_read_file in its loops: where in the chain the next byte is.
Reading ==
  /\ req.call = "file" /\ ArgumentsOK(req.offset, req.length)
  /\ remaining > 0 /\ Len(dst) + remaining = req.length
  /\ cluster >= 2 /\ (cluster = entry.first_cluster \/ cluster < SB_FAT32_EOC_MIN)
  /\ pc = "copy" => offset < cluster_size
  /\ pc = "follow" => offset = cluster_size
  /\ \E n \in 0..U32 - 1 : /\ req.offset + Len(dst) = n * cluster_size + offset
                           /\ OnChain(entry.first_cluster, n)

FatInv ==
  /\ FatType
  /\ mounted \/ req.call # "none" => Known
  /\ pc = "walk" => Walking
  /\ pc \in {"skip", "copy", "follow"} => Reading
  /\ ReadExact /\ FailsForAReason /\ EntryExact

----------------------------------------------------------------------------
(* Induction, over the set of the numbers with a property                     *)

\* The least element of a set of naturals.
LEMMA LeastNumber ==
  ASSUME NEW T, T \subseteq Nat, T # {}
  PROVE  \E x \in T : \A y \in T : x <= y
<1> DEFINE R == OpToRel(<, Nat)
<1>1. IsWellFoundedOn(R, Nat)
  BY Zenon, NatLessThanWellFounded
<1>2. \A x, y \in Nat : x < y => <<x, y>> \in R
  BY Zenon DEF OpToRel
<1> HIDE DEF R
<1>3. PICK x \in T : \A y \in T : ~ (<<y, x>> \in R)
  BY Zenon, <1>1, WFMin
<1>4. ASSUME NEW y \in T PROVE x <= y
  <2>1. x \in Nat /\ y \in Nat
    OBVIOUS
  <2>2. ~ (y < x)
    BY Zenon, <1>2, <1>3, <2>1
  <2> QED
    BY <2>1, <2>2
<1> QED
  BY Zenon, <1>4

\* A set that has 0 and, with a number, the next one, has all of them.
LEMMA SetInduction ==
  ASSUME NEW T, 0 \in T, \A n \in Nat : n \in T => n + 1 \in T
  PROVE  Nat \subseteq T
<1> SUFFICES ASSUME Nat \ T # {} PROVE FALSE
  OBVIOUS
<1>1. PICK x \in Nat \ T : \A y \in Nat \ T : x <= y
  BY Zenon, LeastNumber
<1>2. x # 0 /\ x - 1 \in Nat
  OBVIOUS
<1>3. x - 1 \in T
  BY <1>1, <1>2
<1> QED
  BY <1>2, <1>3

----------------------------------------------------------------------------
(* Quotients and remainders                                                   *)

\* A quotient and a remainder below the divisor are the only ones.
LEMMA Divides ==
  ASSUME NEW m \in Nat \ {0}, NEW q \in Nat, NEW r \in 0 .. m - 1
  PROVE  (q * m + r) \div m = q /\ (q * m + r) % m = r
<1>0. q * m \in Nat
  OBVIOUS
<1>1. PICK a \in Nat : a = q * m + r
  BY <1>0
<1>2. PICK p \in Int, d \in 0 .. m - 1 : a = m * p + d /\ a % m = d /\ a \div m = p
  <2>1. a \div m \in Int /\ a % m \in 0 .. m - 1 /\ a = m * (a \div m) + (a % m)
    OBVIOUS
  <2> QED
    BY Zenon, <2>1
<1>3. PICK k \in Int : k = p - q
  OBVIOUS
<1>4. m * k = r - d
  BY <1>0, <1>1, <1>2, <1>3
<1>5. k = 0
  <2>1. k >= 1 => m * k >= m
    OBVIOUS
  <2>2. k <= -1 => m * k <= -m
    OBVIOUS
  <2> QED
    BY <1>4, <2>1, <2>2
<1>6. m * k = 0
  BY <1>5
<1> QED
  BY <1>1, <1>2, <1>3, <1>4, <1>5, <1>6

\* What is below a multiple of the divisor has a smaller quotient.
LEMMA SmallQuotient ==
  ASSUME NEW m \in Nat \ {0}, NEW q \in Nat, NEW n \in Nat
  PROVE  /\ n \div m \in Nat /\ n % m \in 0 .. m - 1 /\ n = (n \div m) * m + (n % m)
         /\ n \div m <= n
         /\ n < q * m => n \div m < q
         /\ q * m <= n => q <= n \div m
<1>1. PICK p \in Int, d \in 0 .. m - 1 : n = m * p + d /\ n % m = d /\ n \div m = p
  <2>1. n \div m \in Int /\ n % m \in 0 .. m - 1 /\ n = m * (n \div m) + (n % m)
    OBVIOUS
  <2> QED
    BY Zenon, <2>1
<1>2. p >= 0
  <2>1. p <= -1 => m * p <= -m
    OBVIOUS
  <2> QED
    BY <1>1, <2>1
<1>3. m * p >= p /\ p * m = m * p
  BY <1>2
<1>4. n < q * m => p < q
  <2>1. p >= q => m * p >= q * m
    OBVIOUS
  <2> QED
    BY <1>1, <1>3, <2>1
<1>5. q * m <= n => q <= p
  <2>1. p + 1 <= q => (p + 1) * m <= q * m
    BY <1>2
  <2>2. (p + 1) * m = m * p + m
    OBVIOUS
  <2> QED
    BY <1>1, <1>3, <2>1, <2>2
<1> QED
  BY <1>1, <1>2, <1>3, <1>4, <1>5

\* Byte k of a chain of clusters of s sectors of b bytes is in cluster n, j bytes
\* behind the offset off, and in the same sector.
Place(b, s, m, n, off, j, k) ==
  /\ b \in Nat \ {0} /\ s \in Nat \ {0} /\ m \in Nat \ {0}
  /\ n \in Nat /\ off \in Nat /\ j \in Nat /\ k \in Nat
  /\ m = b * s /\ k = n * m + off + j /\ off < m /\ (off % b) + j < b

\* Bytes of one sector: they are in the same cluster and sector of the chain,
\* and at successive places.
LEMMA BytesOfSector ==
  ASSUME NEW b, NEW s, NEW m, NEW n, NEW off, NEW j, NEW k, Place(b, s, m, n, off, j, k)
  PROVE  /\ off \div b \in 0 .. s - 1
         /\ off + j < m
         /\ k \div m = n
         /\ (k % m) \div b = off \div b
         /\ k % b = (off % b) + j
<1> USE DEF Place
<1>1. PICK q \in Nat, r \in 0 .. b - 1 :
        off = q * b + r /\ off \div b = q /\ off % b = r /\ q < s
  <2>1. off < s * b
    OBVIOUS
  <2> QED
    BY Zenon, <2>1, SmallQuotient
<1>3. PICK t \in 0 .. b - 1 : t = r + j
  BY <1>1
<1>4. off + j = q * b + t /\ off + j \in Nat
  BY <1>1, <1>3
<1>5. off + j < m
  <2>1. (q + 1) * b <= s * b
    BY <1>1
  <2>2. (q + 1) * b = q * b + b /\ s * b = b * s
    OBVIOUS
  <2> QED
    BY <1>1, <1>3, <2>1, <2>2
<1>6. PICK u \in 0 .. m - 1 : u = off + j
  BY <1>4, <1>5
<1>7. (n * m + u) \div m = n /\ (n * m + u) % m = u
  BY SMTT(30), Divides
<1>8. u \div b = q
  <2>1. (q * b + t) \div b = q
    BY Zenon, Divides
  <2> QED
    BY Zenon, <1>4, <1>6, <2>1
<1>9. (n * m + u) % b = t
  <2>1. PICK w \in Nat : w = n * s + q
    <3>1. n * s + q \in Nat
      OBVIOUS
    <3> QED
      BY Zenon, <3>1
  <2>2. w * b = n * m + q * b
    BY <2>1
  <2>3. (w * b + t) % b = t
    BY Zenon, Divides
  <2>4. w * b + t = n * m + u
    BY <1>4, <1>6, <2>2
  <2> QED
    BY Zenon, <2>3, <2>4
<1>10. k = n * m + u
  BY <1>6
<1> QED
  BY <1>1, <1>3, <1>5, <1>6, <1>7, <1>8, <1>9, <1>10

----------------------------------------------------------------------------
(* Chains                                                                     *)

\* One step of the recursion of Chain.
ChainStep(fat, entries, c, nth, n) ==
  IF n = 0 THEN (IF c \in Clusters(entries) THEN c ELSE 0)
  ELSE IF nth[n - 1] # 0 /\ fat[nth[n - 1]] % FAT_MASK \in Clusters(entries)
       THEN fat[nth[n - 1]] % FAT_MASK ELSE 0

IsChain(fat, entries, c, nth) ==
  nth = [n \in 0 .. U32 |-> ChainStep(fat, entries, c, nth, n)]

\* The recursion has a solution, and Chain is one.
LEMMA ChainUnfolds ==
  ASSUME NEW fat, NEW entries, NEW c
  PROVE  \A n \in 0 .. U32 : Chain(fat, entries, c)[n]
                               = ChainStep(fat, entries, c, Chain(fat, entries, c), n)
<1> DEFINE S(g, n) == ChainStep(fat, entries, c, g, n)
           Solves(g, n) == \A m \in 0 .. U32 : m <= n => g[m] = S(g, m)
           T == {n \in Nat : \E g \in [0 .. U32 -> Nat] : Solves(g, n)}
<1>0. U32 \in Nat
  BY Zenon, SizesAssumption
<1>9. \A g, n : S(g, n) \in Nat
  BY DEF ChainStep, Clusters
<1>1. 0 \in T
  <2> DEFINE z == [m \in 0 .. U32 |-> IF c \in Clusters(entries) THEN c ELSE 0]
  <2>1. z \in [0 .. U32 -> Nat]
    BY DEF Clusters
  <2>2. Solves(z, 0)
    BY <1>0 DEF ChainStep
  <2> HIDE DEF z
  <2> QED
    BY Zenon, <2>1, <2>2
<1>2. ASSUME NEW n \in Nat, n \in T PROVE n + 1 \in T
  <2>1. PICK g \in [0 .. U32 -> Nat] : Solves(g, n)
    BY Zenon, <1>2
  <2> DEFINE h == [m \in 0 .. U32 |-> S(g, m)]
  <2>2. h \in [0 .. U32 -> Nat]
    BY Zenon, <1>9
  <2>3. Solves(h, n + 1)
    <3> SUFFICES ASSUME NEW m \in 0 .. U32, m <= n + 1
                 PROVE  S(g, m) = S(h, m)
      BY Zenon
    <3>1. CASE m = 0
      BY Zenon, <3>1 DEF ChainStep
    <3>2. CASE m # 0
      <4>1. m - 1 \in 0 .. U32 /\ m - 1 <= n
        BY <1>0, <3>2
      <4>2. h[m - 1] = g[m - 1]
        BY Zenon, <2>1, <4>1
      <4> HIDE DEF h
      <4> QED
        BY Zenon, <3>2, <4>2 DEF ChainStep
    <3> QED
      BY Zenon, <3>1, <3>2
  <2> HIDE DEF h, Solves
  <2> QED
    BY <2>2, <2>3
<1>3. Nat \subseteq T
  <2> HIDE DEF T
  <2> QED
    BY Zenon, <1>1, <1>2, SetInduction
<1>4. PICK g \in [0 .. U32 -> Nat] : Solves(g, U32)
  BY Zenon, <1>0, <1>3
<1>5. IsChain(fat, entries, c, g)
  BY <1>0, <1>4 DEF IsChain
<1> DEFINE f == CHOOSE h : IsChain(fat, entries, c, h)
<1>6. IsChain(fat, entries, c, f)
  BY Zenon, <1>5
<1>7. Chain(fat, entries, c) = f
  BY Zenon DEF Chain, IsChain, ChainStep
<1> HIDE DEF f
<1> QED
  BY Zenon, <1>6, <1>7 DEF IsChain

\* A chain holds cluster numbers of the table, and 0 from its end on.
LEMMA ChainValues ==
  ASSUME NEW fat, NEW entries, NEW c, NEW n \in 0 .. U32
  PROVE  /\ Chain(fat, entries, c)[n] \in Clusters(entries) \cup {0}
         /\ n = 0 => Chain(fat, entries, c)[n] = IF c \in Clusters(entries) THEN c ELSE 0
         /\ n + 1 <= U32 =>
              /\ Chain(fat, entries, c)[n] = 0 => Chain(fat, entries, c)[n + 1] = 0
              /\ Chain(fat, entries, c)[n] # 0 =>
                   LET next == fat[Chain(fat, entries, c)[n]] % FAT_MASK IN
                   Chain(fat, entries, c)[n + 1] = IF next \in Clusters(entries) THEN next ELSE 0
<1>0. U32 \in Nat
  BY Zenon, SizesAssumption
<1>1. PICK f : f = Chain(fat, entries, c) /\ \A m \in 0 .. U32 : f[m] = ChainStep(fat, entries, c, f, m)
  BY Zenon, ChainUnfolds
<1>2. f[n] \in Clusters(entries) \cup {0}
  BY Zenon, <1>1 DEF ChainStep
<1>3. n = 0 => f[n] = IF c \in Clusters(entries) THEN c ELSE 0
  BY Zenon, <1>1 DEF ChainStep
<1>4. ASSUME n + 1 <= U32
      PROVE  /\ f[n] = 0 => f[n + 1] = 0
             /\ f[n] # 0 => LET next == fat[f[n]] % FAT_MASK IN
                            f[n + 1] = IF next \in Clusters(entries) THEN next ELSE 0
  <2>1. n + 1 \in 0 .. U32 /\ n + 1 # 0 /\ (n + 1) - 1 = n
    BY <1>0, <1>4
  <2>2. f[n + 1] = ChainStep(fat, entries, c, f, n + 1)
    BY Zenon, <1>1, <2>1
  <2> QED
    BY <2>1, <2>2 DEF ChainStep
<1> QED
  BY Zenon, <1>1, <1>2, <1>3, <1>4

\* A chain that has ended does not go on.
LEMMA ChainStaysEnded ==
  ASSUME NEW fat, NEW entries, NEW c, NEW m \in 0 .. U32, NEW n \in 0 .. U32,
         Chain(fat, entries, c)[m] = 0, m <= n
  PROVE  Chain(fat, entries, c)[n] = 0
<1>0. U32 \in Nat
  BY Zenon, SizesAssumption
<1>1. PICK f : f = Chain(fat, entries, c)
  OBVIOUS
<1>2. \A i \in 0 .. U32 : i + 1 <= U32 => (f[i] = 0 => f[i + 1] = 0)
  BY <1>1, ChainValues
<1> DEFINE T == {d \in Nat : m + d <= U32 => f[m + d] = 0}
<1>3. 0 \in T
  BY <1>0, <1>1
<1>4. ASSUME NEW d \in Nat, d \in T PROVE d + 1 \in T
  <2> SUFFICES ASSUME m + (d + 1) <= U32 PROVE f[m + (d + 1)] = 0
    OBVIOUS
  <2>1. m + d \in 0 .. U32 /\ (m + d) + 1 <= U32 /\ m + (d + 1) = (m + d) + 1
    BY <1>0
  <2>2. f[m + d] = 0
    BY <1>4, <2>1
  <2> QED
    BY Zenon, <1>2, <2>1, <2>2
<1>5. Nat \subseteq T
  <2> HIDE DEF T
  <2> QED
    BY Zenon, <1>3, <1>4, SetInduction
<1>6. n - m \in Nat /\ m + (n - m) = n /\ n <= U32
  BY <1>0
<1>7. n - m \in T
  BY Zenon, <1>5, <1>6
<1> QED
  BY Zenon, <1>1, <1>6, <1>7

----------------------------------------------------------------------------
(* Sector numbers                                                             *)

\* The check of the table's size keeps the end of the tables below 2^32.
LEMMA TablesFit ==
  ASSUME NEW r \in 0 .. U32 - 1, NEW f \in Nat, f <= (U32 - 1 - r) \div 2
  PROVE  r + 2 * f < U32 /\ (r + 2 * f) % U32 = r + 2 * f
<1>0. U32 \in Nat \ {0} /\ U32 - 1 - r \in Nat
  BY SizesAssumption
<1>1. PICK a \in Nat : a = U32 - 1 - r
  BY Zenon, <1>0
<1>2. a \div 2 \in Nat /\ 2 * (a \div 2) <= a
  OBVIOUS
<1>3. r + 2 * f < U32 /\ r + 2 * f \in Nat
  BY <1>0, <1>1, <1>2
<1> QED
  BY <1>0, <1>3

\* The sector of a byte, as the driver computes it, is right when it fits.
LEMMA SectorNumber ==
  ASSUME NEW a \in Nat, NEW c \in Nat, c >= 2, NEW s \in Nat \ {0}, NEW q \in 0 .. s - 1
  PROVE  /\ (((a + (c - 2) * s) % U32) + q) % U32 \in Nat
         /\ a <= a + (c - 2) * s + q
         /\ a + (c - 2) * s + q < U32 =>
              (((a + (c - 2) * s) % U32) + q) % U32 = a + (c - 2) * s + q
         /\ \A d \in Nat : c <= d /\ a + (d - 1) * s <= U32 => a + (c - 2) * s + q < U32
<1>0. U32 \in Nat \ {0}
  BY Zenon, SizesAssumption
<1>1. PICK m \in Nat : m = (c - 2) * s
  <2>1. c - 2 \in Nat /\ \A x, y \in Nat : x * y \in Nat
    OBVIOUS
  <2>2. (c - 2) * s \in Nat
    BY Zenon, <2>1
  <2> QED
    BY Zenon, <2>2
<1>2. \A x \in Nat : x % U32 \in Nat /\ (x < U32 => x % U32 = x)
  BY <1>0
<1>3. a + m \in Nat /\ (a + m) % U32 \in Nat /\ ((a + m) % U32) + q \in Nat /\ a + m + q \in Nat
  BY <1>2
<1>4. a + m + q < U32 => (((a + m) % U32) + q) % U32 = a + m + q
  <2> SUFFICES ASSUME a + m + q < U32
               PROVE  (((a + m) % U32) + q) % U32 = a + m + q
    OBVIOUS
  <2>1. a + m < U32
    BY <1>0
  <2>2. (a + m) % U32 = a + m
    BY Zenon, <1>2, <1>3, <2>1
  <2>3. (a + m + q) % U32 = a + m + q
    BY Zenon, <1>2, <1>3
  <2> QED
    BY Zenon, <2>2, <2>3
<1>5. ASSUME NEW d \in Nat, c <= d, a + (d - 1) * s <= U32 PROVE a + m + q < U32
  <2>1. (d - 1) * s >= (c - 1) * s
    <3>1. \A x, y, z \in Nat : x <= y => x * z <= y * z
      OBVIOUS
    <3>2. c - 1 \in Nat /\ d - 1 \in Nat /\ c - 1 <= d - 1
      BY <1>5
    <3> QED
      BY Zenon, <3>1, <3>2
  <2>2. (c - 1) * s = m + s
    BY <1>1
  <2>3. (d - 1) * s \in Int
    OBVIOUS
  <2> QED
    BY <1>0, <1>5, <2>1, <2>2, <2>3
<1> QED
  BY <1>1, <1>2, <1>3, <1>4, <1>5

\* Reduced by a multiple of the word size, a word's offset stays a multiple.
LEMMA Aligned ==
  ASSUME NEW w \in Nat \ {0}, NEW b \in Nat \ {0}, b % w = 0, NEW x \in Nat
  PROVE  \E y \in Nat : (x * w) % b = y * w /\ (y + 1) * w <= b
<1>1. PICK k \in Nat : b = k * w
  <2>1. b \div w \in Nat /\ b = (b \div w) * w + (b % w)
    BY Zenon, SmallQuotient
  <2> QED
    BY <2>1
<1>2. PICK a \in Nat : a = x * w
  <2>1. \A i, j \in Nat : i * j \in Nat
    OBVIOUS
  <2> QED
    BY Zenon, <2>1
<1>3. PICK p \in Nat, r \in 0 .. b - 1 : a = p * b + r /\ a % b = r
  BY Zenon, SmallQuotient
<1>4. PICK y \in Int : y = x - p * k
  OBVIOUS
<1>5. y * w = r
  <2>1. p * b = (p * k) * w
    BY <1>1
  <2>2. y * w = x * w - (p * k) * w
    BY <1>4
  <2> QED
    BY <1>2, <1>3, <2>1, <2>2
<1>6. y >= 0
  <2>1. y <= -1 => y * w <= -w
    OBVIOUS
  <2> QED
    BY <1>5, <2>1
<1>7. y + 1 <= k
  <2>1. y >= k => y * w >= k * w
    BY <1>6
  <2> QED
    BY <1>1, <1>3, <1>5, <2>1
<1>8. (y + 1) * w <= k * w
  BY <1>6, <1>7
<1>9. y \in Nat
  BY <1>6
<1>10. (x * w) % b = y * w
  BY Zenon, <1>2, <1>3, <1>5
<1>11. (y + 1) * w <= b
  BY Zenon, <1>1, <1>8
<1> QED
  BY Zenon, <1>9, <1>10, <1>11

----------------------------------------------------------------------------
(* What a mounted disk gives the calls                                        *)

\* The fields kept by the mount, and what they are divided and multiplied into.
LEMMA FsFacts ==
  ASSUME FatType, Known
  PROVE  /\ fs.bytes_per_sector = SB_FAT32_SECTOR_BYTES
         /\ fs.sectors_per_cluster = disk.boot.sectors_per_cluster
         /\ fs.sectors_per_cluster \in Nat \ {0}
         /\ fs.root_cluster = disk.boot.root_cluster
         /\ fs.root_cluster \in 2 .. U32 - 1
         /\ fs.first_data_sector = DataStart(disk.boot)
         /\ fs.first_data_sector \in Nat
         /\ fs.first_data_sector < disk.total_sectors
         /\ cluster_size = SB_FAT32_SECTOR_BYTES * fs.sectors_per_cluster
         /\ cluster_size \in Nat \ {0}
         /\ TableEntries \in Nat
         /\ disk.fat \in [0 .. TableEntries - 1 -> 0 .. U32 - 1]
         /\ entries_per_sector \in Nat \ {0}
         /\ SB_FAT32_SECTOR_BYTES = entries_per_sector * SB_FAT32_ENTRY_SIZE
         /\ entries_per_cluster = entries_per_sector * fs.sectors_per_cluster
         /\ entries_per_cluster \in Nat \ {0}
<1>1. /\ disk.boot.sectors_per_cluster \in Nat /\ disk.boot.reserved_sectors \in 0 .. U32 - 1
      /\ disk.boot.fat_size_sectors \in Nat /\ disk.boot.root_cluster \in 0 .. U32 - 1
      /\ disk.total_sectors \in Nat
      /\ disk.fat \in [0..(disk.boot.fat_size_sectors * disk.boot.bytes_per_sector)
                        \div FAT_ENTRY_BYTES - 1 -> 0..U32 - 1]
  BY SMTT(30), DisksAssumption DEF FatType
<1>2. /\ disk.boot.bytes_per_sector = SB_FAT32_SECTOR_BYTES
      /\ disk.boot.sectors_per_cluster # 0 /\ disk.boot.root_cluster >= 2
      /\ disk.boot.fat_size_sectors <= (U32 - 1 - disk.boot.reserved_sectors) \div 2
      /\ (disk.boot.reserved_sectors + 2 * disk.boot.fat_size_sectors) % U32 < disk.total_sectors
  BY Zenon DEF Known, GoodBoot, BootOK, FieldsOK, FatSizeOK, first_data
<1>3. /\ fs.bytes_per_sector = disk.boot.bytes_per_sector
      /\ fs.sectors_per_cluster = disk.boot.sectors_per_cluster
      /\ fs.fat_size_sectors = disk.boot.fat_size_sectors
      /\ fs.root_cluster = disk.boot.root_cluster
      /\ fs.first_data_sector = DataStart(disk.boot)
  BY Zenon DEF Known, FsOf
<1>4. /\ DataStart(disk.boot) \in Nat /\ DataStart(disk.boot) < disk.total_sectors
  BY SMTT(20), <1>1, <1>2, TablesFit DEF DataStart
<1>5. /\ U32 \in Nat \ {0} /\ SB_FAT32_SECTOR_BYTES \in Nat \ {0}
      /\ SB_FAT32_ENTRY_SIZE \in Nat \ {0} /\ FAT_ENTRY_BYTES \in Nat \ {0}
      /\ SB_FAT32_SECTOR_BYTES % SB_FAT32_ENTRY_SIZE = 0
  BY Zenon, SizesAssumption
<1>6. \A x, y \in Nat \ {0} : x * y \in Nat \ {0}
  OBVIOUS
<1>7. PICK e \in Nat : /\ SB_FAT32_SECTOR_BYTES \div SB_FAT32_ENTRY_SIZE = e
                       /\ SB_FAT32_SECTOR_BYTES = e * SB_FAT32_ENTRY_SIZE
  <2>1. /\ SB_FAT32_SECTOR_BYTES \div SB_FAT32_ENTRY_SIZE \in Nat
        /\ SB_FAT32_SECTOR_BYTES = (SB_FAT32_SECTOR_BYTES \div SB_FAT32_ENTRY_SIZE) * SB_FAT32_ENTRY_SIZE
                                   + (SB_FAT32_SECTOR_BYTES % SB_FAT32_ENTRY_SIZE)
    BY Zenon, <1>5, SmallQuotient
  <2> QED
    BY <1>5, <2>1
<1>8. e # 0
  BY <1>5, <1>7
<1>9. entries_per_sector = e /\ entries_per_cluster = e * fs.sectors_per_cluster
  BY Zenon, <1>2, <1>3, <1>7 DEF entries_per_sector, entries_per_cluster
<1>10. /\ cluster_size = SB_FAT32_SECTOR_BYTES * fs.sectors_per_cluster
  BY Zenon, <1>2, <1>3 DEF cluster_size
<1>11. TableEntries = (disk.boot.fat_size_sectors * disk.boot.bytes_per_sector) \div FAT_ENTRY_BYTES
  BY Zenon, <1>3 DEF TableEntries
<1>12. TableEntries \in Nat
  <2>1. PICK x, y \in Nat : x = disk.boot.fat_size_sectors /\ y = disk.boot.bytes_per_sector
    BY Zenon, <1>1, <1>2, <1>5
  <2>2. \A i, j \in Nat : i * j \in Nat
    OBVIOUS
  <2>3. PICK z \in Nat : z = x * y
    BY Zenon, <2>2
  <2>4. TableEntries = z \div FAT_ENTRY_BYTES
    BY Zenon, <1>11, <2>1, <2>3
  <2>5. z \div FAT_ENTRY_BYTES \in Nat
    BY Zenon, <1>5, SmallQuotient
  <2> QED
    BY Zenon, <2>4, <2>5
<1>13. disk.fat \in [0 .. TableEntries - 1 -> 0 .. U32 - 1]
  BY Zenon, <1>1, <1>11
<1>14. /\ entries_per_sector \in Nat \ {0} /\ entries_per_cluster \in Nat \ {0}
       /\ cluster_size \in Nat \ {0}
  BY Zenon, <1>1, <1>2, <1>3, <1>5, <1>6, <1>8, <1>9, <1>10
<1>15. /\ fs.bytes_per_sector = SB_FAT32_SECTOR_BYTES
       /\ fs.sectors_per_cluster \in Nat \ {0} /\ fs.root_cluster \in 2 .. U32 - 1
  BY <1>1, <1>2, <1>3, <1>5
<1>16. /\ fs.first_data_sector \in Nat /\ fs.first_data_sector < disk.total_sectors
  BY Zenon, <1>3, <1>4
<1>17. /\ SB_FAT32_SECTOR_BYTES = entries_per_sector * SB_FAT32_ENTRY_SIZE
       /\ entries_per_cluster = entries_per_sector * fs.sectors_per_cluster
  BY Zenon, <1>7, <1>9
<1> QED
  BY Zenon, <1>3, <1>10, <1>12, <1>13, <1>14, <1>15, <1>16, <1>17

\* No word of the table lies across two sectors: the first check of
\* fat_next_cluster never fails.
LEMMA WordsFit ==
  ASSUME FatType, Known, NEW c \in Nat
  PROVE  WordInSector(c)
<1>0. /\ U32 \in Nat \ {0} /\ SB_FAT32_SECTOR_BYTES \in Nat \ {0} /\ FAT_ENTRY_BYTES \in Nat \ {0}
      /\ SB_FAT32_SECTOR_BYTES % FAT_ENTRY_BYTES = 0 /\ U32 % FAT_ENTRY_BYTES = 0
  BY Zenon, SizesAssumption
<1>1. PICK y \in Nat : (c * FAT_ENTRY_BYTES) % U32 = y * FAT_ENTRY_BYTES
  BY ZenonT(40), <1>0, Aligned
<1>2. PICK z \in Nat : /\ (y * FAT_ENTRY_BYTES) % SB_FAT32_SECTOR_BYTES = z * FAT_ENTRY_BYTES
                       /\ (z + 1) * FAT_ENTRY_BYTES <= SB_FAT32_SECTOR_BYTES
  BY Zenon, <1>0, Aligned
<1>3. (z + 1) * FAT_ENTRY_BYTES = z * FAT_ENTRY_BYTES + FAT_ENTRY_BYTES
  BY <1>0
<1>4. fs.bytes_per_sector = SB_FAT32_SECTOR_BYTES
  BY Zenon, FsFacts
<1> QED
  BY Zenon, <1>1, <1>2, <1>3, <1>4 DEF WordInSector, fat_index, fat_offset

\* The word of a cluster of the table is the entry of that cluster.
LEMMA WordOfCluster ==
  ASSUME FatType, Known, cluster \in Clusters(TableEntries)
  PROVE  FatWord(cluster) = {disk.fat[cluster]}
<1>0. /\ U32 \in Nat \ {0} /\ FAT_MASK \in Nat \ {0} /\ FAT_ENTRY_BYTES \in Nat \ {0}
      /\ SB_FAT32_EOC_MIN \in Nat /\ SB_FAT32_EOC_MIN <= FAT_MASK
      /\ FAT_MASK * FAT_ENTRY_BYTES <= U32
  BY SizesAssumption
<1>1. PICK T \in Nat, c \in Nat : /\ T = TableEntries /\ c = cluster /\ c < T
                                  /\ c < SB_FAT32_EOC_MIN
  BY FsFacts DEF Clusters, FatType
<1>2. c + 1 <= FAT_MASK /\ c + 1 \in Nat
  BY <1>0, <1>1
<1>3. c * FAT_ENTRY_BYTES \in Nat /\ c * FAT_ENTRY_BYTES < U32
  <2>1. \A x, y, z \in Nat : x <= y => x * z <= y * z
    OBVIOUS
  <2>2. (c + 1) * FAT_ENTRY_BYTES <= FAT_MASK * FAT_ENTRY_BYTES
    BY Zenon, <1>0, <1>2, <2>1
  <2>3. /\ (c + 1) * FAT_ENTRY_BYTES = c * FAT_ENTRY_BYTES + FAT_ENTRY_BYTES
        /\ c * FAT_ENTRY_BYTES \in Nat /\ FAT_MASK * FAT_ENTRY_BYTES \in Nat
    BY <1>0
  <2> QED
    BY <1>0, <2>2, <2>3
<1>4. fat_offset(cluster) = c * FAT_ENTRY_BYTES
  <2>1. \A x \in Nat : x < U32 => x % U32 = x
    BY <1>0
  <2> QED
    BY Zenon, <1>1, <1>3, <2>1 DEF fat_offset
<1>5. (c * FAT_ENTRY_BYTES) \div FAT_ENTRY_BYTES = c
  <2>1. 0 \in 0 .. FAT_ENTRY_BYTES - 1 /\ c * FAT_ENTRY_BYTES + 0 = c * FAT_ENTRY_BYTES
    BY <1>0, <1>3
  <2> QED
    BY Zenon, <1>0, <2>1, Divides
<1>6. c % T = c /\ c < 2 * T
  BY <1>1
<1> QED
  BY Zenon, <1>1, <1>4, <1>5, <1>6 DEF FatWord

\* Whatever is looked up is a word.
LEMMA WordType ==
  ASSUME FatType, Known, NEW word \in FatWord(cluster)
  PROVE  word \in Nat /\ word % FAT_MASK \in Nat
<1>0. /\ U32 \in Nat \ {0} /\ FAT_MASK \in Nat \ {0} /\ FAT_ENTRY_BYTES \in Nat \ {0}
      /\ Words \subseteq Nat
  BY SizesAssumption, CallsAssumption
<1>1. PICK T \in Nat : T = TableEntries /\ disk.fat \in [0 .. T - 1 -> 0 .. U32 - 1]
  BY Zenon, FsFacts
<1>2. PICK e \in Nat : e = fat_offset(cluster) \div FAT_ENTRY_BYTES
  <2>1. \A x, y \in Nat : x * y \in Nat
    OBVIOUS
  <2>2. PICK x \in Nat : x = cluster * FAT_ENTRY_BYTES
    BY Zenon, <1>0, <2>1 DEF FatType
  <2>3. x % U32 \in Nat
    BY <1>0
  <2>4. PICK y \in Nat : y = fat_offset(cluster)
    BY Zenon, <2>2, <2>3 DEF fat_offset
  <2>5. y \div FAT_ENTRY_BYTES \in Nat
    BY Zenon, <1>0, SmallQuotient
  <2> QED
    BY Zenon, <2>4, <2>5
<1>3. CASE e < 2 * T
  <2>1. e % T \in 0 .. T - 1
    BY <1>3
  <2>2. disk.fat[e % T] \in Nat
    BY <1>0, <1>1, <2>1
  <2>3. word = disk.fat[e % T]
    BY Zenon, <1>1, <1>2, <1>3 DEF FatWord
  <2> QED
    BY <1>0, <2>2, <2>3
<1>4. CASE ~ (e < 2 * T)
  <2>1. word \in Words
    BY Zenon, <1>1, <1>2, <1>4 DEF FatWord
  <2> QED
    BY <1>0, <2>1
<1> QED
  BY Zenon, <1>3, <1>4

\* Following the table keeps to the chain: fat_next_cluster and the check its
\* callers make of the next cluster.
LEMMA FollowChain ==
  ASSUME FatType, Known, NEW start, NEW n \in 0 .. U32 - 1, OnChain(start, n),
         NEW word \in FatWord(cluster)
  PROVE  /\ ChainEnds(word % FAT_MASK) => ChainOf(start)[n + 1] = 0
         /\ ~ ChainEnds(word % FAT_MASK) => ChainOf(start)[n + 1] \in {0, word % FAT_MASK}
<1>0. U32 \in Nat \ {0} /\ n \in 0 .. U32 /\ n + 1 <= U32
  BY SizesAssumption
<1>1. PICK f : f = ChainOf(start) /\ f = Chain(disk.fat, TableEntries, start)
  BY Zenon DEF ChainOf
<1>2. /\ f[n] \in Clusters(TableEntries) \cup {0}
      /\ f[n] = 0 => f[n + 1] = 0
      /\ f[n] # 0 => f[n + 1] = IF disk.fat[f[n]] % FAT_MASK \in Clusters(TableEntries)
                                THEN disk.fat[f[n]] % FAT_MASK ELSE 0
  BY <1>0, <1>1, ChainValues
<1>3. CASE f[n] = 0
  BY Zenon, <1>1, <1>2, <1>3
<1>4. CASE f[n] # 0
  <2>1. f[n] = cluster /\ cluster \in Clusters(TableEntries)
    BY Zenon, <1>1, <1>2, <1>4 DEF OnChain
  <2>2. word = disk.fat[cluster]
    BY Zenon, <2>1, WordOfCluster
  <2>3. ChainEnds(word % FAT_MASK) => word % FAT_MASK \notin Clusters(TableEntries)
    <3>1. word % FAT_MASK \in Nat /\ SB_FAT32_EOC_MIN \in Nat
      BY WordType, SizesAssumption
    <3> QED
      BY <3>1 DEF ChainEnds, Clusters
  <2> QED
    BY Zenon, <1>1, <1>2, <1>4, <2>1, <2>2, <2>3
<1> QED
  BY Zenon, <1>3, <1>4

----------------------------------------------------------------------------
(* The steps keep the invariant                                               *)

\* What is computed from the disk and the mount changes only with them.
LEMMA Frame ==
  ASSUME UNCHANGED <<disk, fs>>
  PROVE  /\ Known <=> Known'
         /\ TableEntries' = TableEntries /\ cluster_size' = cluster_size
         /\ entries_per_sector' = entries_per_sector
         /\ entries_per_cluster' = entries_per_cluster
         /\ \A c : ChainOf(c)' = ChainOf(c)
         /\ \A f, k : ByteOf(f, k)' = ByteOf(f, k)
<1>1. TableEntries' = TableEntries /\ cluster_size' = cluster_size
  BY Zenon DEF TableEntries, cluster_size
<1>2. entries_per_sector' = entries_per_sector /\ entries_per_cluster' = entries_per_cluster
  BY Zenon DEF entries_per_sector, entries_per_cluster
<1>3. Known <=> Known'
  BY Zenon DEF Known, GoodBoot, BootOK, FieldsOK, FatSizeOK, TotalSectors, first_data
<1>4. \A c : ChainOf(c)' = ChainOf(c)
  BY Zenon, <1>1 DEF ChainOf
<1>5. \A f, k : ByteOf(f, k)' = ByteOf(f, k)
  BY Zenon, <1>1 DEF ByteOf
<1> QED
  BY Zenon, <1>1, <1>2, <1>3, <1>4, <1>5

\* The kinds of calls.
LEMMA CallFields ==
  ASSUME NEW r \in CallsType
  PROVE  /\ r.call \in {"none", "root", "file"}
         /\ r.call = "root" => r.index \in 0 .. U32 - 1
         /\ r.call = "file" => r.offset \in 0 .. U32 - 1 /\ r.length \in 0 .. U32 - 1
  BY Zenon DEF CallsType

\* The bytes already delivered stay the right ones while the call goes on.
LEMMA ReadKept ==
  ASSUME ReadExact, UNCHANGED <<disk, fs, req, entry, dst>>,
         req.call = "file" /\ pc' = "idle" /\ result' = "ok" => Len(dst) = req.length
  PROVE  ReadExact'
<1>1. PICK c, f, r, d, m : /\ c = entry.first_cluster /\ f = ChainOf(c) /\ r = req /\ d = dst
                           /\ m = cluster_size
  OBVIOUS
<1>2. /\ ChainOf(entry.first_cluster)' = f /\ cluster_size' = m
      /\ \A k : ByteOf(f, k)' = ByteOf(f, k)
  BY Zenon, <1>1, Frame
<1>3. NoWrap' => NoWrap
  BY Zenon DEF NoWrap
<1> QED
  BY Zenon, <1>1, <1>2, <1>3 DEF ReadExact

\* The bootstrap state.
LEMMA InitInv == Init => FatInv
<1> SUFFICES ASSUME Init PROVE FatInv
  OBVIOUS
<1>1. U32 \in Nat \ {0}
  BY Zenon, SizesAssumption
<1>2. NoEntry \in Files
  BY <1>1 DEF NoEntry, Files
<1>3. FatType
  BY <1>2 DEF Init, FatType, CallsType
<1>4. req.call = "none" /\ pc = "idle" /\ ~ mounted
  BY Zenon DEF Init
<1> QED
  BY Zenon, <1>3, <1>4 DEF FatInv, ReadExact, FailsForAReason, EntryExact

\* A mount that succeeds knows the disk, and one that fails forgets nothing.
LEMMA MountKnown ==
  ASSUME FatType, NEW device_ok, sb_fat32_mount(device_ok)
  PROVE  /\ mounted' => Known'
         /\ Known => fs' = fs
<1>1. /\ disk.boot.reserved_sectors \in 0 .. U32 - 1 /\ disk.boot.fat_size_sectors \in Nat
  BY DisksAssumption DEF FatType
<1>2. FatSizeOK(disk.boot) => first_data(disk.boot) = DataStart(disk.boot)
  BY Zenon, <1>1, TablesFit DEF FatSizeOK, first_data, DataStart
<1> DEFINE boot == disk.boot
           read == disk.sector_size >= SB_FAT32_SECTOR_BYTES /\ read_sector(0, device_ok)
           good == FieldsOK(boot) /\ FatSizeOK(boot) /\ first_data(boot) < disk.total_sectors
<1>3. disk' = disk
  BY Zenon DEF sb_fat32_mount
<1>4. CASE ~ (read /\ BootOK(boot))
  <2>1. mounted' = FALSE /\ fs' = fs
    BY Zenon, <1>4 DEF sb_fat32_mount
  <2> QED
    BY Zenon, <2>1
<1>5. CASE read /\ BootOK(boot)
  <2>1. /\ mounted' = good
        /\ good => fs' = FsOf(boot)
    BY Zenon, <1>2, <1>5 DEF sb_fat32_mount, FsOf
  <2>2. good => GoodBoot(boot)'
    BY Zenon, <1>3, <1>5 DEF GoodBoot, BootOK, FieldsOK, FatSizeOK, TotalSectors, first_data
  <2>3. mounted' => Known'
    BY Zenon, <1>3, <2>1, <2>2 DEF Known, FsOf, DataStart
  <2>4. Known => good /\ fs = FsOf(boot)
    BY Zenon DEF Known, GoodBoot
  <2> QED
    BY Zenon, <2>1, <2>3, <2>4
<1> QED
  BY Zenon, <1>4, <1>5

\* sb_fat32_mount.
LEMMA MountInv ==
  ASSUME FatInv, NEW device_ok, sb_fat32_mount(device_ok)
  PROVE  FatInv'
<1>0. /\ FatType /\ ReadExact /\ FailsForAReason /\ EntryExact
      /\ mounted \/ req.call # "none" => Known
  BY Zenon DEF FatInv
<1>1. /\ pc = "idle"
      /\ UNCHANGED <<disk, pc, result, req, entry, cluster, offset, remaining, dst, failed>>
  BY Zenon DEF sb_fat32_mount, callVars
<1>2. FatType'
  BY Zenon, <1>0, <1>1 DEF FatType
<1>3. CASE ~ Known
  <2>1. req.call = "none"
    BY Zenon, <1>0, <1>3
  <2>2. mounted' \/ req'.call # "none" => Known'
    BY Zenon, <1>0, <1>1, <2>1, MountKnown
  <2> QED
    BY Zenon, <1>1, <1>2, <2>1, <2>2 DEF FatInv, ReadExact, FailsForAReason, EntryExact
<1>4. CASE Known
  <2>1. fs' = fs
    BY Zenon, <1>0, <1>4, MountKnown
  <2>2. Known'
    BY Zenon, <1>1, <1>4, <2>1, Frame
  <2>3. ReadExact'
    BY Zenon, <1>0, <1>1, <2>1, ReadKept DEF ReadExact
  <2>4. FailsForAReason'
    BY Zenon, <1>0, <1>1, <2>1
    DEF FailsForAReason, ArgumentsOK, ChainOf, TableEntries, cluster_size
  <2>5. EntryExact'
    BY Zenon, <1>0, <1>1, <2>1
    DEF EntryExact, ChainOf, TableEntries, cluster_size, entries_per_cluster,
        entries_per_sector, ByteOf
  <2> QED
    BY Zenon, <1>1, <1>2, <2>2, <2>3, <2>4, <2>5 DEF FatInv
<1> QED
  BY Zenon, <1>3, <1>4

\* The first cluster of a chain.
LEMMA ChainBegins ==
  ASSUME NEW start
  PROVE  ChainOf(start)[0] \in {0, start}
<1>1. 0 \in 0 .. U32
  BY SizesAssumption
<1> QED
  BY <1>1, ChainValues DEF ChainOf

\* sb_fat32_read_root_entry, up to its loop.
LEMMA RootBeginInv ==
  ASSUME FatInv, NEW index \in Indices, RootBegin(index)
  PROVE  FatInv'
<1>0. FatType /\ (mounted => Known)
  BY Zenon DEF FatInv
<1>1. /\ mounted /\ pc' = "walk"
      /\ req' = [call |-> "root", index |-> index] /\ dst' = <<>>
      /\ cluster' = fs.root_cluster /\ remaining' = index
      /\ UNCHANGED <<disk, fs, mounted, entry, offset>>
  BY Zenon DEF RootBegin, Begin
<1>2. index \in 0 .. U32 - 1 /\ U32 \in Nat \ {0}
  BY Zenon, CallsAssumption, SizesAssumption
<1>3. /\ Known /\ fs.root_cluster = disk.boot.root_cluster /\ fs.root_cluster \in 2 .. U32 - 1
      /\ entries_per_cluster \in Nat
  BY Zenon, <1>0, <1>1, FsFacts
<1>4. FatType'
  <2>1. req' \in CallsType
    BY Zenon, <1>1, <1>2 DEF CallsType
  <2>2. cluster' \in Nat /\ remaining' \in Nat
    BY <1>1, <1>2, <1>3
  <2> QED
    BY <1>0, <1>1, <2>1, <2>2 DEF FatType
<1>5. Known'
  BY Zenon, <1>1, <1>3, Frame
<1>6. Walking'
  <2>1. PICK c : c = disk.boot.root_cluster
    OBVIOUS
  <2>2. ChainOf(c)'[0] \in {0, cluster'}
    BY Zenon, <1>1, <1>3, <2>1, ChainBegins, Frame
  <2>3. OnChain(disk.boot.root_cluster, 0)'
    BY Zenon, <1>1, <2>1, <2>2 DEF OnChain
  <2>4. index = 0 * entries_per_cluster' + index /\ 0 \in 0 .. U32 - 1
    BY <1>1, <1>2, <1>3, Frame
  <2>5. req'.call = "root" /\ req'.index = index /\ remaining' = index /\ cluster' >= 2
    BY <1>1, <1>3
  <2> QED
    BY Zenon, <2>3, <2>4, <2>5 DEF Walking
<1>7. req'.call = "root"
  BY Zenon, <1>1
<1> QED
  BY Zenon, <1>1, <1>4, <1>5, <1>6, <1>7 DEF FatInv, ReadExact, FailsForAReason, EntryExact

\* sb_fat32_read_file, up to its loops.
LEMMA FileBeginInv ==
  ASSUME FatInv, NEW off \in 0 .. U32 - 1, NEW length \in 0 .. U32 - 1, FileBegin(off, length)
  PROVE  FatInv'
<1>0. FatType /\ (mounted => Known)
  BY Zenon DEF FatInv
<1>1. /\ mounted
      /\ req' = [call |-> "file", offset |-> off, length |-> length] /\ dst' = <<>>
      /\ cluster' = entry.first_cluster /\ offset' = off /\ remaining' = length
      /\ UNCHANGED <<disk, fs, mounted, entry>>
      /\ \/ ~ ArgumentsOK(off, length) /\ pc' = "idle" /\ result' = "fail"
         \/ ArgumentsOK(off, length) /\ length = 0 /\ pc' = "idle" /\ result' = "ok"
         \/ ArgumentsOK(off, length) /\ length > 0 /\ pc' = "skip" /\ UNCHANGED result
  BY Zenon DEF FileBegin, Begin, Return
<1>2. U32 \in Nat \ {0} /\ entry.first_cluster \in Nat /\ entry.file_size \in 0 .. U32 - 1
  BY <1>0, SizesAssumption DEF FatType, Files
<1>3. Known /\ cluster_size \in Nat
  BY Zenon, <1>0, <1>1, FsFacts
<1>4. FatType'
  <2>1. req' \in CallsType
    BY Zenon, <1>1, <1>2 DEF CallsType
  <2>2. cluster' \in Nat /\ remaining' \in Nat /\ offset' \in Nat
    BY <1>1, <1>2
  <2>3. pc' \in {"idle", "walk", "skip", "copy", "follow"} /\ dst' \in Seq(Nat \X Nat)
    BY <1>1
  <2> QED
    BY Zenon, <1>0, <1>1, <2>1, <2>2, <2>3 DEF FatType
<1>5. Known'
  BY Zenon, <1>1, <1>3, Frame
<1>6. req'.call = "file" /\ req'.offset = off /\ req'.length = length /\ Len(dst') = 0
  BY Zenon, <1>1
<1>7. ArgumentsOK(req.offset, req.length)' <=> ArgumentsOK(off, length)
  BY Zenon, <1>1, <1>6 DEF ArgumentsOK
<1>8. ReadExact'
  BY <1>1, <1>2, <1>6 DEF ReadExact
<1>9. FailsForAReason'
  BY Zenon, <1>1, <1>7 DEF FailsForAReason
<1>10. ASSUME pc' = "skip" PROVE Reading'
  <2>1. ArgumentsOK(off, length) /\ length > 0
    BY Zenon, <1>1, <1>10
  <2>2. entry.first_cluster >= 2
    BY Zenon, <2>1 DEF ArgumentsOK
  <2>3. PICK c : c = entry.first_cluster
    OBVIOUS
  <2>4. ChainOf(c)'[0] \in {0, cluster'}
    BY Zenon, <1>1, <2>3, ChainBegins, Frame
  <2>5. OnChain(entry.first_cluster, 0)'
    BY Zenon, <1>1, <2>3, <2>4 DEF OnChain
  <2>6. off + 0 = 0 * cluster_size' + off /\ 0 \in 0 .. U32 - 1
    BY <1>1, <1>2, <1>3, Frame
  <2>7. /\ remaining' > 0 /\ Len(dst') + remaining' = req'.length
        /\ cluster' >= 2 /\ cluster' = entry'.first_cluster
    BY <1>1, <1>6, <2>1, <2>2
  <2>8. req'.offset + Len(dst') = 0 * cluster_size' + offset'
    BY Zenon, <1>1, <1>6, <2>6
  <2> QED
    BY Zenon, <1>6, <1>7, <1>10, <2>1, <2>5, <2>6, <2>7, <2>8 DEF Reading
<1>11. pc' \in {"idle", "skip"}
  BY Zenon, <1>1
<1> QED
  BY Zenon, <1>4, <1>5, <1>6, <1>8, <1>9, <1>10, <1>11 DEF FatInv, EntryExact

\* A read that stops at the end of the chain lacked a cluster for its last byte.
LEMMA EndIsAReason ==
  ASSUME FatType, Known, Reading, offset >= cluster_size, NEW word \in FatWord(cluster),
         ChainEnds(word % FAT_MASK)
  PROVE  ChainOf(entry.first_cluster)[(req.offset + req.length - 1) \div cluster_size] = 0
<1>1. PICK n \in 0 .. U32 - 1 : /\ req.offset + Len(dst) = n * cluster_size + offset
                                /\ OnChain(entry.first_cluster, n)
  BY Zenon DEF Reading
<1>2. PICK m \in Nat \ {0} : m = cluster_size
  BY Zenon, FsFacts
<1>3. U32 \in Nat \ {0}
  BY Zenon, SizesAssumption
<1>4. /\ req.call = "file" /\ req.offset \in Nat /\ req.length \in Nat
      /\ Len(dst) \in Nat /\ offset \in Nat /\ remaining \in Nat
      /\ remaining > 0 /\ Len(dst) + remaining = req.length
      /\ entry.file_size \in 0 .. U32 - 1 /\ req.length <= entry.file_size - req.offset
  BY CallFields DEF FatType, Reading, ArgumentsOK, Files
<1>5. PICK l \in Nat : l = req.offset + req.length - 1 /\ l < U32 /\ n * m + m <= l
  <2>1. PICK x \in Nat, y \in Nat, z \in Nat, r \in Nat, o \in Nat :
          /\ x = req.offset /\ y = Len(dst) /\ z = req.length /\ r = remaining /\ o = offset
    BY Zenon, <1>4
  <2>2. PICK p \in Nat : p = n * m
    <3>1. n * m \in Nat
      OBVIOUS
    <3> QED
      BY Zenon, <3>1
  <2>3. x + y = p + o /\ m <= o
    BY Zenon, <1>1, <1>2, <2>1, <2>2
  <2>4. r > 0 /\ y + r = z
    BY Zenon, <1>4, <2>1
  <2>5. x + z < U32
    <3>1. PICK f \in Nat : f < U32 /\ z <= f - x
      BY SMTT(30), <1>3, <1>4, <2>1
    <3> QED
      BY <1>3, <3>1
  <2>6. x + z - 1 \in Nat /\ x + z - 1 < U32 /\ p + m <= x + z - 1
    BY <1>3, <2>3, <2>4, <2>5
  <2> QED
    BY Zenon, <2>1, <2>2, <2>6
<1>6. n + 1 <= l \div m /\ l \div m \in 0 .. U32 /\ n + 1 \in 0 .. U32
  <2>1. PICK q \in Nat : q = n + 1 /\ q * m <= l
    BY <1>5
  <2>2. l \div m \in Nat /\ l \div m <= l /\ q <= l \div m
    BY Zenon, <2>1, SmallQuotient
  <2> QED
    BY <1>3, <1>5, <2>1, <2>2
<1>7. ChainOf(entry.first_cluster)[n + 1] = 0
  BY Zenon, <1>1, FollowChain
<1>8. ChainOf(entry.first_cluster)[l \div m] = 0
  BY <1>6, <1>7, ChainStaysEnded DEF ChainOf
<1> QED
  BY Zenon, <1>2, <1>5, <1>8

\* The two loops of sb_fat32_read_file that follow the table.
LEMMA FollowFile ==
  ASSUME FatInv, Reading, offset >= cluster_size,
         UNCHANGED <<disk, fs, mounted, req, entry, dst, remaining>>,
         NEW word,
         \/ /\ failed' = WordInSector(cluster) /\ pc' = "idle" /\ result' = "fail"
            /\ UNCHANGED <<cluster, offset>>
         \/ /\ word \in FatWord(cluster) /\ ChainEnds(word % FAT_MASK)
            /\ pc' = "idle" /\ result' = "fail" /\ UNCHANGED <<cluster, offset, failed>>
         \/ /\ word \in FatWord(cluster) /\ ~ ChainEnds(word % FAT_MASK)
            /\ cluster' = word % FAT_MASK /\ offset' = offset - cluster_size
            /\ pc' = "skip" \/ (pc' = "copy" /\ offset' = 0)
  PROVE  FatInv'
<1>0. FatType /\ ReadExact /\ Known /\ req.call = "file"
  BY Zenon DEF FatInv, Reading
<1>1. cluster_size \in Nat \ {0} /\ offset \in Nat /\ cluster \in Nat /\ U32 \in Nat \ {0}
  BY Zenon, <1>0, FsFacts, SizesAssumption DEF FatType
<1>2. Known'
  BY Zenon, <1>0, Frame
<1>3. /\ req'.call = "file" /\ pc' \in {"idle", "skip", "copy"}
      /\ pc' = "idle" => result' = "fail" /\ UNCHANGED <<cluster, offset>>
  BY Zenon, <1>0
<1>4. ReadExact'
  BY Zenon, <1>0, <1>3, ReadKept
<1>5. FatType'
  <2>1. word \in FatWord(cluster) => word % FAT_MASK \in Nat
    BY Zenon, <1>0, WordType
  <2>2. offset' \in Nat /\ cluster' \in Nat
    BY <1>1, <2>1
  <2> QED
    BY Zenon, <1>0, <1>3, <2>2 DEF FatType
<1>6. FailsForAReason'
  <2> SUFFICES ASSUME pc' = "idle", ~ failed'
               PROVE  ChainOf(entry.first_cluster)'
                        [(req'.offset + req'.length - 1) \div cluster_size'] = 0
    BY Zenon DEF FailsForAReason
  <2>1. WordInSector(cluster)
    BY Zenon, <1>0, <1>1, WordsFit
  <2>2. word \in FatWord(cluster) /\ ChainEnds(word % FAT_MASK)
    BY Zenon, <2>1
  <2>3. PICK c : c = entry.first_cluster
    OBVIOUS
  <2>4. ChainOf(c)[(req.offset + req.length - 1) \div cluster_size] = 0
    BY Zenon, <1>0, <2>2, <2>3, EndIsAReason
  <2>5. ChainOf(entry.first_cluster)' = ChainOf(c) /\ cluster_size' = cluster_size
    BY Zenon, <2>3, Frame DEF ChainOf
  <2> QED
    BY Zenon, <2>4, <2>5
<1>7. ASSUME pc' \in {"skip", "copy"} PROVE Reading'
  <2>1. /\ word \in FatWord(cluster) /\ ~ ChainEnds(word % FAT_MASK)
        /\ cluster' = word % FAT_MASK /\ offset' = offset - cluster_size
        /\ pc' = "copy" => offset' = 0
    BY Zenon, <1>7
  <2>2. PICK n \in 0 .. U32 - 1 : /\ req.offset + Len(dst) = n * cluster_size + offset
                                  /\ OnChain(entry.first_cluster, n)
    BY Zenon DEF Reading
  <2>3. PICK c : c = entry.first_cluster
    OBVIOUS
  <2>4. ChainOf(c)[n + 1] \in {0, cluster'}
    BY Zenon, <1>0, <2>1, <2>2, <2>3, FollowChain
  <2>5. OnChain(entry.first_cluster, n + 1)'
    BY Zenon, <2>3, <2>4, Frame DEF OnChain
  <2>6. /\ req.offset \in Nat /\ req.length \in 0 .. U32 - 1 /\ Len(dst) \in Nat /\ remaining \in Nat
        /\ remaining > 0 /\ Len(dst) + remaining = req.length
        /\ entry.file_size \in 0 .. U32 - 1 /\ req.length <= entry.file_size - req.offset
        /\ ArgumentsOK(req.offset, req.length)
    <3>1. req.offset \in Nat /\ req.length \in 0 .. U32 - 1
      BY SMTT(30), <1>0, CallFields DEF FatType, Reading
    <3>2. Len(dst) \in Nat /\ remaining \in Nat /\ entry \in Files
      BY <1>0 DEF FatType
    <3>3. /\ remaining > 0 /\ Len(dst) + remaining = req.length
          /\ ArgumentsOK(req.offset, req.length)
      BY Zenon, <1>0 DEF Reading
    <3>4. req.length <= entry.file_size - req.offset
      BY Zenon, <3>3 DEF ArgumentsOK
    <3>5. entry.file_size \in 0 .. U32 - 1
      BY Zenon, <3>2 DEF Files
    <3> QED
      BY Zenon, <3>1, <3>2, <3>3, <3>4, <3>5
  <2>7. PICK m \in Nat \ {0} : m = cluster_size
    BY Zenon, <1>1
  <2>8. n * m \in Nat /\ n * m >= n /\ (n + 1) * m = n * m + m
    OBVIOUS
  <2>9. n + 1 \in 0 .. U32 - 1
    <3>1. PICK a \in Nat : a = req.offset + Len(dst) /\ a < U32
      BY SMTT(30), <1>1, <2>6
    <3>2. n * m + m <= a
      BY SMTT(30), <1>1, <2>2, <2>7, <2>8, <3>1
    <3> QED
      BY SMTT(30), <1>1, <2>8, <3>1, <3>2
  <2>10. req.offset + Len(dst) = (n + 1) * cluster_size + offset'
    BY SMTT(30), <1>1, <2>1, <2>2, <2>6, <2>7, <2>8
  <2>11. cluster' >= 2 /\ cluster' < SB_FAT32_EOC_MIN
    <3>1. word % FAT_MASK \in Nat /\ SB_FAT32_EOC_MIN \in Nat
      BY <1>0, <2>1, WordType, SizesAssumption
    <3> QED
      BY <2>1, <3>1 DEF ChainEnds
  <2>12. cluster_size' = cluster_size
    BY Zenon, Frame
  <2>13. ArgumentsOK(req.offset, req.length)'
    BY Zenon, <2>6 DEF ArgumentsOK
  <2>14. pc' = "copy" => offset' < cluster_size'
    BY <1>1, <2>1, <2>12
  <2>15. req'.offset + Len(dst') = (n + 1) * cluster_size' + offset'
    BY Zenon, <2>10, <2>12
  <2> QED
    BY Zenon, <1>3, <1>7, <2>5, <2>6, <2>9, <2>11, <2>13, <2>14, <2>15 DEF Reading
<1> QED
  BY Zenon, <1>2, <1>3, <1>4, <1>5, <1>6, <1>7 DEF FatInv, EntryExact

\* The loop that skips the clusters before the offset.
LEMMA FileSkipInv ==
  ASSUME FatInv, NEW device_ok, FileSkip(device_ok)
  PROVE  FatInv'
<1>1. /\ pc = "skip" /\ offset >= cluster_size
      /\ UNCHANGED <<disk, fs, mounted, req, entry, dst>>
  BY Zenon DEF FileSkip
<1>2. Reading
  BY Zenon, <1>1 DEF FatInv
<1>3. CASE /\ failed' = WordInSector(cluster) /\ Return("fail")
           /\ UNCHANGED <<cluster, offset, remaining>>
  BY Zenon, <1>1, <1>2, <1>3, FollowFile DEF Return
<1>4. ASSUME NEW word \in FatWord(cluster), failed' = failed,
             \/ /\ ChainEnds(word % FAT_MASK) /\ Return("fail")
                /\ UNCHANGED <<cluster, offset, remaining>>
             \/ /\ ~ ChainEnds(word % FAT_MASK) /\ cluster' = word % FAT_MASK
                /\ offset' = OffsetInNext /\ UNCHANGED <<remaining, pc, result>>
      PROVE  FatInv'
  BY Zenon, <1>1, <1>2, <1>4, FollowFile DEF Return, OffsetInNext
<1> QED
  BY Zenon, <1>3, <1>4 DEF FileSkip, Follow

\* The lookup at the end of a cluster.
LEMMA FileFollowInv ==
  ASSUME FatInv, NEW device_ok, FileFollow(device_ok)
  PROVE  FatInv'
<1>1. /\ pc = "follow" /\ UNCHANGED <<disk, fs, mounted, req, entry, dst>>
  BY Zenon DEF FileFollow
<1>2. Reading /\ offset = cluster_size /\ cluster_size \in Nat
  BY Zenon, <1>1, FsFacts DEF FatInv, Reading
<1>3. offset >= cluster_size /\ offset - cluster_size = 0
  BY <1>2
<1>4. CASE /\ failed' = WordInSector(cluster) /\ Return("fail")
           /\ UNCHANGED <<cluster, offset, remaining>>
  BY Zenon, <1>1, <1>2, <1>3, <1>4, FollowFile DEF Return
<1>5. ASSUME NEW word \in FatWord(cluster), failed' = failed,
             \/ /\ ChainEnds(word % FAT_MASK) /\ Return("fail")
                /\ UNCHANGED <<cluster, offset, remaining>>
             \/ /\ ~ ChainEnds(word % FAT_MASK) /\ cluster' = word % FAT_MASK
                /\ offset' = OffsetAfterFollow /\ pc' = "copy" /\ UNCHANGED <<remaining, result>>
      PROVE  FatInv'
  BY Zenon, <1>1, <1>2, <1>3, <1>5, FollowFile DEF Return, OffsetAfterFollow
<1> QED
  BY Zenon, <1>4, <1>5 DEF FileFollow, Follow

\* The skipping is over.
LEMMA FileSkippedInv ==
  ASSUME FatInv, FileSkipped
  PROVE  FatInv'
<1>1. /\ pc = "skip" /\ offset < cluster_size /\ pc' = "copy"
      /\ UNCHANGED <<disk, fs, mounted, result, req, entry, cluster, offset, remaining, dst, failed>>
  BY Zenon DEF FileSkipped, callVars
<1>2. FatType /\ ReadExact /\ Known /\ Reading /\ req.call = "file"
  BY Zenon, <1>1 DEF FatInv, Reading
<1>3. FatType' /\ Known' /\ ReadExact'
  BY Zenon, <1>1, <1>2, Frame, ReadKept DEF FatType
<1>4. Reading'
  <2>1. PICK n \in 0 .. U32 - 1 : /\ req.offset + Len(dst) = n * cluster_size + offset
                                  /\ OnChain(entry.first_cluster, n)
    BY Zenon, <1>2 DEF Reading
  <2>2. cluster_size' = cluster_size
    BY Zenon, <1>1, Frame
  <2>3. OnChain(entry.first_cluster, n)'
    BY Zenon, <1>1, <2>1 DEF OnChain, ChainOf, TableEntries
  <2>4. ArgumentsOK(req.offset, req.length)'
    BY Zenon, <1>1, <1>2 DEF Reading, ArgumentsOK
  <2>5. req'.offset + Len(dst') = n * cluster_size' + offset'
    BY Zenon, <1>1, <2>1, <2>2
  <2>6. /\ req'.call = "file" /\ remaining' > 0 /\ Len(dst') + remaining' = req'.length
        /\ cluster' >= 2 /\ (cluster' = entry'.first_cluster \/ cluster' < SB_FAT32_EOC_MIN)
        /\ offset' < cluster_size'
    BY Zenon, <1>1, <1>2, <2>2 DEF Reading
  <2> QED
    BY Zenon, <1>1, <2>1, <2>3, <2>4, <2>5, <2>6 DEF Reading
<1> QED
  BY Zenon, <1>1, <1>2, <1>3, <1>4 DEF FatInv, FailsForAReason, EntryExact

\* The sector sb_fat32_read_file reads next.
SectorHere == (cluster_to_lba(cluster) + offset \div fs.bytes_per_sector) % U32

\* How many bytes of it are copied.
LEMMA CopyLength ==
  ASSUME FatType, Known, remaining > 0
  PROVE  /\ copy_len \in 1 .. remaining
         /\ offset % SB_FAT32_SECTOR_BYTES \in Nat
         /\ (offset % SB_FAT32_SECTOR_BYTES) + copy_len <= SB_FAT32_SECTOR_BYTES
<1>1. /\ fs.bytes_per_sector = SB_FAT32_SECTOR_BYTES /\ SB_FAT32_SECTOR_BYTES \in Nat \ {0}
      /\ offset \in Nat /\ remaining \in Nat
  BY Zenon, FsFacts, SizesAssumption DEF FatType
<1>2. PICK r \in 0 .. SB_FAT32_SECTOR_BYTES - 1 : r = offset % SB_FAT32_SECTOR_BYTES
  BY <1>1
<1>3. copy_len = IF SB_FAT32_SECTOR_BYTES - r > remaining THEN remaining
                 ELSE SB_FAT32_SECTOR_BYTES - r
  BY Zenon, <1>1, <1>2 DEF copy_len
<1> QED
  BY <1>1, <1>2, <1>3

\* The j-th byte copied from now on is byte k of the file.
NextByte(j, k) == k = req.offset + Len(dst) + j

\* Every byte that is copied is the byte of the chain it stands for.
LEMMA CopiedByte ==
  ASSUME FatType, Known, Reading, pc = "copy", NEW j \in Nat, j < copy_len, NEW k \in Nat,
         NextByte(j, k)
  PROVE  /\ SectorHere \in Nat
         /\ offset + j < cluster_size
         /\ NoWrap => SectorHere >= fs.first_data_sector
         /\ LET chain == ChainOf(entry.first_cluster) IN
            chain[k \div cluster_size] # 0 /\ ByteOf(chain, k)[1] < U32 =>
              <<SectorHere, (offset % fs.bytes_per_sector) + j>> = ByteOf(chain, k)
<1>1. PICK b \in Nat \ {0}, s \in Nat \ {0}, a \in Nat :
        /\ b = SB_FAT32_SECTOR_BYTES /\ b = fs.bytes_per_sector
        /\ s = fs.sectors_per_cluster /\ s = disk.boot.sectors_per_cluster
        /\ a = fs.first_data_sector /\ a = DataStart(disk.boot)
        /\ cluster_size = b * s
  BY Zenon, FsFacts, SizesAssumption
<1>2. PICK n \in Nat : /\ req.offset + Len(dst) = n * cluster_size + offset
                       /\ OnChain(entry.first_cluster, n)
  <2>1. 0 .. U32 - 1 \subseteq Nat
    OBVIOUS
  <2>2. PICK n \in 0 .. U32 - 1 : /\ req.offset + Len(dst) = n * cluster_size + offset
                                  /\ OnChain(entry.first_cluster, n)
    BY Zenon DEF Reading
  <2> QED
    BY Zenon, <2>1, <2>2
<1>3. PICK c \in Nat, off \in Nat : /\ c = cluster /\ off = offset /\ c >= 2 /\ off < b * s
                                    /\ c = entry.first_cluster \/ c < SB_FAT32_EOC_MIN
  BY Zenon, <1>1 DEF FatType, Reading
<1>4. (off % b) + j < b
  <2>1. /\ copy_len \in Nat /\ off % b \in Nat /\ (off % b) + copy_len <= b
    BY SMTT(30), <1>1, <1>3, CopyLength DEF FatType, Reading
  <2> QED
    BY SMTT(30), <2>1
<1>5. PICK m \in Nat \ {0} : /\ m = cluster_size /\ m = b * s /\ off < m
                             /\ k = n * m + off + j
  <2>1. b * s \in Nat \ {0}
    OBVIOUS
  <2>2. PICK m \in Nat \ {0} : m = b * s
    BY Zenon, <2>1
  <2>3. n * m \in Nat
    OBVIOUS
  <2> QED
    BY Zenon, <1>1, <1>2, <1>3, <1>4, <2>2, <2>3 DEF FatType, NextByte
<1>6. /\ off \div b \in 0 .. s - 1
      /\ off + j < m
      /\ k \div m = n
      /\ (k % m) \div b = off \div b
      /\ k % b = (off % b) + j
  <2>1. Place(b, s, m, n, off, j, k)
    BY Zenon, <1>4, <1>5 DEF Place
  <2> QED
    BY <2>1, BytesOfSector
<1>7. PICK q \in 0 .. s - 1 : q = off \div b
  BY Zenon, <1>6
<1>8. SectorHere = (((a + (c - 2) * s) % U32) + q) % U32
  BY Zenon, <1>1, <1>3, <1>7 DEF SectorHere, cluster_to_lba
<1>9. /\ (((a + (c - 2) * s) % U32) + q) % U32 \in Nat
      /\ a <= a + (c - 2) * s + q
      /\ a + (c - 2) * s + q < U32 => (((a + (c - 2) * s) % U32) + q) % U32 = a + (c - 2) * s + q
      /\ \A d \in Nat : c <= d /\ a + (d - 1) * s <= U32 => a + (c - 2) * s + q < U32
  <2>1. c >= 2
    BY Zenon, <1>3
  <2> QED
    BY Zenon, <2>1, SectorNumber
<1>10. NoWrap => SectorHere >= a
  <2> SUFFICES ASSUME NoWrap PROVE SectorHere >= a
    OBVIOUS
  <2>1. PICK d \in Nat : c <= d /\ a + (d - 1) * s <= U32
    <3>1. CASE c = entry.first_cluster
      BY <1>1, <3>1 DEF NoWrap
    <3>2. CASE c < SB_FAT32_EOC_MIN
      <4>1. SB_FAT32_EOC_MIN - 1 \in Nat /\ c <= SB_FAT32_EOC_MIN - 1
        BY <3>2, SizesAssumption
      <4> QED
        BY Zenon, <1>1, <4>1 DEF NoWrap
    <3> QED
      BY Zenon, <1>3, <3>1, <3>2
  <2> QED
    BY Zenon, <1>8, <1>9, <2>1
<1>11. ASSUME NEW chain, chain = ChainOf(entry.first_cluster),
              chain[k \div cluster_size] # 0, ByteOf(chain, k)[1] < U32
       PROVE  <<SectorHere, (offset % fs.bytes_per_sector) + j>> = ByteOf(chain, k)
  <2>1. chain[k \div cluster_size] = c
    BY Zenon, <1>2, <1>3, <1>5, <1>6, <1>11 DEF OnChain
  <2>2. ByteOf(chain, k) = <<a + (c - 2) * s + q, (off % b) + j>>
    BY Zenon, <1>1, <1>5, <1>6, <1>7, <2>1 DEF ByteOf, DataStart
  <2>3. ByteOf(chain, k)[1] = a + (c - 2) * s + q
    BY <2>2
  <2>4. SectorHere = a + (c - 2) * s + q
    BY Zenon, <1>8, <1>9, <1>11, <2>3
  <2>5. offset % fs.bytes_per_sector = off % b
    BY Zenon, <1>1, <1>3
  <2> QED
    BY Zenon, <2>2, <2>4, <2>5
<1> QED
  BY Zenon, <1>1, <1>3, <1>5, <1>6, <1>8, <1>9, <1>10, <1>11

\* The sequence u is t behind s.
Joined(s, t, u) ==
  /\ Len(u) = Len(s) + Len(t)
  /\ \A i \in 1 .. Len(s) : u[i] = s[i]
  /\ \A j \in Nat : j < Len(t) => u[Len(s) + j + 1] = t[j + 1]

\* Concatenation puts a sequence behind another.
LEMMA Concatenated ==
  ASSUME NEW S, NEW s \in Seq(S), NEW t \in Seq(S)
  PROVE  s \o t \in Seq(S) /\ Joined(s, t, s \o t)
<1>1. s \o t \in Seq(S) /\ Len(s \o t) = Len(s) + Len(t)
  OBVIOUS
<1>2. ASSUME NEW i \in 1 .. Len(s) + Len(t)
      PROVE  (s \o t)[i] = IF i <= Len(s) THEN s[i] ELSE t[i - Len(s)]
  OBVIOUS
<1>3. Len(s) \in Nat /\ Len(t) \in Nat
  OBVIOUS
<1>4. ASSUME NEW i \in 1 .. Len(s) PROVE (s \o t)[i] = s[i]
  <2>1. i \in 1 .. Len(s) + Len(t) /\ i <= Len(s)
    BY <1>3
  <2> QED
    BY Zenon, <1>2, <2>1
<1>5. ASSUME NEW j \in Nat, j < Len(t) PROVE (s \o t)[Len(s) + j + 1] = t[j + 1]
  <2>1. PICK d \in Nat : d = Len(s)
    BY Zenon, <1>3
  <2>2. PICK i \in 1 .. d + Len(t) : i = d + j + 1 /\ ~ (i <= d) /\ i - d = j + 1
    BY <1>3, <1>5
  <2>3. (s \o t)[i] = t[i - d]
    BY Zenon, <1>2, <2>1, <2>2
  <2> QED
    BY Zenon, <2>1, <2>2, <2>3
<1> QED
  BY Zenon, <1>1, <1>4, <1>5 DEF Joined

\* The copying loop.
LEMMA FileCopyInv ==
  ASSUME FatInv, NEW device_ok, FileCopy(device_ok)
  PROVE  FatInv'
<1>0. /\ pc = "copy" /\ UNCHANGED <<disk, fs, mounted, req, entry, cluster>>
  BY Zenon DEF FileCopy
<1>1. FatType /\ ReadExact /\ Known /\ Reading /\ req.call = "file"
  BY Zenon, <1>0 DEF FatInv, Reading
<1>2. Known' /\ req'.call = "file" /\ cluster_size' = cluster_size
  BY Zenon, <1>0, <1>1, Frame
<1>3. CASE /\ failed' = TRUE /\ Return("fail") /\ UNCHANGED <<dst, remaining, offset>>
  <2>1. FatType' /\ ReadExact'
    BY Zenon, <1>0, <1>1, <1>3, ReadKept DEF FatType, Return
  <2> QED
    BY Zenon, <1>2, <1>3, <2>1 DEF FatInv, FailsForAReason, EntryExact, Return
<1>4. CASE /\ dst' = dst \o [i \in 1 .. copy_len |-> <<SectorHere, (offset % fs.bytes_per_sector) + i - 1>>]
           /\ remaining' = remaining - copy_len
           /\ offset' = offset + copy_len
           /\ IF NeedsNext(remaining - copy_len, offset + copy_len)
              THEN pc' = "follow" /\ UNCHANGED result
              ELSE IF remaining - copy_len > 0 THEN UNCHANGED <<pc, result>> ELSE Return("ok")
  <2>1. PICK l \in Nat \ {0} : l = copy_len /\ l <= remaining
    BY <1>1, CopyLength DEF FatType, Reading
  <2>2. PICK d \in Nat, x \in Nat : d = Len(dst) /\ x = req.offset + Len(dst)
    BY <1>1, CallFields DEF FatType
  <2>3. /\ remaining \in Nat /\ offset \in Nat /\ d + remaining = req.length
        /\ offset < cluster_size /\ cluster_size \in Nat
        /\ fs.bytes_per_sector = SB_FAT32_SECTOR_BYTES /\ fs.first_data_sector \in Nat
        /\ req.offset \in Nat
    <3>1. cluster_size \in Nat /\ fs.bytes_per_sector = SB_FAT32_SECTOR_BYTES
          /\ fs.first_data_sector \in Nat
      BY Zenon, <1>1, FsFacts
    <3>2. req.offset \in 0 .. U32 - 1
      BY Zenon, <1>1, CallFields DEF FatType
    <3>3. d + remaining = req.length /\ offset < cluster_size
      BY Zenon, <1>0, <1>1, <2>2 DEF Reading
    <3> QED
      BY <1>1, <3>1, <3>2, <3>3 DEF FatType
  <2>4. \A j \in Nat : j < l => NextByte(j, x + j) /\ x + j \in Nat
    BY SMTT(30), <2>2, <2>3 DEF NextByte
  <2>5. \A j \in Nat : j < l =>
          /\ SectorHere \in Nat /\ offset + j < cluster_size
          /\ NoWrap => SectorHere >= fs.first_data_sector
          /\ LET chain == ChainOf(entry.first_cluster) IN
             chain[(x + j) \div cluster_size] # 0 /\ ByteOf(chain, x + j)[1] < U32 =>
               <<SectorHere, (offset % fs.bytes_per_sector) + j>> = ByteOf(chain, x + j)
    BY Zenon, <1>0, <1>1, <2>1, <2>4, CopiedByte
  <2>6. SectorHere \in Nat /\ offset + l <= cluster_size
    <3>1. l - 1 \in Nat /\ l - 1 < l
      OBVIOUS
    <3>2. SectorHere \in Nat /\ offset + (l - 1) < cluster_size
      BY Zenon, <2>5, <3>1
    <3> QED
      BY <2>3, <3>2
  <2>7. PICK z \in Nat, r \in Nat : z = SectorHere /\ r = offset % fs.bytes_per_sector
    BY Zenon, <1>1, <2>3, <2>6, CopyLength DEF Reading
  <2> DEFINE new == [i \in 1 .. l |-> <<z, r + i - 1>>]
  <2>8. dst' = dst \o new /\ new \in Seq(Nat \X Nat) /\ Len(new) = l
    BY SMTT(20), <1>4, <2>1, <2>7
  <2>9. /\ dst' \in Seq(Nat \X Nat) /\ Len(dst') = d + l
        /\ \A i \in 1 .. d : dst'[i] = dst[i]
        /\ \A j \in Nat : j < l => dst'[d + j + 1] = <<z, r + j>>
    <3>1. PICK old \in Seq(Nat \X Nat) : old = dst /\ Len(old) = d
      BY Zenon, <1>1, <2>2 DEF FatType
    <3>2. PICK run \in Seq(Nat \X Nat) : run = new /\ Len(run) = l
      BY Zenon, <2>8
    <3>3. dst' = old \o run
      BY Zenon, <2>8, <3>1, <3>2
    <3>4. /\ old \o run \in Seq(Nat \X Nat) /\ Len(old \o run) = d + l
          /\ \A i \in 1 .. d : (old \o run)[i] = old[i]
          /\ \A j \in Nat : j < l => (old \o run)[d + j + 1] = run[j + 1]
      <4>1. old \o run \in Seq(Nat \X Nat) /\ Joined(old, run, old \o run)
        BY Zenon, Concatenated
      <4> QED
        BY Zenon, <3>1, <3>2, <4>1 DEF Joined
    <3>5. ASSUME NEW j \in Nat, j < l PROVE run[j + 1] = <<z, r + j>>
      <4>1. j + 1 \in 1 .. l /\ r + (j + 1) - 1 = r + j
        BY <3>5
      <4> QED
        BY Zenon, <3>2, <4>1
    <3> HIDE DEF new
    <3> QED
      BY Zenon, <3>1, <3>3, <3>4, <3>5
  <2> HIDE DEF new
  <2>10. pc' \in {"idle", "copy", "follow"}
    BY Zenon, <1>0, <1>4 DEF Return
  <2>11. FatType'
    <3>1. remaining' \in Nat /\ offset' \in Nat
      BY <1>4, <2>1, <2>3
    <3>2. dst' \in Seq(Nat \X Nat)
      BY Zenon, <2>9
    <3> QED
      BY Zenon, <1>0, <1>1, <2>10, <3>1, <3>2 DEF FatType
  <2>12. ReadExact'
    <3>1. /\ Len(dst') <= req.length
          /\ pc' = "idle" => Len(dst') = req.length
      <4>1. PICK n \in Nat : n = remaining
        BY Zenon, <2>3
      <4>2. pc' = "idle" => ~ (n - l > 0)
        BY Zenon, <1>0, <1>4, <2>1, <4>1 DEF NeedsNext, Return
      <4>3. l <= n /\ Len(dst') = d + l /\ req.length = d + n
        BY Zenon, <2>1, <2>3, <2>9, <4>1
      <4> QED
        BY <4>2, <4>3
    <3>2. PICK f, c : c = entry.first_cluster /\ f = ChainOf(c)
      OBVIOUS
    <3>3. ASSUME NEW i \in 1 .. d + l
          PROVE  /\ NoWrap => dst'[i][1] >= fs.first_data_sector
                 /\ f[(req.offset + i - 1) \div cluster_size] # 0
                    /\ ByteOf(f, req.offset + i - 1)[1] < U32
                      => dst'[i] = ByteOf(f, req.offset + i - 1)
      <4>1. CASE i <= d
        <5>1. i \in 1 .. Len(dst) /\ dst'[i] = dst[i]
          BY <2>2, <2>9, <4>1
        <5> QED
          BY Zenon, <1>1, <3>2, <5>1 DEF ReadExact
      <4>2. CASE ~ (i <= d)
        <5>1. PICK j \in Nat : i = d + j + 1 /\ j < l
          <6>1. i - d - 1 \in Nat /\ i = d + (i - d - 1) + 1 /\ i - d - 1 < l
            BY <4>2
          <6> QED
            BY Zenon, <6>1
        <5>2. dst'[i] = <<z, r + j>> /\ dst'[i][1] = z
          <6>1. dst'[d + j + 1] = <<z, r + j>>
            BY Zenon, <2>9, <5>1
          <6> QED
            BY <5>1, <6>1
        <5>3. req.offset + i - 1 = x + j
          <6>1. PICK o \in Nat : o = req.offset /\ x = o + d
            BY Zenon, <2>2, <2>3
          <6>2. o + i - 1 = x + j
            BY <5>1, <6>1
          <6> QED
            BY Zenon, <6>1, <6>2
        <5>4. /\ NoWrap => z >= fs.first_data_sector
              /\ f[(x + j) \div cluster_size] # 0 /\ ByteOf(f, x + j)[1] < U32 =>
                   <<z, r + j>> = ByteOf(f, x + j)
          BY Zenon, <2>5, <2>7, <3>2, <5>1
        <5> QED
          BY Zenon, <5>2, <5>3, <5>4
      <4> QED
        BY Zenon, <4>1, <4>2
    <3>4. NoWrap' => NoWrap
      BY Zenon, <1>0 DEF NoWrap
    <3>5. /\ ChainOf(entry.first_cluster)' = f
          /\ \A k : ByteOf(f, k)' = ByteOf(f, k)
      BY Zenon, <1>0, <3>2, Frame DEF ChainOf
    <3>6. Len(dst') = d + l /\ req' = req /\ fs' = fs
      BY Zenon, <1>0, <2>9
    <3> QED
      BY Zenon, <1>2, <3>1, <3>3, <3>4, <3>5, <3>6 DEF ReadExact
  <2>13. ASSUME pc' \in {"copy", "follow"} PROVE Reading'
    <3>1. /\ remaining' > 0
          /\ pc' = "copy" => offset' < cluster_size
          /\ pc' = "follow" => offset' = cluster_size
      BY SMTT(30), <1>0, <1>4, <2>1, <2>3, <2>6, <2>13 DEF NeedsNext, Return
    <3>2. PICK n \in 0 .. U32 - 1 : /\ req.offset + Len(dst) = n * cluster_size + offset
                                    /\ OnChain(entry.first_cluster, n)
      BY Zenon, <1>1 DEF Reading
    <3>3. OnChain(entry.first_cluster, n)'
      BY Zenon, <1>0, <3>2 DEF OnChain, ChainOf, TableEntries
    <3>4. req'.offset + Len(dst') = n * cluster_size' + offset'
      <4>1. PICK m \in Nat, off \in Nat, o \in Nat : /\ m = cluster_size /\ off = offset
                                                     /\ o = req.offset
        BY Zenon, <2>3
      <4>2. o + d = n * m + off /\ n \in Nat
        BY <2>2, <3>2, <4>1, SizesAssumption
      <4>3. n * m \in Nat
        BY <4>2
      <4>4. o + (d + l) = n * m + (off + l)
        BY <4>2, <4>3
      <4>5. req'.offset = o /\ Len(dst') = d + l /\ cluster_size' = m /\ offset' = off + l
        BY Zenon, <1>0, <1>2, <1>4, <2>1, <2>9, <4>1
      <4> QED
        BY Zenon, <4>4, <4>5
    <3>5. Len(dst') + remaining' = req'.length
      <4>1. PICK y \in Nat : y = remaining
        BY Zenon, <2>3
      <4>2. Len(dst') = d + l /\ remaining' = y - l /\ req'.length = d + y
        BY Zenon, <1>0, <1>4, <2>1, <2>3, <2>9, <4>1
      <4>3. (d + l) + (y - l) = d + y
        OBVIOUS
      <4> QED
        BY Zenon, <4>2, <4>3
    <3>6. /\ cluster' >= 2 /\ (cluster' = entry'.first_cluster \/ cluster' < SB_FAT32_EOC_MIN)
          /\ ArgumentsOK(req.offset, req.length)'
      BY Zenon, <1>0, <1>1 DEF Reading, ArgumentsOK
    <3> QED
      BY Zenon, <1>2, <3>1, <3>2, <3>3, <3>4, <3>5, <3>6 DEF Reading
  <2>14. pc' = "idle" => result' = "ok"
    BY Zenon, <1>0, <1>4 DEF Return
  <2> QED
    BY Zenon, <1>2, <2>10, <2>11, <2>12, <2>13, <2>14 DEF FatInv, FailsForAReason, EntryExact
<1> QED
  BY Zenon, <1>3, <1>4 DEF FileCopy, SectorHere

\* The loop of sb_fat32_read_root_entry over whole clusters.
LEMMA RootWalkInv ==
  ASSUME FatInv, NEW device_ok, RootWalk(device_ok)
  PROVE  FatInv'
<1>1. /\ pc = "walk" /\ remaining >= entries_per_cluster
      /\ UNCHANGED <<disk, fs, mounted, req, entry, dst>>
  BY Zenon DEF RootWalk, BeyondCluster
<1>2. FatType /\ Known /\ Walking /\ req.call = "root"
  BY Zenon, <1>1 DEF FatInv, Walking
<1>3. Known' /\ req'.call = "root"
  BY Zenon, <1>1, <1>2, Frame
<1>4. CASE pc' = "idle" /\ result' = "fail" /\ UNCHANGED <<cluster, offset, remaining>>
  <2>1. FatType'
    BY Zenon, <1>1, <1>2, <1>4 DEF FatType
  <2> QED
    BY Zenon, <1>3, <1>4, <2>1 DEF FatInv, ReadExact, FailsForAReason, EntryExact
<1>5. ASSUME NEW word \in FatWord(cluster), ~ ChainEnds(word % FAT_MASK),
             cluster' = word % FAT_MASK, remaining' = remaining - entries_per_cluster,
             UNCHANGED <<offset, pc>>
      PROVE  FatInv'
  <2>1. PICK m \in Nat \ {0}, y \in Nat, z \in Nat :
          /\ m = entries_per_cluster /\ y = remaining /\ z = req.index /\ z < U32
    <3>1. entries_per_cluster \in Nat \ {0}
      BY Zenon, <1>2, FsFacts
    <3>2. req.index \in 0 .. U32 - 1
      BY Zenon, <1>2, CallFields DEF FatType
    <3>3. remaining \in Nat /\ req.index \in Nat /\ req.index < U32
      BY SMTT(30), <1>2, <3>2, SizesAssumption DEF FatType
    <3> QED
      BY Zenon, <3>1, <3>3
  <2>2. PICK n \in 0 .. U32 - 1 : /\ z = n * m + y
                                  /\ OnChain(disk.boot.root_cluster, n)
    BY Zenon, <1>2, <2>1 DEF Walking
  <2>3. PICK c : c = disk.boot.root_cluster
    OBVIOUS
  <2>4. ChainOf(c)[n + 1] \in {0, cluster'}
    BY Zenon, <1>2, <1>5, <2>2, <2>3, FollowChain
  <2>5. OnChain(disk.boot.root_cluster, n + 1)'
    BY Zenon, <1>1, <2>3, <2>4, Frame DEF OnChain
  <2>6. y >= m /\ U32 \in Nat \ {0}
    BY Zenon, <1>1, <2>1, SizesAssumption
  <2>7. n * m \in Nat /\ n * m >= n /\ (n + 1) * m = n * m + m
    BY <2>6
  <2>8. n + 1 \in 0 .. U32 - 1 /\ z = (n + 1) * m + (y - m) /\ y - m \in Nat
    BY SMTT(30), <2>1, <2>2, <2>6, <2>7
  <2>9. cluster' \in Nat /\ cluster' >= 2
    <3>1. word % FAT_MASK \in Nat
      BY Zenon, <1>2, <1>5, WordType
    <3> QED
      BY <1>5, <3>1 DEF ChainEnds
  <2>10. req'.index = (n + 1) * entries_per_cluster' + remaining'
    BY Zenon, <1>1, <1>5, <2>1, <2>8, Frame
  <2>11. Walking'
    BY Zenon, <1>3, <2>5, <2>8, <2>9, <2>10 DEF Walking
  <2>12. FatType'
    BY Zenon, <1>1, <1>2, <1>5, <2>1, <2>8, <2>9 DEF FatType
  <2> QED
    BY Zenon, <1>1, <1>3, <1>5, <2>11, <2>12 DEF FatInv, ReadExact, FailsForAReason, EntryExact
<1> QED
  BY Zenon, <1>4, <1>5 DEF RootWalk, Follow, Return

\* b bytes hold e entries of w bytes, and entry number y begins at byte x.
EntryAt(b, e, w, y, x) == /\ b \in Nat \ {0} /\ e \in Nat \ {0} /\ w \in Nat \ {0} /\ y \in Nat
                          /\ b = e * w /\ x = y * w

\* Where an entry is among the entries, and where among the bytes.
LEMMA EntryPlace ==
  ASSUME NEW b, NEW e, NEW w, NEW y, NEW x, EntryAt(b, e, w, y, x)
  PROVE  x \div b = y \div e /\ (x % b) \div w = y % e
<1>0. /\ b \in Nat \ {0} /\ e \in Nat \ {0} /\ w \in Nat \ {0} /\ y \in Nat
      /\ b = e * w /\ x = y * w
  BY Zenon DEF EntryAt
<1>1. PICK q \in Nat, t \in 0 .. e - 1 : y = q * e + t /\ y \div e = q /\ y % e = t
  <2>1. y \div e \in Nat /\ y % e \in 0 .. e - 1 /\ y = (y \div e) * e + (y % e)
    BY Zenon, <1>0, SmallQuotient
  <2> QED
    BY Zenon, <2>1
<1>2. PICK u \in Nat : u = t * w
  <2>1. \A i, j \in Nat : i * j \in Nat
    OBVIOUS
  <2> QED
    BY <1>0, <2>1
<1>3. u \in 0 .. b - 1 /\ u \in Nat
  <2>1. (t + 1) * w <= e * w
    BY <1>0
  <2>2. (t + 1) * w = t * w + w
    BY <1>0
  <2> QED
    BY SMTT(30), <1>0, <1>2, <2>1, <2>2
<1>4. y * w = q * b + u
  <2>1. y * w = (q * e) * w + t * w
    BY <1>0, <1>1
  <2>2. (q * e) * w = q * (e * w)
    BY <1>0
  <2> QED
    BY Zenon, <1>0, <1>2, <2>1, <2>2
<1>5. (q * b + u) \div b = q /\ (q * b + u) % b = u
  BY Zenon, <1>0, <1>3, Divides
<1>6. u \div w = t
  <2>1. 0 \in 0 .. w - 1 /\ t * w + 0 = u /\ t \in Nat
    BY <1>0, <1>2
  <2>2. (t * w + 0) \div w = t
    BY Zenon, <1>0, <2>1, Divides
  <2> QED
    BY Zenon, <2>1, <2>2
<1> QED
  BY Zenon, <1>0, <1>1, <1>4, <1>5, <1>6

\* The entry sb_fat32_read_root_entry reads is the one at its place in the chain.
LEMMA EntryHere ==
  ASSUME FatType, Known, Walking, remaining < entries_per_cluster,
         NEW lba, lba = (cluster_to_lba(cluster) + remaining \div entries_per_sector) % U32,
         NEW chain, chain = ChainOf(disk.boot.root_cluster),
         NEW place, place = ByteOf(chain, req.index * SB_FAT32_ENTRY_SIZE),
         chain[req.index \div entries_per_cluster] # 0, place[1] < U32
  PROVE  place[1] = lba /\ place[2] \div SB_FAT32_ENTRY_SIZE = remaining % entries_per_sector
<1>1. PICK b \in Nat \ {0}, s \in Nat \ {0}, a \in Nat, e \in Nat \ {0}, w \in Nat \ {0} :
        /\ b = SB_FAT32_SECTOR_BYTES
        /\ s = fs.sectors_per_cluster /\ s = disk.boot.sectors_per_cluster
        /\ a = fs.first_data_sector /\ a = DataStart(disk.boot)
        /\ cluster_size = b * s
        /\ e = entries_per_sector /\ w = SB_FAT32_ENTRY_SIZE /\ b = e * w
        /\ entries_per_cluster = e * s
  BY Zenon, FsFacts, SizesAssumption
<1>2. PICK y \in Nat, z \in Nat, c \in Nat : y = remaining /\ z = req.index /\ c = cluster /\ c >= 2
  <2>1. req.index \in 0 .. U32 - 1
    BY Zenon, CallFields DEF FatType, Walking
  <2>2. remaining \in Nat /\ req.index \in Nat /\ cluster \in Nat /\ cluster >= 2
    BY <2>1, SizesAssumption DEF FatType, Walking
  <2> QED
    BY Zenon, <2>2
<1>3. PICK p \in Nat \ {0}, m \in Nat \ {0} : p = e * s /\ m = b * s
  <2>1. \A i, j \in Nat \ {0} : i * j \in Nat \ {0}
    BY SMTT(30)
  <2> QED
    BY Zenon, <2>1
<1>4. PICK n \in Nat : z = n * p + y /\ OnChain(disk.boot.root_cluster, n) /\ y < p
  BY <1>1, <1>2, <1>3, SizesAssumption DEF Walking
<1>5. PICK off \in Nat, k \in Nat : off = y * w /\ k = z * w
  <2>1. \A i, j \in Nat : i * j \in Nat
    BY SMTT(30)
  <2> QED
    BY Zenon, <2>1
<1>6. m = p * w
  BY SMTT(30), <1>1, <1>3
<1>7. k = n * m + off + 0 /\ off < m
  <2>1. k = (n * p) * w + y * w
    BY SMTT(30), <1>4, <1>5
  <2>2. (n * p) * w = n * (p * w)
    BY SMTT(30)
  <2>3. (y + 1) * w <= p * w
    BY SMTT(30), <1>4
  <2>4. (y + 1) * w = y * w + w
    BY SMTT(30)
  <2> QED
    BY SMTT(20), <1>5, <1>6, <2>1, <2>2, <2>3, <2>4
<1>8. off \div b = y \div e /\ (off % b) \div w = y % e /\ off % b \in 0 .. b - 1
  <2>1. EntryAt(b, e, w, y, off)
    BY Zenon, <1>1, <1>5 DEF EntryAt
  <2>2. off % b \in 0 .. b - 1
    BY SMTT(30)
  <2> QED
    BY <2>1, <2>2, EntryPlace
<1>9. Place(b, s, m, n, off, 0, k)
  BY SMTT(30), <1>3, <1>7, <1>8 DEF Place
<1>10. /\ off \div b \in 0 .. s - 1
       /\ k \div m = n
       /\ (k % m) \div b = off \div b
       /\ k % b = (off % b) + 0
  BY <1>9, BytesOfSector
<1>11. z \div p = n
  <2>1. y \in 0 .. p - 1
    BY <1>4
  <2>2. (n * p + y) \div p = n
    BY Zenon, <2>1, Divides
  <2> QED
    BY Zenon, <1>4, <2>2
<1>12. chain[n] = c
  BY Zenon, <1>1, <1>2, <1>3, <1>4, <1>11 DEF OnChain
<1>13. PICK q \in 0 .. s - 1 : q = y \div e
  BY Zenon, <1>8, <1>10
<1>14. place = <<a + (c - 2) * s + q, off % b>>
  <2>1. place = ByteOf(chain, k) /\ cluster_size = m
    BY Zenon, <1>1, <1>2, <1>3, <1>5
  <2>2. ByteOf(chain, k) = <<a + (c - 2) * s + q, k % b>>
    BY Zenon, <1>1, <1>8, <1>10, <1>12, <1>13, <2>1 DEF ByteOf, DataStart
  <2>3. k % b = off % b
    BY <1>8, <1>10
  <2> QED
    BY Zenon, <2>1, <2>2, <2>3
<1>15. lba = (((a + (c - 2) * s) % U32) + q) % U32
  BY Zenon, <1>1, <1>2, <1>13 DEF cluster_to_lba
<1>16. /\ (((a + (c - 2) * s) % U32) + q) % U32 \in Nat
       /\ a <= a + (c - 2) * s + q
       /\ a + (c - 2) * s + q < U32 =>
            (((a + (c - 2) * s) % U32) + q) % U32 = a + (c - 2) * s + q
       /\ \A d \in Nat : c <= d /\ a + (d - 1) * s <= U32 => a + (c - 2) * s + q < U32
  <2>1. c >= 2
    BY Zenon, <1>2
  <2> QED
    BY Zenon, <2>1, SectorNumber
<1>17. place[1] = a + (c - 2) * s + q /\ place[2] = off % b
  BY <1>14
<1>18. place[1] = lba
  BY Zenon, <1>15, <1>16, <1>17
<1>19. place[2] \div w = y % e
  BY Zenon, <1>8, <1>17
<1> QED
  BY Zenon, <1>1, <1>2, <1>18, <1>19

\* The end of sb_fat32_read_root_entry.
LEMMA RootReadInv ==
  ASSUME FatInv, NEW device_ok, RootRead(device_ok)
  PROVE  FatInv'
<1> DEFINE lba == (cluster_to_lba(cluster) + remaining \div entries_per_sector) % U32
           raw == IF lba \in DOMAIN disk.dir
                  THEN disk.dir[lba][remaining % entries_per_sector] ELSE Free
<1>1. /\ pc = "walk" /\ ~ (remaining >= entries_per_cluster) /\ pc' = "idle"
      /\ UNCHANGED <<disk, fs, mounted, req, cluster, offset, remaining, dst>>
      /\ \/ raw.kind = "file" /\ entry' = raw /\ result' = "ok"
         \/ entry' = entry /\ result' = "fail"
  BY Zenon DEF RootRead, BeyondCluster, Return
<1> HIDE DEF lba
<1>2. FatType /\ Known /\ Walking /\ req.call = "root"
  BY Zenon, <1>1 DEF FatInv, Walking
<1>3. Known' /\ req'.call = "root"
  BY Zenon, <1>1, <1>2, Frame
<1>4. CASE result' = "fail"
  <2>1. entry' = entry
    BY Zenon, <1>1, <1>4
  <2>2. FatType'
    BY Zenon, <1>1, <1>2, <2>1 DEF FatType
  <2> QED
    BY Zenon, <1>1, <1>3, <1>4, <2>2 DEF FatInv, ReadExact, FailsForAReason, EntryExact
<1> HIDE DEF raw
<1>5. CASE raw.kind = "file" /\ entry' = raw
  <2>1. lba \in DOMAIN disk.dir /\ raw = disk.dir[lba][remaining % entries_per_sector]
    BY Zenon, <1>5 DEF Free, raw
  <2>2. PICK e \in Nat \ {0} : /\ e = entries_per_sector
                               /\ e = SB_FAT32_SECTOR_BYTES \div SB_FAT32_ENTRY_SIZE
    <3>1. entries_per_sector \in Nat \ {0} /\ fs.bytes_per_sector = SB_FAT32_SECTOR_BYTES
      BY Zenon, <1>2, FsFacts
    <3> QED
      BY Zenon, <3>1 DEF entries_per_sector
  <2>3. remaining % e \in 0 .. e - 1
    BY <1>2 DEF FatType
  <2>4. disk.dir[lba] \in [0 .. e - 1 -> Files \cup {Free}]
    BY Zenon, <1>2, <2>1, <2>2, DisksAssumption DEF FatType
  <2>5. raw \in Files \cup {Free}
    BY Zenon, <2>1, <2>2, <2>3, <2>4
  <2>6. raw \in Files
    <3>1. Free.kind # "file"
      BY Zenon DEF Free
    <3> QED
      BY Zenon, <1>5, <2>5, <3>1
  <2>7. FatType'
    BY Zenon, <1>1, <1>2, <1>5, <2>6 DEF FatType
  <2>8. EntryExact'
    <3>1. PICK f, p, q, m : /\ f = ChainOf(disk.boot.root_cluster)
                            /\ p = ByteOf(f, req.index * SB_FAT32_ENTRY_SIZE)
                            /\ q = req.index /\ m = entries_per_cluster
      OBVIOUS
    <3>2. PICK c : c = disk.boot.root_cluster
      OBVIOUS
    <3>3. /\ ChainOf(disk.boot.root_cluster)' = f
          /\ ByteOf(f, req.index * SB_FAT32_ENTRY_SIZE)' = p
          /\ entries_per_cluster' = m /\ req'.index = q
      BY Zenon, <1>1, <3>1, <3>2, Frame
    <3>4. f[q \div m] # 0 /\ p[1] < U32 => entry' = disk.dir[p[1]][p[2] \div SB_FAT32_ENTRY_SIZE]
      <4>1. HAVE f[q \div m] # 0 /\ p[1] < U32
      <4>2. p[1] = lba /\ p[2] \div SB_FAT32_ENTRY_SIZE = remaining % entries_per_sector
        <5>1. remaining < entries_per_cluster
          <6>1. remaining \in Nat /\ entries_per_cluster \in Nat
            BY Zenon, <1>2, FsFacts DEF FatType
          <6> QED
            BY <1>1, <6>1
        <5> QED
          BY Zenon, <1>2, <3>1, <4>1, <5>1, EntryHere DEF lba
      <4> QED
        BY Zenon, <1>5, <2>1, <4>2
    <3> QED
      BY Zenon, <1>1, <3>3, <3>4 DEF EntryExact
  <2> QED
    BY Zenon, <1>1, <1>3, <2>7, <2>8 DEF FatInv, ReadExact, FailsForAReason
<1> QED
  BY Zenon, <1>1, <1>4, <1>5

\* Nothing happens.
LEMMA StutterInv ==
  ASSUME FatInv, UNCHANGED vars
  PROVE  FatInv'
<1>1. /\ UNCHANGED <<disk, fs, req, entry, dst>>
      /\ UNCHANGED <<mounted, pc, cluster, offset, remaining, result, failed>>
  BY Zenon DEF vars
<1>2. FatType'
  BY Zenon, <1>1 DEF FatInv, FatType
<1>3. mounted' \/ req'.call # "none" => Known'
  BY Zenon, <1>1, Frame DEF FatInv
<1>4. PICK c, f, d, g : /\ c = entry.first_cluster /\ f = ChainOf(c)
                        /\ d = disk.boot.root_cluster /\ g = ChainOf(d)
  OBVIOUS
<1>5. /\ ChainOf(entry.first_cluster)' = f /\ ChainOf(disk.boot.root_cluster)' = g
      /\ cluster_size' = cluster_size /\ entries_per_cluster' = entries_per_cluster
      /\ entries_per_sector' = entries_per_sector
      /\ \A h, k : ByteOf(h, k)' = ByteOf(h, k)
  BY Zenon, <1>1, <1>4, Frame
<1>6. pc' = "walk" => Walking'
  BY Zenon, <1>1, <1>4, <1>5 DEF FatInv, Walking, OnChain
<1>7. pc' \in {"skip", "copy", "follow"} => Reading'
  BY Zenon, <1>1, <1>4, <1>5 DEF FatInv, Reading, OnChain, ArgumentsOK
<1>8. ReadExact'
  <2>1. req.call = "file" /\ pc' = "idle" /\ result' = "ok" => Len(dst) = req.length
    BY Zenon, <1>1 DEF FatInv, ReadExact
  <2> QED
    BY Zenon, <1>1, <2>1, ReadKept DEF FatInv
<1>9. FailsForAReason'
  BY Zenon, <1>1, <1>4, <1>5 DEF FatInv, FailsForAReason, ArgumentsOK
<1>10. EntryExact'
  BY Zenon, <1>1, <1>4, <1>5 DEF FatInv, EntryExact
<1> QED
  BY Zenon, <1>2, <1>3, <1>6, <1>7, <1>8, <1>9, <1>10 DEF FatInv

\* Every step of every call keeps the invariant.
LEMMA StepInv == FatInv /\ [Next]_vars => FatInv'
<1> SUFFICES ASSUME FatInv, [Next]_vars PROVE FatInv'
  OBVIOUS
<1>1. ASSUME NEW device_ok \in BOOLEAN, sb_fat32_mount(device_ok) PROVE FatInv'
  BY Zenon, <1>1, MountInv
<1>2. ASSUME NEW index \in Indices, RootBegin(index) PROVE FatInv'
  BY Zenon, <1>2, RootBeginInv
<1>3. ASSUME NEW r \in Requests, FileBegin(r[1], r[2]) PROVE FatInv'
  <2>1. r[1] \in 0 .. U32 - 1 /\ r[2] \in 0 .. U32 - 1
    BY Zenon, CallsAssumption
  <2> QED
    BY Zenon, <1>3, <2>1, FileBeginInv
<1>4. ASSUME NEW device_ok \in BOOLEAN, RootWalk(device_ok) PROVE FatInv'
  BY Zenon, <1>4, RootWalkInv
<1>5. ASSUME NEW device_ok \in BOOLEAN, RootRead(device_ok) PROVE FatInv'
  BY Zenon, <1>5, RootReadInv
<1>6. ASSUME NEW device_ok \in BOOLEAN, FileSkip(device_ok) PROVE FatInv'
  BY Zenon, <1>6, FileSkipInv
<1>7. CASE FileSkipped
  BY Zenon, <1>7, FileSkippedInv
<1>8. ASSUME NEW device_ok \in BOOLEAN, FileCopy(device_ok) PROVE FatInv'
  BY Zenon, <1>8, FileCopyInv
<1>9. ASSUME NEW device_ok \in BOOLEAN, FileFollow(device_ok) PROVE FatInv'
  BY Zenon, <1>9, FileFollowInv
<1>10. CASE UNCHANGED vars
  BY Zenon, <1>10, StutterInv
<1> QED
  BY Zenon, <1>1, <1>2, <1>3, <1>4, <1>5, <1>6, <1>7, <1>8, <1>9, <1>10 DEF Next, Call, Step

-----------------------------------------------------------------------------
(* What the driver delivers                                                   *)

\* The invariant holds for every disk, whatever its tables say, and every
\* sequence of mounts and reads (fat32.c).
THEOREM FatInvariant == Spec => []FatInv
<1>1. Init => FatInv
  BY Zenon, InitInv
<1>2. FatInv /\ [Next]_vars => FatInv'
  BY Zenon, StepInv
<1> QED
  BY <1>1, <1>2, PTL DEF Spec

\* An accepted boot sector puts the data area right behind the two tables and
\* inside the device: no sum of its fields wraps (sb_fat32_mount).
THEOREM MountStaysSound == Spec => []MountSound
<1>1. FatInv => MountSound
  BY Zenon, FsFacts DEF FatInv, MountSound, DataStart
<1> QED
  BY <1>1, FatInvariant, PTL

\* sb_fat32_read_file delivers the bytes of the chain in order, for every
\* sector and cluster size, offset, length and table.
THEOREM FileReadsExact == Spec => []ReadExact
<1>1. FatInv => ReadExact
  BY Zenon DEF FatInv
<1> QED
  BY <1>1, FatInvariant, PTL

\* sb_fat32_read_file fails only with a cause on the disk, in the device or in
\* its arguments.
THEOREM FailuresHaveReasons == Spec => []FailsForAReason
<1>1. FatInv => FailsForAReason
  BY Zenon DEF FatInv
<1> QED
  BY <1>1, FatInvariant, PTL

\* sb_fat32_read_root_entry delivers the entry at its place in the root
\* directory's chain.
THEOREM EntriesExact == Spec => []EntryExact
<1>1. FatInv => EntryExact
  BY Zenon DEF FatInv
<1> QED
  BY <1>1, FatInvariant, PTL

=============================================================================
