--------------------------- MODULE PipelineProofs ---------------------------
(***************************************************************************)
(* Proofs about the image and the program that writes it, for any sizes of *)
(* files, words and cartridges.  Of QlayImage: the loop that fills the map *)
(* of an image stays inside it, for qlay_image_fits counted the same       *)
(* blocks before (ImageInv), and every file is read back whole from the    *)
(* sectors it was given (ReadBackInv).  Of Pipeline: a file that was read  *)
(* was read whole, a run that ends by itself leaves nothing behind, and    *)
(* the exit code tells what became of the output.                          *)
(***************************************************************************)
EXTENDS Pipeline, SequenceTheorems, TLAPS

(* A quotient is the number of whole blocks.                               *)
LEMMA Quotient ==
  ASSUME NEW n \in Nat, NEW d \in Nat, d > 0
  PROVE  /\ n \div d \in Nat
         /\ (n \div d) * d <= n
         /\ n < (n \div d + 1) * d
<1> QED
  BY SMT

(* A number that fits is not changed by a cast.                            *)
LEMMA SmallRemainder ==
  ASSUME NEW n \in Nat, NEW d \in Nat, n < d
  PROVE  n % d = n
<1> QED
  BY SMT

(* The loop condition of the renderer, block * DataSize < total, holds for *)
(* exactly as many blocks as the rounded quotient of the counting loop.    *)
LEMMA BlocksAreThoseMapped ==
  ASSUME NEW size \in Nat, NEW b \in Nat
  PROVE  /\ Blocks(size) \in Nat
         /\ b * DataSize < size + HeaderSize <=> b < Blocks(size)
<1> DEFINE total == size + HeaderSize
           n == total + DataSize - 1
           q == n \div DataSize
<1>1. DataSize \in Nat /\ DataSize > 0 /\ HeaderSize \in Nat /\ total \in Nat /\ n \in Nat
  BY ImageAssumption
<1>2. n = total + DataSize - 1
  OBVIOUS
<1>3. q \in Nat /\ q * DataSize <= n /\ n < (q + 1) * DataSize
  BY <1>1, Quotient
<1> HIDE DEF q, n, total
<1>4. ASSUME b < q PROVE b * DataSize < total
  <2>1. (b + 1) * DataSize <= q * DataSize
    BY <1>1, <1>3, <1>4
  <2>2. (b + 1) * DataSize = b * DataSize + DataSize
    BY <1>1
  <2>3. b * DataSize \in Nat /\ q * DataSize \in Nat
    BY <1>1, <1>3
  <2> QED
    BY <1>1, <1>2, <1>3, <2>1, <2>2, <2>3
<1>5. ASSUME b >= q PROVE b * DataSize >= total
  <2>1. q * DataSize <= b * DataSize
    BY <1>1, <1>3, <1>5
  <2>2. (q + 1) * DataSize = q * DataSize + DataSize
    BY <1>1, <1>3
  <2>3. b * DataSize \in Nat /\ q * DataSize \in Nat
    BY <1>1, <1>3
  <2> QED
    BY <1>1, <1>2, <1>3, <2>1, <2>2, <2>3
<1>6. Blocks(size) = q
  BY DEF Blocks, q, n, total
<1>7. b * DataSize < total <=> b < q
  <2>1. b * DataSize \in Nat
    BY <1>1
  <2> QED
    BY <1>1, <1>3, <1>4, <1>5, <2>1
<1> QED
  BY <1>3, <1>6, <1>7 DEF total

(* What the constants say of the sectors and the map.                      *)
LEMMA GeometryFits ==
  ASSUME NEW s \in MinSectors .. MaxSectors
  PROVE  s \in Nat /\ s >= 2 /\ s <= LastPair /\ s <= Bytes /\ LastPair \in Nat /\ Bytes \in Nat
<1>1. /\ MinSectors \in Nat /\ DataSize \in Nat /\ Bytes \in Nat
      /\ MaxSectors \in MinSectors .. (DataSize \div 2) - 1
      /\ MinSectors >= 2 /\ MaxSectors <= Bytes
  BY ImageAssumption
<1>2. DataSize \div 2 \in Nat
  BY <1>1
<1> QED
  BY <1>1, <1>2 DEF LastPair

(* The pairs of a map stay pairs of numbers.                               *)
LEMMA MapTyped ==
  /\ NoImage \in [0 .. LastPair -> Nat \X Nat]
  /\ EmptyMap \in [0 .. LastPair -> Nat \X Nat]
<1>1. {MapId, FreeId} \subseteq Nat
  BY ImageAssumption
<1> QED
  BY <1>1 DEF NoImage, EmptyMap

(* A list of sizes is a sequence of numbers.                               *)
LEMMA ListsAreSequences ==
  ASSUME NEW sizes \in SizeLists
  PROVE  sizes \in Seq(Nat)
<1>1. MaxFiles \in Nat
  BY ImageAssumption
<1>2. PICK n \in 1 .. MaxFiles : sizes \in [1 .. n -> Nat]
  BY DEF SizeLists
<1> QED
  BY <1>1, <1>2, SeqDef

(* What was needed before a file is a number, the file's own share of it   *)
(* leads to what was needed before the next, and none is above the whole.  *)
LEMMA BeforeIsCounted ==
  ASSUME Counted, files \in Seq(Nat), needed \in Nat,
         NEW k \in 1 .. Len(through) + 1
  PROVE  /\ Before(k) \in Nat /\ Before(k) >= 0
         /\ k > 1 => Before(k) <= needed
         /\ k <= Len(through) => /\ files[k] \in Nat
                                 /\ Before(k + 1) = Before(k) + Blocks(files[k])
                                 /\ Before(k + 1) <= needed
<1>1. Len(through) \in Nat /\ Len(files) \in Nat /\ Len(through) <= Len(files)
  BY DEF Counted
<1>2. \A j \in 1 .. Len(through) : through[j] \in Nat /\ through[j] <= needed
  BY DEF Counted
<1>3. Before(k) \in Nat /\ (k > 1 => Before(k) <= needed)
  <2>1. CASE k = 1
    BY <2>1 DEF Before
  <2>2. CASE k # 1
    <3>1. k - 1 \in 1 .. Len(through)
      BY <1>1, <2>2
    <3>2. Before(k) = through[k - 1]
      BY <2>2 DEF Before
    <3> QED
      BY <1>2, <3>1, <3>2
  <2> QED
    BY <2>1, <2>2
<1>4. ASSUME k <= Len(through)
      PROVE  /\ files[k] \in Nat
             /\ Before(k + 1) = Before(k) + Blocks(files[k])
             /\ Before(k + 1) <= needed
  <2>1. k \in 1 .. Len(through) /\ k \in 1 .. Len(files)
    BY <1>1, <1>4
  <2>2. k + 1 # 1 /\ (k + 1) - 1 = k
    BY <2>1
  <2>3. Before(k + 1) = through[k]
    BY <2>2 DEF Before
  <2>4. files[k] \in Nat
    BY <2>1
  <2> QED
    BY <1>2, <2>1, <2>3, <2>4 DEF Counted
<1> QED
  BY <1>3, <1>4

(* The invariant holds before the first call.                              *)
THEOREM ImageStarts == ImageInit => ImageInv
<1> SUFFICES ASSUME ImageInit PROVE ImageInv
  OBVIOUS
<1>1. MinSectors \in MinSectors .. MaxSectors
  BY ImageAssumption
<1>2. << >> \in Seq(Nat) /\ Len(<< >>) = 0
  OBVIOUS
<1>3. Counted
  BY <1>2 DEF ImageInit, Counted
<1> QED
  BY <1>1, <1>2, <1>3, MapTyped DEF ImageInit, ImageInv

(* Between two calls the numbers of Counted change only where a file is    *)
(* counted or a new image is begun.                                        *)
LEMMA CountedKept ==
  ASSUME Counted, UNCHANGED <<through, files, needed>>
  PROVE  Counted'
<1> QED
  BY DEF Counted, Before

(* One more file counted.                                                  *)
LEMMA CountedGrows ==
  ASSUME ImageInv, CountFile
  PROVE  /\ Counted' /\ needed' \in Nat
         /\ Len(through') = at + 1
         /\ Before(at + 1)' = needed'
<1>1. /\ at \in Nat /\ needed \in Nat /\ files \in Seq(Nat) /\ through \in Seq(Nat)
      /\ Len(through) = at /\ needed = Before(at + 1) /\ at < Len(files)
      /\ Counted /\ Len(files) \in Nat
  BY DEF ImageInv, CountFile, Counted
<1>2. at + 1 \in 1 .. Len(files) /\ files[at + 1] \in Nat
  BY <1>1
<1>3. Blocks(files[at + 1]) \in Nat
  BY <1>2, BlocksAreThoseMapped
<1>4. needed' = needed + Blocks(files[at + 1]) /\ needed' \in Nat /\ needed' >= needed
  BY <1>1, <1>3 DEF CountFile
<1>5. through' = Append(through, needed') /\ files' = files
  BY DEF CountFile
<1>6. /\ through' \in Seq(Nat) /\ Len(through') = at + 1
      /\ through'[at + 1] = needed'
      /\ \A j \in 1 .. at : through'[j] = through[j]
  BY <1>1, <1>4, <1>5, AppendProperties
<1>7. ASSUME NEW k \in 1 .. Len(through')
      PROVE  through'[k] = Before(k)' + Blocks(files'[k]) /\ through'[k] <= needed'
  <2>1. CASE k = at + 1
    <3>1. Before(k)' = Before(k)
      BY <1>1, <1>6, <2>1 DEF Before
    <3> QED
      BY <1>1, <1>4, <1>5, <1>6, <2>1, <3>1
  <2>2. CASE k # at + 1
    <3>1. k \in 1 .. at
      BY <1>1, <1>6, <2>2
    <3>2. Before(k)' = Before(k)
      BY <1>1, <1>6, <3>1 DEF Before
    <3>3. through[k] = Before(k) + Blocks(files[k]) /\ through[k] <= needed /\ through[k] \in Nat
      BY <1>1, <3>1 DEF Counted
    <3>4. through'[k] = through[k] /\ files' = files
      BY <1>5, <1>6, <3>1
    <3>5. through[k] <= needed'
      BY <1>1, <1>4, <3>3
    <3> QED
      BY <3>2, <3>3, <3>4, <3>5
  <2> QED
    BY <2>1, <2>2
<1>8. Counted'
  BY <1>1, <1>2, <1>5, <1>6, <1>7 DEF Counted
<1>9. Before(at + 1)' = needed'
  <2>1. at' = at + 1
    BY DEF CountFile
  <2> QED
    BY <1>1, <1>6, <2>1 DEF Before
<1> QED
  BY <1>4, <1>6, <1>8, <1>9

(* The map is never full while a file has a block left, and the blocks     *)
(* mapped are those counted when the loop passes on.                       *)
LEMMA RoomWhileMapping ==
  ASSUME ImageInv, stage = "map"
  PROVE  /\ next - 1 <= needed
         /\ at < Len(files) =>
              /\ Before(at + 1) \in Nat
              /\ Blocks(files[at + 1]) \in Nat
              /\ Before(at + 2) = Before(at + 1) + Blocks(files[at + 1])
              /\ Before(at + 2) <= needed
              /\ block * DataSize < Total(at + 1) <=> block < Blocks(files[at + 1])
<1>1. /\ Counted /\ files \in Seq(Nat) /\ needed \in Nat /\ at \in Nat
      /\ block \in Nat /\ next \in Nat
      /\ Len(through) = Len(files) /\ needed = Before(Len(files) + 1)
      /\ at <= Len(files) /\ next - 1 = Before(at + 1) + block
      /\ block <= (IF at < Len(files) THEN Blocks(files[at + 1]) ELSE 0)
      /\ Len(files) \in Nat
  BY DEF ImageInv
<1>2. at + 1 \in 1 .. Len(through) + 1
  BY <1>1
<1>3. Before(at + 1) \in Nat
  BY <1>1, <1>2, BeforeIsCounted
<1>4. CASE at < Len(files)
  <2>1. /\ files[at + 1] \in Nat
        /\ Before((at + 1) + 1) = Before(at + 1) + Blocks(files[at + 1])
        /\ Before((at + 1) + 1) <= needed
    BY <1>1, <1>2, <1>4, BeforeIsCounted
  <2>2. (at + 1) + 1 = at + 2
    BY <1>1
  <2>3. /\ Blocks(files[at + 1]) \in Nat
        /\ block * DataSize < files[at + 1] + HeaderSize <=> block < Blocks(files[at + 1])
    BY <1>1, <2>1, BlocksAreThoseMapped
  <2> QED
    BY <1>1, <1>3, <1>4, <2>1, <2>2, <2>3 DEF Total
<1>5. CASE at = Len(files)
  BY <1>1, <1>3, <1>5
<1> QED
  BY <1>1, <1>4, <1>5

(* Every step of fitting and rendering keeps the invariant.                *)
THEOREM ImageStepKeeps == ImageInv /\ [ImageNext]_imageVars => ImageInv'
<1> SUFFICES ASSUME ImageInv, [ImageNext]_imageVars PROVE ImageInv'
  OBVIOUS
<1>1. ASSUME NEW sizes \in SizeLists, NEW geometry \in MinSectors .. MaxSectors,
             WriteImage(sizes, geometry)
      PROVE  ImageInv'
  <2>1. sizes \in Seq(Nat)
    BY ListsAreSequences
  <2>2. /\ stage = "none" /\ at = 0 /\ through = << >>
        /\ stage' = "count" /\ sectors' = geometry /\ files' = sizes /\ needed' = 1
        /\ UNCHANGED <<through, at, block, next, map, cartridge>>
    BY <1>1 DEF ImageInv, WriteImage, Goes
  <2>3. Counted'
    BY <2>1, <2>2 DEF Counted
  <2>4. Before(at + 1)' = 1
    BY <2>2 DEF Before
  <2> QED
    BY <2>1, <2>2, <2>3, <2>4 DEF ImageInv
<1>2. CASE CountFile
  <2>1. /\ Counted' /\ needed' \in Nat
        /\ Len(through') = at + 1 /\ Before(at + 1)' = needed'
    BY <1>2, CountedGrows
  <2>2. stage = "count" /\ at' = at + 1 /\ at \in Nat
        /\ UNCHANGED <<stage, sectors, files, block, next, map, cartridge>>
    BY <1>2 DEF CountFile, ImageInv
  <2> QED
    BY <2>1, <2>2 DEF ImageInv
<1>3. CASE Judge
  <2>1. /\ stage = "count" /\ at = Len(files)
        /\ UNCHANGED <<sectors, files, needed, through, at, block, next, map, cartridge>>
        /\ stage' = (IF Fits THEN "fits" ELSE "refused")
    BY <1>3 DEF Judge, Goes
  <2>2. Len(through) = Len(files) /\ needed = Before(Len(files) + 1)
    BY <2>1 DEF ImageInv
  <2>3. Counted'
    BY <2>1, CountedKept DEF ImageInv
  <2>4. (Before(Len(files) + 1))' = Before(Len(files) + 1)
    BY <2>1 DEF Before
  <2>5. CASE Fits
    BY <2>1, <2>2, <2>3, <2>4, <2>5 DEF ImageInv, Fits
  <2>6. CASE ~Fits
    BY <2>1, <2>2, <2>3, <2>4, <2>6 DEF ImageInv
  <2> QED
    BY <2>5, <2>6
<1>4. CASE BeginRender
  <2>1. /\ stage = "fits" /\ stage' = "map" /\ map' = EmptyMap
        /\ next' = 2 /\ at' = 0 /\ block' = 0
        /\ UNCHANGED <<sectors, files, needed, through, cartridge>>
    BY <1>4 DEF BeginRender, Goes
  <2>2. Counted'
    BY <2>1, CountedKept DEF ImageInv
  <2>3. (Before(Len(files) + 1))' = Before(Len(files) + 1)
    BY <2>1 DEF Before
  <2>4. (Before(at + 1))' = 1
    BY <2>1 DEF Before
  <2>5. files \in Seq(Nat) /\ Len(files) \in Nat
    BY DEF ImageInv
  <2>6. 0 <= (IF 0 < Len(files) THEN Blocks(files[1]) ELSE 0)
    <3>1. CASE 0 < Len(files)
      <4>1. files[1] \in Nat
        BY <2>5, <3>1
      <4> QED
        BY <3>1, <4>1, BlocksAreThoseMapped
    <3> QED
      BY <2>5, <3>1
  <2>7. Blocks(files[1])' = Blocks(files[1])
    BY <2>1 DEF Blocks
  <2> QED
    BY <2>1, <2>2, <2>3, <2>4, <2>5, <2>6, <2>7, MapTyped DEF ImageInv
<1>5. CASE MapBlock
  <2>1. /\ stage = "map" /\ at < Len(files) /\ block * DataSize < Total(at + 1)
        /\ map' = [map EXCEPT ![next] = <<(at + 1) % Bytes, block % Bytes>>]
        /\ next' = next + 1 /\ block' = block + 1
        /\ UNCHANGED <<stage, sectors, files, needed, through, at, cartridge>>
    BY <1>5 DEF MapBlock
  <2>2. block < Blocks(files[at + 1]) /\ Blocks(files[at + 1]) \in Nat
    BY <2>1, RoomWhileMapping
  <2>3. Counted'
    BY <2>1, CountedKept DEF ImageInv
  <2>4. /\ (Before(Len(files) + 1))' = Before(Len(files) + 1)
        /\ (Before(at + 1))' = Before(at + 1)
    BY <2>1 DEF Before
  <2>5. Before(at + 1) \in Nat
    BY <2>1, RoomWhileMapping
  <2>6. map' \in [0 .. LastPair -> Nat \X Nat]
    <3>1. Bytes \in Nat /\ Bytes > 0 /\ at \in Nat /\ block \in Nat
      BY ImageAssumption DEF ImageInv
    <3>2. (at + 1) % Bytes \in Nat /\ block % Bytes \in Nat
      BY <3>1
    <3> QED
      BY <2>1, <3>2 DEF ImageInv
  <2>7. (IF at < Len(files) THEN Blocks(files[at + 1]) ELSE 0)'
          = Blocks(files[at + 1])
    BY <2>1 DEF Blocks
  <2>8. /\ at \in Nat /\ block \in Nat /\ next \in Nat /\ at <= Len(files)
        /\ next - 1 = Before(at + 1) + block
    BY <2>1 DEF ImageInv
  <2>9. /\ block + 1 <= Blocks(files[at + 1]) /\ {block + 1, next + 1} \subseteq Nat
        /\ (next + 1) - 1 = Before(at + 1) + (block + 1)
    BY <2>2, <2>5, <2>8
  <2> QED
    BY <2>1, <2>3, <2>4, <2>6, <2>7, <2>8, <2>9 DEF ImageInv
<1>6. CASE NextFile
  <2>1. /\ stage = "map" /\ at < Len(files) /\ block * DataSize >= Total(at + 1)
        /\ at' = at + 1 /\ block' = 0
        /\ UNCHANGED <<stage, sectors, files, needed, through, next, map, cartridge>>
    BY <1>6 DEF NextFile
  <2>2. /\ at \in Nat /\ block \in Nat /\ files \in Seq(Nat) /\ Len(files) \in Nat
        /\ next \in Nat /\ next - 1 = Before(at + 1) + block
        /\ block <= Blocks(files[at + 1])
    BY <2>1 DEF ImageInv
  <2>3. /\ Before(at + 1) \in Nat /\ Blocks(files[at + 1]) \in Nat
        /\ Before(at + 2) = Before(at + 1) + Blocks(files[at + 1])
        /\ block * DataSize < Total(at + 1) <=> block < Blocks(files[at + 1])
    BY <2>1, RoomWhileMapping
  <2>4. block = Blocks(files[at + 1])
    <3>1. block * DataSize \in Int /\ Total(at + 1) \in Int
      <4>1. files[at + 1] \in Nat
        BY <2>1, <2>2
      <4>2. DataSize \in Nat /\ HeaderSize \in Nat
        BY ImageAssumption
      <4>3. block * DataSize \in Int
        BY <2>2, <4>2
      <4> QED
        BY <4>1, <4>2, <4>3 DEF Total
    <3>2. \A x, y \in Int : x >= y => ~(x < y)
      OBVIOUS
    <3>3. ~(block * DataSize < Total(at + 1))
      BY <2>1, <3>1, <3>2, Zenon
    <3> QED
      BY <2>2, <2>3, <3>3
  <2>5. Counted'
    BY <2>1, CountedKept DEF ImageInv
  <2>6. /\ (Before(Len(files) + 1))' = Before(Len(files) + 1)
        /\ (Before(at + 1))' = Before(at + 2)
    <3>1. at' + 1 = at + 2
      BY <2>1, <2>2
    <3> QED
      BY <2>1, <3>1 DEF Before
  <2>7. 0 <= (IF at + 1 < Len(files) THEN Blocks(files[at + 2]) ELSE 0)
    <3>1. CASE at + 1 < Len(files)
      <4>1. files[at + 2] \in Nat
        BY <2>2, <3>1
      <4> QED
        BY <3>1, <4>1, BlocksAreThoseMapped
    <3> QED
      BY <2>2, <3>1
  <2>8. (IF at < Len(files) THEN Blocks(files[at + 1]) ELSE 0)'
          = IF at + 1 < Len(files) THEN Blocks(files[at + 2]) ELSE 0
    <3>1. at' + 1 = at + 2
      BY <2>1, <2>2
    <3> QED
      BY <2>1, <3>1 DEF Blocks
  <2>9. next - 1 = Before(at + 2) + 0
    BY <2>2, <2>3, <2>4
  <2> QED
    BY <2>1, <2>2, <2>5, <2>6, <2>7, <2>8, <2>9 DEF ImageInv
<1>7. CASE MapDone
  <2>1. /\ stage = "map" /\ at = Len(files) /\ stage' = "sectors"
        /\ map' = [map EXCEPT ![LastPair][2] = (next - 1) % Bytes]
        /\ UNCHANGED <<sectors, files, needed, through, at, block, next, cartridge>>
    BY <1>7 DEF MapDone, Goes
  <2>2. /\ needed \in Nat /\ next \in Nat /\ block \in Nat /\ at \in Nat
        /\ sectors \in MinSectors .. MaxSectors /\ needed <= sectors - 1
        /\ next - 1 = Before(at + 1) + block /\ block <= 0
        /\ needed = Before(Len(files) + 1)
        /\ map \in [0 .. LastPair -> Nat \X Nat]
    BY <2>1 DEF ImageInv
  <2>3. next - 1 = needed
    BY <2>1, <2>2
  <2>4. /\ LastPair \in Nat /\ Bytes \in Nat /\ sectors \in Nat /\ sectors <= Bytes
        /\ sectors >= 2
    BY <2>2, GeometryFits
  <2>5. (next - 1) % Bytes = needed
    <3>1. needed < Bytes
      BY <2>2, <2>4
    <3> QED
      BY <2>2, <2>3, <2>4, <3>1, SmallRemainder
  <2>6. map' \in [0 .. LastPair -> Nat \X Nat] /\ map'[LastPair][2] = needed
    <3>1. LastPair \in 0 .. LastPair /\ map[LastPair] \in Nat \X Nat
      BY <2>2, <2>4
    <3>2. map'[LastPair] = [map[LastPair] EXCEPT ![2] = needed]
      BY <2>1, <2>2, <2>5, <3>1
    <3>3. map'[LastPair] \in Nat \X Nat /\ map'[LastPair][2] = needed
      BY <2>2, <3>1, <3>2
    <3>4. map' = [map EXCEPT ![LastPair] = map'[LastPair]]
      BY <2>1, <2>2, <3>1
    <3> QED
      BY <2>2, <3>3, <3>4
  <2>7. Counted'
    BY <2>1, CountedKept DEF ImageInv
  <2>8. (Before(Len(files) + 1))' = Before(Len(files) + 1)
    BY <2>1 DEF Before
  <2> QED
    BY <2>1, <2>2, <2>3, <2>6, <2>7, <2>8 DEF ImageInv
<1>8. CASE RenderSector \/ Rendered \/ UNCHANGED imageVars
  <2>1. /\ UNCHANGED <<sectors, files, needed, through, at, block, next, map>>
        /\ \/ stage' = stage
           \/ stage = "sectors" /\ stage' = "rendered"
    BY <1>8 DEF RenderSector, Rendered, imageVars, Goes
  <2>2. Counted'
    BY <2>1, CountedKept DEF ImageInv
  <2>3. /\ (Before(Len(files) + 1))' = Before(Len(files) + 1)
        /\ (Before(at + 1))' = Before(at + 1)
        /\ (IF at < Len(files) THEN Blocks(files[at + 1]) ELSE 0)'
             = IF at < Len(files) THEN Blocks(files[at + 1]) ELSE 0
    BY <2>1 DEF Before, Blocks
  <2> QED
    BY <2>1, <2>2, <2>3 DEF ImageInv
<1> QED
  BY <1>1, <1>2, <1>3, <1>4, <1>5, <1>6, <1>7, <1>8 DEF ImageNext

(* The invariant is what it was made for.                                  *)
LEMMA InvIsInside == ImageInv => MapInside
<1> SUFFICES ASSUME ImageInv PROVE MapInside
  OBVIOUS
<1>1. needed \in Nat /\ next \in Nat /\ sectors \in MinSectors .. MaxSectors
  BY DEF ImageInv
<1>2. sectors \in Nat
  BY <1>1, GeometryFits
<1>3. stage = "map" => next - 1 <= needed /\ next <= sectors
  <2> SUFFICES ASSUME stage = "map" PROVE next - 1 <= needed /\ next <= sectors
    OBVIOUS
  <2>1. next - 1 <= needed
    BY RoomWhileMapping
  <2>2. needed <= sectors - 1
    BY DEF ImageInv
  <2> QED
    BY <1>1, <1>2, <2>1, <2>2
<1>4. stage \in {"sectors", "rendered"} =>
        /\ next - 1 = needed /\ map[LastPair][2] = needed /\ next <= sectors
  BY <1>1, <1>2 DEF ImageInv
<1> QED
  BY <1>1, <1>3, <1>4 DEF MapInside

(* qlay_render_image never gives out a sector the cartridge does not have, *)
(* nor writes over the number of used sectors at the end of the map, for   *)
(* any files and any geometry: it maps the blocks qlay_image_fits counted. *)
THEOREM MapFits == ImageSpec => []MapInside
<1> QED
  BY ImageStarts, ImageStepKeeps, InvIsInside, PTL DEF ImageSpec

-----------------------------------------------------------------------------
(* Reading back: what the map and the cartridge hold, block by block.      *)

HasSector(i, b) == \E l \in 2 .. next - 1 : map[l] = <<i, b>>

(* Every block of the files passed has a sector, no sector was given out   *)
(* twice, and those not given out are free.                                *)
Given ==
  /\ next \in 2 .. sectors
  /\ map[1] = <<0, 0>>
  /\ \A l \in next .. sectors - 1 : map[l] = <<FreeId, 0>>
  /\ \A l \in 2 .. next - 1 : map[l][1] \in 1 .. Len(files)
  /\ \A l, m \in 2 .. next - 1 : map[l] = map[m] => l = m
  /\ \A i \in 1 .. at : \A b \in 0 .. Blocks(files[i]) - 1 : HasSector(i, b)

(* Of the file at hand the blocks below `block` have theirs, and no later  *)
(* block has one yet.                                                      *)
GivenSoFar ==
  /\ \A l \in 2 .. next - 1 :
       map[l][1] \in 1 .. at \/ (map[l][1] = at + 1 /\ map[l][2] < block)
  /\ at < Len(files) => \A b \in 0 .. block - 1 : HasSector(at + 1, b)

Sectors == {Sector(l) : l \in 0 .. sectors - 1}

(* The sectors on the cartridge are those of the map, in order.            *)
Written ==
  /\ cartridge \in Seq(Sectors)
  /\ Len(cartridge) <= sectors
  /\ \A k \in 1 .. Len(cartridge) : cartridge[k] = Sector(Logical(k - 1))

ReadBackInv ==
  /\ Len(files) <= MaxFiles
  /\ stage \in {"none", "count", "fits", "map"} => cartridge = << >>
  /\ stage = "map" => Given /\ GivenSoFar
  /\ stage \in {"sectors", "rendered"} => Given /\ Written /\ at = Len(files)
  /\ stage = "rendered" => Len(cartridge) = sectors

(* The sizes are numbers.                                                  *)
LEMMA ImageNumbers ==
  /\ DataSize \in Nat /\ DataSize > 0 /\ HeaderSize \in Nat /\ HeaderSize > 0
  /\ MaxFiles \in Nat
  BY ImageAssumption

(* The renderer gives the next free sector to the next block: it is one of *)
(* the cartridge, and neither number is cut off by the cast to a byte.     *)
LEMMA BlockIsNamed ==
  ASSUME ImageInv, ReadBackInv, MapBlock
  PROVE  /\ next + 1 \in 2 .. sectors
         /\ at + 1 \in 1 .. Len(files)
         /\ (at + 1) % Bytes = at + 1 /\ block % Bytes = block
<1>1. /\ stage = "map" /\ at < Len(files) /\ block * DataSize < Total(at + 1)
      /\ at \in Nat /\ block \in Nat /\ next \in Nat /\ files \in Seq(Nat)
      /\ Len(files) \in Nat /\ needed \in Nat /\ sectors \in MinSectors .. MaxSectors
      /\ needed <= sectors - 1 /\ next - 1 = Before(at + 1) + block
      /\ Len(files) <= MaxFiles /\ next >= 2
  BY DEF MapBlock, ImageInv, ReadBackInv, Given
<1>2. /\ sectors \in Nat /\ sectors <= Bytes /\ Bytes \in Nat /\ MaxFiles \in Nat
      /\ MaxFiles + 1 <= Bytes - 1
  <2>1. sectors \in Nat /\ sectors <= Bytes /\ Bytes \in Nat
    BY <1>1, GeometryFits
  <2>2. MaxFiles \in Nat /\ MapId \in MaxFiles + 1 .. Bytes - 1
    BY ImageAssumption
  <2> QED
    BY <2>1, <2>2
<1>3. /\ Before(at + 1) \in Nat /\ Blocks(files[at + 1]) \in Nat
      /\ Before(at + 2) = Before(at + 1) + Blocks(files[at + 1])
      /\ Before(at + 2) <= needed
      /\ block < Blocks(files[at + 1])
  BY <1>1, RoomWhileMapping
<1>4. next + 1 <= sectors /\ block < Bytes /\ at + 1 < Bytes
  BY <1>1, <1>2, <1>3
<1>5. block % Bytes = block
  BY <1>1, <1>2, <1>4, SmallRemainder
<1>6. (at + 1) % Bytes = at + 1
  <2>1. PICK i \in Nat : i = at + 1
    BY <1>1
  <2> QED
    BY <1>2, <1>4, <2>1, SmallRemainder
<1> QED
  BY <1>1, <1>2, <1>4, <1>5, <1>6

(* A block mapped keeps what is known of the map.                          *)
LEMMA MapBlockGives ==
  ASSUME ImageInv, ReadBackInv, MapBlock
  PROVE  Given' /\ GivenSoFar'
<1>1. /\ stage = "map" /\ at < Len(files)
      /\ map \in [0 .. LastPair -> Nat \X Nat]
      /\ at \in Nat /\ block \in Nat /\ next \in Nat /\ sectors \in Nat /\ sectors <= LastPair
      /\ LastPair \in Nat /\ Len(files) \in Nat
      /\ next' = next + 1 /\ block' = block + 1
      /\ UNCHANGED <<stage, sectors, files, needed, through, at, cartridge>>
  BY GeometryFits DEF MapBlock, ImageInv
<1>2. /\ next + 1 \in 2 .. sectors
      /\ at + 1 \in 1 .. Len(files)
      /\ map' = [map EXCEPT ![next] = <<at + 1, block>>]
  BY BlockIsNamed DEF MapBlock
<1>3. Given /\ GivenSoFar
  BY <1>1 DEF ReadBackInv
<1>4. next \in 2 .. sectors - 1 /\ next \in 0 .. LastPair
  BY <1>1, <1>2, <1>3 DEF Given
<1>5. /\ map'[next] = <<at + 1, block>>
      /\ \A l \in 0 .. LastPair : l # next => map'[l] = map[l]
  BY <1>1, <1>2, <1>4
<1>6. \A l \in 2 .. next - 1 : /\ map'[l] = map[l] /\ map[l] \in Nat \X Nat
                               /\ map[l] # <<at + 1, block>>
                               /\ map[l][1] \in 1 .. Len(files)
  <2> SUFFICES ASSUME NEW l \in 2 .. next - 1
               PROVE  /\ map'[l] = map[l] /\ map[l] \in Nat \X Nat
                      /\ map[l] # <<at + 1, block>>
                      /\ map[l][1] \in 1 .. Len(files)
    OBVIOUS
  <2>1. l \in 0 .. LastPair /\ l # next
    BY <1>1, <1>4
  <2>2. map[l] \in Nat \X Nat
    BY <1>1, <2>1
  <2>3. map[l][1] \in 1 .. at \/ (map[l][1] = at + 1 /\ map[l][2] < block)
    BY <1>3 DEF GivenSoFar
  <2>4. map[l] # <<at + 1, block>>
    <3> SUFFICES ASSUME map[l] = <<at + 1, block>> PROVE FALSE
      OBVIOUS
    <3>1. map[l][1] = at + 1 /\ map[l][2] = block
      OBVIOUS
    <3> QED
      BY <1>1, <2>3, <3>1
  <2> QED
    BY <1>3, <1>5, <2>1, <2>2, <2>4 DEF Given
<1>7. 2 .. next + 1 - 1 = (2 .. next - 1) \cup {next}
  BY <1>4
<1>8. \A i, b : HasSector(i, b) => HasSector(i, b)'
  <2> SUFFICES ASSUME NEW i, NEW b, HasSector(i, b) PROVE HasSector(i, b)'
    OBVIOUS
  <2>1. PICK l \in 2 .. next - 1 : map[l] = <<i, b>>
    BY DEF HasSector
  <2>2. l \in 2 .. next + 1 - 1 /\ map'[l] = <<i, b>>
    BY <1>6, <1>7, <2>1
  <2> QED
    BY <1>1, <2>2 DEF HasSector
<1>9. ASSUME NEW i, NEW b, i = at + 1, b = block
      PROVE  HasSector(i, b)'
  <2>1. PICK l : l = next
    OBVIOUS
  <2>2. l \in 2 .. next + 1 - 1 /\ map'[l] = <<i, b>>
    BY <1>5, <1>7, <1>9, <2>1
  <2> QED
    BY <1>1, <2>2 DEF HasSector
<1>10. Given'
  <2>1. map'[1] = <<0, 0>>
    <3>1. 1 \in 0 .. LastPair /\ 1 # next
      BY <1>1, <1>4
    <3> QED
      BY <1>3, <1>5, <3>1 DEF Given
  <2>2. \A l \in next + 1 .. sectors - 1 : map'[l] = <<FreeId, 0>>
    <3> SUFFICES ASSUME NEW l \in next + 1 .. sectors - 1 PROVE map'[l] = <<FreeId, 0>>
      OBVIOUS
    <3>1. l \in next .. sectors - 1 /\ l \in 0 .. LastPair /\ l # next
      BY <1>1, <1>4
    <3> QED
      BY <1>3, <1>5, <3>1 DEF Given
  <2>3. \A l \in 2 .. next + 1 - 1 : map'[l][1] \in 1 .. Len(files)
    <3>1. map'[next][1] = at + 1
      BY <1>5
    <3> QED
      BY <1>2, <1>6, <1>7, <3>1
  <2>4. \A l, m \in 2 .. next + 1 - 1 : map'[l] = map'[m] => l = m
    <3>1. \A l, m \in 2 .. next - 1 : map[l] = map[m] => l = m
      BY <1>3 DEF Given
    <3> QED
      BY <1>5, <1>6, <1>7, <3>1
  <2>5. \A i \in 1 .. at : \A b \in 0 .. Blocks(files[i]) - 1 : HasSector(i, b)'
    BY <1>3, <1>8 DEF Given
  <2>6. \A i \in 1 .. at : Blocks(files[i])' = Blocks(files[i])
    BY <1>1 DEF Blocks
  <2>7. Len(files)' = Len(files) /\ (next' \in 2 .. sectors')
    BY <1>1, <1>2
  <2> QED
    BY <1>1, <2>1, <2>2, <2>3, <2>4, <2>5, <2>6, <2>7 DEF Given
<1>11. GivenSoFar'
  <2>1. \A l \in 2 .. next + 1 - 1 :
          map'[l][1] \in 1 .. at \/ (map'[l][1] = at + 1 /\ map'[l][2] < block + 1)
    <3> SUFFICES ASSUME NEW l \in 2 .. next + 1 - 1
                 PROVE  map'[l][1] \in 1 .. at \/ (map'[l][1] = at + 1 /\ map'[l][2] < block + 1)
      OBVIOUS
    <3>1. CASE l = next
      <4>1. map'[l][1] = at + 1 /\ map'[l][2] = block
        BY <1>5, <3>1
      <4> QED
        BY <1>1, <4>1
    <3>2. CASE l # next
      <4>1. l \in 2 .. next - 1
        BY <1>7, <3>2
      <4>2. map'[l] = map[l] /\ map[l][2] \in Nat
        BY <1>6, <4>1
      <4>3. map[l][1] \in 1 .. at \/ (map[l][1] = at + 1 /\ map[l][2] < block)
        BY <1>3, <4>1 DEF GivenSoFar
      <4>4. map[l][2] < block => map[l][2] < block + 1
        BY <1>1, <4>2
      <4> QED
        BY <4>2, <4>3, <4>4
    <3> QED
      BY <3>1, <3>2
  <2>2. \A i : \A b \in 0 .. block + 1 - 1 : i = at + 1 => HasSector(i, b)'
    <3>1. \A b \in 0 .. block - 1 : HasSector(at + 1, b)
      BY <1>1, <1>3 DEF GivenSoFar
    <3>2. \A b \in 0 .. block + 1 - 1 : b = block \/ b \in 0 .. block - 1
      BY <1>1
    <3> QED
      BY <1>8, <1>9, <3>1, <3>2
  <2>3. \A b \in 0 .. block + 1 - 1 : HasSector(at + 1, b)'
    <3>1. PICK i : i = at + 1
      OBVIOUS
    <3>2. \A b \in 0 .. block + 1 - 1 : HasSector(i, b)'
      BY <2>2, <3>1
    <3> QED
      BY <1>1, <3>1, <3>2 DEF HasSector
  <2> QED
    BY <1>1, <2>1, <2>3 DEF GivenSoFar
<1> QED
  BY <1>10, <1>11

(* The loop passes on when the file's blocks all have a sector.            *)
LEMMA NextFileGives ==
  ASSUME ImageInv, ReadBackInv, NextFile
  PROVE  Given' /\ GivenSoFar'
<1>1. /\ stage = "map" /\ at < Len(files) /\ block * DataSize >= Total(at + 1)
      /\ at' = at + 1 /\ block' = 0
      /\ UNCHANGED <<stage, sectors, files, needed, through, next, map, cartridge>>
      /\ at \in Nat /\ block \in Nat /\ next \in Nat /\ files \in Seq(Nat)
      /\ Len(files) \in Nat /\ map \in [0 .. LastPair -> Nat \X Nat]
      /\ Given /\ GivenSoFar
  BY DEF NextFile, ImageInv, ReadBackInv
<1>2. Blocks(files[at + 1]) \in Nat /\ Blocks(files[at + 1]) <= block
  <2>1. /\ Blocks(files[at + 1]) \in Nat
        /\ block * DataSize < Total(at + 1) <=> block < Blocks(files[at + 1])
    BY <1>1, RoomWhileMapping
  <2>2. block * DataSize \in Int /\ Total(at + 1) \in Int
    <3>0. at + 1 \in 1 .. Len(files)
      BY <1>1
    <3>1. files[at + 1] \in Nat /\ DataSize \in Nat /\ HeaderSize \in Nat
      BY <1>1, <3>0, ImageNumbers
    <3>2. block * DataSize \in Int
      BY <1>1, <3>1
    <3> QED
      BY <3>1, <3>2 DEF Total
  <2>3. \A x, y \in Int : x >= y => ~(x < y)
    OBVIOUS
  <2>4. ~(block * DataSize < Total(at + 1))
    BY <1>1, <2>2, <2>3, Zenon
  <2> QED
    BY <1>1, <2>1, <2>4
<1>3. \A i, b : HasSector(i, b)' <=> HasSector(i, b)
  BY <1>1 DEF HasSector
<1>4. \A i : Blocks(files[i])' = Blocks(files[i])
  BY <1>1 DEF Blocks
<1>5. \A i \in 1 .. at + 1 : \A b \in 0 .. Blocks(files[i]) - 1 : HasSector(i, b)
  <2> SUFFICES ASSUME NEW i \in 1 .. at + 1, NEW b \in 0 .. Blocks(files[i]) - 1
               PROVE  HasSector(i, b)
    OBVIOUS
  <2>1. CASE i = at + 1
    <3>1. b \in 0 .. block - 1
      BY <1>1, <1>2, <2>1
    <3> QED
      BY <1>1, <2>1, <3>1 DEF GivenSoFar
  <2>2. CASE i # at + 1
    <3>1. i \in 1 .. at
      BY <1>1, <2>2
    <3> QED
      BY <1>1, <3>1 DEF Given
  <2> QED
    BY <2>1, <2>2
<1>6. Given'
  <2>1. \A i \in 1 .. at' : \A b \in 0 .. Blocks(files[i])' - 1 : HasSector(i, b)'
    BY <1>1, <1>3, <1>4, <1>5
  <2> QED
    BY <1>1, <2>1 DEF Given
<1>7. \A l \in 2 .. next - 1 : map[l][1] \in 1 .. at + 1
  BY <1>1 DEF GivenSoFar
<1>8. GivenSoFar'
  <2>1. 0 .. 0 - 1 = {}
    OBVIOUS
  <2> QED
    BY <1>1, <1>7, <2>1 DEF GivenSoFar
<1> QED
  BY <1>6, <1>8

(* A new map has given out no data sector.                                 *)
LEMMA NothingGiven ==
  ASSUME ImageInv, BeginRender
  PROVE  Given' /\ GivenSoFar'
<1>1. /\ map' = EmptyMap /\ next' = 2 /\ at' = 0 /\ block' = 0
      /\ UNCHANGED <<sectors, files>> /\ sectors \in Nat /\ sectors >= 2
      /\ sectors <= LastPair /\ LastPair \in Nat
  BY GeometryFits DEF BeginRender, ImageInv
<1>2. /\ map'[1] = <<0, 0>>
      /\ \A l \in 2 .. sectors - 1 : map'[l] = <<FreeId, 0>>
  BY <1>1 DEF EmptyMap
<1>3. 2 .. 2 - 1 = {} /\ 1 .. 0 = {} /\ 0 .. 0 - 1 = {}
  OBVIOUS
<1>4. Given'
  BY <1>1, <1>2, <1>3 DEF Given
<1>5. GivenSoFar'
  BY <1>1, <1>3 DEF GivenSoFar
<1> QED
  BY <1>4, <1>5

(* The number of used sectors is stored behind the pairs of the sectors.   *)
LEMMA MapDoneKeeps ==
  ASSUME ImageInv, ReadBackInv, MapDone
  PROVE  Given' /\ Written' /\ at' = Len(files')
<1>1. /\ stage = "map" /\ at = Len(files)
      /\ map' = [map EXCEPT ![LastPair][2] = (next - 1) % Bytes]
      /\ UNCHANGED <<sectors, files, needed, through, at, block, next, cartridge>>
      /\ next \in Nat /\ map \in [0 .. LastPair -> Nat \X Nat]
      /\ sectors \in Nat /\ sectors >= 2 /\ sectors <= LastPair /\ LastPair \in Nat
      /\ Given /\ cartridge = << >>
  BY GeometryFits DEF MapDone, ImageInv, ReadBackInv
<1>2. \A l \in 0 .. sectors - 1 : map'[l] = map[l]
  BY <1>1
<1>3. /\ 1 \in 0 .. sectors - 1 /\ next \in 2 .. sectors
      /\ \A l \in 2 .. next - 1 : l \in 0 .. sectors - 1
      /\ \A l \in next .. sectors - 1 : l \in 0 .. sectors - 1
  BY <1>1 DEF Given
<1>4. \A i, b : HasSector(i, b)' <=> HasSector(i, b)
  BY <1>1, <1>2, <1>3 DEF HasSector
<1>5. \A i : Blocks(files[i])' = Blocks(files[i])
  BY <1>1 DEF Blocks
<1>6. Given'
  <2>1. \A i \in 1 .. at : \A b \in 0 .. Blocks(files[i])' - 1 : HasSector(i, b)'
    BY <1>1, <1>4, <1>5 DEF Given
  <2>2. \A l, m \in 2 .. next - 1 : map'[l] = map'[m] => l = m
    BY <1>1, <1>2, <1>3 DEF Given
  <2>3. /\ map'[1] = <<0, 0>>
        /\ \A l \in next .. sectors - 1 : map'[l] = <<FreeId, 0>>
        /\ \A l \in 2 .. next - 1 : map'[l][1] \in 1 .. Len(files)
    BY <1>1, <1>2, <1>3 DEF Given
  <2> QED
    BY <1>1, <1>3, <2>1, <2>2, <2>3 DEF Given
<1>7. Written'
  <2>1. << >> \in Seq(Sectors') /\ Len(<< >>) = 0 /\ 1 .. 0 = {}
    OBVIOUS
  <2> QED
    BY <1>1, <2>1 DEF Written
<1> QED
  BY <1>1, <1>6, <1>7

(* While sectors are rendered the map stays as it is.                      *)
LEMMA SectorIsKept ==
  ASSUME UNCHANGED <<sectors, files, at, next, map>>
  PROVE  /\ Given => Given'
         /\ \A l : Sector(l)' = Sector(l)
         /\ \A k : Logical(k)' = Logical(k)
         /\ Sectors' = Sectors
<1>1. \A i, b : HasSector(i, b)' <=> HasSector(i, b)
  BY DEF HasSector
<1>2. \A i : Blocks(files[i])' = Blocks(files[i])
  BY DEF Blocks
<1>3. Given => Given'
  BY <1>1, <1>2 DEF Given
<1>4. \A l : Payload(l)' = Payload(l)
  BY DEF Payload, FilePart, Directory, Total
<1>5. \A l : Sector(l)' = Sector(l)
  BY <1>4 DEF Sector
<1>6. Sectors' = Sectors
  BY <1>5 DEF Sectors
<1> QED
  BY <1>3, <1>5, <1>6 DEF Logical

(* So do the sectors written.                                              *)
LEMMA WrittenStays ==
  ASSUME Written, UNCHANGED <<sectors, files, at, next, map, cartridge>>
  PROVE  Written'
  BY SectorIsKept DEF Written

(* The next sector comes behind those written.                             *)
LEMMA SectorComesNext ==
  ASSUME Written, sectors \in Nat, sectors >= 2, RenderSector
  PROVE  Written'
<1> DEFINE n == Len(cartridge)
<1>1. /\ n < sectors /\ cartridge' = Append(cartridge, Sector(Logical(n)))
      /\ UNCHANGED <<sectors, files, at, next, map>>
      /\ cartridge \in Seq(Sectors) /\ n \in Nat
  BY DEF RenderSector, Written
<1>2. Logical(n) \in 0 .. sectors - 1
  BY <1>1 DEF Logical
<1>3. Sector(Logical(n)) \in Sectors
  BY <1>2 DEF Sectors
<1>4. /\ cartridge' \in Seq(Sectors) /\ Len(cartridge') = n + 1
      /\ cartridge'[n + 1] = Sector(Logical(n))
      /\ \A k \in 1 .. n : cartridge'[k] = cartridge[k]
  <2> HIDE DEF n
  <2> QED
    BY <1>1, <1>3, AppendProperties DEF n
<1>5. \A k \in 1 .. n + 1 : cartridge'[k] = Sector(Logical(k - 1))
  <2> SUFFICES ASSUME NEW k \in 1 .. n + 1
               PROVE  cartridge'[k] = Sector(Logical(k - 1))
    OBVIOUS
  <2>1. CASE k = n + 1
    <3>1. k - 1 = n
      BY <1>1, <2>1
    <3> QED
      BY <1>4, <2>1, <3>1
  <2>2. CASE k # n + 1
    <3>1. k \in 1 .. n
      BY <1>1, <2>2
    <3> QED
      BY <1>4, <3>1 DEF Written
  <2> QED
    BY <2>1, <2>2
<1> HIDE DEF n
<1>6. \A k \in 1 .. Len(cartridge') : cartridge'[k] = Sector(Logical(k - 1))'
  BY <1>1, <1>4, <1>5, SectorIsKept
<1> QED
  BY <1>1, <1>4, <1>6, SectorIsKept DEF Written

(* Before the first call nothing is written.                               *)
LEMMA ReadBackStarts == ImageInit => ReadBackInv
<1>1. Len(<< >>) = 0 /\ MaxFiles \in Nat
  BY ImageAssumption
<1> QED
  BY <1>1 DEF ImageInit, ReadBackInv

(* Every step of fitting and rendering keeps what is read back.            *)
LEMMA ReadBackKept ==
  ImageInv /\ ReadBackInv /\ [ImageNext]_imageVars => ReadBackInv'
<1> SUFFICES ASSUME ImageInv, ReadBackInv, [ImageNext]_imageVars PROVE ReadBackInv'
  OBVIOUS
<1>1. ASSUME NEW sizes \in SizeLists, NEW geometry \in MinSectors .. MaxSectors,
             WriteImage(sizes, geometry)
      PROVE  ReadBackInv'
  <2>1. Len(sizes) <= MaxFiles
    <3>1. MaxFiles \in Nat
      BY ImageAssumption
    <3>2. PICK n \in 1 .. MaxFiles : sizes \in [1 .. n -> Nat]
      BY DEF SizeLists
    <3>3. Len(sizes) = n
      BY <3>1, <3>2
    <3> QED
      BY <3>1, <3>2, <3>3
  <2> QED
    BY <1>1, <2>1 DEF WriteImage, Goes, ReadBackInv
<1>2. CASE CountFile \/ Judge
  <2>1. /\ stage = "count" /\ stage' \in {"count", "fits", "refused"}
        /\ UNCHANGED <<files, cartridge>>
    BY <1>2 DEF CountFile, Judge, Goes
  <2> QED
    BY <2>1 DEF ReadBackInv
<1>3. CASE BeginRender
  <2>1. stage = "fits" /\ stage' = "map" /\ UNCHANGED <<files, cartridge>>
    BY <1>3 DEF BeginRender, Goes
  <2> QED
    BY <1>3, <2>1, NothingGiven DEF ReadBackInv
<1>4. CASE MapBlock
  <2>1. stage = "map" /\ UNCHANGED <<stage, files, cartridge>>
    BY <1>4 DEF MapBlock
  <2> QED
    BY <1>4, <2>1, MapBlockGives DEF ReadBackInv
<1>5. CASE NextFile
  <2>1. stage = "map" /\ UNCHANGED <<stage, files, cartridge>>
    BY <1>5 DEF NextFile
  <2> QED
    BY <1>5, <2>1, NextFileGives DEF ReadBackInv
<1>6. CASE MapDone
  <2>1. stage' = "sectors" /\ UNCHANGED files
    BY <1>6 DEF MapDone, Goes
  <2> QED
    BY <1>6, <2>1, MapDoneKeeps DEF ReadBackInv
<1>7. CASE RenderSector
  <2>1. stage = "sectors" /\ UNCHANGED <<stage, sectors, files, at, next, map>>
    BY <1>7 DEF RenderSector
  <2>2. sectors \in Nat /\ sectors >= 2
    BY GeometryFits DEF ImageInv
  <2> QED
    BY <1>7, <2>1, <2>2, SectorComesNext, SectorIsKept DEF ReadBackInv
<1>8. CASE Rendered
  <2>1. /\ stage = "sectors" /\ stage' = "rendered" /\ Len(cartridge) = sectors
        /\ UNCHANGED <<sectors, files, at, next, map, cartridge>>
    BY <1>8 DEF Rendered, Goes
  <2> QED
    BY <2>1, WrittenStays, SectorIsKept DEF ReadBackInv
<1>9. CASE UNCHANGED imageVars
  <2>1. UNCHANGED <<stage, sectors, files, at, block, next, map, cartridge>>
    BY <1>9 DEF imageVars
  <2>2. GivenSoFar => GivenSoFar'
    BY <2>1 DEF GivenSoFar, HasSector
  <2>3. Written => Written'
    BY <2>1, WrittenStays
  <2>4. Given => Given'
    BY <2>1, SectorIsKept
  <2> QED
    BY <2>1, <2>2, <2>3, <2>4 DEF ReadBackInv
<1> QED
  BY <1>1, <1>2, <1>3, <1>4, <1>5, <1>6, <1>7, <1>8, <1>9 DEF ImageNext

(* The reader finds each logical sector, once.                             *)
LEMMA SectorsAreFound ==
  ASSUME ImageInv, ReadBackInv, stage = "rendered"
  PROVE  /\ \A l \in 0 .. sectors - 1 :
              /\ SectorOf(l) \in DOMAIN cartridge
              /\ cartridge[SectorOf(l)] = Sector(l)
         /\ \A k \in DOMAIN cartridge : /\ Logical(k - 1) \in 0 .. sectors - 1
                                        /\ cartridge[k] = Sector(Logical(k - 1))
                                        /\ cartridge[k].logical = Logical(k - 1)
         /\ DOMAIN cartridge = 1 .. sectors
<1>1. /\ sectors \in Nat /\ sectors >= 2 /\ sectors <= Bytes /\ Bytes \in Nat
      /\ cartridge \in Seq(Sectors) /\ Len(cartridge) = sectors
      /\ \A k \in 1 .. Len(cartridge) : cartridge[k] = Sector(Logical(k - 1))
  BY GeometryFits DEF ImageInv, ReadBackInv, Written
<1>2. DOMAIN cartridge = 1 .. sectors
  BY <1>1
<1>3. ASSUME NEW k \in 1 .. sectors
      PROVE  /\ Logical(k - 1) \in 0 .. sectors - 1
             /\ cartridge[k] = Sector(Logical(k - 1))
             /\ cartridge[k].logical = Logical(k - 1)
  <2>1. Logical(k - 1) \in 0 .. sectors - 1
    BY <1>1 DEF Logical
  <2>2. PICK l \in Nat : l = Logical(k - 1)
    BY <1>1, <2>1
  <2>3. l % Bytes = l
    BY <1>1, <2>1, <2>2, SmallRemainder
  <2> QED
    BY <1>1, <2>1, <2>2, <2>3 DEF Sector
<1>4. ASSUME NEW l \in 0 .. sectors - 1
      PROVE  SectorOf(l) \in 1 .. sectors /\ cartridge[SectorOf(l)] = Sector(l)
  <2>1. \E k \in 1 .. sectors : Logical(k - 1) = l
    <3>1. CASE l = 0
      <4>1. 1 \in 1 .. sectors /\ Logical(1 - 1) = l
        BY <1>1, <3>1 DEF Logical
      <4> QED
        BY <4>1
    <3>2. CASE l # 0
      <4>1. PICK k : k = sectors - l + 1
        OBVIOUS
      <4>2. k \in 1 .. sectors /\ Logical(k - 1) = l
        BY <1>1, <3>2, <4>1 DEF Logical
      <4> QED
        BY <4>2
    <3> QED
      BY <3>1, <3>2
  <2>2. \E k \in DOMAIN cartridge : cartridge[k].logical = l
    BY <1>2, <1>3, <2>1
  <2>3. SectorOf(l) \in DOMAIN cartridge /\ cartridge[SectorOf(l)].logical = l
    BY <2>2 DEF SectorOf
  <2> QED
    BY <1>2, <1>3, <2>3
<1> QED
  BY <1>2, <1>3, <1>4

(* What is read from the map.                                              *)
LEMMA MapIsRead ==
  ASSUME ImageInv, ReadBackInv, stage = "rendered"
  PROVE  MapRead = map
<1>1. 0 \in 0 .. sectors - 1
  BY GeometryFits DEF ImageInv
<1>2. cartridge[SectorOf(0)] = Sector(0)
  BY <1>1, SectorsAreFound
<1> QED
  BY <1>2 DEF MapRead, Sector, Payload

(* The directory has sector 1 for its own.                                 *)
LEMMA DirectoryIsFound ==
  ASSUME ImageInv, ReadBackInv, stage = "rendered"
  PROVE  /\ 1 \in 1 .. sectors - 1 /\ SectorsOf(0, 0) = {1}
         /\ cartridge[SectorOf(1)].payload = Directory
<1>1. /\ sectors \in Nat /\ sectors >= 2 /\ next \in 2 .. sectors
      /\ map[1] = <<0, 0>>
      /\ \A l \in next .. sectors - 1 : map[l] = <<FreeId, 0>>
      /\ \A l \in 2 .. next - 1 : map[l][1] \in 1 .. Len(files)
  BY GeometryFits DEF ImageInv, ReadBackInv, Given
<1>2. FreeId # 0 /\ Len(files) \in Nat
  <2>1. FreeId \in MaxFiles + 1 .. Bytes - 1 /\ MaxFiles \in Nat /\ Bytes \in Nat
    BY ImageAssumption
  <2> QED
    BY <2>1 DEF ImageInv
<1>3. ASSUME NEW l \in 1 .. sectors - 1, l # 1
      PROVE  map[l] # <<0, 0>>
  <2>1. CASE l \in 2 .. next - 1
    <3>1. map[l][1] \in 1 .. Len(files)
      BY <1>1, <2>1
    <3> QED
      BY <1>2, <3>1
  <2>2. CASE l \notin 2 .. next - 1
    <3>1. l \in next .. sectors - 1
      BY <1>1, <1>3, <2>2
    <3>2. map[l] = <<FreeId, 0>>
      BY <1>1, <3>1
    <3> QED
      BY <1>2, <3>2
  <2> QED
    BY <2>1, <2>2
<1>4. 1 \in 1 .. sectors - 1 /\ 1 \in 0 .. sectors - 1
  BY <1>1
<1>5. SectorsOf(0, 0) = {1}
  BY <1>1, <1>3, <1>4, MapIsRead DEF SectorsOf
<1>6. cartridge[SectorOf(1)] = Sector(1)
  BY <1>4, SectorsAreFound
<1>7. Sector(1).payload = Directory
  <2>1. map[1][1] = 0
    BY <1>1
  <2>2. Payload(1) = Directory
    BY <1>2, <2>1 DEF Payload
  <2> QED
    BY <2>2 DEF Sector
<1> QED
  BY <1>4, <1>5, <1>6, <1>7

(* Each block of a file is found on a sector of its own.                   *)
LEMMA BlockIsFound ==
  ASSUME ImageInv, ReadBackInv, stage = "rendered",
         NEW i \in 1 .. Len(files), NEW b \in 0 .. Blocks(files[i]) - 1
  PROVE  BlockReadsBack(i, b, Total(i))
<1>1. /\ sectors \in Nat /\ sectors >= 2 /\ next \in 2 .. sectors
      /\ map[1] = <<0, 0>> /\ at = Len(files)
      /\ \A l \in next .. sectors - 1 : map[l] = <<FreeId, 0>>
      /\ \A l, m \in 2 .. next - 1 : map[l] = map[m] => l = m
      /\ files \in Seq(Nat) /\ Len(files) \in Nat /\ Len(files) <= MaxFiles
      /\ HasSector(i, b)
  BY GeometryFits DEF ImageInv, ReadBackInv, Given
<1>2. i # 0 /\ i # FreeId /\ files[i] \in Nat
  <2>1. FreeId \in MaxFiles + 1 .. Bytes - 1 /\ MaxFiles \in Nat /\ Bytes \in Nat
    BY ImageAssumption
  <2> QED
    BY <1>1, <2>1
<1>3. PICK l \in 2 .. next - 1 : map[l] = <<i, b>>
  BY <1>1 DEF HasSector
<1>4. l \in 1 .. sectors - 1 /\ l \in 0 .. sectors - 1 /\ l # 0
  BY <1>1
<1>5. SectorsOf(i, b) = {l}
  <2>1. ASSUME NEW m \in 1 .. sectors - 1, map[m] = <<i, b>>
        PROVE  m = l
    <3>1. m # 1
      BY <1>1, <1>2, <2>1
    <3>2. m \notin next .. sectors - 1
      BY <1>1, <1>2, <2>1
    <3>3. m \in 2 .. next - 1
      BY <1>1, <3>1, <3>2
    <3> QED
      BY <1>1, <1>3, <2>1, <3>3
  <2> QED
    BY <1>3, <1>4, <2>1, MapIsRead DEF SectorsOf
<1>6. cartridge[SectorOf(l)] = Sector(l)
  BY <1>4, SectorsAreFound
<1>7. map[l][1] = i /\ map[l][2] = b
  BY <1>3
<1>8. /\ Sector(l).id = i /\ Sector(l).block = b
      /\ Sector(l).payload = FilePart(i, b * DataSize)
  BY <1>2, <1>4, <1>7 DEF Sector, Payload
<1>9. ASSUME NEW k \in 1 .. DataSize, b * DataSize + k <= Total(i)
      PROVE  FilePart(i, b * DataSize)[k] = <<i, b * DataSize + k - 1>>
  <2>1. DataSize \in Nat /\ HeaderSize \in Nat /\ b \in Nat /\ Total(i) \in Nat
    <3>1. Blocks(files[i]) \in Nat
      BY <1>2, BlocksAreThoseMapped
    <3> QED
      BY <1>2, <3>1, ImageNumbers DEF Total
  <2>2. PICK from \in Nat : from = b * DataSize
    BY <2>1
  <2>3. k \in 1 .. (IF from + DataSize <= Total(i) THEN DataSize ELSE Total(i) - from)
    BY <1>9, <2>1, <2>2
  <2>4. FilePart(i, from)[k] = <<i, from + k - 1>>
    BY <2>3 DEF FilePart
  <2> QED
    BY <2>2, <2>4
<1> QED
  BY <1>4, <1>5, <1>6, <1>8, <1>9 DEF BlockReadsBack

(* A cartridge that was rendered gives back every file: the map names each *)
(* sector as the sector does, the directory tells the lengths, and block   *)
(* by block the bytes are found.                                           *)
THEOREM FilesReadBack == ImageSpec => []EveryFileReadsBack
<1>1. ImageInv /\ ReadBackInv => EveryFileReadsBack
  <2> SUFFICES ASSUME ImageInv, ReadBackInv, stage = "rendered"
               PROVE  EveryFileReadsBack
    BY DEF EveryFileReadsBack
  <2>1. /\ sectors \in Nat /\ sectors >= 2 /\ Len(cartridge) = sectors
        /\ files \in Seq(Nat) /\ Len(files) \in Nat /\ sectors <= LastPair
        /\ map \in [0 .. LastPair -> Nat \X Nat] /\ LastPair \in Nat
    BY GeometryFits DEF ImageInv, ReadBackInv
  <2>2. DOMAIN cartridge = 1 .. sectors
    BY SectorsAreFound
  <2>3. {cartridge[k].logical : k \in DOMAIN cartridge} = 0 .. sectors - 1
    <3>1. \A k \in DOMAIN cartridge : cartridge[k].logical \in 0 .. sectors - 1
      BY SectorsAreFound
    <3>2. ASSUME NEW l \in 0 .. sectors - 1
          PROVE  \E k \in DOMAIN cartridge : cartridge[k].logical = l
      <4>1. SectorOf(l) \in DOMAIN cartridge /\ cartridge[SectorOf(l)] = Sector(l)
        BY SectorsAreFound
      <4>2. cartridge[SectorOf(l)].logical = Logical(SectorOf(l) - 1)
        BY <4>1, SectorsAreFound
      <4>3. Sector(l).logical = l % Bytes
        BY DEF Sector
      <4>4. l % Bytes = l
        <5>1. Bytes \in Nat /\ sectors <= Bytes
          BY GeometryFits DEF ImageInv
        <5>2. l \in Nat /\ l < Bytes
          BY <2>1, <5>1
        <5> QED
          BY <5>1, <5>2, SmallRemainder
      <4> QED
        BY <4>1, <4>3, <4>4
    <3> QED
      BY <3>1, <3>2
  <2>4. ASSUME NEW k \in DOMAIN cartridge
        PROVE  <<cartridge[k].id, cartridge[k].block>> = MapRead[cartridge[k].logical]
    <3>1. PICK l \in 0 .. sectors - 1 : cartridge[k] = Sector(l) /\ cartridge[k].logical = l
      BY SectorsAreFound
    <3>2. cartridge[k].id = map[l][1] /\ cartridge[k].block = map[l][2]
      BY <3>1 DEF Sector
    <3>3. map[l] \in Nat \X Nat
      BY <2>1
    <3>4. <<map[l][1], map[l][2]>> = map[l]
      BY <3>3
    <3> QED
      BY <3>1, <3>2, <3>4, MapIsRead
  <2> DEFINE directory == cartridge[SectorOf(1)].payload
  <2>5. directory = Directory
    BY DirectoryIsFound
  <2>6. /\ Len(Directory) = Len(files) + 1
        /\ Directory[1] = (Len(files) + 1) * HeaderSize
        /\ \A i \in DOMAIN files : Directory[i + 1] = Total(i)
    <3> DEFINE n == Len(files)
               a == <<(n + 1) * HeaderSize>>
               c == [i \in 1 .. n |-> Total(i)]
    <3>1. a \in Seq(Int) /\ c \in Seq(Int) /\ Len(a) = 1 /\ Len(c) = n
      <4>1. HeaderSize \in Int /\ \A i \in 1 .. n : Total(i) \in Int
        BY <2>1, ImageNumbers DEF Total
      <4>2. (n + 1) * HeaderSize \in Int
        BY <2>1, <4>1
      <4>3. c \in [1 .. n -> Int]
        BY <4>1
      <4>4. c \in Seq(Int) /\ Len(c) = n
        <5>1. n \in Nat
          BY <2>1
        <5> HIDE DEF n
        <5>2. c \in Seq(Int)
          BY <4>3, <5>1, SeqDef
        <5>3. DOMAIN c = 1 .. n
          BY <4>3
        <5> HIDE DEF c
        <5> QED
          BY <5>1, <5>2, <5>3, LenProperties
      <4> QED
        BY <4>2, <4>4
    <3>2. Directory = a \o c
      BY DEF Directory
    <3>3. /\ Len(a \o c) = Len(a) + Len(c)
          /\ \A i \in 1 .. Len(a) + Len(c) :
               (a \o c)[i] = IF i <= Len(a) THEN a[i] ELSE c[i - Len(a)]
      BY <3>1, ConcatProperties
    <3>4. \A i \in 1 .. n : i + 1 \in 1 .. Len(a) + Len(c) /\ ~(i + 1 <= Len(a))
                            /\ i + 1 - Len(a) = i /\ c[i] = Total(i)
      BY <2>1, <3>1
    <3>5. 1 \in 1 .. Len(a) + Len(c) /\ 1 <= Len(a) /\ a[1] = (n + 1) * HeaderSize
      BY <2>1, <3>1
    <3>6. DOMAIN files = 1 .. n /\ 1 + n = n + 1
      BY <2>1
    <3> HIDE DEF a, c, n
    <3>7. (a \o c)[1] = a[1]
      BY <3>3, <3>5
    <3>8. \A i \in 1 .. n : (a \o c)[i + 1] = c[i]
      BY <3>3, <3>4
    <3>9. \A i \in 1 .. n : (a \o c)[i + 1] = Total(i)
      BY <3>4, <3>8
    <3> QED
      BY <3>1, <3>2, <3>3, <3>5, <3>6, <3>7, <3>9 DEF n
  <2>7. ASSUME NEW i \in DOMAIN files, NEW b \in 0 .. (Total(i) - 1) \div DataSize
        PROVE  BlockReadsBack(i, b, Total(i))
    <3>1. i \in 1 .. Len(files) /\ files[i] \in Nat
      BY <2>1
    <3>2. DataSize \in Nat /\ DataSize > 0 /\ HeaderSize \in Nat /\ HeaderSize > 0
      BY ImageNumbers
    <3>3. PICK n \in Nat : n = Total(i) - 1 /\ n + 1 = files[i] + HeaderSize
      <4>1. PICK n \in Nat : n = Total(i) - 1
        BY <3>1, <3>2 DEF Total
      <4>2. n + 1 = files[i] + HeaderSize
        BY <3>1, <3>2, <4>1 DEF Total
      <4> QED
        BY <4>1, <4>2
    <3>4. PICK q : q = n \div DataSize
      OBVIOUS
    <3>5. q \in Nat /\ q * DataSize <= n
      BY <3>2, <3>4, Quotient
    <3>6. b \in Nat /\ b <= q
      BY <3>3, <3>4, <3>5
    <3>7. b * DataSize <= q * DataSize
      BY <3>2, <3>5, <3>6
    <3>8. b * DataSize < files[i] + HeaderSize
      <4>1. b * DataSize \in Int /\ q * DataSize \in Int
        BY <3>2, <3>5, <3>6
      <4>4. \A x, y \in Int : x <= y /\ y <= n => x < n + 1
        OBVIOUS
      <4>5. b * DataSize < n + 1
        BY <3>5, <3>7, <4>1, <4>4
      <4> QED
        BY <3>3, <4>5
    <3>9. b \in 0 .. Blocks(files[i]) - 1
      <4>1. /\ Blocks(files[i]) \in Nat
            /\ b * DataSize < files[i] + HeaderSize <=> b < Blocks(files[i])
        BY <3>1, <3>6, BlocksAreThoseMapped
      <4> QED
        BY <3>6, <3>8, <4>1
    <3> QED
      BY <3>1, <3>9, BlockIsFound
  <2>8. /\ directory[1] = Len(directory) * HeaderSize
        /\ Len(directory) = Len(files) + 1
        /\ \A i \in DOMAIN files :
             /\ directory[i + 1] = files[i] + HeaderSize
             /\ \A b \in 0 .. (directory[i + 1] - 1) \div DataSize :
                  BlockReadsBack(i, b, directory[i + 1])
    <3> HIDE DEF directory
    <3>1. \A i \in DOMAIN files : directory[i + 1] = Total(i)
      BY <2>5, <2>6
    <3>2. directory[1] = Len(directory) * HeaderSize /\ Len(directory) = Len(files) + 1
      BY <2>5, <2>6
    <3> QED
      BY <2>7, <3>1, <3>2 DEF Total
  <2>9. 1 \in 1 .. sectors - 1 /\ SectorsOf(0, 0) = {1}
    BY DirectoryIsFound
  <2> QED
    BY <2>1, <2>3, <2>4, <2>8, <2>9 DEF EveryFileReadsBack
<1> QED
  BY <1>1, ImageStarts, ImageStepKeeps, ReadBackStarts, ReadBackKept, PTL DEF ImageSpec

-----------------------------------------------------------------------------
(* The run of the program.                                                 *)

(* The sizes a file may have are numbers.                                  *)
LEMMA SizesAreNumbers ==
  ASSUME NEW name \in Shared \cup {"binary"}
  PROVE  SizesOf(name) \subseteq Nat
BY PipelineAssumption DEF SizesOf, Shared

(* Bytes read behind the data have their positions.                        *)
LEMMA ReadsOn ==
  ASSUME NEW d \in Seq(Nat \X Nat), NEW v \in Nat, NEW count \in Nat,
         \A k \in 1 .. Len(d) : d[k][2] = k - 1 /\ (v = 0 => d[k][1] = 0)
  PROVE  LET more == [k \in 1 .. count |-> <<v, Len(d) + k - 1>>]
         IN  /\ d \o more \in Seq(Nat \X Nat) /\ Len(d \o more) = Len(d) + count
             /\ \A k \in 1 .. Len(d \o more) :
                  (d \o more)[k][2] = k - 1 /\ (v = 0 => (d \o more)[k][1] = 0)
<1> DEFINE more == [k \in 1 .. count |-> <<v, Len(d) + k - 1>>]
<1>1. Len(d) \in Nat
  OBVIOUS
<1>2. more \in Seq(Nat \X Nat) /\ Len(more) = count
  <2>1. \A k \in 1 .. count : Len(d) + k - 1 \in Nat
    BY <1>1
  <2>2. \A k \in 1 .. count : <<v, Len(d) + k - 1>> \in Nat \X Nat
    BY <2>1
  <2>3. more \in [1 .. count -> Nat \X Nat]
    BY <2>2
  <2> QED
    BY <2>3
<1>3. \A k \in 1 .. count : more[k][1] = v /\ more[k][2] = Len(d) + k - 1
  OBVIOUS
<1> HIDE DEF more
<1>4. d \o more \in Seq(Nat \X Nat) /\ Len(d \o more) = Len(d) + count
  BY <1>2, ConcatProperties
<1>5. ASSUME NEW k \in 1 .. Len(d \o more)
      PROVE  (d \o more)[k][2] = k - 1 /\ (v = 0 => (d \o more)[k][1] = 0)
  <2>1. CASE k <= Len(d)
    <3>1. (d \o more)[k] = d[k] /\ k \in 1 .. Len(d)
      BY <1>1, <1>2, <1>4, <2>1
    <3> QED
      BY <3>1
  <2>2. CASE k > Len(d)
    <3>1. (d \o more)[k] = more[k - Len(d)] /\ k - Len(d) \in 1 .. count
      BY <1>1, <1>2, <1>4, <2>2
    <3>2. Len(d) + (k - Len(d)) - 1 = k - 1
      BY <1>1
    <3> QED
      BY <1>3, <3>1, <3>2
  <2> QED
    BY <1>1, <2>1, <2>2
<1> QED
  BY <1>4, <1>5 DEF more
-----------------------------------------------------------------------------
(* The steps of read_file.                                                 *)
LEMMA ReadStepKeeps ==
  ASSUME ReadInv, ReadStep
  PROVE  ReadInv'
<1>1. CASE Fstat
  BY <1>1 DEF Fstat, Fails, ReadInv
<1>2. CASE Malloc
  <2>1. UNCHANGED <<path, content, told, data>> /\ data = << >> /\ call = "malloc"
        /\ call' \in {"read", "false"}
    BY <1>2 DEF Malloc, Fails, ReadInv
  <2>2. Len(data) = 0
    BY <2>1
  <2>3. told \in Nat /\ (content.version = 0 => told = content.size)
    BY <2>1 DEF ReadInv
  <2> QED
    BY <2>1, <2>2, <2>3 DEF ReadInv
<1>3. CASE Read
  <2>1. UNCHANGED <<call, path, content, told>> /\ call = "read"
    BY <1>3 DEF Read
  <2>2. PICK count \in 1 .. Wanted :
          data' = data \o [k \in 1 .. count |-> <<content.version, Len(data) + k - 1>>]
    BY <1>3 DEF Read
  <2>3. /\ data \in Seq(Nat \X Nat) /\ content.version \in Nat /\ told \in Nat
        /\ Len(data) \in Nat /\ Len(data) <= told
        /\ \A k \in 1 .. Len(data) :
             data[k][2] = k - 1 /\ (content.version = 0 => data[k][1] = 0)
    BY <2>1 DEF ReadInv
  <2>4. count \in Nat /\ Len(data) + count <= told
    BY <2>3 DEF Wanted
  <2>5. /\ data' \in Seq(Nat \X Nat) /\ Len(data') = Len(data) + count
        /\ \A k \in 1 .. Len(data') :
             data'[k][2] = k - 1 /\ (content.version = 0 => data'[k][1] = 0)
    BY <2>2, <2>3, <2>4, ReadsOn
  <2> QED
    BY <2>1, <2>4, <2>5 DEF ReadInv
<1>4. CASE ReadStops
  BY <1>4 DEF ReadStops, Fails, ReadInv
<1>5. CASE CloseFile
  <2>1. UNCHANGED <<path, content, told, data>> /\ call = "read" /\ Len(data) >= told
        /\ call' \in {"true", "false"}
    BY <1>5 DEF CloseFile, Fails
  <2>2. Len(data) \in Nat /\ told \in Nat /\ Len(data) <= told
    BY <2>1 DEF ReadInv
  <2>3. Len(data) = told
    BY <2>1, <2>2
  <2> QED
    BY <2>1, <2>3 DEF ReadInv
<1> QED
  BY <1>1, <1>2, <1>3, <1>4, <1>5 DEF ReadStep

(* The reading is disturbed by nothing but its own steps and the writer.   *)
LEMMA ReadKept ==
  ASSUME PipelineInv, [PipelineNext]_pipelineVars
  PROVE  ReadInv'
<1>1. ReadInv
  BY DEF PipelineInv
<1>2. CASE UNCHANGED <<call, path, content, told, data>>
  BY <1>1, <1>2 DEF ReadInv
<1>3. CASE CallRead
  <2>1. pc \in Shared \cup {"binary"}
    BY <1>3 DEF CallRead
  <2>2. told' = 0 /\ data' = << >> /\ call' \in {"fstat", "false"}
        /\ (content' = NoFile \/ \E size \in SizesOf(pc) : content' = [ size |-> size, version |-> 0 ])
    BY <1>3 DEF CallRead, OpenFile
  <2>3. content'.version \in Nat /\ content'.size \in Nat
    BY <2>1, <2>2, SizesAreNumbers DEF NoFile
  <2> QED
    BY <2>2, <2>3 DEF ReadInv
<1>4. CASE Reading
  <2>1. CASE ReadStep
    BY <1>1, <2>1, ReadStepKeeps
  <2>2. CASE path \in Shared /\ FileChanges(SizesOf(path))
    <3>1. PICK size \in SizesOf(path) :
            content' = [ size |-> size, version |-> content.version + 1 ]
      BY <2>2 DEF FileChanges
    <3>2. content'.size \in Nat /\ content'.version \in Nat /\ content'.version # 0
      <4>1. size \in Nat
        BY <2>2, SizesAreNumbers
      <4>2. content.version \in Nat
        BY <1>1 DEF ReadInv
      <4> QED
        BY <3>1, <4>1, <4>2
    <3>3. UNCHANGED <<call, told, data>>
      BY <2>2 DEF FileChanges
    <3> QED
      BY <1>1, <3>2, <3>3 DEF ReadInv
  <2> QED
    BY <1>4, <2>1, <2>2 DEF Reading
<1>5. CASE ReadReturns
  BY <1>1, <1>5 DEF ReadInv, ReadReturns, NoFile
<1>6. CASE ScreenRead \/ InputRead \/ PlayerRead \/ BinaryRead
  BY <1>5, <1>6 DEF ScreenRead, InputRead, PlayerRead, BinaryRead, Reads
<1>7. CASE \/ Locate \/ Parse \/ Convert \/ Compress \/ Mkdtemp \/ CreateSource \/ Fdopen
           \/ WriteSource \/ CloseSource \/ Assemble \/ MakeBoot \/ FitImage \/ BeginOutput
           \/ RenderImage \/ OutputFails \/ FinishOutput \/ Clean \/ Unlink \/ Rmdir \/ Exit
           \/ Kill
  BY <1>2, <1>7 DEF Locate, Parse, Convert, Compress, Mkdtemp, CreateSource, Fdopen,
     WriteSource, CloseSource, Assemble, MakeBoot, FitImage, BeginOutput, RenderImage,
     OutputFails, FinishOutput, Clean, Unlink, Rmdir, Exit, Kill, reading
<1>8. CASE UNCHANGED pipelineVars
  BY <1>2, <1>8 DEF pipelineVars, reading
<1> QED
  BY <1>3, <1>4, <1>6, <1>7, <1>8 DEF PipelineNext
-----------------------------------------------------------------------------
(* A call of read_file takes the buffer and the descriptor, or neither.    *)
LEMMA ReadHolds ==
  ASSUME Holdings, InCall, ReadStep, UNCHANGED pc
  PROVE  Holdings'
<1>1. /\ path = pc /\ pc \in {"screen", "input", "player", "binary"}
      /\ heap \subseteq OwnedAt(pc) \cup (IF call # "false" THEN {path} ELSE {})
      /\ open \subseteq (IF call \in {"fstat", "malloc", "read"} THEN {"file"} ELSE {})
                       \cup (IF pc \in {"fdopen", "write_source", "close_source"}
                             THEN {"source"} ELSE {})
  BY DEF Holdings
<1>2. path' = path /\ OwnedAt(pc)' = OwnedAt(pc) /\ call' # "no"
  BY DEF ReadStep, Fstat, Malloc, Read, ReadStops, CloseFile, Fails, OwnedAt, InCall
<1>3. CASE Fails
  BY <1>1, <1>2, <1>3 DEF Fails, Holdings, InCall
<1>4. CASE ~Fails
  <2>1. \/ heap' = heap /\ open' = open /\ call' \in {"malloc", "read"} /\ call # "false"
           /\ call \in {"fstat", "malloc", "read"}
        \/ heap' = heap \cup {path} /\ open' = open /\ call' = "read" /\ call = "malloc"
        \/ heap' = heap /\ open' = open \ {"file"} /\ call' = "true" /\ call = "read"
    BY <1>4 DEF ReadStep, Fstat, Malloc, Read, ReadStops, CloseFile
  <2> QED
    BY <1>1, <1>2, <2>1 DEF Holdings, InCall
<1> QED
  BY <1>3, <1>4

(* What a run holds follows the step it has come to.                       *)
LEMMA HoldingsKept ==
  ASSUME PipelineInv, [PipelineNext]_pipelineVars
  PROVE  Holdings'
<1>1. Holdings
  BY DEF PipelineInv
<1>2. CASE CallRead
  <2>1. /\ pc \in {"screen", "input", "player", "binary"} /\ pc' = pc /\ path' = pc
        /\ call = "no" /\ heap' = heap
        /\ (call' = "fstat" /\ open' = open \cup {"file"}) \/ (call' = "false" /\ open' = open)
    BY <1>2 DEF CallRead, OpenFile, Shared
  <2>2. OwnedAt(pc)' = OwnedAt(pc)
    BY <2>1 DEF OwnedAt
  <2> QED
    BY <1>1, <2>1, <2>2 DEF Holdings, InCall, Shared
<1>3. CASE Reading
  <2>1. pc' = pc /\ pc = path
    BY <1>3 DEF Reading
  <2>2. CASE ReadStep
    <3>1. CASE pc = "killed"
      <4>1. FALSE
        BY <1>1, <2>1, <3>1 DEF Holdings, Shared
      <4> QED
        BY <4>1
    <3>2. CASE pc # "killed"
      <4>1. InCall
        BY <2>2, <3>2 DEF InCall, ReadStep, Fstat, Malloc, Read, ReadStops, CloseFile
      <4> QED
        BY <1>1, <2>1, <2>2, <4>1, ReadHolds
    <3> QED
      BY <3>1, <3>2
  <2>3. CASE FileChanges(SizesOf(path))
    <3>1. UNCHANGED <<call, path, heap, open>>
      BY <2>3 DEF FileChanges
    <3> QED
      BY <1>1, <2>1, <3>1 DEF Holdings, InCall, OwnedAt
  <2> QED
    BY <1>3, <2>2, <2>3 DEF Reading
<1>4. CASE ScreenRead \/ InputRead \/ PlayerRead \/ BinaryRead
  <2>1. CASE ScreenRead
    <3>1. /\ pc = "screen" /\ call \in {"true", "false"} /\ call' = "no" /\ path' = path
          /\ open' = open /\ pc' \in {"input", "parse", "exit"}
      BY <2>1 DEF ScreenRead, Reads, ReadReturns, Goto, Quits, held
    <3>2. path = "screen" /\ open = {}
          /\ heap \subseteq {} \cup (IF call = "true" THEN {"screen"} ELSE {})
      BY <1>1, <3>1 DEF Holdings, InCall, OwnedAt
    <3>3. heap' \subseteq OwnedAt(pc)'
      BY <2>1, <3>1, <3>2 DEF ScreenRead, Reads, Goto, Quits, held, OwnedAt
    <3>4. \/ pc' = "input" /\ OwnedAt(pc)' = {"screen"}
          \/ pc' = "parse" \/ pc' = "exit"
      BY <3>1 DEF OwnedAt
    <3> QED
      BY <1>1, <3>1, <3>2, <3>3, <3>4 DEF Holdings, InCall
  <2>2. CASE InputRead
    <3>1. /\ pc = "input" /\ call \in {"true", "false"} /\ call' = "no" /\ path' = path
          /\ open' = open /\ pc' \in {"input", "parse", "exit"}
      BY <2>2 DEF InputRead, Reads, ReadReturns, Goto, Quits, held
    <3>2. path = "input" /\ open = {}
          /\ heap \subseteq {"screen"} \cup (IF call = "true" THEN {"input"} ELSE {})
      BY <1>1, <3>1 DEF Holdings, InCall, OwnedAt
    <3>3. heap' \subseteq OwnedAt(pc)'
      BY <2>2, <3>1, <3>2 DEF InputRead, Reads, Goto, Quits, held, OwnedAt
    <3>4. \/ pc' = "input" /\ OwnedAt(pc)' = {"screen"}
          \/ pc' = "parse" \/ pc' = "exit"
      BY <3>1 DEF OwnedAt
    <3> QED
      BY <1>1, <3>1, <3>2, <3>3, <3>4 DEF Holdings, InCall
  <2>3. CASE PlayerRead
    BY <1>1, <2>3 DEF PlayerRead, Reads, ReadReturns, Goto, GivesUp, held, Holdings, InCall, OwnedAt, Kept
  <2>4. CASE BinaryRead
    BY <1>1, <2>4 DEF BinaryRead, Reads, ReadReturns, Goto, GivesUp, held, Holdings, InCall, OwnedAt, Kept
  <2> QED
    BY <1>4, <2>1, <2>2, <2>3, <2>4
<1>5. CASE Locate \/ Parse \/ Convert \/ Compress
  BY <1>1, <1>5 DEF Locate, Parse, Convert, Compress, Goto, Quits, held, reading,
     Holdings, InCall, OwnedAt, Kept
<1>6. CASE Mkdtemp \/ CreateSource \/ Fdopen \/ WriteSource \/ CloseSource \/ Assemble
  BY <1>1, <1>6 DEF Mkdtemp, CreateSource, Fdopen, WriteSource, CloseSource, Assemble,
     Goto, GivesUp, held, reading, Holdings, InCall, OwnedAt, Kept
<1>7. CASE MakeBoot \/ FitImage \/ BeginOutput \/ RenderImage \/ OutputFails \/ FinishOutput
  BY <1>1, <1>7 DEF MakeBoot, FitImage, BeginOutput, RenderImage, OutputFails, FinishOutput,
     Goto, GivesUp, held, reading, Holdings, InCall, OwnedAt, Kept
<1>8. CASE Clean \/ Unlink \/ Rmdir \/ Exit \/ Kill
  BY <1>1, <1>8 DEF Clean, Unlink, Rmdir, Exit, Kill, Goto, held, reading,
     Holdings, InCall, OwnedAt, Kept
<1>9. CASE UNCHANGED pipelineVars
  BY <1>1, <1>9 DEF pipelineVars, held, reading, Holdings, InCall, OwnedAt
<1> QED
  BY <1>2, <1>3, <1>4, <1>5, <1>6, <1>7, <1>8, <1>9 DEF PipelineNext
-----------------------------------------------------------------------------
(* What a removal leaves of the temporary directory.                       *)
LEMMA RemovesOrRefuses ==
  ASSUME NEW name, Removes(name)
  PROVE  /\ tmp' \subseteq tmp /\ stuck \subseteq stuck'
         /\ name \in tmp' => stuck' # {}
         /\ tmp \ {name} \subseteq tmp'
BY DEF Removes

(* What exists of the temporary directory follows the step, too.           *)
LEMMA LeavingsKept ==
  ASSUME PipelineInv, [PipelineNext]_pipelineVars
  PROVE  Leavings'
<1>1. Leavings /\ Outcome
  BY DEF PipelineInv
<1>2. CASE CallRead \/ Reading \/ ScreenRead \/ InputRead \/ PlayerRead \/ BinaryRead
  <2>1. UNCHANGED temporary
    BY <1>2 DEF CallRead, Reading, ScreenRead, InputRead, PlayerRead, BinaryRead
  <2>2. \/ pc' = pc
        \/ pc \in Early /\ pc' \in Early \cup {"exit"}
        \/ pc \notin Early \cup Cleaning /\ pc' \in Making \cup {"clean"}
    BY <1>2 DEF CallRead, Reading, ScreenRead, InputRead, PlayerRead, BinaryRead, Reads, Goto,
       Quits, GivesUp, Early, Making, Cleaning
  <2> QED
    BY <1>1, <2>1, <2>2 DEF temporary, Leavings, Refused, Early, Making
<1>3. CASE Locate \/ Parse \/ Convert \/ Compress
  <2>1. UNCHANGED temporary /\ pc \in Early /\ pc' \in Early \cup {"exit"}
    BY <1>3 DEF Locate, Parse, Convert, Compress, Goto, Quits, Early
  <2> QED
    BY <1>1, <2>1 DEF temporary, Leavings, Refused, Early
<1>4. CASE Mkdtemp
  BY <1>1, <1>4 DEF Mkdtemp, Goto, Leavings, Refused, Early
<1>5. CASE CreateSource \/ Fdopen \/ WriteSource \/ CloseSource \/ Assemble
  <2>1. /\ stuck' = stuck /\ pc' \in Making \cup {"clean"}
        /\ tmp' \subseteq tmp \cup {"source", "binary", "litter"}
    BY <1>5 DEF CreateSource, Fdopen, WriteSource, CloseSource, Assemble, Goto, GivesUp,
       temporary, Making
  <2> QED
    BY <1>1, <2>1 DEF Leavings, Early, Making
<1>6. CASE MakeBoot \/ FitImage \/ BeginOutput \/ RenderImage \/ OutputFails \/ FinishOutput
           \/ Clean
  <2>1. UNCHANGED temporary /\ pc' \in Making \cup {"clean", "unlink_source"}
    BY <1>6 DEF MakeBoot, FitImage, BeginOutput, RenderImage, OutputFails, FinishOutput, Clean,
       Goto, GivesUp, Making
  <2> QED
    BY <1>1, <2>1 DEF temporary, Leavings, Early, Making
<1>7. CASE Unlink
  <2>1. CASE pc = "unlink_source" /\ Removes("source") /\ pc' = "unlink_binary"
    BY <1>1, <2>1, RemovesOrRefuses DEF Leavings, Refused, Early
  <2>2. CASE pc = "unlink_binary" /\ Removes("binary") /\ pc' = "rmdir"
    BY <1>1, <2>2, RemovesOrRefuses DEF Leavings, Refused, Early
  <2> QED
    BY <1>7, <2>1, <2>2 DEF Unlink, Goto
<1>8. CASE Rmdir
  <2>1. pc = "rmdir" /\ pc' = "free"
    BY <1>8 DEF Rmdir, Goto
  <2>2. CASE tmp = {"directory"} /\ Removes("directory")
    <3>1. tmp' \subseteq {"directory"} /\ ("directory" \in tmp' => stuck' # {})
      BY <2>2, RemovesOrRefuses
    <3>2. tmp' # {} => "directory" \in tmp'
      BY <3>1
    <3> QED
      BY <1>1, <2>1, <3>1, <3>2 DEF Leavings, Refused, Early
  <2>3. CASE tmp # {"directory"} /\ UNCHANGED temporary
    BY <1>1, <2>1, <2>3 DEF temporary, Leavings, Refused, Early
  <2> QED
    BY <1>8, <2>2, <2>3 DEF Rmdir
<1>9. CASE Exit \/ Kill \/ UNCHANGED pipelineVars
  BY <1>1, <1>9 DEF Exit, Kill, pipelineVars, temporary, Leavings, Refused, Early
<1> QED
  BY <1>2, <1>3, <1>4, <1>5, <1>6, <1>7, <1>8, <1>9 DEF PipelineNext
-----------------------------------------------------------------------------
(* A step before the image file is finished leaves the outcome open.       *)
LEMMA OutcomeOpen ==
  ASSUME Outcome, pc \in Early \cup Making, UNCHANGED <<created, target>>,
         decoded' \in 0 .. MaxWord, loaded' \in Nat,
         pc' = "boot" => loaded' > 0,
         pc' \in {"image", "begin", "render"} => Booted',
         \/ pc' \in Early \cup Making /\ exit_code' = exit_code
         \/ pc' \in Cleaning /\ exit_code' = exit_code /\ error'
         \/ pc' = "exit" /\ exit_code' = 1 /\ error'
         \/ pc' = "killed" /\ exit_code' = exit_code
  PROVE  Outcome'
<1>1. ~created /\ ~created' /\ target' \in {Absent, Old, Special} /\ exit_code = -1
  BY DEF Outcome, Early, Making
<1> QED
  BY <1>1 DEF Outcome, Early, Making, Cleaning

(* BOOT reserves the sum of two words that make_boot has found to be one.  *)
LEMMA BootReserves ==
  ASSUME Outcome, MakeBoot, pc' = "image"
  PROVE  Booted'
<1>1. /\ BootIsPossible /\ UNCHANGED <<decoded, loaded>>
      /\ reserved' = (loaded + decoded) % (MaxWord + 1)
      /\ files' = <<BootSize, loaded>>
                    \o (IF options.screen THEN <<ScreenSize>> ELSE << >>)
  BY DEF MakeBoot, GivesUp, WriteImage
<1>2. files'[2] = loaded
  BY <1>1
<1>3. loaded \in Nat /\ decoded \in Nat /\ MaxWord \in Nat /\ loaded > 0
  BY PipelineAssumption DEF Outcome, MakeBoot
<1>4. loaded + decoded \in 0 .. MaxWord
  BY <1>1, <1>3 DEF BootIsPossible
<1>5. \A n \in 0 .. MaxWord : n % (MaxWord + 1) = n
  BY <1>3
<1>6. reserved' = loaded + decoded
  BY <1>1, <1>4, <1>5
<1> QED
  BY <1>1, <1>2, <1>3, <1>6 DEF Booted

(* The outcome, the output and the exit code stay together.                *)
LEMMA OutcomeKept ==
  ASSUME PipelineInv, [PipelineNext]_pipelineVars
  PROVE  Outcome'
<1>1. Outcome /\ ReadInv
  BY DEF PipelineInv
<1>2. /\ decoded \in 0 .. MaxWord /\ loaded \in Nat /\ told \in Nat
      /\ pc = "boot" => loaded > 0
      /\ pc \in {"image", "begin", "render"} => Booted
  BY <1>1 DEF Outcome, ReadInv
<1>3. CASE CallRead \/ Reading
  <2>1. UNCHANGED <<imageVars, pc, error, exit_code, facts, temporary, output>>
    BY <1>3 DEF CallRead, Reading
  <2> QED
    BY <1>1, <2>1 DEF Outcome, Booted, imageVars, facts, output
<1>4. CASE Locate \/ ScreenRead \/ InputRead \/ Parse \/ Convert
  <2>1. /\ pc \in Early /\ UNCHANGED <<created, decoded, loaded, target>>
        /\ \/ pc' \in Early /\ exit_code' = exit_code
           \/ pc' = "exit" /\ exit_code' = 1 /\ error'
    BY <1>4 DEF Locate, ScreenRead, InputRead, Parse, Convert, Reads, Goto, Quits, facts,
       output, Early
  <2>2. pc' \notin {"boot", "image", "begin", "render"}
    BY <2>1 DEF Early
  <2> QED
    BY <1>1, <1>2, <2>1, <2>2, OutcomeOpen
<1>5. CASE Compress
  <2>1. /\ pc \in Early /\ UNCHANGED <<created, loaded, target>>
        /\ decoded' = decoded \/ decoded' \in DecodedSizes
        /\ \/ pc' = "mkdtemp" /\ exit_code' = exit_code
           \/ pc' = "exit" /\ exit_code' = 1 /\ error'
    BY <1>5 DEF Compress, Goto, Quits, output, Early
  <2>2. decoded' \in 0 .. MaxWord /\ loaded' \in Nat
    BY <1>2, <2>1, PipelineAssumption
  <2> QED
    BY <1>1, <2>1, <2>2, OutcomeOpen DEF Early
<1>6. CASE \/ Mkdtemp \/ PlayerRead \/ CreateSource \/ Fdopen \/ WriteSource \/ CloseSource
           \/ Assemble
  <2>1. /\ pc \in Early \cup Making /\ UNCHANGED <<created, decoded, loaded, target>>
        /\ exit_code' = exit_code
        /\ \/ pc' \in Making \ {"boot", "image", "begin", "render"}
           \/ pc' \in {"clean", "free"} /\ error'
    BY <1>6 DEF Mkdtemp, PlayerRead, CreateSource, Fdopen, WriteSource, CloseSource, Assemble,
       Reads, Goto, GivesUp, facts, output, Early, Making
  <2> QED
    BY <1>1, <1>2, <2>1, OutcomeOpen DEF Cleaning
<1>7. CASE BinaryRead
  <2>1. /\ pc \in Making /\ UNCHANGED <<created, decoded, target, exit_code>>
        /\ \/ pc' = "boot" /\ loaded' = told /\ told # 0
           \/ pc' = "clean" /\ error' /\ loaded' = loaded
    BY <1>7 DEF BinaryRead, Reads, Goto, GivesUp, output, Making
  <2> QED
    BY <1>1, <1>2, <2>1, OutcomeOpen DEF Making, Cleaning
<1>8. CASE MakeBoot
  <2>1. /\ pc \in Making /\ UNCHANGED <<created, decoded, loaded, target, exit_code>>
        /\ pc' = "image" \/ (pc' = "clean" /\ error')
    BY <1>8 DEF MakeBoot, Goto, GivesUp, output, Making
  <2>2. pc' = "image" => Booted'
    BY <1>1, <1>8, BootReserves
  <2> QED
    BY <1>1, <1>2, <2>1, <2>2, OutcomeOpen DEF Making, Cleaning
<1>9. CASE FitImage \/ BeginOutput \/ RenderImage \/ OutputFails
  <2>1. /\ pc \in {"image", "begin", "render"} /\ exit_code' = exit_code
        /\ UNCHANGED <<created, decoded, loaded, reserved, target>>
        /\ pc' \in {"image", "begin", "render"} \/ (pc' = "clean" /\ error')
    BY <1>9 DEF FitImage, BeginOutput, RenderImage, OutputFails, Goto, GivesUp, facts, output,
       File!Begin, File!Refuse, File!Abandon
  <2>2. files' = files
    BY <1>9 DEF FitImage, BeginOutput, RenderImage, OutputFails, imageVars, CountFile, Judge,
       BeginRender, MapBlock, NextFile, MapDone, RenderSector, Rendered
  <2>3. Booted'
    BY <1>2, <2>1, <2>2 DEF Booted
  <2> QED
    BY <1>1, <1>2, <2>1, <2>3, OutcomeOpen DEF Making, Cleaning
<1>10. CASE FinishOutput
  <2>1. /\ pc = "render" /\ pc' = "clean" /\ stage = "rendered" /\ created' = TRUE
        /\ UNCHANGED <<decoded, loaded, reserved, files, stage, exit_code, error>>
        /\ target' = Self
    BY <1>10 DEF FinishOutput, Goto, imageVars, File!Commit
  <2>2. Booted'
    BY <1>2, <2>1 DEF Booted
  <2> QED
    BY <1>1, <2>1, <2>2 DEF Outcome, Early, Making, Cleaning
<1>11. CASE Clean \/ Unlink \/ Rmdir
  <2>1. /\ pc \in Cleaning /\ pc' \in Cleaning
        /\ UNCHANGED <<error, exit_code, facts, imageVars, output>>
    BY <1>11 DEF Clean, Unlink, Rmdir, Goto, Cleaning
  <2> QED
    BY <1>1, <2>1 DEF Outcome, Booted, imageVars, facts, output, Early, Making, Cleaning
<1>12. CASE Exit
  <2>1. /\ pc = "free" /\ pc' = "exit" /\ exit_code' = (IF created THEN 0 ELSE 1)
        /\ UNCHANGED <<error, facts, imageVars, output>>
    BY <1>12 DEF Exit
  <2> QED
    BY <1>1, <2>1 DEF Outcome, Booted, imageVars, facts, output, Early, Making, Cleaning
<1>13. CASE Kill
  <2>1. /\ pc # "exit" /\ pc' = "killed" /\ UNCHANGED <<error, exit_code, facts, imageVars>>
        /\ target' = target
    BY <1>13 DEF Kill, File!Die, output
  <2> QED
    BY <1>1, <2>1 DEF Outcome, Booted, imageVars, facts, Early, Making, Cleaning
<1>14. CASE UNCHANGED pipelineVars
  BY <1>1, <1>14 DEF pipelineVars, Outcome, Booted, imageVars, facts, output
<1> QED
  BY <1>3, <1>4, <1>5, <1>6, <1>7, <1>8, <1>9, <1>10, <1>11, <1>12, <1>13, <1>14
     DEF PipelineNext
-----------------------------------------------------------------------------
(* A run that begins holds nothing and has promised nothing.               *)
LEMMA PipelineStarts ==
  PipelineInit => PipelineInv
<1> SUFFICES ASSUME PipelineInit PROVE PipelineInv
  OBVIOUS
<1>1. ReadInv
  BY DEF PipelineInit, ReadInit, ReadInv, NoFile
<1>2. Holdings
  BY DEF PipelineInit, ReadInit, Holdings, InCall
<1>3. Leavings
  BY DEF PipelineInit, Leavings, Early
<1>4. Outcome
  BY PipelineAssumption DEF PipelineInit, Outcome, Early, Making, Cleaning, File!FileInit
<1> QED
  BY <1>1, <1>2, <1>3, <1>4 DEF PipelineInv

(* Every state of a run satisfies the invariant.                           *)
THEOREM PipelineHolds == PipelineSpec => []PipelineInv
<1>1. PipelineInv /\ [PipelineNext]_pipelineVars => PipelineInv'
  BY ReadKept, HoldingsKept, LeavingsKept, OutcomeKept DEF PipelineInv
<1> QED
  BY PipelineStarts, <1>1, PTL DEF PipelineSpec

(* read_file never reports success for part of a file, however read splits *)
(* it and whoever writes to it meanwhile.                                  *)
THEOREM FilesAreWhole == PipelineSpec => []ReadsWhole
<1>1. PipelineInv => ReadsWhole
  BY DEF PipelineInv, ReadInv, ReadsWhole
<1> QED
  BY <1>1, PipelineHolds, PTL

(* No way out of cli_main and create_image keeps memory, a descriptor or a *)
(* temporary file.                                                         *)
THEOREM EverythingIsGivenBack == PipelineSpec => []NothingLeft
<1>1. PipelineInv => NothingLeft
  BY DEF PipelineInv, Holdings, InCall, OwnedAt, Leavings, Refused, NothingLeft
<1> QED
  BY <1>1, PipelineHolds, PTL

(* The exit code of main tells the truth about the output and the message. *)
THEOREM ExitCodeTells == PipelineSpec => []ExitCodeIsHonest
<1>1. PipelineInv => ExitCodeIsHonest
  BY DEF PipelineInv, Outcome, Booted, ExitCodeIsHonest
<1> QED
  BY <1>1, PipelineHolds, PTL
=============================================================================
