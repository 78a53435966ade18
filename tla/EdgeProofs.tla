---------------------------- MODULE EdgeProofs ------------------------------
(***************************************************************************)
(* Proofs about what the programs take from and leave to the outside.      *)
(* CommandLine: whatever is on the line, the option loop makes of it what  *)
(* it means (CliInv).  QlayOutput, for any set of runs, any sizes of       *)
(* sector, image and buffer: the path only ever names whole images, a run  *)
(* that fails leaves nothing, and the runs keep the promise of ImageFile   *)
(* (Progress).  QlzDecode, for streams of any length, well formed or not:  *)
(* the decoders of the host and of the target stay in bounds and agree.    *)
(***************************************************************************)
EXTENDS QlayOutput, CommandLine, QlzDecode, Induction, SequenceTheorems

-----------------------------------------------------------------------------
(* The output file.                                                        *)

(* The sizes are numbers.                                                  *)
LEMMA Sizes ==
  /\ Sectors \in Nat \ {0} /\ SectorSize \in Nat \ {0} /\ BufferSize \in Nat \ {0}
  /\ ImageSize \in Nat \ {0}
<1>1. Sectors \in Nat \ {0} /\ SectorSize \in Nat \ {0} /\ BufferSize \in Nat \ {0}
  BY OutputAssumption
<1>2. \A x, y \in Nat \ {0} : x * y \in Nat \ {0}
  OBVIOUS
<1> QED
  BY <1>1, <1>2 DEF ImageSize

(* The image is a sequence of its units, each in its place.                *)
LEMMA ImageUnits ==
  /\ Image \in Seq(1 .. ImageSize) /\ Len(Image) = ImageSize
  /\ \A k \in 1 .. ImageSize : Image[k] = k
<1>1. ImageSize \in Nat
  BY Sizes
<1> QED
  BY <1>1 DEF Image

(* What is left of a sector lies inside the image.                         *)
LEMMA SectorInside ==
  ASSUME NEW c \in Nat, c < ImageSize
  PROVE  SectorSize - (c % SectorSize) \in 1 .. ImageSize - c
<1> DEFINE q == c \div SectorSize
           r == c % SectorSize
<1>1. Sectors \in Nat \ {0} /\ SectorSize \in Nat \ {0}
  BY Sizes
<1>2. /\ q \in Nat /\ r \in 0 .. SectorSize - 1
      /\ c = SectorSize * q + r
  BY <1>1
<1>3. q < Sectors
  <2>1. SUFFICES ASSUME q >= Sectors PROVE FALSE
    BY <1>1, <1>2
  <2>2. \A x, y, z \in Nat : x >= y => z * x >= y * z
    OBVIOUS
  <2>3. SectorSize * q >= Sectors * SectorSize
    BY <1>1, <1>2, <2>1, <2>2
  <2> QED
    BY <1>1, <1>2, <2>3, Sizes DEF ImageSize
<1>4. SectorSize * q + SectorSize <= Sectors * SectorSize
  <2>1. \A x, y, z \in Nat : x < y => z * x + z <= y * z
    OBVIOUS
  <2> QED
    BY <1>1, <1>2, <1>3, <2>1
<1> HIDE DEF q, r
<1>5. ImageSize = Sectors * SectorSize /\ ImageSize \in Nat
  BY Sizes DEF ImageSize
<1>6. SectorSize - r \in 1 .. ImageSize - c
  BY <1>1, <1>2, <1>4, <1>5
<1> QED
  BY <1>6 DEF r

(* What Render copies stays inside the image and the buffer.               *)
LEMMA CopyInside ==
  ASSUME TypeOK, NEW p \in Process, copied[p] < ImageSize
  PROVE  /\ CopyCount(p) \in Nat
         /\ copied[p] + CopyCount(p) <= ImageSize
         /\ Len(buffer[p]) + CopyCount(p) <= BufferSize
<1> DEFINE x == SectorSize - (copied[p] % SectorSize)
           y == BufferSize - Len(buffer[p])
<1>1. copied[p] \in Nat /\ Len(buffer[p]) \in Nat /\ Len(buffer[p]) <= BufferSize
  BY Sizes DEF TypeOK
<1>2. x \in 1 .. ImageSize - copied[p]
  BY <1>1, SectorInside
<1>3. y \in Nat
  BY <1>1, Sizes
<1> HIDE DEF x, y
<1>4. \E m \in {x, y} : \A z \in {x, y} : m <= z
  <2>1. CASE x <= y
    BY <1>1, <1>2, <1>3, <2>1, Sizes
  <2>2. CASE y <= x
    BY <1>1, <1>2, <1>3, <2>2, Sizes
  <2> QED
    BY <1>1, <1>2, <1>3, <2>1, <2>2, Sizes
<1>5. Min({x, y}) \in {x, y} /\ \A z \in {x, y} : Min({x, y}) <= z
  BY <1>4 DEF Min
<1>6. CopyCount(p) = Min({x, y})
  BY DEF CopyCount, x, y
<1>7. Len(buffer[p]) + y = BufferSize
  BY <1>1, Sizes DEF y
<1> QED
  BY <1>1, <1>2, <1>3, <1>5, <1>6, <1>7, Sizes

(* A stretch of the image, unit by unit.                                   *)
LEMMA Stretch ==
  ASSUME NEW c \in Nat, NEW n \in Nat, c + n <= ImageSize
  PROVE  /\ SubSeq(Image, c + 1, c + n) \in Seq(1 .. ImageSize)
         /\ Len(SubSeq(Image, c + 1, c + n)) = n
         /\ Follow(SubSeq(Image, c + 1, c + n), c)
BY ImageUnits, Sizes DEF Follow

(* Two stretches, one behind the other, are one.                           *)
LEMMA Joined ==
  ASSUME NEW s \in Seq(1 .. ImageSize), NEW t \in Seq(1 .. ImageSize), NEW base \in Nat,
         Follow(s, base), Follow(t, base + Len(s))
  PROVE  /\ s \o t \in Seq(1 .. ImageSize)
         /\ Len(s \o t) = Len(s) + Len(t)
         /\ Follow(s \o t, base)
<1>1. s \o t \in Seq(1 .. ImageSize) /\ Len(s \o t) = Len(s) + Len(t)
  OBVIOUS
<1>2. ASSUME NEW k \in 1 .. Len(s \o t) PROVE (s \o t)[k] = base + k
  <2>1. CASE k <= Len(s)
    <3>1. (s \o t)[k] = s[k]
      BY <1>1, <2>1
    <3> QED
      BY <2>1, <3>1 DEF Follow
  <2>2. CASE k > Len(s)
    <3>1. (s \o t)[k] = t[k - Len(s)] /\ k - Len(s) \in 1 .. Len(t)
      BY <1>1, <2>2
    <3>2. t[k - Len(s)] = base + Len(s) + (k - Len(s))
      BY <3>1 DEF Follow
    <3> QED
      BY <3>1, <3>2
  <2> QED
    BY <2>1, <2>2
<1> QED
  BY <1>1, <1>2 DEF Follow

(* A part of a stretch is one.                                             *)
LEMMA Part ==
  ASSUME NEW s \in Seq(1 .. ImageSize), NEW base \in Int, Follow(s, base),
         NEW from \in 0 .. Len(s), NEW count \in 0 .. Len(s) - from
  PROVE  /\ SubSeq(s, from + 1, from + count) \in Seq(1 .. ImageSize)
         /\ Len(SubSeq(s, from + 1, from + count)) = count
         /\ Follow(SubSeq(s, from + 1, from + count), base + from)
<1>1. /\ SubSeq(s, from + 1, from + count) \in Seq(1 .. ImageSize)
      /\ Len(SubSeq(s, from + 1, from + count)) = count
      /\ \A k \in 1 .. count : SubSeq(s, from + 1, from + count)[k] = s[from + k]
  <2>1. /\ from + 1 \in Int /\ from + count \in Int
        /\ \A k \in from + 1 .. from + count : s[k] \in 1 .. ImageSize
    <3>1. \A k \in from + 1 .. from + count : k \in 1 .. Len(s)
      OBVIOUS
    <3>2. \A k \in 1 .. Len(s) : s[k] \in 1 .. ImageSize
      BY ElementOfSeq
    <3> QED
      BY <3>1, <3>2
  <2>2. /\ SubSeq(s, from + 1, from + count) \in Seq(1 .. ImageSize)
        /\ Len(SubSeq(s, from + 1, from + count)) =
             IF from + 1 <= from + count THEN from + count - (from + 1) + 1 ELSE 0
        /\ \A k \in 1 .. from + count - (from + 1) + 1 :
             SubSeq(s, from + 1, from + count)[k] = s[from + 1 + k - 1]
    BY <2>1, SubSeqProperties
  <2>3. from + count - (from + 1) + 1 = count /\ \A k \in Int : from + 1 + k - 1 = from + k
    OBVIOUS
  <2> QED
    BY <2>2, <2>3
<1>2. \A k \in 1 .. count : s[from + k] = base + from + k
  BY DEF Follow
<1> QED
  BY <1>1, <1>2 DEF Follow

(* A stretch as long as the image is the image.                            *)
LEMMA Whole ==
  ASSUME NEW s \in Seq(1 .. ImageSize), Len(s) = ImageSize, Follow(s, 0)
  PROVE  s = Image
<1>1. \A k \in 1 .. ImageSize : s[k] = Image[k]
  BY ImageUnits, Sizes DEF Follow
<1> QED
  BY <1>1, ImageUnits

(* The start of the runs.                                                  *)
THEOREM Initially == Init => IInv
<1> SUFFICES ASSUME Init PROVE IInv
  OBVIOUS
<1>1. TypeOK
  BY Sizes DEF Init, TypeOK, Named, Running
<1>2. ASSUME NEW p \in Process
      PROVE  Progress(p) /\ (p \in {target, stable} => pc[p] = "succeeded")
  <2>1. Gathered(p)
    BY DEF Init, Gathered, Follow
  <2> QED
    BY <2>1, OutputAssumption DEF Init, Progress
<1> QED
  BY <1>1, <1>2 DEF IInv
-----------------------------------------------------------------------------
(* Rendering keeps the buffer behind the file.                             *)
LEMMA RenderStep ==
  ASSUME IInv, NEW p \in Process, Render(p)
  PROVE  IInv'
<1> DEFINE n == CopyCount(p)
           new == SubSeq(Image, copied[p] + 1, copied[p] + n)
<1>1. TypeOK /\ Progress(p)
  BY DEF IInv
<1>2. /\ pc[p] = "render" /\ copied[p] \in Nat /\ copied[p] < ImageSize
      /\ done[p] = 0 /\ Gathered(p)
  BY <1>1, Sizes DEF Render, Progress, TypeOK
<1>3. /\ buffer[p] \in Seq(1 .. ImageSize) /\ file[p] \in Seq(1 .. ImageSize)
      /\ Len(file[p]) \in Nat /\ Len(buffer[p]) \in Nat
  BY <1>1 DEF TypeOK
<1>4. n \in Nat /\ copied[p] + n <= ImageSize /\ Len(buffer[p]) + n <= BufferSize
  BY <1>1, <1>2, CopyInside
<1> HIDE DEF n
<1>5. /\ buffer' = [buffer EXCEPT ![p] = @ \o new]
      /\ copied' = [copied EXCEPT ![p] = @ + n]
      /\ pc' = [pc EXCEPT ![p] = IF Len(buffer'[p]) = BufferSize THEN "flush" ELSE "render"]
      /\ UNCHANGED <<done, disk>>
  BY DEF Render, Goto, n
<1>6. new \in Seq(1 .. ImageSize) /\ Len(new) = n /\ Follow(new, copied[p])
  BY <1>2, <1>4, Stretch
<1> HIDE DEF new
<1>7. /\ buffer'[p] = buffer[p] \o new /\ copied'[p] = copied[p] + n
      /\ pc'[p] \in {"flush", "render"}
      /\ \A q \in Process \ {p} : buffer'[q] = buffer[q] /\ copied'[q] = copied[q] /\ pc'[q] = pc[q]
  BY <1>1, <1>5 DEF TypeOK
<1>8. Len(file[p]) + Len(buffer[p]) = copied[p] /\ Follow(buffer[p], Len(file[p]))
  <2>1. Len(file[p]) + Len(buffer[p]) - 0 = copied[p] /\ Follow(buffer[p], Len(file[p]) - 0)
    BY <1>2 DEF Gathered
  <2>2. Len(file[p]) - 0 = Len(file[p]) /\ Len(file[p]) + Len(buffer[p]) - 0 = Len(file[p]) + Len(buffer[p])
    BY <1>3
  <2> QED
    BY <2>1, <2>2
<1>9. /\ buffer'[p] \in Seq(1 .. ImageSize) /\ Len(buffer'[p]) = Len(buffer[p]) + n
      /\ Follow(buffer'[p], Len(file[p]))
  <2>1. Follow(new, Len(file[p]) + Len(buffer[p]))
    BY <1>6, <1>8
  <2>2. /\ buffer[p] \o new \in Seq(1 .. ImageSize)
        /\ Len(buffer[p] \o new) = Len(buffer[p]) + Len(new)
        /\ Follow(buffer[p] \o new, Len(file[p]))
    BY <1>3, <1>6, <1>8, <2>1, Joined
  <2> QED
    BY <1>6, <1>7, <2>2
<1>10. TypeOK'
  <2>1. copied[p] + n \in 0 .. ImageSize
    BY <1>2, <1>4, Sizes
  <2>2. buffer' \in [Process -> Seq(1 .. ImageSize)] /\ copied' \in [Process -> 0 .. ImageSize]
    BY <1>1, <1>5, <1>7, <1>9, <2>1 DEF TypeOK
  <2>3. pc' \in [Process -> Running \cup Ended]
    BY <1>1, <1>5 DEF TypeOK, Running
  <2>4. Len(buffer'[p]) <= BufferSize /\ done[p] <= Len(buffer'[p])
    BY <1>2, <1>3, <1>4, <1>9
  <2>5. \A q \in Process : Len(buffer'[q]) <= BufferSize /\ done[q] <= Len(buffer'[q])
    BY <1>1, <1>7, <2>4 DEF TypeOK
  <2> QED
    BY <1>1, <1>5, <2>2, <2>3, <2>5 DEF TypeOK, disk
<1>11. Progress(p)'
  <2>1. Len(file[p]) + Len(buffer'[p]) - 0 = copied'[p] /\ Len(file[p]) - 0 = Len(file[p])
    <3>1. Len(buffer'[p]) = Len(buffer[p]) + n /\ copied'[p] = copied[p] + n
      BY <1>7, <1>9
    <3>2. Len(file[p]) + Len(buffer[p]) = copied[p]
      BY <1>8
    <3>3. copied'[p] = (Len(file[p]) + Len(buffer[p])) + n
      BY <3>1, <3>2
    <3>4. /\ Len(file[p]) + (Len(buffer[p]) + n) - 0 = (Len(file[p]) + Len(buffer[p])) + n
          /\ Len(file[p]) - 0 = Len(file[p])
      <4> DEFINE x == Len(file[p])
                 y == Len(buffer[p])
      <4>1. x \in Nat /\ y \in Nat /\ n \in Nat
        BY <1>3, <1>4
      <4> HIDE DEF x, y
      <4>2. x + (y + n) - 0 = (x + y) + n /\ x - 0 = x
        BY ONLY <4>1
      <4> QED
        BY <4>2 DEF x, y
    <3> QED
      BY ONLY <3>1, <3>3, <3>4
  <2>2. file' = file /\ done' = done /\ linked' = linked /\ Follow(file[p], 0)
    BY <1>2, <1>5 DEF Gathered, disk
  <2>3. Gathered(p)'
    BY <1>2, <1>9, <2>1, <2>2 DEF Gathered
  <2> QED
    BY <1>2, <1>7, <2>2, <2>3 DEF Progress
<1>12. ASSUME NEW q \in Process
       PROVE  (Progress(q) /\ (q \in {target, stable} => pc[q] = "succeeded"))'
  <2>1. CASE q = p
    BY <1>2, <1>5, <1>11, <2>1 DEF IInv, disk
  <2>2. CASE q # p
    BY <1>5, <1>7, <2>2 DEF IInv, Progress, Gathered, disk
  <2> QED
    BY <2>1, <2>2
<1> QED
  BY <1>10, <1>12 DEF IInv

(* A write moves the next stretch of the buffer to the file.               *)
LEMMA WriteStep ==
  ASSUME IInv, NEW p \in Process, Write(p)
  PROVE  IInv'
<1>1. TypeOK /\ Progress(p) /\ p \notin {target, stable}
  BY DEF IInv, Write
<1>2. /\ pc[p] \in {"flush", "last_flush"} /\ Gathered(p)
      /\ pc[p] = "last_flush" => copied[p] = ImageSize
      /\ ~(pc[p] = "flush" /\ pc[p] = "last_flush")
  BY <1>1 DEF Write, Progress
<1>3. PICK count \in 1 .. Len(buffer[p]) - done[p] :
        /\ file' = [file EXCEPT ![p] = @ \o SubSeq(buffer[p], done[p] + 1, done[p] + count)]
        /\ IF done[p] + count < Len(buffer[p])
           THEN done' = [done EXCEPT ![p] = @ + count] /\ UNCHANGED <<pc, buffer>>
           ELSE /\ Emptied(p)
                /\ Goto(p, IF pc[p] = "flush" THEN "render" ELSE "fsync")
  BY DEF Write
<1>4. UNCHANGED <<copied, synced, linked, target, stable>>
  BY DEF Write
<1>5. buffer[p] \in Seq(1 .. ImageSize) /\ file[p] \in Seq(1 .. ImageSize)
  BY <1>1 DEF TypeOK
<1>6. /\ Len(file[p]) \in Nat /\ Len(buffer[p]) \in Nat /\ done[p] \in 0 .. Len(buffer[p])
      /\ copied[p] \in Nat /\ copied[p] <= ImageSize /\ ImageSize \in Nat
      /\ synced[p] \in Nat /\ synced[p] <= Len(file[p])
  BY <1>1, <1>5, Sizes DEF TypeOK
<1>7. /\ Len(file[p]) + Len(buffer[p]) - done[p] = copied[p]
      /\ Follow(file[p], 0) /\ Follow(buffer[p], Len(file[p]) - done[p])
  BY <1>2 DEF Gathered
<1> DEFINE part == SubSeq(buffer[p], done[p] + 1, done[p] + count)
<1>8. /\ part \in Seq(1 .. ImageSize) /\ Len(part) = count
      /\ Follow(part, Len(file[p]))
  <2> DEFINE b == buffer[p]
             d == done[p]
             base == Len(file[p]) - done[p]
  <2>1. /\ b \in Seq(1 .. ImageSize) /\ base \in Int /\ d \in 0 .. Len(b)
        /\ count \in 0 .. Len(b) - d /\ base + d = Len(file[p])
    BY <1>5, <1>6
  <2>2. Follow(b, base)
    BY <1>7
  <2> HIDE DEF b, d, base
  <2>3. /\ SubSeq(b, d + 1, d + count) \in Seq(1 .. ImageSize)
        /\ Len(SubSeq(b, d + 1, d + count)) = count
        /\ Follow(SubSeq(b, d + 1, d + count), base + d)
    BY <2>1, <2>2, Part
  <2> QED
    BY <2>1, <2>3 DEF b, d
<1>9. file' = [file EXCEPT ![p] = @ \o part]
  BY <1>3
<1> HIDE DEF part
<1>10. /\ file'[p] = file[p] \o part
       /\ \A q \in Process \ {p} : file'[q] = file[q]
  BY <1>1, <1>9 DEF TypeOK
<1>11. /\ file'[p] \in Seq(1 .. ImageSize) /\ Len(file'[p]) = Len(file[p]) + count
       /\ Follow(file'[p], 0)
  <2>1. Len(file[p]) = 0 + Len(file[p])
    BY <1>6
  <2>2. Follow(part, 0 + Len(file[p]))
    BY <1>8, <2>1
  <2> QED
    BY <1>5, <1>7, <1>8, <1>10, <2>2, Joined
<1>12. /\ Len(file'[p]) \in 0 .. ImageSize /\ synced[p] <= Len(file'[p])
       /\ Len(file'[p]) + (Len(buffer[p]) - (done[p] + count)) = copied[p]
       /\ Len(file'[p]) - (done[p] + count) = Len(file[p]) - done[p]
  <2>1. Len(file'[p]) = Len(file[p]) + count /\ count \in 1 .. Len(buffer[p]) - done[p]
    BY <1>3, <1>11
  <2>2. Len(file[p]) + Len(buffer[p]) - done[p] = copied[p]
    BY <1>7
  <2>3. /\ Len(file[p]) \in Nat /\ Len(buffer[p]) \in Nat /\ done[p] \in Nat
        /\ copied[p] \in Nat /\ count \in Nat /\ ImageSize \in Nat /\ synced[p] \in Nat
        /\ done[p] <= Len(buffer[p]) /\ copied[p] <= ImageSize /\ synced[p] <= Len(file[p])
    BY <1>6, <2>1
  <2>4. /\ Len(file[p]) + count \in 0 .. ImageSize /\ synced[p] <= Len(file[p]) + count
        /\ (Len(file[p]) + count) + (Len(buffer[p]) - (done[p] + count)) = copied[p]
        /\ (Len(file[p]) + count) - (done[p] + count) = Len(file[p]) - done[p]
    <3>1. Len(file[p]) + count \in 0 .. ImageSize /\ synced[p] <= Len(file[p]) + count
      BY ONLY <2>1, <2>2, <2>3, SMTT(30)
    <3>2. (Len(file[p]) + count) - (done[p] + count) = Len(file[p]) - done[p]
      BY ONLY <2>3
    <3>3. (Len(file[p]) + count) + (Len(buffer[p]) - (done[p] + count)) = Len(file[p]) + Len(buffer[p]) - done[p]
      BY ONLY <2>3
    <3> QED
      BY ONLY <3>1, <3>2, <3>3, <2>2
  <2> QED
    BY ONLY <2>1, <2>4
<1>13. file' \in [Process -> Seq(1 .. ImageSize)]
  BY <1>1, <1>9, <1>10, <1>11 DEF TypeOK
<1>14. \A q \in Process : Len(file'[q]) <= ImageSize /\ synced[q] <= Len(file'[q])
  <2>1. Len(file'[p]) <= ImageSize /\ synced[p] <= Len(file'[p])
    BY <1>6, <1>12
  <2> QED
    BY <1>1, <1>10, <2>1 DEF TypeOK
(* What the step does to the buffer.                                       *)
<1>15. CASE done[p] + count < Len(buffer[p])
  <2>1. done' = [done EXCEPT ![p] = @ + count] /\ pc' = pc /\ buffer' = buffer
    BY <1>3, <1>15
  <2>2. /\ done'[p] = done[p] + count
        /\ \A q \in Process \ {p} : done'[q] = done[q]
    BY <1>1, <2>1 DEF TypeOK
  <2>3. done[p] + count \in 0 .. BufferSize /\ done[p] + count <= Len(buffer[p])
    <3>1. Len(buffer[p]) <= BufferSize
      BY <1>1 DEF TypeOK
    <3>2. /\ done[p] \in Nat /\ Len(buffer[p]) \in Nat /\ BufferSize \in Nat
          /\ count \in 1 .. Len(buffer[p]) - done[p]
      BY <1>3, <1>6, Sizes
    <3> QED
      BY ONLY <1>15, <3>1, <3>2
  <2>4. TypeOK'
    <3>1. done' \in [Process -> 0 .. BufferSize]
      BY <1>1, <2>1, <2>3 DEF TypeOK
    <3>2. \A q \in Process : done'[q] <= Len(buffer[q])
      BY <1>1, <2>2, <2>3 DEF TypeOK
    <3> QED
      BY <1>1, <1>4, <1>13, <1>14, <2>1, <3>1, <3>2 DEF TypeOK
  <2>5. Gathered(p)'
    <3>1. Len(file'[p]) + Len(buffer[p]) - (done[p] + count) = copied[p]
      BY <1>3, <1>6, <1>12
    <3> QED
      BY <1>4, <1>7, <1>11, <1>12, <2>1, <2>2, <3>1 DEF Gathered
  <2>6. ASSUME NEW q \in Process
        PROVE  (Progress(q) /\ (q \in {target, stable} => pc[q] = "succeeded"))'
    <3>1. CASE q = p
      BY <1>1, <1>2, <1>4, <2>1, <2>5, <3>1 DEF Progress
    <3>2. CASE q # p
      BY <1>4, <1>10, <2>1, <2>2, <3>2 DEF IInv, Progress, Gathered
    <3> QED
      BY <3>1, <3>2
  <2> QED
    BY <2>4, <2>6 DEF IInv
<1>16. CASE ~(done[p] + count < Len(buffer[p]))
  <2>1. /\ buffer' = [buffer EXCEPT ![p] = << >>] /\ done' = [done EXCEPT ![p] = 0]
        /\ pc' = [pc EXCEPT ![p] = IF pc[p] = "flush" THEN "render" ELSE "fsync"]
    BY <1>3, <1>16 DEF Emptied, Goto
  <2>2. /\ buffer'[p] = << >> /\ done'[p] = 0
        /\ pc[p] = "flush" => pc'[p] = "render"
        /\ pc[p] = "last_flush" => pc'[p] = "fsync"
        /\ \A q \in Process \ {p} :
             buffer'[q] = buffer[q] /\ done'[q] = done[q] /\ pc'[q] = pc[q]
    BY <1>1, <1>2, <2>1 DEF TypeOK
  <2>3. Len(file'[p]) = copied[p]
    <3>1. Len(buffer[p]) - (done[p] + count) = 0
      BY <1>3, <1>6, <1>16
    <3> QED
      BY <1>6, <1>12, <3>1
  <2>4. TypeOK'
    <3>1. /\ buffer' \in [Process -> Seq(1 .. ImageSize)]
          /\ done' \in [Process -> 0 .. BufferSize]
      BY <1>1, <2>1, Sizes DEF TypeOK
    <3>2. pc' \in [Process -> Running \cup Ended]
      BY <1>1, <2>1 DEF TypeOK, Running
    <3>3. Len(buffer'[p]) <= BufferSize /\ done'[p] <= Len(buffer'[p])
      <4>1. Len(<< >>) = 0
        OBVIOUS
      <4>2. buffer'[p] = << >> /\ done'[p] = 0 /\ BufferSize \in Nat
        BY <2>2, Sizes
      <4> QED
        BY ONLY <4>1, <4>2
    <3>4. \A q \in Process : Len(buffer'[q]) <= BufferSize /\ done'[q] <= Len(buffer'[q])
      BY <1>1, <2>2, <3>3 DEF TypeOK
    <3> QED
      BY <1>1, <1>4, <1>13, <1>14, <3>1, <3>2, <3>4 DEF TypeOK
  <2>5. Gathered(p)'
    <3>1. Len(file'[p]) + Len(<< >>) - 0 = copied[p]
      BY <1>12, <2>3
    <3>2. Follow(<< >>, Len(file'[p]) - 0)
      BY DEF Follow
    <3> QED
      BY <1>4, <1>11, <2>2, <3>1, <3>2 DEF Gathered
  <2>6. pc[p] = "last_flush" => file'[p] = Image
    BY <1>2, <1>11, <2>3, Whole
  <2>7. ASSUME NEW q \in Process
        PROVE  (Progress(q) /\ (q \in {target, stable} => pc[q] = "succeeded"))'
    <3>1. CASE q = p
      BY <1>1, <1>2, <1>4, <2>2, <2>5, <2>6, <3>1 DEF Progress
    <3>2. CASE q # p
      BY <1>4, <1>10, <2>2, <3>2 DEF IInv, Progress, Gathered
    <3> QED
      BY <3>1, <3>2
  <2> QED
    BY <2>4, <2>7 DEF IInv
<1> QED
  BY <1>15, <1>16

(* A call that moves run p on without touching its buffer or its file:     *)
(* what is left to show is what the invariant says of p itself.            *)
LEMMA CallStep ==
  ASSUME IInv, NEW p \in Process, NEW where \in Running \cup Ended, Goto(p, where),
         UNCHANGED <<local, file, stable>>,
         linked' = linked \/ linked' = [linked EXCEPT ![p] = FALSE]
                          \/ linked' = [linked EXCEPT ![p] = TRUE],
         synced' = synced \/ synced' = [synced EXCEPT ![p] = Len(file[p])],
         target' = target \/ (target' = p /\ where = "succeeded"),
         p \notin {target, stable},
         Progress(p)'
  PROVE  IInv'
<1>1. /\ pc' = [pc EXCEPT ![p] = where] /\ UNCHANGED <<buffer, done, copied, file, stable>>
      /\ TypeOK
  BY DEF Goto, local, IInv
<1>2. /\ pc'[p] = where
      /\ \A q \in Process \ {p} :
           pc'[q] = pc[q] /\ linked'[q] = linked[q] /\ synced'[q] = synced[q]
  BY <1>1 DEF TypeOK
<1>3. synced' \in [Process -> 0 .. ImageSize]
      /\ \A q \in Process : synced'[q] <= Len(file[q])
  <2>1. CASE synced' = synced
    BY <1>1, <2>1 DEF TypeOK
  <2>2. CASE synced' = [synced EXCEPT ![p] = Len(file[p])]
    <3>1. file[p] \in Seq(1 .. ImageSize) /\ Len(file[p]) <= ImageSize
      BY <1>1 DEF TypeOK
    <3>2. Len(file[p]) \in 0 .. ImageSize
      BY <3>1, Sizes
    <3>3. synced'[p] = Len(file[p])
      BY <1>1, <2>2 DEF TypeOK
    <3>4. Len(file[p]) <= Len(file[p])
      BY <3>2, Sizes
    <3> QED
      BY <1>1, <1>2, <2>2, <3>2, <3>3, <3>4 DEF TypeOK
  <2> QED
    BY <2>1, <2>2
<1>4. TypeOK'
  <2>1. pc' \in [Process -> Running \cup Ended] /\ linked' \in [Process -> BOOLEAN]
        /\ {target', stable'} \subseteq Named
    BY <1>1 DEF TypeOK, Named
  <2> QED
    BY <1>1, <1>3, <2>1 DEF TypeOK
<1>5. ASSUME NEW q \in Process
      PROVE  (Progress(q) /\ (q \in {target, stable} => pc[q] = "succeeded"))'
  <2>1. CASE q = p
    BY <1>1, <1>2, <2>1
  <2>2. CASE q # p
    BY <1>1, <1>2, <2>2 DEF IInv, Progress, Gathered
  <2> QED
    BY <2>1, <2>2
<1> QED
  BY <1>4, <1>5 DEF IInv

(* The calls of one run.                                                   *)
LEMMA CallsKeep ==
  ASSUME IInv, NEW p \in Process,
         \/ Lstat(p) \/ Mkstemp(p) \/ Fchmod(p) \/ Rendered(p) \/ WriteFails(p)
         \/ Fsync(p) \/ Close(p) \/ Rename(p) \/ Unlink(p) \/ Kill(p)
  PROVE  IInv'
<1>1. TypeOK /\ Progress(p) /\ (p \in {target, stable} => pc[p] = "succeeded")
  BY DEF IInv
<1>2. pc[p] \in Running /\ p \notin {target, stable}
  BY <1>1 DEF Running, Lstat, Mkstemp, Fchmod, Rendered, WriteFails, Fsync, Close,
              Rename, Unlink, Kill
<1>3. \A where : Goto(p, where) => pc'[p] = where
  BY <1>1 DEF Goto, TypeOK
<1>4. CASE Lstat(p)
  <2>1. UNCHANGED <<buffer, done, copied, file, synced, linked, target, stable>>
    BY <1>4 DEF Lstat, local, disk
  <2>2. PICK where \in {"mkstemp", "refused"} : Goto(p, where)
    BY <1>4 DEF Lstat
  <2>3. Progress(p)'
    BY <1>1, <1>3, <1>4, <2>1, <2>2 DEF Lstat, Progress, Gathered
  <2> QED
    BY <1>2, <2>1, <2>2, <2>3, CallStep DEF local, Running, Ended
<1>5. CASE Mkstemp(p)
  <2>1. UNCHANGED <<buffer, done, copied, file, synced, target, stable>>
    BY <1>5 DEF Mkstemp, local
  <2>2. CASE Goto(p, "fchmod") /\ linked' = [linked EXCEPT ![p] = TRUE]
    <3>1. Progress(p)'
      BY <1>1, <1>3, <1>5, <2>1, <2>2 DEF Mkstemp, Progress, Gathered
    <3> QED
      BY <1>2, <2>1, <2>2, <3>1, CallStep DEF local, Running, Ended
  <2>3. CASE Goto(p, "refused") /\ UNCHANGED linked
    <3>1. Progress(p)'
      BY <1>1, <1>3, <1>5, <2>1, <2>3 DEF Mkstemp, Progress, Gathered
    <3> QED
      BY <1>2, <2>1, <2>3, <3>1, CallStep DEF local, Running, Ended
  <2> QED
    BY <1>5, <2>2, <2>3 DEF Mkstemp
<1>6. CASE Fchmod(p)
  <2>1. UNCHANGED <<buffer, done, copied, file, synced, linked, target, stable>>
    BY <1>6 DEF Fchmod, local, disk
  <2>2. PICK where \in {"render", "unlink"} : Goto(p, where)
    BY <1>6 DEF Fchmod
  <2>3. Progress(p)'
    BY <1>1, <1>3, <1>6, <2>1, <2>2 DEF Fchmod, Progress, Gathered
  <2> QED
    BY <1>2, <2>1, <2>2, <2>3, CallStep DEF local, Running, Ended
<1>7. CASE Rendered(p)
  <2>1. UNCHANGED <<buffer, done, copied, file, synced, linked, target, stable>>
    BY <1>7 DEF Rendered, local, disk
  <2>2. pc[p] = "render" /\ copied[p] = ImageSize /\ done[p] = 0 /\ Gathered(p)
    BY <1>1, <1>7 DEF Rendered, Progress
  <2>3. CASE buffer[p] # << >>
    <3>1. Goto(p, "last_flush")
      BY <1>7, <2>3 DEF Rendered
    <3>2. Progress(p)'
      BY <1>3, <2>1, <2>2, <3>1 DEF Progress, Gathered
    <3> QED
      BY <1>2, <2>1, <3>1, <3>2, CallStep DEF local, Running, Ended
  <2>4. CASE buffer[p] = << >>
    <3>1. Goto(p, "fsync")
      BY <1>7, <2>4 DEF Rendered
    <3>2. Len(file[p]) + 0 - 0 = ImageSize /\ Follow(file[p], 0)
      <4>1. Len(<< >>) = 0
        OBVIOUS
      <4> QED
        BY <2>2, <2>4, <4>1 DEF Gathered
    <3>3. file[p] \in Seq(1 .. ImageSize) /\ Len(file[p]) \in Nat
      BY <1>1 DEF TypeOK
    <3>4. Len(file[p]) = ImageSize
      BY <3>2, <3>3
    <3>5. file[p] = Image
      BY <3>2, <3>3, <3>4, Whole
    <3>6. Progress(p)'
      BY <1>3, <2>1, <3>1, <3>5 DEF Progress
    <3> QED
      BY <1>2, <2>1, <3>1, <3>6, CallStep DEF local, Running, Ended
  <2> QED
    BY <2>3, <2>4
<1>8. CASE WriteFails(p)
  <2>1. UNCHANGED <<buffer, done, copied, file, synced, linked, target, stable>> /\ Goto(p, "close_bad")
    BY <1>8 DEF WriteFails, local, disk
  <2>2. Progress(p)'
    BY <1>3, <2>1 DEF Progress
  <2> QED
    BY <1>2, <2>1, <2>2, CallStep DEF local, Running, Ended
<1>9. CASE Fsync(p)
  <2>1. UNCHANGED <<buffer, done, copied, file, linked, target, stable>>
    BY <1>9 DEF Fsync, local
  <2>2. pc[p] = "fsync" /\ file[p] = Image
    BY <1>1, <1>9 DEF Fsync, Progress
  <2>3. CASE Goto(p, "close") /\ synced' = [synced EXCEPT ![p] = Len(file[p])]
    <3>1. synced'[p] = ImageSize
      BY <1>1, <2>2, <2>3, ImageUnits DEF TypeOK
    <3>2. Progress(p)'
      BY <1>3, <2>1, <2>2, <2>3, <3>1 DEF Progress
    <3> QED
      BY <1>2, <2>1, <2>3, <3>2, CallStep DEF local, Running, Ended
  <2>4. CASE Goto(p, "close_bad") /\ UNCHANGED synced
    <3>1. Progress(p)'
      BY <1>3, <2>4 DEF Progress
    <3> QED
      BY <1>2, <2>1, <2>4, <3>1, CallStep DEF local, Running, Ended
  <2> QED
    BY <1>9, <2>3, <2>4 DEF Fsync
<1>10. CASE Close(p)
  <2>1. UNCHANGED <<buffer, done, copied, file, synced, linked, target, stable>>
    BY <1>10 DEF Close, local, disk
  <2>2. PICK where \in {"rename", "unlink"} :
          Goto(p, where) /\ (where = "rename" => pc[p] = "close")
    BY <1>10 DEF Close
  <2>3. Progress(p)'
    BY <1>1, <1>3, <1>10, <2>1, <2>2 DEF Progress
  <2> QED
    BY <1>2, <2>1, <2>2, <2>3, CallStep DEF local, Running, Ended
<1>11. CASE Rename(p)
  <2>1. UNCHANGED <<buffer, done, copied, file, synced, stable>> /\ pc[p] = "rename"
    BY <1>11 DEF Rename, local
  <2>2. CASE target' = p /\ linked' = [linked EXCEPT ![p] = FALSE] /\ Goto(p, "succeeded")
    <3>1. ~linked'[p]
      BY <1>1, <2>2 DEF TypeOK
    <3>2. Progress(p)'
      BY <1>1, <1>3, <2>1, <2>2, <3>1 DEF Progress
    <3> QED
      BY <1>2, <2>1, <2>2, <3>2, CallStep DEF local, Running, Ended
  <2>3. CASE Goto(p, "unlink") /\ UNCHANGED <<linked, target>>
    <3>1. Progress(p)'
      BY <1>3, <2>3 DEF Progress
    <3> QED
      BY <1>2, <2>1, <2>3, <3>1, CallStep DEF local, Running, Ended
  <2> QED
    BY <1>11, <2>2, <2>3 DEF Rename
<1>12. CASE Unlink(p)
  <2>1. UNCHANGED <<buffer, done, copied, file, synced, target, stable>>
    BY <1>12 DEF Unlink, local
  <2>2. CASE Goto(p, "failed") /\ linked' = [linked EXCEPT ![p] = FALSE]
    <3>1. ~linked'[p]
      BY <1>1, <2>2 DEF TypeOK
    <3>2. Progress(p)'
      BY <1>3, <2>2, <3>1 DEF Progress
    <3> QED
      BY <1>2, <2>1, <2>2, <3>2, CallStep DEF local, Running, Ended
  <2>3. CASE Goto(p, "littered") /\ UNCHANGED linked
    <3>1. Progress(p)'
      BY <1>3, <2>3 DEF Progress
    <3> QED
      BY <1>2, <2>1, <2>3, <3>1, CallStep DEF local, Running, Ended
  <2> QED
    BY <1>12, <2>2, <2>3 DEF Unlink
<1>13. CASE Kill(p)
  <2>1. UNCHANGED <<buffer, done, copied, file, synced, linked, target, stable>> /\ Goto(p, "killed")
    BY <1>13 DEF Kill, local, disk
  <2>2. Progress(p)'
    BY <1>3, <2>1 DEF Progress
  <2> QED
    BY <1>2, <2>1, <2>2, CallStep DEF local, Running, Ended
<1> QED
  BY <1>4, <1>5, <1>6, <1>7, <1>8, <1>9, <1>10, <1>11, <1>12, <1>13
-----------------------------------------------------------------------------
(* What is complete and synced does not change when more reaches the disk. *)
LEMMA WriteBackStep ==
  ASSUME IInv, WriteBack
  PROVE  IInv'
<1>1. TypeOK /\ UNCHANGED <<pc, buffer, done, copied, file, linked, target>>
  BY DEF IInv, WriteBack, local
<1>2. CASE stable # target /\ stable' = target /\ UNCHANGED synced
  <2>1. TypeOK'
    BY <1>1, <1>2 DEF TypeOK
  <2>2. ASSUME NEW q \in Process
        PROVE  (Progress(q) /\ (q \in {target, stable} => pc[q] = "succeeded"))'
    BY <1>1, <1>2 DEF IInv, Progress, Gathered
  <2> QED
    BY <2>1, <2>2 DEF IInv
<1>3. ASSUME NEW p \in Process, synced[p] < Len(file[p]),
             synced' = [synced EXCEPT ![p] = @ + 1], UNCHANGED stable
      PROVE  IInv'
  <2>1. /\ Len(file[p]) \in Nat /\ Len(file[p]) <= ImageSize /\ synced[p] \in 0 .. ImageSize
        /\ ImageSize \in Nat
    BY <1>1, Sizes DEF TypeOK
  <2>2. synced[p] + 1 \in 0 .. ImageSize /\ synced[p] + 1 <= Len(file[p])
    BY ONLY <1>3, <2>1
  <2>3. /\ synced'[p] = synced[p] + 1
        /\ \A q \in Process \ {p} : synced'[q] = synced[q]
    BY <1>1, <1>3 DEF TypeOK
  <2>4. TypeOK'
    <3>1. synced' \in [Process -> 0 .. ImageSize]
      BY <1>1, <1>3, <2>2 DEF TypeOK
    <3>2. \A q \in Process : synced'[q] <= Len(file[q])
      BY <1>1, <2>2, <2>3 DEF TypeOK
    <3> QED
      BY <1>1, <1>3, <3>1, <3>2 DEF TypeOK
  <2>5. pc[p] \notin {"close", "rename", "succeeded"}
    <3>1. SUFFICES ASSUME pc[p] \in {"close", "rename", "succeeded"} PROVE FALSE
      OBVIOUS
    <3>2. file[p] = Image /\ synced[p] = ImageSize
      BY <3>1 DEF IInv, Progress
    <3> QED
      BY <1>3, <2>1, <3>2, ImageUnits
  <2>6. ASSUME NEW q \in Process
        PROVE  (Progress(q) /\ (q \in {target, stable} => pc[q] = "succeeded"))'
    <3>1. CASE q = p
      BY <1>1, <1>3, <2>5, <3>1 DEF IInv, Progress, Gathered
    <3>2. CASE q # p
      BY <1>1, <1>3, <2>3, <3>2 DEF IInv, Progress, Gathered
    <3> QED
      BY <3>1, <3>2
  <2> QED
    BY <2>4, <2>6 DEF IInv
<1> QED
  BY <1>2, <1>3 DEF WriteBack

(* A power loss takes nothing of what the path names.                      *)
LEMMA PowerLossStep ==
  ASSUME IInv, PowerLoss
  PROVE  IInv'
<1>1. /\ TypeOK /\ UNCHANGED <<buffer, done, copied, synced, stable>>
      /\ target' = stable
      /\ file' = [p \in Process |-> SubSeq(file[p], 1, synced[p])]
      /\ linked' \in [Process -> BOOLEAN]
      /\ \A q \in Process : linked'[q] => linked[q] \/ MayReturn(q)
  BY DEF IInv, PowerLoss, local
<1>2. ASSUME NEW q \in Process
      PROVE  /\ file'[q] \in Seq(1 .. ImageSize) /\ Len(file'[q]) = synced[q]
             /\ synced[q] = Len(file[q]) => file'[q] = file[q]
             /\ synced[q] \in 0 .. ImageSize
  <2> DEFINE s == file[q]
  <2>1. s \in Seq(1 .. ImageSize) /\ Len(s) \in Nat /\ synced[q] \in 0 .. ImageSize
        /\ synced[q] <= Len(s)
    BY <1>1 DEF TypeOK
  <2>2. file'[q] = SubSeq(s, 1, synced[q])
    BY <1>1
  <2> HIDE DEF s
  <2>3. synced[q] \in 0 .. Len(s)
    BY <2>1, Sizes
  <2>4. SubSeq(s, 1, synced[q]) \in Seq(1 .. ImageSize) /\ Len(SubSeq(s, 1, synced[q])) = synced[q]
    <3>1. \A k \in 1 .. synced[q] : s[k] \in 1 .. ImageSize
      <4>1. \A k \in 1 .. Len(s) : s[k] \in 1 .. ImageSize
        BY <2>1, ElementOfSeq
      <4>2. \A k \in 1 .. synced[q] : k \in 1 .. Len(s)
        BY <2>1, <2>3
      <4> QED
        BY ONLY <4>1, <4>2
    <3>2. /\ SubSeq(s, 1, synced[q]) \in Seq(1 .. ImageSize)
          /\ Len(SubSeq(s, 1, synced[q])) = IF 1 <= synced[q] THEN synced[q] - 1 + 1 ELSE 0
      BY <2>3, <3>1, SubSeqProperties
    <3> QED
      BY <2>3, <3>2
  <2>5. synced[q] = Len(s) => SubSeq(s, 1, synced[q]) = s
    BY <2>1, SubSeqFull
  <2> QED
    BY <2>1, <2>2, <2>4, <2>5 DEF s
<1>3. ASSUME NEW q \in Process
      PROVE  /\ pc'[q] \in Ended
             /\ pc'[q] \notin {"killed", "undone"} => pc'[q] = pc[q]
             /\ pc'[q] = "failed" => ~linked'[q]
             /\ pc[q] = "succeeded" => pc'[q] = "succeeded"
  <2>1. pc'[q] = IF pc[q] \in Running THEN "killed"
                  ELSE IF pc[q] = "failed" /\ linked'[q] THEN "undone" ELSE pc[q]
    BY DEF PowerLoss
  <2>2. pc[q] \in Running \cup Ended
    BY <1>1 DEF TypeOK
  <2>3. CASE pc[q] \in Running
    BY <2>1, <2>3 DEF Running, Ended
  <2>4. CASE pc[q] \notin Running /\ pc[q] = "failed" /\ linked'[q]
    BY <2>1, <2>4 DEF Running, Ended
  <2>5. CASE pc[q] \notin Running /\ ~(pc[q] = "failed" /\ linked'[q])
    BY <2>1, <2>2, <2>5
  <2> QED
    BY <2>3, <2>4, <2>5
<1>4. TypeOK'
  <2>1. pc' \in [Process -> Running \cup Ended] /\ file' \in [Process -> Seq(1 .. ImageSize)]
    BY <1>1, <1>2, <1>3 DEF PowerLoss
  <2>2. ASSUME NEW q \in Process
        PROVE  Len(file'[q]) <= ImageSize /\ synced[q] <= Len(file'[q])
    BY <1>2, Sizes
  <2> QED
    BY <1>1, <2>1, <2>2 DEF TypeOK
<1>5. ASSUME NEW q \in Process
      PROVE  (Progress(q) /\ (q \in {target, stable} => pc[q] = "succeeded"))'
  <2>1. pc[q] = "succeeded" => file'[q] = Image
    <3>1. SUFFICES ASSUME pc[q] = "succeeded" PROVE file'[q] = Image
      OBVIOUS
    <3>2. file[q] = Image /\ synced[q] = ImageSize
      BY <3>1 DEF IInv, Progress
    <3> QED
      BY <1>2, <3>2, ImageUnits
  <2>2. Progress(q)'
    <3>1. pc'[q] = "refused" => ~linked'[q]
      BY <1>1, <1>3 DEF IInv, Progress, MayReturn
    <3> QED
      BY <1>1, <1>3, <2>1, <3>1 DEF IInv, Progress, Ended
  <2>3. q \in {target', stable'} => pc'[q] = "succeeded"
    BY <1>1, <1>3 DEF IInv
  <2> QED
    BY <2>2, <2>3
<1> QED
  BY <1>4, <1>5 DEF IInv

(* Every step of every run, of the file system and of the power keeps it.  *)
THEOREM Step == IInv /\ [Next]_outputVars => IInv'
<1> SUFFICES ASSUME IInv, [Next]_outputVars PROVE IInv'
  OBVIOUS
<1>1. ASSUME NEW p \in Process, Run(p) \/ Kill(p) PROVE IInv'
  BY <1>1, RenderStep, WriteStep, CallsKeep DEF Run
<1>2. CASE UNCHANGED outputVars
  <2>1. UNCHANGED <<pc, buffer, done, copied, file, synced, linked, target, stable>>
    BY <1>2 DEF outputVars, local, disk
  <2> QED
    BY <2>1 DEF IInv, TypeOK, Progress, Gathered
<1> QED
  BY <1>1, <1>2, WriteBackStep, PowerLossStep DEF Next

(* The invariant the results below come from.                              *)
THEOREM Invariance == Spec => []IInv
<1> QED
  BY Initially, Step, PTL DEF Spec

(* No run overruns its buffer or writes more than an image, and no more of *)
(* a file is ever taken to be on the disk than was written.                *)
THEOREM OutputTyped == Spec => []TypeOK
<1>1. IInv => TypeOK
  BY DEF IInv
<1> QED
  BY <1>1, Invariance, PTL
-----------------------------------------------------------------------------
(* What the path names in a state of the invariant is a whole image.       *)
LEMMA InvIsWhole == IInv => WholeImages
<1> SUFFICES ASSUME IInv PROVE WholeImages
  OBVIOUS
<1>1. ASSUME NEW p \in Process, p \in {target, stable}
      PROVE  file[p] = Image /\ synced[p] = ImageSize
  BY <1>1 DEF IInv, Progress
<1>2. SubSeq(Image, 1, ImageSize) = Image
  BY ImageUnits, SubSeqFull
<1> QED
  BY <1>1, <1>2 DEF WholeImages

(* Neither now nor after a power loss does the path name anything but a    *)
(* whole image, or what it named before; for any number of runs, any       *)
(* image, sector and buffer size, short writes and failures.               *)
THEOREM PathIsWhole == Spec => []WholeImages
<1> QED
  BY Invariance, InvIsWhole, PTL

(* A run that reports a failure did not replace the output, and left a     *)
(* temporary file only if it could not remove it or the power was lost.    *)
THEOREM FailureIsClean == Spec => []FailureLeavesNothing
<1>1. IInv => FailureLeavesNothing
  BY DEF IInv, Progress, FailureLeavesNothing
<1> QED
  BY <1>1, Invariance, PTL
-----------------------------------------------------------------------------
(* In a state of the invariant nothing shown is torn.                      *)
LEMMA NothingTorn == IInv => TargetShown = target /\ StableShown = stable
BY InvIsWhole DEF WholeImages, TargetShown, StableShown

(* The same of the state after a step.                                     *)
LEMMA NothingTornNext == IInv' => (TargetShown = target /\ StableShown = stable)'
BY NothingTorn, PTL

(* A run's phase follows its next call.                                    *)
LEMMA PhaseMoves ==
  ASSUME TypeOK, NEW p \in Process, NEW where \in Running \cup Ended, Goto(p, where)
  PROVE  Phase' = [Phase EXCEPT ![p] = PhaseOf(where)] /\ Phase[p] = PhaseOf(pc[p])
<1>1. pc' = [pc EXCEPT ![p] = where] /\ pc \in [Process -> Running \cup Ended]
  BY DEF Goto, TypeOK
<1> QED
  BY <1>1 DEF Phase

(* The phases of the calls.                                                *)
LEMMA Phases ==
  /\ \A where \in {"lstat", "mkstemp"} : PhaseOf(where) = "before"
  /\ \A where \in Running \ {"lstat", "mkstemp"} : PhaseOf(where) = "writing"
  /\ \A where \in {"refused", "failed", "littered", "undone"} : PhaseOf(where) = "failed"
  /\ \A where \in {"succeeded", "killed"} : PhaseOf(where) = where
BY DEF PhaseOf, Running

(* A call that stays within its phase is a stutter of the promise.         *)
LEMMA Stutters ==
  ASSUME IInv, IInv', NEW p \in Process, NEW where \in Running \cup Ended,
         Goto(p, where), PhaseOf(where) = PhaseOf(pc[p]),
         UNCHANGED <<linked, target, stable>>
  PROVE  UNCHANGED Promise!fileVars
<1>1. Phase' = [Phase EXCEPT ![p] = PhaseOf(where)] /\ Phase[p] = PhaseOf(pc[p])
  BY PhaseMoves DEF IInv
<1>2. Phase' = Phase
  BY <1>1 DEF Phase
<1>3. Temps' = Temps
  BY DEF Temps
<1>4. TargetShown' = TargetShown /\ StableShown' = StableShown
  <2>1. TargetShown = target /\ StableShown = stable
    BY NothingTorn
  <2>2. TargetShown' = target' /\ StableShown' = stable'
    BY NothingTornNext
  <2> QED
    BY <2>1, <2>2
<1> QED
  BY <1>2, <1>3, <1>4 DEF Promise!fileVars

(* The calls that decide about a run are the steps of the promise.         *)
LEMMA CallRefines ==
  ASSUME IInv, IInv', NEW p \in Process, Run(p) \/ Kill(p)
  PROVE  Promise!FileNext \/ UNCHANGED Promise!fileVars
<1>1. TypeOK /\ pc[p] \in Running /\ Phase[p] = PhaseOf(pc[p])
  <2>1. pc[p] \in Running
    BY DEF Run, Lstat, Mkstemp, Fchmod, Render, Rendered, Write, WriteFails, Fsync,
           Close, Rename, Unlink, Kill, Running
  <2> QED
    BY <2>1 DEF IInv, Phase
<1>2. /\ TargetShown = target /\ StableShown = stable
      /\ TargetShown' = target' /\ StableShown' = stable'
  BY NothingTorn, NothingTornNext
<1>3. \A where \in Running \cup Ended :
        Goto(p, where) => Phase' = [Phase EXCEPT ![p] = PhaseOf(where)]
  BY <1>1, PhaseMoves
<1>4. CASE Lstat(p)
  <2>1. UNCHANGED <<linked, target, stable>> /\ pc[p] = "lstat"
    BY <1>4 DEF Lstat, disk
  <2>2. CASE Goto(p, "mkstemp")
    BY <2>1, <2>2, Phases, Stutters DEF Running
  <2>3. CASE Goto(p, "refused")
    <3>1. Phase[p] = "before" /\ Phase' = [Phase EXCEPT ![p] = "failed"] /\ Temps' = Temps
      BY <1>1, <1>3, <2>1, <2>3, Phases DEF Ended, Temps
    <3>2. Promise!Refuse(p)
      BY <1>2, <2>1, <3>1 DEF Promise!Refuse, Promise!Enter
    <3> QED
      BY <3>2 DEF Promise!FileNext
  <2> QED
    BY <1>4, <2>2, <2>3 DEF Lstat
<1>5. CASE Mkstemp(p)
  <2>1. UNCHANGED <<target, stable>> /\ pc[p] = "mkstemp" /\ Phase[p] = "before"
    BY <1>1, <1>5, Phases DEF Mkstemp
  <2>2. CASE Goto(p, "fchmod") /\ linked' = [linked EXCEPT ![p] = TRUE]
    <3>1. Phase' = [Phase EXCEPT ![p] = "writing"]
      BY <1>3, <2>2, Phases DEF Running
    <3>2. Temps' = Temps \cup {p}
      BY <1>1, <2>2 DEF Temps, TypeOK
    <3>3. Promise!Begin(p)
      BY <1>2, <2>1, <3>1, <3>2 DEF Promise!Begin, Promise!Enter
    <3> QED
      BY <3>3 DEF Promise!FileNext
  <2>3. CASE Goto(p, "refused") /\ UNCHANGED linked
    <3>1. Phase' = [Phase EXCEPT ![p] = "failed"] /\ Temps' = Temps
      BY <1>3, <2>3, Phases DEF Ended, Temps
    <3>2. Promise!Refuse(p)
      BY <1>2, <2>1, <3>1 DEF Promise!Refuse, Promise!Enter
    <3> QED
      BY <3>2 DEF Promise!FileNext
  <2> QED
    BY <1>5, <2>2, <2>3 DEF Mkstemp
<1>6. CASE Fchmod(p)
  <2>1. /\ UNCHANGED <<linked, target, stable>> /\ pc[p] = "fchmod"
        /\ Goto(p, "render") \/ Goto(p, "unlink")
    BY <1>6 DEF Fchmod, disk
  <2> QED
    BY <2>1, Phases, Stutters DEF Running
<1>7. CASE Render(p)
  <2>1. /\ UNCHANGED <<linked, target, stable>> /\ pc[p] = "render"
        /\ Goto(p, "flush") \/ Goto(p, "render")
    BY <1>7 DEF Render, disk
  <2> QED
    BY <2>1, Phases, Stutters DEF Running
<1>8. CASE Rendered(p)
  <2>1. /\ UNCHANGED <<linked, target, stable>> /\ pc[p] = "render"
        /\ Goto(p, "last_flush") \/ Goto(p, "fsync")
    BY <1>8 DEF Rendered, disk
  <2> QED
    BY <2>1, Phases, Stutters DEF Running
<1>9. CASE Write(p)
  <2>1. /\ UNCHANGED <<linked, target, stable>> /\ pc[p] \in {"flush", "last_flush"}
        /\ pc' = pc \/ Goto(p, "render") \/ Goto(p, "fsync")
    BY <1>9 DEF Write
  <2>2. CASE pc' = pc
    <3>1. Phase' = Phase /\ Temps' = Temps
      BY <2>1, <2>2 DEF Phase, Temps
    <3> QED
      BY <1>2, <2>1, <3>1 DEF Promise!fileVars
  <2> QED
    BY <2>1, <2>2, Phases, Stutters DEF Running
<1>10. CASE WriteFails(p)
  <2>1. /\ UNCHANGED <<linked, target, stable>> /\ pc[p] \in {"flush", "last_flush"}
        /\ Goto(p, "close_bad")
    BY <1>10 DEF WriteFails, disk
  <2> QED
    BY <2>1, Phases, Stutters DEF Running
<1>11. CASE Fsync(p)
  <2>1. /\ UNCHANGED <<linked, target, stable>> /\ pc[p] = "fsync"
        /\ Goto(p, "close") \/ Goto(p, "close_bad")
    BY <1>11 DEF Fsync
  <2> QED
    BY <2>1, Phases, Stutters DEF Running
<1>12. CASE Close(p)
  <2>1. /\ UNCHANGED <<linked, target, stable>> /\ pc[p] \in {"close", "close_bad"}
        /\ Goto(p, "rename") \/ Goto(p, "unlink")
    BY <1>12 DEF Close, disk
  <2> QED
    BY <2>1, Phases, Stutters DEF Running
<1>13. CASE Rename(p)
  <2>1. UNCHANGED stable /\ pc[p] = "rename" /\ Phase[p] = "writing"
    BY <1>1, <1>13, Phases DEF Rename, Running
  <2>2. CASE target' = p /\ linked' = [linked EXCEPT ![p] = FALSE] /\ Goto(p, "succeeded")
    <3>1. Phase' = [Phase EXCEPT ![p] = "succeeded"]
      BY <1>3, <2>2, Phases DEF Ended
    <3>2. Temps' = Temps \ {p}
      BY <1>1, <2>2 DEF Temps, TypeOK
    <3>3. Promise!Commit(p)
      BY <1>2, <2>1, <2>2, <3>1, <3>2 DEF Promise!Commit, Promise!Enter
    <3> QED
      BY <3>3 DEF Promise!FileNext
  <2>3. CASE Goto(p, "unlink") /\ UNCHANGED <<linked, target>>
    BY <2>1, <2>3, Phases, Stutters DEF Running
  <2> QED
    BY <1>13, <2>2, <2>3 DEF Rename
<1>14. CASE Unlink(p)
  <2>1. UNCHANGED <<target, stable>> /\ pc[p] = "unlink" /\ Phase[p] = "writing"
    BY <1>1, <1>14, Phases DEF Unlink, Running
  <2>2. PICK where \in {"failed", "littered"} : Goto(p, where)
    BY <1>14 DEF Unlink
  <2>3. Temps' \in {Temps, Temps \ {p}}
    BY <1>1, <1>14 DEF Unlink, Temps, TypeOK
  <2>4. Phase' = [Phase EXCEPT ![p] = "failed"]
    BY <1>3, <2>2, Phases DEF Ended
  <2>5. Promise!Abandon(p)
    BY <1>2, <2>1, <2>3, <2>4 DEF Promise!Abandon, Promise!Enter
  <2> QED
    BY <2>5 DEF Promise!FileNext
<1>15. CASE Kill(p)
  <2>1. UNCHANGED <<linked, target, stable>> /\ Goto(p, "killed")
    BY <1>15 DEF Kill, disk
  <2>2. Phase[p] \in {"before", "writing"} /\ Temps' = Temps
    BY <1>1, <2>1, Phases DEF Temps
  <2>3. Phase' = [Phase EXCEPT ![p] = "killed"]
    BY <1>3, <2>1, Phases DEF Ended
  <2>4. Promise!Die(p)
    BY <1>2, <2>1, <2>2, <2>3 DEF Promise!Die, Promise!Enter, Promise!Live
  <2> QED
    BY <2>4 DEF Promise!FileNext
<1> QED
  BY <1>4, <1>5, <1>6, <1>7, <1>8, <1>9, <1>10, <1>11, <1>12, <1>13, <1>14, <1>15 DEF Run

(* So are those of the file system and of the power.                       *)
LEMMA MachineRefines ==
  ASSUME IInv, IInv', WriteBack \/ PowerLoss
  PROVE  Promise!FileNext \/ UNCHANGED Promise!fileVars
<1>1. /\ TargetShown = target /\ StableShown = stable
      /\ TargetShown' = target' /\ StableShown' = stable'
  BY NothingTorn, NothingTornNext
<1>2. CASE WriteBack
  <2>1. UNCHANGED <<pc, linked, target>> /\ Phase' = Phase /\ Temps' = Temps
    BY <1>2 DEF WriteBack, Phase, Temps
  <2>2. stable' = target \/ stable' = stable
    BY <1>2 DEF WriteBack
  <2>3. CASE stable' = target
    BY <1>1, <2>1, <2>3 DEF Promise!FileNext, Promise!Persist
  <2>4. CASE stable' = stable
    BY <1>1, <2>1, <2>4 DEF Promise!fileVars
  <2> QED
    BY <2>2, <2>3, <2>4
<1>3. CASE PowerLoss
  <2>1. /\ stable' = stable /\ target' = stable
        /\ \A p \in Process : linked'[p] => linked[p] \/ MayReturn(p)
        /\ \A p \in Process : pc'[p] = IF pc[p] \in Running THEN "killed"
                                         ELSE IF pc[p] = "failed" /\ linked'[p] THEN "undone" ELSE pc[p]
    BY <1>3 DEF PowerLoss
  <2>2. ASSUME NEW p \in Process
        PROVE  /\ Phase'[p] = IF Phase[p] \in Promise!Live THEN "killed" ELSE Phase[p]
               /\ MayReturn(p) => Phase[p] \in {"failed", "succeeded"}
    <3>1. pc[p] \in Running \cup Ended /\ Phase[p] = PhaseOf(pc[p])
      BY DEF IInv, TypeOK, Phase
    <3>2. Phase'[p] = PhaseOf(pc'[p])
      BY DEF Phase
    <3>3. MayReturn(p) => Phase[p] \in {"failed", "succeeded"}
      BY <3>1, Phases DEF MayReturn
    <3>4. CASE pc[p] \in Running
      BY <2>1, <3>1, <3>2, <3>3, <3>4, Phases DEF Promise!Live
    <3>5. CASE pc[p] \in Ended
      <4>1. PhaseOf(pc[p]) \in {"failed", "succeeded", "killed"}
        BY <3>5, Phases DEF Ended
      <4>2. pc[p] \notin Running
        BY <3>5 DEF Running, Ended
      <4>3. PhaseOf(pc'[p]) = PhaseOf(pc[p])
        <5>1. CASE pc[p] = "failed" /\ linked'[p]
          BY <2>1, <4>2, <5>1, Phases
        <5>2. CASE ~(pc[p] = "failed" /\ linked'[p])
          BY <2>1, <4>2, <5>2
        <5> QED
          BY <5>1, <5>2
      <4> QED
        BY <3>1, <3>2, <3>3, <4>1, <4>3 DEF Promise!Live
    <3> QED
      BY <3>1, <3>4, <3>5
  <2>3. Phase' = [p \in Process |-> IF Phase[p] \in Promise!Live THEN "killed" ELSE Phase[p]]
    BY <2>2 DEF Phase
  <2>4. Temps' \in SUBSET (Temps \cup {p \in Process : Phase[p] \in {"failed", "succeeded"}})
    BY <2>1, <2>2 DEF Temps
  <2>5. Promise!PowerLoss
    BY <1>1, <2>1, <2>3, <2>4 DEF Promise!PowerLoss
  <2> QED
    BY <2>5 DEF Promise!FileNext
<1> QED
  BY <1>2, <1>3

(* qlay_write_image keeps its promise: every run replaces the path in one  *)
(* step by its whole image or leaves it alone, and a power loss only takes *)
(* back a replacement or the end of a temporary file.                      *)
THEOREM PromiseKept == Spec => KeepsPromise
<1>1. Init => Promise!FileInit
  <2> SUFFICES ASSUME Init PROVE Promise!FileInit
    OBVIOUS
  <2>1. TargetShown = target /\ StableShown = stable
    BY Initially, NothingTorn
  <2>2. Phase = [p \in Process |-> "before"] /\ Temps = {}
    BY Phases DEF Init, Phase, Temps
  <2> QED
    BY <2>1, <2>2 DEF Init, Promise!FileInit
<1>2. IInv /\ IInv' /\ [Next]_outputVars => [Promise!FileNext]_Promise!fileVars
  <2> SUFFICES ASSUME IInv, IInv', [Next]_outputVars
               PROVE  Promise!FileNext \/ UNCHANGED Promise!fileVars
    OBVIOUS
  <2>1. CASE UNCHANGED outputVars
    <3>1. UNCHANGED <<pc, file, synced, linked, target, stable>>
      BY <2>1 DEF outputVars, disk
    <3>2. Phase' = Phase /\ Temps' = Temps /\ TargetShown' = TargetShown /\ StableShown' = StableShown
      BY <3>1 DEF Phase, Temps, TargetShown, StableShown
    <3> QED
      BY <3>2 DEF Promise!fileVars
  <2> QED
    BY <2>1, CallRefines, MachineRefines DEF Next
<1> QED
  BY <1>1, <1>2, Invariance, PTL DEF Spec, KeepsPromise, Promise!FileSpec

-----------------------------------------------------------------------------
(* The command line.                                                       *)

(* A line is a sequence of texts.                                          *)
LEMMA ArgvIsLine ==
  ASSUME argv \in Argv
  PROVE  /\ Len(argv) \in Nat /\ DOMAIN argv = 1 .. Len(argv)
         /\ \A k \in 1 .. Len(argv) : argv[k] \in DOMAIN Word
  BY WordAssumption

(* What makes argument n a value, given those before it.                   *)
WantsValue(n, V) ==
  /\ n > 1 /\ n - 1 \notin V
  /\ argv[n - 1] \in Valued
  /\ \A j \in 1 .. n - 1 : argv[j] = "--" => j \in V

(* The recursion of IsValue has a solution, so it says what it says.       *)
LEMMA ValueRule ==
  ASSUME argv \in Argv
  PROVE  \A k \in 1 .. Len(argv) :
           IsValue[k] = /\ k > 1 /\ ~IsValue[k - 1]
                        /\ argv[k - 1] \in Valued
                        /\ \A j \in 1 .. k - 1 : argv[j] = "--" => IsValue[j]
  <1> DEFINE L == Len(argv)
             G(f) == [k \in DOMAIN argv |->
                        /\ k > 1 /\ ~f[k - 1]
                        /\ argv[k - 1] \in Valued
                        /\ \A j \in 1 .. k - 1 : argv[j] = "--" => f[j]]
             S == SUBSET Nat
             step == [n \in Nat |-> [V \in S |-> IF WantsValue(n + 1, V) THEN V \cup {n + 1} ELSE V]]
  <1>1. L \in Nat /\ DOMAIN argv = 1 .. L
    BY ArgvIsLine
  <1>2. step \in Stepper(S) /\ {} \in S
    BY DEF Stepper
  <1>3. PICK f : Steps(S, {}, step, f)
    BY <1>2, StepByStep
  <1>4. /\ \A n \in Nat : f[n] \in SUBSET Nat
        /\ f[0] = {}
        /\ \A n \in Nat : f[n + 1] = IF WantsValue(n + 1, f[n]) THEN f[n] \cup {n + 1} ELSE f[n]
    BY <1>3 DEF Steps
  <1> HIDE DEF S, step
  <1>5. \A n \in Nat : f[n] \subseteq 1 .. n
    <2> DEFINE T == {n \in Nat : f[n] \subseteq 1 .. n}
    <2>1. 0 \in T
      BY <1>4
    <2>2. ASSUME NEW n \in Nat, n \in T
          PROVE  n + 1 \in T
      <3>1. f[n] \subseteq 1 .. n /\ f[n + 1] \subseteq f[n] \cup {n + 1}
        BY <1>4, <2>2
      <3> QED
        BY <3>1
    <2> HIDE DEF T
    <2>3. Nat \subseteq T
      BY <2>1, <2>2, EveryNumber
    <2> QED
      BY <2>3 DEF T
  (* what is a value of the first k stays one                              *)
  <1>6. \A k \in Nat : \A n \in Nat : k <= n => f[n] \cap 1 .. k = f[k]
    <2> TAKE k \in Nat
    <2> DEFINE T == {n \in Nat : k <= n => f[n] \cap 1 .. k = f[k]}
    <2>1. 0 \in T
      <3>1. 0 >= k => k = 0
        OBVIOUS
      <3> QED
        BY <1>4, <3>1
    <2>2. ASSUME NEW n \in Nat, n \in T
          PROVE  n + 1 \in T
      <3>1. CASE k <= n
        <4>1. f[n] \cap 1 .. k = f[k] /\ n + 1 \notin 1 .. k
          BY <2>2, <3>1
        <4>2. f[n + 1] = f[n] \/ f[n + 1] = f[n] \cup {n + 1}
          BY <1>4
        <4>3. f[n + 1] \cap 1 .. k = f[k]
          BY <4>1, <4>2
        <4> QED
          BY <4>3
      <3>2. CASE k = n + 1
        BY <1>5, <3>2
      <3> QED
        BY <3>1, <3>2
    <2> HIDE DEF T
    <2>3. Nat \subseteq T
      BY <2>1, <2>2, EveryNumber
    <2> QED
      BY <2>3 DEF T
  <1> DEFINE v == [k \in DOMAIN argv |-> k \in f[k]]
  <1>7. \A k \in 1 .. L : \A j \in 1 .. k : j \in f[k] <=> v[j]
    <2> TAKE k \in 1 .. L
    <2> TAKE j \in 1 .. k
    <2>1. f[k] \cap 1 .. j = f[j]
      BY <1>1, <1>6
    <2>2. j \in 1 .. j /\ j \in DOMAIN argv
      BY <1>1
    <2>3. j \in f[k] <=> j \in f[j]
      BY <2>1, <2>2
    <2> QED
      BY <2>2, <2>3
  <1>8. \A k \in 1 .. L : v[k] = G(v)[k]
    <2> TAKE k \in 1 .. L
    <2>1. PICK m \in Nat : m = k - 1
      BY <1>1
    <2>2. k = m + 1 /\ k \in DOMAIN argv
      BY <1>1, <2>1
    <2>3. f[k] = IF WantsValue(k, f[m]) THEN f[m] \cup {k} ELSE f[m]
      BY <1>4, <2>1, <2>2
    <2>4. k \notin f[m]
      <3>1. f[m] \subseteq 1 .. m
        BY <1>5
      <3> QED
        BY <2>2, <3>1
    <2>5. v[k] = (k \in f[k])
      BY <2>2
    <2> HIDE DEF v
    <2>6. \A j \in 1 .. m : j \in f[m] <=> v[j]
      <3>1. CASE m = 0
        BY <3>1
      <3>2. CASE m # 0
        <4>1. m \in 1 .. L
          BY <1>1, <2>2, <3>2
        <4> QED
          BY <1>7, <4>1
      <3> QED
        BY <3>1, <3>2
    <2>7. k > 1 => (m \in f[m] <=> v[m])
      BY <2>2, <2>6
    <2>8. v[k] <=> WantsValue(k, f[m])
      BY <2>3, <2>4, <2>5
    <2>9. WantsValue(k, f[m]) <=> G(v)[k]
      BY <2>1, <2>2, <2>6, <2>7 DEF WantsValue
    <2>10. v[k] \in BOOLEAN /\ G(v)[k] \in BOOLEAN
      BY <2>2, <2>5
    <2>11. v[k] <=> G(v)[k]
      BY <2>8, <2>9
    <2> HIDE DEF G
    <2> QED
      BY <2>10, <2>11
  <1>9. v = G(v)
    BY <1>1, <1>8
  <1> HIDE DEF v
  <1> DEFINE w == CHOOSE f1 : f1 = G(f1)
  <1>10. w = G(w)
    BY <1>9, Zenon
  <1>11. IsValue = w
    BY DEF IsValue
  <1>12. IsValue = G(IsValue)
    BY <1>10, <1>11
  <1>13. \A k \in 1 .. L : IsValue[k] = G(IsValue)[k]
    BY <1>12
  <1> QED
    BY <1>1, <1>13

-----------------------------------------------------------------------------
(* The loop, round by round: what it has made of the arguments behind it   *)
(* is what those alone mean, and no earlier one should have stopped it.    *)

(* What the first n arguments set an option to.                            *)
MeantTo(option, n) ==
  LET at == OptionsFor(option) \cap 1 .. n
  IN  IF at = {} THEN Defaults[option]
      ELSE IF option \in Flags THEN TRUE
      ELSE Setting(option, ValueAt(Max(at)))

(* The loop is never at a value, and it knows of the mark once behind it.  *)
AtMark(n, behind) ==
  IF behind THEN Mark <= n
  ELSE n < Mark /\ (n + 1 \in DOMAIN argv => ~IsValue[n + 1])

OperandsTo(n, texts) ==
  LET at == OperandAt \cap 1 .. n
  IN  /\ texts \in Seq(DOMAIN Word)
      /\ Len(texts) = Cardinality(at) /\ Len(texts) <= 2
      /\ Len(texts) >= 1 => texts[1] = argv[Min(at)]
      /\ Len(texts) = 2 => texts[2] = argv[Max(at)]

GivenTo(n, settings) == settings = [option \in Flags \cup Valued |-> MeantTo(option, n)]

NoStopTo(n) == \A k \in Stops : k > n

CliInv ==
  /\ argv \in Argv
  /\ i \in 1 .. Len(argv) + 1
  /\ options_done \in BOOLEAN /\ error \in BOOLEAN
  /\ verdict = "parsing" =>
       /\ AtMark(i - 1, options_done)
       /\ OperandsTo(i - 1, operands)
       /\ GivenTo(i - 1, given)
       /\ NoStopTo(i - 1)
       /\ error => i \in Stops \ Asked
  /\ LineIsUnderstood

(* The least of a set of numbers is in it.                                 *)
LEMMA MinIsLeast ==
  ASSUME NEW S, S \subseteq Nat, S # {}
  PROVE  Min(S) \in S /\ \A y \in S : Min(S) <= y
  BY LeastNumber DEF Min

(* A number below all others of a set is its least.                        *)
LEMMA MinIs ==
  ASSUME NEW S, S \subseteq Nat, NEW m \in S, \A y \in S : m <= y
  PROVE  Min(S) = m
  <1>1. Min(S) \in S /\ \A y \in S : Min(S) <= y
    BY MinIsLeast
  <1>2. \A x, y \in Nat : x <= y /\ y <= x => x = y
    OBVIOUS
  <1>3. Min(S) \in Nat /\ m \in Nat /\ Min(S) <= m /\ m <= Min(S)
    BY <1>1
  <1> QED
    BY <1>2, <1>3

(* A number above all others of a set is its greatest.                     *)
LEMMA MaxIs ==
  ASSUME NEW S, S \subseteq Nat, NEW m \in S, \A y \in S : y <= m
  PROVE  Max(S) = m
  <1>1. Max(S) \in S /\ \A y \in S : Max(S) >= y
    BY DEF Max
  <1>2. \A x, y \in Nat : x <= y /\ y <= x => x = y
    OBVIOUS
  <1>3. Max(S) \in Nat /\ m \in Nat /\ m <= Max(S) /\ Max(S) <= m
    BY <1>1
  <1> QED
    BY <1>2, <1>3

(* The first "--" that is not a value.                                     *)
LEMMA MarkIsFirst ==
  ASSUME argv \in Argv
  PROVE  /\ Mark \in 1 .. Len(argv) + 1
         /\ Mark <= Len(argv) => argv[Mark] = "--" /\ ~IsValue[Mark]
         /\ \A k \in 1 .. Len(argv) : argv[k] = "--" /\ ~IsValue[k] => Mark <= k
         /\ \A k \in 1 .. Mark - 1 : argv[k] = "--" => IsValue[k]
  <1> DEFINE M == {k \in DOMAIN argv : argv[k] = "--" /\ ~IsValue[k]} \cup {Len(argv) + 1}
  <1>1. Len(argv) \in Nat /\ DOMAIN argv = 1 .. Len(argv)
    BY ArgvIsLine
  <1>2. M \subseteq 1 .. Len(argv) + 1 /\ M \subseteq Nat /\ Len(argv) + 1 \in M
    BY <1>1
  <1>3. Min(M) \in M /\ \A y \in M : Min(M) <= y
    BY <1>2, MinIsLeast
  <1>4. Mark = Min(M)
    BY DEF Mark
  <1>5. Mark \in M /\ \A y \in M : Mark <= y
    BY <1>3, <1>4
  <1>6. Mark \in 1 .. Len(argv) + 1
    BY <1>2, <1>5
  <1> QED
    BY <1>1, <1>5, <1>6

(* Where an option or an operand stands.                                   *)
LEMMA OptionsAndOperands ==
  ASSUME argv \in Argv
  PROVE  /\ OptionAt \subseteq 1 .. Len(argv) /\ OperandAt \subseteq 1 .. Len(argv)
         /\ OptionAt \cap OperandAt = {}
         /\ Stops \subseteq OptionAt \cup OperandAt
         /\ Stops \cap OperandAt = Surplus /\ Asked \cap Surplus = {}
         /\ Asked \subseteq Stops
         /\ Mark \notin OptionAt \cup OperandAt
         /\ \A k \in 1 .. Len(argv) : IsValue[k] /\ k < Mark => k \notin OptionAt \cup OperandAt
         /\ \A option : OptionsFor(option) \subseteq OptionAt
  <1>1. Len(argv) \in Nat /\ Mark \in 1 .. Len(argv) + 1
    BY ArgvIsLine, MarkIsFirst
  <1>2. \A option : OptionsFor(option) \subseteq OptionAt
    BY DEF OptionsFor
  <1>3. /\ Asked \subseteq OptionAt /\ Unknown \subseteq OptionAt /\ BadValue \subseteq OptionAt
        /\ Surplus \subseteq OperandAt
    BY <1>2 DEF Asked, Unknown, BadValue, Surplus
  <1>4. OptionAt \cap OperandAt = {} /\ Mark \notin OptionAt \cup OperandAt
    BY <1>1 DEF OptionAt, OperandAt
  <1>5. OptionAt \subseteq 1 .. Len(argv) /\ OperandAt \subseteq 1 .. Len(argv)
    BY <1>1 DEF OptionAt, OperandAt
  <1>6. \A k \in 1 .. Len(argv) : IsValue[k] /\ k < Mark => k \notin OptionAt \cup OperandAt
    BY <1>1 DEF OptionAt, OperandAt
  <1> QED
    BY <1>2, <1>3, <1>4, <1>5, <1>6 DEF Stops

(* What makes the loop stop at an option.                                  *)
LEMMA StopsAtOption ==
  ASSUME argv \in Argv, NEW k \in OptionAt
  PROVE  /\ k \in Asked <=> argv[k] \in Asking
         /\ k \in Stops <=>
              \/ argv[k] \in Asking
              \/ argv[k] \notin Flags \cup Asking /\ ~IsWith(argv[k], Valued)
              \/ /\ IsWith(argv[k], Valued)
                 /\ HasValue(k) => ~Accepts(Word[argv[k]].name, ValueAt(k))
  <1>1. k \notin Surplus
    BY OptionsAndOperands
  <1>2. k \in Asked <=> argv[k] \in Asking
    BY DEF Asked
  <1>3. k \in Unknown <=> argv[k] \notin Flags \cup Asking /\ ~IsWith(argv[k], Valued)
    BY DEF Unknown
  <1>4. k \in BadValue <=> \E option \in Valued :
          Word[argv[k]].name = option /\ ~(HasValue(k) /\ Accepts(option, ValueAt(k)))
    BY DEF BadValue, OptionsFor
  <1>5. k \in BadValue <=> /\ IsWith(argv[k], Valued)
                           /\ HasValue(k) => ~Accepts(Word[argv[k]].name, ValueAt(k))
    BY <1>4 DEF IsWith
  <1> QED
    BY <1>1, <1>2, <1>3, <1>5 DEF Stops

(* An argument that is neither option nor operand changes nothing.         *)
LEMMA NothingMore ==
  ASSUME argv \in Argv, NEW n \in Nat, n + 1 \notin OptionAt \cup OperandAt,
         NEW texts, OperandsTo(n, texts), NEW settings, GivenTo(n, settings), NoStopTo(n)
  PROVE  OperandsTo(n + 1, texts) /\ GivenTo(n + 1, settings) /\ NoStopTo(n + 1)
  <1>1. \A S : n + 1 \notin S => S \cap 1 .. n + 1 = S \cap 1 .. n
    OBVIOUS
  <1>2. OperandAt \cap 1 .. n + 1 = OperandAt \cap 1 .. n
    BY <1>1
  <1>3. \A option : OptionsFor(option) \cap 1 .. n + 1 = OptionsFor(option) \cap 1 .. n
    BY <1>1, OptionsAndOperands
  <1>4. \A option : MeantTo(option, n + 1) = MeantTo(option, n)
    BY <1>3 DEF MeantTo
  <1>5. NoStopTo(n + 1)
    <2> SUFFICES ASSUME NEW k \in Stops PROVE k > n + 1
      BY DEF NoStopTo
    <2>1. k > n /\ k # n + 1 /\ k \in Nat
      BY OptionsAndOperands, ArgvIsLine DEF NoStopTo
    <2> QED
      BY <2>1
  <1> QED
    BY <1>2, <1>4, <1>5 DEF OperandsTo, GivenTo

(* A good option sets what it names, whatever was set before.              *)
LEMMA OneMoreOption ==
  ASSUME argv \in Argv, NEW n \in Nat, n + 1 \in OptionAt, n + 1 \notin Stops,
         NEW texts, OperandsTo(n, texts), NEW settings, GivenTo(n, settings), NoStopTo(n),
         NEW option, option = Word[argv[n + 1]].name, option \in Flags \cup Valued
  PROVE  /\ OperandsTo(n + 1, texts) /\ NoStopTo(n + 1)
         /\ option \in Flags => GivenTo(n + 1, [settings EXCEPT ![option] = TRUE])
         /\ option \in Valued =>
              GivenTo(n + 1, [settings EXCEPT ![option] = Setting(option, ValueAt(n + 1))])
  <1>0. \A S : n + 1 \notin S => S \cap 1 .. n + 1 = S \cap 1 .. n
    OBVIOUS
  <1>1. OperandAt \cap 1 .. n + 1 = OperandAt \cap 1 .. n
    BY <1>0, OptionsAndOperands
  <1>2. ASSUME NEW other, other # option
        PROVE  MeantTo(other, n + 1) = MeantTo(other, n)
    <2>1. n + 1 \notin OptionsFor(other)
      BY <1>2 DEF OptionsFor
    <2> QED
      BY <1>0, <2>1 DEF MeantTo
  <1>3. MeantTo(option, n + 1) = IF option \in Flags THEN TRUE ELSE Setting(option, ValueAt(n + 1))
    <2> DEFINE at == OptionsFor(option) \cap 1 .. n + 1
    <2>1. n + 1 \in at
      BY DEF OptionsFor
    <2>2. at \subseteq Nat /\ \A y \in at : y <= n + 1
      OBVIOUS
    <2> HIDE DEF at
    <2>3. Max(at) = n + 1
      BY <2>1, <2>2, MaxIs
    <2> QED
      BY <2>1, <2>3 DEF MeantTo, at
  <1>4. NoStopTo(n + 1)
    <2> SUFFICES ASSUME NEW k \in Stops PROVE k > n + 1
      BY DEF NoStopTo
    <2>1. k > n /\ k # n + 1 /\ k \in Nat
      BY OptionsAndOperands, ArgvIsLine DEF NoStopTo
    <2> QED
      BY <2>1
  <1>5. ASSUME NEW value, value = MeantTo(option, n + 1)
        PROVE  GivenTo(n + 1, [settings EXCEPT ![option] = value])
    <2>1. settings = [o \in Flags \cup Valued |-> MeantTo(o, n)]
      BY DEF GivenTo
    <2> HIDE DEF GivenTo
    <2>2. \A o \in Flags \cup Valued :
            [settings EXCEPT ![option] = value][o] = MeantTo(o, n + 1)
      BY <1>2, <1>5, <2>1
    <2>3. [settings EXCEPT ![option] = value] = [o \in Flags \cup Valued |-> MeantTo(o, n + 1)]
      BY <2>1, <2>2
    <2> QED
      BY <2>3 DEF GivenTo
  <1>6. Flags \cap Valued = {}
    BY DEF Flags, Valued, Numeric
  <1> QED
    BY <1>1, <1>3, <1>4, <1>5, <1>6 DEF OperandsTo

(* One of the first two operands is kept, a third one stops the loop.      *)
LEMMA OneMoreOperand ==
  ASSUME argv \in Argv, NEW n \in Nat, n + 1 \in OperandAt,
         NEW texts, OperandsTo(n, texts), NEW settings, GivenTo(n, settings), NoStopTo(n)
  PROVE  /\ Len(texts) < 2 => /\ OperandsTo(n + 1, Append(texts, argv[n + 1]))
                              /\ GivenTo(n + 1, settings) /\ NoStopTo(n + 1)
         /\ Len(texts) = 2 => n + 1 \in Stops \ Asked
  <1> DEFINE at == OperandAt \cap 1 .. n
             new == OperandAt \cap 1 .. n + 1
  <1>1. new = at \cup {n + 1} /\ n + 1 \notin at /\ at \subseteq 1 .. n
    OBVIOUS
  <1>2. IsFiniteSet(at) /\ Cardinality(at) \in Nat /\ Cardinality(new) = Cardinality(at) + 1
    <2>1. IsFiniteSet(1 .. n)
      BY FS_Interval
    <2>2. IsFiniteSet(at)
      BY <1>1, <2>1, FS_Subset
    <2> QED
      BY <1>1, <2>2, FS_AddElement, FS_CardinalityType
  <1>3. n + 1 \in Surplus <=> Cardinality(at) >= 2
    BY DEF Surplus
  <1>4. n + 1 \notin OptionAt
    BY OptionsAndOperands
  <1>5. n + 1 \in Stops <=> Cardinality(at) >= 2
    BY <1>3, OptionsAndOperands
  <1>6. /\ texts \in Seq(DOMAIN Word)
        /\ Len(texts) = Cardinality(at) /\ Len(texts) <= 2
        /\ Len(texts) >= 1 => texts[1] = argv[Min(at)]
        /\ Len(texts) = 2 => texts[2] = argv[Max(at)]
    BY DEF OperandsTo
  <1>7. n + 1 \in 1 .. Len(argv) /\ argv[n + 1] \in DOMAIN Word
    BY OptionsAndOperands, ArgvIsLine
  <1>8. ASSUME Len(texts) < 2
        PROVE  OperandsTo(n + 1, Append(texts, argv[n + 1]))
    <2>0. PICK text \in DOMAIN Word : text = argv[n + 1]
      BY <1>7
    <2> DEFINE more == Append(texts, text)
    <2>1. /\ more \in Seq(DOMAIN Word) /\ Len(more) = Len(texts) + 1
          /\ \A k \in 1 .. Len(texts) : more[k] = texts[k]
          /\ more[Len(texts) + 1] = argv[n + 1]
      <3>1. /\ more \in Seq(DOMAIN Word) /\ Len(more) = Len(texts) + 1
            /\ \A k \in 1 .. Len(texts) : more[k] = texts[k]
            /\ more[Len(texts) + 1] = text
        <4> HIDE DEF OperandsTo
        <4>1. texts \in Seq(DOMAIN Word) /\ text \in DOMAIN Word
          BY <1>6, <2>0
        <4> QED
          BY ONLY <4>1, AppendProperties
      <3> QED
        BY <2>0, <3>1
    <2> HIDE DEF more
    <2>2. new \subseteq Nat /\ n + 1 \in new /\ \A y \in new : y <= n + 1
      BY <1>1
    <2> HIDE DEF at, new
    <2>3. Max(new) = n + 1
      BY <2>2, MaxIs
    <2>4. Len(more) = Cardinality(new) /\ Len(more) \in 1 .. 2
      BY <1>2, <1>6, <1>8, <2>1
    <2>5. more[1] = argv[Min(new)]
      <3>1. CASE Len(texts) = 0
        <4>1. at = {}
          BY <1>2, <1>6, <3>1, FS_EmptySet
        <4>2. \A y \in new : n + 1 <= y
          BY <1>1, <4>1
        <4>3. Min(new) = n + 1
          BY <2>2, <4>2, MinIs
        <4> QED
          BY <2>1, <3>1, <4>3
      <3>2. CASE Len(texts) = 1
        <4>1. at # {} /\ at \subseteq Nat
          <5>1. Cardinality(at) = 1
            BY <1>6, <3>2
          <5>2. at # {}
            BY <5>1, FS_EmptySet
          <5> QED
            BY <1>1, <5>2
        <4>2. Min(at) \in at /\ \A y \in at : Min(at) <= y
          BY <4>1, MinIsLeast
        <4>3. Min(at) \in new /\ \A y \in new : Min(at) <= y
          <5>1. Min(at) \in 1 .. n
            BY <1>1, <4>2
          <5>2. Min(at) <= n + 1
            BY <5>1
          <5>3. \A y \in new : y \in at \/ y = n + 1
            BY <1>1
          <5> QED
            BY <1>1, <4>2, <5>2, <5>3
        <4>4. Min(new) = Min(at)
          BY <2>2, <4>3, MinIs
        <4> QED
          BY <1>6, <2>1, <3>2, <4>4
      <3> QED
        BY <1>6, <1>8, <3>1, <3>2
    <2>6. Len(more) = 2 => more[2] = argv[Max(new)]
      BY <1>6, <2>1, <2>3
    <2> QED
      BY <2>0, <2>1, <2>4, <2>5, <2>6 DEF OperandsTo, more, new
  <1>9. \A option : MeantTo(option, n + 1) = MeantTo(option, n)
    <2>1. \A S : n + 1 \notin S => S \cap 1 .. n + 1 = S \cap 1 .. n
      OBVIOUS
    <2>2. \A option : n + 1 \notin OptionsFor(option)
      BY <1>4, OptionsAndOperands
    <2> QED
      BY <2>1, <2>2 DEF MeantTo
  <1>10. GivenTo(n + 1, settings)
    BY <1>9 DEF GivenTo
  <1>11. ASSUME Len(texts) < 2
         PROVE  NoStopTo(n + 1)
    <2> SUFFICES ASSUME NEW k \in Stops PROVE k > n + 1
      BY DEF NoStopTo
    <2>1. n + 1 \notin Stops
      BY <1>2, <1>5, <1>6, <1>11
    <2>2. k > n /\ k # n + 1 /\ k \in Nat
      BY <2>1, OptionsAndOperands, ArgvIsLine DEF NoStopTo
    <2> QED
      BY <2>2
  <1>12. n + 1 \notin Asked
    BY <1>4 DEF Asked
  <1> QED
    BY <1>5, <1>6, <1>8, <1>10, <1>11, <1>12

(* What the texts of options have of each other.                           *)
LEMMA TextsDiffer ==
  ASSUME NEW text \in DOMAIN Word
  PROVE  /\ text \in Flags => /\ Word[text].dash /\ Word[text].name = text
                              /\ ~IsWith(text, Valued) /\ text \notin Asking \cup Valued \cup {"--"}
         /\ text \in Asking => Word[text].dash
         /\ text = "--" => Word[text].dash /\ ~IsWith(text, Valued)
         /\ IsWith(text, Valued) =>
              /\ Word[text].dash /\ text \notin Asking \cup Flags \cup {"--"}
              /\ Word[text].attached = None => text \in Valued
              /\ Word[text].attached # None => text \notin Valued
  <1>1. Flags \cap Asking = {} /\ Flags \cap Valued = {} /\ Asking \cap Valued = {}
        /\ "--" \notin Flags \cup Asking \cup Valued
    BY DEF Flags, Asking, Valued, Numeric
  <1>2. /\ Word[text].dash /\ Word[text].attached = None => Word[text].name = text
        /\ Word[text].name \in Valued => Word[text].dash
        /\ text \in Flags \cup Valued \cup Asking \cup {"--"} =>
             Word[text].dash /\ Word[text].attached = None
    BY WordAssumption
  <1>3. IsWith(text, Valued) <=> Word[text].name \in Valued
    BY DEF IsWith
  <1> QED
    BY <1>1, <1>2, <1>3

(* Where the loop is after an argument, and what that argument was.        *)
LEMMA NextArgument ==
  ASSUME argv \in Argv, NEW n \in Nat, n + 1 <= Len(argv), AtMark(n, FALSE)
  PROVE  /\ argv[n + 1] = "--" => AtMark(n + 1, TRUE) /\ n + 1 \notin OptionAt \cup OperandAt
         /\ argv[n + 1] # "--" =>
              /\ n + 1 \in OptionAt <=> Word[argv[n + 1]].dash
              /\ n + 1 \in OperandAt <=> ~Word[argv[n + 1]].dash
         /\ argv[n + 1] \notin Valued \cup {"--"} => AtMark(n + 1, FALSE)
         /\ argv[n + 1] \in Valued /\ n + 2 <= Len(argv) =>
              AtMark(n + 2, FALSE) /\ n + 2 \notin OptionAt \cup OperandAt
  <1>1. Len(argv) \in Nat /\ DOMAIN argv = 1 .. Len(argv) /\ n + 1 \in 1 .. Len(argv)
    BY ArgvIsLine
  <1>2. n < Mark /\ ~IsValue[n + 1] /\ Mark \in 1 .. Len(argv) + 1
    BY <1>1, MarkIsFirst DEF AtMark
  <1>3. argv[n + 1] = "--" => Mark = n + 1
    BY <1>1, <1>2, MarkIsFirst
  <1>4. argv[n + 1] # "--" => n + 1 < Mark
    BY <1>1, <1>2, MarkIsFirst
  <1>5. argv[n + 1] # "--" =>
          /\ n + 1 \in OptionAt <=> Word[argv[n + 1]].dash
          /\ n + 1 \in OperandAt <=> ~Word[argv[n + 1]].dash
    BY <1>1, <1>2, <1>4 DEF OptionAt, OperandAt
  <1>6. \A k \in 1 .. n + 1 : k < Mark => (argv[k] = "--" => IsValue[k])
    BY <1>1, MarkIsFirst
  <1>7. ASSUME argv[n + 1] \notin Valued \cup {"--"}
        PROVE  AtMark(n + 1, FALSE)
    <2>1. ASSUME n + 2 \in 1 .. Len(argv)
          PROVE  ~IsValue[n + 2]
      <3>1. (n + 2) - 1 = n + 1
        OBVIOUS
      <3> QED
        BY <1>7, <2>1, <3>1, ValueRule
    <2>2. (n + 1) + 1 = n + 2
      OBVIOUS
    <2> QED
      BY <1>1, <1>4, <1>7, <2>1, <2>2 DEF AtMark
  <1>8. ASSUME argv[n + 1] \in Valued, n + 2 <= Len(argv)
        PROVE  AtMark(n + 2, FALSE) /\ n + 2 \notin OptionAt \cup OperandAt
    <2>1. PICK m \in 1 .. Len(argv) : m = n + 2
      BY <1>1, <1>8
    <2>2. m - 1 = n + 1 /\ m > 1
      BY <2>1
    <2>3. argv[n + 1] # "--"
      BY <1>8 DEF Valued, Numeric
    <2>4. \A j \in 1 .. m - 1 : argv[j] = "--" => IsValue[j]
      <3>1. \A j \in 1 .. m - 1 : j \in 1 .. n + 1 /\ j < Mark
        BY <1>1, <1>2, <1>4, <2>2, <2>3
      <3> QED
        BY <1>6, <3>1
    <2>5. IsValue[m]
      BY <1>2, <1>8, <2>2, <2>4, ValueRule
    <2>6. m < Mark
      <3>1. m # Mark
        BY <1>1, <2>1, <2>5, MarkIsFirst
      <3> QED
        BY <1>1, <1>2, <1>4, <2>1, <2>3, <3>1
    <2>7. m + 1 \in 1 .. Len(argv) => ~IsValue[m + 1]
      <3>1. (m + 1) - 1 = m
        BY <2>1
      <3> QED
        BY <2>5, <3>1, ValueRule
    <2>8. m \notin OptionAt \cup OperandAt
      BY <2>1, <2>5, <2>6, OptionsAndOperands
    <2> QED
      BY <1>1, <2>1, <2>6, <2>7, <2>8 DEF AtMark
  <1>9. argv[n + 1] = "--" => AtMark(n + 1, TRUE) /\ n + 1 \notin OptionAt \cup OperandAt
    BY <1>3, OptionsAndOperands DEF AtMark
  <1> QED
    BY <1>5, <1>7, <1>8, <1>9

(* Behind the mark there are only operands.                                *)
LEMMA OperandsFollow ==
  ASSUME argv \in Argv, NEW n \in Nat, n + 1 <= Len(argv), AtMark(n, TRUE)
  PROVE  AtMark(n + 1, TRUE) /\ n + 1 \in OperandAt
  <1>1. Len(argv) \in Nat /\ Mark \in 1 .. Len(argv) + 1 /\ Mark <= n
    BY ArgvIsLine, MarkIsFirst DEF AtMark
  <1> QED
    BY <1>1 DEF AtMark, OperandAt

(* The meaning of a line is of the line alone.                             *)
LEMMA SameLine ==
  ASSUME argv' = argv
  PROVE  /\ IsValue' = IsValue /\ Mark' = Mark /\ OptionAt' = OptionAt /\ OperandAt' = OperandAt
         /\ Stops' = Stops /\ Asked' = Asked /\ Meaning' = Meaning
         /\ \A option, n : MeantTo(option, n)' = MeantTo(option, n)
         /\ \A option : MeantBy(option)' = MeantBy(option)
  <1>1. IsValue' = IsValue
    BY DEF IsValue
  <1>2. Mark' = Mark
    BY <1>1 DEF Mark
  <1>3. OptionAt' = OptionAt /\ OperandAt' = OperandAt
    BY <1>1, <1>2 DEF OptionAt, OperandAt
  <1>4. \A option : OptionsFor(option)' = OptionsFor(option)
    BY <1>3 DEF OptionsFor
  <1>5. \A k : HasValue(k)' = HasValue(k) /\ ValueAt(k)' = ValueAt(k)
    BY DEF HasValue, ValueAt
  <1>6. Asked' = Asked /\ Unknown' = Unknown /\ Surplus' = Surplus
    BY <1>3 DEF Asked, Unknown, Surplus
  <1>7. BadValue' = BadValue
    BY <1>4, <1>5 DEF BadValue
  <1>8. Stops' = Stops
    BY <1>6, <1>7 DEF Stops
  <1>9. Meaning' = Meaning
    BY <1>3, <1>4, <1>6, <1>8 DEF Meaning
  <1>10. \A option, n : MeantTo(option, n)' = MeantTo(option, n)
    BY <1>4, <1>5 DEF MeantTo
  <1>11. \A option : MeantBy(option)' = MeantBy(option)
    BY <1>4, <1>5 DEF MeantBy
  <1> QED
    BY <1>1, <1>2, <1>3, <1>6, <1>8, <1>9, <1>10, <1>11

(* A round of the loop that does not end it.                               *)
LEMMA ParsingGoesOn ==
  ASSUME argv \in Argv, argv' = argv, verdict' = "parsing",
         NEW n \in Nat, i' = n + 1, n <= Len(argv),
         options_done' \in BOOLEAN, AtMark(n, options_done'),
         OperandsTo(n, operands'), GivenTo(n, given'), NoStopTo(n), error' \in BOOLEAN, error' => n + 1 \in Stops \ Asked
  PROVE  CliInv'
  <1>0. i' - 1 = n /\ i' \in 1 .. Len(argv) + 1
    BY ArgvIsLine
  <1>1. AtMark(i - 1, options_done)'
    BY <1>0, SameLine DEF AtMark
  <1>2. OperandsTo(i - 1, operands)'
    BY <1>0, SameLine DEF OperandsTo
  <1>3. GivenTo(i - 1, given)'
    BY <1>0, SameLine DEF GivenTo
  <1>4. NoStopTo(i - 1)'
    BY <1>0, SameLine DEF NoStopTo
  <1>5. LineIsUnderstood'
    BY DEF LineIsUnderstood
  <1>6. error' => i' \in Stops' \ Asked'
    BY SameLine
  <1> QED
    BY <1>0, <1>1, <1>2, <1>3, <1>4, <1>5, <1>6 DEF CliInv

(* At an option that is not behind the mark.                               *)
LEMMA OptionStepKeeps ==
  ASSUME CliInv, EndOfOptions \/ SetFlag \/ SetOption \/ RefuseOption \/ Answer
  PROVE  CliInv'
  <1> DEFINE n == i - 1
             text == argv[i]
  <1>1. /\ argv \in Argv /\ verdict = "parsing" /\ ~error /\ ~options_done /\ i <= Len(argv)
        /\ n \in Nat /\ i = n + 1 /\ n + 1 <= Len(argv) /\ i \in 1 .. Len(argv)
    BY ArgvIsLine DEF CliInv, EndOfOptions, SetFlag, SetOption, RefuseOption, Answer, AtOption,
       Looping
  <1>2. /\ AtMark(n, FALSE) /\ OperandsTo(n, operands) /\ GivenTo(n, given) /\ NoStopTo(n)
    BY <1>1 DEF CliInv
  <1>3. text \in DOMAIN Word
    BY <1>1, ArgvIsLine
  <1>4. argv' = argv /\ n <= Len(argv)
    BY <1>1 DEF EndOfOptions, SetFlag, SetOption, RefuseOption, Answer
  <1> HIDE DEF n
  <1>0. PICK m \in Nat : m = n + 1
    BY <1>1
  <1>5. CASE EndOfOptions
    <2>1. text = "--" /\ options_done' = TRUE /\ i' = n + 1 + 1 /\ error' = FALSE
          /\ verdict' = "parsing" /\ given' = given /\ operands' = operands
      BY <1>1, <1>5 DEF EndOfOptions, Continue
    <2>2. AtMark(n + 1, TRUE) /\ n + 1 \notin OptionAt \cup OperandAt
      BY <1>1, <1>2, <2>1, NextArgument
    <2>3. OperandsTo(n + 1, operands) /\ GivenTo(n + 1, given) /\ NoStopTo(n + 1)
      BY <1>1, <1>2, <2>2, NothingMore
    <2> QED
      BY <1>0, <1>1, <1>4, <2>1, <2>2, <2>3, ParsingGoesOn
  <1>6. CASE SetFlag
    <2>1. text \in Flags /\ options_done' = FALSE /\ i' = n + 1 + 1 /\ error' = FALSE
          /\ verdict' = "parsing" /\ given' = [given EXCEPT ![text] = TRUE] /\ operands' = operands
      BY <1>1, <1>6 DEF SetFlag, Continue
    <2>2. /\ Word[text].dash /\ Word[text].name = text /\ ~IsWith(text, Valued)
          /\ text \notin Asking \cup Valued \cup {"--"}
      BY <1>3, <2>1, TextsDiffer
    <2>3. n + 1 \in OptionAt /\ AtMark(n + 1, FALSE)
      BY <1>1, <1>2, <2>2, NextArgument
    <2>4. n + 1 \notin Stops
      BY <1>1, <2>1, <2>2, <2>3, StopsAtOption
    <2>5. /\ OperandsTo(n + 1, operands) /\ NoStopTo(n + 1)
          /\ GivenTo(n + 1, [given EXCEPT ![text] = TRUE])
      BY <1>1, <1>2, <2>1, <2>2, <2>3, <2>4, OneMoreOption
    <2> QED
      BY <1>0, <1>1, <1>4, <2>1, <2>3, <2>5, ParsingGoesOn
  <1>7. CASE SetOption
    <2> DEFINE option == Word[text].name
               value == Setting(option, ValueAt(i))
               count == LengthTaken(text)
    <2>1. /\ option \in Valued /\ HasValue(i) /\ Accepts(option, ValueAt(i))
          /\ given' = [given EXCEPT ![option] = value] /\ i' = i + count
          /\ options_done' = FALSE /\ error' = FALSE /\ verdict' = "parsing" /\ operands' = operands
      BY <1>1, <1>7 DEF SetOption, Continue, IsWith
    <2>2. IsWith(text, Valued)
      BY <2>1 DEF IsWith
    <2>3. /\ Word[text].dash /\ text \notin Asking \cup Flags \cup {"--"}
          /\ Word[text].attached = None => text \in Valued
          /\ Word[text].attached # None => text \notin Valued
      BY <1>3, <2>2, TextsDiffer
    <2>4. n + 1 \in OptionAt
      BY <1>1, <1>2, <2>3, NextArgument
    <2>5. n + 1 \notin Stops
      BY <1>1, <2>1, <2>2, <2>3, <2>4, StopsAtOption
    <2> HIDE DEF value
    <2>6. /\ OperandsTo(n + 1, operands) /\ NoStopTo(n + 1)
          /\ GivenTo(n + 1, [given EXCEPT ![option] = value])
      BY <1>1, <1>2, <2>1, <2>4, <2>5, OneMoreOption DEF value
    <2> HIDE DEF option
    <2>7. CASE Word[text].attached = None
      <3>1. count = 2 /\ n + 2 <= Len(argv) /\ n + 2 \in Nat /\ (n + 1) + 1 = n + 2
        BY <1>1, <2>1, <2>7 DEF LengthTaken, HasValue
      <3>2. AtMark(n + 2, FALSE) /\ n + 2 \notin OptionAt \cup OperandAt
        BY <1>1, <1>2, <2>3, <2>7, <3>1, NextArgument
      <3>3. /\ OperandsTo(m, operands) /\ NoStopTo(m) /\ m + 1 = n + 2
            /\ GivenTo(m, [given EXCEPT ![option] = value])
        BY <1>0, <2>6, <3>1
      <3>4. /\ OperandsTo(m + 1, operands) /\ NoStopTo(m + 1)
            /\ GivenTo(m + 1, [given EXCEPT ![option] = value])
        BY <1>1, <3>2, <3>3, NothingMore
      <3>5. i' = (n + 2) + 1
        BY <1>1, <2>1, <3>1
      <3> QED
        BY <1>1, <1>4, <2>1, <3>1, <3>2, <3>3, <3>4, <3>5, ParsingGoesOn
    <2>8. CASE Word[text].attached # None
      <3>1. count = 1 /\ i' = (n + 1) + 1
        BY <1>1, <2>1, <2>8 DEF LengthTaken
      <3>2. AtMark(n + 1, FALSE)
        BY <1>1, <1>2, <2>3, <2>8, NextArgument
      <3> QED
        BY <1>0, <1>1, <1>4, <2>1, <2>6, <3>1, <3>2, ParsingGoesOn
    <2> QED
      BY <2>7, <2>8
  <1>8. CASE RefuseOption
    <2>1. /\ error' = TRUE /\ i' = n + 1 /\ options_done' = FALSE /\ verdict' = "parsing"
          /\ given' = given /\ operands' = operands
          /\ IF IsWith(text, Valued)
             THEN HasValue(i) => ~Accepts(Word[text].name, ValueAt(i))
             ELSE Word[text].dash /\ text \notin Flags \cup Asking \cup {"--"}
      BY <1>1, <1>8 DEF RefuseOption
    <2>2. Word[text].dash /\ text # "--" /\ text \notin Asking
      BY <1>3, <2>1, TextsDiffer
    <2>3. n + 1 \in OptionAt
      BY <1>1, <1>2, <2>2, NextArgument
    <2>4. n + 1 \in Stops \ Asked
      BY <1>1, <2>1, <2>2, <2>3, StopsAtOption
    <2> QED
      BY <1>1, <1>2, <1>4, <2>1, <2>4, ParsingGoesOn
  <1>9. CASE Answer
    <2>1. /\ text \in Asking /\ verdict' = text
          /\ UNCHANGED <<i, given, options_done, operands, error>>
      BY <1>9 DEF Answer
    <2>2. Word[text].dash /\ text # "--" /\ text # "parsing" /\ text # "proceed"
      BY <1>3, <2>1, TextsDiffer DEF Asking
    <2>3. n + 1 \in OptionAt
      BY <1>1, <1>2, <2>2, NextArgument
    <2>4. n + 1 \in Asked /\ n + 1 \in Stops
      BY <1>1, <2>1, <2>3, StopsAtOption
    <2>5. Min(Stops) = n + 1
      <3>1. Stops \subseteq Nat /\ \A k \in Stops : n + 1 <= k
        BY <1>1, <1>2, OptionsAndOperands, ArgvIsLine DEF NoStopTo
      <3> QED
        BY <2>4, <3>1, MinIs
    <2>6. Meaning = text
      BY <1>1, <2>4, <2>5 DEF Meaning
    <2>7. LineIsUnderstood'
      BY <1>4, <2>1, <2>2, <2>6, SameLine DEF LineIsUnderstood
    <2> QED
      BY <1>1, <1>4, <2>1, <2>2, <2>7 DEF CliInv
  <1> QED
    BY <1>5, <1>6, <1>7, <1>8, <1>9

(* At an operand, before the mark or behind it.                            *)
LEMMA OperandStepKeeps ==
  ASSUME CliInv, TakeOperand \/ RefuseOperand
  PROVE  CliInv'
  <1> DEFINE n == i - 1
             text == argv[i]
  <1>1. /\ argv \in Argv /\ verdict = "parsing" /\ ~error /\ i <= Len(argv)
        /\ n \in Nat /\ i = n + 1 /\ n + 1 <= Len(argv) /\ i \in 1 .. Len(argv)
        /\ options_done \in BOOLEAN /\ (options_done \/ ~Word[text].dash)
    BY ArgvIsLine DEF CliInv, TakeOperand, RefuseOperand, IsOperand, Looping
  <1>2. AtMark(n, options_done) /\ OperandsTo(n, operands) /\ GivenTo(n, given) /\ NoStopTo(n)
    BY <1>1 DEF CliInv
  <1>3. text \in DOMAIN Word
    BY <1>1, ArgvIsLine
  <1>4. argv' = argv /\ n <= Len(argv)
    BY <1>1 DEF TakeOperand, RefuseOperand
  <1> HIDE DEF n
  <1>0. PICK m \in Nat : m = n + 1
    BY <1>1
  <1>5. AtMark(n + 1, options_done) /\ n + 1 \in OperandAt
    <2>1. CASE options_done
      <3>1. AtMark(n, TRUE)
        BY <1>2, <2>1 DEF AtMark
      <3>2. AtMark(n + 1, TRUE) /\ n + 1 \in OperandAt
        BY <1>1, <3>1, OperandsFollow
      <3> QED
        BY <2>1, <3>2 DEF AtMark
    <2>2. CASE ~options_done
      <3>1. AtMark(n, FALSE)
        BY <1>2, <2>2 DEF AtMark
      <3>2. ~Word[text].dash
        BY <1>1, <2>2
      <3>3. text \notin Valued \cup {"--"}
        BY <1>3, <3>2, WordAssumption
      <3>4. AtMark(n + 1, FALSE) /\ n + 1 \in OperandAt
        BY <1>1, <3>1, <3>2, <3>3, NextArgument
      <3> QED
        BY <2>2, <3>4 DEF AtMark
    <2> QED
      BY <2>1, <2>2
  <1>6. CASE TakeOperand
    <2>1. /\ Len(operands) < 2 /\ operands' = Append(operands, text) /\ i' = (n + 1) + 1
          /\ error' = FALSE /\ verdict' = "parsing" /\ given' = given
          /\ options_done' = options_done
      BY <1>1, <1>6 DEF TakeOperand, Continue
    <2>2. /\ OperandsTo(n + 1, Append(operands, text))
          /\ GivenTo(n + 1, given) /\ NoStopTo(n + 1)
      BY <1>1, <1>2, <1>5, <2>1, OneMoreOperand
    <2> QED
      BY <1>0, <1>1, <1>4, <1>5, <2>1, <2>2, ParsingGoesOn
  <1>7. CASE RefuseOperand
    <2>1. /\ Len(operands) = 2 /\ operands' = operands /\ i' = n + 1
          /\ error' = TRUE /\ verdict' = "parsing" /\ given' = given
          /\ options_done' = options_done
      BY <1>1, <1>7 DEF RefuseOperand
    <2>2. n + 1 \in Stops \ Asked
      BY <1>1, <1>2, <1>5, <2>1, OneMoreOperand
    <2> QED
      BY <1>1, <1>2, <1>4, <2>1, <2>2, ParsingGoesOn
  <1> QED
    BY <1>6, <1>7

(* Behind the last argument everything is known.                           *)
LEMMA AllIsKnown ==
  ASSUME argv \in Argv, NEW texts, OperandsTo(Len(argv), texts),
         NEW settings, GivenTo(Len(argv), settings), NoStopTo(Len(argv))
  PROVE  /\ Stops = {} /\ Len(texts) = Cardinality(OperandAt)
         /\ Len(texts) = 2 => texts = <<argv[Min(OperandAt)], argv[Max(OperandAt)]>>
         /\ \A option \in Flags \cup Valued : settings[option] = MeantBy(option)
         /\ settings["--screen-mode"] = NoNumber <=> OptionsFor("--screen-mode") = {}
         /\ settings["--screen"] = None <=> OptionsFor("--screen") = {}
  <1> DEFINE L == Len(argv)
  <1>1. L \in Nat /\ OptionAt \subseteq 1 .. L /\ OperandAt \subseteq 1 .. L
        /\ Stops \subseteq 1 .. L /\ \A option : OptionsFor(option) \subseteq OptionAt
    BY ArgvIsLine, OptionsAndOperands
  <1>2. Stops = {}
    BY <1>1 DEF NoStopTo
  <1>3. OperandAt \cap 1 .. L = OperandAt /\ \A option : OptionsFor(option) \cap 1 .. L = OptionsFor(option)
    BY <1>1
  <1>4. \A option : MeantTo(option, L) = MeantBy(option)
    BY <1>3 DEF MeantTo, MeantBy
  <1>5. \A option \in Flags \cup Valued : settings[option] = MeantBy(option)
    BY <1>4 DEF GivenTo
  <1>6. /\ texts \in Seq(DOMAIN Word) /\ Len(texts) = Cardinality(OperandAt)
        /\ Len(texts) >= 1 => texts[1] = argv[Min(OperandAt)]
        /\ Len(texts) = 2 => texts[2] = argv[Max(OperandAt)]
    BY <1>3 DEF OperandsTo
  <1>7. Len(texts) = 2 => texts = <<argv[Min(OperandAt)], argv[Max(OperandAt)]>>
    <2> SUFFICES ASSUME Len(texts) = 2 PROVE texts = <<argv[Min(OperandAt)], argv[Max(OperandAt)]>>
      OBVIOUS
    <2>1. texts = <<texts[1], texts[2]>>
      BY <1>6
    <2> QED
      BY <1>6, <2>1
  <1>8. {"--screen-mode", "--screen"} \subseteq Valued /\ Flags \cap Valued = {}
        /\ "--screen-mode" \in Numeric /\ "--screen" \notin Numeric
    BY DEF Valued, Numeric, Flags
  <1>9. Defaults["--screen-mode"] = NoNumber /\ Defaults["--screen"] = None
    BY <1>8 DEF Defaults, Flags
  <1>10. ASSUME NEW option \in Valued, OptionsFor(option) # {}
         PROVE  \E k \in 1 .. L : /\ IsWith(argv[k], Valued) /\ HasValue(k)
                                  /\ Accepts(option, ValueAt(k))
                                  /\ MeantBy(option) = Setting(option, ValueAt(k))
    <2> DEFINE at == OptionsFor(option)
    <2>1. at \subseteq 1 .. L
      BY <1>1
    <2>2. \E k \in at : \A y \in at : y <= k
      BY <1>1, <1>10, <2>1, GreatestNumber
    <2>3. PICK k \in at : \A y \in at : y <= k
      BY <2>2
    <2>4. Max(at) = k
      <3> HIDE DEF at
      <3>1. at \subseteq Nat
        BY <2>1
      <3> QED
        BY <2>3, <3>1, MaxIs
    <2>5. k \in OptionAt /\ Word[argv[k]].name = option
      BY <1>1, <2>3 DEF OptionsFor
    <2>6. IsWith(argv[k], Valued)
      BY <2>5 DEF IsWith
    <2>7. HasValue(k) /\ Accepts(option, ValueAt(k))
      BY <1>2, <2>5, <2>6, StopsAtOption
    <2>8. MeantBy(option) = Setting(option, ValueAt(k))
      BY <1>8, <1>10, <2>4 DEF MeantBy
    <2> QED
      BY <2>1, <2>3, <2>6, <2>7, <2>8
  <1>11. settings["--screen-mode"] = NoNumber <=> OptionsFor("--screen-mode") = {}
    <2>1. CASE OptionsFor("--screen-mode") = {}
      BY <1>5, <1>8, <1>9, <2>1 DEF MeantBy
    <2>2. CASE OptionsFor("--screen-mode") # {}
      <3>1. PICK k \in 1 .. L : /\ Accepts("--screen-mode", ValueAt(k))
                                /\ MeantBy("--screen-mode") = Setting("--screen-mode", ValueAt(k))
        BY <1>8, <1>10, <2>2
      <3>2. Word[ValueAt(k)].number \in {4, 8}
        BY <3>1 DEF Accepts
      <3>3. MeantBy("--screen-mode") \in {4, 8}
        BY <1>8, <3>1, <3>2 DEF Setting
      <3> QED
        BY <1>5, <1>8, <2>2, <3>3 DEF NoNumber
    <2> QED
      BY <2>1, <2>2
  <1>12. settings["--screen"] = None <=> OptionsFor("--screen") = {}
    <2>1. CASE OptionsFor("--screen") = {}
      BY <1>5, <1>8, <1>9, <2>1 DEF MeantBy
    <2>2. CASE OptionsFor("--screen") # {}
      <3>1. PICK k \in 1 .. L : /\ IsWith(argv[k], Valued) /\ HasValue(k)
                                /\ MeantBy("--screen") = Setting("--screen", ValueAt(k))
        BY <1>8, <1>10, <2>2
      <3>2. ValueAt(k) \in DOMAIN Word
        <4>1. CASE Word[argv[k]].attached = None
          <5>1. k + 1 \in 1 .. L
            BY <1>1, <3>1, <4>1 DEF HasValue
          <5> QED
            BY <4>1, <5>1, ArgvIsLine DEF ValueAt
        <4>2. CASE Word[argv[k]].attached # None
          <5>1. argv[k] \in DOMAIN Word
            BY ArgvIsLine
          <5> QED
            BY <4>2, <5>1, WordAssumption DEF ValueAt
        <4> QED
          BY <4>1, <4>2
      <3>3. MeantBy("--screen") # None
        BY <1>8, <3>1, <3>2, WordAssumption DEF Setting
      <3> QED
        BY <1>5, <1>8, <2>2, <3>3
    <2> QED
      BY <2>1, <2>2
  <1> QED
    BY <1>2, <1>5, <1>6, <1>7, <1>11, <1>12

(* After the loop.                                                         *)
LEMMA JudgeKeeps ==
  ASSUME CliInv, Judge
  PROVE  CliInv'
  <1>1. /\ argv \in Argv /\ verdict = "parsing" /\ (error \/ i > Len(argv)) /\ argv' = argv
        /\ Len(argv) \in Nat /\ i \in 1 .. Len(argv) + 1
        /\ error \in BOOLEAN /\ options_done \in BOOLEAN
        /\ UNCHANGED <<i, given, options_done, operands>>
        /\ error' = (error \/ Incomplete)
        /\ verdict' = IF error' THEN "usage" ELSE "proceed"
    BY ArgvIsLine DEF CliInv, Judge
  <1>2. /\ OperandsTo(i - 1, operands) /\ GivenTo(i - 1, given) /\ NoStopTo(i - 1)
        /\ error => i \in Stops \ Asked
    BY <1>1 DEF CliInv
  <1>3. CASE error
    <2>1. Min(Stops) = i
      <3>1. Stops \subseteq Nat /\ \A k \in Stops : i <= k
        BY <1>1, <1>2, OptionsAndOperands DEF NoStopTo
      <3> QED
        BY <1>2, <1>3, <3>1, MinIs
    <2>2. Meaning = "usage"
      BY <1>2, <1>3, <2>1 DEF Meaning
    <2>3. error' = TRUE /\ verdict' = "usage"
      BY <1>1, <1>3
    <2>4. LineIsUnderstood'
      BY <1>1, <2>2, <2>3, SameLine DEF LineIsUnderstood
    <2> QED
      BY <1>1, <2>3, <2>4 DEF CliInv
  <1>4. CASE ~error
    <2>1. i - 1 = Len(argv)
      BY <1>1, <1>4
    <2>2. /\ OperandsTo(Len(argv), operands) /\ GivenTo(Len(argv), given) /\ NoStopTo(Len(argv))
      BY <1>2, <2>1
    <2>3. /\ Stops = {} /\ Len(operands) = Cardinality(OperandAt)
          /\ Len(operands) = 2 => operands = <<argv[Min(OperandAt)], argv[Max(OperandAt)]>>
          /\ \A option \in Flags \cup Valued : given[option] = MeantBy(option)
          /\ given["--screen-mode"] = NoNumber <=> OptionsFor("--screen-mode") = {}
          /\ given["--screen"] = None <=> OptionsFor("--screen") = {}
      BY <1>1, <2>2, AllIsKnown
    <2>4. Meaning = IF Incomplete THEN "usage" ELSE "proceed"
      BY <2>3 DEF Meaning, Incomplete
    <2>5. error' <=> Incomplete
      BY <1>1, <1>4
    <2>6. verdict' = Meaning /\ (verdict' = "proceed" => Len(operands) = 2)
      BY <1>1, <2>4, <2>5 DEF Incomplete
    <2>7. error' \in BOOLEAN
      BY <1>1, Zenon
    <2>8. OperandAt' = OperandAt /\ Meaning' = Meaning /\ \A option : MeantBy(option)' = MeantBy(option)
      BY <1>1, SameLine
    <2>9. LineIsUnderstood'
      BY <1>1, <2>3, <2>6, <2>8 DEF LineIsUnderstood
    <2>10. verdict' # "parsing"
      BY <1>1
    <2> QED
      BY <1>1, <2>7, <2>9, <2>10 DEF CliInv
  <1> QED
    BY <1>1, <1>3, <1>4

(* The loop begins with nothing read and nothing set.                      *)
LEMMA CliInitially == CliInit => CliInv
  <1> SUFFICES ASSUME CliInit PROVE CliInv
    OBVIOUS
  <1>1. /\ argv \in Argv /\ i = 1 /\ given = Defaults /\ options_done = FALSE
        /\ operands = << >> /\ error = FALSE /\ verdict = "parsing"
        /\ Len(argv) \in Nat /\ DOMAIN argv = 1 .. Len(argv)
    BY ArgvIsLine DEF CliInit
  <1>2. AtMark(0, FALSE)
    <2>1. 1 \in 1 .. Len(argv) => ~IsValue[1]
      <3> SUFFICES ASSUME 1 \in 1 .. Len(argv) PROVE ~IsValue[1]
        OBVIOUS
      <3>1. PICK k \in 1 .. Len(argv) : k = 1
        OBVIOUS
      <3>2. ~(k > 1)
        BY <3>1
      <3>3. ~IsValue[k]
        BY <1>1, <3>2, ValueRule
      <3> QED
        BY <3>1, <3>3
    <2>2. 0 < Mark /\ 0 + 1 = 1
      BY <1>1, MarkIsFirst
    <2> QED
      BY <1>1, <2>1, <2>2 DEF AtMark
  <1>3. \A S : S \cap 1 .. 0 = {}
    OBVIOUS
  <1>4. OperandsTo(0, operands)
    BY <1>1, <1>3, FS_EmptySet DEF OperandsTo
  <1>5. GivenTo(0, given)
    <2>1. \A option : MeantTo(option, 0) = Defaults[option]
      BY <1>3 DEF MeantTo
    <2>2. Defaults = [option \in Flags \cup Valued |-> Defaults[option]]
      <3> DEFINE default(option) ==
                   CASE option \in Flags                                -> FALSE
                     [] option = "--rate"                               -> 50
                     [] option = "--sectors"                            -> 255
                     [] option \in {"--screen-mode", "--random-id"}     -> NoNumber
                     [] option \in {"--screen", "--medium-name"}        -> None
      <3>1. Defaults = [option \in Flags \cup Valued |-> default(option)]
        BY DEF Defaults
      <3> HIDE DEF default
      <3> QED
        BY <3>1
    <2> QED
      BY <1>1, <2>1, <2>2 DEF GivenTo
  <1>6. NoStopTo(0)
    BY <1>1, OptionsAndOperands DEF NoStopTo
  <1>7. 1 - 1 = 0 /\ 1 \in 1 .. Len(argv) + 1
    BY <1>1
  <1> QED
    BY <1>1, <1>2, <1>4, <1>5, <1>6, <1>7 DEF CliInv, LineIsUnderstood

(* For every command line, whatever its options, values, operands and "--":*)
(* the loop comes to the outcome and the settings the line means.          *)
THEOREM LineMeansThis == CliSpec => []LineIsUnderstood
  <1>1. CliInv /\ [CliNext]_cliVars => CliInv'
    <2> SUFFICES ASSUME CliInv, [CliNext]_cliVars PROVE CliInv'
      OBVIOUS
    <2>1. CASE UNCHANGED cliVars
      <3>1. argv' = argv /\ i' = i /\ given' = given /\ options_done' = options_done
            /\ operands' = operands /\ error' = error /\ verdict' = verdict
        BY <2>1 DEF cliVars
      <3>2. LineIsUnderstood'
        BY <3>1, SameLine DEF CliInv, LineIsUnderstood
      <3>3. CASE verdict = "parsing"
        <4>1. i - 1 \in Nat /\ i = (i - 1) + 1 /\ i - 1 <= Len(argv)
          BY ArgvIsLine DEF CliInv
        <4>2. PICK n \in Nat : n = i - 1
          BY <4>1
        <4> QED
          BY <3>1, <3>3, <4>1, <4>2, ParsingGoesOn DEF CliInv
      <3>4. CASE verdict # "parsing"
        BY <3>1, <3>2, <3>4 DEF CliInv
      <3> QED
        BY <3>3, <3>4
    <2>2. CASE CliNext
      BY <2>2, OptionStepKeeps, OperandStepKeeps, JudgeKeeps DEF CliNext
    <2> QED
      BY <2>1, <2>2
  <1>2. CliInv => LineIsUnderstood
    BY DEF CliInv
  <1> QED
    BY <1>1, <1>2, CliInitially, PTL DEF CliSpec
-----------------------------------------------------------------------------
(* The decoders.                                                           *)

AnyStream ==
  stream \in [ magic : BOOLEAN, size : Nat, payload_size : Nat, payload : Seq(Byte) ]

DecodeInv == DecodeTypeOK /\ InBounds

(* A byte of a sequence of bytes is a byte, and the sizes in it are sizes. *)
LEMMA ControlByte ==
  ASSUME NEW b \in Byte
  PROVE  /\ LiteralLength(b) \in Nat \ {0}
         /\ MatchLength(b) \in Nat \ {0}
BY QlzAssumption DEF Byte, ByteSpan, LiteralLength, MatchLength

(* The distance of a long match.                                           *)
LEMMA LongDistanceNat ==
  ASSUME NEW high \in Byte, NEW low \in Byte
  PROVE  LongDistance(high, low) \in Nat
<1>1. high \in Nat /\ low \in Nat /\ ByteSpan \in Nat
  BY QlzAssumption DEF Byte, ByteSpan
<1>2. \A a, b \in Nat : a * b \in Nat
  OBVIOUS
<1>. QED BY <1>1, <1>2 DEF LongDistance

(* A copied match is bytes of the output, as many as it says.              *)
LEMMA RepeatIsOutput ==
  ASSUME NEW S, NEW out \in Seq(S), NEW distance \in 1 .. Len(out), NEW length \in Nat
  PROVE  /\ Repeat(out, distance, length) \in Seq(S)
         /\ Len(Repeat(out, distance, length)) = Len(out) + length
<1>1. \A k \in 1 .. length : (k - 1) % distance \in 0 .. distance - 1
  OBVIOUS
<1>. DEFINE copy == [k \in 1 .. length |-> out[Len(out) - distance + 1 + ((k - 1) % distance)]]
<1>2. \A k \in 1 .. length : Len(out) - distance + 1 + ((k - 1) % distance) \in 1 .. Len(out)
  BY <1>1
<1>3. \A k \in 1 .. length : out[Len(out) - distance + 1 + ((k - 1) % distance)] \in S
  BY <1>2
<1>4. copy \in [1 .. length -> S]
  BY <1>3
<1>5. copy \in Seq(S) /\ Len(copy) = length
  BY <1>4
<1>. QED BY <1>5 DEF Repeat

(* The type of a packet is one of the four.                                *)
LEMMA FourTypes ==
  ASSUME NEW b \in Byte
  PROVE  TypeOf(b) \in {Literal, Short, Long, Continuation}
<1>. DEFINE t == b \div CodeSpan
            r == b % CodeSpan
<1>1. CodeSpan \in Nat \ {0} /\ b \in 0 .. 4 * CodeSpan - 1
  BY QlzAssumption DEF Byte, ByteSpan
<1>2. t \in Int /\ r \in 0 .. CodeSpan - 1 /\ b = CodeSpan * t + r
  BY <1>1
<1>. HIDE DEF t, r
<1>3. t >= 0
  <2>1. SUFFICES ASSUME t <= -1 PROVE FALSE
    BY <1>2
  <2>2. CodeSpan * t <= CodeSpan * (-1)
    BY <1>1, <1>2, <2>1
  <2>. QED BY <1>1, <1>2, <2>2
<1>4. t <= 3
  <2>1. SUFFICES ASSUME t >= 4 PROVE FALSE
    BY <1>2
  <2>2. CodeSpan * t >= CodeSpan * 4
    BY <1>1, <1>2, <2>1
  <2>. QED BY <1>1, <1>2, <2>2
<1>5. t \in {0, 1, 2, 3}
  BY <1>2, <1>3, <1>4
<1>. QED BY <1>5 DEF t, TypeOf, Literal, Short, Long, Continuation

(* What is left of the input is bytes.                                     *)
LEMMA InputByte ==
  ASSUME DecodeInv, NEW k \in Nat \ {0}, k <= InputLeft
  PROVE  Input(k) \in Byte
<1>1. stream.payload \in Seq(Byte) /\ input_at \in Nat
  BY DEF DecodeInv, DecodeTypeOK
<1>2. input_at + k \in 1 .. Len(stream.payload)
  BY <1>1 DEF InputLeft
<1>. QED BY <1>1, <1>2 DEF Input
-----------------------------------------------------------------------------
(* A literal packet.                                                       *)
LEMMA LiteralsKeep ==
  ASSUME DecodeInv, Literals
  PROVE  DecodeInv'
<1>. DEFINE n == LiteralLength(Input(1))
            bytes == SubSeq(stream.payload, input_at + 2, input_at + 1 + n)
<1>1. /\ stream.payload \in Seq(Byte) /\ stream.size \in Nat
      /\ input_at \in Nat /\ output \in Seq(Byte)
  BY DEF DecodeInv, DecodeTypeOK
<1>2. Input(1) \in Byte /\ InputLeft > 0
  BY InputByte, <1>1 DEF Literals, TypeIs, InputLeft
<1>3. n \in Nat \ {0} /\ n <= InputLeft - 1 /\ n <= OutputLeft
  BY <1>2, ControlByte DEF Literals, LiteralFits
<1>. HIDE DEF n
<1>4. bytes \in Seq(Byte) /\ Len(bytes) = n
  BY <1>1, <1>3 DEF InputLeft
<1>o. output' = output \o bytes
  BY DEF Literals, n
<1>5. /\ input_at' = input_at + 1 + n
      /\ can_continue' = FALSE
      /\ stream' = stream /\ last_distance' = last_distance /\ outcome' = outcome
  BY DEF Literals, n
<1>. HIDE DEF bytes
<1>a. output \o bytes \in Seq(Byte) /\ Len(output \o bytes) = Len(output) + n
  BY <1>1, <1>4
<1>6. output' \in Seq(Byte) /\ Len(output') = Len(output) + n
  BY <1>o, <1>a
<1>7. DecodeTypeOK'
  <2>1. input_at' \in Nat /\ last_distance' \in Nat
    BY <1>1, <1>3, <1>5 DEF DecodeInv, DecodeTypeOK
  <2>2. can_continue' \in BOOLEAN
    BY <1>5
  <2>3. stream' = stream /\ outcome' = outcome
    BY <1>5
  <2>. QED BY <2>1, <2>2, <2>3, <1>6 DEF DecodeInv, DecodeTypeOK
<1>8. InBounds'
  BY <1>1, <1>3, <1>5, <1>6 DEF InBounds, InputLeft, OutputLeft
<1>. QED BY <1>7, <1>8 DEF DecodeInv

(* What a match packet may stand for is a number and within the input.     *)
LEMMA MatchesTyped ==
  ASSUME DecodeInv, NEW match \in Matches
  PROVE  /\ match.distance \in Nat
         /\ match.used \in 1 .. InputLeft
         /\ InputLeft > 0 /\ OutputLeft > 0 /\ outcome = "decoding"
<1>1. InputLeft \in Int /\ last_distance \in Nat
  BY DEF DecodeInv, DecodeTypeOK, InputLeft
<1>2. CASE TypeIs(Short) /\ InputLeft >= 2 /\ match = [ distance |-> Input(2) + 1, used |-> 2 ]
  <2>1. Input(2) \in Nat
    BY <1>2, InputByte DEF Byte
  <2>. QED BY <1>1, <1>2, <2>1 DEF TypeIs, Decoding
<1>3. CASE /\ TypeIs(Long) /\ InputLeft >= 3
           /\ match = [ distance |-> LongDistance(Input(2), Input(3)), used |-> 3 ]
  <2>1. Input(2) \in Byte /\ Input(3) \in Byte
    BY <1>1, <1>3, InputByte
  <2>. QED BY <1>1, <1>3, <2>1, LongDistanceNat DEF TypeIs, Decoding
<1>4. CASE TypeIs(Continuation) /\ can_continue /\ match = [ distance |-> last_distance, used |-> 1 ]
  BY <1>1, <1>4 DEF TypeIs, Decoding
<1>. QED BY <1>2, <1>3, <1>4 DEF Matches

(* A match packet.                                                         *)
LEMMA MatchKeeps ==
  ASSUME DecodeInv, Match
  PROVE  DecodeInv'
<1>1. PICK match \in Matches :
        /\ MatchFits(match)
        /\ output' = Repeat(output, match.distance, MatchLength(Input(1)))
        /\ input_at' = input_at + match.used
        /\ last_distance' = match.distance
        /\ can_continue' = TRUE
        /\ UNCHANGED <<stream, outcome>>
  BY DEF Match
<1>2. /\ stream.payload \in Seq(Byte) /\ stream.size \in Nat
      /\ input_at \in Nat /\ output \in Seq(Byte)
  BY DEF DecodeInv, DecodeTypeOK
<1>3. match.distance \in Nat /\ match.used \in 1 .. InputLeft /\ InputLeft > 0
  BY MatchesTyped
<1>4. MatchLength(Input(1)) \in Nat \ {0}
  BY <1>2, <1>3, InputByte, ControlByte DEF InputLeft
<1>5. match.distance \in 1 .. Len(output) /\ MatchLength(Input(1)) <= OutputLeft
  BY <1>1, <1>2, <1>3 DEF MatchFits
<1>6. output' \in Seq(Byte) /\ Len(output') = Len(output) + MatchLength(Input(1))
  BY <1>1, <1>2, <1>4, <1>5, RepeatIsOutput
<1>7. DecodeTypeOK'
  BY <1>1, <1>2, <1>3, <1>6 DEF DecodeInv, DecodeTypeOK
<1>8. InBounds'
  BY <1>1, <1>2, <1>3, <1>4, <1>5, <1>6, SMTT(30) DEF InBounds, InputLeft, OutputLeft
<1>. QED BY <1>7, <1>8 DEF DecodeInv

(* Every step keeps the invariant.                                         *)
LEMMA DecodeStep ==
  ASSUME DecodeInv, [DecodeNext]_decodeVars
  PROVE  DecodeInv'
<1>1. CASE Header
  BY <1>1 DEF Header, DecodeInv, DecodeTypeOK, InBounds, Outcomes
<1>2. CASE Literals
  BY <1>2, LiteralsKeep
<1>3. CASE Match
  BY <1>3, MatchKeeps
<1>4. CASE Malformed
  BY <1>4 DEF Malformed, DecodeInv, DecodeTypeOK, InBounds, Outcomes
<1>5. CASE Finish
  BY <1>5 DEF Finish, DecodeInv, DecodeTypeOK, InBounds, Outcomes
<1>6. CASE UNCHANGED decodeVars
  BY <1>6 DEF decodeVars, DecodeInv, DecodeTypeOK, InBounds
<1>. QED BY <1>1, <1>2, <1>3, <1>4, <1>5, <1>6 DEF DecodeNext

(* It holds of a decoder about to begin.                                   *)
LEMMA InitKeeps ==
  ASSUME AnyStream, DecodeInit
  PROVE  DecodeInv
<1>1. output \in Seq(Byte) /\ Len(output) = 0
  BY DEF DecodeInit
<1>2. stream.payload \in Seq(Byte) /\ stream.size \in Nat
  BY DEF AnyStream
<1>3. DecodeTypeOK
  BY <1>1 DEF AnyStream, DecodeInit, DecodeTypeOK, Outcomes
<1>4. InBounds
  BY <1>1, <1>2 DEF DecodeInit, InBounds
<1>. QED BY <1>3, <1>4 DEF DecodeInv

(* Whatever the stream, the decoder of qlz.c stays within the size of the  *)
(* header and within the payload.                                          *)
THEOREM DecodeInvariance == AnyStream /\ DecodeSpec => [](DecodeTypeOK /\ InBounds)
<1>1. AnyStream /\ DecodeInit => DecodeInv
  BY InitKeeps
<1>2. DecodeInv /\ [DecodeNext]_decodeVars => DecodeInv'
  BY DecodeStep
<1>3. DecodeInv => DecodeTypeOK /\ InBounds
  BY DEF DecodeInv
<1>. QED BY <1>1, <1>2, <1>3, PTL DEF DecodeSpec
-----------------------------------------------------------------------------
TD7 == IF can_continue THEN last_distance ELSE 0

(* The two modules read the format alike.                                  *)
LEMMA SameFormat ==
  /\ Target!Literal = Literal /\ Target!Short = Short
  /\ Target!Long = Long /\ Target!Continuation = Continuation
  /\ \A b : /\ Target!TypeOf(b) = TypeOf(b)
            /\ Target!LiteralLength(b) = LiteralLength(b)
            /\ Target!MatchLength(b) = MatchLength(b)
  /\ \A h, l : Target!LongDistance(h, l) = LongDistance(h, l)
  /\ \A o, d, n : Target!Repeat(o, d, n) = Repeat(o, d, n)
<1>1. \A b : /\ Target!TypeOf(b) = TypeOf(b)
            /\ Target!LiteralLength(b) = LiteralLength(b)
            /\ Target!MatchLength(b) = MatchLength(b)
  BY DEF Target!TypeOf, TypeOf, Target!LiteralLength, LiteralLength,
         Target!MatchLength, MatchLength
<1>2. \A h, l : Target!LongDistance(h, l) = LongDistance(h, l)
  BY DEF Target!LongDistance, LongDistance, Target!ByteSpan, ByteSpan
<1>3. \A o, d, n : Target!Repeat(o, d, n) = Repeat(o, d, n)
  BY DEF Target!Repeat, Repeat
<1>4. /\ Target!Literal = Literal /\ Target!Short = Short
      /\ Target!Long = Long /\ Target!Continuation = Continuation
  BY DEF Target!Literal, Literal, Target!Short, Short, Target!Long, Long,
         Target!Continuation, Continuation
<1>. QED BY <1>1, <1>2, <1>3, <1>4

(* They look at the same bytes.                                            *)
LEMMA SameBytes ==
  /\ Target!Left = InputLeft /\ Target!Room = OutputLeft
  /\ \A k : Target!ByteAt(k) = Input(k)
BY DEF Target!Left, InputLeft, Target!Room, OutputLeft, Target!ByteAt, Input

(* They come to the same packet.                                           *)
LEMMA SamePacket ==
  ASSUME DecodeInv, NEW type, TypeIs(type)
  PROVE  Target!AtPacket(type)
<1>1. OutputLeft # 0 /\ InputLeft > 0 /\ TypeOf(Input(1)) = type /\ outcome = "decoding"
  BY DEF TypeIs, Decoding, DecodeInv, DecodeTypeOK, OutputLeft
<1>. QED BY <1>1, SameFormat, SameBytes DEF Target!AtPacket

(* A literal packet is one for the decoder of player.asm.                  *)
LEMMA LiteralsMap ==
  ASSUME DecodeInv, Literals
  PROVE  Target!Literals
<1>. DEFINE n == LiteralLength(Input(1))
            out == output \o SubSeq(stream.payload, input_at + 2, input_at + 1 + n)
<1>1. Target!AtPacket(Target!Literal)
  BY SamePacket, SameFormat DEF Literals
<1>2. /\ Target!LiteralLength(Target!ByteAt(1)) = n
      /\ n <= Target!Left - 1 /\ n <= Target!Room
  BY SameFormat, SameBytes DEF Literals, LiteralFits
<1>3. output' = out /\ input_at' = input_at + 1 + n
  BY DEF Literals
<1>4. TD7' = 0 /\ UNCHANGED <<Target!given, outcome>>
  BY DEF Literals, TD7, Target!given
<1>. HIDE DEF n
<1>. QED BY <1>1, <1>2, <1>3, <1>4 DEF Target!Literals, TD7

(* A match that fits is copied by the decoder of player.asm.               *)
LEMMA CopyMap ==
  ASSUME NEW distance, NEW used,
         distance <= Len(output), MatchLength(Input(1)) <= OutputLeft,
         output' = Repeat(output, distance, MatchLength(Input(1))),
         input_at' = input_at + used,
         TD7' = distance, UNCHANGED <<stream, outcome>>
  PROVE  Target!CopyMatch(distance, used)
<1>1. Target!MatchLength(Target!ByteAt(1)) = MatchLength(Input(1))
  BY SameFormat, SameBytes
<1>2. Target!Repeat(output, distance, MatchLength(Input(1))) = output'
  BY SameFormat
<1>3. Target!Room = OutputLeft /\ UNCHANGED Target!given
  BY SameBytes DEF Target!given
<1>. QED BY <1>1, <1>2, <1>3 DEF Target!CopyMatch, TD7

(* One that does not fit is refused by it.                                 *)
LEMMA CopyFails ==
  ASSUME NEW distance, NEW used,
         ~(distance <= Len(output) /\ MatchLength(Input(1)) <= OutputLeft),
         Target!Fails
  PROVE  Target!CopyMatch(distance, used)
<1>1. Target!MatchLength(Target!ByteAt(1)) = MatchLength(Input(1))
  BY SameFormat, SameBytes
<1>2. Target!Room = OutputLeft
  BY SameBytes
<1>. QED BY <1>1, <1>2 DEF Target!CopyMatch
(* A match is the match of its type for the decoder of player.asm.         *)
LEMMA MatchMap ==
  ASSUME DecodeInv, Match
  PROVE  Target!ShortMatch \/ Target!LongMatch \/ Target!Continue
<1>1. PICK match \in Matches :
        /\ MatchFits(match)
        /\ output' = Repeat(output, match.distance, MatchLength(Input(1)))
        /\ input_at' = input_at + match.used
        /\ last_distance' = match.distance
        /\ can_continue' = TRUE
        /\ UNCHANGED <<stream, outcome>>
  BY DEF Match
<1>2. Target!CopyMatch(match.distance, match.used)
  BY <1>1, CopyMap DEF MatchFits, TD7
<1>3. CASE TypeIs(Short) /\ InputLeft >= 2 /\ match = [ distance |-> Input(2) + 1, used |-> 2 ]
  <2>1. Target!AtPacket(Target!Short) /\ Target!Left >= 2
    BY <1>3, SamePacket, SameFormat, SameBytes
  <2>2. match.distance = Target!ByteAt(2) + 1 /\ match.used = 2
    BY <1>3, SameBytes
  <2>. QED BY <1>2, <2>1, <2>2 DEF Target!ShortMatch
<1>4. CASE /\ TypeIs(Long) /\ InputLeft >= 3
           /\ match = [ distance |-> LongDistance(Input(2), Input(3)), used |-> 3 ]
  <2>1. Target!AtPacket(Target!Long) /\ Target!Left >= 3
    BY <1>4, SamePacket, SameFormat, SameBytes
  <2>2. /\ match.distance = Target!LongDistance(Target!ByteAt(2), Target!ByteAt(3))
        /\ match.used = 3 /\ match.distance # 0
    BY <1>1, <1>4, SameFormat, SameBytes DEF MatchFits
  <2>. QED BY <1>2, <2>1, <2>2 DEF Target!LongMatch
<1>5. CASE TypeIs(Continuation) /\ can_continue /\ match = [ distance |-> last_distance, used |-> 1 ]
  <2>1. Target!AtPacket(Target!Continuation)
    BY <1>5, SamePacket, SameFormat
  <2>2. match.distance = TD7 /\ match.used = 1 /\ TD7 # 0
    BY <1>1, <1>5 DEF MatchFits, TD7
  <2>. QED BY <1>2, <2>1, <2>2 DEF Target!Continue, TD7
<1>. QED BY <1>3, <1>4, <1>5 DEF Matches

(* What the decoder of the tests finds malformed, that of player.asm       *)
(* refuses in the action of the packet's type.                             *)
LEMMA MalformedMap ==
  ASSUME DecodeInv, Malformed
  PROVE  Target!DecompressNext
<1>1. Target!Fails
  BY DEF Malformed, Target!Fails, Target!given
<1>2. outcome = "decoding" /\ OutputLeft > 0 /\ OutputLeft # 0 /\ InputLeft \in Int
  BY DEF Malformed, Decoding, DecodeInv, DecodeTypeOK, OutputLeft, InputLeft
<1>3. CASE InputLeft <= 0
  BY <1>1, <1>2, <1>3, SameBytes DEF Target!Truncated, Target!DecompressNext
<1>4. CASE InputLeft > 0
  <2>1. Input(1) \in Byte
    BY <1>2, <1>4, InputByte
  <2>2. \A type : TypeOf(Input(1)) = type => TypeIs(type) /\ Target!AtPacket(type)
    <3>1. \A type : TypeOf(Input(1)) = type => TypeIs(type)
      BY <1>2, <1>4 DEF TypeIs, Decoding
    <3>. QED BY <3>1, SamePacket
  <2>3. CASE TypeOf(Input(1)) = Literal
    <3>1. ~LiteralFits /\ Target!AtPacket(Target!Literal)
      BY <2>2, <2>3, SameFormat DEF Malformed
    <3>2. ~(LiteralLength(Input(1)) <= Target!Left - 1 /\ LiteralLength(Input(1)) <= Target!Room)
      BY <3>1, SameBytes DEF LiteralFits
    <3>3. Target!LiteralLength(Target!ByteAt(1)) = LiteralLength(Input(1))
      BY SameFormat, SameBytes
    <3>4. Target!Literals
      BY <1>1, <3>1, <3>2, <3>3 DEF Target!Literals
    <3>. QED BY <3>4 DEF Target!DecompressNext
  <2>4. CASE TypeOf(Input(1)) = Short
    <3>1. TypeIs(Short) /\ Target!AtPacket(Target!Short)
      BY <2>2, <2>4, SameFormat
    <3>2. CASE InputLeft >= 2
      <4>. DEFINE match == [ distance |-> Input(2) + 1, used |-> 2 ]
      <4>1. match \in Matches
        BY <3>1, <3>2 DEF Matches
      <4>2. ~MatchFits(match) /\ match.distance = Input(2) + 1 /\ Input(2) + 1 # 0
        <5>1. Input(2) \in Nat
          BY <1>2, <3>2, InputByte DEF Byte
        <5>. QED BY <4>1, <5>1 DEF Malformed
      <4>3. Target!CopyMatch(Input(2) + 1, 2)
        BY <1>1, <4>2, CopyFails DEF MatchFits
      <4>4. Target!ShortMatch
        BY <3>1, <3>2, <4>3, SameBytes DEF Target!ShortMatch
      <4>. QED BY <4>4 DEF Target!DecompressNext
    <3>3. CASE ~(InputLeft >= 2)
      BY <1>1, <3>1, <3>3, SameBytes DEF Target!ShortMatch, Target!DecompressNext
    <3>. QED BY <3>2, <3>3
  <2>5. CASE TypeOf(Input(1)) = Long
    <3>1. TypeIs(Long) /\ Target!AtPacket(Target!Long)
      BY <2>2, <2>5, SameFormat
    <3>. DEFINE d == LongDistance(Input(2), Input(3))
    <3>2. Target!LongDistance(Target!ByteAt(2), Target!ByteAt(3)) = d
      BY SameFormat, SameBytes
    <3>3. CASE InputLeft >= 3 /\ d # 0
      <4>. DEFINE match == [ distance |-> d, used |-> 3 ]
      <4>1. match \in Matches
        BY <3>1, <3>3 DEF Matches
      <4>2. ~MatchFits(match) /\ match.distance = d
        BY <4>1 DEF Malformed
      <4>3. Target!CopyMatch(d, 3)
        BY <1>1, <3>3, <4>2, CopyFails DEF MatchFits
      <4>4. Target!LongMatch
        BY <3>1, <3>2, <3>3, <4>3, SameBytes DEF Target!LongMatch
      <4>. QED BY <4>4 DEF Target!DecompressNext
    <3>4. CASE ~(InputLeft >= 3 /\ d # 0)
      BY <1>1, <3>1, <3>2, <3>4, SameBytes DEF Target!LongMatch, Target!DecompressNext
    <3>. QED BY <3>3, <3>4
  <2>6. CASE TypeOf(Input(1)) = Continuation
    <3>1. TypeIs(Continuation) /\ Target!AtPacket(Target!Continuation)
      BY <2>2, <2>6, SameFormat
    <3>2. CASE can_continue
      <4>. DEFINE match == [ distance |-> last_distance, used |-> 1 ]
      <4>1. match \in Matches
        BY <3>1, <3>2 DEF Matches
      <4>2. ~MatchFits(match) /\ match.distance = last_distance
        BY <4>1 DEF Malformed
      <4>3. last_distance # 0
        BY <3>2 DEF DecodeInv, DecodeTypeOK, InBounds
      <4>4. Target!CopyMatch(TD7, 1)
        BY <1>1, <3>2, <4>2, <4>3, CopyFails DEF MatchFits, TD7
      <4>5. Target!Continue
        BY <3>1, <3>2, <4>3, <4>4 DEF Target!Continue, TD7
      <4>. QED BY <4>5 DEF Target!DecompressNext
    <3>3. CASE ~can_continue
      BY <1>1, <3>1, <3>3 DEF Target!Continue, Target!DecompressNext
    <3>. QED BY <3>2, <3>3
  <2>. QED BY <2>1, <2>3, <2>4, <2>5, <2>6, FourTypes
<1>. QED BY <1>2, <1>3, <1>4

(* Every step of one decoder is a step of the other, or changes nothing    *)
(* the other has.                                                          *)
LEMMA StepMap ==
  ASSUME DecodeInv, [DecodeNext]_decodeVars
  PROVE  [Target!DecompressNext]_Target!decompressVars
<1>1. CASE Header
  <2>1. Target!Header
    BY <1>1 DEF Header, Target!Header, Target!Fails, Target!given
  <2>. QED BY <2>1 DEF Target!DecompressNext
<1>2. CASE Literals
  BY <1>2, LiteralsMap DEF Target!DecompressNext
<1>3. CASE Match
  BY <1>3, MatchMap DEF Target!DecompressNext
<1>4. CASE Malformed
  BY <1>4, MalformedMap
<1>5. CASE Finish
  <2>1. Target!Complete
    <3>1. InputLeft = Target!Left /\ OutputLeft = Target!Room
      BY SameBytes
    <3>. QED BY <1>5, <3>1 DEF Finish, Target!Complete, Target!Fails, Target!given
  <2>. QED BY <2>1 DEF Target!DecompressNext
<1>6. CASE UNCHANGED decodeVars
  BY <1>6 DEF decodeVars, Target!decompressVars, Target!given
<1>. QED BY <1>1, <1>2, <1>3, <1>4, <1>5, <1>6 DEF DecodeNext

(* The decoder the tests use implements the one that ships: on any stream  *)
(* at all they take the same packets, write the same bytes and decide      *)
(* alike.                                                                  *)
THEOREM DecodersAgree == AnyStream /\ DecodeSpec => DecodesAsTarget
<1>1. AnyStream /\ DecodeInit => DecodeInv
  BY InitKeeps
<1>2. DecodeInv /\ [DecodeNext]_decodeVars => DecodeInv'
  BY DecodeStep
<1>3. DecodeInit => Target!DecompressInit
  BY DEF DecodeInit, Target!DecompressInit
<1>4. DecodeInv /\ [DecodeNext]_decodeVars => [Target!DecompressNext]_Target!decompressVars
  BY StepMap
<1>. QED BY <1>1, <1>2, <1>3, <1>4, PTL DEF DecodeSpec, DecodesAsTarget, Target!DecompressSpec
=============================================================================
