----------------------------- MODULE QlayImage ------------------------------
(***************************************************************************)
(* What is written into an image: qlay_image_fits and qlay_render_image of *)
(* qlay.c.  The first counts the blocks the files need and compares them   *)
(* with the sectors; the second gives a sector to each block in a map,     *)
(* without looking at the number of sectors again, and then renders the    *)
(* sectors from the map.                                                   *)
(*                                                                         *)
(* A file is its size; its byte at a position, QDOS header included, is    *)
(* the pair of the file's number and the position.  The map is a function  *)
(* from logical sectors to <<file id, block>>, a pair of its bytes; the    *)
(* last pair holds the number of used sectors instead.                     *)
(*                                                                         *)
(* The tests of geometry, file count and names at the beginning of         *)
(* qlay_write_image cannot fail in the program: cli.c accepts no other     *)
(* geometry and create_image names two or three files itself.              *)
(***************************************************************************)
EXTENDS Integers, Sequences

CONSTANTS
  DataSize,     (* QLAY_DATA_SIZE: the bytes of a block               *)
  HeaderSize,   (* QLAY_QDOS_HEADER_SIZE                              *)
  MaxFiles,     (* QLAY_MAX_FILES                                     *)
  MinSectors,   (* QLAY_MIN_SECTORS                                   *)
  MaxSectors,   (* QLAY_MAX_SECTORS                                   *)
  Bytes,        (* 256                                                *)
  MapId,        (* QLAY_MAP_FILE_ID                                   *)
  FreeId        (* QLAY_FREE_FILE_ID                                  *)

(* The second conjunct is a _Static_assert of qlay.c; the third says that  *)
(* the map has a pair for every sector and one more for the number used.   *)
ASSUME ImageAssumption ==
  /\ {DataSize, HeaderSize, MaxFiles, MinSectors, Bytes} \subseteq Nat \ {0}
  /\ (MaxFiles + 1) * HeaderSize <= DataSize
  /\ MaxSectors \in MinSectors .. (DataSize \div 2) - 1
  /\ MinSectors >= 2
  /\ MaxSectors <= Bytes
  /\ {MapId, FreeId} \subseteq MaxFiles + 1 .. Bytes - 1

VARIABLES
  stage,      (* "none", "count", "fits", "map", "sectors", "rendered", "refused" *)
  sectors,    (* the geometry                                                     *)
  files,      (* files[i]: the size of file i                                     *)
  needed,     (* the data blocks counted                                          *)
  through,    (* history: through[i] is what was needed up to file i              *)
  at,         (* the files the loop has passed                                    *)
  block,      (* the blocks of the next file that have a sector                   *)
  next,       (* the next free logical sector                                     *)
  map,        (* logical sector -> <<file id, block>>                             *)
  cartridge   (* the sectors written, in order                                    *)

imageVars ==
  <<stage, sectors, files, needed, through, at, block, next, map, cartridge>>

LastPair == (DataSize \div 2) - 1

Total(i) == files[i] + HeaderSize

(* Mutant: a rest of a block does not count.                               *)
BlocksFloor(size) == (size + HeaderSize) \div DataSize

(* The blocks of a file of that size.                                      *)
Blocks(size) == (size + HeaderSize + DataSize - 1) \div DataSize

NoImage == [l \in 0 .. LastPair |-> <<0, 0>>]

ImageInit ==
  /\ stage = "none"
  /\ sectors = MinSectors
  /\ files = << >> /\ needed = 0 /\ through = << >>
  /\ at = 0 /\ block = 0 /\ next = 0
  /\ map = NoImage
  /\ cartridge = << >>

Goes(where) == stage' = where

(* qlay_write_image is called.  Block 1 is the directory's.                *)
WriteImage(sizes, geometry) ==
  /\ stage = "none"
  /\ Goes("count")
  /\ sectors' = geometry
  /\ files' = sizes
  /\ needed' = 1
  /\ UNCHANGED <<through, at, block, next, map, cartridge>>

CountFile ==
  /\ stage = "count" /\ at < Len(files)
  /\ needed' = needed + Blocks(files[at + 1])
  /\ through' = Append(through, needed')
  /\ at' = at + 1
  /\ UNCHANGED <<stage, sectors, files, block, next, map, cartridge>>

(* Mutant: the sector of the map is taken for a data sector.               *)
FitsWithMap == needed <= sectors

(* Sector 0 is the map's own.                                              *)
Fits == needed <= sectors - 1

Judge ==
  /\ stage = "count" /\ at = Len(files)
  /\ Goes(IF Fits THEN "fits" ELSE "refused")
  /\ UNCHANGED <<sectors, files, needed, through, at, block, next, map, cartridge>>
-----------------------------------------------------------------------------
(* The pairs behind the last sector keep the zeros they had.               *)
EmptyMap ==
  [l \in 0 .. LastPair |->
     CASE l = 0               -> <<MapId, 0>>
       [] l = 1               -> <<0, 0>>
       [] l \in 2 .. sectors - 1 -> <<FreeId, 0>>
       [] OTHER               -> <<0, 0>>]

BeginRender ==
  /\ stage = "fits"
  /\ Goes("map")
  /\ map' = EmptyMap
  /\ next' = 2 /\ at' = 0 /\ block' = 0
  /\ UNCHANGED <<sectors, files, needed, through, cartridge>>

MapBlock ==
  /\ stage = "map" /\ at < Len(files)
  /\ block * DataSize < Total(at + 1)
  /\ map' = [map EXCEPT ![next] = <<(at + 1) % Bytes, block % Bytes>>]
  /\ next' = next + 1
  /\ block' = block + 1
  /\ UNCHANGED <<stage, sectors, files, needed, through, at, cartridge>>

NextFile ==
  /\ stage = "map" /\ at < Len(files)
  /\ block * DataSize >= Total(at + 1)
  /\ at' = at + 1 /\ block' = 0
  /\ UNCHANGED <<stage, sectors, files, needed, through, next, map, cartridge>>

MapDone ==
  /\ stage = "map" /\ at = Len(files)
  /\ Goes("sectors")
  /\ map' = [map EXCEPT ![LastPair][2] = (next - 1) % Bytes]
  /\ UNCHANGED <<sectors, files, needed, through, at, block, next, cartridge>>
-----------------------------------------------------------------------------
(* The directory is a file of its own, of the lengths of all files.        *)
Directory ==
  << (Len(files) + 1) * HeaderSize >> \o [i \in 1 .. Len(files) |-> Total(i)]

(* Mutant: the last sector is left out and the map is written twice.       *)
LogicalFromEnd(physical) == IF physical = 0 THEN 0 ELSE sectors - 1 - physical

(* The map's sector first, then the others from the last to the first.     *)
Logical(physical) == IF physical = 0 THEN 0 ELSE sectors - physical

FilePart(id, from) ==
  LET size == IF from + DataSize <= Total(id) THEN DataSize ELSE Total(id) - from
  IN  [k \in 1 .. size |-> <<id, from + k - 1>>]

Payload(logical) ==
  LET id == map[logical][1]
  IN  CASE logical = 0                     -> map
        [] logical # 0 /\ id = 0           -> Directory
        [] logical # 0 /\ id = FreeId      -> << >>
        [] OTHER                           -> FilePart(id, map[logical][2] * DataSize)

(* qlay_encode_sector.                                                     *)
Sector(logical) ==
  [ logical |-> logical % Bytes,
    id      |-> map[logical][1],
    block   |-> map[logical][2],
    payload |-> Payload(logical) ]

RenderSector ==
  /\ stage = "sectors" /\ Len(cartridge) < sectors
  /\ cartridge' = Append(cartridge, Sector(Logical(Len(cartridge))))
  /\ UNCHANGED <<stage, sectors, files, needed, through, at, block, next, map>>

Rendered ==
  /\ stage = "sectors" /\ Len(cartridge) = sectors
  /\ Goes("rendered")
  /\ UNCHANGED <<sectors, files, needed, through, at, block, next, map, cartridge>>

SizeLists == UNION {[1 .. n -> Nat] : n \in 1 .. MaxFiles}

ImageNext ==
  \/ \E sizes \in SizeLists, geometry \in MinSectors .. MaxSectors : WriteImage(sizes, geometry)
  \/ CountFile \/ Judge \/ BeginRender \/ MapBlock \/ NextFile \/ MapDone
  \/ RenderSector \/ Rendered

ImageSpec == ImageInit /\ [][ImageNext]_imageVars
-----------------------------------------------------------------------------
(* The map is filled inside its sectors and never over its own last pair,  *)
(* and when it is complete it has used exactly the blocks that were        *)
(* counted: qlay_image_fits speaks for the loop that does not look.        *)
MapInside ==
  /\ stage \in {"map", "sectors", "rendered"} => next - 1 <= needed /\ next <= sectors
  /\ stage \in {"sectors", "rendered"} => next - 1 = needed /\ map[LastPair][2] = needed

(* What MapInside is proved from.  While files are counted, through grows  *)
(* by the blocks of each; while they are mapped, the next sector is the    *)
(* one behind the blocks of the files passed and of the part mapped.       *)
Before(k) == IF k = 1 THEN 1 ELSE through[k - 1]

Counted ==
  /\ through \in Seq(Nat)
  /\ Len(through) <= Len(files)
  /\ \A k \in 1 .. Len(through) :
       through[k] = Before(k) + Blocks(files[k]) /\ through[k] <= needed

ImageInv ==
  /\ stage \in {"none", "count", "fits", "map", "sectors", "rendered", "refused"}
  /\ sectors \in MinSectors .. MaxSectors
  /\ files \in Seq(Nat)
  /\ {needed, at, block, next} \subseteq Nat
  /\ map \in [0 .. LastPair -> Nat \X Nat]
  /\ Counted
  /\ stage = "none" => at = 0 /\ through = << >>
  /\ stage = "count" => Len(through) = at /\ needed = Before(at + 1)
  /\ stage \in {"fits", "map", "sectors", "rendered"} =>
       Len(through) = Len(files) /\ needed = Before(Len(files) + 1) /\ needed <= sectors - 1
  /\ stage = "map" =>
       /\ at <= Len(files)
       /\ next - 1 = Before(at + 1) + block
       /\ block <= (IF at < Len(files) THEN Blocks(files[at + 1]) ELSE 0)
  /\ stage \in {"sectors", "rendered"} => next - 1 = needed /\ map[LastPair][2] = needed

(* How a reader of the cartridge goes about it: the sectors tell which     *)
(* logical ones they are, the map is in sector 0, and a file's bytes are   *)
(* those of the sectors the map has for it, in the order of their blocks.  *)
SectorOf(l) == CHOOSE k \in DOMAIN cartridge : cartridge[k].logical = l

MapRead == cartridge[SectorOf(0)].payload

SectorsOf(id, b) == {l \in 1 .. sectors - 1 : MapRead[l] = <<id, b>>}

(* Block b of the file is on one sector, which says so itself and holds    *)
(* the file's bytes from there on.                                         *)
BlockReadsBack(id, b, length) ==
  \E l \in 1 .. sectors - 1 :
    /\ SectorsOf(id, b) = {l}
    /\ LET sector == cartridge[SectorOf(l)]
       IN  /\ sector.id = id /\ sector.block = b
           /\ \A k \in 1 .. DataSize :
                b * DataSize + k <= length =>
                  sector.payload[k] = <<id, b * DataSize + k - 1>>

(* Whatever the files' sizes, a cartridge that was rendered has every      *)
(* logical sector once, names each of its sectors in the map as the sector *)
(* itself does, and gives back every file whole, to the length its         *)
(* directory tells.                                                        *)
EveryFileReadsBack ==
  stage = "rendered" =>
    /\ Len(cartridge) = sectors
    /\ {cartridge[k].logical : k \in DOMAIN cartridge} = 0 .. sectors - 1
    /\ \A k \in DOMAIN cartridge :
         <<cartridge[k].id, cartridge[k].block>> = MapRead[cartridge[k].logical]
    /\ \E l \in 1 .. sectors - 1 :
         /\ SectorsOf(0, 0) = {l}
         /\ LET directory == cartridge[SectorOf(l)].payload
            IN  /\ directory[1] = Len(directory) * HeaderSize
                /\ Len(directory) = Len(files) + 1
                /\ \A i \in DOMAIN files :
                     /\ directory[i + 1] = files[i] + HeaderSize
                     /\ \A b \in 0 .. (directory[i + 1] - 1) \div DataSize :
                          BlockReadsBack(i, b, directory[i + 1])
=============================================================================
