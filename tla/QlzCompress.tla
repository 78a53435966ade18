---------------------------- MODULE QlzCompress -----------------------------
(***************************************************************************)
(* qlz_stream_create of qlz.c: greedy matching with a look one byte ahead, *)
(* over hash chains of the positions seen.  A step is one round of the     *)
(* loop of qlz_compress_payload.  Memory may run out at the chains, at any *)
(* append to the payload, and when the stream is collected.                *)
(***************************************************************************)
EXTENDS QlzFormat, SequencesExt

CONSTANTS
  HashCount,    (* QLZ_HASH_COUNT                                      *)
  ChainLimit    (* QLZ_CHAIN_LIMIT                                     *)

(* A match is no shorter than the three bytes that are hashed.             *)
ASSUME CompressAssumption ==
  HashCount \in Nat \ {0} /\ ChainLimit \in Nat /\ MatchMin >= 3

VARIABLES
  input,          (* the frame stream                                  *)
  heads,          (* by hash: the last position inserted, or -1        *)
  previous,       (* by position: the one before it in its chain       *)
  literal_start, position, payload,
  compressed      (* "no", "yes" or "out of memory"                    *)

chains == <<heads, previous>>
compressVars == <<input, chains, literal_start, position, payload, compressed>>

Size == Len(input)
At(i) == input[i + 1]
CeilDiv(a, b) == (a + b - 1) \div b

CompressInit ==
  /\ heads = [h \in 0 .. HashCount - 1 |-> -1]
  /\ previous = [i \in 0 .. Size - 1 |-> -1]
  /\ literal_start = 0
  /\ position = 0
  /\ payload = << >>
  /\ compressed = "no"
-----------------------------------------------------------------------------
(* qlz_hash.                                                               *)
Hash(i) == ((At(i) * 251 + At(i + 1)) * 251 + At(i + 2)) % HashCount

(* qlz_insert_position, on chains h, p.                                    *)
Inserted(h, p, i) ==
  IF i + 2 >= Size THEN <<h, p>>
  ELSE <<[h EXCEPT ![Hash(i)] = i], [p EXCEPT ![i] = h[Hash(i)]]>>

(* The positions the search for a match at i visits: down the chain until  *)
(* its end, its limit or a position too far away.                          *)
Candidates(h, p, i) ==
  LET near(c) == IF c >= 0 /\ i - c <= MaxDistance THEN c ELSE -1
      visit[n \in Nat] ==
        IF n = 0 THEN near(h[Hash(i)])
        ELSE LET before == visit[n - 1] IN IF before < 0 THEN -1 ELSE near(p[before])
  IN  {visit[n] : n \in 0 .. ChainLimit - 1} \ {-1}

CommonLength(c, i) ==
  Max({n \in 0 .. Size - i : \A k \in 0 .. n - 1 : At(c + k) = At(i + k)})

NoMatch == [ distance |-> 0, length |-> 0 ]

(* The longest of some matches and of these the nearest.                   *)
Best(matches) ==
  IF matches = {} THEN NoMatch
  ELSE CHOOSE m \in matches : \A other \in matches :
         m.length > other.length \/ (m.length = other.length /\ m.distance <= other.distance)

Found(h, p, i) ==
  IF i + MatchMin > Size THEN {}
  ELSE {m \in {[ distance |-> i - c, length |-> CommonLength(c, i) ] : c \in Candidates(h, p, i)} :
          m.length > 0}

IsShort(m) == m.distance <= ShortDistance

(* qlz_match_saving; less than any saving for a match too short to encode. *)
Unencodable == -(Size + 2)
Saving(m) ==
  IF m.length < MatchMin THEN Unencodable
  ELSE m.length - (IF IsShort(m) THEN 1 ELSE 2) - CeilDiv(m.length, MatchMax)

(* Mutant: a match is worth it when it takes as much as its literals.      *)
WorthAny(m) == m.length >= MatchMin /\ Saving(m) >= 0

(* The long form takes a byte more, so it must match a byte more.          *)
Worth(m) == m.length >= (IF IsShort(m) THEN MatchMin ELSE MatchMin + 1) /\ Saving(m) > 0

(* qlz_find_matches and qlz_choose_match at position i.                    *)
ChosenMatch(h, p, i) ==
  LET found == Found(h, p, i)
      short == Best({m \in found : IsShort(m)})
      long  == Best({m \in found : ~IsShort(m)})
      match == IF \/ Saving(long) > Saving(short)
                  \/ Saving(long) = Saving(short) /\ long.length > short.length
               THEN long ELSE short
  IN  IF Worth(match) THEN match ELSE NoMatch
-----------------------------------------------------------------------------
(* qlz_write_literals: packets of up to LiteralMax.                        *)
LiteralPackets(start, length) ==
  FlattenSeq([k \in 1 .. CeilDiv(length, LiteralMax) |->
    LET from  == start + (k - 1) * LiteralMax
        count == Min({LiteralMax, start + length - from})
    IN  <<count - 1>> \o SubSeq(input, from + 1, from + count)])

(* Mutant: the rest is never looked at.                                    *)
MatchPartGreedy(remaining) == Min({remaining, MatchMax})

(* qlz_match_part: no less than MatchMin may be left for the next part.    *)
MatchPart(remaining) ==
  LET count == Min({remaining, MatchMax})
      tail  == remaining - count
  IN  IF tail # 0 /\ tail < MatchMin THEN count - (MatchMin - tail) ELSE count

DistanceBytes(m) ==
  IF IsShort(m) THEN <<m.distance - 1>>
  ELSE <<m.distance \div ByteSpan, m.distance % ByteSpan>>

(* The type and the length code cast to a byte, or-ed: the code of a part  *)
(* under MatchMin would wrap around and have all the bits of the type set. *)
MatchControl(type, part) ==
  IF part < MatchMin THEN ByteSpan + part - MatchMin ELSE type * CodeSpan + part - MatchMin

(* qlz_write_match: a match packet, then continuations.                    *)
MatchPackets(m) ==
  LET rest[remaining \in 0 .. m.length] ==
        IF remaining = 0 THEN << >>
        ELSE LET part == MatchPart(remaining)
             IN  <<MatchControl(Continuation, part)>> \o rest[remaining - part]
      part == MatchPart(m.length)
  IN  <<MatchControl(IF IsShort(m) THEN Short ELSE Long, part)>>
        \o DistanceBytes(m) \o rest[m.length - part]
-----------------------------------------------------------------------------
(* Mutant: only the start of a match is entered in the chains.             *)
InsertedFirst(h, p, first, last) == Inserted(h, p, first)

(* Positions first .. last - 1 inserted in turn.                           *)
InsertedAll(h, p, first, last) ==
  LET chains_of[i \in first .. last] ==
        IF i = first THEN <<h, p>>
        ELSE LET before == chains_of[i - 1] IN Inserted(before[1], before[2], i - 1)
  IN  chains_of[last]

Compressing == compressed = "no" /\ position < Size

(* A match at position, position inserted, and a better match one later.   *)
BetterNext(match, inserted) ==
  /\ position + 1 < Size
  /\ Saving(ChosenMatch(inserted[1], inserted[2], position + 1)) > Saving(match) + 1

(* The byte at position goes to the literals: there is no match to use, or *)
(* the next one is worth more.                                             *)
PassLiteral ==
  /\ Compressing
  /\ LET match    == ChosenMatch(heads, previous, position)
         inserted == Inserted(heads, previous, position)
     IN  /\ match = NoMatch \/ BetterNext(match, inserted)
         /\ heads' = inserted[1] /\ previous' = inserted[2]
  /\ position' = position + 1
  /\ UNCHANGED <<input, literal_start, payload, compressed>>

WriteMatch ==
  /\ Compressing
  /\ LET match    == ChosenMatch(heads, previous, position)
         inserted == Inserted(heads, previous, position)
         end      == position + match.length
         all      == InsertedAll(heads, previous, position, end)
     IN  /\ match # NoMatch /\ ~BetterNext(match, inserted)
         /\ payload' = payload \o LiteralPackets(literal_start, position - literal_start)
                               \o MatchPackets(match)
         /\ heads' = all[1] /\ previous' = all[2]
         /\ position' = end
         /\ literal_start' = end
  /\ UNCHANGED <<input, compressed>>

WriteRest ==
  /\ compressed = "no" /\ position >= Size
  /\ payload' = payload \o LiteralPackets(literal_start, Size - literal_start)
  /\ compressed' = "yes"
  /\ UNCHANGED <<input, chains, literal_start, position>>

CompressOutOfMemory ==
  /\ compressed = "no"
  /\ compressed' = "out of memory"
  /\ payload' = << >>
  /\ UNCHANGED <<input, chains, literal_start, position>>

CompressNext == PassLiteral \/ WriteMatch \/ WriteRest \/ CompressOutOfMemory
-----------------------------------------------------------------------------
(* The chain of a hash holds every position of that hash passed so far    *)
(* with three bytes from it on, from the newest to the oldest: none is     *)
(* missing, and none is entered twice, which would make it its own         *)
(* predecessor and hide all behind it.                                     *)
Passed(h) == {i \in 0 .. position - 1 : i + 2 < Size /\ Hash(i) = h}
Newest(positions) == IF positions = {} THEN -1 ELSE Max(positions)

ChainsExact ==
  /\ \A h \in DOMAIN heads : heads[h] = Newest(Passed(h))
  /\ \A i \in DOMAIN previous :
       previous[i] = IF i < position /\ i + 2 < Size
                     THEN Newest({j \in Passed(Hash(i)) : j < i})
                     ELSE -1

(* Compression never costs more than literals alone would.                 *)
NeverExpands == Len(payload) <= Size + CeilDiv(Size, LiteralMax)
=============================================================================
