----------------------------- MODULE QlzProofs ------------------------------
(***************************************************************************)
(* Proofs about the compressor of qlz.c and the decoder of player.asm as   *)
(* QlzRoundTrip puts them together: the hash chains are exact, a match     *)
(* chosen is a match, the packets written say the input in no more bytes   *)
(* than literals would, and the decoder makes of them the very input and   *)
(* stays in bounds whatever byte is damaged.                               *)
(*                                                                         *)
(* What a payload says is its track: for each packet its offset, the bytes *)
(* made before it and the distance a continuation there would extend.  The *)
(* compressor's invariant is that what it has written has a track to the   *)
(* literals it still keeps; the decoder's, that it is at a point of the    *)
(* track with the input's bytes up to there.                               *)
(*                                                                         *)
(* Last, about the byte_buffer a payload is collected in: for any sizes, a *)
(* buffer that has not failed holds what it was asked to hold, and is an   *)
(* AppendLog.                                                              *)
(***************************************************************************)
EXTENDS QlzRoundTrip, ByteBuffer, SequenceTheorems, Induction

AnyInput == input \in Seq(Byte)

(* What the constants are.                                                 *)
LEMMA QlzNumbers ==
  /\ CodeSpan \in Nat /\ CodeSpan > 0 /\ MatchMin \in Nat /\ MatchMin >= 3
  /\ ShortDistance \in Nat /\ ShortDistance > 0 /\ ShortDistance <= ByteSpan
  /\ MaxDistance \in Nat /\ MaxDistance > 0
  /\ ByteSpan \in Nat /\ ByteSpan = 4 * CodeSpan
  /\ MatchMax \in Nat /\ MatchMax = CodeSpan - 1 + MatchMin /\ 2 * MatchMin <= MatchMax + 1
  /\ LiteralMax = CodeSpan
  /\ HashCount \in Nat /\ HashCount > 0 /\ ChainLimit \in Nat
  BY QlzAssumption, CompressAssumption DEF ByteSpan, MatchMax, LiteralMax

(* A byte of the input.                                                    *)
LEMMA InputAt ==
  ASSUME AnyInput, NEW i \in 0 .. Size - 1
  PROVE  At(i) \in Byte /\ At(i) \in Nat
  <1>1. i + 1 \in 1 .. Len(input) /\ input \in Seq(Byte)
    BY DEF AnyInput, Size
  <1>2. input[i + 1] \in Byte
    BY <1>1
  <1> QED
    BY <1>2, QlzNumbers DEF At, Byte

(* An input has a size.                                                    *)
LEMMA SizeIsNat ==
  ASSUME AnyInput
  PROVE  Size \in Nat
  BY DEF AnyInput, Size

(* Every place with three bytes has a chain.                               *)
LEMMA HashInRange ==
  ASSUME AnyInput, NEW i \in Nat, i + 2 < Size
  PROVE  Hash(i) \in 0 .. HashCount - 1
  <1>1. i \in 0 .. Size - 1 /\ i + 1 \in 0 .. Size - 1 /\ i + 2 \in 0 .. Size - 1
    BY SizeIsNat
  <1>2. PICK a \in Nat, b \in Nat, c \in Nat : a = At(i) /\ b = At(i + 1) /\ c = At(i + 2)
    BY <1>1, InputAt
  <1>3. PICK n \in Nat : n = (a * 251 + b) * 251 + c
    OBVIOUS
  <1>4. n % HashCount \in 0 .. HashCount - 1
    BY QlzNumbers
  <1>5. Hash(i) = n % HashCount
    BY <1>2, <1>3 DEF Hash
  <1> QED
    BY <1>4, <1>5
-----------------------------------------------------------------------------
(* The chains after the positions below n have been passed.                *)
PassedTo(n, h) == {i \in 0 .. n - 1 : i + 2 < Size /\ Hash(i) = h}

ChainsOf(hd, pv, n) ==
  /\ hd \in [0 .. HashCount - 1 -> Int]
  /\ pv \in [0 .. Size - 1 -> Int]
  /\ \A h \in 0 .. HashCount - 1 : hd[h] = Newest(PassedTo(n, h))
  /\ \A i \in 0 .. Size - 1 :
       pv[i] = IF i < n /\ i + 2 < Size
               THEN Newest({j \in PassedTo(n, Hash(i)) : j < i})
               ELSE -1

(* The newest of some positions.                                           *)
LEMMA NewestIsMember ==
  ASSUME NEW P, NEW n \in Nat, P \subseteq 0 .. n - 1
  PROVE  /\ P = {} => Newest(P) = -1
         /\ P # {} => /\ Newest(P) \in P
                      /\ \A j \in P : j <= Newest(P)
         /\ Newest(P) \in -1 .. n - 1
  <1>1. CASE P = {}
    BY <1>1 DEF Newest
  <1>2. CASE P # {}
    <2>1. P \subseteq Nat /\ \A j \in P : j <= n
      OBVIOUS
    <2>2. PICK m \in P : \A j \in P : j <= m
      BY <1>2, <2>1, GreatestNumber
    <2>3. Max(P) \in P /\ \A j \in P : Max(P) >= j
      <3>1. \E x \in P : \A y \in P : x >= y
        BY <2>1, <2>2
      <3> QED
        BY <3>1 DEF Max
    <2>4. Newest(P) = Max(P)
      BY <1>2 DEF Newest
    <2>5. \A j \in P : j <= Newest(P)
      BY <2>1, <2>3, <2>4
    <2>6. Newest(P) \in 0 .. n - 1
      BY <2>3, <2>4
    <2> QED
      BY <1>2, <2>3, <2>4, <2>5, <2>6
  <1> QED
    BY <1>1, <1>2

(* It is the only one that is newest.                                      *)
LEMMA NewestIs ==
  ASSUME NEW P, NEW n \in Nat, P \subseteq 0 .. n - 1, NEW m \in P, \A j \in P : j <= m
  PROVE  Newest(P) = m
  <1>1. Newest(P) \in P /\ m <= Newest(P)
    BY NewestIsMember
  <1>2. PICK x \in P : x = Newest(P)
    BY <1>1
  <1>3. x \in Nat /\ m \in Nat
    OBVIOUS
  <1>4. x <= m /\ m <= x
    BY <1>1, <1>2
  <1> QED
    BY <1>2, <1>3, <1>4

(* One more position passed: it is the newest of its hash.                 *)
LEMMA PassedNext ==
  ASSUME AnyInput, NEW n \in Nat, n + 2 < Size, NEW h
  PROVE  PassedTo(n + 1, h) = PassedTo(n, h) \cup (IF Hash(n) = h THEN {n} ELSE {})
  <1>1. 0 .. n + 1 - 1 = (0 .. n - 1) \cup {n}
    OBVIOUS
  <1> QED
    BY <1>1 DEF PassedTo

(* The last two places of the input have no chain.                         *)
LEMMA PassedNoMore ==
  ASSUME AnyInput, NEW n \in Nat, n + 2 >= Size, NEW h
  PROVE  PassedTo(n + 1, h) = PassedTo(n, h)
  <1>1. 0 .. n + 1 - 1 = (0 .. n - 1) \cup {n}
    OBVIOUS
  <1>2. ~(n + 2 < Size)
    BY SizeIsNat
  <1> QED
    BY <1>1, <1>2 DEF PassedTo

(* qlz_insert_position keeps the chains exact.                             *)
LEMMA InsertedKeeps ==
  ASSUME AnyInput, NEW n \in Nat, n < Size, NEW hd, NEW pv, ChainsOf(hd, pv, n)
  PROVE  ChainsOf(Inserted(hd, pv, n)[1], Inserted(hd, pv, n)[2], n + 1)
  <1>1. Size \in Nat
    BY SizeIsNat
  <1>2. CASE n + 2 >= Size
    <2>1. Inserted(hd, pv, n) = <<hd, pv>>
      BY <1>2 DEF Inserted
    <2>2. \A h : PassedTo(n + 1, h) = PassedTo(n, h)
      BY <1>2, PassedNoMore
    <2>3. \A i \in 0 .. Size - 1 : i < n /\ i + 2 < Size <=> i < n + 1 /\ i + 2 < Size
      BY <1>1, <1>2
    <2>4. ChainsOf(hd, pv, n + 1)
      BY <2>2, <2>3 DEF ChainsOf
    <2> QED
      BY <2>1, <2>4
  <1>3. CASE n + 2 < Size
    <2> DEFINE x == Hash(n)
               hd2 == [hd EXCEPT ![x] = n]
               pv2 == [pv EXCEPT ![n] = hd[x]]
    <2>1. Inserted(hd, pv, n) = <<hd2, pv2>>
      <3>1. ~(n + 2 >= Size)
        BY <1>1, <1>3
      <3> QED
        BY <3>1 DEF Inserted
    <2>2. x \in 0 .. HashCount - 1 /\ n \in 0 .. Size - 1
      BY <1>1, <1>3, HashInRange
    <2> HIDE DEF x
    <2>3. \A h : PassedTo(n + 1, h) = PassedTo(n, h) \cup (IF x = h THEN {n} ELSE {})
      BY <1>3, PassedNext DEF x
    <2>4. \A h : PassedTo(n, h) \subseteq 0 .. n - 1 /\ PassedTo(n + 1, h) \subseteq 0 .. n + 1 - 1
      BY DEF PassedTo
    <2>5. /\ hd \in [0 .. HashCount - 1 -> Int] /\ pv \in [0 .. Size - 1 -> Int]
          /\ \A h \in 0 .. HashCount - 1 : hd[h] = Newest(PassedTo(n, h))
          /\ \A i \in 0 .. Size - 1 :
               pv[i] = IF i < n /\ i + 2 < Size
                       THEN Newest({j \in PassedTo(n, Hash(i)) : j < i})
                       ELSE -1
      BY DEF ChainsOf
    <2>6. hd2 \in [0 .. HashCount - 1 -> Int] /\ pv2 \in [0 .. Size - 1 -> Int]
      BY <2>2, <2>5
    <2>7. ASSUME NEW h \in 0 .. HashCount - 1
          PROVE  hd2[h] = Newest(PassedTo(n + 1, h))
      <3>1. CASE h = x
        <4>1. n \in PassedTo(n + 1, h) /\ \A j \in PassedTo(n + 1, h) : j <= n
          BY <2>3, <2>4, <3>1
        <4>2. n + 1 \in Nat
          OBVIOUS
        <4>3. Newest(PassedTo(n + 1, h)) = n
          BY <2>4, <4>1, <4>2, NewestIs
        <4> QED
          BY <2>5, <3>1, <4>3
      <3>2. CASE h # x
        <4>1. PassedTo(n + 1, h) = PassedTo(n, h)
          BY <2>3, <3>2
        <4> QED
          BY <2>5, <3>2, <4>1
      <3> QED
        BY <3>1, <3>2
    <2>8. ASSUME NEW i \in 0 .. Size - 1
          PROVE  pv2[i] = IF i < n + 1 /\ i + 2 < Size
                          THEN Newest({j \in PassedTo(n + 1, Hash(i)) : j < i})
                          ELSE -1
      <3>1. CASE i = n
        <4>1. {j \in PassedTo(n + 1, x) : j < n} = PassedTo(n, x)
          BY <2>3, <2>4
        <4>2. pv2[n] = Newest(PassedTo(n, x))
          BY <2>2, <2>5
        <4> QED
          BY <1>3, <3>1, <4>1, <4>2 DEF x
      <3>2. CASE i # n
        <4>1. i < n + 1 <=> i < n
          BY <3>2
        <4>2. i < n => {j \in PassedTo(n + 1, Hash(i)) : j < i}
                         = {j \in PassedTo(n, Hash(i)) : j < i}
          BY <2>3
        <4>3. pv2[i] = pv[i]
          BY <2>5, <3>2
        <4> QED
          BY <2>5, <4>1, <4>2, <4>3
      <3> QED
        BY <3>1, <3>2
    <2> HIDE DEF hd2, pv2
    <2>9. ChainsOf(hd2, pv2, n + 1)
      BY <2>6, <2>7, <2>8 DEF ChainsOf
    <2> QED
      BY <2>1, <2>9
  <1> QED
    BY <1>1, <1>2, <1>3
-----------------------------------------------------------------------------
(* The positions of a match inserted in turn.                              *)
Chains == [0 .. HashCount - 1 -> Int] \X [0 .. Size - 1 -> Int]

(* What an insertion makes is chains.                                      *)
LEMMA InsertedTyped ==
  ASSUME AnyInput, NEW c \in Chains, NEW n \in 0 .. Size - 1
  PROVE  Inserted(c[1], c[2], n) \in Chains
  <1>1. c[1] \in [0 .. HashCount - 1 -> Int] /\ c[2] \in [0 .. Size - 1 -> Int]
    BY DEF Chains
  <1>2. CASE n + 2 >= Size
    BY <1>1, <1>2 DEF Inserted, Chains
  <1>3. CASE ~(n + 2 >= Size)
    <2>1. n + 2 < Size /\ n \in Nat
      BY <1>3, SizeIsNat
    <2>2. Hash(n) \in 0 .. HashCount - 1
      BY <2>1, HashInRange
    <2>3. PICK x \in 0 .. HashCount - 1 : x = Hash(n)
      BY <2>2
    <2>4. c[1][x] \in Int /\ n \in Int
      <3>1. PICK hd \in [0 .. HashCount - 1 -> Int] : hd = c[1]
        BY <1>1
      <3>2. hd[x] \in Int
        OBVIOUS
      <3> QED
        BY <2>1, <3>1, <3>2
    <2> QED
      BY <1>1, <1>3, <2>3, <2>4 DEF Inserted, Chains
  <1> QED
    BY <1>2, <1>3

(* Inserting a stretch of the input keeps the chains exact.                *)
LEMMA AllInserted ==
  ASSUME AnyInput, NEW hd, NEW pv, NEW first \in Nat, NEW last \in first .. Size,
         ChainsOf(hd, pv, first)
  PROVE  ChainsOf(InsertedAll(hd, pv, first, last)[1], InsertedAll(hd, pv, first, last)[2], last)
  <1> DEFINE F(f) == [i \in first .. last |->
                        IF i = first THEN <<hd, pv>>
                        ELSE LET before == f[i - 1] IN Inserted(before[1], before[2], i - 1)]
             all == CHOOSE f : f = F(f)
             length == last - first
  <1>1. Size \in Nat /\ length \in Nat /\ last \in Nat
    BY SizeIsNat
  <1>2. InsertedAll(hd, pv, first, last) = all[last]
    BY DEF InsertedAll
  <1>3. \E f : f = F(f)
    <2> DEFINE below == [n \in 1 .. length |-> n - 1]
               step == [n \in 1 .. length |->
                         [c \in Chains |-> Inserted(c[1], c[2], first + n - 1)]]
               base == <<hd, pv>>
    <2>1. base \in Chains
      BY DEF ChainsOf, Chains
    <2>2. \A n \in 1 .. length : first + n - 1 \in 0 .. Size - 1
      BY <1>1
    <2>3. step \in StepperTo(Chains, length)
      BY <2>2, InsertedTyped DEF StepperTo
    <2>4. IsBelow(below, length)
      BY <1>1 DEF IsBelow
    <2> HIDE DEF below, step, base, length
    <2>a. PICK g : FromBelow(Chains, length, base, below, step, g)
      BY <1>1, <2>1, <2>3, <2>4, EachFromBelow
    <2>5. /\ g \in [0 .. length -> Chains] /\ g[0] = base
          /\ \A n \in 1 .. length : g[n] = step[n][g[below[n]]]
      BY <2>a DEF FromBelow
    <2> DEFINE f == [i \in first .. last |-> g[i - first]]
    <2>6. ASSUME NEW i \in first .. last
          PROVE  f[i] = F(f)[i]
      <3>1. CASE i = first
        <4>1. i - first = 0
          BY <3>1
        <4> QED
          BY <2>5, <3>1, <4>1 DEF base
      <3>2. CASE i # first
        <4>1. PICK n : n = i - first
          OBVIOUS
        <4>2. /\ n \in 1 .. length /\ n - 1 = i - 1 - first /\ first + n - 1 = i - 1
              /\ i - 1 \in first .. last /\ n - 1 \in 0 .. length
          BY <1>1, <3>2, <4>1 DEF length
        <4>3. g[n] = step[n][g[n - 1]]
          BY <2>5, <4>2 DEF below
        <4>4. g[n - 1] \in Chains
          BY <2>5, <4>2
        <4>5. g[n] = Inserted(g[n - 1][1], g[n - 1][2], i - 1)
          BY <4>2, <4>3, <4>4 DEF step
        <4>6. f[i] = g[n] /\ f[i - 1] = g[n - 1]
          BY <4>1, <4>2
        <4> QED
          BY <3>2, <4>5, <4>6
      <3> QED
        BY <3>1, <3>2
    <2>7. f = F(f)
      BY <2>6
    <2> QED
      BY <2>7
  <1>4. all = F(all)
    BY <1>3
  <1> HIDE DEF all
  <1>5. /\ all[first] = <<hd, pv>>
        /\ \A i \in first .. last : i # first => all[i] = Inserted(all[i - 1][1], all[i - 1][2], i - 1)
    <2>1. first \in first .. last
      BY <1>1
    <2> QED
      BY <1>4, <2>1
  <1> DEFINE E == {n \in 0 .. length : ChainsOf(all[first + n][1], all[first + n][2], first + n)}
  <1>6. 0 \in E
    <2>1. first + 0 = first /\ 0 \in 0 .. length
      BY <1>1
    <2> QED
      BY <1>5, <2>1
  <1>7. ASSUME NEW n \in 0 .. length - 1, n \in E
        PROVE  n + 1 \in E
    <2>1. PICK i : i = first + n
      OBVIOUS
    <2>2. /\ i \in Nat /\ i < Size /\ first + (n + 1) = i + 1 /\ i + 1 \in first .. last
          /\ i + 1 # first /\ i + 1 - 1 = i /\ n + 1 \in 0 .. length
      BY <1>1, <2>1
    <2>3. ChainsOf(all[i][1], all[i][2], i)
      BY <1>7, <2>1
    <2>4. all[i + 1] = Inserted(all[i][1], all[i][2], i)
      BY <1>5, <2>2
    <2>5. ChainsOf(all[i + 1][1], all[i + 1][2], i + 1)
      BY <2>2, <2>3, <2>4, InsertedKeeps
    <2> QED
      BY <2>2, <2>5
  <1> HIDE DEF E
  <1>8. 0 .. length \subseteq E
    <2> HIDE DEF length
    <2> QED
      BY <1>1, <1>6, <1>7, EveryNumberUpTo
  <1>9. length \in E /\ first + length = last
    BY <1>1, <1>8
  <1> QED
    BY <1>2, <1>9 DEF E
-----------------------------------------------------------------------------
(* What the search finds.                                                  *)

(* The bytes from i on are those m.distance before them.                   *)
IsMatch(i, m) ==
  /\ m.distance \in 1 .. i /\ m.distance <= MaxDistance
  /\ m.length \in 1 .. Size - i
  /\ \A k \in 0 .. m.length - 1 : At(i - m.distance + k) = At(i + k)

(* A chain leads back.                                                     *)
LEMMA ChainsLeadBack ==
  ASSUME AnyInput, NEW hd, NEW pv, NEW n \in Nat, ChainsOf(hd, pv, n)
  PROVE  /\ \A h \in 0 .. HashCount - 1 : hd[h] \in -1 .. n - 1
         /\ \A i \in 0 .. Size - 1 : pv[i] \in -1 .. i - 1
  <1>1. ASSUME NEW h \in 0 .. HashCount - 1
        PROVE  hd[h] \in -1 .. n - 1
    <2>1. PassedTo(n, h) \subseteq 0 .. n - 1
      BY DEF PassedTo
    <2>2. Newest(PassedTo(n, h)) \in -1 .. n - 1
      BY <2>1, NewestIsMember
    <2> QED
      BY <2>2 DEF ChainsOf
  <1>2. ASSUME NEW i \in 0 .. Size - 1
        PROVE  pv[i] \in -1 .. i - 1
    <2> DEFINE P == {j \in PassedTo(n, Hash(i)) : j < i}
    <2>1. P \subseteq 0 .. i - 1 /\ i \in Nat
      BY DEF PassedTo
    <2> HIDE DEF P
    <2>2. Newest(P) \in -1 .. i - 1
      BY <2>1, NewestIsMember
    <2>3. pv[i] = Newest(P) \/ pv[i] = -1
      BY DEF ChainsOf, P
    <2>4. -1 \in -1 .. i - 1
      BY <2>1
    <2> QED
      BY <2>2, <2>3, <2>4
  <1> QED
    BY <1>1, <1>2

(* A candidate lies behind the place, no farther than a match may reach.   *)
LEMMA CandidatesAreBehind ==
  ASSUME AnyInput, NEW hd, NEW pv, NEW i \in Nat, i + 2 < Size, ChainsOf(hd, pv, i),
         NEW c \in Candidates(hd, pv, i)
  PROVE  c \in 0 .. i - 1 /\ i - c <= MaxDistance
  <1> DEFINE near(x) == IF x >= 0 /\ i - x <= MaxDistance THEN x ELSE -1
             F(f) == [n \in Nat |->
                        IF n = 0 THEN near(hd[Hash(i)])
                        ELSE LET before == f[n - 1] IN IF before < 0 THEN -1 ELSE near(pv[before])]
             visit == CHOOSE f : f = F(f)
             S == {x \in -1 .. i - 1 : x >= 0 => i - x <= MaxDistance}
             first == near(hd[Hash(i)])
             step == [n \in Nat |-> [x \in S |-> IF x < 0 THEN -1 ELSE near(pv[x])]]
  <1>1. Candidates(hd, pv, i) = {visit[n] : n \in 0 .. ChainLimit - 1} \ {-1}
    BY DEF Candidates
  <1>2. Size \in Nat /\ Hash(i) \in 0 .. HashCount - 1 /\ MaxDistance \in Nat /\ ChainLimit \in Nat
    BY SizeIsNat, HashInRange, QlzNumbers
  <1>3. \A x \in -1 .. i - 1 : near(x) \in S
    BY <1>2
  <1>4. first \in S
    <2>1. hd[Hash(i)] \in -1 .. i - 1
      BY <1>2, ChainsLeadBack
    <2> QED
      BY <1>3, <2>1
  <1>5. step \in Stepper(S)
    <2>1. \A x \in S : (IF x < 0 THEN -1 ELSE near(pv[x])) \in S
      <3> SUFFICES ASSUME NEW x \in S PROVE (IF x < 0 THEN -1 ELSE near(pv[x])) \in S
        OBVIOUS
      <3>1. CASE x < 0
        BY <3>1
      <3>2. CASE ~(x < 0)
        <4>1. x \in 0 .. Size - 1 /\ x <= i - 1
          BY <1>2, <3>2
        <4>2. pv[x] \in -1 .. x - 1
          BY <4>1, ChainsLeadBack
        <4>3. pv[x] \in -1 .. i - 1
          BY <4>1, <4>2
        <4> QED
          BY <1>3, <3>2, <4>3
      <3> QED
        BY <3>1, <3>2
    <2> HIDE DEF S
    <2> QED
      BY <2>1 DEF Stepper
  <1> HIDE DEF S, first, step
  <1>6. PICK g : Steps(S, first, step, g)
    BY <1>4, <1>5, StepByStep
  <1>7. g \in [Nat -> S] /\ g[0] = first /\ \A n \in Nat : g[n + 1] = step[n][g[n]]
    BY <1>6 DEF Steps
  <1>8. g = F(g)
    <2>1. ASSUME NEW n \in Nat
          PROVE  g[n] = F(g)[n]
      <3>1. CASE n = 0
        BY <1>7, <3>1 DEF first
      <3>2. CASE n # 0
        <4>1. PICK m \in Nat : m = n - 1
          BY <3>2
        <4>2. m + 1 = n
          BY <4>1
        <4>3. g[n] = step[m][g[m]] /\ g[m] \in S
          BY <1>7, <4>2
        <4>4. g[n] = IF g[m] < 0 THEN -1 ELSE near(pv[g[m]])
          BY <4>3 DEF step
        <4> QED
          BY <3>2, <4>1, <4>4
      <3> QED
        BY <3>1, <3>2
    <2>2. F(g) = [n \in Nat |-> F(g)[n]]
      OBVIOUS
    <2> HIDE DEF F
    <2> QED
      BY <1>7, <2>1, <2>2
  <1>9. visit = F(visit)
    <2>1. \E f : f = F(f)
      BY <1>8
    <2> HIDE DEF F
    <2> QED
      BY <2>1
  <1> HIDE DEF visit
  <1>10. ASSUME NEW n \in Nat
         PROVE  visit[n] \in S
    <2> DEFINE E == {k \in Nat : visit[k] \in S}
    <2>1. 0 \in E
      BY <1>4, <1>9 DEF first
    <2>2. ASSUME NEW k \in Nat, k \in E
          PROVE  k + 1 \in E
      <3>1. k + 1 # 0 /\ k + 1 - 1 = k /\ k + 1 \in Nat
        OBVIOUS
      <3>2. visit[k + 1] = IF visit[k] < 0 THEN -1 ELSE near(pv[visit[k]])
        BY <1>9, <3>1
      <3>3. PICK x \in S : x = visit[k]
        BY <2>2
      <3>4. step[0][x] = IF x < 0 THEN -1 ELSE near(pv[x])
        BY DEF step
      <3>5. step[0][x] \in S
        BY <1>5 DEF Stepper
      <3> QED
        BY <3>1, <3>2, <3>3, <3>4, <3>5
    <2> HIDE DEF E
    <2>3. Nat \subseteq E
      BY <2>1, <2>2, EveryNumber
    <2> QED
      BY <2>3 DEF E
  <1>11. PICK n \in 0 .. ChainLimit - 1 : c = visit[n] /\ c # -1
    BY <1>1
  <1>12. n \in Nat
    BY <1>2, <1>11
  <1>13. c \in S /\ c # -1
    BY <1>10, <1>11, <1>12
  <1> QED
    BY <1>13 DEF S

(* As many bytes as counted are equal, within the input.                   *)
LEMMA CommonIs ==
  ASSUME AnyInput, NEW i \in Nat, i <= Size, NEW c \in Nat
  PROVE  /\ CommonLength(c, i) \in 0 .. Size - i
         /\ \A k \in 0 .. CommonLength(c, i) - 1 : At(c + k) = At(i + k)
  <1> DEFINE N == {n \in 0 .. Size - i : \A k \in 0 .. n - 1 : At(c + k) = At(i + k)}
  <1>1. Size \in Nat /\ Size - i \in Nat
    BY SizeIsNat
  <1>2. 0 \in N
    BY <1>1
  <1>3. N \subseteq Nat /\ \A n \in N : n <= Size - i
    BY <1>1
  <1>4. \E x \in N : \A y \in N : y <= x
    <2> HIDE DEF N
    <2> QED
      BY <1>1, <1>2, <1>3, GreatestNumber
  <1>5. Max(N) \in N
    <2>1. \E x \in N : \A y \in N : x >= y
      BY <1>3, <1>4
    <2> HIDE DEF N
    <2> QED
      BY <2>1 DEF Max
  <1>6. CommonLength(c, i) = Max(N)
    BY DEF CommonLength
  <1> QED
    BY <1>5, <1>6

(* What a search finds repeats the input.                                  *)
LEMMA FoundAreMatches ==
  ASSUME AnyInput, NEW hd, NEW pv, NEW i \in Nat, i < Size, ChainsOf(hd, pv, i),
         NEW m \in Found(hd, pv, i)
  PROVE  IsMatch(i, m)
  <1>1. ~(i + MatchMin > Size)
    BY DEF Found
  <1>2. Size \in Nat /\ MatchMin \in Nat /\ MatchMin >= 3 /\ MaxDistance \in Nat
    BY SizeIsNat, QlzNumbers
  <1>3. i + 2 < Size
    BY <1>1, <1>2
  <1>4. PICK c \in Candidates(hd, pv, i) :
          m = [ distance |-> i - c, length |-> CommonLength(c, i) ] /\ m.length > 0
    BY <1>1 DEF Found
  <1>5. c \in 0 .. i - 1 /\ i - c <= MaxDistance
    BY <1>3, CandidatesAreBehind
  <1>6. /\ CommonLength(c, i) \in 0 .. Size - i
        /\ \A k \in 0 .. CommonLength(c, i) - 1 : At(c + k) = At(i + k)
    <2>1. c \in Nat /\ i <= Size
      BY <1>2, <1>5
    <2> QED
      BY <2>1, CommonIs
  <1>7. m.distance = i - c /\ m.length = CommonLength(c, i) /\ i - m.distance = c
    BY <1>4, <1>5
  <1> QED
    BY <1>2, <1>4, <1>5, <1>6, <1>7 DEF IsMatch

(* Of matches there is a best.                                             *)
LEMMA BestIsOne ==
  ASSUME AnyInput, NEW i \in Nat, NEW matches, \A m \in matches : IsMatch(i, m)
  PROVE  Best(matches) = NoMatch \/ Best(matches) \in matches
  <1>1. CASE matches = {}
    BY <1>1 DEF Best
  <1>2. CASE matches # {}
    <2> DEFINE L == {m.length : m \in matches}
    <2>1. Size \in Nat /\ \A m \in matches : m.length \in Nat /\ m.length <= Size /\ m.distance \in Nat
      BY SizeIsNat DEF IsMatch
    <2>2. L \subseteq Nat /\ L # {} /\ \A n \in L : n <= Size
      BY <1>2, <2>1
    <2>3. PICK long \in L : \A n \in L : n <= long
      <3> HIDE DEF L
      <3> QED
        BY <2>1, <2>2, GreatestNumber
    <2> DEFINE D == {m.distance : m \in {x \in matches : x.length = long}}
    <2>4. D \subseteq Nat /\ D # {}
      BY <2>1
    <2>5. PICK near \in D : \A n \in D : near <= n
      <3> HIDE DEF D
      <3> QED
        BY <2>4, LeastNumber
    <2>6. PICK m \in matches : m.length = long /\ m.distance = near
      OBVIOUS
    <2>7. ASSUME NEW other \in matches
          PROVE  m.length > other.length \/ (m.length = other.length /\ m.distance <= other.distance)
      <3>1. other.length \in L /\ other.length <= long
        BY <2>3
      <3>2. CASE other.length = long
        <4>1. other.distance \in D
          BY <3>2
        <4> QED
          BY <2>5, <2>6, <3>2, <4>1
      <3>3. CASE other.length # long
        BY <2>1, <2>6, <3>1, <3>3
      <3> QED
        BY <3>2, <3>3
    <2>8. (CHOOSE x \in matches : \A other \in matches :
             x.length > other.length \/ (x.length = other.length /\ x.distance <= other.distance))
            \in matches
      BY <2>7
    <2> QED
      BY <1>2, <2>8 DEF Best
  <1> QED
    BY <1>1, <1>2

(* So does the match chosen, and it is long enough.                        *)
LEMMA ChosenIsMatch ==
  ASSUME AnyInput, NEW hd, NEW pv, NEW i \in Nat, i < Size, ChainsOf(hd, pv, i),
         NEW m, m = ChosenMatch(hd, pv, i), m # NoMatch
  PROVE  IsMatch(i, m) /\ Worth(m)
  <1> DEFINE found == Found(hd, pv, i)
             short == Best({x \in found : IsShort(x)})
             long  == Best({x \in found : ~IsShort(x)})
  <1>1. \A x \in found : IsMatch(i, x)
    BY FoundAreMatches
  <1> HIDE DEF found
  <1>2. \/ short = NoMatch \/ IsMatch(i, short)
    BY <1>1, BestIsOne
  <1>3. \/ long = NoMatch \/ IsMatch(i, long)
    BY <1>1, BestIsOne
  <1> HIDE DEF short, long
  <1>4. m \in {short, long} /\ Worth(m)
    BY DEF ChosenMatch, short, long, found
  <1> QED
    BY <1>2, <1>3, <1>4
-----------------------------------------------------------------------------
(* What a payload says: a packet at `a` takes a decoder that has made n    *)
(* bytes and could continue from distance d to the offset a2 with n2 bytes *)
(* and the distance d2, and makes the bytes of the input.                  *)

(* The bytes of the input from n on are those d before them.               *)
Repeats(n, d, length) ==
  /\ d \in 1 .. n /\ n + length <= Size
  /\ \A k \in 0 .. length - 1 : At(n - d + k) = At(n + k)

LiteralAt(p, a, n, a2, n2, d2) ==
  /\ TypeOf(p[a + 1]) = Literal
  /\ a2 = a + 1 + LiteralLength(p[a + 1])
  /\ n2 = n + LiteralLength(p[a + 1]) /\ n2 <= Size
  /\ d2 = 0
  /\ \A k \in 1 .. LiteralLength(p[a + 1]) : p[a + 1 + k] = input[n + k]

MatchAt(p, a, n, d, a2, n2, d2) ==
  /\ n2 = n + MatchLength(p[a + 1])
  /\ Repeats(n, d2, MatchLength(p[a + 1]))
  /\ \/ TypeOf(p[a + 1]) = Short /\ a2 = a + 2 /\ d2 = p[a + 2] + 1
     \/ TypeOf(p[a + 1]) = Long /\ a2 = a + 3 /\ d2 = LongDistance(p[a + 2], p[a + 3])
     \/ TypeOf(p[a + 1]) = Continuation /\ a2 = a + 1 /\ d2 = d

Packet(p, a, n, d, a2, n2, d2) ==
  /\ a \in Nat /\ a < Len(p) /\ a2 <= Len(p)
  /\ LiteralAt(p, a, n, a2, n2, d2) \/ MatchAt(p, a, n, d, a2, n2, d2)

(* Packet by packet, the payload says the first bytes of the input.        *)
Track(p, packets, a, n, d) ==
  /\ packets \in Nat
  /\ {a, n, d} \subseteq [0 .. packets -> Nat]
  /\ a[0] = 0 /\ n[0] = 0 /\ d[0] = 0
  /\ a[packets] = Len(p)
  /\ \A j \in 0 .. packets - 1 : Packet(p, a[j], n[j], d[j], a[j + 1], n[j + 1], d[j + 1])

Codes(p, made, distance) ==
  \E packets, a, n, d : Track(p, packets, a, n, d) /\ n[packets] = made /\ d[packets] = distance

(* A byte of a payload, and the sizes in it.                               *)
LEMMA ControlIs ==
  ASSUME NEW b \in Byte
  PROVE  /\ LiteralLength(b) \in Nat /\ LiteralLength(b) > 0
         /\ MatchLength(b) \in Nat /\ MatchLength(b) > 0
  <1>1. b \in Nat /\ b % CodeSpan \in 0 .. CodeSpan - 1
    BY QlzNumbers DEF Byte
  <1> QED
    BY <1>1, QlzNumbers DEF LiteralLength, MatchLength

(* p is in r, from offset o on.                                            *)
Within(r, p, o) ==
  o + Len(p) <= Len(r) /\ \A k \in 1 .. Len(p) : r[o + k] = p[k]

(* Two sequences joined hold both.                                         *)
LEMMA ConcatHolds ==
  ASSUME NEW p \in Seq(Byte), NEW q \in Seq(Byte)
  PROVE  /\ p \o q \in Seq(Byte) /\ Len(p \o q) = Len(p) + Len(q)
         /\ Within(p \o q, p, 0) /\ Within(p \o q, q, Len(p))
  <1>1. /\ p \o q \in Seq(Byte) /\ Len(p \o q) = Len(p) + Len(q)
        /\ \A k \in 1 .. Len(p) + Len(q) :
             (p \o q)[k] = IF k <= Len(p) THEN p[k] ELSE q[k - Len(p)]
    BY ConcatProperties
  <1>2. PICK r : r = p \o q
    OBVIOUS
  <1>3. Within(r, p, 0)
    BY <1>1, <1>2 DEF Within
  <1>4. \A k \in 1 .. Len(q) : r[Len(p) + k] = q[k]
    <2> SUFFICES ASSUME NEW k \in 1 .. Len(q) PROVE r[Len(p) + k] = q[k]
      OBVIOUS
    <2>1. PICK x : x = Len(p) + k
      OBVIOUS
    <2>2. x \in 1 .. Len(p) + Len(q) /\ ~(x <= Len(p)) /\ x - Len(p) = k
      BY <2>1
    <2> QED
      BY <1>1, <1>2, <2>1, <2>2
  <1>5. Within(r, q, Len(p))
    BY <1>1, <1>2, <1>4 DEF Within
  <1> QED
    BY <1>1, <1>2, <1>3, <1>5

(* Concatenation is associative.                                           *)
LEMMA JoinedInTurn ==
  ASSUME NEW p \in Seq(Byte), NEW q \in Seq(Byte), NEW r \in Seq(Byte)
  PROVE  (p \o q) \o r = p \o (q \o r)
  BY ConcatAssociative

(* A packet says the same wherever it stands.                              *)
LEMMA PacketStays ==
  ASSUME NEW p \in Seq(Byte), NEW r \in Seq(Byte), NEW o \in Nat, Within(r, p, o),
         NEW a, NEW n \in Nat, NEW d, NEW a2, NEW n2, NEW d2, Packet(p, a, n, d, a2, n2, d2),
         NEW b, b = o + a, NEW b2, b2 = o + a2
  PROVE  Packet(r, b, n, d, b2, n2, d2)
  <1>1. /\ a \in Nat /\ a + 1 \in 1 .. Len(p) /\ a2 <= Len(p) /\ Len(r) \in Nat /\ Len(p) \in Nat
        /\ o + Len(p) <= Len(r) /\ b \in Nat /\ a < Len(p)
    BY DEF Packet, Within
  <1>2. ASSUME NEW k \in Nat, k > 0, a + k <= Len(p)
        PROVE  r[b + k] = p[a + k]
    <2>1. PICK x \in 1 .. Len(p) : x = a + k
      BY <1>1, <1>2
    <2>2. o + x = b + k
      BY <1>1, <2>1
    <2> QED
      BY <2>1, <2>2 DEF Within
  <1>3. r[b + 1] = p[a + 1] /\ p[a + 1] \in Byte
    BY <1>1, <1>2
  <1>4. PICK c \in Byte : c = p[a + 1] /\ c = r[b + 1]
    BY <1>3
  <1>5. LiteralLength(c) \in Nat /\ MatchLength(c) \in Nat
    BY ControlIs
  <1>6. CASE LiteralAt(p, a, n, a2, n2, d2)
    <2>0. PICK len \in Nat : len = LiteralLength(c)
      BY <1>5
    <2>a. a2 = a + 1 + len
      BY <1>4, <1>6, <2>0 DEF LiteralAt
    <2>b. b2 = b + 1 + len
      BY <1>1, <2>a
    <2>1. a2 = a + 1 + LiteralLength(c) /\ b2 = b + 1 + LiteralLength(c)
      BY <2>0, <2>a, <2>b
    <2>2. ASSUME NEW k \in 1 .. LiteralLength(c)
          PROVE  r[b + 1 + k] = input[n + k]
      <3>1. p[a + 1 + k] = input[n + k]
        BY <1>4, <1>6 DEF LiteralAt
      <3>2. PICK x \in Nat : x = k + 1
        OBVIOUS
      <3>3. x > 0 /\ a + x <= Len(p) /\ a + x = a + 1 + k /\ b + x = b + 1 + k
        BY <1>1, <1>5, <2>1, <3>2
      <3>4. r[b + x] = p[a + x]
        BY <1>2, <3>3
      <3> QED
        BY <3>1, <3>3, <3>4
    <2>3. LiteralAt(r, b, n, b2, n2, d2)
      BY <1>4, <1>6, <2>1, <2>2 DEF LiteralAt
    <2> QED
      BY <1>1, <2>1, <2>3 DEF Packet
  <1>7. CASE MatchAt(p, a, n, d, a2, n2, d2)
    <2>1. CASE TypeOf(c) = Short /\ a2 = a + 2 /\ d2 = p[a + 2] + 1
      <3>1. r[b + 2] = p[a + 2] /\ b2 = b + 2
        BY <1>1, <1>2, <2>1
      <3>2. MatchAt(r, b, n, d, b2, n2, d2)
        BY <1>4, <1>7, <2>1, <3>1 DEF MatchAt
      <3> QED
        BY <1>1, <2>1, <3>2 DEF Packet
    <2>2. CASE TypeOf(c) = Long /\ a2 = a + 3 /\ d2 = LongDistance(p[a + 2], p[a + 3])
      <3>1. r[b + 2] = p[a + 2] /\ r[b + 3] = p[a + 3] /\ b2 = b + 3
        BY <1>1, <1>2, <2>2
      <3>2. MatchAt(r, b, n, d, b2, n2, d2)
        BY <1>4, <1>7, <2>2, <3>1 DEF MatchAt
      <3> QED
        BY <1>1, <2>2, <3>2 DEF Packet
    <2>3. CASE TypeOf(c) = Continuation /\ a2 = a + 1 /\ d2 = d
      <3>1. b2 = b + 1
        BY <1>1, <2>3
      <3>2. MatchAt(r, b, n, d, b2, n2, d2)
        BY <1>4, <1>7, <2>3, <3>1 DEF MatchAt
      <3> QED
        BY <1>1, <2>3, <3>2 DEF Packet
    <2> QED
      BY <1>4, <1>7, <2>1, <2>2, <2>3 DEF MatchAt
  <1> QED
    BY <1>6, <1>7 DEF Packet

(* A payload says more by one more packet.                                 *)
LEMMA PacketAppended ==
  ASSUME NEW p \in Seq(Byte), NEW q \in Seq(Byte), NEW made \in Nat, NEW distance \in Nat,
         NEW made2 \in Nat, NEW distance2 \in Nat, Codes(p, made, distance),
         Packet(q, 0, made, distance, Len(q), made2, distance2)
  PROVE  Codes(p \o q, made2, distance2)
  <1>1. PICK packets, a, n, d :
          Track(p, packets, a, n, d) /\ n[packets] = made /\ d[packets] = distance
    BY DEF Codes
  <1> DEFINE m == packets + 1
             a2 == [j \in 0 .. m |-> IF j = m THEN Len(p) + Len(q) ELSE a[j]]
             n2 == [j \in 0 .. m |-> IF j = m THEN made2 ELSE n[j]]
             d2 == [j \in 0 .. m |-> IF j = m THEN distance2 ELSE d[j]]
  <1>2. PICK r \in Seq(Byte) : r = p \o q
    BY ConcatHolds
  <1>3. Len(r) = Len(p) + Len(q) /\ Within(r, p, 0) /\ Within(r, q, Len(p)) /\ Len(r) \in Nat
    BY <1>2, ConcatHolds
  <1>4. /\ packets \in Nat /\ a \in [0 .. packets -> Nat] /\ n \in [0 .. packets -> Nat]
        /\ d \in [0 .. packets -> Nat] /\ a[0] = 0 /\ n[0] = 0 /\ d[0] = 0
        /\ a[packets] = Len(p)
        /\ \A j \in 0 .. packets - 1 :
             Packet(p, a[j], n[j], d[j], a[j + 1], n[j + 1], d[j + 1])
    BY <1>1 DEF Track
  <1>5. /\ m \in Nat /\ {a2, n2, d2} \subseteq [0 .. m -> Nat]
        /\ a2[0] = 0 /\ n2[0] = 0 /\ d2[0] = 0
        /\ a2[m] = Len(r) /\ n2[m] = made2 /\ d2[m] = distance2
    <2>1. m \in Nat /\ 0 \in 0 .. m /\ m \in 0 .. m /\ 0 # m
      BY <1>4
    <2>2. \A j \in 0 .. m : j = m \/ j \in 0 .. packets
      BY <1>4
    <2>3. Len(p) + Len(q) \in Nat
      OBVIOUS
    <2> HIDE DEF m
    <2>4. a2 \in [0 .. m -> Nat]
      BY <1>4, <2>2, <2>3
    <2>5. n2 \in [0 .. m -> Nat]
      BY <1>4, <2>2
    <2>6. d2 \in [0 .. m -> Nat]
      BY <1>4, <2>2
    <2>7. a2[0] = 0 /\ n2[0] = 0 /\ d2[0] = 0
      BY <1>4, <2>1
    <2>8. a2[m] = Len(r) /\ n2[m] = made2 /\ d2[m] = distance2
      BY <1>3, <2>1
    <2> HIDE DEF a2, n2, d2
    <2> QED
      BY <2>1, <2>4, <2>5, <2>6, <2>7, <2>8
  <1>6. \A j \in 0 .. packets : a2[j] = a[j] /\ n2[j] = n[j] /\ d2[j] = d[j]
    BY <1>4
  <1> HIDE DEF a2, n2, d2
  <1>7. ASSUME NEW j \in 0 .. packets - 1
        PROVE  Packet(r, a2[j], n2[j], d2[j], a2[j + 1], n2[j + 1], d2[j + 1])
    <2>1. j \in 0 .. packets /\ j + 1 \in 0 .. packets
      BY <1>4
    <2>2. PICK x \in Nat, x2 \in Nat, y \in Nat :
            x = a[j] /\ x2 = a[j + 1] /\ y = n[j]
      BY <1>4, <2>1
    <2>3. Packet(p, x, y, d[j], x2, n[j + 1], d[j + 1])
      BY <1>4, <2>2
    <2>4. 0 \in Nat /\ x = 0 + x /\ x2 = 0 + x2
      OBVIOUS
    <2>5. Packet(r, x, y, d[j], x2, n[j + 1], d[j + 1])
      BY <1>3, <2>3, <2>4, PacketStays
    <2> QED
      BY <1>6, <2>1, <2>2, <2>5
  <1>8. Packet(r, a2[packets], n2[packets], d2[packets], a2[m], n2[m], d2[m])
    <2>1. Len(p) \in Nat /\ Len(p) = Len(p) + 0
      OBVIOUS
    <2>2. PICK o \in Nat : o = Len(p)
      BY <2>1
    <2>3. o = o + 0 /\ Len(r) = o + Len(q) /\ Within(r, q, o)
      BY <1>3, <2>2
    <2>4. Packet(r, o, made, distance, Len(r), made2, distance2)
      BY <2>3, PacketStays
    <2>5. packets \in 0 .. packets
      BY <1>4
    <2> QED
      BY <1>1, <1>4, <1>5, <1>6, <2>2, <2>4, <2>5
  <1>9. \A j \in 0 .. m - 1 : Packet(r, a2[j], n2[j], d2[j], a2[j + 1], n2[j + 1], d2[j + 1])
    <2>1. \A j \in 0 .. m - 1 : j \in 0 .. packets - 1 \/ (j = packets /\ j + 1 = m)
      BY <1>4
    <2> QED
      BY <1>7, <1>8, <2>1
  <1> HIDE DEF m
  <1>10. Track(r, m, a2, n2, d2)
    BY <1>5, <1>9 DEF Track
  <1> QED
    BY <1>2, <1>5, <1>10 DEF Codes

(* Nothing says nothing.                                                   *)
LEMMA NothingCoded == Codes(<< >>, 0, 0)
  <1> DEFINE z == [j \in 0 .. 0 |-> 0]
  <1>1. Track(<< >>, 0, z, z, z) /\ z[0] = 0
    BY DEF Track
  <1> QED
    BY <1>1 DEF Codes
-----------------------------------------------------------------------------
(* Quotients rounded up, remainders and bounds.                            *)

(* What CeilDiv returns.                                                   *)
LEMMA CeilDivIs ==
  ASSUME NEW a \in Nat, NEW b \in Nat, b > 0
  PROVE  /\ CeilDiv(a, b) \in Nat
         /\ a = 0 => CeilDiv(a, b) = 0
         /\ a > 0 => CeilDiv(a, b) > 0 /\ (CeilDiv(a, b) - 1) * b < a
         /\ a <= CeilDiv(a, b) * b
  <1>1. PICK x \in Nat, q \in Int, r \in Int : x = a + b - 1 /\ q = x \div b /\ r = x % b
    OBVIOUS
  <1>2. q \in Nat /\ r \in 0 .. b - 1 /\ x = b * q + r
    BY <1>1
  <1>3. CeilDiv(a, b) = q
    BY <1>1 DEF CeilDiv
  <1>4. a <= q * b
    BY <1>1, <1>2
  <1>5. ASSUME a = 0 PROVE q = 0
    <2>1. x < b
      BY <1>1, <1>5
    <2> QED
      BY <1>2, <2>1
  <1>6. ASSUME a > 0 PROVE q > 0 /\ (q - 1) * b < a
    <2>1. q # 0
      <3> SUFFICES ASSUME q = 0 PROVE FALSE
        OBVIOUS
      <3>1. b * q = 0
        OBVIOUS
      <3> QED
        BY <1>1, <1>2, <1>6, <3>1
    <2>2. b * q + r = a + b - 1 /\ r >= 0
      BY <1>1, <1>2
    <2>3. (q - 1) * b = b * q - b
      BY <1>2
    <2>4. b * q \in Nat
      BY <1>2
    <2>5. b * q <= a + b - 1
      BY <1>2, <2>2, <2>4
    <2>6. b * q - b < a
      BY <2>4, <2>5
    <2> QED
      BY <1>2, <2>1, <2>3, <2>6
  <1> QED
    BY <1>2, <1>3, <1>4, <1>5, <1>6

(* A quotient and a remainder, and that there is no other of the kind.     *)
LEMMA DivModIs ==
  ASSUME NEW x \in Nat, NEW d \in Nat, d > 0
  PROVE  \E q \in Int, r \in 0 .. d - 1 : q = x \div d /\ r = x % d /\ x = d * q + r
  <1>1. PICK q, r : q = x \div d /\ r = x % d
    OBVIOUS
  <1>2. q \in Int /\ r \in 0 .. d - 1 /\ x = d * q + r
    BY <1>1
  <1> QED
    BY <1>1, <1>2

(* Quotient and remainder are unique.                                      *)
LEMMA RemainderIs ==
  ASSUME NEW d \in Nat, d > 0, NEW q \in Int, NEW q2 \in Int,
         NEW r \in 0 .. d - 1, NEW r2 \in 0 .. d - 1, d * q + r = d * q2 + r2
  PROVE  q = q2 /\ r = r2
  <1>1. PICK a \in Int, b \in Int : a = d * q /\ b = d * q2
    OBVIOUS
  <1>2. ASSUME q > q2 PROVE FALSE
    <2>1. d * q >= d * (q2 + 1) /\ d * (q2 + 1) = b + d
      BY <1>1, <1>2
    <2> QED
      BY <1>1, <2>1
  <1>3. ASSUME q < q2 PROVE FALSE
    <2>1. d * q2 >= d * (q + 1) /\ d * (q + 1) = a + d
      BY <1>1, <1>3
    <2> QED
      BY <1>1, <2>1
  <1>4. q = q2
    BY <1>2, <1>3
  <1> QED
    BY <1>1, <1>4

(* A code and a type in one byte.                                          *)
LEMMA CodeIs ==
  ASSUME NEW type \in 0 .. 3, NEW code \in 0 .. CodeSpan - 1,
         NEW c, c = type * CodeSpan + code
  PROVE  /\ c \in Byte /\ TypeOf(c) = type
         /\ LiteralLength(c) = code + 1 /\ MatchLength(c) = code + MatchMin
  <1>1. CodeSpan \in Nat /\ CodeSpan > 0 /\ ByteSpan = 4 * CodeSpan
    BY QlzNumbers
  <1>2. c \in Nat /\ c < 4 * CodeSpan
    <2>1. type * CodeSpan = 0 \/ type * CodeSpan = CodeSpan \/ type * CodeSpan = 2 * CodeSpan
            \/ type * CodeSpan = 3 * CodeSpan
      BY <1>1
    <2> QED
      BY <1>1, <2>1
  <1>3. PICK q \in Int, r \in 0 .. CodeSpan - 1 :
          q = c \div CodeSpan /\ r = c % CodeSpan /\ c = CodeSpan * q + r
    BY <1>1, <1>2, DivModIs
  <1>4. q = type /\ r = code
    <2>1. CodeSpan * q + r = CodeSpan * type + code /\ type \in Int
      BY <1>1, <1>3
    <2> QED
      BY <1>1, <2>1, RemainderIs
  <1> QED
    BY <1>1, <1>2, <1>3, <1>4 DEF Byte, TypeOf, LiteralLength, MatchLength

(* The lesser of two.                                                      *)
LEMMA MinOfTwo ==
  ASSUME NEW a \in Int, NEW b \in Int
  PROVE  Min({a, b}) = IF a <= b THEN a ELSE b
  <1>1. \E x \in {a, b} : \A y \in {a, b} : x <= y
    OBVIOUS
  <1>2. Min({a, b}) \in {a, b} /\ \A y \in {a, b} : Min({a, b}) <= y
    BY <1>1 DEF Min
  <1> QED
    BY <1>2
-----------------------------------------------------------------------------
(* A literal packet is a packet.                                           *)
LEMMA LiteralPacketIs ==
  ASSUME AnyInput, NEW from \in Nat, NEW count \in 1 .. LiteralMax, from + count <= Size,
         NEW d \in Nat, NEW q, q = <<count - 1>> \o SubSeq(input, from + 1, from + count)
  PROVE  /\ q \in Seq(Byte) /\ Len(q) = count + 1
         /\ Packet(q, 0, from, d, count + 1, from + count, 0)
  <1>1. CodeSpan \in Nat /\ LiteralMax = CodeSpan /\ Size \in Nat /\ count \in Nat
    BY QlzNumbers, SizeIsNat
  <1>2. PICK c : c = count - 1
    OBVIOUS
  <1>3. c = 0 * CodeSpan + c /\ c \in 0 .. CodeSpan - 1 /\ c + 1 = count
    BY <1>1, <1>2
  <1>4. c \in Byte /\ TypeOf(c) = 0 /\ LiteralLength(c) = count
    BY <1>3, CodeIs
  <1>5. PICK s : s = SubSeq(input, from + 1, from + count)
    OBVIOUS
  <1>6. /\ s \in Seq(Byte) /\ Len(s) = count
        /\ \A k \in 1 .. count : s[k] = input[from + k]
    <2>1. PICK x \in Nat, y \in Nat : x = from + 1 /\ y = from + count
      BY <1>1
    <2>2. \A i \in x .. y : input[i] \in Byte
      <3>1. \A i \in x .. y : i \in 1 .. Len(input)
        BY <1>1, <2>1 DEF Size
      <3> QED
        BY <3>1 DEF AnyInput
    <2>3. /\ SubSeq(input, x, y) \in Seq(Byte)
          /\ Len(SubSeq(input, x, y)) = IF x <= y THEN y - x + 1 ELSE 0
          /\ \A i \in 1 .. y - x + 1 : SubSeq(input, x, y)[i] = input[x + i - 1]
      BY <2>2, SubSeqProperties
    <2>4. x <= y /\ y - x + 1 = count
      BY <1>1, <2>1
    <2>5. \A k \in 1 .. count : x + k - 1 = from + k
      BY <2>1
    <2> QED
      BY <1>5, <2>1, <2>3, <2>4, <2>5
  <1>7. <<c>> \in Seq(Byte) /\ Len(<<c>>) = 1 /\ <<c>>[1] = c
    BY <1>4
  <1>8. PICK h \in Seq(Byte) : h = <<c>> /\ Len(h) = 1 /\ h[1] = c
    BY <1>7
  <1>9. q = h \o s
    BY <1>2, <1>5, <1>8
  <1>10. /\ q \in Seq(Byte) /\ Len(q) = 1 + count
         /\ Within(q, h, 0) /\ Within(q, s, 1)
    BY <1>6, <1>8, <1>9, ConcatHolds
  <1>11. q[1] = c
    <2>1. q[0 + 1] = h[1]
      BY <1>8, <1>10 DEF Within
    <2> QED
      BY <1>8, <2>1
  <1>12. \A k \in 1 .. count : q[1 + k] = input[from + k]
    BY <1>6, <1>10 DEF Within
  <1>13. LiteralAt(q, 0, from, count + 1, from + count, 0)
    <2>1. q[0 + 1] = c /\ count + 1 = 0 + 1 + count /\ \A k : 0 + 1 + k = 1 + k
      BY <1>11
    <2>2. \A k \in 1 .. count : q[0 + 1 + k] = input[from + k]
      BY <1>12
    <2> QED
      BY <1>1, <1>4, <2>1, <2>2 DEF LiteralAt, Literal
  <1> QED
    BY <1>1, <1>10, <1>13 DEF Packet

(* FlattenSeq joins step by step.                                          *)
Joined(f, packets, N) ==
  /\ f[1] = packets[1]
  /\ \A i \in 2 .. N : f[i] = f[i - 1] \o packets[i]

(* Flattening joins the packets one by one.                                *)
LEMMA FlattenIs ==
  ASSUME NEW S, NEW N \in Nat, N > 0, NEW packets \in [1 .. N -> Seq(S)]
  PROVE  \E f : Joined(f, packets, N) /\ FlattenSeq(packets) = f[N]
  <1> DEFINE F(f) == [i \in 1 .. N |-> IF i = 1 THEN packets[i] ELSE f[i - 1] \o packets[i]]
             all == CHOOSE f : f = F(f)
             last == N - 1
             base == packets[1]
             below == [n \in 1 .. last |-> n - 1]
             step == [n \in 1 .. last |-> [s \in Seq(S) |-> s \o packets[n + 1]]]
  <1>1. packets \in Seq(Seq(S)) /\ Len(packets) = N
    OBVIOUS
  <1>2. FlattenSeq(packets) = all[N]
    BY <1>1 DEF FlattenSeq
  <1>3. last \in Nat /\ base \in Seq(S) /\ IsBelow(below, last)
    BY DEF IsBelow
  <1>4. step \in StepperTo(Seq(S), last)
    <2>1. \A n \in 1 .. last : packets[n + 1] \in Seq(S)
      OBVIOUS
    <2>2. \A n \in 1 .. last, s \in Seq(S) : s \o packets[n + 1] \in Seq(S)
      BY <2>1, ConcatProperties
    <2> QED
      BY <2>2 DEF StepperTo
  <1> HIDE DEF last, base, below, step
  <1>5. PICK g : FromBelow(Seq(S), last, base, below, step, g)
    BY <1>3, <1>4, EachFromBelow
  <1>6. /\ g \in [0 .. last -> Seq(S)] /\ g[0] = base
        /\ \A n \in 1 .. last : g[n] = step[n][g[below[n]]]
    BY <1>5 DEF FromBelow
  <1> DEFINE f == [i \in 1 .. N |-> g[i - 1]]
  <1>7. ASSUME NEW i \in 1 .. N
        PROVE  f[i] = F(f)[i]
    <2>1. CASE i = 1
      BY <1>6, <2>1 DEF base
    <2>2. CASE i # 1
      <3>1. PICK n : n = i - 1
        OBVIOUS
      <3>2. n \in 1 .. last /\ n + 1 = i /\ n \in 1 .. N /\ n - 1 \in 0 .. last
        BY <2>2, <3>1 DEF last
      <3>3. g[n] = step[n][g[n - 1]] /\ g[n - 1] \in Seq(S)
        BY <1>6, <3>2 DEF below
      <3>4. g[n] = g[n - 1] \o packets[i]
        BY <3>2, <3>3 DEF step
      <3>5. f[i] = g[n] /\ f[n] = g[n - 1]
        BY <3>1, <3>2
      <3> QED
        BY <2>2, <3>1, <3>4, <3>5
    <2> QED
      BY <2>1, <2>2
  <1>8. f = F(f)
    BY <1>7
  <1>9. all = F(all)
    <2>1. \E x : x = F(x)
      BY <1>8
    <2> QED
      BY <2>1
  <1> HIDE DEF all
  <1>10. Joined(all, packets, N)
    <2>1. 1 \in 1 .. N /\ \A i \in 2 .. N : i \in 1 .. N /\ i # 1
      OBVIOUS
    <2> QED
      BY <1>9, <2>1 DEF Joined
  <1> QED
    BY <1>2, <1>10
-----------------------------------------------------------------------------
(* qlz_write_literals says the bytes from start on.                        *)
LEMMA LiteralsSaid ==
  ASSUME AnyInput, NEW start \in Nat, NEW length \in Nat, start + length <= Size,
         NEW p \in Seq(Byte), NEW d \in Nat, Codes(p, start, d)
  PROVE  /\ LiteralPackets(start, length) \in Seq(Byte)
         /\ Len(LiteralPackets(start, length)) = length + CeilDiv(length, LiteralMax)
         /\ \E d2 \in Nat : Codes(p \o LiteralPackets(start, length), start + length, d2)
  <1> DEFINE N == CeilDiv(length, LiteralMax)
             From(k) == start + (k - 1) * LiteralMax
             Count(k) == Min({LiteralMax, start + length - From(k)})
             packet(k) == <<Count(k) - 1>> \o SubSeq(input, From(k) + 1, From(k) + Count(k))
             packets == [k \in 1 .. N |-> packet(k)]
             made(k) == IF k = N THEN length ELSE k * LiteralMax
  <1>1. Size \in Nat /\ LiteralMax \in Nat /\ LiteralMax > 0
    BY SizeIsNat, QlzNumbers
  <1>2. /\ N \in Nat /\ (length = 0 => N = 0)
        /\ length > 0 => N > 0 /\ (N - 1) * LiteralMax < length
        /\ length <= N * LiteralMax
    BY <1>1, CeilDivIs
  <1>3. LiteralPackets(start, length) = FlattenSeq(packets)
    BY DEF LiteralPackets
  <1> HIDE DEF N
  <1>4. CASE length = 0
    <2>1. N = 0
      BY <1>2, <1>4
    <2>2. packets = << >>
      BY <2>1
    <2>3. FlattenSeq(packets) = << >>
      <3>1. Len(<< >>) = 0
        OBVIOUS
      <3> HIDE DEF packets
      <3> QED
        BY <2>2, <3>1 DEF FlattenSeq
    <2>4. << >> \in Seq(Byte) /\ Len(<< >>) = 0 /\ p \o << >> = p
      BY ConcatEmptySeq
    <2>5. start + length = start /\ length + N = 0
      BY <1>4, <2>1
    <2> HIDE DEF packets
    <2> QED
      BY <1>3, <2>3, <2>4, <2>5 DEF N
  <1>5. CASE length > 0
    <2>1. N \in Nat /\ N > 0 /\ (N - 1) * LiteralMax < length /\ length <= N * LiteralMax
      BY <1>2, <1>5
    <2>2. ASSUME NEW k \in 1 .. N
          PROVE  /\ From(k) \in Nat /\ Count(k) \in 1 .. LiteralMax
                 /\ From(k) + Count(k) = start + made(k)
                 /\ k > 1 => From(k) = start + made(k - 1)
                 /\ k = 1 => From(k) = start
                 /\ made(k) \in Nat /\ made(k) <= length
      <3>1. PICK x \in Nat : x = (k - 1) * LiteralMax
        BY <1>1
      <3>2. x < length
        <4>1. (k - 1) * LiteralMax <= (N - 1) * LiteralMax
          BY <1>1, <2>1
        <4>2. (N - 1) * LiteralMax \in Int
          BY <1>1, <2>1
        <4> QED
          BY <2>1, <3>1, <4>1, <4>2
      <3>3. k * LiteralMax = x + LiteralMax
        BY <1>1, <3>1
      <3>4. From(k) = start + x
        BY <3>1
      <3>5. Count(k) = IF LiteralMax <= length - x THEN LiteralMax ELSE length - x
        <4>1. start + length - From(k) = length - x
          BY <3>4
        <4>2. PICK y \in Int : y = length - x
          OBVIOUS
        <4> HIDE DEF From
        <4> QED
          BY <1>1, <4>1, <4>2, MinOfTwo
      <3>6. k < N => x + LiteralMax < length
        <4> SUFFICES ASSUME k < N PROVE x + LiteralMax < length
          OBVIOUS
        <4>1. k * LiteralMax <= (N - 1) * LiteralMax
          BY <1>1, <2>1
        <4>2. (N - 1) * LiteralMax \in Int
          BY <1>1, <2>1
        <4> QED
          BY <1>1, <2>1, <3>3, <4>1, <4>2
      <3>7. k = N => length <= x + LiteralMax
        BY <2>1, <3>3
      <3>8. made(k) = IF k = N THEN length ELSE x + LiteralMax
        BY <3>3
      <3>9. k > 1 => made(k - 1) = x
        <4>1. k > 1 => k - 1 # N
          BY <2>1
        <4> QED
          BY <3>1, <4>1
      <3>10. k = 1 => x = 0
        BY <1>1, <3>1
      <3> HIDE DEF made, From, Count
      <3>11. Count(k) = IF k = N THEN length - x ELSE LiteralMax
        <4>1. k = N \/ k < N
          BY <2>1
        <4> QED
          BY <1>1, <3>5, <3>6, <3>7, <4>1
      <3>12. Count(k) \in 1 .. LiteralMax
        BY <1>1, <3>2, <3>7, <3>11
      <3>13. made(k) \in Nat /\ made(k) <= length
        <4>1. k = N \/ k < N
          BY <2>1
        <4> QED
          BY <1>1, <3>6, <3>8, <4>1
      <3>14. From(k) + Count(k) = start + made(k)
        BY <1>1, <3>4, <3>8, <3>11
      <3> QED
        BY <3>4, <3>9, <3>10, <3>12, <3>13, <3>14
    <2> HIDE DEF made, From, Count
    <2>3. ASSUME NEW k \in 1 .. N, NEW e \in Nat
          PROVE  /\ packet(k) \in Seq(Byte) /\ Len(packet(k)) = Count(k) + 1
                 /\ Packet(packet(k), 0, From(k), e, Count(k) + 1, From(k) + Count(k), 0)
      <3>1. PICK from \in Nat, count \in 1 .. LiteralMax : from = From(k) /\ count = Count(k)
        BY <2>2
      <3>2. from + count <= Size
        BY <1>1, <2>2, <3>1
      <3>3. PICK q : q = <<count - 1>> \o SubSeq(input, from + 1, from + count)
        OBVIOUS
      <3>4. /\ q \in Seq(Byte) /\ Len(q) = count + 1
            /\ Packet(q, 0, from, e, count + 1, from + count, 0)
        BY <3>2, <3>3, LiteralPacketIs
      <3> QED
        BY <3>1, <3>3, <3>4
    <2> HIDE DEF packet
    <2>4. packets \in [1 .. N -> Seq(Byte)] /\ \A k \in 1 .. N : packets[k] = packet(k)
      <3>1. 0 \in Nat
        OBVIOUS
      <3> QED
        BY <2>3, <3>1
    <2> HIDE DEF packets
    <2>5. PICK f : Joined(f, packets, N) /\ FlattenSeq(packets) = f[N]
      BY <2>1, <2>4, FlattenIs
    <2> DEFINE Said(k) == /\ f[k + 1] \in Seq(Byte)
                          /\ Len(f[k + 1]) = made(k + 1) + (k + 1)
                          /\ \E d2 \in Nat : Codes(p \o f[k + 1], start + made(k + 1), d2)
               E == {k \in 0 .. N - 1 : Said(k)}
    (* One more packet after q, which says what is made before it.         *)
    <2>6. ASSUME NEW k \in 1 .. N, NEW q \in Seq(Byte), NEW e \in Nat, Codes(q, From(k), e)
          PROVE  /\ packet(k) \in Seq(Byte) /\ Len(packet(k)) = Count(k) + 1
                 /\ Codes(q \o packet(k), start + made(k), 0)
      <3>1. PICK s \in Seq(Byte) : s = packet(k)
        BY <2>3
      <3>2. PICK from \in Nat, made2 \in Nat : from = From(k) /\ made2 = start + made(k)
        BY <2>2
      <3>3. Len(s) = Count(k) + 1 /\ Packet(s, 0, from, e, Count(k) + 1, From(k) + Count(k), 0)
        BY <2>3, <3>1, <3>2
      <3>4. Packet(s, 0, from, e, Len(s), made2, 0)
        BY <2>2, <3>2, <3>3
      <3>5. 0 \in Nat /\ Codes(q, from, e)
        BY <2>6, <3>2
      <3>6. Codes(q \o s, made2, 0)
        BY <3>4, <3>5, PacketAppended
      <3> QED
        BY <3>1, <3>2, <3>3, <3>6
    <2>7. Said(0)
      <3>1. 1 \in 1 .. N /\ 0 + 1 = 1
        BY <2>1
      <3>2. From(1) = start /\ made(1) \in Nat /\ Count(1) = made(1)
        BY <1>1, <2>2, <3>1
      <3>3. f[1] = packet(1)
        BY <2>4, <2>5, <3>1 DEF Joined
      <3>4. /\ packet(1) \in Seq(Byte) /\ Len(packet(1)) = Count(1) + 1
            /\ Codes(p \o packet(1), start + made(1), 0)
        BY <2>6, <3>1, <3>2
      <3>5. 0 \in Nat
        OBVIOUS
      <3> QED
        BY <3>1, <3>2, <3>3, <3>4, <3>5
    <2>8. ASSUME NEW k \in 0 .. N - 2, Said(k)
          PROVE  Said(k + 1)
      <3>1. PICK x : x = k + 1
        OBVIOUS
      <3>2. x \in 1 .. N /\ x + 1 \in 1 .. N /\ x + 1 \in 2 .. N /\ x + 1 > 1 /\ x + 1 - 1 = x
            /\ x \in Nat
        BY <2>1, <3>1
      <3>3. /\ From(x + 1) = start + made(x) /\ made(x) \in Nat
            /\ From(x + 1) + Count(x + 1) = start + made(x + 1) /\ made(x + 1) \in Nat
            /\ Count(x + 1) \in Nat
        BY <1>1, <2>2, <3>2
      <3>4. /\ f[x] \in Seq(Byte) /\ Len(f[x]) = made(x) + x
        BY <2>8, <3>1
      <3>5. PICK e \in Nat : Codes(p \o f[x], start + made(x), e)
        BY <2>8, <3>1
      <3>6. PICK q \in Seq(Byte), h \in Seq(Byte) : h = f[x] /\ q = p \o h
        BY <3>4, ConcatHolds
      <3>7. /\ packet(x + 1) \in Seq(Byte) /\ Len(packet(x + 1)) = Count(x + 1) + 1
            /\ Codes(q \o packet(x + 1), start + made(x + 1), 0)
        BY <2>6, <3>2, <3>3, <3>5, <3>6
      <3>8. f[x + 1] = h \o packet(x + 1)
        <4>1. PICK y \in 2 .. N : y = x + 1 /\ y - 1 = x /\ y \in 1 .. N
          BY <3>2
        <4>2. f[y] = f[y - 1] \o packets[y] /\ packets[y] = packet(y)
          BY <2>4, <2>5, <4>1 DEF Joined
        <4> QED
          BY <3>6, <4>1, <4>2
      <3>9. PICK s \in Seq(Byte) : s = packet(x + 1)
        BY <3>7
      <3>10. q \o s = p \o (h \o s)
        <4>1. (p \o h) \o s = p \o (h \o s)
          BY JoinedInTurn
        <4> QED
          BY <3>6, <4>1
      <3>11. f[x + 1] \in Seq(Byte) /\ Len(f[x + 1]) = Len(h) + Len(s)
        BY <3>8, <3>9, ConcatHolds
      <3>12. Len(f[x + 1]) = made(x + 1) + (x + 1)
        <4>1. PICK m \in Nat, c \in Nat : m = made(x) /\ c = Count(x + 1)
          BY <3>3
        <4>b. PICK y, l, from : y = x + 1 /\ l = made(x + 1) /\ from = From(x + 1)
          OBVIOUS
        <4>2. from = start + m /\ from + c = start + l /\ l \in Nat /\ Len(h) = m + x
                /\ Len(s) = c + 1
          BY <3>3, <3>4, <3>6, <3>7, <3>9, <4>1, <4>b
        <4>3. Len(h) + Len(s) = l + y
          <5>a. from = start + m
            BY <4>2
          <5>b. start + m \in Nat
            OBVIOUS
          <5>c. from \in Nat
            BY <5>a, <5>b
          <5>d. y = x + 1
            BY <4>1, <4>b
          <5>1. from \in Nat /\ l \in Nat /\ y = x + 1
            BY <5>c, <5>d, <4>2
          <5>2. m + c = l
            BY <4>2, <5>1
          <5>3. PICK lh, ls : lh = Len(h) /\ ls = Len(s)
            OBVIOUS
          <5>4. lh = m + x /\ ls = c + 1
            BY <4>2, <5>3
          <5>5. lh + ls = l + y
            BY <3>2, <5>1, <5>2, <5>4
          <5> QED
            BY <5>3, <5>5
        <4> QED
          BY <3>11, <4>1, <4>b, <4>3
      <3>13. Codes(p \o f[x + 1], start + made(x + 1), 0)
        BY <3>7, <3>8, <3>9, <3>10
      <3>14. 0 \in Nat
        OBVIOUS
      <3> QED
        BY <3>1, <3>11, <3>12, <3>13, <3>14
    <2> HIDE DEF Said
    <2>9. 0 .. N - 1 \subseteq E
      <3>1. N - 1 \in Nat /\ 0 \in E
        BY <2>1, <2>7
      <3>2. ASSUME NEW k \in 0 .. N - 1 - 1, k \in E
            PROVE  k + 1 \in E
        <4>1. k \in 0 .. N - 2 /\ k + 1 \in 0 .. N - 1
          BY <2>1
        <4> QED
          BY <2>8, <3>2, <4>1
      <3> HIDE DEF E
      <3> QED
        BY <3>1, <3>2, EveryNumberUpTo
    <2>10. Said(N - 1) /\ N - 1 + 1 = N
      BY <2>1, <2>9
    <2>11. made(N) = length
      BY DEF made
    <2> QED
      BY <1>3, <2>5, <2>10, <2>11 DEF Said, N
  <1> QED
    BY <1>4, <1>5
-----------------------------------------------------------------------------
(* The parts of a match.                                                   *)
LEMMA MatchPartIs ==
  ASSUME NEW r \in Nat, r > 0
  PROVE  /\ MatchPart(r) \in 1 .. r /\ MatchPart(r) <= MatchMax
         /\ r >= MatchMin => /\ MatchPart(r) >= MatchMin
                             /\ r - MatchPart(r) = 0 \/ r - MatchPart(r) >= MatchMin
         /\ MatchPart(r) < MatchMax =>
              MatchPart(r) = r \/ (r - MatchPart(r) = MatchMin /\ r > MatchMax)
  <1>1. /\ MatchMin \in Nat /\ MatchMin >= 3 /\ MatchMax \in Nat /\ 2 * MatchMin <= MatchMax + 1
    BY QlzNumbers
  <1>2. PICK count : count = Min({r, MatchMax})
    OBVIOUS
  <1>3. count = IF r <= MatchMax THEN r ELSE MatchMax
    BY <1>1, <1>2, MinOfTwo
  <1>4. MatchPart(r) = IF r - count # 0 /\ r - count < MatchMin
                       THEN count - (MatchMin - (r - count)) ELSE count
    BY <1>2 DEF MatchPart
  <1>5. CASE r <= MatchMax
    BY <1>1, <1>3, <1>4, <1>5
  <1>6. CASE r > MatchMax
    <2>1. count = MatchMax
      BY <1>1, <1>3, <1>6
    <2>2. CASE r - MatchMax < MatchMin
      <3>1. MatchPart(r) = r - MatchMin
        BY <1>1, <1>4, <1>6, <2>1, <2>2
      <3> QED
        BY <1>1, <1>6, <2>2, <3>1
    <2>3. CASE ~(r - MatchMax < MatchMin)
      <3>1. MatchPart(r) = MatchMax
        BY <1>1, <1>4, <1>6, <2>1, <2>3
      <3> QED
        BY <1>1, <1>6, <2>3, <3>1
    <2> QED
      BY <2>2, <2>3
  <1> QED
    BY <1>1, <1>5, <1>6

(* The control byte of a match is read as it was written.                  *)
LEMMA MatchControlIs ==
  ASSUME NEW type \in 0 .. 3, NEW part \in Nat, part <= MatchMax
  PROVE  /\ MatchControl(type, part) \in Byte
         /\ part >= MatchMin => /\ TypeOf(MatchControl(type, part)) = type
                                /\ MatchLength(MatchControl(type, part)) = part
  <1>1. /\ MatchMin \in Nat /\ MatchMax \in Nat /\ MatchMax = CodeSpan - 1 + MatchMin
        /\ 2 * MatchMin <= MatchMax + 1 /\ CodeSpan \in Nat /\ ByteSpan = 4 * CodeSpan
    BY QlzNumbers
  <1>2. CASE part < MatchMin
    <2>1. MatchControl(type, part) = ByteSpan + part - MatchMin
      BY <1>2 DEF MatchControl
    <2> QED
      BY <1>1, <1>2, <2>1 DEF Byte
  <1>3. CASE ~(part < MatchMin)
    <2>1. MatchControl(type, part) = type * CodeSpan + part - MatchMin
      BY <1>3 DEF MatchControl
    <2>2. PICK code \in 0 .. CodeSpan - 1, t \in Int :
             code = part - MatchMin /\ t = type * CodeSpan
      BY <1>1, <1>3
    <2>3. t \in Int
      BY <1>1, <2>2
    <2>4. PICK c : c = MatchControl(type, part)
      OBVIOUS
    <2>5. c = type * CodeSpan + code
      BY <1>1, <2>1, <2>2, <2>3, <2>4
    <2>6. c \in Byte /\ TypeOf(c) = type /\ MatchLength(c) = code + MatchMin
      BY <2>5, CodeIs
    <2>7. code + MatchMin = part
      BY <1>1, <2>2
    <2> QED
      BY <2>4, <2>6, <2>7
  <1> QED
    BY <1>2, <1>3

(* Some of a match from within it.                                         *)
LEMMA SomeRepeats ==
  ASSUME AnyInput, NEW i \in Nat, i <= Size, NEW m, IsMatch(i, m),
         NEW length \in Nat, NEW from \in Nat, from >= i, from + length <= i + m.length
  PROVE  Repeats(from, m.distance, length)
  <1>1. PICK d \in 1 .. i, l \in 1 .. Size - i : d = m.distance /\ l = m.length
    BY DEF IsMatch
  <1>2. \A k \in 0 .. l - 1 : At(i - d + k) = At(i + k)
    BY <1>1 DEF IsMatch
  <1>3. Size \in Nat
    BY SizeIsNat
  <1>4. ASSUME NEW k \in 0 .. length - 1
        PROVE  At(from - d + k) = At(from + k)
    <2>1. PICK x : x = from - i + k
      OBVIOUS
    <2>2. x \in 0 .. l - 1 /\ i - d + x = from - d + k /\ i + x = from + k
      BY <1>1, <2>1
    <2>3. At(i - d + x) = At(i + x)
      BY <1>2, <2>2
    <2> QED
      BY <2>2, <2>3
  <1>5. d \in 1 .. from /\ from + length <= Size
    BY <1>1, <1>3
  <1> QED
    BY <1>1, <1>4, <1>5 DEF Repeats

(* A continuation is a packet.                                             *)
LEMMA ContinuationIs ==
  ASSUME AnyInput, NEW i \in Nat, i <= Size, NEW m, IsMatch(i, m),
         NEW part \in Nat, part >= MatchMin, part <= MatchMax,
         NEW from \in Nat, from >= i, from + part <= i + m.length
  PROVE  /\ <<MatchControl(Continuation, part)>> \in Seq(Byte)
         /\ Len(<<MatchControl(Continuation, part)>>) = 1
         /\ Packet(<<MatchControl(Continuation, part)>>, 0, from, m.distance,
                   1, from + part, m.distance)
  <1>1. PICK c \in Byte : c = MatchControl(Continuation, part)
    BY MatchControlIs DEF Continuation
  <1>2. TypeOf(c) = Continuation /\ MatchLength(c) = part
    BY <1>1, MatchControlIs DEF Continuation
  <1>3. PICK q : q = <<c>>
    OBVIOUS
  <1>4. q \in Seq(Byte) /\ Len(q) = 1 /\ q[0 + 1] = c
    BY <1>3
  <1>5. Repeats(from, m.distance, part)
    BY SomeRepeats
  <1>6. MatchAt(q, 0, from, m.distance, 1, from + part, m.distance)
    BY <1>2, <1>4, <1>5 DEF MatchAt
  <1>7. Packet(q, 0, from, m.distance, 1, from + part, m.distance)
    BY <1>4, <1>6 DEF Packet
  <1> QED
    BY <1>1, <1>3, <1>4, <1>7

(* The bytes of a distance.                                                *)
LEMMA DistanceBytesAre ==
  ASSUME NEW m, m.distance \in Nat, m.distance > 0, m.distance <= MaxDistance
  PROVE  /\ DistanceBytes(m) \in Seq(Byte)
         /\ IsShort(m) => /\ Len(DistanceBytes(m)) = 1
                          /\ m.distance = DistanceBytes(m)[1] + 1
         /\ ~IsShort(m) => /\ Len(DistanceBytes(m)) = 2
                           /\ m.distance = LongDistance(DistanceBytes(m)[1], DistanceBytes(m)[2])
  <1>1. PICK d \in Nat : d = m.distance
    OBVIOUS
  <1>2. /\ ByteSpan \in Nat /\ ByteSpan > 0 /\ ShortDistance <= ByteSpan /\ ShortDistance \in Nat
        /\ MaxDistance < ByteSpan * ByteSpan /\ MaxDistance \in Nat
    BY QlzNumbers, QlzAssumption
  <1>3. CASE IsShort(m)
    <2>1. d - 1 \in Byte
      BY <1>1, <1>2, <1>3 DEF IsShort, Byte
    <2>2. PICK c \in Byte : c = d - 1
      BY <2>1
    <2>3. DistanceBytes(m) = <<c>> /\ d = c + 1
      BY <1>1, <1>3, <2>2 DEF DistanceBytes
    <2> QED
      BY <1>1, <1>3, <2>3
  <1>4. CASE ~IsShort(m)
    <2>1. PICK q \in Int, r \in Int : /\ q = d \div ByteSpan /\ r = d % ByteSpan
                              /\ r \in 0 .. ByteSpan - 1 /\ d = ByteSpan * q + r
      BY <1>2
    <2>2. q >= 0
      <3> SUFFICES ASSUME q < 0 PROVE FALSE
        BY <2>1
      <3>1. ByteSpan * (q + 1) <= 0
        BY <1>2, <2>1
      <3> QED
        BY <1>2, <2>1, <3>1
    <2>3. q < ByteSpan
      <3> SUFFICES ASSUME q >= ByteSpan PROVE FALSE
        BY <1>2, <2>1
      <3>1. ByteSpan * q >= ByteSpan * ByteSpan
        BY <1>2, <2>1
      <3>2. ByteSpan * ByteSpan \in Int /\ ByteSpan * q \in Int
        BY <1>2
      <3> QED
        BY <1>1, <1>2, <2>1, <3>1, <3>2
    <2>4. q \in Byte /\ r \in Byte
      BY <1>2, <2>1, <2>2, <2>3 DEF Byte
    <2>5. DistanceBytes(m) = <<q, r>>
      BY <1>1, <1>4, <2>1 DEF DistanceBytes
    <2>6. LongDistance(q, r) = d
      BY <1>2, <2>1 DEF LongDistance
    <2> QED
      BY <1>1, <1>4, <2>4, <2>5, <2>6
  <1> QED
    BY <1>3, <1>4
-----------------------------------------------------------------------------
(* The continuations of what remains of a match of `length` bytes.         *)
RestIs(rest, length) ==
  /\ rest[0] = << >>
  /\ \A r \in 1 .. length :
       rest[r] = <<MatchControl(Continuation, MatchPart(r))>> \o rest[r - MatchPart(r)]

(* The first packet of a match, and what follows it.                       *)
LEMMA MatchPacketsAre ==
  ASSUME NEW m, m.length \in Nat, m.length > 0
  PROVE  \E rest : /\ RestIs(rest, m.length)
                   /\ MatchPackets(m) =
                        <<MatchControl(IF IsShort(m) THEN Short ELSE Long, MatchPart(m.length))>>
                          \o DistanceBytes(m) \o rest[m.length - MatchPart(m.length)]
  <1> DEFINE last == m.length
             F(f) == [remaining \in 0 .. last |->
                        IF remaining = 0 THEN << >>
                        ELSE LET part == MatchPart(remaining)
                             IN  <<MatchControl(Continuation, part)>> \o f[remaining - part]]
             all == CHOOSE f : f = F(f)
             below == [n \in 1 .. last |-> n - MatchPart(n)]
             step == [n \in 1 .. last |->
                        [s \in Seq(Byte) |-> <<MatchControl(Continuation, MatchPart(n))>> \o s]]
  <1>1. MatchPackets(m) =
          <<MatchControl(IF IsShort(m) THEN Short ELSE Long, MatchPart(m.length))>>
            \o DistanceBytes(m) \o all[m.length - MatchPart(m.length)]
    BY DEF MatchPackets
  <1>2. last \in Nat
    OBVIOUS
  <1> HIDE DEF last
  <1>3. \A n \in 1 .. last : MatchPart(n) \in 1 .. n /\ MatchPart(n) <= MatchMax
    BY <1>2, MatchPartIs
  <1>4. IsBelow(below, last)
    <2>1. \A n \in 1 .. last : n - MatchPart(n) \in 0 .. last /\ n - MatchPart(n) < n
      BY <1>2, <1>3
    <2> QED
      BY <2>1 DEF IsBelow
  <1>5. step \in StepperTo(Seq(Byte), last)
    <2>1. ASSUME NEW n \in 1 .. last, NEW s \in Seq(Byte)
          PROVE  <<MatchControl(Continuation, MatchPart(n))>> \o s \in Seq(Byte)
      <3>1. PICK part \in Nat : part = MatchPart(n) /\ part <= MatchMax
        BY <1>3
      <3>2. PICK c \in Byte : c = MatchControl(Continuation, part)
        BY <3>1, MatchControlIs DEF Continuation
      <3>3. PICK h \in Seq(Byte) : h = <<MatchControl(Continuation, part)>>
        <4>1. <<c>> \in Seq(Byte)
          OBVIOUS
        <4> QED
          BY <3>2, <4>1
      <3>4. h \o s \in Seq(Byte)
        BY ConcatHolds
      <3> QED
        BY <3>1, <3>3, <3>4
    <2> QED
      BY <2>1 DEF StepperTo
  <1>6. << >> \in Seq(Byte)
    OBVIOUS
  <1> HIDE DEF below, step
  <1>7. PICK g : FromBelow(Seq(Byte), last, << >>, below, step, g)
    BY <1>2, <1>4, <1>5, <1>6, EachFromBelow
  <1>8. /\ g \in [0 .. last -> Seq(Byte)] /\ g[0] = << >>
        /\ \A n \in 1 .. last : g[n] = step[n][g[below[n]]]
    BY <1>7 DEF FromBelow
  <1>9. ASSUME NEW n \in 0 .. last
        PROVE  g[n] = F(g)[n]
    <2>1. CASE n = 0
      BY <1>8, <2>1
    <2>2. CASE n # 0
      <3>1. n \in 1 .. last /\ n - MatchPart(n) \in 0 .. last
        BY <1>2, <1>3, <2>2
      <3>2. g[n] = step[n][g[n - MatchPart(n)]] /\ g[n - MatchPart(n)] \in Seq(Byte)
        BY <1>8, <3>1 DEF below
      <3>3. g[n] = <<MatchControl(Continuation, MatchPart(n))>> \o g[n - MatchPart(n)]
        BY <3>1, <3>2 DEF step
      <3> QED
        BY <2>2, <3>3
    <2> QED
      BY <2>1, <2>2
  <1>10. g = F(g)
    BY <1>8, <1>9
  <1>11. all = F(all)
    <2>1. \E x : x = F(x)
      BY <1>10
    <2> QED
      BY <2>1
  <1> HIDE DEF all
  <1>12. RestIs(all, last)
    <2>1. 0 \in 0 .. last /\ \A r \in 1 .. last : r \in 0 .. last /\ r # 0
      BY <1>2
    <2>2. all[0] = << >>
      BY <1>11, <2>1
    <2>3. ASSUME NEW r \in 1 .. last
          PROVE  all[r] = <<MatchControl(Continuation, MatchPart(r))>> \o all[r - MatchPart(r)]
      BY <1>11, <2>1
    <2> QED
      BY <2>2, <2>3 DEF RestIs
  <1> QED
    BY <1>1, <1>12 DEF last

(* A part more is not a packet too many.                                   *)
LEMMA OnePartMore ==
  ASSUME NEW x \in Nat, x >= MatchMin, NEW y, y = x - MatchPart(x),
         NEW k \in Nat, y = 0 => k = 0, y > 0 => (k - 1) * MatchMax < y
  PROVE  k * MatchMax < x
  <1>1. /\ MatchMin \in Nat /\ MatchMin >= 3 /\ MatchMax \in Nat
        /\ 2 * MatchMin <= MatchMax + 1 /\ x > 0
    BY QlzNumbers
  <1>2. PICK part \in 1 .. x :
          /\ part = MatchPart(x) /\ part <= MatchMax
          /\ part < MatchMax => part = x \/ (x - part = MatchMin /\ x > MatchMax)
    BY <1>1, MatchPartIs
  <1>3. y = x - part /\ y \in Nat
    BY <1>2
  <1>4. CASE y = 0
    <2>1. k * MatchMax = 0
      BY <1>1, <1>4
    <2> QED
      BY <1>1, <2>1
  <1>5. CASE y > 0
    <2>1. k * MatchMax = (k - 1) * MatchMax + MatchMax
      BY <1>1
    <2>2. (k - 1) * MatchMax \in Int
      BY <1>1
    <2>3. CASE part = MatchMax
      BY <1>1, <1>3, <1>5, <2>1, <2>2, <2>3
    <2>4. CASE part < MatchMax
      <3>1. y = MatchMin /\ x > MatchMax
        BY <1>2, <1>3, <1>5, <2>4
      <3>2. ~(k > 1)
        <4> SUFFICES ASSUME k > 1 PROVE FALSE
          OBVIOUS
        <4>1. (k - 1) * MatchMax >= 1 * MatchMax
          BY <1>1
        <4> QED
          BY <1>1, <1>5, <2>2, <3>1, <4>1
      <3>3. k = 0 \/ k = 1
        BY <3>2
      <3>4. k * MatchMax <= MatchMax
        BY <1>1, <3>3
      <3> QED
        BY <1>1, <3>1, <3>4
    <2> QED
      BY <1>1, <1>2, <2>3, <2>4
  <1> QED
    BY <1>3, <1>4, <1>5

(* What the continuations say, and how many they are.                      *)
LEMMA RestSaid ==
  ASSUME AnyInput, NEW i \in Nat, i <= Size, NEW m, IsMatch(i, m),
         NEW rest, RestIs(rest, m.length),
         NEW r \in 0 .. m.length, r = 0 \/ r >= MatchMin
  PROVE  /\ rest[r] \in Seq(Byte)
         /\ r = 0 => Len(rest[r]) = 0
         /\ r > 0 => (Len(rest[r]) - 1) * MatchMax < r
         /\ \A p \in Seq(Byte) :
              Codes(p, i + m.length - r, m.distance) =>
                Codes(p \o rest[r], i + m.length, m.distance)
  <1> DEFINE Said(x) == /\ rest[x] \in Seq(Byte)
                        /\ x = 0 => Len(rest[x]) = 0
                        /\ x > 0 => (Len(rest[x]) - 1) * MatchMax < x
                        /\ \A p \in Seq(Byte) :
                             Codes(p, i + m.length - x, m.distance) =>
                               Codes(p \o rest[x], i + m.length, m.distance)
             E == {n \in 0 .. m.length :
                     \A x \in 0 .. n : (x = 0 \/ x >= MatchMin) => Said(x)}
  <1>1. PICK l \in 1 .. Size - i, d \in 1 .. i : l = m.length /\ d = m.distance
    BY DEF IsMatch
  <1>2. /\ Size \in Nat /\ MatchMin \in Nat /\ MatchMin >= 3 /\ MatchMax \in Nat
        /\ 2 * MatchMin <= MatchMax + 1 /\ l \in Nat /\ i + l <= Size /\ d \in Nat
    BY SizeIsNat, QlzNumbers
  <1>3. Said(0)
    <2>1. rest[0] = << >> /\ << >> \in Seq(Byte) /\ Len(<< >>) = 0
      BY DEF RestIs
    <2>2. \A p \in Seq(Byte) : p \o << >> = p
      BY ConcatEmptySeq
    <2>3. i + m.length - 0 = i + m.length
      BY <1>1
    <2> QED
      BY <2>1, <2>2, <2>3
  <1>4. ASSUME NEW n \in 0 .. l - 1, n \in E, n + 1 >= MatchMin
        PROVE  Said(n + 1)
    <2>1. PICK x \in Nat : x = n + 1 /\ x \in 1 .. l
      BY <1>2
    <2>2. PICK part \in Nat : part = MatchPart(x)
      BY <2>1, MatchPartIs
    <2>3. PICK y : y = x - part
      OBVIOUS
    <2>4. /\ part \in 1 .. x /\ part <= MatchMax /\ part >= MatchMin
          /\ y = 0 \/ y >= MatchMin
          /\ part < MatchMax => y = 0 \/ (y = MatchMin /\ x > MatchMax)
      <3>1. x > 0 /\ x >= MatchMin
        BY <1>4, <2>1
      <3>2. /\ MatchPart(x) \in 1 .. x /\ MatchPart(x) <= MatchMax
            /\ MatchPart(x) >= MatchMin
            /\ x - MatchPart(x) = 0 \/ x - MatchPart(x) >= MatchMin
            /\ MatchPart(x) < MatchMax =>
                 MatchPart(x) = x \/ (x - MatchPart(x) = MatchMin /\ x > MatchMax)
        BY <3>1, MatchPartIs
      <3> QED
        BY <2>1, <2>2, <2>3, <3>2
    <2>5. y \in 0 .. n /\ y \in Nat
      BY <2>1, <2>3, <2>4
    <2>6. Said(y)
      BY <1>4, <2>4, <2>5
    <2>7. PICK s \in Seq(Byte) : s = rest[y]
      BY <2>6
    <2>8. PICK h \in Seq(Byte) : h = <<MatchControl(Continuation, part)>> /\ Len(h) = 1
      <3>1. PICK c \in Byte : c = MatchControl(Continuation, part)
        BY <2>4, MatchControlIs DEF Continuation
      <3>2. <<c>> \in Seq(Byte) /\ Len(<<c>>) = 1
        OBVIOUS
      <3> QED
        BY <3>1, <3>2
    <2>9. rest[x] = h \o s
      <3>1. rest[x] = <<MatchControl(Continuation, MatchPart(x))>> \o rest[x - MatchPart(x)]
        BY <1>1, <2>1 DEF RestIs
      <3> QED
        BY <2>2, <2>3, <2>7, <2>8, <3>1
    <2>10. rest[x] \in Seq(Byte) /\ Len(rest[x]) = 1 + Len(s)
      BY <2>8, <2>9, ConcatHolds
    <2>11. (Len(rest[x]) - 1) * MatchMax < x
      <3>1. PICK k \in Nat : k = Len(s)
        OBVIOUS
      <3>2. Len(rest[x]) - 1 = k
        BY <2>10, <3>1
      <3>3. /\ y = 0 => k = 0
            /\ y > 0 => (k - 1) * MatchMax < y
        BY <2>6, <2>7, <3>1
      <3>4. k * MatchMax < x
        <4>1. x >= MatchMin /\ y = x - MatchPart(x)
          BY <1>4, <2>1, <2>2, <2>3
        <4> QED
          BY <3>3, <4>1, OnePartMore
      <3> QED
        BY <3>2, <3>4
    <2>12. ASSUME NEW p \in Seq(Byte), Codes(p, i + m.length - x, m.distance)
           PROVE  Codes(p \o rest[x], i + m.length, m.distance)
      <3>1. PICK from \in Nat : from = i + m.length - x
        BY <1>1, <2>1
      <3>2. from >= i /\ from + part <= i + m.length /\ from + part = i + m.length - y
        <4>1. from = i + l - x /\ y = x - part /\ part <= x /\ x <= l
          BY <1>1, <2>1, <2>3, <2>4, <3>1
        <4>2. from >= i /\ from + part <= i + l /\ from + part = i + l - y
          BY <1>2, <2>1, <4>1
        <4> QED
          BY <1>1, <4>2
      <3>3. Packet(h, 0, from, m.distance, 1, from + part, m.distance)
        BY <2>4, <2>8, <3>2, ContinuationIs
      <3>4. PICK made2 \in Nat : made2 = from + part
        BY <3>2
      <3>5. Packet(h, 0, from, d, Len(h), made2, d)
        BY <1>1, <2>8, <3>3, <3>4
      <3>6. Codes(p, from, d)
        BY <1>1, <2>12, <3>1
      <3>7. Codes(p \o h, made2, d)
        BY <1>2, <3>5, <3>6, PacketAppended
      <3>8. PICK q \in Seq(Byte) : q = p \o h
        BY ConcatHolds
      <3>9. Codes(q, i + m.length - y, m.distance)
        BY <1>1, <3>2, <3>4, <3>7, <3>8
      <3>10. Codes(q \o s, i + m.length, m.distance)
        BY <2>6, <2>7, <3>9
      <3>11. (p \o h) \o s = p \o (h \o s)
        BY JoinedInTurn
      <3> QED
        BY <2>9, <3>8, <3>10, <3>11
    <2>13. x > 0 /\ x # 0
      BY <2>1
    <2> HIDE DEF E
    <2>14. Said(x)
      BY <2>10, <2>11, <2>12, <2>13
    <2> HIDE DEF Said
    <2> QED
      BY <2>1, <2>14
  <1> HIDE DEF Said
  <1>5. 0 \in E
    <2>1. 0 \in 0 .. m.length /\ \A x \in 0 .. 0 : x = 0
      BY <1>1
    <2> QED
      BY <1>3, <2>1
  <1>6. ASSUME NEW n \in 0 .. l - 1, n \in E
        PROVE  n + 1 \in E
    <2>1. n + 1 \in 0 .. m.length /\ \A x \in 0 .. n + 1 : x \in 0 .. n \/ x = n + 1
      BY <1>1
    <2>2. n + 1 # 0
      OBVIOUS
    <2>3. \A x \in 0 .. n : (x = 0 \/ x >= MatchMin) => Said(x)
      BY <1>6
    <2>4. n + 1 >= MatchMin => Said(n + 1)
      BY <1>4, <1>6
    <2> QED
      BY <2>1, <2>2, <2>3, <2>4
  <1> HIDE DEF E
  <1>7. 0 .. l \subseteq E
    BY <1>2, <1>5, <1>6, EveryNumberUpTo
  <1>8. Said(r)
    <2>1. l \in E /\ r \in 0 .. l
      BY <1>1, <1>2, <1>7
    <2> QED
      BY <2>1 DEF E
  <1> QED
    BY <1>8 DEF Said

(* qlz_write_match says the bytes of the match, in fewer bytes.            *)
LEMMA MatchSaid ==
  ASSUME AnyInput, NEW i \in Nat, i <= Size, NEW m, IsMatch(i, m), Worth(m),
         NEW p \in Seq(Byte), NEW d \in Nat, Codes(p, i, d)
  PROVE  /\ MatchPackets(m) \in Seq(Byte)
         /\ Len(MatchPackets(m)) < m.length
         /\ Codes(p \o MatchPackets(m), i + m.length, m.distance)
  <1>0. \A x, y \in Seq(Byte) : (p \o x) \o y = p \o (x \o y)
    BY JoinedInTurn
  <1>1. PICK l \in 1 .. Size - i, e \in 1 .. i : l = m.length /\ e = m.distance
    BY DEF IsMatch
  <1>2. /\ Size \in Nat /\ MatchMin \in Nat /\ MatchMin >= 3 /\ MatchMax \in Nat
        /\ 2 * MatchMin <= MatchMax + 1 /\ l \in Nat /\ l > 0 /\ i + l <= Size /\ e \in Nat
        /\ e > 0 /\ e <= MaxDistance
    BY <1>1, SizeIsNat, QlzNumbers DEF IsMatch
  <1>3. l >= MatchMin /\ Saving(m) > 0
    BY <1>1, <1>2 DEF Worth
  <1> DEFINE type == IF IsShort(m) THEN Short ELSE Long
  <1>4. PICK rest : /\ RestIs(rest, m.length)
                    /\ MatchPackets(m) = <<MatchControl(type, MatchPart(m.length))>>
                                           \o DistanceBytes(m) \o rest[m.length - MatchPart(m.length)]
    BY <1>1, <1>2, MatchPacketsAre
  <1>5. PICK part \in Nat, r \in Nat :
          /\ part = MatchPart(l) /\ part <= MatchMax /\ part >= MatchMin /\ r = l - part
          /\ part <= l /\ r \in 0 .. l /\ (r = 0 \/ r >= MatchMin)
    <2>1. /\ MatchPart(l) \in 1 .. l /\ MatchPart(l) <= MatchMax /\ MatchPart(l) >= MatchMin
          /\ l - MatchPart(l) = 0 \/ l - MatchPart(l) >= MatchMin
      BY <1>2, <1>3, MatchPartIs
    <2>2. PICK x \in 1 .. l : x = MatchPart(l)
      BY <2>1
    <2>3. x \in Nat /\ x <= l /\ l - x \in 0 .. l
      BY <1>2
    <2> QED
      BY <2>1, <2>2, <2>3
  <1>6. PICK s \in Seq(Byte) :
          /\ s = rest[r]
          /\ r = 0 => Len(s) = 0
          /\ r > 0 => (Len(s) - 1) * MatchMax < r
          /\ \A q \in Seq(Byte) : Codes(q, i + m.length - r, e) => Codes(q \o s, i + m.length, e)
    <2>1. r \in 0 .. m.length
      BY <1>1, <1>5
    <2> QED
      BY <1>1, <1>4, <1>5, <2>1, RestSaid
  <1>7. PICK c \in Byte :
          c = MatchControl(type, part) /\ TypeOf(c) = type /\ MatchLength(c) = part
    <2>1. type \in 0 .. 3
      BY DEF Short, Long
    <2> HIDE DEF type
    <2> QED
      BY <1>5, <2>1, MatchControlIs
  <1>8. PICK b \in Seq(Byte) :
          /\ b = DistanceBytes(m)
          /\ IsShort(m) => Len(b) = 1 /\ e = b[1] + 1
          /\ ~IsShort(m) => Len(b) = 2 /\ e = LongDistance(b[1], b[2])
    BY <1>1, <1>2, DistanceBytesAre
  <1>9. PICK h \in Seq(Byte) : h = <<c>> /\ Len(h) = 1 /\ h[1] = c
    <2>1. <<c>> \in Seq(Byte) /\ Len(<<c>>) = 1 /\ <<c>>[1] = c
      OBVIOUS
    <2> QED
      BY <2>1
  <1>10. PICK f \in Seq(Byte) : f = h \o b /\ Len(f) = 1 + Len(b)
                                 /\ Within(f, h, 0) /\ Within(f, b, 1)
    BY <1>9, ConcatHolds
  <1>11. MatchPackets(m) = f \o s
    BY <1>1, <1>4, <1>5, <1>6, <1>7, <1>8, <1>9, <1>10
  <1>12. MatchPackets(m) \in Seq(Byte) /\ Len(MatchPackets(m)) = 1 + Len(b) + Len(s)
    BY <1>10, <1>11, ConcatHolds
  <1>13. Packet(f, 0, i, d, Len(f), i + part, e)
    <2>1. f[0 + 1] = c
      BY <1>9, <1>10 DEF Within
    <2>2. Repeats(i, e, part)
      <3>1. i >= i /\ i + part <= i + m.length
        BY <1>1, <1>5
      <3> QED
        BY <1>1, <3>1, SomeRepeats
    <2>3. CASE IsShort(m)
      <3>1. Len(f) = 2 /\ f[0 + 2] = b[1] /\ type = Short /\ TypeOf(c) = Short
        <4>1. Len(b) = 1 /\ TypeOf(c) = Short
          BY <1>7, <1>8, <2>3
        <4>2. f[1 + 1] = b[1]
          BY <1>10, <4>1 DEF Within
        <4> QED
          BY <1>10, <2>3, <4>1, <4>2
      <3>2. MatchAt(f, 0, i, d, Len(f), i + part, e)
        BY <1>7, <1>8, <2>1, <2>2, <2>3, <3>1 DEF MatchAt
      <3> QED
        BY <3>1, <3>2 DEF Packet
    <2>4. CASE ~IsShort(m)
      <3>1. Len(f) = 3 /\ f[0 + 2] = b[1] /\ f[0 + 3] = b[2] /\ type = Long /\ TypeOf(c) = Long
        <4>1. Len(b) = 2 /\ TypeOf(c) = Long
          BY <1>7, <1>8, <2>4
        <4>2. f[1 + 1] = b[1] /\ f[1 + 2] = b[2]
          BY <1>10, <4>1 DEF Within
        <4> QED
          BY <1>10, <2>4, <4>1, <4>2
      <3>2. MatchAt(f, 0, i, d, Len(f), i + part, e)
        BY <1>7, <1>8, <2>1, <2>2, <2>4, <3>1 DEF MatchAt
      <3> QED
        BY <3>1, <3>2 DEF Packet
    <2> QED
      BY <2>3, <2>4
  <1>14. Codes(p \o MatchPackets(m), i + m.length, m.distance)
    <2>1. PICK made2 \in Nat : made2 = i + part /\ made2 = i + m.length - r
      <3>1. i + part \in Nat /\ i + part = i + l - r
        BY <1>2, <1>5
      <3> QED
        BY <1>1, <3>1
    <2>2. Packet(f, 0, i, d, Len(f), made2, e)
      BY <1>13, <2>1
    <2>3. Codes(p \o f, made2, e)
      BY <1>2, <2>2, PacketAppended
    <2>4. PICK q \in Seq(Byte) : q = p \o f
      BY ConcatHolds
    <2>5. Codes(q \o s, i + m.length, e)
      BY <1>6, <2>1, <2>3, <2>4
    <2>6. (p \o f) \o s = p \o (f \o s)
      BY <1>0
    <2> QED
      BY <1>1, <1>11, <2>4, <2>5, <2>6
  <1>15. Len(MatchPackets(m)) < m.length
    <2>0. Len(s) \in Nat /\ Len(b) \in Nat
      OBVIOUS
    <2>1. PICK k \in Nat, n \in Nat : k = Len(s) /\ n = Len(b)
      BY <2>0, Zenon
    <2>2. k * MatchMax < l
      <3>1. /\ r = l - MatchPart(l) /\ (r = 0 => k = 0) /\ (r > 0 => (k - 1) * MatchMax < r)
        BY <1>5, <1>6, <2>1
      <3> QED
        BY <1>2, <1>3, <3>1, OnePartMore
    <2>3. PICK t \in Nat : t = CeilDiv(l, MatchMax) /\ l <= t * MatchMax
      <3>1. l \in Nat /\ MatchMax \in Nat /\ MatchMax > 0
        BY <1>2
      <3>2. CeilDiv(l, MatchMax) \in Nat /\ l <= CeilDiv(l, MatchMax) * MatchMax
        BY <3>1, CeilDivIs
      <3> QED
        BY <3>2
    <2>4. k < t
      <3> SUFFICES ASSUME k >= t PROVE FALSE
        OBVIOUS
      <3>1. k * MatchMax >= t * MatchMax
        BY <1>2
      <3>2. k * MatchMax \in Int /\ t * MatchMax \in Int
        BY <1>2
      <3> QED
        BY <1>2, <2>2, <2>3, <3>1, <3>2
    <2>5. Saving(m) = l - n - t /\ n \in Nat
      <3>1. Saving(m) = l - (IF IsShort(m) THEN 1 ELSE 2) - t
        BY <1>1, <1>2, <1>3, <2>3 DEF Saving
      <3> QED
        <4>1. n = IF IsShort(m) THEN 1 ELSE 2
          BY <1>8, <2>1
        <4> QED
          BY <1>2, <3>1, <4>1
    <2>6. 1 + n + k < l
      BY <1>2, <1>3, <2>4, <2>5
    <2> QED
      BY <1>1, <1>12, <2>1, <2>6
  <1> QED
    BY <1>12, <1>14, <1>15
-----------------------------------------------------------------------------
(* The compressor's invariant: the chains are exact at every round, and    *)
(* what it has written says the input up to the literals it still keeps,   *)
(* in no more bytes than literals would take.                              *)
Affordable(p, made) ==
  \E extra \in Nat : extra * LiteralMax <= made /\ Len(p) <= made + extra

CompressInv ==
  /\ AnyInput
  /\ literal_start \in Nat /\ position \in Nat
  /\ literal_start <= position /\ position <= Size
  /\ compressed \in {"no", "yes", "out of memory"}
  /\ ChainsOf(heads, previous, position)
  /\ payload \in Seq(Byte)
  /\ compressed = "no" =>
       /\ \E d \in Nat : Codes(payload, literal_start, d)
       /\ Affordable(payload, literal_start)
  /\ compressed = "yes" => \E d \in Nat : Codes(payload, Size, d)
  /\ NeverExpands

(* The invariant holds of a compressor about to begin.                     *)
LEMMA CompressStarts ==
  ASSUME AnyInput, CompressInit
  PROVE  CompressInv
  <1>1. Size \in Nat /\ LiteralMax \in Nat /\ LiteralMax > 0 /\ HashCount \in Nat
    BY SizeIsNat, QlzNumbers
  <1>2. literal_start = 0 /\ position = 0 /\ payload = << >> /\ compressed = "no"
    BY DEF CompressInit
  <1>3. ChainsOf(heads, previous, 0)
    <2>1. \A h : PassedTo(0, h) = {}
      BY DEF PassedTo
    <2>2. \A h : Newest(PassedTo(0, h)) = -1
      BY <2>1 DEF Newest
    <2>3. \A i \in 0 .. Size - 1 : ~(i < 0)
      OBVIOUS
    <2> QED
      BY <2>2, <2>3 DEF CompressInit, ChainsOf
  <1>4. \E d \in Nat : Codes(payload, literal_start, d)
    <2>1. 0 \in Nat
      OBVIOUS
    <2> QED
      BY <1>2, <2>1, NothingCoded
  <1>5. Len(<< >>) = 0 /\ << >> \in Seq(Byte)
    OBVIOUS
  <1>6. Affordable(payload, literal_start)
    <2>1. 0 \in Nat /\ 0 * LiteralMax = 0
      BY <1>1
    <2> QED
      BY <1>2, <1>5, <2>1 DEF Affordable
  <1>7. NeverExpands
    <2>1. PICK c \in Nat : c = CeilDiv(Size, LiteralMax)
      BY <1>1, CeilDivIs
    <2> QED
      BY <1>1, <1>2, <1>5, <2>1 DEF NeverExpands
  <1> QED
    BY <1>1, <1>2, <1>3, <1>4, <1>5, <1>6, <1>7 DEF CompressInv

(* While the input stays, so does what is said of it.                      *)
LEMMA ChainsStay ==
  ASSUME input' = input, ChainsOf(heads', previous', position')
  PROVE  ChainsOf(heads, previous, position)'
  <1>1. Size' = Size /\ \A i : At(i)' = At(i)
    BY DEF Size, At
  <1>2. \A i : Hash(i)' = Hash(i)
    BY <1>1 DEF Hash
  <1>3. \A n, h : PassedTo(n, h)' = PassedTo(n, h)
    BY <1>1, <1>2 DEF PassedTo
  <1> QED
    BY <1>1, <1>2, <1>3 DEF ChainsOf

(* What a payload says depends on the input alone.                         *)
LEMMA SaidStays ==
  ASSUME input' = input, NEW p
  PROVE  \A packets, a, n, e : Track(p, packets, a, n, e) => Track(p, packets, a, n, e)'
  <1>1. Size' = Size /\ \A i : At(i)' = At(i)
    BY DEF Size, At
  <1>2. \A n, e, length : Repeats(n, e, length) => Repeats(n, e, length)'
    BY <1>1 DEF Repeats
  <1>3. \A a, n, a2, n2, d2 : LiteralAt(p, a, n, a2, n2, d2) => LiteralAt(p, a, n, a2, n2, d2)'
    BY <1>1 DEF LiteralAt
  <1>4. \A a, n, e, a2, n2, d2 : MatchAt(p, a, n, e, a2, n2, d2) => MatchAt(p, a, n, e, a2, n2, d2)'
    BY <1>2 DEF MatchAt
  <1>5. \A a, n, e, a2, n2, d2 : Packet(p, a, n, e, a2, n2, d2) => Packet(p, a, n, e, a2, n2, d2)'
    BY <1>3, <1>4 DEF Packet
  <1> QED
    BY <1>5 DEF Track

(* So does its track.                                                      *)
LEMMA TrackStays ==
  ASSUME input' = input, payload' = payload,
         NEW packets, NEW a, NEW n, NEW d, Track(payload, packets, a, n, d)
  PROVE  Track(payload, packets, a, n, d)'
  <1>1. PICK p : p = payload /\ p = payload'
    OBVIOUS
  <1>2. Track(p, packets, a, n, d)'
    BY <1>1, SaidStays
  <1> QED
    BY <1>1, <1>2

(* So does what it codes.                                                  *)
LEMMA CodesStay ==
  ASSUME input' = input, NEW p, NEW made, NEW d, Codes(p, made, d)
  PROVE  Codes(p, made, d)'
  BY SaidStays DEF Codes

(* Literals and a match after them cost no more than literals alone.       *)
LEMMA MatchAffordable ==
  ASSUME NEW p \in Seq(Byte), NEW q \in Seq(Byte), NEW made \in Nat, NEW literals \in Nat,
         NEW length \in Nat, NEW cost \in Nat, cost < length, Affordable(p, made),
         Len(q) = Len(p) + (literals + CeilDiv(literals, LiteralMax)) + cost
  PROVE  Affordable(q, made + literals + length)
  <1>1. LiteralMax \in Nat /\ LiteralMax > 0
    BY QlzNumbers
  <1>2. PICK extra \in Nat : extra * LiteralMax <= made /\ Len(p) <= made + extra
    BY DEF Affordable
  <1>3. PICK c \in Nat :
          /\ c = CeilDiv(literals, LiteralMax)
          /\ literals = 0 => c = 0
          /\ literals > 0 => c > 0 /\ (c - 1) * LiteralMax < literals
    BY <1>1, CeilDivIs
  <1>4. PICK lp \in Nat, lq \in Nat : lp = Len(p) /\ lq = Len(q) /\ lq = lp + (literals + c) + cost
    BY <1>3
  <1>5. CASE literals = 0
    <2>1. lq <= made + literals + length + extra
      <3>1. c = 0 /\ lp <= made + extra
        BY <1>2, <1>3, <1>4, <1>5
      <3>2. lq = lp + cost
        BY <1>4, <1>5, <3>1
      <3> QED
        BY <1>5, <3>1, <3>2
    <2>2. extra * LiteralMax <= made + literals + length
      <3>1. extra * LiteralMax \in Int
        BY <1>1
      <3> QED
        BY <1>2, <3>1
    <2> QED
      BY <1>4, <2>1, <2>2 DEF Affordable
  <1>6. CASE literals > 0
    <2>1. PICK more \in Nat : more = extra + (c - 1)
      BY <1>3, <1>6
    <2>2. lq <= made + literals + length + more
      BY <1>2, <1>4, <2>1
    <2>3. more * LiteralMax <= made + literals + length
      <3>1. PICK x \in Int, y \in Int : x = extra * LiteralMax /\ y = (c - 1) * LiteralMax
        BY <1>1
      <3>2. more * LiteralMax = x + y
        BY <1>1, <2>1, <3>1
      <3>3. x <= made /\ y < literals
        BY <1>2, <1>3, <1>6, <3>1
      <3> QED
        BY <3>1, <3>2, <3>3
    <2> QED
      BY <1>4, <2>2, <2>3 DEF Affordable
  <1> QED
    BY <1>5, <1>6

(* Nor do literals to the end of the input.                                *)
LEMMA RestAffordable ==
  ASSUME NEW p \in Seq(Byte), NEW made \in Nat, NEW literals \in Nat, Affordable(p, made)
  PROVE  Len(p) + (literals + CeilDiv(literals, LiteralMax))
           <= made + literals + CeilDiv(made + literals, LiteralMax)
  <1>1. LiteralMax \in Nat /\ LiteralMax > 0
    BY QlzNumbers
  <1>2. PICK extra \in Nat : extra * LiteralMax <= made /\ Len(p) <= made + extra
    BY DEF Affordable
  <1>3. PICK c \in Nat :
          /\ c = CeilDiv(literals, LiteralMax)
          /\ literals = 0 => c = 0
          /\ literals > 0 => c > 0 /\ (c - 1) * LiteralMax < literals
    BY <1>1, CeilDivIs
  <1>4. PICK total \in Nat : total = made + literals
    OBVIOUS
  <1>5. PICK t \in Nat : t = CeilDiv(total, LiteralMax) /\ total <= t * LiteralMax
    BY <1>1, CeilDivIs
  <1>6. extra + c <= t
    <2> SUFFICES ASSUME extra + c > t PROVE FALSE
      OBVIOUS
    <2>1. PICK x \in Int, z \in Int : x = extra * LiteralMax /\ z = t * LiteralMax
      BY <1>1
    <2>2. x <= made /\ total <= z
      BY <1>2, <1>5, <2>1
    <2>3. CASE literals = 0
      <3>1. extra >= t + 1
        BY <1>3, <2>3
      <3>2. extra * LiteralMax >= (t + 1) * LiteralMax
        BY <1>1, <3>1
      <3>3. (t + 1) * LiteralMax = z + LiteralMax
        BY <1>1, <2>1
      <3> QED
        BY <1>1, <1>4, <2>1, <2>2, <2>3, <3>2, <3>3
    <2>4. CASE literals > 0
      <3>1. PICK y \in Int : y = (c - 1) * LiteralMax /\ y < literals
        BY <1>1, <1>3, <2>4
      <3>2. (extra + (c - 1)) * LiteralMax = x + y
        BY <1>1, <2>1, <3>1
      <3>3. (extra + (c - 1)) * LiteralMax >= t * LiteralMax
        BY <1>1
      <3> QED
        BY <1>1, <1>4, <2>1, <2>2, <3>1, <3>2, <3>3
    <2> QED
      BY <2>3, <2>4
  <1>7. PICK l \in Nat : l = Len(p)
    OBVIOUS
  <1>8. l + (literals + c) <= total + t
    BY <1>2, <1>4, <1>6, <1>7
  <1> QED
    BY <1>3, <1>4, <1>5, <1>7, <1>8

(* Writing a match, the literals before it first, keeps the invariant.     *)
LEMMA WriteMatchKeeps ==
  ASSUME CompressInv, WriteMatch
  PROVE  CompressInv'
  <1> DEFINE match    == ChosenMatch(heads, previous, position)
             end      == position + match.length
             all      == InsertedAll(heads, previous, position, end)
             literals == position - literal_start
             said     == LiteralPackets(literal_start, literals)
             packets  == MatchPackets(match)
  <1>1. /\ compressed = "no" /\ position < Size /\ match # NoMatch
        /\ payload' = payload \o said \o packets
        /\ heads' = all[1] /\ previous' = all[2] /\ position' = end /\ literal_start' = end
        /\ input' = input /\ compressed' = compressed
    BY DEF WriteMatch, Compressing
  <1>2. /\ AnyInput /\ literal_start \in Nat /\ position \in Nat /\ literal_start <= position
        /\ ChainsOf(heads, previous, position) /\ payload \in Seq(Byte)
        /\ \E d \in Nat : Codes(payload, literal_start, d)
        /\ Affordable(payload, literal_start)
    BY <1>1 DEF CompressInv
  <1>3. Size \in Nat /\ LiteralMax \in Nat /\ LiteralMax > 0 /\ Size' = Size
    BY <1>1, <1>2, SizeIsNat, QlzNumbers DEF Size
  <1> HIDE DEF match
  <1>4. IsMatch(position, match) /\ Worth(match)
    BY <1>1, <1>2, ChosenIsMatch DEF match
  <1>5. PICK length \in 1 .. Size - position, distance \in 1 .. position :
          length = match.length /\ distance = match.distance
    BY <1>4 DEF IsMatch
  <1>6. literals \in Nat /\ literal_start + literals = position /\ length \in Nat
        /\ end = position + length /\ end \in position .. Size /\ end \in Nat
    BY <1>2, <1>3, <1>5
  <1> HIDE DEF literals, said, packets, all, end
  <1>7. PICK d \in Nat : Codes(payload, literal_start, d)
    BY <1>2
  <1>8. /\ said \in Seq(Byte) /\ Len(said) = literals + CeilDiv(literals, LiteralMax)
        /\ \E d2 \in Nat : Codes(payload \o said, literal_start + literals, d2)
    <2>1. literal_start + literals <= Size
      BY <1>1, <1>2, <1>3, <1>6
    <2> QED
      BY <1>2, <1>6, <1>7, <2>1, LiteralsSaid DEF said
  <1>9. PICK d2 \in Nat : Codes(payload \o said, position, d2)
    BY <1>6, <1>8
  <1>10. PICK p \in Seq(Byte) : p = payload \o said /\ Len(p) = Len(payload) + Len(said)
    BY <1>2, <1>8, ConcatHolds
  <1>11. /\ packets \in Seq(Byte) /\ Len(packets) < match.length
         /\ Codes(p \o packets, position + match.length, match.distance)
    <2>1. position <= Size /\ Codes(p, position, d2)
      BY <1>1, <1>2, <1>3, <1>9, <1>10
    <2> QED
      BY <1>2, <1>4, <2>1, MatchSaid DEF packets
  <1>12. PICK r \in Seq(Byte) : r = p \o packets /\ Len(r) = Len(p) + Len(packets)
    BY <1>11, ConcatHolds
  <1>13. payload' = r /\ Codes(r, end, distance)
    BY <1>1, <1>5, <1>6, <1>10, <1>11, <1>12
  <1>14. Affordable(r, end)
    <2>1. PICK cost \in Nat : cost = Len(packets)
      BY <1>11
    <2>2. cost < length /\ Len(r) = Len(payload) + (literals + CeilDiv(literals, LiteralMax)) + cost
      BY <1>5, <1>8, <1>10, <1>11, <1>12, <2>1
    <2>3. Affordable(r, literal_start + literals + length)
      BY <1>2, <1>6, <2>2, MatchAffordable
    <2> QED
      BY <1>6, <2>3
  <1>15. ChainsOf(all[1], all[2], end)
    BY <1>2, <1>6, AllInserted DEF all
  <1>16. Len(r) <= Size + CeilDiv(Size, LiteralMax)
    <2>1. PICK rest \in Nat : rest = Size - end /\ end + rest = Size
      BY <1>3, <1>6
    <2>2. Len(r) + (rest + CeilDiv(rest, LiteralMax)) <= end + rest + CeilDiv(end + rest, LiteralMax)
      BY <1>6, <1>14, RestAffordable
    <2>3. PICK c \in Nat, t \in Nat : c = CeilDiv(rest, LiteralMax) /\ t = CeilDiv(Size, LiteralMax)
      BY <1>3, CeilDivIs
    <2>4. Len(r) + (rest + c) <= Size + t
      BY <2>1, <2>2, <2>3
    <2>5. PICK l \in Nat : l = Len(r)
      OBVIOUS
    <2> QED
      BY <1>3, <2>3, <2>4, <2>5
  <1>17. AnyInput' /\ NeverExpands'
    <2>1. AnyInput'
      BY <1>1, <1>2 DEF AnyInput
    <2>2. CeilDiv(Size, LiteralMax)' = CeilDiv(Size, LiteralMax)
      BY <1>3 DEF CeilDiv, LiteralMax
    <2> QED
      BY <1>3, <1>13, <1>16, <2>1, <2>2 DEF NeverExpands
  <1>18. ChainsOf(heads, previous, position)'
    <2>1. ChainsOf(heads', previous', position')
      BY <1>1, <1>15
    <2> QED
      BY <1>1, <2>1, ChainsStay
  <1>19. (\E d3 \in Nat : Codes(payload, literal_start, d3))'
    <2>1. PICK made : made = end
      OBVIOUS
    <2>2. Codes(r, made, distance)'
      BY <1>1, <1>13, <2>1, CodesStay
    <2>3. distance \in Nat /\ payload' = r /\ literal_start' = made
      BY <1>1, <1>13, <2>1
    <2> QED
      BY <2>2, <2>3
  <1>20. Affordable(payload, literal_start)'
    BY <1>1, <1>13, <1>14 DEF Affordable, LiteralMax
  <1>21. /\ literal_start' \in Nat /\ position' \in Nat /\ literal_start' <= position'
         /\ position' <= Size' /\ payload' \in Seq(Byte)
    BY <1>1, <1>3, <1>6, <1>13
  <1> QED
    BY <1>1, <1>17, <1>18, <1>19, <1>20, <1>21 DEF CompressInv

(* Passing a literal keeps it.                                             *)
LEMMA PassLiteralKeeps ==
  ASSUME CompressInv, PassLiteral
  PROVE  CompressInv'
  <1> DEFINE inserted == Inserted(heads, previous, position)
  <1>1. /\ compressed = "no" /\ position < Size
        /\ heads' = inserted[1] /\ previous' = inserted[2] /\ position' = position + 1
        /\ input' = input /\ literal_start' = literal_start /\ payload' = payload
        /\ compressed' = compressed
    BY DEF PassLiteral, Compressing
  <1>2. /\ AnyInput /\ literal_start \in Nat /\ position \in Nat /\ literal_start <= position
        /\ ChainsOf(heads, previous, position) /\ payload \in Seq(Byte)
        /\ Affordable(payload, literal_start) /\ NeverExpands
    BY <1>1 DEF CompressInv
  <1>3. Size \in Nat /\ Size' = Size /\ AnyInput'
    BY <1>1, <1>2, SizeIsNat DEF Size, AnyInput
  <1>4. PICK d \in Nat : Codes(payload, literal_start, d)
    BY <1>1 DEF CompressInv
  <1>5. ChainsOf(heads, previous, position)'
    <2>1. ChainsOf(inserted[1], inserted[2], position + 1)
      BY <1>1, <1>2, InsertedKeeps
    <2> HIDE DEF inserted
    <2>2. ChainsOf(heads', previous', position')
      BY <1>1, <2>1
    <2> QED
      BY <1>1, <2>2, ChainsStay
  <1>6. (\E d2 \in Nat : Codes(payload, literal_start, d2))'
    <2>1. PICK p, made : p = payload /\ made = literal_start
      OBVIOUS
    <2>2. Codes(p, made, d)'
      BY <1>1, <1>4, <2>1, CodesStay
    <2>3. payload' = p /\ literal_start' = made
      BY <1>1, <2>1
    <2> QED
      BY <2>2, <2>3
  <1>7. NeverExpands'
    BY <1>1, <1>2, <1>3 DEF NeverExpands, CeilDiv, LiteralMax
  <1>8. Affordable(payload, literal_start)'
    BY <1>1, <1>2 DEF Affordable, LiteralMax
  <1>9. position' \in Nat /\ literal_start' <= position' /\ position' <= Size'
    BY <1>1, <1>2, <1>3
  <1> QED
    BY <1>1, <1>2, <1>3, <1>5, <1>6, <1>7, <1>8, <1>9 DEF CompressInv

(* Writing the last literals keeps it.                                     *)
LEMMA WriteRestKeeps ==
  ASSUME CompressInv, WriteRest
  PROVE  CompressInv'
  <1> DEFINE literals == Size - literal_start
             said     == LiteralPackets(literal_start, literals)
  <1>1. /\ compressed = "no" /\ payload' = payload \o said /\ compressed' = "yes"
        /\ input' = input /\ heads' = heads /\ previous' = previous /\ position' = position
        /\ literal_start' = literal_start
    BY DEF WriteRest, chains
  <1>2. /\ AnyInput /\ literal_start \in Nat /\ position \in Nat /\ literal_start <= position
        /\ position <= Size /\ ChainsOf(heads, previous, position) /\ payload \in Seq(Byte)
        /\ Affordable(payload, literal_start)
    BY <1>1 DEF CompressInv
  <1>3. Size \in Nat /\ Size' = Size /\ AnyInput'
    BY <1>1, <1>2, SizeIsNat DEF Size, AnyInput
  <1>4. PICK d \in Nat : Codes(payload, literal_start, d)
    BY <1>1 DEF CompressInv
  <1>5. literals \in Nat /\ literal_start + literals = Size
    BY <1>2, <1>3
  <1> HIDE DEF literals, said
  <1>6. /\ said \in Seq(Byte) /\ Len(said) = literals + CeilDiv(literals, LiteralMax)
        /\ \E d2 \in Nat : Codes(payload \o said, literal_start + literals, d2)
    <2>1. literal_start + literals <= Size
      BY <1>3, <1>5
    <2> QED
      BY <1>2, <1>4, <1>5, <2>1, LiteralsSaid DEF said
  <1>7. PICK r \in Seq(Byte) : r = payload \o said /\ Len(r) = Len(payload) + Len(said)
    BY <1>2, <1>6, ConcatHolds
  <1>8. PICK d2 \in Nat : Codes(r, Size, d2)
    BY <1>5, <1>6, <1>7
  <1>9. (\E d3 \in Nat : Codes(payload, Size, d3))'
    <2>1. PICK made : made = Size
      OBVIOUS
    <2>2. Codes(r, made, d2)'
      BY <1>1, <1>8, <2>1, CodesStay
    <2>3. payload' = r /\ Size' = made
      BY <1>1, <1>3, <1>7, <2>1
    <2> QED
      BY <2>2, <2>3
  <1>10. NeverExpands'
    <2>1. Len(payload) + (literals + CeilDiv(literals, LiteralMax))
            <= literal_start + literals + CeilDiv(literal_start + literals, LiteralMax)
      BY <1>2, <1>5, RestAffordable
    <2>2. Len(r) <= Size + CeilDiv(Size, LiteralMax)
      BY <1>5, <1>6, <1>7, <2>1
    <2>3. CeilDiv(Size, LiteralMax)' = CeilDiv(Size, LiteralMax)
      BY <1>3 DEF CeilDiv, LiteralMax
    <2> QED
      BY <1>1, <1>3, <1>7, <2>2, <2>3 DEF NeverExpands
  <1>11. ChainsOf(heads, previous, position)'
    <2>1. ChainsOf(heads', previous', position')
      BY <1>1, <1>2
    <2> QED
      BY <1>1, <2>1, ChainsStay
  <1>12. payload' \in Seq(Byte) /\ Byte' = Byte
    BY <1>1, <1>7
  <1> QED
    BY <1>1, <1>2, <1>3, <1>9, <1>10, <1>11, <1>12 DEF CompressInv

(* Running out of memory keeps it.                                         *)
LEMMA CompressOutOfMemoryKeeps ==
  ASSUME CompressInv, CompressOutOfMemory
  PROVE  CompressInv'
  <1>0. PICK none \in Seq(Byte) : none = << >> /\ Len(none) = 0
    <2>1. << >> \in Seq(Byte) /\ Len(<< >>) = 0
      OBVIOUS
    <2> QED
      BY <2>1
  <1>1. /\ payload' = none /\ compressed' = "out of memory"
        /\ input' = input /\ heads' = heads /\ previous' = previous /\ position' = position
        /\ literal_start' = literal_start
    BY <1>0 DEF CompressOutOfMemory, chains
  <1>2. /\ AnyInput /\ literal_start \in Nat /\ position \in Nat /\ literal_start <= position
        /\ position <= Size /\ ChainsOf(heads, previous, position)
    BY DEF CompressInv
  <1>3. Size \in Nat /\ Size' = Size /\ AnyInput'
    BY <1>1, <1>2, SizeIsNat DEF Size, AnyInput
  <1>4. ChainsOf(heads, previous, position)'
    <2>1. ChainsOf(heads', previous', position')
      BY <1>1, <1>2
    <2> QED
      BY <1>1, <2>1, ChainsStay
  <1>5. NeverExpands'
    <2>1. PICK c \in Nat : c = CeilDiv(Size, LiteralMax)
      BY <1>3, QlzNumbers, CeilDivIs
    <2>2. CeilDiv(Size, LiteralMax)' = CeilDiv(Size, LiteralMax)
      BY <1>3 DEF CeilDiv, LiteralMax
    <2>3. Len(none) <= Size + CeilDiv(Size, LiteralMax)
      BY <1>0, <1>3, <2>1
    <2> QED
      BY <1>1, <1>3, <2>2, <2>3 DEF NeverExpands
  <1>6. payload' \in Seq(Byte)
    BY <1>1
  <1> QED
    BY <1>1, <1>2, <1>3, <1>4, <1>5, <1>6 DEF CompressInv

(* A step that changes nothing of the compressor keeps it.                 *)
LEMMA CompressStays ==
  ASSUME CompressInv, UNCHANGED compressVars
  PROVE  CompressInv'
  <1>1. /\ payload' = payload /\ compressed' = compressed /\ position' = position
        /\ input' = input /\ heads' = heads /\ previous' = previous
        /\ literal_start' = literal_start
    BY DEF compressVars, chains
  <1>2. Size' = Size /\ AnyInput'
    BY <1>1 DEF Size, AnyInput, CompressInv
  <1>3. ChainsOf(heads, previous, position)'
    <2>1. ChainsOf(heads', previous', position')
      BY <1>1 DEF CompressInv
    <2> QED
      BY <1>1, <2>1, ChainsStay
  <1>4. ASSUME NEW d \in Nat, NEW made, Codes(payload, made, d)
        PROVE  Codes(payload, made, d)'
    <2>1. PICK p : p = payload
      OBVIOUS
    <2>2. Codes(p, made, d)'
      BY <1>1, <1>4, <2>1, CodesStay
    <2>3. payload' = p
      BY <1>1, <2>1
    <2> QED
      BY <2>2, <2>3
  <1>5. compressed' = "no" => (\E d \in Nat : Codes(payload, literal_start, d))'
    <2>1. PICK made : made = literal_start /\ made = literal_start'
      BY <1>1
    <2> QED
      BY <1>1, <1>4, <2>1 DEF CompressInv
  <1>6. compressed' = "yes" => (\E d \in Nat : Codes(payload, Size, d))'
    <2>1. PICK made : made = Size /\ made = Size'
      BY <1>2
    <2> QED
      BY <1>1, <1>4, <2>1 DEF CompressInv
  <1>7. NeverExpands'
    BY <1>1, <1>2 DEF NeverExpands, CeilDiv, LiteralMax, CompressInv
  <1>8. compressed' = "no" => Affordable(payload, literal_start)'
    BY <1>1 DEF Affordable, LiteralMax, CompressInv
  <1> QED
    BY <1>1, <1>2, <1>3, <1>5, <1>6, <1>7, <1>8 DEF CompressInv
-----------------------------------------------------------------------------
(* A match copied.                                                         *)
LEMMA RepeatIs ==
  ASSUME NEW out \in Seq(Byte), NEW distance \in 1 .. Len(out), NEW length \in Nat
  PROVE  /\ Repeat(out, distance, length) \in Seq(Byte)
         /\ Len(Repeat(out, distance, length)) = Len(out) + length
         /\ \A k \in 1 .. Len(out) : Repeat(out, distance, length)[k] = out[k]
         /\ \A k \in 1 .. length :
              Repeat(out, distance, length)[Len(out) + k]
                = out[Len(out) - distance + 1 + ((k - 1) % distance)]
  <1> DEFINE n == Len(out)
             from(k) == n - distance + 1 + ((k - 1) % distance)
             more == [k \in 1 .. length |-> out[from(k)]]
  <1>1. n \in Nat /\ distance \in 1 .. n
    OBVIOUS
  <1>2. Repeat(out, distance, length) = out \o more
    BY DEF Repeat
  <1>3. \A k \in 1 .. length : out[from(k)] \in Byte
    <2> SUFFICES ASSUME NEW k \in 1 .. length PROVE out[from(k)] \in Byte
      OBVIOUS
    <2>1. (k - 1) % distance \in 0 .. distance - 1
      OBVIOUS
    <2>2. PICK x \in 0 .. distance - 1 : x = (k - 1) % distance
      BY <2>1
    <2>3. n - distance + 1 + x \in 1 .. n
      BY <1>1
    <2>4. PICK y \in 1 .. Len(out) : y = from(k)
      BY <2>2, <2>3
    <2>5. out[y] \in Byte
      OBVIOUS
    <2> QED
      BY <2>4, <2>5
  <1> HIDE DEF from
  <1>4. more \in Seq(Byte) /\ Len(more) = length /\ \A k \in 1 .. length : more[k] = out[from(k)]
    BY <1>3, IsASeq
  <1> HIDE DEF more
  <1>5. PICK q \in Seq(Byte) : q = more
    BY <1>4
  <1>6. PICK r \in Seq(Byte) : r = out \o q
    BY ConcatHolds
  <1>7. Len(r) = n + length /\ Within(r, out, 0) /\ Within(r, q, n)
    BY <1>4, <1>5, <1>6, ConcatHolds
  <1>8. \A k \in 1 .. n : r[k] = out[k]
    <2>1. \A k \in 1 .. Len(out) : r[0 + k] = out[k]
      BY <1>7 DEF Within
    <2>2. \A k \in 1 .. Len(out) : 0 + k = k
      OBVIOUS
    <2> QED
      BY <2>1, <2>2
  <1>9. \A k \in 1 .. length : r[n + k] = out[from(k)]
    BY <1>4, <1>5, <1>7 DEF Within
  <1>10. Repeat(out, distance, length) = r
    BY <1>2, <1>5, <1>6
  <1> QED
    BY <1>7, <1>8, <1>9, <1>10 DEF from
-----------------------------------------------------------------------------
(* The decoder on any payload.                                             *)

(* The format the decoder reads is the one the compressor writes.          *)
LEMMA SameFormat ==
  /\ \A c : /\ Decoder!TypeOf(c) = TypeOf(c)
            /\ Decoder!LiteralLength(c) = LiteralLength(c)
            /\ Decoder!MatchLength(c) = MatchLength(c)
  /\ \A high, low : Decoder!LongDistance(high, low) = LongDistance(high, low)
  /\ \A out, distance, length : Decoder!Repeat(out, distance, length) = Repeat(out, distance, length)
  /\ Decoder!Literal = Literal /\ Decoder!Short = Short /\ Decoder!Long = Long
  /\ Decoder!Continuation = Continuation
  BY DEF Decoder!TypeOf, TypeOf, Decoder!LiteralLength, LiteralLength,
         Decoder!MatchLength, MatchLength, Decoder!LongDistance, LongDistance, ByteSpan,
         Decoder!ByteSpan, Decoder!Repeat, Repeat, Decoder!Literal, Literal, Decoder!Short, Short,
         Decoder!Long, Long, Decoder!Continuation, Continuation

(* The bytes the decoder looks at are bytes.                               *)
GivenStream(x) ==
  x \in Seq(Byte) /\ stream = Stream(x, Size) /\ DecodedSize = Size

DecoderTyped ==
  at \in Nat /\ D7 \in Nat /\ output \in Seq(Byte) /\ Decoder!InBounds

(* What the decoder sees of a payload it is given.                         *)
LEMMA GivenIs ==
  ASSUME AnyInput, NEW x, GivenStream(x), DecoderTyped
  PROVE  /\ x \in Seq(Byte) /\ Len(x) \in Nat /\ Len(output) \in Nat /\ Size \in Nat
         /\ stream.payload = x /\ stream.size = Size
         /\ Decoder!Left = Len(x) - at /\ Decoder!Room = Size - Len(output)
         /\ at <= Len(x) /\ Len(output) <= Size /\ D7 <= Len(output)
         /\ \A k \in 1 .. Decoder!Left : Decoder!ByteAt(k) = x[at + k] /\ x[at + k] \in Byte
  <1>1. x \in Seq(Byte) /\ stream.payload = x /\ stream.size = Size /\ DecodedSize = Size
    BY DEF GivenStream, Stream
  <1>2. at \in Nat /\ D7 \in Nat /\ output \in Seq(Byte)
    BY DEF DecoderTyped
  <1>3. Len(x) \in Nat /\ Len(output) \in Nat /\ Size \in Nat
    BY <1>1, <1>2, SizeIsNat
  <1>4. Decoder!Left = Len(x) - at /\ Decoder!Room = Size - Len(output)
    BY <1>1 DEF Decoder!Left, Decoder!Room
  <1>5. at <= Len(x) /\ Len(output) <= Size /\ D7 <= Len(output)
    BY <1>1 DEF DecoderTyped, Decoder!InBounds
  <1>6. ASSUME NEW k \in 1 .. Decoder!Left
        PROVE  Decoder!ByteAt(k) = x[at + k] /\ x[at + k] \in Byte
    <2>1. at + k \in 1 .. Len(x)
      BY <1>2, <1>3, <1>4
    <2> QED
      BY <1>1, <2>1 DEF Decoder!ByteAt
  <1> QED
    BY <1>1, <1>3, <1>4, <1>5, <1>6

(* A copy stays in bounds.                                                 *)
LEMMA CopyStaysIn ==
  ASSUME AnyInput, NEW x, GivenStream(x), DecoderTyped,
         UNCHANGED <<input, stream, DecodedSize>>,
         NEW distance \in Nat, distance > 0, NEW used \in Nat, used <= Decoder!Left,
         Decoder!Left > 0, Decoder!CopyMatch(distance, used)
  PROVE  DecoderTyped'
  <1>1. /\ x \in Seq(Byte) /\ Len(x) \in Nat /\ Len(output) \in Nat /\ Size \in Nat
        /\ Decoder!Left = Len(x) - at /\ Decoder!Room = Size - Len(output)
        /\ at <= Len(x) /\ Len(output) <= Size /\ D7 <= Len(output)
        /\ Decoder!ByteAt(1) \in Byte
    <2>1. Decoder!Left \in Int
      BY GivenIs DEF DecoderTyped
    <2>2. 1 \in 1 .. Decoder!Left
      BY <2>1
    <2>3. /\ x \in Seq(Byte) /\ Len(x) \in Nat /\ Len(output) \in Nat /\ Size \in Nat
          /\ Decoder!Left = Len(x) - at /\ Decoder!Room = Size - Len(output)
          /\ at <= Len(x) /\ Len(output) <= Size /\ D7 <= Len(output)
          /\ \A k \in 1 .. Decoder!Left : Decoder!ByteAt(k) = x[at + k] /\ x[at + k] \in Byte
      BY GivenIs
    <2> QED
      BY <2>2, <2>3
  <1>2. at \in Nat /\ D7 \in Nat /\ output \in Seq(Byte)
    BY DEF DecoderTyped
  <1>3. PICK length \in Nat : length = MatchLength(Decoder!ByteAt(1))
    BY <1>1, ControlIs
  <1>4. stream.payload = x /\ DecodedSize = Size
    BY DEF GivenStream, Stream
  <1>5. CASE distance <= Len(output) /\ length <= Decoder!Room
    <2>1. /\ output' = Repeat(output, distance, length) /\ at' = at + used /\ D7' = distance
      BY <1>3, <1>5, SameFormat DEF Decoder!CopyMatch
    <2>2. distance \in 1 .. Len(output)
      BY <1>1, <1>5
    <2>3. output' \in Seq(Byte) /\ Len(output') = Len(output) + length
      BY <1>2, <2>1, <2>2, RepeatIs
    <2>4. Len(output') <= DecodedSize' /\ at' \in Nat /\ D7' \in Nat /\ D7' <= Len(output')
      BY <1>1, <1>2, <1>4, <1>5, <2>1, <2>3
    <2>5. at' <= Len(stream'.payload)
      BY <1>1, <1>2, <1>4, <2>1
    <2> QED
      BY <2>3, <2>4, <2>5 DEF DecoderTyped, Decoder!InBounds
  <1>6. CASE ~(distance <= Len(output) /\ length <= Decoder!Room)
    <2>1. at' = at /\ output' = output /\ D7' = D7
      BY <1>3, <1>6, SameFormat DEF Decoder!CopyMatch, Decoder!Fails
    <2> QED
      BY <2>1 DEF DecoderTyped, Decoder!InBounds
  <1> QED
    BY <1>5, <1>6

(* The decoder does not change what it is given.                           *)
LEMMA DecoderGiven ==
  ASSUME Decoder!DecompressNext
  PROVE  UNCHANGED <<stream, DecodedSize>>
  BY DEF Decoder!DecompressNext, Decoder!Header, Decoder!Literals, Decoder!ShortMatch,
         Decoder!LongMatch, Decoder!Continue, Decoder!Truncated, Decoder!Complete,
         Decoder!CopyMatch, Decoder!Fails, Decoder!given

(* A literal packet stays in bounds.                                       *)
LEMMA LiteralsStayIn ==
  ASSUME AnyInput, NEW x, GivenStream(x), DecoderTyped,
         UNCHANGED <<input, stream, DecodedSize>>, Decoder!Literals
  PROVE  DecoderTyped'
  <1>1. /\ x \in Seq(Byte) /\ Len(x) \in Nat /\ Len(output) \in Nat /\ Size \in Nat
        /\ Decoder!Left = Len(x) - at /\ Decoder!Room = Size - Len(output)
        /\ at <= Len(x) /\ Len(output) <= Size /\ D7 <= Len(output)
        /\ stream.payload = x /\ DecodedSize = Size
        /\ \A k \in 1 .. Decoder!Left : Decoder!ByteAt(k) = x[at + k] /\ x[at + k] \in Byte
    BY GivenIs DEF GivenStream
  <1>2. at \in Nat /\ D7 \in Nat /\ output \in Seq(Byte)
    BY DEF DecoderTyped
  <1>3. Decoder!Left > 0
    BY DEF Decoder!Literals, Decoder!AtPacket
  <1>4. Decoder!ByteAt(1) \in Byte
    <2>1. 1 \in 1 .. Decoder!Left
      BY <1>1, <1>2, <1>3
    <2> QED
      BY <1>1, <2>1
  <1>5. PICK length \in Nat : length = LiteralLength(Decoder!ByteAt(1))
    BY <1>4, ControlIs
  <1>6. CASE length <= Decoder!Left - 1 /\ length <= Decoder!Room
    <2>1. /\ output' = output \o SubSeq(x, at + 2, at + 1 + length)
          /\ at' = at + 1 + length /\ D7' = 0
      BY <1>1, <1>5, <1>6, SameFormat DEF Decoder!Literals
    <2>2. PICK s \in Seq(Byte) :
            s = SubSeq(x, at + 2, at + 1 + length) /\ Len(s) = length
      <3>1. PICK f \in Nat, l \in Nat : f = at + 2 /\ l = at + 1 + length
        BY <1>2
      <3>2. \A i \in f .. l : x[i] \in Byte
        <4>1. \A i \in f .. l : i \in 1 .. Len(x)
          BY <1>1, <1>2, <1>6, <3>1
        <4> QED
          BY <1>1, <4>1
      <3>3. /\ SubSeq(x, f, l) \in Seq(Byte)
            /\ Len(SubSeq(x, f, l)) = IF f <= l THEN l - f + 1 ELSE 0
        BY <3>2, SubSeqProperties
      <3>4. (IF f <= l THEN l - f + 1 ELSE 0) = length
        BY <1>2, <3>1
      <3> QED
        BY <3>1, <3>3, <3>4
    <2>3. output' \in Seq(Byte) /\ Len(output') = Len(output) + length
      BY <1>2, <2>1, <2>2, ConcatHolds
    <2>4. PICK made \in Nat, room \in Nat, left \in Int :
            /\ made = Len(output) /\ room = Decoder!Room /\ left = Decoder!Left
            /\ room = Size - made /\ left = Len(x) - at
      <3>1. Size - Len(output) \in Nat /\ Len(x) - at \in Int
        BY <1>1, <1>2
      <3> QED
        BY <1>1, <3>1
    <2>5. length <= left - 1 /\ length <= room
      BY <1>6, <2>4
    <2>6. made + length <= Size /\ made + length \in Nat
          /\ at + 1 + length <= Len(x) /\ at + 1 + length \in Nat
      BY <1>1, <1>2, <2>4, <2>5
    <2>7. DecodedSize' = Size /\ stream'.payload = x
      BY <1>1
    <2>8. Len(output') <= DecodedSize' /\ at' \in Nat /\ D7' \in Nat /\ D7' <= Len(output')
      BY <2>1, <2>3, <2>4, <2>6, <2>7
    <2>9. at' <= Len(stream'.payload)
      BY <2>1, <2>6, <2>7
    <2> QED
      BY <2>3, <2>8, <2>9 DEF DecoderTyped, Decoder!InBounds
  <1>7. CASE ~(length <= Decoder!Left - 1 /\ length <= Decoder!Room)
    <2>1. at' = at /\ output' = output /\ D7' = D7
      BY <1>5, <1>7, SameFormat DEF Decoder!Literals, Decoder!Fails
    <2> QED
      BY <2>1 DEF DecoderTyped, Decoder!InBounds
  <1> QED
    BY <1>6, <1>7

(* Whatever packet it meets, the decoder stays in bounds.                  *)
LEMMA DecoderStaysIn ==
  ASSUME AnyInput, NEW x, GivenStream(x), DecoderTyped, UNCHANGED input, Decoder!DecompressNext
  PROVE  DecoderTyped'
  <1>1. UNCHANGED <<input, stream, DecodedSize>>
    BY DecoderGiven
  <1>2. /\ Decoder!Left = Len(x) - at /\ Len(x) \in Nat /\ at \in Nat /\ D7 \in Nat
        /\ \A k \in 1 .. Decoder!Left : Decoder!ByteAt(k) \in Byte
    BY GivenIs DEF DecoderTyped
  <1>3. Decoder!Left \in Int
    BY <1>2
  <1>4. ASSUME UNCHANGED <<at, output, D7>>
        PROVE  DecoderTyped'
    BY <1>1, <1>4 DEF DecoderTyped, Decoder!InBounds
  <1>5. ASSUME Decoder!Fails PROVE DecoderTyped'
    BY <1>4, <1>5 DEF Decoder!Fails
  <1>6. CASE Decoder!Header
    BY <1>4, <1>5, <1>6 DEF Decoder!Header
  <1>7. CASE Decoder!Literals
    BY <1>1, <1>7, LiteralsStayIn
  <1>8. CASE Decoder!ShortMatch
    <2>1. Decoder!Left > 0
      BY <1>8 DEF Decoder!ShortMatch, Decoder!AtPacket
    <2>2. CASE Decoder!Left >= 2
      <3>1. 2 \in 1 .. Decoder!Left
        BY <1>3, <2>2
      <3>2. PICK b \in Nat : b = Decoder!ByteAt(2)
        BY <1>2, <3>1, QlzNumbers DEF Byte
      <3>3. PICK distance \in Nat : distance = b + 1 /\ distance > 0
        OBVIOUS
      <3>4. Decoder!CopyMatch(distance, 2)
        BY <1>8, <2>2, <3>2, <3>3 DEF Decoder!ShortMatch
      <3>5. 2 \in Nat /\ 2 <= Decoder!Left
        BY <1>3, <2>2
      <3> QED
        BY <1>1, <2>1, <3>3, <3>4, <3>5, CopyStaysIn
    <2>3. CASE ~(Decoder!Left >= 2)
      BY <1>5, <1>8, <2>3 DEF Decoder!ShortMatch
    <2> QED
      BY <2>2, <2>3
  <1>9. CASE Decoder!LongMatch
    <2>1. Decoder!Left > 0
      BY <1>9 DEF Decoder!LongMatch, Decoder!AtPacket
    <2>2. CASE Decoder!Left >= 3 /\ LongDistance(Decoder!ByteAt(2), Decoder!ByteAt(3)) # 0
      <3>1. 2 \in 1 .. Decoder!Left /\ 3 \in 1 .. Decoder!Left
        BY <1>3, <2>2
      <3>2. PICK h \in Nat, l \in Nat : h = Decoder!ByteAt(2) /\ l = Decoder!ByteAt(3)
        BY <1>2, <3>1, QlzNumbers DEF Byte
      <3>3. PICK distance \in Nat : distance = LongDistance(h, l) /\ distance > 0
        <4>1. h * ByteSpan + l \in Nat
          BY QlzNumbers
        <4>2. LongDistance(h, l) \in Nat /\ LongDistance(h, l) # 0
          BY <2>2, <3>2, <4>1 DEF LongDistance
        <4> QED
          BY <4>2
      <3>4. Decoder!CopyMatch(distance, 3)
        BY <1>9, <2>2, <3>2, <3>3, SameFormat DEF Decoder!LongMatch
      <3>5. 3 \in Nat /\ 3 <= Decoder!Left
        BY <1>3, <2>2
      <3> QED
        BY <1>1, <2>1, <3>3, <3>4, <3>5, CopyStaysIn
    <2>3. CASE ~(Decoder!Left >= 3 /\ LongDistance(Decoder!ByteAt(2), Decoder!ByteAt(3)) # 0)
      BY <1>5, <1>9, <2>3, SameFormat DEF Decoder!LongMatch
    <2> QED
      BY <2>2, <2>3
  <1>10. CASE Decoder!Continue
    <2>1. Decoder!Left > 0
      BY <1>10 DEF Decoder!Continue, Decoder!AtPacket
    <2>2. CASE D7 # 0
      <3>1. Decoder!CopyMatch(D7, 1)
        BY <1>10, <2>2 DEF Decoder!Continue
      <3>2. PICK distance \in Nat : distance = D7 /\ distance > 0
        BY <1>2, <2>2
      <3>3. Decoder!CopyMatch(distance, 1)
        BY <3>1, <3>2
      <3>4. 1 \in Nat /\ 1 <= Decoder!Left
        BY <1>3, <2>1
      <3> QED
        BY <1>1, <2>1, <3>2, <3>3, <3>4, CopyStaysIn
    <2>3. CASE ~(D7 # 0)
      BY <1>5, <1>10, <2>3 DEF Decoder!Continue
    <2> QED
      BY <2>2, <2>3
  <1>11. CASE Decoder!Truncated
    BY <1>5, <1>11 DEF Decoder!Truncated
  <1>12. CASE Decoder!Complete
    BY <1>4, <1>5, <1>12 DEF Decoder!Complete
  <1> QED
    BY <1>6, <1>7, <1>8, <1>9, <1>10, <1>11, <1>12 DEF Decoder!DecompressNext
-----------------------------------------------------------------------------
(* The decoder on what the compressor wrote.                               *)

(* The rest of a number, by taking the divisor off.                        *)
LEMMA ModIs ==
  ASSUME NEW x \in Nat, NEW d \in Nat, d > 0
  PROVE  /\ x < d => x % d = x
         /\ x >= d => (x - d) % d = x % d
  <1>1. PICK q \in Int, r \in 0 .. d - 1 : r = x % d /\ x = d * q + r
    BY DivModIs
  <1>2. ASSUME x < d PROVE x % d = x
    <2>1. d * q + r = d * 0 + x /\ x \in 0 .. d - 1 /\ 0 \in Int
      BY <1>1, <1>2
    <2> QED
      BY <1>1, <2>1, RemainderIs
  <1>3. ASSUME x >= d PROVE (x - d) % d = x % d
    <2>1. PICK y \in Nat : y = x - d
      BY <1>3
    <2>2. PICK q2 \in Int, r2 \in 0 .. d - 1 : r2 = y % d /\ y = d * q2 + r2
      BY DivModIs
    <2>3. PICK s \in Int : s = q2 + 1
      OBVIOUS
    <2>4. d * s + r2 = d * q + r
      <3>1. d * s = d * q2 + d
        BY <2>3
      <3>2. PICK a \in Int, b \in Int : a = d * q2 /\ b = d * q
        OBVIOUS
      <3> QED
        BY <1>1, <2>1, <2>2, <3>1, <3>2
    <2>5. r = r2
      BY <2>4, RemainderIs
    <2> QED
      BY <1>1, <2>1, <2>2, <2>5
  <1> QED
    BY <1>2, <1>3

(* What repeats the bytes before it repeats the first of them in a circle. *)
LEMMA RepeatsInCircle ==
  ASSUME AnyInput, NEW n \in Nat, NEW d \in Nat, NEW length \in Nat, Repeats(n, d, length),
         NEW x \in 0 .. length - 1
  PROVE  At(n + x) = At(n - d + (x % d))
  <1>1. d \in 1 .. n /\ \A k \in 0 .. length - 1 : At(n - d + k) = At(n + k)
    BY DEF Repeats
  <1> DEFINE P(y) == At(n + y) = At(n - d + (y % d))
             E == {m \in 0 .. length : \A y \in 0 .. length - 1 : y < m => P(y)}
  <1>2. ASSUME NEW y \in 0 .. length - 1, \A z \in 0 .. length - 1 : z < y => P(z)
        PROVE  P(y)
    <2>1. CASE y < d
      <3>1. y % d = y
        BY <1>1, <2>1, ModIs
      <3> QED
        BY <1>1, <3>1
    <2>2. CASE ~(y < d)
      <3>1. PICK z \in 0 .. length - 1 : z = y - d /\ z < y
        BY <1>1, <2>2
      <3>2. z % d = y % d
        BY <1>1, <2>2, <3>1, ModIs
      <3>3. At(n + z) = At(n - d + (z % d))
        BY <1>2, <3>1
      <3>4. At(n - d + y) = At(n + y) /\ n - d + y = n + z
        BY <1>1, <3>1
      <3> QED
        BY <3>2, <3>3, <3>4
    <2> QED
      BY <2>1, <2>2
  <1> HIDE DEF P
  <1>3. 0 \in E
    OBVIOUS
  <1>4. ASSUME NEW m \in 0 .. length - 1, m \in E
        PROVE  m + 1 \in E
    <2>1. P(m)
      BY <1>2, <1>4
    <2>2. \A y \in 0 .. length - 1 : y < m + 1 => y < m \/ y = m
      OBVIOUS
    <2>3. m + 1 \in 0 .. length
      OBVIOUS
    <2> QED
      BY <1>4, <2>1, <2>2, <2>3
  <1> HIDE DEF E
  <1>5. 0 .. length \subseteq E
    BY <1>3, <1>4, EveryNumberUpTo
  <1>6. length \in E
    BY <1>5
  <1>7. P(x)
    BY <1>6 DEF E
  <1> QED
    BY <1>7 DEF P

(* The bytes decoded are those of the input.                               *)
Decoded(out, n) ==
  out \in Seq(Byte) /\ Len(out) = n /\ \A k \in 1 .. n : out[k] = input[k]

(* A match that repeats the input makes more of the input.                 *)
LEMMA CopyDecodes ==
  ASSUME AnyInput, NEW n \in Nat, NEW out, Decoded(out, n), NEW d \in Nat, NEW length \in Nat,
         Repeats(n, d, length)
  PROVE  Decoded(Repeat(out, d, length), n + length)
  <1>1. out \in Seq(Byte) /\ Len(out) = n /\ \A k \in 1 .. n : out[k] = input[k]
    BY DEF Decoded
  <1>2. d \in 1 .. n
    BY DEF Repeats
  <1>3. PICK r : r = Repeat(out, d, length)
    OBVIOUS
  <1>4. /\ r \in Seq(Byte) /\ Len(r) = n + length
        /\ \A k \in 1 .. n : r[k] = out[k]
        /\ \A k \in 1 .. length : r[n + k] = out[n - d + 1 + ((k - 1) % d)]
    BY <1>1, <1>2, <1>3, RepeatIs
  <1>5. ASSUME NEW k \in 1 .. n + length
        PROVE  r[k] = input[k]
    <2>1. CASE k <= n
      BY <1>1, <1>4, <2>1
    <2>2. CASE k > n
      <3>1. PICK j \in 1 .. length, x \in 0 .. length - 1 : j = k - n /\ x = j - 1
        BY <2>2
      <3>2. PICK y \in 0 .. d - 1 : y = x % d
        BY <1>2
      <3>3. r[k] = out[n - d + 1 + y]
        <4>1. r[n + j] = out[n - d + 1 + ((j - 1) % d)] /\ n + j = k
          <5>1. n + j = k /\ j - 1 = x
            BY <3>1
          <5>2. r[n + j] = out[n - d + 1 + ((j - 1) % d)]
            BY <1>4
          <5> QED
            BY <5>1, <5>2
        <4> QED
          BY <3>1, <3>2, <4>1
      <3>4. PICK z \in 1 .. n : z = n - d + 1 + y /\ z = n - d + y + 1
        BY <1>2
      <3>5. r[k] = input[z]
        BY <1>1, <3>3, <3>4
      <3>6. At(n + x) = At(n - d + y)
        BY <3>2, RepeatsInCircle
      <3>7. At(n - d + y) = input[z]
        BY <3>4 DEF At
      <3>8. At(n + x) = input[k]
        <4>1. n + x + 1 = k
          BY <3>1
        <4> QED
          BY <4>1 DEF At
      <3> QED
        BY <3>5, <3>6, <3>7, <3>8
    <2> QED
      BY <2>1, <2>2
  <1> QED
    BY <1>3, <1>4, <1>5 DEF Decoded

(* So do literals that are the input's.                                    *)
LEMMA LiteralsDecode ==
  ASSUME AnyInput, NEW n \in Nat, NEW out, Decoded(out, n), NEW x \in Seq(Byte),
         NEW a \in Nat, NEW length \in Nat, a + 1 + length <= Len(x),
         \A k \in 1 .. length : x[a + 1 + k] = input[n + k]
  PROVE  Decoded(out \o SubSeq(x, a + 2, a + 1 + length), n + length)
  <1>1. out \in Seq(Byte) /\ Len(out) = n /\ \A k \in 1 .. n : out[k] = input[k]
    BY DEF Decoded
  <1>2. PICK f \in Nat, l \in Nat : f = a + 2 /\ l = a + 1 + length
    OBVIOUS
  <1>3. PICK s \in Seq(Byte) :
          /\ s = SubSeq(x, a + 2, a + 1 + length) /\ Len(s) = length
          /\ \A k \in 1 .. length : s[k] = input[n + k]
    <2>1. \A i \in f .. l : x[i] \in Byte
      <3>1. \A i \in f .. l : i \in 1 .. Len(x)
        BY <1>2
      <3> QED
        BY <3>1
    <2>2. /\ SubSeq(x, f, l) \in Seq(Byte)
          /\ Len(SubSeq(x, f, l)) = IF f <= l THEN l - f + 1 ELSE 0
          /\ \A i \in 1 .. l - f + 1 : SubSeq(x, f, l)[i] = x[f + i - 1]
      BY <2>1, SubSeqProperties
    <2>3. (IF f <= l THEN l - f + 1 ELSE 0) = length /\ l - f + 1 = length
      BY <1>2
    <2>4. \A k \in 1 .. length : f + k - 1 = a + 1 + k
      BY <1>2
    <2>5. \A k \in 1 .. length : SubSeq(x, f, l)[k] = input[n + k]
      BY <2>2, <2>3, <2>4
    <2>6. PICK s \in Seq(Byte) : s = SubSeq(x, f, l)
      BY <2>2
    <2>7. s = SubSeq(x, a + 2, a + 1 + length) /\ Len(s) = length
      BY <1>2, <2>2, <2>3, <2>6
    <2> QED
      BY <2>5, <2>6, <2>7
  <1>4. PICK r \in Seq(Byte) : r = out \o s
    BY <1>1, ConcatHolds
  <1>5. Len(r) = n + length /\ Within(r, out, 0) /\ Within(r, s, n)
    <2>1. Len(out \o s) = Len(out) + Len(s) /\ Within(out \o s, out, 0)
          /\ Within(out \o s, s, Len(out))
      BY <1>1, ConcatHolds
    <2> QED
      BY <1>1, <1>3, <1>4, <2>1
  <1>6. ASSUME NEW k \in 1 .. n + length
        PROVE  r[k] = input[k]
    <2>1. CASE k <= n
      <3>1. k \in 1 .. Len(out) /\ 0 + k = k
        BY <1>1, <2>1
      <3> QED
        BY <1>1, <1>5, <3>1 DEF Within
    <2>2. CASE k > n
      <3>1. PICK j \in 1 .. length : j = k - n /\ n + j = k
        BY <2>2
      <3>2. r[n + j] = s[j] /\ s[j] = input[n + j]
        BY <1>3, <1>5 DEF Within
      <3> QED
        BY <3>1, <3>2
    <2> QED
      BY <2>1, <2>2
  <1> QED
    BY <1>3, <1>4, <1>5, <1>6 DEF Decoded
-----------------------------------------------------------------------------
(* At a packet of the compressor's, the decoder makes what the packet says.*)
LEMMA DecodesOne ==
  ASSUME AnyInput, NEW x, GivenStream(x), DecoderTyped, outcome = "decoding",
         NEW n \in Nat, Decoded(output, n), NEW a2 \in Nat, NEW n2 \in Nat, NEW d2 \in Nat,
         Packet(x, at, n, D7, a2, n2, d2), Decoder!DecompressNext
  PROVE  outcome' = "decoding" /\ at' = a2 /\ D7' = d2 /\ Decoded(output', n2)
  <1>1. /\ x \in Seq(Byte) /\ Len(x) \in Nat /\ Size \in Nat /\ stream.payload = x
        /\ Decoder!Left = Len(x) - at /\ Decoder!Room = Size - Len(output)
        /\ \A k \in 1 .. Decoder!Left : Decoder!ByteAt(k) = x[at + k] /\ x[at + k] \in Byte
    BY GivenIs
  <1>2. at \in Nat /\ at < Len(x) /\ a2 <= Len(x) /\ Len(output) = n /\ D7 \in Nat
    BY DEF Packet, Decoded, DecoderTyped
  <1>3. Decoder!Left \in Int /\ Decoder!Left > 0 /\ Decoder!Room = Size - n
    BY <1>1, <1>2
  <1>4. PICK c \in Byte : c = Decoder!ByteAt(1) /\ c = x[at + 1]
    <2>1. 1 \in 1 .. Decoder!Left
      BY <1>3
    <2> QED
      BY <1>1, <2>1
  <1>5. PICK literal \in Nat, match \in Nat :
          /\ literal = LiteralLength(c) /\ literal > 0
          /\ match = MatchLength(c) /\ match > 0
    BY ControlIs
  <1>6. \/ /\ TypeOf(c) = Literal
           /\ a2 = at + 1 + literal /\ n2 = n + literal /\ n2 <= Size /\ d2 = 0
           /\ \A k \in 1 .. literal : x[at + 1 + k] = input[n + k]
        \/ /\ n2 = n + match /\ Repeats(n, d2, match)
           /\ \/ TypeOf(c) = Short /\ a2 = at + 2 /\ d2 = x[at + 2] + 1
              \/ TypeOf(c) = Long /\ a2 = at + 3 /\ d2 = LongDistance(x[at + 2], x[at + 3])
              \/ TypeOf(c) = Continuation /\ a2 = at + 1 /\ d2 = D7
    BY <1>4, <1>5 DEF Packet, LiteralAt, MatchAt
  <1>7. n2 > n /\ n2 <= Size
    BY <1>5, <1>6 DEF Repeats
  <1>8. Decoder!Room # 0 /\ Decoder!Room \in Int
    BY <1>1, <1>3, <1>7
  (* A copy of what the packet says.                                       *)
  <1>9. ASSUME NEW used \in Nat, Decoder!CopyMatch(d2, used), a2 = at + used,
               n2 = n + match, Repeats(n, d2, match)
        PROVE  outcome' = "decoding" /\ at' = a2 /\ D7' = d2 /\ Decoded(output', n2)
    <2>1. d2 <= Len(output) /\ match <= Decoder!Room
      BY <1>1, <1>2, <1>3, <1>7, <1>9 DEF Repeats
    <2>2. Decoder!MatchLength(Decoder!ByteAt(1)) = match
      BY <1>4, <1>5, SameFormat
    <2>3. /\ output' = Repeat(output, d2, match) /\ at' = at + used /\ D7' = d2
          /\ outcome' = outcome
      BY <1>9, <2>1, <2>2, SameFormat DEF Decoder!CopyMatch
    <2>4. Decoded(Repeat(output, d2, match), n + match)
      BY <1>9, CopyDecodes
    <2> QED
      BY <1>9, <2>3, <2>4
  <1>10. CASE Decoder!Header
    BY <1>10 DEF Decoder!Header
  <1>11. CASE Decoder!Literals
    <2>1. TypeOf(c) = Literal
      BY <1>4, <1>11, SameFormat DEF Decoder!Literals, Decoder!AtPacket
    <2>2. /\ a2 = at + 1 + literal /\ n2 = n + literal /\ d2 = 0
          /\ \A k \in 1 .. literal : x[at + 1 + k] = input[n + k]
      BY <1>6, <2>1 DEF Literal, Short, Long, Continuation
    <2>3. literal <= Decoder!Left - 1 /\ literal <= Decoder!Room
      BY <1>1, <1>2, <1>3, <1>7, <2>2
    <2>4. Decoder!LiteralLength(Decoder!ByteAt(1)) = literal
      BY <1>4, <1>5, SameFormat
    <2>5. /\ output' = output \o SubSeq(x, at + 2, at + 1 + literal)
          /\ at' = at + 1 + literal /\ D7' = 0 /\ outcome' = outcome
      BY <1>1, <1>11, <2>3, <2>4 DEF Decoder!Literals
    <2>6. Decoded(output \o SubSeq(x, at + 2, at + 1 + literal), n + literal)
      BY <1>1, <1>2, <2>2, LiteralsDecode
    <2> QED
      BY <2>2, <2>5, <2>6
  <1>12. CASE Decoder!ShortMatch
    <2>1. TypeOf(c) = Short
      BY <1>4, <1>12, SameFormat DEF Decoder!ShortMatch, Decoder!AtPacket
    <2>2. n2 = n + match /\ Repeats(n, d2, match) /\ a2 = at + 2 /\ d2 = x[at + 2] + 1
      BY <1>6, <2>1 DEF Literal, Short, Long, Continuation
    <2>3. Decoder!Left >= 2 /\ 2 \in 1 .. Decoder!Left
      BY <1>1, <1>2, <1>3, <2>2
    <2>4. Decoder!ByteAt(2) + 1 = d2
      BY <1>1, <2>2, <2>3
    <2>5. Decoder!CopyMatch(d2, 2)
      BY <1>12, <2>3, <2>4 DEF Decoder!ShortMatch
    <2>6. 2 \in Nat
      OBVIOUS
    <2> QED
      BY <1>9, <2>2, <2>5, <2>6
  <1>13. CASE Decoder!LongMatch
    <2>1. TypeOf(c) = Long
      BY <1>4, <1>13, SameFormat DEF Decoder!LongMatch, Decoder!AtPacket
    <2>2. /\ n2 = n + match /\ Repeats(n, d2, match) /\ a2 = at + 3
          /\ d2 = LongDistance(x[at + 2], x[at + 3])
      BY <1>6, <2>1 DEF Literal, Short, Long, Continuation
    <2>3. Decoder!Left >= 3 /\ 2 \in 1 .. Decoder!Left /\ 3 \in 1 .. Decoder!Left
      BY <1>1, <1>2, <1>3, <2>2
    <2>4. Decoder!LongDistance(Decoder!ByteAt(2), Decoder!ByteAt(3)) = d2
      BY <1>1, <2>2, <2>3, SameFormat
    <2>5. d2 # 0
      BY <2>2 DEF Repeats
    <2>6. Decoder!CopyMatch(d2, 3)
      BY <1>13, <2>3, <2>4, <2>5 DEF Decoder!LongMatch
    <2>7. 3 \in Nat
      OBVIOUS
    <2> QED
      BY <1>9, <2>2, <2>6, <2>7
  <1>14. CASE Decoder!Continue
    <2>1. TypeOf(c) = Continuation
      BY <1>4, <1>14, SameFormat DEF Decoder!Continue, Decoder!AtPacket
    <2>2. n2 = n + match /\ Repeats(n, d2, match) /\ a2 = at + 1 /\ d2 = D7
      BY <1>6, <2>1 DEF Literal, Short, Long, Continuation
    <2>3. d2 # 0
      BY <2>2 DEF Repeats
    <2>4. Decoder!CopyMatch(D7, 1)
      BY <1>14, <2>2, <2>3 DEF Decoder!Continue
    <2>5. Decoder!CopyMatch(d2, 1) /\ 1 \in Nat
      BY <2>2, <2>4
    <2> QED
      BY <1>9, <2>2, <2>5
  <1>15. CASE Decoder!Truncated
    BY <1>3, <1>15 DEF Decoder!Truncated
  <1>16. CASE Decoder!Complete
    BY <1>8, <1>16 DEF Decoder!Complete
  <1> QED
    BY <1>10, <1>11, <1>12, <1>13, <1>14, <1>15, <1>16 DEF Decoder!DecompressNext
-----------------------------------------------------------------------------
(* The decoder has come to a packet of the payload, with the bytes that    *)
(* are before it.                                                          *)
Follows(packets, a, n, d, j) ==
  /\ Track(payload, packets, a, n, d) /\ n[packets] = Size
  /\ j \in 0 .. packets
  /\ at = a[j] /\ D7 = d[j] /\ Decoded(output, n[j])

IntactInv ==
  loaded = "intact" =>
    /\ GivenStream(payload)
    /\ outcome \in {"header", "decoding", "decoded"}
    /\ outcome = "decoded" => Len(output) = Size
    /\ \E packets, a, n, d, j : Follows(packets, a, n, d, j)

LoadInv ==
  /\ loaded \in {"no", "intact", "damaged"}
  /\ loaded = "no" =>
       /\ stream = Stream(<< >>, 0) /\ DecodedSize = 0
       /\ at = 0 /\ output = << >> /\ D7 = 0 /\ outcome = "header"
  /\ loaded # "no" => compressed = "yes" /\ \E x : GivenStream(x)
  /\ DecoderTyped

RoundTripInv == CompressInv /\ LoadInv /\ IntactInv

(* Every packet of an intact payload is the one the track says.            *)
LEMMA DecodeFollows ==
  ASSUME RoundTripInv, loaded = "intact", Decoder!DecompressNext, UNCHANGED <<compressVars, loaded>>
  PROVE  IntactInv'
  <1>1. AnyInput /\ GivenStream(payload) /\ DecoderTyped /\ payload \in Seq(Byte)
        /\ outcome \in {"header", "decoding", "decoded"}
        /\ (outcome = "decoded" => Len(output) = Size)
    BY DEF RoundTripInv, CompressInv, LoadInv, IntactInv, GivenStream
  <1>2. PICK packets, a, n, d, j : Follows(packets, a, n, d, j)
    BY DEF RoundTripInv, IntactInv
  <1>3. /\ packets \in Nat /\ a \in [0 .. packets -> Nat] /\ n \in [0 .. packets -> Nat]
        /\ d \in [0 .. packets -> Nat] /\ j \in 0 .. packets
        /\ a[packets] = Len(payload) /\ n[packets] = Size
        /\ at = a[j] /\ D7 = d[j] /\ Decoded(output, n[j])
        /\ \A i \in 0 .. packets - 1 :
             Packet(payload, a[i], n[i], d[i], a[i + 1], n[i + 1], d[i + 1])
    BY <1>2 DEF Follows, Track
  <1>4. UNCHANGED <<input, payload, stream, DecodedSize, loaded>>
    BY DecoderGiven DEF compressVars
  (* The next packet of the same track is said the same of the same input. *)
  <1>5. ASSUME NEW i \in 0 .. packets, at' = a[i], D7' = d[i], Decoded(output', n[i]),
               outcome' \in {"header", "decoding", "decoded"},
               outcome' = "decoded" => Len(output') = Size
        PROVE  IntactInv'
    <2>1. Size' = Size /\ GivenStream(payload)'
      <3>1. Size' = Size
        BY <1>4 DEF Size
      <3> QED
        BY <1>1, <1>4, <3>1 DEF GivenStream
    <2>2. Track(payload, packets, a, n, d)'
      BY <1>2, <1>4, TrackStays DEF Follows
    <2>3. Decoded(output, n[i])'
      BY <1>4, <1>5 DEF Decoded
    <2>4. Follows(packets, a, n, d, i)'
      BY <1>3, <1>5, <2>1, <2>2, <2>3 DEF Follows
    <2> QED
      BY <1>5, <2>1, <2>4 DEF IntactInv
  <1>6. Len(output) = n[j] /\ Len(output) \in Nat /\ output \in Seq(Byte)
    BY <1>3 DEF Decoded
  <1>7. /\ Decoder!Left = Len(payload) - at /\ Decoder!Room = Size - Len(output)
        /\ Size \in Nat /\ Len(payload) \in Nat
        /\ stream.magic /\ stream.payload_size = Len(payload) /\ stream.size = Size
        /\ DecodedSize = Size /\ stream.payload = payload
    BY <1>1, GivenIs DEF GivenStream, Stream
  <1>8. CASE outcome = "header"
    <2>1. Decoder!Header
      BY <1>8 DEF Decoder!DecompressNext, Decoder!Header, Decoder!Literals, Decoder!ShortMatch,
                  Decoder!LongMatch, Decoder!Continue, Decoder!Truncated, Decoder!Complete,
                  Decoder!AtPacket
    <2>2. outcome' = "decoding" /\ UNCHANGED <<at, output, D7>>
      BY <1>7, <2>1 DEF Decoder!Header
    <2> QED
      BY <1>3, <1>5, <2>2
  <1>9. CASE outcome = "decoding" /\ j < packets
    <2>1. PICK i \in 0 .. packets : i = j + 1
      BY <1>3, <1>9
    <2>2. PICK made \in Nat, a2 \in Nat, n2 \in Nat, d2 \in Nat :
            made = n[j] /\ a2 = a[i] /\ n2 = n[i] /\ d2 = d[i]
      BY <1>3
    <2>3. Packet(payload, at, made, D7, a2, n2, d2)
      <3>1. j \in 0 .. packets - 1
        BY <1>3, <1>9
      <3> QED
        BY <1>3, <2>1, <2>2, <3>1
    <2>4. outcome' = "decoding" /\ at' = a2 /\ D7' = d2 /\ Decoded(output', n2)
      BY <1>1, <1>3, <1>9, <2>2, <2>3, DecodesOne
    <2> QED
      BY <1>5, <2>2, <2>4
  <1>10. CASE outcome = "decoding" /\ j = packets
    <2>1. Decoder!Left = 0 /\ Decoder!Room = 0 /\ Len(output) = Size
      BY <1>3, <1>6, <1>7, <1>10
    <2>2. Decoder!Complete
      BY <1>10, <2>1 DEF Decoder!DecompressNext, Decoder!Header, Decoder!Literals,
                  Decoder!ShortMatch, Decoder!LongMatch, Decoder!Continue, Decoder!Truncated,
                  Decoder!AtPacket
    <2>3. outcome' = "decoded" /\ UNCHANGED <<at, output, D7>>
      BY <2>1, <2>2 DEF Decoder!Complete
    <2> QED
      BY <1>3, <1>5, <2>1, <2>3
  <1>11. CASE outcome = "decoded"
    BY <1>11 DEF Decoder!DecompressNext, Decoder!Header, Decoder!Literals, Decoder!ShortMatch,
                 Decoder!LongMatch, Decoder!Continue, Decoder!Truncated, Decoder!Complete,
                 Decoder!AtPacket
  <1>12. j < packets \/ j = packets
    BY <1>3
  <1> QED
    BY <1>1, <1>8, <1>9, <1>10, <1>11, <1>12
-----------------------------------------------------------------------------
(* The steps of the whole.                                                 *)
LEMMA RoundTripStarts ==
  ASSUME AnyInput, RoundTripInit
  PROVE  RoundTripInv
  <1>1. CompressInv
    BY CompressStarts DEF RoundTripInit
  <1>2. /\ stream = Stream(<< >>, 0) /\ DecodedSize = 0 /\ loaded = "no"
        /\ at = 0 /\ output = << >> /\ D7 = 0 /\ outcome = "header"
    BY DEF RoundTripInit, Decoder!DecompressInit
  <1>3. DecoderTyped
    <2>1. << >> \in Seq(Byte) /\ Len(<< >>) = 0
      OBVIOUS
    <2>2. PICK none \in Seq(Byte) : none = << >> /\ Len(none) = 0
      BY <2>1
    <2>3. stream.payload = none
      BY <1>2, <2>2 DEF Stream
    <2> QED
      BY <1>2, <2>2, <2>3 DEF DecoderTyped, Decoder!InBounds
  <1> QED
    BY <1>1, <1>2, <1>3 DEF RoundTripInv, LoadInv, IntactInv

(* A step of the compressor keeps the whole invariant.                     *)
LEMMA CompressKeeps ==
  ASSUME RoundTripInv, Compress
  PROVE  RoundTripInv'
  <1>1. CompressInv'
    BY PassLiteralKeeps, WriteMatchKeeps, WriteRestKeeps, CompressOutOfMemoryKeeps
    DEF RoundTripInv, Compress, CompressNext
  <1>2. compressed = "no"
    BY DEF Compress, CompressNext, PassLiteral, WriteMatch, WriteRest, CompressOutOfMemory,
           Compressing
  <1>3. loaded = "no"
    BY <1>2 DEF RoundTripInv, LoadInv
  <1>4. /\ stream' = stream /\ DecodedSize' = DecodedSize /\ at' = at /\ output' = output
        /\ D7' = D7 /\ outcome' = outcome /\ loaded' = loaded
    BY DEF Compress, decoderVars
  <1>5. LoadInv'
    <2>1. DecoderTyped'
      BY <1>4 DEF RoundTripInv, LoadInv, DecoderTyped, Decoder!InBounds
    <2> QED
      BY <1>3, <1>4, <2>1 DEF RoundTripInv, LoadInv
  <1>6. IntactInv'
    BY <1>3, <1>4 DEF IntactInv
  <1> QED
    BY <1>1, <1>5, <1>6 DEF RoundTripInv

(* So does loading the payload, intact or damaged.                         *)
LEMMA LoadKeeps ==
  ASSUME RoundTripInv, Load
  PROVE  RoundTripInv'
  <1>1. CompressInv'
    BY CompressStays DEF RoundTripInv, Load
  <1>2. /\ compressed = "yes" /\ loaded = "no" /\ compressed' = compressed
        /\ DecodedSize' = Size /\ at' = 0 /\ output' = << >> /\ D7' = 0 /\ outcome' = "header"
        /\ input' = input /\ payload' = payload
    BY DEF Load, compressVars, RoundTripInv, LoadInv
  <1>3. AnyInput /\ payload \in Seq(Byte) /\ Size \in Nat /\ Size' = Size
    BY <1>2, SizeIsNat DEF RoundTripInv, CompressInv, Size
  <1>4. PICK none \in Seq(Byte) : none = << >> /\ Len(none) = 0
    <2>1. << >> \in Seq(Byte) /\ Len(<< >>) = 0
      OBVIOUS
    <2> QED
      BY <2>1
  <1>5. /\ loaded' \in {"intact", "damaged"}
        /\ loaded' = "intact" => stream' = Stream(payload, Size)
        /\ \E x \in Seq(Byte) : stream' = Stream(x, Size)
    <2>1. CASE loaded' = "intact" /\ stream' = Stream(payload, Size)
      BY <1>3, <2>1
    <2>2. CASE /\ loaded' = "damaged"
               /\ \E k \in DOMAIN payload, byte \in Damage :
                    stream' = Stream([payload EXCEPT ![k] = byte], Size)
      <3>1. PICK k \in DOMAIN payload, byte \in Damage :
              stream' = Stream([payload EXCEPT ![k] = byte], Size)
        BY <2>2
      <3>2. k \in 1 .. Len(payload) /\ byte \in Byte
        BY <1>3, DamageAssumption
      <3>3. [payload EXCEPT ![k] = byte] \in Seq(Byte)
        BY <1>3, <3>2, ExceptSeq
      <3> QED
        BY <2>2, <3>1, <3>3
    <2> QED
      BY <2>1, <2>2 DEF Load
  <1>6. PICK x \in Seq(Byte) : stream' = Stream(x, Size)
    BY <1>5
  <1>7. LoadInv'
    <2>1. GivenStream(x)'
      BY <1>2, <1>3, <1>6 DEF GivenStream
    <2>2. DecoderTyped'
      <3>1. stream'.payload = x /\ Len(x) \in Nat
        BY <1>6 DEF Stream
      <3> QED
        BY <1>2, <1>3, <1>4, <3>1 DEF DecoderTyped, Decoder!InBounds
    <2>3. loaded' # "no" /\ loaded' \in {"no", "intact", "damaged"}
      BY <1>5
    <2> QED
      BY <1>2, <2>1, <2>2, <2>3 DEF LoadInv
  <1>8. IntactInv'
    <2> SUFFICES ASSUME loaded' = "intact" PROVE IntactInv'
      BY DEF IntactInv
    <2>1. GivenStream(payload)'
      <3>1. stream' = Stream(payload', Size')
        BY <1>2, <1>3, <1>5
      <3>2. Stream(payload, Size)' = Stream(payload', Size')
        BY DEF Stream
      <3> QED
        BY <1>2, <1>3, <3>1, <3>2 DEF GivenStream
    <2>2. PICK e, packets, a, n, d :
            e \in Nat /\ Track(payload, packets, a, n, d) /\ n[packets] = Size /\ d[packets] = e
      BY <1>2 DEF RoundTripInv, CompressInv, Codes
    <2>3. Track(payload, packets, a, n, d)'
      BY <1>2, <2>2, TrackStays
    <2>4. 0 \in 0 .. packets /\ a[0] = 0 /\ n[0] = 0 /\ d[0] = 0
      BY <2>2 DEF Track
    <2>5. Decoded(output, n[0])'
      <3>1. \A k : k \notin 1 .. 0
        OBVIOUS
      <3> QED
        BY <1>2, <1>4, <2>4, <3>1 DEF Decoded
    <2>6. Follows(packets, a, n, d, 0)'
      BY <1>2, <1>3, <2>2, <2>3, <2>4, <2>5 DEF Follows
    <2>7. outcome' = "header"
      BY <1>2
    <2> QED
      BY <2>1, <2>6, <2>7 DEF IntactInv
  <1> QED
    BY <1>1, <1>7, <1>8 DEF RoundTripInv

(* So does a step of the decoder.                                          *)
LEMMA DecompressKeeps ==
  ASSUME RoundTripInv, Decompress
  PROVE  RoundTripInv'
  <1>1. loaded # "no" /\ Decoder!DecompressNext /\ UNCHANGED <<compressVars, loaded>>
    BY DEF Decompress
  <1>2. CompressInv'
    BY <1>1, CompressStays DEF RoundTripInv
  <1>3. input' = input /\ compressed' = compressed /\ loaded' = loaded
    BY <1>1 DEF compressVars
  <1>4. AnyInput /\ Size' = Size
    BY <1>3 DEF RoundTripInv, CompressInv, Size
  <1>5. PICK x : GivenStream(x)
    BY <1>1 DEF RoundTripInv, LoadInv
  <1>6. DecoderTyped'
    BY <1>1, <1>3, <1>4, <1>5, DecoderStaysIn DEF RoundTripInv, LoadInv
  <1>7. GivenStream(x)'
    BY <1>1, <1>4, <1>5, DecoderGiven DEF GivenStream
  <1>8. LoadInv'
    BY <1>1, <1>3, <1>6, <1>7 DEF RoundTripInv, LoadInv
  <1>9. IntactInv'
    <2>1. CASE loaded = "intact"
      BY <1>1, <2>1, DecodeFollows
    <2>2. CASE loaded # "intact"
      BY <1>3, <2>2 DEF IntactInv
    <2> QED
      BY <2>1, <2>2
  <1> QED
    BY <1>2, <1>8, <1>9 DEF RoundTripInv

(* So does a step that changes nothing.                                    *)
LEMMA RoundTripStays ==
  ASSUME RoundTripInv, UNCHANGED roundTripVars
  PROVE  RoundTripInv'
  <1>1. /\ UNCHANGED compressVars /\ loaded' = loaded
        /\ stream' = stream /\ DecodedSize' = DecodedSize /\ at' = at /\ output' = output
        /\ D7' = D7 /\ outcome' = outcome
    BY DEF roundTripVars, decoderVars
  <1>2. CompressInv'
    BY <1>1, CompressStays DEF RoundTripInv
  <1>3. input' = input /\ payload' = payload /\ compressed' = compressed
    BY <1>1 DEF compressVars
  <1>4. Size' = Size
    BY <1>3 DEF Size
  <1>5. \A x : GivenStream(x) => GivenStream(x)'
    BY <1>1, <1>4 DEF GivenStream
  <1>6. DecoderTyped => DecoderTyped'
    BY <1>1 DEF DecoderTyped, Decoder!InBounds
  <1>7. LoadInv'
    BY <1>1, <1>3, <1>5, <1>6 DEF RoundTripInv, LoadInv
  <1>8. \A packets, a, n, d, j :
          Follows(packets, a, n, d, j) => Follows(packets, a, n, d, j)'
    <2> SUFFICES ASSUME NEW packets, NEW a, NEW n, NEW d, NEW j, Follows(packets, a, n, d, j)
                 PROVE  Follows(packets, a, n, d, j)'
      OBVIOUS
    <2>1. Track(payload, packets, a, n, d)'
      BY <1>3, TrackStays DEF Follows
    <2>2. Decoded(output, n[j])'
      BY <1>1, <1>3 DEF Follows, Decoded
    <2> QED
      BY <1>1, <1>4, <2>1, <2>2 DEF Follows
  <1>9. IntactInv'
    <2>1. GivenStream(payload) => GivenStream(payload)'
      BY <1>1, <1>3, <1>4 DEF GivenStream
    <2> QED
      BY <1>1, <1>4, <1>8, <2>1 DEF RoundTripInv, IntactInv
  <1> QED
    BY <1>2, <1>7, <1>9 DEF RoundTripInv

(* The invariant holds from the first byte compressed to the last decoded. *)
THEOREM RoundTripInvariant == AnyInput /\ RoundTripSpec => []RoundTripInv
  <1>1. AnyInput /\ RoundTripInit => RoundTripInv
    BY RoundTripStarts
  <1>2. RoundTripInv /\ [RoundTripNext]_roundTripVars => RoundTripInv'
    BY CompressKeeps, LoadKeeps, DecompressKeeps, RoundTripStays DEF RoundTripNext
  <1> QED
    BY <1>1, <1>2, PTL DEF RoundTripSpec
-----------------------------------------------------------------------------
(* Whatever the input, the hash chains of qlz.c are exact at every round:  *)
(* no position is lost from its chain and none enters it twice.            *)
THEOREM ChainsAreExact == AnyInput /\ RoundTripSpec => []ChainsExact
  <1>1. RoundTripInv => ChainsExact
    <2> SUFFICES ASSUME RoundTripInv PROVE ChainsExact
      OBVIOUS
    <2>1. ChainsOf(heads, previous, position)
      BY DEF RoundTripInv, CompressInv
    <2>2. \A h : Passed(h) = PassedTo(position, h)
      BY DEF Passed, PassedTo
    <2>3. DOMAIN heads = 0 .. HashCount - 1 /\ DOMAIN previous = 0 .. Size - 1
      BY <2>1 DEF ChainsOf
    <2> QED
      BY <2>1, <2>2, <2>3 DEF ChainsExact, ChainsOf
  <1> QED
    BY <1>1, RoundTripInvariant, PTL

(* Whatever the input, its payload takes no more bytes than literals alone *)
(* would.                                                                  *)
THEOREM CompressesOrNotMuch == AnyInput /\ RoundTripSpec => []NeverExpands
  <1>1. RoundTripInv => NeverExpands
    BY DEF RoundTripInv, CompressInv
  <1> QED
    BY <1>1, RoundTripInvariant, PTL

(* Whatever the payload and whatever byte of it is damaged, qlz_decompress *)
(* of player.asm neither writes past the output nor reads past the payload.*)
THEOREM DecoderIsInBounds == AnyInput /\ RoundTripSpec => []DecodesInBounds
  <1>1. RoundTripInv => DecodesInBounds
    BY DEF RoundTripInv, LoadInv, DecoderTyped, DecodesInBounds
  <1> QED
    BY <1>1, RoundTripInvariant, PTL

(* Whatever the input, player.asm decodes from the stream of qlz.c the     *)
(* very input, and never gives up on it.                                   *)
THEOREM DecodesTheInput == AnyInput /\ RoundTripSpec => []RoundTrip
  <1>1. RoundTripInv => RoundTrip
    <2> SUFFICES ASSUME RoundTripInv, loaded = "intact"
                 PROVE  outcome # "failed" /\ (outcome = "decoded" => output = input)
      BY DEF RoundTrip
    <2>1. /\ outcome \in {"header", "decoding", "decoded"}
          /\ outcome = "decoded" => Len(output) = Size
      BY DEF RoundTripInv, IntactInv
    <2>2. PICK packets, a, n, d, j : Follows(packets, a, n, d, j)
      BY DEF RoundTripInv, IntactInv
    <2>3. output \in Seq(Byte) /\ \A k \in 1 .. Len(output) : output[k] = input[k]
      BY <2>2 DEF Follows, Decoded
    <2>4. input \in Seq(Byte)
      BY DEF RoundTripInv, CompressInv, AnyInput
    <2>5. ASSUME outcome = "decoded" PROVE output = input
      <3>1. Len(output) = Len(input)
        BY <2>1, <2>5 DEF Size
      <3> QED
        BY <2>3, <2>4, <3>1, SeqEqual
    <2> QED
      BY <2>1, <2>5
  <1> QED
    BY <1>1, RoundTripInvariant, PTL
-----------------------------------------------------------------------------
(* The byte buffer.                                                        *)

USE DEF Overflows

(* Doubling never leaves the range and always reaches what is needed.      *)
LEMMA GrowthIsEnough ==
  ASSUME NEW needed \in 1 .. MaxSize, TypeOK, capacity < needed
  PROVE  /\ NewCapacity(needed) \in needed .. MaxSize
         /\ NewCapacity(needed) >= capacity
<1> DEFINE from == IF capacity = 0 THEN FirstCapacity ELSE capacity
           Enough(c) == c >= needed /\ (c = from \/ c \div 2 < needed)
<1>1. MaxSize \in Nat /\ from \in 0 .. MaxSize
  BY BufferAssumption DEF TypeOK
<1>2. CASE \E c \in Doublings(from) : Enough(c)
  <2> DEFINE chosen == CHOOSE c \in Doublings(from) : Enough(c)
  <2>1. chosen \in Doublings(from) /\ Enough(chosen)
    BY <1>2
  <2>2. chosen \in from .. MaxSize
    BY <2>1 DEF Doublings
  <2>3. NewCapacity(needed) = chosen
    BY <1>2 DEF NewCapacity
  <2> HIDE DEF chosen
  <2> QED
    BY <1>1, <2>1, <2>2, <2>3 DEF TypeOK
<1>3. CASE ~ \E c \in Doublings(from) : Enough(c)
  <2>1. NewCapacity(needed) = needed
    BY <1>3 DEF NewCapacity
  <2> QED
    BY <1>1, <2>1 DEF TypeOK
<1> QED
  BY <1>2, <1>3

(* The sum does not wrap where it was found not to overflow.               *)
LEMMA SumIsExact ==
  ASSUME TypeOK, NEW extra \in Nat, ~Overflows(extra)
  PROVE  Needed(extra) = size + extra /\ Needed(extra) \in extra .. MaxSize
<1>1. MaxSize \in Nat /\ size \in 0 .. MaxSize
  BY BufferAssumption DEF TypeOK
<1>2. size + extra \in 0 .. MaxSize
  BY <1>1
<1>3. (size + extra) % (MaxSize + 1) = size + extra
  BY <1>1, <1>2
<1> QED
  BY <1>1, <1>2, <1>3 DEF Needed

(* buffer_reserve gives a block of the capacity it says, large enough, with *)
(* all of the old one in it.                                               *)
LEMMA ReserveKeeps ==
  ASSUME TypeOK, NEW extra \in Nat, extra > 0, CanReserve(extra)
  PROVE  /\ ReservedCapacity(extra) \in size + extra .. MaxSize
         /\ Reserved(extra) \in [0 .. ReservedCapacity(extra) - 1 -> Octet \cup {Garbage}]
         /\ ReservedCapacity(extra) >= capacity
         /\ \A k \in 0 .. capacity - 1 : Reserved(extra)[k] = memory[k]
<1>1. /\ Needed(extra) = size + extra
      /\ Needed(extra) \in 1 .. MaxSize
  BY SumIsExact, BufferAssumption DEF CanReserve, TypeOK
<1>2. /\ MaxSize \in Nat /\ size \in 0 .. MaxSize /\ capacity \in 0 .. MaxSize
      /\ memory \in [0 .. capacity - 1 -> Octet \cup {Garbage}]
  BY BufferAssumption DEF TypeOK
<1>3. CASE Needed(extra) <= capacity
  <2>1. ReservedCapacity(extra) = capacity /\ Reserved(extra) = memory
    BY <1>3 DEF ReservedCapacity, Reserved
  <2> QED
    BY <1>1, <1>2, <1>3, <2>1
<1>4. CASE ~(Needed(extra) <= capacity)
  <2> DEFINE c == NewCapacity(Needed(extra))
  <2>1. ReservedCapacity(extra) = c /\ Reserved(extra) = Reallocated(c)
    BY <1>4 DEF ReservedCapacity, Reserved
  <2>2. c \in Needed(extra) .. MaxSize /\ c >= capacity
    BY <1>1, <1>2, <1>4, GrowthIsEnough
  <2> HIDE DEF c
  <2>3. Reallocated(c) \in [0 .. c - 1 -> Octet \cup {Garbage}]
    BY <1>2, <2>2 DEF Reallocated
  <2>4. \A k \in 0 .. capacity - 1 : Reallocated(c)[k] = memory[k]
    BY <1>2, <2>2 DEF Reallocated
  <2> QED
    BY <1>1, <1>2, <2>1, <2>2, <2>3, <2>4
<1> QED
  BY <1>3, <1>4
-----------------------------------------------------------------------------
(* An append that succeeds puts the piece behind the contents.             *)
LEMMA AppendsBehind ==
  ASSUME IInv, NEW piece \in Pieces, Appends(piece)
  PROVE  /\ TypeOK'
         /\ size' <= capacity'
         /\ Contents' = Contents \o piece
<1> DEFINE n == Len(piece)
           r == Reserved(n)
<1>1. /\ piece \in Seq(Octet) /\ n \in Nat /\ n > 0
      /\ \A k \in 1 .. n : piece[k] \in Octet
  BY BufferAssumption DEF Appends
<1>2. /\ MaxSize \in Nat /\ size \in 0 .. MaxSize /\ capacity \in 0 .. MaxSize
      /\ size <= capacity
  BY BufferAssumption DEF IInv, TypeOK, NothingMissing
<1>3. /\ capacity' \in size + n .. MaxSize
      /\ capacity' >= capacity
      /\ r \in [0 .. capacity' - 1 -> Octet \cup {Garbage}]
      /\ \A k \in 0 .. capacity - 1 : r[k] = memory[k]
  BY <1>1, ReserveKeeps DEF Appends, IInv
<1>4. memory' = [k \in DOMAIN r |-> IF k \in size .. size + n - 1
                                   THEN piece[k - size + 1] ELSE r[k]]
  BY DEF Appends, Copied
<1>5. size' = size + n /\ asked' = asked \o piece /\ failed' = failed
  BY DEF Appends
<1> HIDE DEF n, r
<1>6. memory' \in [0 .. capacity' - 1 -> Octet \cup {Garbage}]
  <2>1. DOMAIN r = 0 .. capacity' - 1
    BY <1>3
  <2>2. ASSUME NEW k \in 0 .. capacity' - 1
        PROVE  (IF k \in size .. size + n - 1 THEN piece[k - size + 1] ELSE r[k])
                  \in Octet \cup {Garbage}
    <3>1. CASE k \in size .. size + n - 1
      <4>1. k - size + 1 \in 1 .. n
        BY <1>1, <1>2, <3>1
      <4> QED
        BY <1>1, <3>1, <4>1
    <3>2. CASE k \notin size .. size + n - 1
      BY <1>3, <3>2
    <3> QED
      BY <3>1, <3>2
  <2> QED
    BY <1>4, <2>1, <2>2
<1>7. \A k \in 1 .. size : memory'[k - 1] = memory[k - 1]
  <2> TAKE k \in 1 .. size
  <2>1. k - 1 \in 0 .. capacity' - 1 /\ k - 1 \in 0 .. capacity - 1
    BY <1>1, <1>2, <1>3
  <2>2. k - 1 \notin size .. size + n - 1
    BY <1>1, <1>2
  <2> QED
    BY <1>3, <1>4, <2>1, <2>2
<1>8. \A k \in size + 1 .. size + n : memory'[k - 1] = piece[k - size]
  <2> TAKE k \in size + 1 .. size + n
  <2>1. k - 1 \in 0 .. capacity' - 1 /\ k - 1 \in size .. size + n - 1
    <3>1. capacity' \in Int /\ size + n <= capacity'
      BY <1>1, <1>2, <1>3
    <3>2. size \in Nat /\ n \in Nat
      BY <1>1, <1>2
    <3>3. k \in Int /\ size + 1 <= k /\ k <= size + n
      BY <3>2
    <3>4. k - 1 \in 0 .. capacity' - 1
      <4> DEFINE top == capacity'
      <4>1. top \in Int /\ k <= top
        BY <3>1, <3>2, <3>3
      <4> HIDE DEF top
      <4>2. k - 1 \in 0 .. top - 1
        BY <3>2, <3>3, <4>1
      <4> QED
        BY <4>2 DEF top
    <3>5. k - 1 \in size .. size + n - 1
      BY <3>2, <3>3
    <3> QED
      BY <3>4, <3>5
  <2>2. (k - 1) - size + 1 = k - size
    BY <1>2
  <2> QED
    BY <1>3, <1>4, <2>1, <2>2
<1>9. TypeOK'
  <2>1. asked' \in Seq(Octet)
    BY <1>1, <1>5 DEF IInv, TypeOK
  <2>2. size' \in 0 .. MaxSize /\ capacity' \in 0 .. MaxSize
    BY <1>1, <1>2, <1>3, <1>5
  <2> QED
    BY <1>5, <1>6, <2>1, <2>2 DEF IInv, TypeOK
<1>10. Contents' = Contents \o piece
  <2>1. Contents' = [k \in 1 .. size + n |-> memory'[k - 1]]
    BY <1>5 DEF Contents
  <2>2. Contents \in Seq(Octet) /\ Len(Contents) = size
    BY <1>2 DEF IInv, Contents
  <2>3. ASSUME NEW k \in 1 .. size + n
        PROVE  /\ memory'[k - 1] = IF k <= size THEN Contents[k] ELSE piece[k - size]
               /\ memory'[k - 1] \in Octet
    <3>1. CASE k <= size
      <4>1. k \in 1 .. size /\ Contents[k] \in Octet
        BY <1>1, <1>2, <2>2, <3>1
      <4> QED
        BY <1>7, <3>1, <4>1 DEF Contents
    <3>2. CASE ~(k <= size)
      <4>1. k \in size + 1 .. size + n /\ k - size \in 1 .. n
        BY <1>1, <1>2, <3>2
      <4> QED
        BY <1>1, <1>8, <3>2, <4>1
    <3> QED
      BY <3>1, <3>2
  <2>4. Contents' \in Seq(Octet) /\ Len(Contents') = size + n
    <3>1. size + n \in Nat
      BY <1>1, <1>2
    <3>2. Contents' \in [1 .. size + n -> Octet]
      BY <2>1, <2>3
    <3> QED
      BY <3>1, <3>2
  <2>5. /\ Contents \o piece \in Seq(Octet)
        /\ Len(Contents \o piece) = size + n
        /\ \A k \in 1 .. size + n :
             (Contents \o piece)[k] = IF k <= size THEN Contents[k] ELSE piece[k - size]
    BY <1>1, <2>2, ConcatProperties DEF n
  <2>6. \A k \in 1 .. size + n : Contents'[k] = (Contents \o piece)[k]
    BY <2>1, <2>3, <2>5
  <2> QED
    BY <2>4, <2>5, <2>6, SeqEqual
<1> QED
  BY <1>1, <1>2, <1>3, <1>5, <1>9, <1>10

(* The fragment of the invariant the contents are typed by.                *)
LEMMA ContentsTyped ==
  ASSUME NEW s \in Seq(Octet), NEW piece \in Pieces
  PROVE  s \o piece \in Seq(Octet)
BY BufferAssumption

(* Contents depend on the first size bytes of the block alone.             *)
LEMMA SameContents ==
  ASSUME size \in 0 .. MaxSize, capacity \in 0 .. MaxSize, size <= capacity, MaxSize \in Nat,
         size' = size, \A k \in 0 .. capacity - 1 : memory'[k] = memory[k]
  PROVE  Contents' = Contents
<1>1. \A k \in 1 .. size : memory'[k - 1] = memory[k - 1]
  <2> TAKE k \in 1 .. size
  <2>1. k - 1 \in 0 .. capacity - 1
    OBVIOUS
  <2> QED
    BY <2>1
<1> QED
  BY <1>1 DEF Contents

(* A buffer set to { 0 } has its type.                                     *)
LEMMA EmptyTyped ==
  /\ 0 \in 0 .. MaxSize
  /\ NoMemory \in [0 .. 0 - 1 -> Octet \cup {Garbage}]
  /\ << >> \in Seq(Octet)
<1>1. 0 \in 0 .. MaxSize
  BY BufferAssumption
<1>2. NoMemory \in [0 .. 0 - 1 -> Octet \cup {Garbage}]
  BY DEF NoMemory
<1> QED
  BY <1>1, <1>2

(* A new buffer satisfies the invariant.                                   *)
THEOREM Initially == Init => IInv
<1> SUFFICES ASSUME Init PROVE IInv
  OBVIOUS
<1>1. Contents = << >>
  BY DEF Init, Contents
<1>2. TypeOK
  BY EmptyTyped DEF Init, TypeOK
<1> QED
  BY <1>1, <1>2 DEF Init, IInv, NothingMissing

(* Every append, reservation, refusal and free preserves it.               *)
THEOREM Step == IInv /\ [Next]_bufferVars => IInv'
<1> SUFFICES ASSUME IInv, [Next]_bufferVars PROVE IInv'
  OBVIOUS
<1>1. ASSUME NEW piece \in Pieces, Appends(piece) PROVE IInv'
  <2>1. TypeOK' /\ size' <= capacity' /\ Contents' = Contents \o piece
    BY <1>1, AppendsBehind
  <2>2. asked' = asked \o piece /\ failed' = FALSE
    BY <1>1 DEF Appends, CanReserve, IInv, TypeOK
  <2>3. Contents = asked /\ Contents \in Seq(Octet)
    BY <1>1 DEF Appends, CanReserve, IInv, NothingMissing
  <2>4. Contents' \in Seq(Octet)
    BY <2>1, <2>3, ContentsTyped
  <2> QED
    BY <2>1, <2>2, <2>3, <2>4 DEF IInv, NothingMissing
<1>2. ASSUME NEW piece \in Pieces, AppendFails(piece) PROVE IInv'
  <2>1. UNCHANGED <<memory, size, capacity>> /\ failed' = TRUE
    BY <1>2 DEF AppendFails, ReserveFails
  <2>2. asked' \in Seq(Octet)
    BY <1>2, ContentsTyped DEF AppendFails, IInv, TypeOK
  <2>3. Contents' = Contents
    BY <2>1 DEF Contents
  <2> QED
    BY <2>1, <2>2, <2>3 DEF IInv, TypeOK, NothingMissing
<1>3. ASSUME NEW piece \in Pieces, Reserve(Len(piece)) PROVE IInv'
  <2>1. piece \in Seq(Octet) /\ Len(piece) \in Nat
    BY BufferAssumption
  <2>2. UNCHANGED <<size, failed, asked>>
    BY <1>3 DEF Reserve
  <2>3. CASE Len(piece) = 0
    <3>1. Needed(Len(piece)) = size
      BY <1>3, <2>1, <2>3, SumIsExact DEF Reserve, CanReserve, IInv, TypeOK
    <3>2. UNCHANGED <<memory, capacity>>
      BY <1>3, <3>1 DEF Reserve, Reserved, ReservedCapacity, IInv, NothingMissing
    <3> QED
      BY <2>2, <3>2 DEF IInv, TypeOK, NothingMissing, Contents
  <2>4. CASE Len(piece) > 0
    <3>1. /\ capacity' \in size + Len(piece) .. MaxSize
          /\ memory' \in [0 .. capacity' - 1 -> Octet \cup {Garbage}]
          /\ \A k \in 0 .. capacity - 1 : memory'[k] = memory[k]
      BY <1>3, <2>1, <2>4, ReserveKeeps DEF Reserve, IInv
    <3>2. size \in 0 .. MaxSize /\ capacity \in 0 .. MaxSize /\ size <= capacity /\ MaxSize \in Nat
      BY BufferAssumption DEF IInv, TypeOK, NothingMissing
    <3>3. Contents' = Contents
      BY <2>1, <2>2, <3>1, <3>2, SameContents
    <3>4. capacity' \in 0 .. MaxSize /\ size <= capacity'
      BY <2>1, <3>1, <3>2
    <3> QED
      BY <2>2, <3>1, <3>3, <3>4 DEF IInv, TypeOK, NothingMissing
  <2> QED
    BY <2>1, <2>3, <2>4
<1>4. CASE Free
  <2>1. Contents' = << >>
    BY <1>4 DEF Free, Contents
  <2>2. TypeOK'
    BY <1>4, EmptyTyped DEF Free, TypeOK
  <2> QED
    BY <1>4, <2>1, <2>2 DEF Free, IInv, NothingMissing
<1>5. CASE UNCHANGED bufferVars
  BY <1>5 DEF bufferVars, IInv, TypeOK, NothingMissing, Contents
<1> QED
  BY <1>1, <1>2, <1>3, <1>4, <1>5 DEF Next

(* Whatever sequence of appends, reservations and refusals: a buffer that  *)
(* has not failed holds, inside its block, all it was asked to hold.       *)
THEOREM Complete == Spec => []NothingMissing
<1>1. Init => IInv
  BY Initially
<1>2. IInv /\ [Next]_bufferVars => IInv'
  BY Step
<1>3. IInv => NothingMissing
  BY DEF IInv
<1> QED
  BY <1>1, <1>2, <1>3, PTL DEF Spec
-----------------------------------------------------------------------------
(* A buffer is the log its callers take it for.                            *)
THEOREM BufferIsLog == Spec => IsAppendLog
<1>1. Init => Log!LogInit
  BY DEF Init, Log!LogInit, Contents
<1>2. IInv /\ [Next]_bufferVars => [Log!LogNext]_<<Contents, failed>>
  <2> SUFFICES ASSUME IInv, [Next]_bufferVars
               PROVE  [Log!LogNext]_<<Contents, failed>>
    OBVIOUS
  <2>1. ASSUME NEW piece \in Pieces, Appends(piece) PROVE Log!Take(piece)
    BY <2>1, AppendsBehind DEF Log!Take, Appends, CanReserve
  <2>2. ASSUME NEW piece \in Pieces, AppendFails(piece) PROVE Log!Fail
    BY <2>2 DEF AppendFails, ReserveFails, Log!Fail, Contents
  <2>3. ASSUME NEW piece \in Pieces, Reserve(Len(piece)) PROVE UNCHANGED <<Contents, failed>>
    <3>1. piece \in Seq(Octet) /\ Len(piece) \in Nat
      BY BufferAssumption
    <3>2. /\ size \in 0 .. MaxSize /\ capacity \in 0 .. MaxSize /\ size <= capacity
          /\ MaxSize \in Nat /\ UNCHANGED <<size, failed>>
      BY <2>3, BufferAssumption DEF Reserve, IInv, TypeOK, NothingMissing
    <3>3. CASE Len(piece) = 0
      <4>1. Needed(Len(piece)) = size
        BY <2>3, <3>1, <3>2, <3>3, SumIsExact DEF Reserve, CanReserve, IInv
      <4>2. memory' = memory
        BY <2>3, <3>2, <4>1 DEF Reserve, Reserved
      <4> QED
        BY <3>2, <4>2 DEF Contents
    <3>4. CASE Len(piece) > 0
      <4>1. \A k \in 0 .. capacity - 1 : memory'[k] = memory[k]
        BY <2>3, <3>1, <3>4, ReserveKeeps DEF Reserve, IInv
      <4> QED
        BY <3>2, <4>1, SameContents
    <3> QED
      BY <3>1, <3>3, <3>4
  <2>4. ASSUME Free PROVE Log!Clear
    <3>1. Contents' = << >>
      BY <2>4 DEF Free, Contents
    <3> QED
      BY <2>4, <3>1 DEF Free, Log!Clear
  <2>5. CASE UNCHANGED bufferVars
    BY <2>5 DEF bufferVars, Contents
  <2> QED
    BY <2>1, <2>2, <2>3, <2>4, <2>5 DEF Next, Log!LogNext
<1>3. Init => IInv
  BY Initially
<1>4. IInv /\ [Next]_bufferVars => IInv'
  BY Step
<1> QED
  BY <1>1, <1>2, <1>3, <1>4, PTL DEF Spec, IsAppendLog, Log!LogSpec
=============================================================================
