----------------------------- MODULE MCPlayback -----------------------------
(***************************************************************************)
(* Playback for TLC, at two samples a frame: songs of up to two writes     *)
(* over three samples and of up to three over two.  A count byte tells two *)
(* values apart, so a record holds at most three writes and a frame can    *)
(* have too many.  For the liveness properties, which cost more, songs of  *)
(* two writes drawn from fewer.                                            *)
(***************************************************************************)
EXTENDS Playback, MCSongs

MCReg == {0, 1, 8, 13, 40, 160, 164}

(* A tone period low and high, a volume, the two bytes of an FM frequency, *)
(* and the key of the second channel.                                      *)
MCPool == {<<0, 200>>, <<1, 1>>, <<8, 15>>, <<164, 9>>, <<160, 77>>, <<40, 241>>}

(* With three writes the loop can change a latch the intro left.           *)
MCPitchPool == {<<1, 1>>, <<164, 9>>, <<164, 17>>, <<160, 77>>}

(* The same tone period grown out of its low byte, the envelope shape.     *)
MCTonePool == {<<0, 0>>, <<1, 2>>, <<13, 9>>, <<164, 9>>, <<160, 77>>}

MCSong ==
  SongsOf(MCPool, 2, {3}, {FixtureClock})
    \cup SongsOf(MCPitchPool, 3, {2}, {FixtureClock})
    \cup SongsOf(MCTonePool, 3, {2}, {FixtureClock})

(* A loop that must be unrolled needs the FM frequency; the key and the    *)
(* volume must be silenced.                                                *)
MCLivePool == {<<8, 15>>, <<164, 9>>, <<160, 77>>, <<40, 241>>}

MCLiveSong == SongsOf(MCLivePool, 2, {3}, {FixtureClock})
=============================================================================
