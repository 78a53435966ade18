# QLVGM in TLA+

QLVGM turns a YM2203 log (VGM) into a bootable Microdrive image for the Sinclair
QL with a QSound2 board. These modules model the program's own logic: the parser,
the conversion, the compression, the image and the way it reaches its path, a
whole run of the program from its command line to its exit code, and the 68000
player that runs on the QL. TLC checks them on small instances; TLAPS
proves all of their safety properties for all values of the constants. The repository
is checked out as `src/`; `vgm.c` below is its `src/src/vgm.c`, and so on.

## 1. The system

| Component | State | Operations | Hard behaviour |
|---|---|---|---|
| VGM parser, `vgm.c` `vgm_parse` | position, samples, the song built so far | header checks, one round per command, checks after the end command | truncation, offsets that wrap or point into a command, commands where the clock is, a loop of no time |
| Clock converter, `vgm.c` `converter_write` | source registers, a cache of the target's, two FM latches, clip count | one register write in, none to two out | stale cache, paired registers written one byte at a time, rounding and clipping |
| Song converter, `vgm.c` `vgm_convert`, `convert_segment` | frame batches, three output streams | intro, first pass of the loop, steady pass; compare and join | writes at frame and segment edges, loop latches, full counts, failure in the middle |
| QLZ compressor, `qlz.c` | hash chains, position, start of literals, payload | match search, look one byte ahead, packets | double insertion, splitting of long matches, limits of the codes |
| Host QLZ decoder, `qlz.c` `qlz_decode` | input, output, last distance | one packet a round | exists only for the tests: may disagree with the target's |
| Target QLZ decoder, `player.asm` `qlz_decompress` | A0, A1, D7 | one packet a round | damaged payloads, no memory protection |
| Target player, `player.asm` | stream, end and loop pointers, finished flag, test counter | start, one record a frame, silence | trusts the stream byte by byte; byte and word comparisons |
| QLAY output file, `qlay.c` | buffer, temporary file, path | lstat, mkstemp, fchmod, write, fsync, close, rename, unlink | short writes, failures, kills, power loss, two runs at once |
| QLAY image, `qlay.c` `qlay_render_image` | blocks counted, sector map, directory, sectors | capacity check, map, sectors | the map is filled without a bound of its own; sectors are written in another order than mapped |
| Image pipeline, `output.c` `create_image` | temporary directory, generated source, binary, BOOT | source, assembler, BOOT, image, clean-up | failure of any step, clean-up, a temporary directory with files of others |
| Command line, `cli.c` `cli_main` | options and operands; what was allocated | option loop; then every call of the run | values that look like options; a dozen exits that free by hand |
| Byte buffer, `runtime.c` | block, size, capacity, failed | reserve, append, free | growth at the limit, a refused realloc nobody looked at |
| Files and processes, `runtime.c` | descriptor, told size, data | read_file, run_process | a file that changes while it is read |

The host program is sequential: `cli.c` calls the parser, the converter, the
compressor and the pipeline in that order, each handing a finished value to the
next (`vgm_song`, `converted_song`, `qlz_stream`). Concurrency and failure come
in where it meets the file system: several runs may write one path, and any call
may fail or be the last. The player meets the host only through the image: the
QLZ stream, `DECODED_SIZE`, `LOOP_OFFSET` and `TEST_FRAMES`
(`output.c:90-131`). On the QL it is one job woken once a frame.

## 2. Modules

Every module has one action per operation and carries the source's names.
A comment `Mutant:` marks a deliberately wrong variant of the definition after
it. No definition uses it; it shows which mistake a property would catch.

| Module | Models |
|---|---|
| `Ym2203` | the part of the sound chip the conversion depends on (external): registers, FM latches, tuned pairs, keys. `Hears` applies a sequence of writes |
| `ClockConverter` | `struct clock_converter` as a record; `Emission` is what a write appends to the frame, `Converted` the struct afterwards |
| `Retuning` | what the converter is for, said of any converter and two chips: `Follows`, and `InTune`, what it keeps from write to write |
| `ConverterChip` | the converter between a source chip that hears the log and a target chip that hears what is emitted; `EnterLoop` forgets the cache |
| `FrameStream` | the playback stream as pairs of bytes; an offset is half the code's byte offset |
| `VgmSong` | `vgm_song` (the variable `song`), what the parser guarantees of it (`WellFormed`), segments and frames |
| `VgmParse` | `vgm_parse`, one step per command |
| `VgmConvert` | `vgm_convert`: begin a segment, convert a write, append a frame, end it, join the loop; out of memory anywhere |
| `Player` | `player_start` after decoding, `play_frame` (next record, loop, finish, finished), the test exit |
| `Score` | abstract: once a frame the chip hears the writes of one frame of the song, then the loop or silence |
| `Playback` | `VgmConvert` and `Player` composed, with the refinement mapping to `Score` |
| `QlzFormat` | packet types and lengths, the header, the copying of a match |
| `QlzCompress` | `qlz_stream_create`, one step per round of the loop in `qlz_compress_payload` |
| `QlzDecompress` | `qlz_decompress` of the player, one step per packet; D7 is the distance a continuation uses |
| `QlzDecode` | `qlz_decode`, with `QlzDecompress` as the specification it implements |
| `QlzRoundTrip` | compressor, image (intact or with a damaged byte) and target decoder in sequence |
| `ImageFile` | abstract: what a run does to the output path, in one step or not at all |
| `QlayOutput` | runs of the output half of `qlay.c`, a system call a step, with kill, write-back and power loss (which may take temporary names or bring them back), and the mapping to `ImageFile` |
| `AppendLog` | abstract: a log that takes whole pieces until it fails |
| `ByteBuffer` | `byte_buffer`: growth, copying, refusals, and the mapping to `AppendLog`; `asked` is a history variable |
| `ReadFile` | `read_file`, a system call a step, while somebody else may write to the file |
| `QlayImage` | `qlay_image_fits` (one file a step), the map (one block a step), the sectors (one a step); a byte is its file and position. `through` is a history variable |
| `CommandLine` | the option loop of `cli_main`, one round a step, and beside it what a command line means (`Meaning`, `MeantBy`) |
| `Pipeline` | the rest of `cli_main` and `create_image`, one call a step, each with its failure; it extends `ReadFile` and `QlayImage` and takes the steps of `ImageFile` for the output path |
| `Induction` | induction on the naturals and recursive functions, for the provers (section 5) |
| `ClockConverterProofs`, `ConverterChipProofs` | theorems about the converter |
| `VgmProofs` | theorems about `VgmParse` and `VgmConvert` |
| `PlaybackProofs` | theorems about `Playback`: the player, the score, the sound |
| `QlzProofs` | theorems about `QlzRoundTrip`, the compressor and the target decoder, and about `ByteBuffer` |
| `PipelineProofs` | theorems about `Pipeline` and `QlayImage` |
| `EdgeProofs` | theorems about `CommandLine`, `QlayOutput` and `QlzDecode`, which take whatever comes from outside |
| `MC...`, `MCSongs` | the instances TLC checks |

How the modules meet: `Pipeline` does not repeat `QlayOutput`. It uses `ImageFile`
for the path, and `QlayOutput` is shown to implement `ImageFile` for any number
of runs. It leaves out what parser, converter and compressor compute, which
`VgmParse`, `VgmConvert` and `QlzCompress` have; to it they succeed or fail. The
allocations in it are named after what they hold (`heap`), the descriptors after
the file (`open`), the contents of the temporary directory after the files
(`tmp`); `stuck` is what the system refused to remove. Every action of `Pipeline`
is a call of `cli.c` or `output.c` in program order; `pc` is the next of them.
Once `CommandLine` has come to "proceed", `Pipeline` begins. `ByteBuffer` stands
under the converter and the compressor, in which a refusal is the step
`OutOfMemory` or `CompressOutOfMemory`.

`VgmConvert` assumes of its songs exactly what `VgmParse` is checked to deliver
(`WellFormed`), and `Playback` leaves compression out because `QlzRoundTrip`
checks that it changes nothing: the three together cover the way from file to
sound.

Abstractions. A VGM header up to 0x40 is a record of its fields, and whether the two
sample counts in it match is a field; from there on the file is its bytes, the clock at
0x44 among them. Literal and match copies are one step. The clocks
in the instances are the code's divided by 3200 (625 and 1248), which leaves
every rounded quotient `scale_period` and `converter_emit_fm_pair` compute
unchanged. `CountBase`, `CodeSpan`, `MatchMin`, `HashCount`, `SampleMax`,
`OffsetRange`, `TestWrap`, the sizes of words, buffers, blocks and sectors and the
numbers of them are parameters, so that their limits are reached by small inputs;
the code's values are named where they are declared. A command line is a sequence
of texts, and `Word` tells of a text what the code asks of its characters.
File modes, messages and formatting are left out.

## 3. Runs

| Run | Checks | Instance |
|---|---|---|
| `parse` | a song that is accepted is well formed (`AcceptedIsWellFormed`); commands are read behind the header and before the end it tells (`ReadsInside`); loop time and loop write are those of the command at the loop offset (`LoopIsAtItsCommand`) | all files of up to three commands of eleven kinds, cut off or whole, perhaps an end command, every loop offset, both clocks with the code's values; wrong headers on a few files; commands that begin at 0x40, before the clock, and files that end in it |
| `converter` | `IInv`, `TypeOK`, `ChipFollowsSong`: every pitch on the target is the rescaled pitch of the source; `NothingLost`: a dropped write would not have been heard; `ClippingIsHonest`: a write is counted as clipped exactly when what the song asks of its pair is past the end of the range or missed there | a song writes five PSG registers or an FM channel pair and a channel 3 operator pair, three values or two each, the FM ones around the highest pitch the target has and one block below it, both clocks, with and without adaption, any number of writes and cache resets; `MaxClipped` bounds the counter to 1 (states beyond are not expanded), enough to see it rise and stay |
| `converter_clipping` | expected violation, section 6 | the same |
| `playback` | of the conversion: no internal error, time kept to within a frame, loop offset on a record and one pass from the end, all writes kept, unrolled only when the intro matters; of both: the target chip follows the source chip at every frame (`HearsTheSong`), the stream pointer is on a record (`PointersOnRecords`), the player keeps to the score (`KeepsToScore`) | songs of up to two writes over three samples and, from two pools, of three over two; two samples a frame, so that frames divide the loop unevenly, every loop point, both modes; a count byte tells only two values apart, so frames of four writes are too many |
| `playback_live` | silence at the end for ever; the loop point comes again for ever; a test build leaves; the pointers stay in the decoded stream and the counter a byte (`PlayerTypeOK`) | songs of up to two writes from four; `TestFrames` 0 (no test build) and 4 = `TestWrap`: the byte wraps to 0 as 256 would |
| `qlz_round_trip` | `RoundTrip`, bounds under damage, exact hash chains, no expansion beyond literals | all binary inputs up to 9 long, periodic ones up to 24; `MatchMax` 10, distances to 5 with 2 short, three hash values, chains cut after two |
| `qlz_decode` | the host decoder implements the target's; bounds | every payload up to 4 bytes of 8 values, longer ones of one control byte of each type, true and false headers |
| `qlay_output` | the path only names whole images, now and after a power loss; a failed run leaves neither output nor (unless unlink fails or a power loss undoes it) temporary file; `KeepsPromise`: the calls implement `ImageFile` | two runs, one forced, path absent, regular or special; an image of 8 units, a sector of 2, a buffer of 3, so that writes split sectors and the last is partial |
| `qlay_race` | expected violation, section 6 | the same |
| `byte_buffer` | `NothingMissing`: without the failed flag the buffer is what was appended; `IsAppendLog` | bytes of two values, pieces of 1, 2 and 4, sizes up to 7, first capacity 2: it doubles once and is then cut to what is needed; `realloc` refuses at any time |
| `create_image` | `NothingLeft` and `ExitCodeIsHonest` at every exit; `ReadsWhole` of every file read; `MapInside`; `EveryFileReadsBack`: a reader who knows only the sectors finds every block of every file | one run, with and without a screen, two geometries, eight binary sizes around the ends of blocks and beyond the capacity, one change of a file while it is open (`MaxChanges`), every call failing; words up to 45, so that `output.c`'s check of BOOT's sum, which the sizes of the program never fail, is seen to fail for some |
| `command_line` | `LineIsUnderstood`: the loop's outcome, settings and operands are those the line means | all lines of up to three arguments of every kind, and of four and five from seven that interfere |

Why the bounds suffice. The converter's runs have no bound on the number of
writes, only on registers and values; the registers not included are treated like
those that are. A song needs a write in the intro, one in the loop and one that
makes them differ: three. A loop takes three kinds of frame arithmetic (starting
on, in the middle of and at the end of a frame): two samples a frame and three
samples have them all. A match is split into at most three packets of differing
rest by lengths up to 24. Two runs show every interference on one path, because a
run looks at the path only in `Lstat` and `Rename`. A block's end matters to a file
one byte below it, at it and above it, alone and after another file of several
blocks: the sizes of `create_image` are these, and the theorems of section 5 have
no bound on them. An option touches at most the argument behind it, so what five
arguments cannot show (an option, its value, an option as value, `--`, two
operands) needs no more.

Deadlock checking is off where the system stops: a conversion that is done or
has failed, a decoder that has returned, runs that have all ended, a player that has
left.

## 4. Fairness

Liveness is only claimed in `playback_live`. `PlaybackSpec` has weak fairness of
the player's frames: `player.asm:45-51` suspends the job for one frame with a
timeout, and the QL's frame interrupt wakes it again. It also has weak fairness of
the conversion, since the host program runs to its end; its condition is written
out (`Converting`), as every conversion step is taken from it. Nothing is assumed
of which conversion step is taken, running out of memory included: `TestEnds`,
`EndsSilent` and `LoopsForEver` speak of songs whose conversion is done.
The other modules have safety properties only: a run of the host may be stopped
by a signal or wait for a call at any point.

## 5. Proofs

`tlapm` proves, for every value of the constants under the named assumptions, the
properties below. Every one of them is also checked by a run of section 3. In
parentheses is the inductive invariant, where the property is not one by itself.

**Converter** (`ConverterChipProofs`; lemmas about the helpers in
`ClockConverterProofs`).
* `Invariance` (`IInv`), and from it `TypeCorrectness` and `ChipFollows`
  (`[]ChipFollowsSong`). `IInv` is `InTune` of the converter and the two chips.
  That the chip holds a rescaled period although a write was dropped rests on the
  cache (`CacheCoherent`: what is called known is on the chip); what the next
  write makes of the other byte of a pair or of a latch rests on
  `SourceRemembered`; without adaption the two chips are the same (`RawIsExact`).
  The proof splits a write by the branch of `converter_write` it takes, describes
  the emission and the chip after it in each, and joins the source side and the
  target side.
* `NoWriteLost` and `ClippingIsTold`: the action properties `NothingLost` and
  `ClippingIsHonest`, from `IInv`. The code decides what it counts from a quotient, or
  from the block and the F-number its search ended with; the property says it of the
  pitch asked for. `TooLongIsClipped` goes from one to the other for periods,
  `MissedIsClipped` for FM: a pitch nearer to the top than half a step of block 7 is
  matched worse by any other block (`LowerBlocksReach`) and one below that is offered
  another F-number (`PitchOffered`).

**Parser** (`VgmProofs`): `AcceptedSongs`, `ReadsAreInside`, `LoopIsAtCommand`
(`ParseInv`), for any file and any limits. The invariant has the order in time
of the writes so far, that none is later than now, and that a loop mark once made is
of a command gone by (`LoopInv`): therefore it is not made again, although the
code only compares an offset in every round.

**Song converter** (`VgmProofs`), for any well-formed song.
* `ConversionTyped`, `NoErrorIsInternal`, `FramesKeepTime`, `LoopRejoinsStream`
  (`ConvertInv`). A stream is described by its marks: a function that gives the
  offset of each record (`Marks`); one more record, and two streams joined, have
  the marks one expects, and the marks are what `Boundaries` computes.
* `StoredOnceIfStable` (`[]UnrolledOnlyForIntro`, by `PassInv`): a pass of the loop is
  a function of the converter it begins with (`IsPass`, write by write). Converters
  that are `Alike` send the same and stay alike; and what the two passes begin with
  is alike when the intro leaves what the loop leaves (`Remembers`). `PassInv` says of
  every segment which pass its output is, also while it is being made; that the
  converter keeps the song's clock (`ClockKept`); and that no batch in a stream is
  longer than its count can say (`Counted16`).
* `WritesArePreserved` (`[]WritesPreserved`, by `PassInv`). A write to a register that is
  not skipped is the one thing kept of its emission (`KeptOfEmission`), so a pass
  puts into each frame what the song wrote in it (`PassBatches`); the frames of
  writes in order are in order, so the records one behind the other play the
  segment's writes (`StreamPlays`); and the streams joined play the song's, those of
  the loop twice if it was unrolled (`SongIsPlayed`). The same proof serves both
  halves of the property: nothing is skipped without adaption, the pitched
  registers are with it (`PassesOn`).

**Player** (`PlaybackProofs`).
* `PlayerTyped` (with the pointers inside the stream, `PointersInside`, also after the
  test exit), `PlayerStaysOnRecords` (`PlaybackInv`: the stream pointer is at a mark of
  the stream `SongIsMarked` describes, the loop pointer at the loop's mark), and
  `ScoreIsKept` (`KeepsToScore`): the player refines `Score`, each step of it a step of
  the score or a stutter. The mapping counts the records before the pointer less
  whole passes of the loop; `ShownNext` and `ShownAtEnd` do its arithmetic.
* `SongIsHeard` (`[]HearsTheSong`, by `SoundInv`): the sound of the whole, for every song,
  clock, loop and time played. The converter is gone when the player plays, so
  the invariant brings it back: each record of the stream `Carries` a converter from
  before its frame to after it, which means that chips in tune by the first are
  in tune by the second once the source chip has heard the frame's writes and the
  target chip the record's (`CarriesMore`, write by write from what keeps `InTune`;
  `HearsJoin`: two batches joined are heard as the one and then the other).
  `SongIsCarried` gives the converters of a whole song (`SongCarries`): `a` from its
  first record to its last, and `e` each time the player comes round the loop.
  The passes do not begin with the converter the last ended with, because the
  host forgets its cache, but chips in tune by that are in tune by the new one
  (`Turns`, `StartTurns`); this holds for the jump from the end back to the loop mark
  as well. If the loop is stored once, the records the player repeats are those of
  the first pass, which `LoopIsStable` says are those of the steady one, so they carry
  `e` too; if it is unrolled, the mark is that of the second pass. `TuneInv` says that
  the player is at a mark and the chips are in tune by `a` or `e` there. It begins
  with the board reset, which leaves every period at 0 and no FM channel tuned
  (`ResetIsUnpitched`), as a new converter expects (`Ready`); the silence at the end
  touches no pitch (`FinishKeepsTune`).

**Compression** (`QlzProofs`, for any input of bytes, `AnyInput`): `ChainsAreExact`,
`CompressesOrNotMuch`, `DecoderIsInBounds` and `DecodesTheInput` (`RoundTripInv`: the
compressor's, the loader's and the decoder's). What a payload says is its `Track`: for
each packet its offset, the bytes made before it and the distance a
continuation there would extend. The compressor has written a track of the input up
to the literals it still keeps (`Codes`), in no more bytes than literals would take
(`Affordable`); the decoder of the intact payload is at a point of the track with the
input's bytes up to there (`Follows`). Of a damaged payload only the bounds are
claimed. `MatchPartIs`, the parts of a match being long enough for their
packets, uses that `MatchMin` is at least 3.

**Byte buffer** (`QlzProofs`): `Complete` and `BufferIsLog` (the buffer loses nothing and
implements `AppendLog`; the growth needs that `NewCapacity` is enough and in range,
whichever way its loop ends).

**Host decoder** (`EdgeProofs`): `DecodeInvariance` (bounds for any stream, `AnyStream`),
`DecodersAgree` (the host decoder implements `QlzDecompress`: where the host tests
"distance is not 0 and a continuation is allowed" the target tests D7).

**Image and pipeline** (`PipelineProofs`).
* `MapFits` (`[]MapInside`, by `ImageInv`): `qlay_image_fits` counts blocks by a division,
  `qlay_render_image` by comparing products; the sums up to each file (`through`) say
  how far the map is filled.
* `FilesReadBack` (`[]EveryFileReadsBack`, by `ReadBackInv`): no sector is given out twice,
  each block of the files passed has one, those not given out are free, and the
  sectors written are those of the map.
* `FilesAreWhole`, `EverythingIsGivenBack`, `ExitCodeTells` (`PipelineInv`): for every step
  what the run may hold there (`OwnedAt`), what may be left of the temporary
  directory, and how `created`, the output path, the message and the exit code belong
  together.

**The program's edges** (`EdgeProofs`).
* `LineMeansThis` (`[]LineIsUnderstood`, by `CliInv`), for lines of any length: what the
  loop has made of the arguments behind it is what those alone mean, the loop is
  never at a value, and nothing behind it should have stopped it.
* `OutputTyped`, `PathIsWhole`, `FailureIsClean`, `PromiseKept`, for any number of runs, any
  sizes of image, sector and buffer: `Progress` says of each run what its file and
  its buffer hold at each call (`Gathered`: the file, what is not yet written of the
  buffer and what is not yet copied are the image, one behind the other); what is
  closed is synced, and only runs that succeeded are named by the path.

**Recursion.** The library's induction theorems take an operator as a parameter,
which the provers here cannot instantiate. `Induction` states induction over sets
of numbers instead: a set that has 0 and every successor has every number
(`EveryNumber`). It rests on the library's fact that the strict subsets of finite
sets are well-founded. With it `StepByStep` and `EachFromBelow` show that a function
that is defined by recursion exists, and only then does the `CHOOSE` a recursive
definition stands for say anything: so the offsets of records, the hash chains'
candidates, the packets of a match and `IsValue` are proved about.

The assumptions are those the modules name: clocks are positive
(`ClockAssumption`), registers are bytes and closed under pairs (`RegAssumption`),
values are bytes (`ValueAssumption`), to the parser every byte is a register
(`RegisterAssumption`) and a file is bytes (`FileAssumption`); a frame has samples
(`FrameAssumption`), a byte of a count is a byte (`CountAssumption`), songs are what
the parser accepts (`SongAssumption`, proved as `AcceptedSongs`), and the counter of test
frames has a size (`TestAssumption`); the format's sizes (`QlzAssumption`,
`CompressAssumption`: a match is at least 3 long), damage is a byte
(`DamageAssumption`); `Garbage` is not a byte (`BufferAssumption`); the static assertion
of `qlay.c` and the range of sectors (`ImageAssumption`); positive sizes and distinct
names (`OutputAssumption`); sizes that are words (`ReadAssumption`,
`PipelineAssumption`); what the fields of an argument's text have to do with each
other (`WordAssumption`). TLC evaluates them in each run.

Only model-checked: `TestEnds`, `EndsSilent` and `LoopsForEver`. Liveness needs fairness
and ENABLED, which the provers do not have.

## 6. Disagreements between text and code

`src/README.md:85`: "Existing output is rejected unless `--force` is present." The
look is `lstat` at the beginning (`qlay.c:172-180`), the replacement `rename` at
the end (`qlay.c:280`). Run `qlay_race`: run 1, not forced, finds no file; run 2
writes its image and reports success; run 1 replaces it and reports success too.
Nothing is torn by it (`WholeImages` holds), but an existing output is replaced
without `--force`.

`cli.c:321` says of the values it counts that they "were clipped for QSound2".
`converter_emit_fm_pair` counts a pair when its best match is F-number 2047 of block 7
and not exact (`vgm.c:335`). Run `converter_clipping`: F-number 1025 of block 7 at
3,993,600 Hz asks for 2046.72 of the target's 2047; this is below the target's highest
pitch and rounded as any other value is, but counted. `ClippingIsHonest` states what is
counted: what is past the range, and what is missed at its end.

## 7. Not modelled

* Medium name and random ID (`qlay.c:410-487`): a copied string and a number that
  no other step depends on.
* Checksums, gaps, the names and times in QDOS headers, the text of the generated
  source and of BOOT, messages: formatting. What of a sector a reader goes by
  (its logical number, file, block and payload) is modelled.
* The path arithmetic of `executable_relative_path`: to `Pipeline` it finds a path or
  fails.
* What the assembler does: external; it may leave any file and exit with any status.
* The build program and the tests are not part of the program.
* Timing within a frame: a record is one step of the player.

## 8. Plan

1. Done: converter, chip and song; parser; player and the composition against
   `Score`; compression round trip and both decoders; the output file against
   `ImageFile`; the image; the byte buffer against `AppendLog`; reading of files;
   a whole run; the command line.
2. Done: theorems of all safety properties and of the refinements.
3. Left: liveness, which stays with TLC.
