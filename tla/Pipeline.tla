------------------------------ MODULE Pipeline ------------------------------
(***************************************************************************)
(* One run of qlvgm after its options were parsed: the rest of cli_main    *)
(* (cli.c) and create_image (output.c).  It locates its companions, reads  *)
(* the files, parses, converts and compresses, writes a source for the     *)
(* assembler into a temporary directory, runs it, reads the binary back    *)
(* and writes the image.  Each step can fail, and every failure has to     *)
(* give back what was taken until then.                                    *)
(*                                                                         *)
(* Composed of ReadFile (its variables are the run's), QlayImage (what is  *)
(* in the image) and ImageFile, the promise QlayOutput keeps about the     *)
(* output path.  What parser, converter and compressor compute is left     *)
(* out: they succeed, or fail with a message and without a result.  The    *)
(* assembler is external: it may leave any binary, or none, and a file of  *)
(* its own, and exit with any status.                                      *)
(***************************************************************************)
EXTENDS ReadFile, QlayImage

CONSTANTS
  UserSizes,      (* UserSizes[name]: the sizes an input file may have  *)
  BinarySizes,    (* the sizes the assembler's output may have          *)
  DecodedSizes,   (* the sizes of a converted stream                    *)
  Geometry,       (* --sectors                                          *)
  ScreenSize,     (* QLVGM_SCREEN_SIZE                                  *)
  BootSize,       (* the size of BOOT; below QLVGM_BOOT_BYTES           *)
  MaxWord,        (* UINT32_MAX                                         *)
  Absent, Old, Special

ASSUME PipelineAssumption ==
  /\ Geometry \subseteq MinSectors .. MaxSectors
  /\ DecodedSizes \cup BinarySizes \subseteq 0 .. MaxWord
  /\ {ScreenSize, BootSize} \subseteq Nat \ {0}
  /\ UserSizes \in [{"screen", "input", "player"} -> SUBSET Nat]
  /\ MaxWord \in Nat
  /\ "run" \notin {Absent, Old, Special}

VARIABLES
  pc,         (* the step that comes next                                *)
  options,    (* image_options, as far as they decide the steps          *)
  error,      (* whether error.text, or stderr directly, has a message   *)
  created,    (* what create_image returned                              *)
  decoded,    (* compressed.raw_size                                     *)
  loaded,     (* binary.size                                             *)
  reserved,   (* the number BOOT passes to RESPR                         *)
  tmp,        (* what exists of the temporary directory                  *)
  stuck,      (* what of it could not be removed                         *)
  exit_code,  (* of main, once there is one                              *)
  phase, temps, target, stable    (* ImageFile *)

held == <<heap, open>>
facts == <<options, created, decoded, loaded, reserved>>
temporary == <<tmp, stuck>>
output == <<phase, temps, target, stable>>
pipelineVars ==
  <<reading, held, imageVars, pc, error, exit_code, facts, temporary, output>>

Self == "run"

File == INSTANCE ImageFile WITH Process <- {Self}

PipelineInit ==
  /\ ReadInit /\ ImageInit /\ File!FileInit
  /\ heap = {} /\ open = {}
  /\ pc = "locate"
  /\ options \in [ screen : BOOLEAN, sectors : Geometry ]
  /\ error = FALSE /\ exit_code = -1
  /\ created = FALSE /\ decoded = 0 /\ loaded = 0 /\ reserved = 0
  /\ tmp = {} /\ stuck = {}

Goto(where) == pc' = where /\ UNCHANGED <<error, exit_code>>

(* return 1 from cli_main with a message, after the free calls on that way. *)
Quits(freed) ==
  /\ pc' = "exit" /\ exit_code' = 1 /\ error' = TRUE
  /\ heap' = heap \ freed
  /\ UNCHANGED open

(* create_image has ok = false, a message, and goes on to clean up.        *)
GivesUp == pc' = "clean" /\ error' = TRUE /\ UNCHANGED exit_code
-----------------------------------------------------------------------------
(* QLASM and QLVGM_PLAYER, or the companions beside the executable.        *)
Locate ==
  /\ pc = "locate"
  /\ \/ Goto(IF options.screen THEN "screen" ELSE "input") /\ UNCHANGED held
     \/ Quits({})
  /\ UNCHANGED <<reading, imageVars, facts, temporary, output>>

(* Anybody may write to the files the user names; the temporary directory  *)
(* is the run's own.                                                       *)
Shared == {"screen", "input", "player"}

SizesOf(name) ==
  IF name \in Shared THEN UserSizes[name]
  ELSE IF name \in tmp THEN BinarySizes ELSE {}

CallRead ==
  /\ pc \in Shared \cup {"binary"}
  /\ OpenFile(pc, SizesOf(pc))
  /\ UNCHANGED <<imageVars, pc, error, exit_code, facts, temporary, output>>

Reading ==
  /\ pc = path
  /\ ReadStep \/ (path \in Shared /\ FileChanges(SizesOf(path)))
  /\ UNCHANGED <<imageVars, pc, error, exit_code, facts, temporary, output>>

Reads(name, result) == pc = name /\ call = result /\ ReadReturns

ScreenRead ==
  /\ \/ Reads("screen", "true") /\ told = ScreenSize /\ Goto("input") /\ UNCHANGED held
     \/ Reads("screen", "true") /\ told # ScreenSize /\ Quits({"screen"})
     \/ Reads("screen", "false") /\ Quits({})
  /\ UNCHANGED <<imageVars, facts, temporary, output>>

(* Mutant: only the file just asked for is given up.                       *)
InputReadAlone ==
  /\ \/ Reads("input", "true") /\ Goto("parse") /\ UNCHANGED held
     \/ Reads("input", "false") /\ Quits({})
  /\ UNCHANGED <<imageVars, facts, temporary, output>>

InputRead ==
  /\ \/ Reads("input", "true") /\ Goto("parse") /\ UNCHANGED held
     \/ Reads("input", "false") /\ Quits({"screen"})
  /\ UNCHANGED <<imageVars, facts, temporary, output>>

(* vgm_parse may fail with the song's writes allocated.                    *)
Parse ==
  /\ pc = "parse"
  /\ \/ /\ Goto("convert")
        /\ heap' = (heap \ {"input"}) \cup {"song"} /\ UNCHANGED open
     \/ Quits({"input", "song", "screen"})
  /\ UNCHANGED <<reading, imageVars, facts, temporary, output>>

Convert ==
  /\ pc = "convert"
  /\ \/ Goto("compress") /\ heap' = heap \cup {"converted"} /\ UNCHANGED open
     \/ Quits({"song", "screen"})
  /\ UNCHANGED <<reading, imageVars, facts, temporary, output>>

Compress ==
  /\ pc = "compress"
  /\ \/ /\ Goto("mkdtemp")
        /\ heap' = heap \cup {"compressed"} /\ UNCHANGED open
        /\ decoded' \in DecodedSizes
     \/ Quits({"converted", "song", "screen"}) /\ UNCHANGED decoded
  /\ UNCHANGED <<reading, imageVars, options, created, loaded, reserved>>
  /\ UNCHANGED <<temporary, output>>
-----------------------------------------------------------------------------
(* create_image, with temporary_paths_create; the paths are short.         *)
Mkdtemp ==
  /\ pc = "mkdtemp"
  /\ \/ Goto("player") /\ tmp' = {"directory"}
     \/ pc' = "free" /\ error' = TRUE /\ UNCHANGED <<exit_code, tmp>>
  /\ UNCHANGED <<reading, held, imageVars, facts, stuck, output>>

(* write_player_source, down to CloseSource.                               *)
PlayerRead ==
  /\ \/ Reads("player", "true") /\ Goto("create_source")
     \/ Reads("player", "false") /\ GivesUp
  /\ UNCHANGED <<held, imageVars, facts, temporary, output>>

CreateSource ==
  /\ pc = "create_source"
  /\ \/ /\ Goto("fdopen")
        /\ tmp' = tmp \cup {"source"} /\ open' = open \cup {"source"}
        /\ UNCHANGED heap
     \/ GivesUp /\ heap' = heap \ {"player"} /\ UNCHANGED <<open, tmp>>
  /\ UNCHANGED <<reading, imageVars, facts, stuck, output>>

Fdopen ==
  /\ pc = "fdopen"
  /\ \/ Goto("write_source") /\ heap' = heap \cup {"stream"} /\ UNCHANGED open
     \/ GivesUp /\ heap' = heap \ {"player"} /\ open' = open \ {"source"}
  /\ UNCHANGED <<reading, imageVars, facts, temporary, output>>

WriteSource ==
  /\ pc = "write_source"
  /\ \/ Goto("close_source") /\ heap' = heap \ {"player"} /\ UNCHANGED open
     \/ GivesUp /\ heap' = heap \ {"player", "stream"} /\ open' = open \ {"source"}
  /\ UNCHANGED <<reading, imageVars, facts, temporary, output>>

CloseSource ==
  /\ pc = "close_source"
  /\ Goto("assemble") \/ GivesUp
  /\ heap' = heap \ {"stream"} /\ open' = open \ {"source"}
  /\ UNCHANGED <<reading, imageVars, facts, temporary, output>>

(* run_process: the child cannot be started, executed or waited for, or    *)
(* ends badly; whatever its status, its files are there.                   *)
Assemble ==
  /\ pc = "assemble"
  /\ \E made \in SUBSET {"binary", "litter"} : tmp' = tmp \cup made
  /\ Goto("binary") \/ GivesUp
  /\ UNCHANGED <<reading, held, imageVars, facts, stuck, output>>

BinaryRead ==
  /\ \/ /\ Reads("binary", "true")
        /\ IF told = 0 THEN GivesUp /\ UNCHANGED loaded
                       ELSE Goto("boot") /\ loaded' = told
     \/ Reads("binary", "false") /\ GivesUp /\ UNCHANGED loaded
  /\ UNCHANGED <<held, imageVars, options, created, decoded, reserved>>
  /\ UNCHANGED <<temporary, output>>

(* Mutant: the sum is trusted to be a word.                                *)
BootIsPossibleAlways == TRUE

BootIsPossible == loaded <= MaxWord - decoded

(* make_boot, and the list of files for qlay_write_image.                  *)
MakeBoot ==
  /\ pc = "boot"
  /\ IF BootIsPossible
     THEN /\ Goto("image")
          /\ reserved' = (loaded + decoded) % (MaxWord + 1)
          /\ WriteImage(<<BootSize, loaded>>
                          \o (IF options.screen THEN <<ScreenSize>> ELSE << >>),
                        options.sectors)
     ELSE GivesUp /\ UNCHANGED <<reserved, imageVars>>
  /\ UNCHANGED <<reading, held, options, created, decoded, loaded>>
  /\ UNCHANGED <<temporary, output>>
-----------------------------------------------------------------------------
(* qlay_write_image.                                                       *)
FitImage ==
  /\ pc = "image"
  /\ \/ CountFile /\ Goto("image")
     \/ Judge /\ (IF Fits THEN Goto("begin") ELSE GivesUp)
  /\ UNCHANGED <<reading, held, facts, temporary, output>>

BeginOutput ==
  /\ pc = "begin"
  /\ \/ Goto("render") /\ File!Begin(Self)
     \/ GivesUp /\ File!Refuse(Self)
  /\ UNCHANGED <<reading, held, imageVars, facts, temporary>>

RenderImage ==
  /\ pc = "render"
  /\ \/ BeginRender \/ MapBlock \/ NextFile \/ MapDone
     \/ RenderSector \/ Rendered
  /\ UNCHANGED <<reading, held, pc, error, exit_code, facts, temporary, output>>

(* A call fails: fchmod before the first sector, write among them, any of  *)
(* write, fsync, close and rename after the last.                          *)
OutputFails ==
  /\ pc = "render" /\ stage \in {"fits", "sectors", "rendered"}
  /\ GivesUp /\ File!Abandon(Self)
  /\ UNCHANGED <<reading, held, imageVars, facts, temporary>>

FinishOutput ==
  /\ pc = "render" /\ stage = "rendered"
  /\ Goto("clean") /\ File!Commit(Self)
  /\ created' = TRUE
  /\ UNCHANGED <<reading, held, imageVars, options, decoded, loaded, reserved, temporary>>
-----------------------------------------------------------------------------
(* free(binary.data) and temporary_paths_clean, whose calls may each fail  *)
(* and are not looked at.                                                  *)
Clean ==
  /\ pc = "clean"
  /\ Goto("unlink_source")
  /\ heap' = heap \ {"binary"}
  /\ UNCHANGED <<reading, open, imageVars, facts, temporary, output>>

Removes(name) ==
  \/ tmp' = tmp \ {name} /\ UNCHANGED stuck
  \/ name \in tmp /\ stuck' = stuck \cup {name} /\ UNCHANGED tmp

Unlink ==
  /\ \/ pc = "unlink_source" /\ Removes("source") /\ Goto("unlink_binary")
     \/ pc = "unlink_binary" /\ Removes("binary") /\ Goto("rmdir")
  /\ UNCHANGED <<reading, held, imageVars, facts, output>>

Rmdir ==
  /\ pc = "rmdir"
  /\ Goto("free")
  /\ IF tmp = {"directory"} THEN Removes("directory") ELSE UNCHANGED temporary
  /\ UNCHANGED <<reading, held, imageVars, facts, output>>

(* The end of cli_main.                                                    *)
Exit ==
  /\ pc = "free"
  /\ pc' = "exit" /\ exit_code' = (IF created THEN 0 ELSE 1) /\ UNCHANGED error
  /\ heap' = heap \ {"compressed", "converted", "song", "screen"}
  /\ UNCHANGED <<reading, open, imageVars, facts, temporary, output>>

(* A signal ends the run; what it held in memory is the system's again.    *)
Kill ==
  /\ pc \notin {"exit", "killed"}
  /\ pc' = "killed" /\ heap' = {} /\ open' = {}
  /\ IF phase[Self] \in File!Live THEN File!Die(Self) ELSE UNCHANGED output
  /\ UNCHANGED <<reading, imageVars, error, exit_code, facts, temporary>>

PipelineNext ==
  \/ Locate \/ CallRead \/ Reading \/ ScreenRead \/ InputRead
  \/ Parse \/ Convert \/ Compress
  \/ Mkdtemp \/ PlayerRead \/ CreateSource \/ Fdopen \/ WriteSource \/ CloseSource
  \/ Assemble \/ BinaryRead \/ MakeBoot
  \/ FitImage \/ BeginOutput \/ RenderImage \/ OutputFails \/ FinishOutput
  \/ Clean \/ Unlink \/ Rmdir \/ Exit \/ Kill

PipelineSpec == PipelineInit /\ [][PipelineNext]_pipelineVars
-----------------------------------------------------------------------------
(* What the theorems are proved from: what a run may hold at each step,    *)
(* besides the buffer of a read in progress ...                            *)
Kept == {"screen", "song", "converted", "compressed"}

OwnedAt(where) ==
  CASE where \in {"locate", "screen", "exit", "killed"} -> {}
    [] where = "input"                                  -> {"screen"}
    [] where = "parse"                                  -> {"screen", "input"}
    [] where = "convert"                                -> {"screen", "song"}
    [] where = "compress"                               -> {"screen", "song", "converted"}
    [] where \in {"create_source", "fdopen"}            -> Kept \cup {"player"}
    [] where = "write_source"                           -> Kept \cup {"player", "stream"}
    [] where = "close_source"                           -> Kept \cup {"stream"}
    [] where \in {"boot", "image", "begin", "render", "clean"} -> Kept \cup {"binary"}
    [] where \in {"mkdtemp", "player", "assemble", "binary", "unlink_source",
                  "unlink_binary", "rmdir", "free"}     -> Kept

Early == {"locate", "screen", "input", "parse", "convert", "compress", "mkdtemp"}
Making == {"player", "create_source", "fdopen", "write_source", "close_source", "assemble",
           "binary", "boot", "image", "begin", "render"}
Cleaning == {"clean", "unlink_source", "unlink_binary", "rmdir", "free"}

InCall == call # "no" /\ pc # "killed"

Holdings ==
  /\ path \in Shared \cup {"none", "binary"}
  /\ InCall => path = pc /\ pc \in {"screen", "input", "player", "binary"}
  /\ heap \subseteq OwnedAt(pc) \cup (IF InCall /\ call # "false" THEN {path} ELSE {})
  /\ open \subseteq (IF InCall /\ call \in {"fstat", "malloc", "read"} THEN {"file"} ELSE {})
                   \cup (IF pc \in {"fdopen", "write_source", "close_source"}
                         THEN {"source"} ELSE {})

(* ... what of the temporary directory is left, and why ...                *)
Refused == stuck # {}

Leavings ==
  /\ tmp \subseteq {"directory", "source", "binary", "litter"}
  /\ pc \in Early => tmp = {}
  /\ pc \in {"unlink_binary", "rmdir"} => ("source" \in tmp => Refused)
  /\ pc = "rmdir" => ("binary" \in tmp => Refused)
  /\ pc \in {"free", "exit"} => (tmp # {} => Refused \/ "litter" \in tmp)

(* ... and how the outcome, the output and the exit code belong together.  *)
Booted ==
  /\ files[2] = loaded /\ loaded > 0
  /\ reserved = loaded + decoded

Outcome ==
  /\ pc \in Early \cup Making \cup Cleaning \cup {"exit", "killed"}
  /\ decoded \in 0 .. MaxWord /\ loaded \in Nat
  /\ pc = "boot" => loaded > 0
  /\ pc \in {"image", "begin", "render"} => Booted
  /\ pc \in Early \cup Making => ~created
  /\ created => target = Self /\ stage = "rendered" /\ Booted
  /\ ~created => target \in {Absent, Old, Special}
  /\ pc \in Cleaning /\ ~created => error
  /\ pc # "exit" => exit_code = -1
  /\ pc = "exit" => exit_code = (IF created THEN 0 ELSE 1) /\ (created \/ error)

PipelineInv == ReadInv /\ Holdings /\ Leavings /\ Outcome

(* A run that ends by itself has freed what it allocated, closed what it   *)
(* opened and removed its temporary directory, wherever it failed; unless  *)
(* a removal was refused or the assembler left a file of its own there.    *)
NothingLeft ==
  pc = "exit" =>
    /\ heap = {} /\ open = {}
    /\ tmp # {} => stuck # {} \/ "litter" \in tmp

(* The exit code can be relied on: with 0 the output is this run's image,  *)
(* rendered to the end, and BOOT reserves the memory for the player and    *)
(* the decoded stream behind it; with 1 the output is what it was, and the *)
(* user was told why.                                                      *)
ExitCodeIsHonest ==
  /\ exit_code = 0 =>
       /\ target = Self /\ stage = "rendered"
       /\ files[2] = loaded /\ loaded > 0
       /\ reserved = loaded + decoded
  /\ exit_code = 1 => target \in {Absent, Old, Special} /\ error
=============================================================================
