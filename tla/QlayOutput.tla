----------------------------- MODULE QlayOutput -----------------------------
(***************************************************************************)
(* How an image reaches its path: the output half of qlay.c.  A process is *)
(* one run of qlvgm; all of them write the same OUTPUT.mdv.  The image is  *)
(* gathered in a buffer, written to a temporary file of the run's own,     *)
(* synced, closed and renamed over the path.                               *)
(*                                                                         *)
(* A step is one system call, or the memory work between two of them, so   *)
(* that runs interleave, fail and die between any two calls.  The content  *)
(* of an image is the sequence of its units 1 .. ImageSize; a unit stands  *)
(* for some bytes.  The file a run creates is named by the run; a file's   *)
(* first synced units are those a power loss cannot take away.             *)
(***************************************************************************)
EXTENDS Integers, Sequences, FiniteSetsExt

CONSTANTS
  Process,
  Forced,       (* the runs with --force                                *)
  Absent,       (* the path names nothing                               *)
  Old,          (* the path names a regular file none of the runs wrote *)
  Special,      (* the path names something else than a regular file    *)
  Sectors,      (* sectors of an image                                  *)
  SectorSize,   (* QLAY_SECTOR_SIZE, in units                           *)
  BufferSize    (* QLAY_FILE_BUFFER_SIZE, in units                      *)

ASSUME OutputAssumption ==
  /\ Forced \subseteq Process
  /\ {Absent, Old, Special} \cap Process = {}
  /\ {Sectors, SectorSize, BufferSize} \subseteq Nat \ {0}

VARIABLES
  pc,       (* pc[p]: the next call of run p, or how it ended           *)
  buffer,   (* output.buffer[0 .. buffered)                             *)
  done,     (* what qlay_write_bytes has written of the buffer          *)
  copied,   (* the units of the image copied to the buffer so far       *)
  file,     (* file[p]: what run p's file holds                         *)
  synced,   (* the units of it that are on the disk                     *)
  linked,   (* whether the temporary path of run p exists               *)
  target,   (* what the output path names                               *)
  stable    (* what the disk knows of the path                          *)

local == <<buffer, done, copied>>
disk == <<file, synced, linked, target, stable>>
outputVars == <<pc, local, disk>>

ImageSize == Sectors * SectorSize
Image == [k \in 1 .. ImageSize |-> k]
Named == Process \cup {Absent, Old, Special}

Running == {"lstat", "mkstemp", "fchmod", "render", "flush", "last_flush", "fsync",
            "close", "close_bad", "rename", "unlink"}
(* refused: it ended before it had a temporary file; failed: with an error *)
(* after that; littered: and the temporary file could not be removed;      *)
(* undone: and a power loss brought the removed file back.                 *)
Ended == {"succeeded", "refused", "failed", "littered", "undone", "killed"}

TypeOK ==
  /\ pc \in [Process -> Running \cup Ended]
  /\ {buffer, file} \subseteq [Process -> Seq(1 .. ImageSize)]
  /\ {copied, synced} \subseteq [Process -> 0 .. ImageSize]
  /\ done \in [Process -> 0 .. BufferSize]
  /\ \A p \in Process : /\ Len(buffer[p]) <= BufferSize /\ done[p] <= Len(buffer[p])
                        /\ Len(file[p]) <= ImageSize /\ synced[p] <= Len(file[p])
  /\ linked \in [Process -> BOOLEAN]
  /\ {target, stable} \subseteq Named

Init ==
  /\ pc = [p \in Process |-> "lstat"]
  /\ buffer = [p \in Process |-> << >>]
  /\ done = [p \in Process |-> 0]
  /\ copied = [p \in Process |-> 0]
  /\ file = [p \in Process |-> << >>]
  /\ synced = [p \in Process |-> 0]
  /\ linked = [p \in Process |-> FALSE]
  /\ target \in {Absent, Old, Special}
  /\ stable = target

Goto(p, where) == pc' = [pc EXCEPT ![p] = where]
-----------------------------------------------------------------------------
(* qlay_output_begin: a path that exists needs --force and a regular file; *)
(* lstat may also fail.                                                    *)
Acceptable(p) == target # Absent => p \in Forced /\ target # Special

Lstat(p) ==
  /\ pc[p] = "lstat"
  /\ \/ Acceptable(p) /\ Goto(p, "mkstemp")
     \/ Goto(p, "refused")
  /\ UNCHANGED <<local, disk>>

Mkstemp(p) ==
  /\ pc[p] = "mkstemp"
  /\ \/ Goto(p, "fchmod") /\ linked' = [linked EXCEPT ![p] = TRUE]
     \/ Goto(p, "refused") /\ UNCHANGED linked
  /\ UNCHANGED <<local, file, synced, target, stable>>

Fchmod(p) ==
  /\ pc[p] = "fchmod"
  /\ Goto(p, "render") \/ Goto(p, "unlink")
  /\ UNCHANGED <<local, disk>>
-----------------------------------------------------------------------------
(* One round of the loop in qlay_output_write, under the loop over sectors *)
(* of qlay_render_image: as much of the sector as the buffer takes.        *)
CopyCount(p) ==
  Min({SectorSize - (copied[p] % SectorSize), BufferSize - Len(buffer[p])})

Render(p) ==
  /\ pc[p] = "render" /\ copied[p] < ImageSize
  /\ buffer' = [buffer EXCEPT ![p] =
                  @ \o SubSeq(Image, copied[p] + 1, copied[p] + CopyCount(p))]
  /\ copied' = [copied EXCEPT ![p] = @ + CopyCount(p)]
  /\ Goto(p, IF Len(buffer'[p]) = BufferSize THEN "flush" ELSE "render")
  /\ UNCHANGED <<done, disk>>

(* qlay_output_finish of a rendered image.                                 *)
Rendered(p) ==
  /\ pc[p] = "render" /\ copied[p] = ImageSize
  /\ Goto(p, IF buffer[p] # << >> THEN "last_flush" ELSE "fsync")
  /\ UNCHANGED <<local, disk>>

(* Mutant: the buffer is not emptied after it was written.                 *)
EmptiedNever(p) == UNCHANGED buffer /\ done' = [done EXCEPT ![p] = 0]

Emptied(p) == buffer' = [buffer EXCEPT ![p] = << >>] /\ done' = [done EXCEPT ![p] = 0]

(* A write(2) of what is left of the buffer takes some of it.              *)
Write(p) ==
  /\ pc[p] \in {"flush", "last_flush"}
  /\ \E count \in 1 .. Len(buffer[p]) - done[p] :
       /\ file' = [file EXCEPT ![p] = @ \o SubSeq(buffer[p], done[p] + 1, done[p] + count)]
       /\ IF done[p] + count < Len(buffer[p])
          THEN done' = [done EXCEPT ![p] = @ + count] /\ UNCHANGED <<pc, buffer>>
          ELSE /\ Emptied(p)
               /\ Goto(p, IF pc[p] = "flush" THEN "render" ELSE "fsync")
  /\ UNCHANGED <<copied, synced, linked, target, stable>>

(* It writes nothing and fails for good, and the image is not rendered.    *)
(* (EINTR changes nothing: the call is made again.)                        *)
WriteFails(p) ==
  /\ pc[p] \in {"flush", "last_flush"}
  /\ Goto(p, "close_bad")
  /\ UNCHANGED <<local, disk>>
-----------------------------------------------------------------------------
(* Mutant: the file is closed without having reached the disk.             *)
FsyncSkipped(p) ==
  pc[p] = "fsync" /\ Goto(p, "close") /\ UNCHANGED <<local, disk>>

Fsync(p) ==
  /\ pc[p] = "fsync"
  /\ \/ Goto(p, "close") /\ synced' = [synced EXCEPT ![p] = Len(file[p])]
     \/ Goto(p, "close_bad") /\ UNCHANGED synced
  /\ UNCHANGED <<local, file, linked, target, stable>>

Close(p) ==
  /\ \/ pc[p] = "close" /\ (Goto(p, "rename") \/ Goto(p, "unlink"))
     \/ pc[p] = "close_bad" /\ Goto(p, "unlink")
  /\ UNCHANGED <<local, disk>>

(* Mutant: a run whose rename failed leaves at once.                       *)
RenameOrLeave(p) ==
  /\ pc[p] = "rename"
  /\ \/ /\ target' = p
        /\ linked' = [linked EXCEPT ![p] = FALSE]
        /\ Goto(p, "succeeded")
     \/ Goto(p, "failed") /\ UNCHANGED <<linked, target>>
  /\ UNCHANGED <<local, file, synced, stable>>

(* rename replaces whatever regular file the path names by now.            *)
Rename(p) ==
  /\ pc[p] = "rename"
  /\ \/ /\ target' = p
        /\ linked' = [linked EXCEPT ![p] = FALSE]
        /\ Goto(p, "succeeded")
     \/ Goto(p, "unlink") /\ UNCHANGED <<linked, target>>
  /\ UNCHANGED <<local, file, synced, stable>>

(* The failure path; the result of unlink is ignored.                      *)
Unlink(p) ==
  /\ pc[p] = "unlink"
  /\ \/ Goto(p, "failed") /\ linked' = [linked EXCEPT ![p] = FALSE]
     \/ Goto(p, "littered") /\ UNCHANGED linked
  /\ UNCHANGED <<local, file, synced, target, stable>>
-----------------------------------------------------------------------------
Kill(p) ==
  /\ pc[p] \in Running
  /\ Goto(p, "killed")
  /\ UNCHANGED <<local, disk>>

(* The file system writes back data and directory entries when it likes.   *)
WriteBack ==
  /\ \/ \E p \in Process : /\ synced[p] < Len(file[p])
                           /\ synced' = [synced EXCEPT ![p] = @ + 1]
                           /\ UNCHANGED stable
     \/ stable # target /\ stable' = target /\ UNCHANGED synced
  /\ UNCHANGED <<pc, local, file, linked, target>>

(* The temporary paths a power loss may bring back: nothing syncs the      *)
(* directory, so the unlink or the rename may not have reached the disk.   *)
MayReturn(p) == pc[p] = "failed" \/ (pc[p] = "succeeded" /\ p # stable)

(* The machine stops and comes up again with what the disk holds: any      *)
(* temporary path may be gone, too.                                        *)
PowerLoss ==
  /\ \E p \in Process : pc[p] \in Running
  /\ linked' \in [Process -> BOOLEAN]
  /\ \A p \in Process : linked'[p] => linked[p] \/ MayReturn(p)
  /\ pc' = [p \in Process |-> IF pc[p] \in Running THEN "killed"
                             ELSE IF pc[p] = "failed" /\ linked'[p] THEN "undone"
                             ELSE pc[p]]
  /\ file' = [p \in Process |-> SubSeq(file[p], 1, synced[p])]
  /\ target' = stable
  /\ UNCHANGED <<local, synced, stable>>

Run(p) ==
  \/ Lstat(p) \/ Mkstemp(p) \/ Fchmod(p) \/ Render(p) \/ Rendered(p) \/ Write(p)
  \/ WriteFails(p) \/ Fsync(p) \/ Close(p) \/ Rename(p) \/ Unlink(p)

Next == (\E p \in Process : Run(p) \/ Kill(p)) \/ WriteBack \/ PowerLoss

Spec == Init /\ [][Next]_outputVars
-----------------------------------------------------------------------------
(* The path never names part of an image, nor an image with a piece        *)
(* missing, repeated or out of its place: neither now nor, from what the   *)
(* disk knows, after a power loss at this moment.                          *)
WholeImages ==
  /\ target \in Process => file[target] = Image
  /\ stable \in Process => SubSeq(file[stable], 1, synced[stable]) = Image

(* What the theorems are proved from.  Until the image is complete, a      *)
(* run's file and the rest of its buffer are the units copied so far; what *)
(* is closed, renamed or named by the path is complete and synced.  (Said  *)
(* of each unit, as the file and the buffer only ever hold a stretch.)     *)
Follow(units, before) == \A k \in 1 .. Len(units) : units[k] = before + k

Gathered(p) ==
  /\ Len(file[p]) + Len(buffer[p]) - done[p] = copied[p]
  /\ Follow(file[p], 0)
  /\ Follow(buffer[p], Len(file[p]) - done[p])

Progress(p) ==
  /\ pc[p] \in {"lstat", "mkstemp", "fchmod", "render", "flush", "last_flush"} => Gathered(p)
  /\ pc[p] \in {"lstat", "mkstemp", "fchmod", "render"} => done[p] = 0
  /\ pc[p] = "last_flush" => copied[p] = ImageSize
  /\ pc[p] \in {"fsync", "close", "rename", "succeeded"} => file[p] = Image
  /\ pc[p] \in {"close", "rename", "succeeded"} => synced[p] = ImageSize
  /\ pc[p] \in {"lstat", "mkstemp", "refused", "failed"} => ~linked[p]

IInv ==
  /\ TypeOK
  /\ \A p \in Process : Progress(p) /\ (p \in {target, stable} => pc[p] = "succeeded")

(* A run that reports a failure has not replaced the output, and unless it *)
(* could not remove it, has taken its temporary file away, be it that a    *)
(* power loss brings it back.                                              *)
FailureLeavesNothing ==
  \A p \in Process :
    pc[p] \in {"refused", "failed", "littered", "undone"} =>
      /\ p \notin {target, stable}
      /\ linked[p] => pc[p] \in {"littered", "undone"}

(* All of it against the promise the caller relies on: a run's image stands *)
(* for the run as long as it is whole.                                     *)
PhaseOf(where) ==
  CASE where \in {"lstat", "mkstemp"}                -> "before"
    [] where \in Running \ {"lstat", "mkstemp"}      -> "writing"
    [] where \in {"refused", "failed", "littered", "undone"} -> "failed"
    [] where \in {"succeeded", "killed"}             -> where

Phase == [p \in Process |-> PhaseOf(pc[p])]

Temps == {p \in Process : linked[p]}

TargetShown ==
  IF target \in Process /\ file[target] # Image THEN "torn" ELSE target

StableShown ==
  IF stable \in Process /\ SubSeq(file[stable], 1, synced[stable]) # Image THEN "torn" ELSE stable

Promise == INSTANCE ImageFile WITH
  phase <- Phase, temps <- Temps, target <- TargetShown, stable <- StableShown

KeepsPromise == Promise!FileSpec

(* README 85: existing output is rejected unless --force is present.       *)
ExistingOutputKept ==
  [][\A p \in Process \ Forced :
       pc[p] = "rename" /\ pc'[p] = "succeeded" => target = Absent]_outputVars
=============================================================================
