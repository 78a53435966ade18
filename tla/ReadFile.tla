------------------------------ MODULE ReadFile ------------------------------
(***************************************************************************)
(* read_file of runtime.c: a whole file into memory, for whichever caller. *)
(* A step is one call to the system.  The size is what fstat tells; the    *)
(* file may be written to by somebody else at any moment until it is       *)
(* closed.  A byte is the pair of the file's version it was read from and  *)
(* its position.                                                           *)
(*                                                                         *)
(* What a call leaves behind is kept in heap and open, which the caller    *)
(* shares; the buffer is known by the name of the path.                    *)
(***************************************************************************)
EXTENDS Integers, Sequences

CONSTANTS
  MaxInput,     (* QLVGM_MAX_INPUT_BYTES                          *)
  MaxChanges    (* bound: how often a file changes while it is open *)

ASSUME ReadAssumption == {MaxInput, MaxChanges} \subseteq Nat

VARIABLES
  call,      (* "no", the call in progress, or how it ended: "true" or "false" *)
  path,      (* which file is read                                             *)
  content,   (* the file: its size and version                                 *)
  told,      (* the size fstat told                                            *)
  data,      (* data[0 .. offset)                                              *)
  heap,      (* the allocations of the program                                 *)
  open       (* its open descriptors                                           *)

reading == <<call, path, content, told, data>>

NoFile == [ size |-> 0, version |-> 0 ]

ReadInit ==
  /\ call = "no" /\ path = "none" /\ content = NoFile
  /\ told = 0 /\ data = << >>

Fails == call' = "false" /\ open' = open \ {"file"} /\ heap' = heap \ {path}

(* open(2); sizes are those the file may have.                             *)
OpenFile(name, sizes) ==
  /\ call = "no"
  /\ path' = name /\ told' = 0 /\ data' = << >>
  /\ \/ /\ call' = "fstat" /\ open' = open \cup {"file"}
        /\ \E size \in sizes : content' = [ size |-> size, version |-> 0 ]
     \/ call' = "false" /\ content' = NoFile /\ UNCHANGED open
  /\ UNCHANGED heap

Fstat ==
  /\ call = "fstat"
  /\ \/ /\ content.size <= MaxInput
        /\ call' = "malloc" /\ told' = content.size
        /\ UNCHANGED <<heap, open>>
     \/ Fails /\ UNCHANGED told
  /\ UNCHANGED <<path, content, data>>

Malloc ==
  /\ call = "malloc"
  /\ \/ call' = "read" /\ heap' = heap \cup {path} /\ UNCHANGED open
     \/ Fails
  /\ UNCHANGED <<path, content, told, data>>

(* Mutant: every call asks for the whole size again.                       *)
WantedWhole == told

(* What a call of read(2) asks for.                                        *)
Wanted == told - Len(data)

(* It gives as much of that as it likes, if there is any.                  *)
Read ==
  /\ call = "read" /\ Len(data) < told
  /\ \E count \in 1 .. Wanted :
       /\ Len(data) + count <= content.size
       /\ data' = data \o [k \in 1 .. count |-> <<content.version, Len(data) + k - 1>>]
  /\ UNCHANGED <<call, path, content, told, heap, open>>

(* An error, or the end of a file that was cut off since fstat.            *)
ReadStops ==
  /\ call = "read" /\ Len(data) < told
  /\ Fails
  /\ UNCHANGED <<path, content, told, data>>

CloseFile ==
  /\ call = "read" /\ Len(data) >= told
  /\ \/ call' = "true" /\ open' = open \ {"file"} /\ UNCHANGED heap
     \/ Fails
  /\ UNCHANGED <<path, content, told, data>>

ReadStep == Fstat \/ Malloc \/ Read \/ ReadStops \/ CloseFile

(* Somebody writes to the file: other bytes, perhaps another size.         *)
FileChanges(sizes) ==
  /\ call \in {"fstat", "malloc", "read"} /\ content.version < MaxChanges
  /\ \E size \in sizes :
       content' = [ size |-> size, version |-> content.version + 1 ]
  /\ UNCHANGED <<call, path, told, data, heap, open>>

(* The caller goes on; data and size are its own now.                      *)
ReadReturns ==
  /\ call \in {"true", "false"}
  /\ call' = "no" /\ data' = << >> /\ content' = NoFile
  /\ UNCHANGED <<path, told>>
-----------------------------------------------------------------------------
(* What ReadsWhole is proved from: it holds during the reading, too.       *)
ReadInv ==
  /\ content.version \in Nat /\ content.size \in Nat /\ told \in Nat
  /\ data \in Seq(Nat \X Nat)
  /\ call \in {"fstat", "malloc"} => data = << >>
  /\ call \in {"malloc", "read", "true"} => (content.version = 0 => told = content.size)
  /\ call \in {"read", "true"} =>
       /\ Len(data) <= told
       /\ call = "true" => Len(data) = told
       /\ \A k \in 1 .. Len(data) :
            data[k][2] = k - 1 /\ (content.version = 0 => data[k][1] = 0)

(* A read that succeeds has a byte for every position of the size it will  *)
(* report and no more, whatever counts the calls returned and however the  *)
(* file changed; and if nobody wrote to it, the data is the file.          *)
ReadsWhole ==
  call = "true" =>
    /\ Len(data) = told
    /\ \A k \in DOMAIN data : data[k][2] = k - 1
    /\ content.version = 0 =>
         told = content.size /\ \A k \in DOMAIN data : data[k][1] = 0
=============================================================================
