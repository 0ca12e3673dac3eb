------------------------------- MODULE Batches -------------------------------
(***************************************************************************)
(* How one hook is run on its files: run.rs (Partitions, run_by_batch).    *)
(*                                                                         *)
(* The files are cut into batches that fit the platform's command line.    *)
(* The commands of at most `concurrency` batches run at a time and their   *)
(* outputs are combined in the order of the batches.                       *)
(*                                                                         *)
(* A file is its position among the hook's files; only the size of its     *)
(* argument matters, and sizes are those run.rs counts: of the entry       *)
(* before it is resolved to a program and of the environment as configured.*)
(* An exit code is the set of its bits.                                    *)
(***************************************************************************)
EXTENDS Integers, Sequences

CONSTANTS
  Inputs,   \* the hooks and files to run
  ArgMax,   \* platform_max_cli_length
  Word,     \* usize holds 0 .. Word - 1
  Bits      \* of an exit code

\* offset[i] is the size of the arguments of the first i files, arg_size each;
\* limit is pass_filenames, 0 for no limit; concurrency is 1 for require_serial.
ASSUME InputsAssumption ==
  \A in \in Inputs :
    /\ in.count \in Nat
    /\ in.offset \in [0..in.count -> Nat]
    /\ \A i \in 1..in.count : in.offset[i - 1] < in.offset[i]
    /\ in.limit \in Nat
    /\ in.concurrency \in Nat \ {0}
    /\ in.env \in 0..(Word - 1)
    /\ in.fixed \in Nat \ {0}
ASSUME SizesAssumption == Word \in Nat /\ ArgMax \in 0..(Word - 1)

VARIABLES
  input,    \* what this run was called with
  ending,  \* Endings
  index,    \* Partitions.current_index
  batches,  \* Seq(Batch), every batch handed out
  folded,   \* the outputs of the first `folded` batches are combined
  exit      \* HookRunOutput.exit_code

batchesVars == <<input, ending, index, batches, folded, exit>>

Endings == {"split", "running", "ok", "error", "panic"}

\* A command killed by a signal exits with 1, like any that fails.
Codes == SUBSET Bits

Batch == [from : Nat, to : Nat, state : {"running", "done", "error"}, code : SUBSET Bits]

BatchesInit ==
  /\ input \in Inputs
  /\ ending = "split"
  /\ index = 0
  /\ batches = <<>>
  /\ folded = 0
  /\ exit = {}

Count == input.count
Larger(a, b) == IF a >= b THEN a ELSE b

\* filenames.len().div_ceil(concurrency), but no less than 4.
MaxPerBatch ==
  IF input.limit > 0 THEN input.limit
  ELSE Larger(4, (Count + input.concurrency - 1) \div input.concurrency)

\* Release builds do not check for overflow.
Minus(a, b) == (a + Word - b) % Word

ArgLimit == Minus(ArgMax, input.env)
Remaining == ArgLimit - input.fixed

(***************************************************************************)
(* Partitions::split, where fixed is the size of the entry and the         *)
(* arguments and env that of the environment.                              *)
(***************************************************************************)
Split ==
  /\ ending = "split"
  /\ ending' = IF input.fixed >= ArgLimit THEN "error" ELSE "running"
  /\ UNCHANGED <<input, index, batches, folded, exit>>

Bytes(from, to) == input.offset[to] - input.offset[from - 1]

\* Faulty: the size of the first file is not counted.
FitsWithoutFirst(from, to) ==
  to - from < MaxPerBatch /\ (from < to => Bytes(from + 1, to) <= Remaining)

\* The loop of Partitions::next takes the files from .. to.
Fits(from, to) == to - from < MaxPerBatch /\ Bytes(from, to) <= Remaining

Start == index + 1

\* buffered counts the batches not yet combined, whether they run or are done.
Room == Len(batches) - folded < input.concurrency

\* Partitions::next returns None.
Exhausted == index >= Count /\ (Count > 0 \/ index = 1)

\* buffered asks for batches before it looks at the ones it has.
Filled == ~Room \/ Exhausted

HandOut(from, to) ==
  batches' = Append(batches, [from |-> from, to |-> to, state |-> "running", code |-> {}])

(***************************************************************************)
(* Partitions::next.  Without files there is one batch, of none; otherwise *)
(* as many files as fit.                                                   *)
(***************************************************************************)
Next1 ==
  /\ ending = "running"
  /\ Room
  /\ \/ Count = 0 /\ index = 0 /\ index' = 1 /\ HandOut(1, 0)
     \/ /\ index < Count
        /\ \E to \in Start..Count :
             /\ Fits(Start, to)
             /\ to < Count => ~Fits(Start, to + 1)
             /\ HandOut(Start, to)
             /\ index' = to
  /\ UNCHANGED <<input, ending, folded, exit>>

(***************************************************************************)
(* A file does not fit by itself.                                          *)
(***************************************************************************)
TooLong ==
  /\ ending = "running"
  /\ Room
  /\ index < Count
  /\ ~Fits(Start, Start)
  /\ ending' = "panic"
  /\ UNCHANGED <<input, index, batches, folded, exit>>

(***************************************************************************)
(* The command of a batch ends, or it could not be run.  What the commands *)
(* still running do after an error is read by nobody.                      *)
(***************************************************************************)
BatchEnds(i) ==
  /\ ending = "running"
  /\ Filled
  /\ batches[i].state = "running"
  /\ \/ \E code \in Codes :
          batches' = [batches EXCEPT ![i].state = "done", ![i].code = code]
     \/ batches' = [batches EXCEPT ![i].state = "error"]
  /\ UNCHANGED <<input, ending, index, folded, exit>>

Head1 == folded + 1

\* Faulty: the code of the last batch.
LastCode(code) == code

\* HookRunOutput::append: exit codes are or-ed.
Combined(code) == exit \cup code

(***************************************************************************)
(* try_fold takes the next output in order; an error ends it and drops     *)
(* the futures of the other batches.                                       *)
(***************************************************************************)
Fold ==
  /\ ending = "running"
  /\ Filled
  /\ folded < Len(batches)
  /\ \/ /\ batches[Head1].state = "done"
        /\ folded' = Head1
        /\ exit' = Combined(batches[Head1].code)
        /\ UNCHANGED ending
     \/ /\ batches[Head1].state = "error"
        /\ ending' = "error"
        /\ UNCHANGED <<folded, exit>>
  /\ UNCHANGED <<input, index, batches>>

(***************************************************************************)
(* The stream has ended.                                                   *)
(***************************************************************************)
BatchesEnd ==
  /\ ending = "running"
  /\ Exhausted
  /\ folded = Len(batches)
  /\ ending' = "ok"
  /\ UNCHANGED <<input, index, batches, folded, exit>>

Call == Split \/ Next1 \/ TooLong \/ Fold \/ BatchesEnd

BatchesReturned == ending \in {"ok", "error", "panic"} /\ UNCHANGED batchesVars

BatchesNext == Call \/ (\E i \in 1..Len(batches) : BatchEnds(i)) \/ BatchesReturned

BatchesSpec == BatchesInit /\ [][BatchesNext]_batchesVars

-----------------------------------------------------------------------------

(***************************************************************************)
(* Types.  No more outputs are combined than batches were handed out, and  *)
(* every exit code has the bits a command's status can have.               *)
(***************************************************************************)
BatchesTyped ==
  /\ input \in Inputs
  /\ ending \in Endings
  /\ index \in Nat
  /\ batches \in Seq(Batch)
  /\ folded \in 0..Len(batches)
  /\ exit \in SUBSET Bits

(***************************************************************************)
(* The batches follow each other: none begins before the file after the    *)
(* last of the batch before it, and none is empty unless there are no      *)
(* files (Partitions::next).                                               *)
(***************************************************************************)
Contiguous ==
  /\ \A i \in 1..Len(batches) :
       batches[i].from = IF i = 1 THEN 1 ELSE batches[i - 1].to + 1
  /\ Count > 0 => \A i \in 1..Len(batches) : batches[i].from <= batches[i].to

(***************************************************************************)
(* A hook that returned an exit code ran every file in exactly one of its  *)
(* commands, and a hook without files ran one command, without a file: the *)
(* break and the panic of Partitions::next and the order of buffered lose  *)
(* and repeat nothing.                                                     *)
(***************************************************************************)
AllFilesOnce ==
  ending = "ok" =>
    /\ Contiguous
    /\ batches # <<>>
    /\ batches[Len(batches)].to = Count
    /\ Count = 0 => Len(batches) = 1

(***************************************************************************)
(* The exit code of the hook is zero exactly if that of every command is   *)
(* and no command failed to run: a failure in any batch, however late it   *)
(* ends, shows (run_by_batch, HookRunOutput::append).                      *)
(***************************************************************************)
FailureShows ==
  ending = "ok" =>
    /\ \A i \in 1..Len(batches) : batches[i].state = "done"
    /\ exit = {} <=> \A i \in 1..Len(batches) : batches[i].code = {}

(***************************************************************************)
(* The scheduler takes the result of a hook for that of one command on all *)
(* its files, however they were cut and in whatever order the commands     *)
(* ended: each file is in exactly one, and each one's code counts.         *)
(***************************************************************************)
BatchedAsOne == AllFilesOnce /\ FailureShows

(***************************************************************************)
(* No more than `concurrency` commands of a hook run at a time; a hook     *)
(* with require_serial never runs two (run_by_batch).                      *)
(***************************************************************************)
AtMostConcurrent ==
  \A i, j \in 1..Len(batches) :
    batches[i].state = "running" /\ batches[j].state = "running" =>
      j - i < input.concurrency

(***************************************************************************)
(* A command never gets more files than its limit, and its environment,    *)
(* entry, arguments and files fit the platform's limit, provided that the  *)
(* environment alone does (Partitions::split and next).                    *)
(***************************************************************************)
FitsTheLimit ==
  input.env <= ArgMax =>
    \A i \in 1..Len(batches) :
      LET from == batches[i].from
          to == batches[i].to
      IN from <= to =>
           /\ to - from < MaxPerBatch
           /\ input.env + input.fixed + Bytes(from, to) <= ArgMax
=============================================================================
