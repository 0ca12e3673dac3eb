------------------------------ MODULE MCBatches ------------------------------
EXTENDS Batches

\* Hooks whose files have the sizes given, as prefix sums.
MCHook(count, limit, concurrency, env, fixed, offset) ==
  [count |-> count, limit |-> limit, concurrency |-> concurrency, env |-> env,
   fixed |-> fixed, offset |-> offset]

MCPrefix(sums) == [i \in 0..Len(sums) |-> IF i = 0 THEN 0 ELSE sums[i]]
MCEven(count) == MCPrefix([i \in 1..count |-> 2 * i])
MCOneLong == MCPrefix(<<2, 4, 13, 15>>)
MCUneven == MCPrefix(<<2, 7, 9, 14, 16>>)

MCInputs ==
  \* no files; no limit; a limit; serial; more room than files
  { MCHook(count, limit, concurrency, 2, 2, MCEven(count)) :
      count \in {0, 1, 5}, limit \in {0, 1, 2}, concurrency \in 1..3 }
  \* sizes that end a batch before its limit; the last has an environment
  \* larger than the platform's limit
  \cup { MCHook(5, 0, concurrency, env, fixed, MCUneven) :
           concurrency \in 1..3, env \in {0, 4, 13}, fixed \in {3, 5} }
  \* a file too long for any command, behind others
  \cup { MCHook(4, limit, concurrency, 2, 3, MCOneLong) :
           limit \in {0, 1}, concurrency \in 1..2 }
  \* nothing left for the files
  \cup { MCHook(1, 0, 1, 4, fixed, MCEven(1)) : fixed \in {7, 8, 9} }
=============================================================================
