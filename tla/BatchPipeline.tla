---------------------------- MODULE BatchPipeline ----------------------------
(***************************************************************************)
(* What the Batcher interface of the cascading filter's idbatcher package  *)
(* promises: a pipe of NumBatches closed batches with one more batch being *)
(* built outside of it.  Closing the batch being built pushes the oldest   *)
(* batch out of the pipe in one atomic step.  A batch is the set of the    *)
(* additions it holds; the order inside a batch is left out.               *)
(***************************************************************************)
EXTENDS Naturals, Sequences

CONSTANTS Items,        \* the additions (calls of AddToCurrentBatch)
          NumBatches    \* length of the pipe

VARIABLES current,      \* the batch being built
          pipe,         \* the closed batches, oldest first
          taken,        \* what the caller has been given so far
          open          \* Stop has not been called

pvars == <<current, pipe, taken, open>>

InPipe == UNION {pipe[k] : k \in DOMAIN pipe}

Held == current \cup InPipe \cup taken

PInit == /\ current = {}
         /\ pipe = [k \in 1..NumBatches |-> {}]
         /\ taken = {}
         /\ open = TRUE

Put(x) == /\ x \notin Held
          /\ open
          /\ current' = current \cup {x}
          /\ UNCHANGED <<pipe, taken, open>>

\* The pipe keeps its length: one batch out, the batch being built in.
Rotate == /\ open
          /\ taken' = taken \cup Head(pipe)
          /\ pipe' = Append(Tail(pipe), current)
          /\ current' = {}
          /\ UNCHANGED open

Close == /\ open
         /\ open' = FALSE
         /\ UNCHANGED <<current, pipe, taken>>

\* Once stopped the pipe is read until it is empty, the last batch included.
Drain == /\ ~open
         /\ IF pipe # <<>>
            THEN /\ taken' = taken \cup Head(pipe)
                 /\ pipe' = Tail(pipe)
                 /\ UNCHANGED current
            ELSE /\ taken' = taken \cup current
                 /\ current' = {}
                 /\ UNCHANGED pipe
         /\ UNCHANGED open

PNext == (\E x \in Items : Put(x)) \/ Rotate \/ Close \/ Drain

PSpec == PInit /\ [][PNext]_pvars
==============================================================================
