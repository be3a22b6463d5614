----------------------------- MODULE SampleFifo -----------------------------
(***************************************************************************)
(* riaps-host/src/adapter_buf.rs, struct SampleFifo: a ring of samples with *)
(* a read index, a write index and a length, used by one thread.  A FIFO   *)
(* is a record, an operation an operator on it: what the code's method     *)
(* leaves in self and what it returns.                                     *)
(***************************************************************************)
EXTENDS Integers, Sequences, FiniteSetsExt

Silence == 0   \* the sample 0.0; every other number is a sample of the stream

new(capacity) ==
  [storage |-> [i \in 0 .. capacity - 1 |-> Silence], read |-> 0, write |-> 0, len |-> 0]

Capacity(f) == Cardinality(DOMAIN f.storage)

\* Mutant: the index wraps one slot early.
Advance_Early(f, i) == IF i + 1 >= Capacity(f) - 1 THEN 0 ELSE i + 1

\* The index after i: both loops reset it at the end of the storage.
Advance(f, i) == IF i + 1 = Capacity(f) THEN 0 ELSE i + 1

Room(f) == Capacity(f) - f.len

\* One turn of the loop of push_slice and push_zeros.
Store(f, sample) ==
  [storage |-> [f.storage EXCEPT ![f.write] = sample],
   read |-> f.read, write |-> Advance(f, f.write), len |-> f.len + 1]

\* The loop of push_slice, after k turns.
Stored(f, samples) ==
  LET turn[k \in 0 .. Len(samples)] ==
        IF k = 0 THEN f ELSE Store(turn[k - 1], samples[k])
  IN  turn

push_slice(f, samples) ==
  LET accepted == Min({Len(samples), Room(f)})
  IN  [fifo |-> Stored(f, samples)[accepted], accepted |-> accepted]

push_zeros(f, count) == push_slice(f, [k \in 1 .. count |-> Silence])

\* pop: what it leaves and, appended to got, what it returns; no sample if empty.
pop(from) ==
  LET f == from.fifo
  IN  IF f.len = 0
      THEN from
      ELSE [fifo |-> [storage |-> f.storage, read |-> Advance(f, f.read),
                      write |-> f.write, len |-> f.len - 1],
            got |-> Append(from.got, f.storage[f.read])]

\* A loop of n calls of pop.
PopUpTo(f, n) ==
  LET turn[k \in 0 .. n] == IF k = 0 THEN [fifo |-> f, got |-> <<>>] ELSE pop(turn[k - 1])
  IN  turn[n]

(***************************************************************************)
(* The samples in the FIFO, oldest first: the definition the operations    *)
(* are checked against.  No code computes it.                              *)
(***************************************************************************)
Contents(f) == [k \in 1 .. f.len |-> f.storage[(f.read + k - 1) % Capacity(f)]]

=============================================================================
