----------------------------- MODULE BlockStream -----------------------------
(***************************************************************************)
(* What extract_from_bytes promises whatever the format: it walks the      *)
(* compressed bytes once, front to back, gathers blocks whose extents lie  *)
(* in what it has walked over, and stops with all of them or with an error.*)
(***************************************************************************)
EXTENDS Integers, Sequences

CONSTANTS
    MaxLen,        \* greatest length of a compressed input
    MaxBlockCount  \* greatest number of blocks a parser keeps

VARIABLES
    size,          \* length of this input
    walked,        \* bytes walked over
    out,           \* the extents gathered, in order
    status         \* "running", "ok" or "error"

vars == <<size, walked, out, status>>

Extent == [offset : 0..MaxLen, len : 0..MaxLen]

TypeOK ==
    /\ size \in 0..MaxLen
    /\ walked \in 0..size
    /\ out \in Seq(Extent)
    /\ status \in {"running", "ok", "error"}

Init ==
    /\ size \in 0..MaxLen
    /\ walked = 0
    /\ out = <<>>
    /\ status = "running"

\* Walking on, with or without a new block.  Offsets never go backwards and an
\* extent ends in what has been walked over by then.
Walk ==
    /\ status = "running"
    /\ walked' \in walked..size
    /\ UNCHANGED <<size, status>>
    /\ \/ UNCHANGED out
       \/ \E first \in 0..walked' : \E last \in first..walked' :
             /\ Len(out) < MaxBlockCount
             /\ out # <<>> => out[Len(out)].offset <= first
             /\ out' = Append(out, [offset |-> first, len |-> last - first])

\* Stopping is final: a result is not extended and an error not withdrawn.
Stop ==
    /\ status = "running"
    /\ status' \in {"ok", "error"}
    /\ UNCHANGED <<size, walked, out>>

Next == Walk \/ Stop

Spec == Init /\ [][Next]_vars /\ WF_vars(Stop)

=============================================================================
