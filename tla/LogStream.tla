------------------------------ MODULE LogStream ------------------------------
(***************************************************************************)
(* What the ingestion core promises about the stream of one CT log (spec   *)
(* sections 4.6 and 5): the broadcast of a log consists of entries that    *)
(* exist in it, in strictly ascending index order, so none twice.  Entries *)
(* may be skipped (the worker starts at the tree size and restarts there   *)
(* after an error); the promise is about order and existence only.         *)
(*                                                                         *)
(* The detailed CTWatcher implements it with size <- logSize and           *)
(* out <- bcast.                                                           *)
(***************************************************************************)
EXTENDS Naturals, Sequences

CONSTANT Hosts     \* the CT logs

VARIABLES
    size,   \* per log, the number of entries it holds
    out     \* per log, the indices broadcast so far, in order

vars == <<size, out>>

Init ==
    /\ size \in [Hosts -> Nat]
    /\ out = [h \in Hosts |-> <<>>]

(* A log gets one more entry.                                              *)
Grow(h) ==
    /\ size' = [size EXCEPT ![h] = size[h] + 1]
    /\ UNCHANGED out

(* An existing entry beyond the last one broadcast for its log is          *)
(* broadcast.                                                              *)
Emit(h) ==
    /\ \E i \in 0..(size[h] - 1) :
          /\ out[h] = <<>> \/ out[h][Len(out[h])] < i
          /\ out' = [out EXCEPT ![h] = Append(out[h], i)]
    /\ UNCHANGED size

Next == \E h \in Hosts : Grow(h) \/ Emit(h)

Spec == Init /\ [][Next]_vars

=============================================================================
