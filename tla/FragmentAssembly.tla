-------------------------- MODULE FragmentAssembly --------------------------
(***************************************************************************)
(* Fragmenter and FragmentAssembly (network/transportfragment.cc): an      *)
(* instruction leaves as numbered fragments under one id, and the receiver *)
(* collects the fragments of one id at a time.  A fragment's contents are  *)
(* abstracted to its id and number.                                        *)
(***************************************************************************)
EXTENDS Naturals, FiniteSets

\* make_fragments: n fragments of the instruction id, the last one final.
MakeFragments(id, n) ==
    {[id |-> id, num |-> i, final |-> (i = n - 1)] : i \in 0..(n - 1)}

\* No instruction has id 0; a total of 0 stands for -1, not known yet.
NoFragments == [id |-> 0, got |-> {}, total |-> 0]

\* A fragment of another id starts a new assembly; one that is there already
\* changes nothing.
AddFragment(a, frag) ==
    LET same == a.id = frag.id
    IN  [id    |-> frag.id,
         got   |-> {frag.num} \cup (IF same THEN a.got ELSE {}),
         total |-> CASE frag.final -> frag.num + 1
                     [] ~frag.final /\ same -> a.total
                     [] OTHER -> 0]

Complete(a) == Cardinality(a.got) = a.total

\* get_assembly forgets the fragments and keeps the id.
GetAssembly(a) == [NoFragments EXCEPT !.id = a.id]
=============================================================================
