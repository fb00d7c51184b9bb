------------------------- MODULE MCKernelHandle -------------------------
(***************************************************************************)
(* Memory safety and exact ownership of the kernel wrapper templates.     *)
(***************************************************************************)
EXTENDS KernelHandle

CONSTANTS h1, h2, u1, u2, o1, o2, o3, o4

MCSlots == {h1, h2, u1, u2}
\* Two Handle wrappers (say two Transaction objects) and two UniqueHandle
\* wrappers (two ChainMan objects).
MCKind  == [s \in MCSlots |-> IF s \in {h1, h2} THEN "Handle" ELSE "UniqueHandle"]
MCObjs  == {o1, o2, o3, o4}

(***************************************************************************)
(* No kernel object is deleted twice, and no API call reaches a deleted   *)
(* object through a wrapper: whatever sequence of constructions, copies,  *)
(* moves and destructions the client performs, DestroyFunc never sees a   *)
(* pointer it has already freed and get() never returns one.              *)
(***************************************************************************)
HeapSafe ==
    /\ \A o \in Objs : frees[o] <= 1
    /\ ~uaf

(***************************************************************************)
(* Every live kernel object is owned by exactly one wrapper in scope, and  *)
(* every wrapper in scope holds a live object or Null: copies allocate,    *)
(* moves transfer, assignments and destructors free what they replace, so *)
(* nothing leaks and nothing is shared.                                   *)
(***************************************************************************)
SoleOwnership ==
    /\ \A o \in Objs :
          heap[o] = "live" => Cardinality({s \in Slots : inscope[s] /\ ptr[s] = o}) = 1
    /\ \A s \in Slots : inscope[s] /\ ptr[s] # Null => heap[ptr[s]] = "live"

=============================================================================
