---------------------------- MODULE KernelHandle ----------------------------
(***************************************************************************)
(* The owning wrappers of src/src/kernel/hyliumkernel_wrapper.h: the       *)
(* template Handle<CType, CopyFunc, DestroyFunc> (Transaction, Block,      *)
(* Context, ChainParams, ...) and UniqueHandle<CType, DestroyFunc>         *)
(* (ContextOptions, ChainstateManagerOptions, ChainMan, Logger).  A client *)
(* owns a few wrapper objects, the Slots; each holds m_ptr, a pointer to a *)
(* kernel object on the heap or Null.  The client constructs, copies,      *)
(* moves, uses and destroys them in any order.  The DestroyFunc of every   *)
(* Handle class is a plain delete (hyliumkernel.cpp), which ignores Null;  *)
(* UniqueHandle's Deleter skips Null itself.                               *)
(*                                                                         *)
(* Kind[s] is the template of wrapper s; a copy or move involves two      *)
(* wrappers of one kind.  SelfMove is the set of kinds the client may     *)
(* move-assign to themselves (as std::swap(a, a) and self-referential     *)
(* algorithms do).  A moved-from wrapper is only assigned to or destroyed. *)
(***************************************************************************)
EXTENDS Integers, FiniteSets

CONSTANTS
    Slots,      \* the client's wrapper objects
    Objs,       \* heap addresses of kernel objects
    Null,       \* nullptr
    Kind,       \* Kind[s] \in {"Handle", "UniqueHandle"}
    SelfMove    \* the kinds whose wrappers may be move-assigned to themselves

ASSUME Kind \in [Slots -> {"Handle", "UniqueHandle"}] /\ Null \notin Objs

\* A copy or move between s and src: same kind, and s = src only for a kind of SelfMove.
Pair(s, src, k) == Kind[s] = k /\ Kind[src] = k /\ (s # src \/ k \in SelfMove)

VARIABLES
    inscope,    \* inscope[s]: the wrapper s has been constructed and not destroyed
    ptr,        \* ptr[s]: its m_ptr
    heap,       \* heap[o] \in {"unused", "live", "freed"}
    frees,      \* frees[o]: how often o was passed to DestroyFunc / delete (saturates at 2)
    uaf         \* an API call dereferenced a deleted object through a wrapper

vars == <<inscope, ptr, heap, frees, uaf>>

\* DestroyFunc(p): delete p, nothing for Null.
Destroy(p) ==
    IF p = Null THEN UNCHANGED <<heap, frees>>
    ELSE /\ heap' = [heap EXCEPT ![p] = "freed"]
         /\ frees' = [frees EXCEPT ![p] = IF @ >= 2 THEN 2 ELSE @ + 1]

\* The address make_unique returns in the kernel's create/copy functions:
\* any not live, a freed one included (the allocator reuses memory).
Fresh == {o \in Objs : heap[o] # "live"}

\* The object o allocated at a fresh address.
Alloc(o) == heap' = [heap EXCEPT ![o] = "live"] /\ frees' = [frees EXCEPT ![o] = 0]

\* A dereference of pointer p.
Deref(p) == uaf' = (uaf \/ heap[p] # "live")

Init ==
    /\ inscope = [s \in Slots |-> FALSE] /\ ptr = [s \in Slots |-> Null]
    /\ heap = [o \in Objs |-> "unused"] /\ frees = [o \in Objs |-> 0]
    /\ uaf = FALSE

-----------------------------------------------------------------------------
\* explicit Handle(CType* ptr) : m_ptr{check(ptr)}: the object a kernel
\* create function returned (a null result throws and no wrapper exists).
Create(s) ==
    /\ ~inscope[s]
    /\ \E o \in Fresh :
          Alloc(o) /\ ptr' = [ptr EXCEPT ![s] = o]
    /\ inscope' = [inscope EXCEPT ![s] = TRUE]
    /\ UNCHANGED uaf

\* Handle(const Handle& other) : m_ptr{check(CopyFunc(other.m_ptr))}.
CopyConstruct(s, src) ==
    /\ Kind[s] = "Handle" /\ Kind[src] = "Handle" /\ ~inscope[s] /\ inscope[src] /\ ptr[src] # Null
    /\ \E o \in Fresh :
          Alloc(o) /\ ptr' = [ptr EXCEPT ![s] = o]
    /\ inscope' = [inscope EXCEPT ![s] = TRUE]
    /\ Deref(ptr[src])

\* Mutant: copy assignment keeps the temporary's pointer without freeing the old one.
CopyAssignNoSwap(s, src) ==
    /\ Kind[s] = "Handle" /\ Kind[src] = "Handle" /\ inscope[s] /\ inscope[src] /\ ptr[src] # Null
    /\ s # src
    /\ \E o \in Fresh :
          Alloc(o) /\ ptr' = [ptr EXCEPT ![s] = o]
    /\ Deref(ptr[src])
    /\ UNCHANGED inscope

\* operator=(const Handle&): if (this != &other) { Handle temp(other);
\* swap(m_ptr, temp.m_ptr); } and ~temp destroys the old m_ptr.
CopyAssign(s, src) ==
    /\ Kind[s] = "Handle" /\ Kind[src] = "Handle" /\ inscope[s] /\ inscope[src] /\ ptr[src] # Null
    /\ s # src
    /\ \E o \in Fresh :
          /\ ptr' = [ptr EXCEPT ![s] = o]
          /\ IF ptr[s] = Null
             THEN heap' = [heap EXCEPT ![o] = "live"] /\ frees' = [frees EXCEPT ![o] = 0]
             ELSE /\ heap' = [heap EXCEPT ![o] = "live", ![ptr[s]] = "freed"]
                  /\ frees' = [frees EXCEPT ![o] = 0, ![ptr[s]] = IF @ >= 2 THEN 2 ELSE @ + 1]
    /\ Deref(ptr[src])
    /\ UNCHANGED inscope

\* Handle(Handle&& other) : m_ptr(other.m_ptr) { other.m_ptr = nullptr; }
\* (UniqueHandle's implicit move constructor moves the unique_ptr alike).
MoveConstruct(s, src) ==
    /\ Kind[s] = Kind[src] /\ ~inscope[s] /\ inscope[src]
    /\ ptr' = [ptr EXCEPT ![s] = ptr[src], ![src] = Null]
    /\ inscope' = [inscope EXCEPT ![s] = TRUE]
    /\ UNCHANGED <<heap, frees, uaf>>

\* Mutant: move assignment copies other.m_ptr without nulling it.
MoveAssignNoExchange(s, src) ==
    /\ Pair(s, src, "Handle") /\ inscope[s] /\ inscope[src]
    /\ Destroy(ptr[s])
    /\ ptr' = [ptr EXCEPT ![s] = ptr[src]]
    /\ UNCHANGED <<inscope, uaf>>

\* operator=(Handle&& other): DestroyFunc(m_ptr);
\* m_ptr = std::exchange(other.m_ptr, nullptr);  The exchange nulls
\* other.m_ptr first, then m_ptr takes the old value of other.m_ptr.
MoveAssign(s, src) ==
    /\ Pair(s, src, "Handle") /\ inscope[s] /\ inscope[src]
    /\ Destroy(ptr[s])
    /\ ptr' = [[ptr EXCEPT ![src] = Null] EXCEPT ![s] = ptr[src]]
    /\ UNCHANGED <<inscope, uaf>>

\* Mutant: m_ptr.reset(other.m_ptr.get()), other keeping its pointer.
UniqueMoveAssignNoRelease(s, src) ==
    /\ Pair(s, src, "UniqueHandle") /\ inscope[s] /\ inscope[src]
    /\ ptr' = [ptr EXCEPT ![s] = ptr[src]]
    /\ Destroy(ptr[s])
    /\ UNCHANGED <<inscope, uaf>>

\* Mutant: m_ptr.release() in place of reset, the old object never deleted.
UniqueMoveAssignLeak(s, src) ==
    /\ Pair(s, src, "UniqueHandle") /\ inscope[s] /\ inscope[src]
    /\ ptr' = [[ptr EXCEPT ![src] = Null] EXCEPT ![s] = ptr[src]]
    /\ UNCHANGED <<inscope, heap, frees, uaf>>

\* UniqueHandle's implicit move assignment is unique_ptr's:
\* reset(other.release()): take other's pointer (nulling it), install it,
\* then delete the previous pointer if it differs from Null.
UniqueMoveAssign(s, src) ==
    /\ Pair(s, src, "UniqueHandle") /\ inscope[s] /\ inscope[src]
    /\ LET taken == ptr[src]
           old   == [ptr EXCEPT ![src] = Null][s]
       IN  /\ ptr' = [[ptr EXCEPT ![src] = Null] EXCEPT ![s] = taken]
           /\ Destroy(old)
    /\ UNCHANGED <<inscope, uaf>>

\* get() and an API call through it dereference m_ptr.
Use(s) ==
    /\ inscope[s] /\ ptr[s] # Null
    /\ Deref(ptr[s])
    /\ UNCHANGED <<inscope, ptr, heap, frees>>

\* ~Handle() { DestroyFunc(m_ptr); }, ~UniqueHandle via the Deleter.
Release(s) ==
    /\ inscope[s]
    /\ Destroy(ptr[s])
    /\ inscope' = [inscope EXCEPT ![s] = FALSE] /\ ptr' = [ptr EXCEPT ![s] = Null]
    /\ UNCHANGED uaf

Next ==
    \/ \E s \in Slots : Create(s) \/ Use(s) \/ Release(s)
    \/ \E s, src \in Slots :
          \/ CopyConstruct(s, src) \/ CopyAssign(s, src) \/ MoveConstruct(s, src)
          \/ MoveAssign(s, src) \/ UniqueMoveAssign(s, src)

Spec == Init /\ [][Next]_vars

=============================================================================
