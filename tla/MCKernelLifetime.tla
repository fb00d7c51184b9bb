-------------------------- MODULE MCKernelLifetime --------------------------
(***************************************************************************)
(* Model-checking instance of KernelLifetime: one ContextOptions, two      *)
(* hylk_Context handles (a copy shares the Context), one Chainstate-       *)
(* ManagerOptions and one ChainMan, two logging connections, two Context   *)
(* addresses (reused once freed) and four user_data pointers.             *)
(***************************************************************************)
EXTENDS KernelLifetime, TLC

CONSTANTS o1, c1, c2, m1, k1, l1, l2, x1, x2, u1, u2, u3, u4

\* User data, Context addresses, context handles and logging handles are
\* interchangeable.
Symm == Permutations({u1, u2, u3, u4}) \cup Permutations({x1, x2})
        \cup Permutations({c1, c2}) \cup Permutations({l1, l2})

\* No client handle is alive: every object the client created is destroyed.
AllReleased ==
    /\ \A o \in OptHandles : ~opt[o].live
    /\ \A h \in CtxHandles : ctxh[h] = Null
    /\ \A m \in CmoHandles : cmo[m] = Null
    /\ \A k \in CmHandles : cm[k] = Null
    /\ \A l \in LogHandles : logc[l] = Null

(***************************************************************************)
(* No notification, validation signal or log line of the kernel ever      *)
(* calls back with a user_data that user_data_destroy has already freed:   *)
(* the shared_ptr ownership of KernelNotifications and Kernel-             *)
(* ValidationInterface by options and Contexts, the Context shared by      *)
(* ChainMan, and ~LoggingConnection's callback removal keep every         *)
(* callback's user_data alive while the kernel can still reach it,        *)
(* whatever order the client destroys its handles in.                     *)
(***************************************************************************)
NoCallbackAfterDestroy == ~badcall

(***************************************************************************)
(* Once the client has destroyed every handle, every user_data it passed   *)
(* has been destroyed: replacing notifications, copying and destroying    *)
(* Contexts and closing logging connections leak none.                     *)
(***************************************************************************)
NoLeak == AllReleased => \A u \in UserData : ud[u] # "held"

=============================================================================
