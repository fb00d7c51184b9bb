--------------------------- MODULE KernelLifetime ---------------------------
(***************************************************************************)
(* Lifetimes of the kernel C API objects of src/src/kernel/hyliumkernel.cpp*)
(* that carry client callbacks: ContextOptions, Context, ChainstateManager- *)
(* Options, ChainMan and LoggingConnection.  A client hands the kernel a   *)
(* user_data pointer with a destroy callback together with its callbacks  *)
(* (notifications, validation interface, log callback).  KernelNotifica-  *)
(* tions and KernelValidationInterface call user_data_destroy in their     *)
(* destructors and are held by shared_ptr from the options and from every *)
(* Context built from them; a Context is a shared_ptr<const Context> held  *)
(* by hylk_Context handles, ChainstateManagerOptions and ChainMan.         *)
(*                                                                         *)
(* A user datum is named by an element of UserData: each set call and     *)
(* each logging connection passes a fresh one (the C++ wrapper allocates   *)
(* a new heap object per call).  The KernelNotifications or Kernel-        *)
(* ValidationInterface made from it is named by the same element.         *)
(***************************************************************************)
EXTENDS Integers, FiniteSets

CONSTANTS
    OptHandles,   \* hylk_ContextOptions* the client holds
    CtxHandles,   \* hylk_Context* the client holds
    CmoHandles,   \* hylk_ChainstateManagerOptions*
    CmHandles,    \* hylk_ChainstateManager*
    LogHandles,   \* hylk_LoggingConnection*
    CtxObjs,      \* Context objects (heap addresses of the shared Context)
    UserData,     \* client user_data pointers
    Null

VARIABLES
    opt,        \* opt[o]: [live, notif, vi] of a ContextOptions
    ctxh,       \* ctxh[h]: the Context a hylk_Context shares, or Null
    ctx,        \* ctx[c]: [notif, vi] the Context copied from its options
    cmo,        \* cmo[m]: the Context of a ChainstateManagerOptions, or Null
    cm,         \* cm[k]: the Context of a ChainMan, or Null
    logc,       \* logc[l]: the user_data of a LoggingConnection, or Null
    callbacks,  \* the user_data of the callbacks in LogInstance()
    ud,         \* ud[u]: "fresh" (not yet passed), "held" (passed to the kernel
                \* and not destroyed) or "destroyed" (user_data_destroy ran)
    badcall     \* a callback was invoked with a user_data already destroyed

vars == <<opt, ctxh, ctx, cmo, cm, logc, callbacks, ud, badcall>>

NoOpt == [live |-> FALSE, notif |-> Null, vi |-> Null]

\* The Contexts some owner still shares: the shared_ptr<const Context>
\* of the hylk_Context handles, ChainstateManagerOptions and ChainMan.
LiveCtx == ({ctxh[h] : h \in CtxHandles} \cup {cmo[m] : m \in CmoHandles}
               \cup {cm[k] : k \in CmHandles}) \ {Null}

\* Mutant: a Context borrows its callbacks from the options (no shared_ptr).
OwnedByOptions ==
    ({opt[o].notif : o \in OptHandles} \cup {opt[o].vi : o \in OptHandles}) \ {Null}

\* The KernelNotifications / KernelValidationInterface objects that some
\* shared_ptr still holds: the options' members and those of live Contexts.
Owned ==
    ({opt[o].notif : o \in OptHandles} \cup {opt[o].vi : o \in OptHandles}
       \cup {ctx[c].notif : c \in LiveCtx} \cup {ctx[c].vi : c \in LiveCtx}) \ {Null}

\* The destructor of the last shared_ptr to a KernelNotifications or
\* KernelValidationInterface runs user_data_destroy(user_data).
Collect ==
    /\ ud' = [u \in UserData |->
                IF u \in Owned' THEN "held"
                ELSE IF u \in Owned THEN "destroyed" ELSE ud[u]]
    /\ UNCHANGED badcall

\* A callback invoked with user_data u.
Call(u) == u # Null /\ ud[u] # "held"

Init ==
    /\ opt = [o \in OptHandles |-> NoOpt]
    /\ ctxh = [h \in CtxHandles |-> Null]
    /\ ctx = [c \in CtxObjs |-> [notif |-> Null, vi |-> Null]]
    /\ cmo = [m \in CmoHandles |-> Null] /\ cm = [k \in CmHandles |-> Null]
    /\ logc = [l \in LogHandles |-> Null] /\ callbacks = {}
    /\ ud = [u \in UserData |-> "fresh"] /\ badcall = FALSE

-----------------------------------------------------------------------------
\* hylk_context_options_create.
OptionsCreate(o) ==
    /\ ~opt[o].live
    /\ opt' = [opt EXCEPT ![o] = [NoOpt EXCEPT !.live = TRUE]]
    /\ UNCHANGED <<ctxh, ctx, cmo, cm, logc, callbacks, ud, badcall>>

\* hylk_context_options_set_notifications / _set_validation_interface:
\* a new shared KernelNotifications (KernelValidationInterface) replaces
\* the options' member, whose last owner may be the options.
OptionsSet(o, field, u) ==
    /\ opt[o].live /\ ud[u] = "fresh"
    /\ opt' = [opt EXCEPT ![o][field] = u]
    /\ UNCHANGED <<ctxh, ctx, cmo, cm, logc, callbacks>>
    /\ Collect

\* hylk_context_options_destroy: delete options.
OptionsDestroy(o) ==
    /\ opt[o].live
    /\ opt' = [opt EXCEPT ![o] = NoOpt]
    /\ UNCHANGED <<ctxh, ctx, cmo, cm, logc, callbacks>>
    /\ Collect

\* hylk_context_create(options or nullptr): a new Context sharing the
\* options' notifications and validation interface (registered with its
\* own ValidationSignals); default notifications carry no user_data.
ContextCreate(h, o) ==
    /\ ctxh[h] = Null
    /\ IF o = Null THEN TRUE ELSE opt[o].live
    /\ \E c \in CtxObjs \ LiveCtx :
          /\ ctx' = [ctx EXCEPT ![c] = IF o = Null THEN [notif |-> Null, vi |-> Null]
                                       ELSE [notif |-> opt[o].notif, vi |-> opt[o].vi]]
          /\ ctxh' = [ctxh EXCEPT ![h] = c]
    /\ UNCHANGED <<opt, cmo, cm, logc, callbacks>>
    /\ Collect

\* hylk_context_copy: a new handle to the same shared Context.
ContextCopy(h, h2) ==
    /\ ctxh[h] # Null /\ ctxh[h2] = Null
    /\ ctxh' = [ctxh EXCEPT ![h2] = ctxh[h]]
    /\ UNCHANGED <<opt, ctx, cmo, cm, logc, callbacks, ud, badcall>>

\* hylk_context_destroy: the handle's shared_ptr is released; the last one
\* runs ~Context (unregistering the validation interface).
ContextDestroy(h) ==
    /\ ctxh[h] # Null
    /\ ctxh' = [ctxh EXCEPT ![h] = Null]
    /\ UNCHANGED <<opt, ctx, cmo, cm, logc, callbacks>>
    /\ Collect

\* hylk_chainstate_manager_options_create(context, ...): keeps m_context.
CmOptionsCreate(m, h) ==
    /\ cmo[m] = Null /\ ctxh[h] # Null
    /\ cmo' = [cmo EXCEPT ![m] = ctxh[h]]
    /\ UNCHANGED <<opt, ctxh, ctx, cm, logc, callbacks, ud, badcall>>

\* hylk_chainstate_manager_options_destroy.
CmOptionsDestroy(m) ==
    /\ cmo[m] # Null
    /\ cmo' = [cmo EXCEPT ![m] = Null]
    /\ UNCHANGED <<opt, ctxh, ctx, cm, logc, callbacks>>
    /\ Collect

\* hylk_chainstate_manager_create(options): the ChainstateManager keeps
\* references to the Context's notifications and signals, the ChainMan a
\* shared_ptr to the Context (a failed load returns nullptr, no change).
ChainmanCreate(k, m) ==
    /\ cm[k] = Null /\ cmo[m] # Null
    /\ cm' = [cm EXCEPT ![k] = cmo[m]]
    /\ UNCHANGED <<opt, ctxh, ctx, cmo, logc, callbacks, ud, badcall>>

\* hylk_chainstate_manager_destroy: flush, then delete the ChainMan.
ChainmanDestroy(k) ==
    /\ cm[k] # Null
    /\ cm' = [cm EXCEPT ![k] = Null]
    /\ UNCHANGED <<opt, ctxh, ctx, cmo, logc, callbacks>>
    /\ Collect

\* A kernel::Notifications call (blockTip, progress, flushError, ...) or a
\* validation signal (BlockChecked, BlockConnected, ...) of a live
\* ChainstateManager during process_block, import_blocks, load or flush.
ChainmanEvent(k, field) ==
    /\ cm[k] # Null
    /\ badcall' = (badcall \/ cm[k] \notin LiveCtx \/ Call(ctx[cm[k]][field]))
    /\ UNCHANGED <<opt, ctxh, ctx, cmo, cm, logc, callbacks, ud>>

-----------------------------------------------------------------------------
\* LoggingConnection(callback, user_data, destroy): push the callback; the
\* first connection starts logging, and if that fails the callback is
\* deleted, user_data destroyed and nullptr returned (the exception is
\* caught by hylk_logging_connection_create).  Either way u was passed to
\* the kernel: a path that failed to destroy it would leave it "held".
LogConnect(l, u) ==
    /\ logc[l] = Null /\ ud[u] = "fresh"
    /\ \/ /\ logc' = [logc EXCEPT ![l] = u] /\ callbacks' = callbacks \cup {u}
          /\ ud' = [ud EXCEPT ![u] = "held"]
       \/ /\ callbacks = {}
          /\ ud' = [ud EXCEPT ![u] = "destroyed"]
          /\ UNCHANGED <<logc, callbacks>>
    /\ UNCHANGED <<opt, ctxh, ctx, cmo, cm, badcall>>

\* Mutant: ~LoggingConnection without calling m_deleter.
LogDisconnectNoDeleter(l) ==
    /\ logc[l] # Null
    /\ callbacks' = IF Cardinality(callbacks) = 1 THEN {} ELSE callbacks \ {logc[l]}
    /\ logc' = [logc EXCEPT ![l] = Null]
    /\ UNCHANGED <<opt, ctxh, ctx, cmo, cm, ud, badcall>>

\* ~LoggingConnection: the last connection returns the logger to
\* buffering (DisconnectTestLogger drops every callback), any other
\* deletes its own callback; then m_deleter(m_user_data).
LogDisconnect(l) ==
    /\ logc[l] # Null
    /\ callbacks' = IF Cardinality(callbacks) = 1 THEN {} ELSE callbacks \ {logc[l]}
    /\ logc' = [logc EXCEPT ![l] = Null]
    /\ ud' = [ud EXCEPT ![logc[l]] = "destroyed"]
    /\ UNCHANGED <<opt, ctxh, ctx, cmo, cm, badcall>>

\* A log line from any kernel thread goes to every pushed callback.
LogLine ==
    /\ callbacks # {}
    /\ badcall' = (badcall \/ \E u \in callbacks : Call(u))
    /\ UNCHANGED <<opt, ctxh, ctx, cmo, cm, logc, callbacks, ud>>

-----------------------------------------------------------------------------
Next ==
    \/ \E o \in OptHandles :
          \/ OptionsCreate(o) \/ OptionsDestroy(o)
          \/ \E f \in {"notif", "vi"}, u \in UserData : OptionsSet(o, f, u)
    \/ \E h \in CtxHandles :
          \/ \E o \in OptHandles \cup {Null} : ContextCreate(h, o)
          \/ \E h2 \in CtxHandles : ContextCopy(h, h2)
          \/ ContextDestroy(h)
          \/ \E m \in CmoHandles : CmOptionsCreate(m, h)
    \/ \E m \in CmoHandles : CmOptionsDestroy(m) \/ \E k \in CmHandles : ChainmanCreate(k, m)
    \/ \E k \in CmHandles :
          ChainmanDestroy(k) \/ \E f \in {"notif", "vi"} : ChainmanEvent(k, f)
    \/ \E l \in LogHandles : LogDisconnect(l) \/ \E u \in UserData : LogConnect(l, u)
    \/ LogLine

Spec == Init /\ [][Next]_vars

=============================================================================
