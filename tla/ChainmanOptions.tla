--------------------------- MODULE ChainmanOptions ---------------------------
(***************************************************************************)
(* The settings of one hylk_ChainstateManagerOptions of                     *)
(* src/src/kernel/hyliumkernel.cpp, used by several client threads: the    *)
(* setters, each of which holds the options' m_mutex for its assignments,  *)
(* and hylk_chainstate_manager_create, which takes the mutex twice: once   *)
(* to construct the ChainstateManager from m_chainman_options and          *)
(* m_blockman_options (where the block tree database is opened, and wiped  *)
(* when wipe_data is set), and once more to copy                           *)
(* m_chainstate_load_options for LoadChainstate (where the chainstate is   *)
(* wiped when wipe_chainstate_db is set).  A setter's critical section is  *)
(* one step; so is each of the two sections of create.  Loading,           *)
(* verifying and activating the chain state are abstracted to success or  *)
(* failure.                                                                *)
(***************************************************************************)
EXTENDS Integers

CONSTANTS
    Clients,      \* client threads sharing the options
    IntArgs,      \* int arguments passed to the setters
    WorkerArgs    \* worker_threads values passed to set_worker_threads_num

VARIABLES
    opts,   \* the guarded members: [workers, wipe_bt, bt_mem, wipe_cs, cs_mem]
    pc,     \* pc[t]: "idle", "load" (between the two sections of create), "done"
    snap,   \* snap[t]: what the first section of t's create read
    made    \* the ChainstateManagers created: what each was built and loaded with

vars == <<opts, pc, snap, made>>

\* ChainstateManagerOptions(context, data_dir, blocks_dir): default
\* ChainstateManager, BlockManager and ChainstateLoad options.
DefaultOpts == [workers |-> 0, wipe_bt |-> FALSE, bt_mem |-> FALSE, wipe_cs |-> FALSE, cs_mem |-> FALSE]
NoSnap == [workers |-> 0, wipe_bt |-> FALSE, bt_mem |-> FALSE]

Init ==
    /\ opts = DefaultOpts
    /\ pc = [t \in Clients |-> "idle"]
    /\ snap = [t \in Clients |-> NoSnap]
    /\ made = {}

\* A thread calls a setter only while it is not inside create.
Free(t) == pc[t] # "load"

\* hylk_chainstate_manager_options_set_worker_threads_num.
SetWorkerThreads(t, n) ==
    /\ Free(t)
    /\ opts' = [opts EXCEPT !.workers = n]
    /\ UNCHANGED <<pc, snap, made>>

\* hylk_chainstate_manager_options_set_wipe_dbs: wiping the block tree
\* without the chainstate is refused (-1) before the lock; otherwise both
\* flags are set under it.
SetWipeDbs(t, b, c) ==
    /\ Free(t)
    /\ IF b = 1 /\ c # 1 THEN UNCHANGED opts
       ELSE opts' = [opts EXCEPT !.wipe_bt = (b = 1), !.wipe_cs = (c = 1)]
    /\ UNCHANGED <<pc, snap, made>>

\* hylk_chainstate_manager_options_update_block_tree_db_in_memory and
\* _update_chainstate_db_in_memory.
UpdateBlockTreeDbInMemory(t, v) ==
    /\ Free(t)
    /\ opts' = [opts EXCEPT !.bt_mem = (v = 1)]
    /\ UNCHANGED <<pc, snap, made>>

UpdateChainstateDbInMemory(t, v) ==
    /\ Free(t)
    /\ opts' = [opts EXCEPT !.cs_mem = (v = 1)]
    /\ UNCHANGED <<pc, snap, made>>

\* hylk_chainstate_manager_create, first section: the ChainstateManager is
\* constructed from the chainman and blockman options, or its constructor
\* throws and the call returns nullptr.
CreateConstruct(t) ==
    /\ pc[t] = "idle"
    /\ \/ /\ snap' = [snap EXCEPT ![t] = [workers |-> opts.workers, wipe_bt |-> opts.wipe_bt,
                                          bt_mem |-> opts.bt_mem]]
          /\ pc' = [pc EXCEPT ![t] = "load"]
       \/ /\ pc' = [pc EXCEPT ![t] = "done"]
          /\ UNCHANGED snap
    /\ UNCHANGED <<opts, made>>

\* Second section: the chainstate load options are copied under the lock;
\* LoadChainstate, VerifyLoadedChainstate and ActivateBestChain succeed
\* and the ChainMan is returned, or one fails and nullptr is returned.
CreateLoad(t) ==
    /\ pc[t] = "load"
    /\ pc' = [pc EXCEPT ![t] = "done"]
    /\ \/ made' = made \cup {[workers |-> snap[t].workers, wipe_bt |-> snap[t].wipe_bt,
                                 bt_mem |-> snap[t].bt_mem, wipe_cs |-> opts.wipe_cs,
                                 cs_mem |-> opts.cs_mem]}
       \/ UNCHANGED made
    /\ UNCHANGED <<opts, snap>>

Next ==
    \E t \in Clients :
        \/ \E n \in WorkerArgs : SetWorkerThreads(t, n)
        \/ \E b, c \in IntArgs : SetWipeDbs(t, b, c)
        \/ \E v \in IntArgs : UpdateBlockTreeDbInMemory(t, v) \/ UpdateChainstateDbInMemory(t, v)
        \/ CreateConstruct(t)
        \/ CreateLoad(t)

Spec == Init /\ [][Next]_vars

=============================================================================
