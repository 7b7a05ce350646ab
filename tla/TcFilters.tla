------------------------------ MODULE TcFilters ------------------------------
(***************************************************************************)
(* How a wirefisher process brings the two filters of its module tc_eth to *)
(* an interface and takes them away again (eth_module.cpp, main.cpp).      *)
(* Both filters have handle 1 and priority 1.  Every failure jumps to the  *)
(* same clean-up, which leaves the flags of what was done as they are; the *)
(* process then goes on with its other modules, and unload() cleans up     *)
(* once more at its end.                                                   *)
(*                                                                         *)
(* The environment: the interface, which may be gone, and on which filters *)
(* stay when their process was killed; several processes, each started     *)
(* once.  libbpf's bpf_tc_hook_destroy for one direction removes all the   *)
(* filters of that direction.                                              *)
(***************************************************************************)
CONSTANTS Loaders,
          NoLoader

ASSUME TcAssumption == NoLoader \notin Loaders

VARIABLES tcPc,           \* where each process is
          tcHook,         \* whose filter is on each hook
          tcCreated,      \* flags hook_created_e and hook_created_i
          tcCleaned       \* processes since whose start another one has run
                          \* the clean-up

tcVars == <<tcPc, tcHook, tcCreated, tcCleaned>>

TcHooks == {"egress", "ingress"}

TcInit ==
    /\ tcPc = [l \in Loaders |-> "off"]
    /\ tcHook = [h \in TcHooks |-> NoLoader]
    /\ tcCreated = [l \in Loaders |-> {}]
    /\ tcCleaned = {}

TcGoes(l, from, to) == tcPc[l] = from /\ tcPc' = [tcPc EXCEPT ![l] = to]

TcFails(l, from) == TcGoes(l, from, "error ingress")

\* bpf_tc_hook_create; that the hook is there already is no failure.
TcCreateHook(l, from, hook, to) ==
    \/ /\ TcGoes(l, from, to)
       /\ tcCreated' = [tcCreated EXCEPT ![l] = @ \union {hook}]
       /\ UNCHANGED <<tcHook, tcCleaned>>
    \/ TcFails(l, from) /\ UNCHANGED <<tcHook, tcCreated, tcCleaned>>

TcCreateEgress(l)  == TcCreateHook(l, "off", "egress", "hook ingress")
TcCreateIngress(l) == TcCreateHook(l, "hook ingress", "ingress", "attach egress")

\* bpf_tc_attach does not replace a filter with the same handle and priority.
bpf_tc_attach(l, from, hook, to) ==
    \/ /\ tcHook[hook] = NoLoader
       /\ TcGoes(l, from, to)
       /\ tcHook' = [tcHook EXCEPT ![hook] = l]
       /\ UNCHANGED <<tcCreated, tcCleaned>>
    \/ TcFails(l, from) /\ UNCHANGED <<tcHook, tcCreated, tcCleaned>>

TcAttachEgress(l)  == bpf_tc_attach(l, "attach egress", "egress", "attach ingress")
TcAttachIngress(l) == bpf_tc_attach(l, "attach ingress", "ingress", "ring buffer")

TcRingBuffer(l) ==
    /\ TcGoes(l, "ring buffer", "running") \/ TcFails(l, "ring buffer")
    /\ UNCHANGED <<tcHook, tcCreated, tcCleaned>>

\* bpf_tc_detach and bpf_tc_hook_destroy for one direction, when its flag is
\* set: all its filters go.
Destroyed(l, hook) ==
    /\ IF hook \in tcCreated[l]
       THEN /\ tcHook' = [tcHook EXCEPT ![hook] = NoLoader]
            /\ tcCleaned' = tcCleaned \union
                  {k \in Loaders \ {l} : tcPc[k] \notin {"off", "done", "killed"}}
       ELSE UNCHANGED <<tcHook, tcCleaned>>
    /\ UNCHANGED tcCreated

\* The label error of load_eth_module.
TcErrorIngress(l) == TcGoes(l, "error ingress", "error egress") /\ Destroyed(l, "ingress")
TcErrorEgress(l)  == TcGoes(l, "error egress", "failed") /\ Destroyed(l, "egress")

\* Mutant: the egress hook is forgotten.
TcUnloadEgressForgotten(l) ==
    TcGoes(l, "unload", "done") /\ UNCHANGED <<tcHook, tcCreated, tcCleaned>>

\* The process is told to end: unload_eth_module, also after a failed load.
TcUnloadIngress(l) ==
    /\ TcGoes(l, "running", "unload") \/ TcGoes(l, "failed", "unload")
    /\ Destroyed(l, "ingress")
TcUnloadEgress(l) == TcGoes(l, "unload", "done") /\ Destroyed(l, "egress")

TcKill(l) ==
    /\ tcPc[l] \notin {"off", "done", "killed"}
    /\ tcPc' = [tcPc EXCEPT ![l] = "killed"]
    /\ UNCHANGED <<tcHook, tcCreated, tcCleaned>>

TcNext ==
    \E l \in Loaders :
        \/ TcCreateEgress(l) \/ TcCreateIngress(l) \/ TcAttachEgress(l) \/ TcAttachIngress(l)
        \/ TcRingBuffer(l) \/ TcErrorIngress(l) \/ TcErrorEgress(l)
        \/ TcUnloadIngress(l) \/ TcUnloadEgress(l) \/ TcKill(l)

TcSpec == TcInit /\ [][TcNext]_tcVars

-----------------------------------------------------------------------------
\* The limits of a process that runs are in force in both directions, and a
\* filter outlives only a process that was killed: whatever failed on the way,
\* the clean-ups leave nothing behind.  The filters of a running process are
\* missing only when another process has failed to load, or ended, meanwhile
\* and has cleaned its hooks (load_eth_module and unload_eth_module).
TcFiltersOwned ==
    /\ \A l \in Loaders : tcPc[l] = "running" /\ l \notin tcCleaned =>
           \A h \in TcHooks : tcHook[h] = l
    /\ \A h \in TcHooks : tcHook[h] # NoLoader =>
           tcPc[tcHook[h]] \notin {"off", "failed", "done"}
=============================================================================
