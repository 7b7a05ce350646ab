-------------------------- MODULE SchedulerService --------------------------
(***************************************************************************)
(* The service that loads the RMS scheduler (ScxRmsBpf.cpp, scx_rms.cpp):  *)
(* it attaches the struct_ops, pins two of its maps where librms opens     *)
(* them, waits until it is told to end or its scheduler was ejected, and   *)
(* unpins the paths before it detaches.  Failing to load or to attach runs *)
(* the same destroy().                                                     *)
(*                                                                         *)
(* The environment: sched_ext takes one scheduler at a time and ejects a   *)
(* faulty one; services are started, stopped and killed at any time, each  *)
(* instance being one process.                                             *)
(***************************************************************************)
CONSTANTS Services,
          NoService

ASSUME ServiceAssumption == NoService \notin Services

VARIABLES svPc,           \* where each instance is
          svLinked,       \* the instance whose scheduler runs
          svPin,          \* the instance whose map is pinned at each path
          svKilled,       \* an instance was killed
          svFailed,       \* one could not load or attach its scheduler
          svEjected       \* a scheduler was ejected

svVars == <<svPc, svLinked, svPin, svKilled, svFailed, svEjected>>

Paths == {"task_attr_hmap", "rms_entry_map"}

ServiceInit ==
    /\ svPc = [s \in Services |-> "off"]
    /\ svLinked = NoService
    /\ svPin = [p \in Paths |-> NoService]
    /\ svKilled = FALSE /\ svFailed = FALSE /\ svEjected = FALSE

SvGoes(s, from, to) == svPc[s] = from /\ svPc' = [svPc EXCEPT ![s] = to]

\* open and load, which may fail and destroys then.
SvLoad(s) ==
    /\ \/ SvGoes(s, "off", "loaded") /\ UNCHANGED svFailed
       \/ SvGoes(s, "off", "unpin attr") /\ svFailed' = TRUE
    /\ UNCHANGED <<svLinked, svPin, svKilled, svEjected>>

\* bpf_map__attach_struct_ops, which fails while another scheduler runs, and
\* may fail otherwise.
SvAttach(s) ==
    /\ \/ /\ svLinked = NoService
          /\ SvGoes(s, "loaded", "pin attr")
          /\ svLinked' = s
          /\ UNCHANGED svFailed
       \/ /\ SvGoes(s, "loaded", "unpin attr")
          /\ svFailed' = TRUE
          /\ UNCHANGED svLinked
    /\ UNCHANGED <<svPin, svKilled, svEjected>>

\* bpf_map__pin fails when the path exists, which is logged.
bpf_map__pin(s, p) == svPin' = [svPin EXCEPT ![p] = IF @ = NoService THEN s ELSE @]

SvPinAttr(s) ==
    /\ SvGoes(s, "pin attr", "pin entry")
    /\ bpf_map__pin(s, "task_attr_hmap")
    /\ UNCHANGED <<svLinked, svKilled, svFailed, svEjected>>

SvPinEntry(s) ==
    /\ SvGoes(s, "pin entry", "running")
    /\ bpf_map__pin(s, "rms_entry_map")
    /\ UNCHANGED <<svLinked, svKilled, svFailed, svEjected>>

Detached(s) == svLinked' = IF svLinked = s THEN NoService ELSE svLinked

\* Mutant: the destructor detaches first.
SvEndDetaches(s) ==
    /\ SvGoes(s, "running", "unpin attr")
    /\ Detached(s)
    /\ UNCHANGED <<svPin, svKilled, svFailed, svEjected>>

\* A signal, or UEI_EXITED: the loop ends, and the destructor runs.
SvEnd(s) ==
    /\ SvGoes(s, "running", "unpin attr")
    /\ UNCHANGED <<svLinked, svPin, svKilled, svFailed, svEjected>>

\* bpf_map__unpin removes the path, whoever pinned a map there.
SvUnpinAttr(s) ==
    /\ SvGoes(s, "unpin attr", "unpin entry")
    /\ svPin' = [svPin EXCEPT !["task_attr_hmap"] = NoService]
    /\ UNCHANGED <<svLinked, svKilled, svFailed, svEjected>>

\* Mutant: one of the maps stays pinned.
SvUnpinEntryForgotten(s) ==
    /\ SvGoes(s, "unpin entry", "detach")
    /\ UNCHANGED <<svPin, svLinked, svKilled, svFailed, svEjected>>

SvUnpinEntry(s) ==
    /\ SvGoes(s, "unpin entry", "detach")
    /\ svPin' = [svPin EXCEPT !["rms_entry_map"] = NoService]
    /\ UNCHANGED <<svLinked, svKilled, svFailed, svEjected>>

\* bpf_link__destroy
SvDetach(s) ==
    /\ SvGoes(s, "detach", "done")
    /\ Detached(s)
    /\ UNCHANGED <<svPin, svKilled, svFailed, svEjected>>

\* The kernel ends the scheduler of a process that is gone; pinned maps stay.
SvKill(s) ==
    /\ svPc[s] \notin {"off", "done", "killed"}
    /\ svPc' = [svPc EXCEPT ![s] = "killed"]
    /\ Detached(s)
    /\ svKilled' = TRUE
    /\ UNCHANGED <<svPin, svFailed, svEjected>>

SvEject(s) ==
    /\ svLinked = s
    /\ svLinked' = NoService
    /\ svEjected' = TRUE
    /\ UNCHANGED <<svPc, svPin, svKilled, svFailed>>

ServiceNext ==
    \E s \in Services :
        \/ SvLoad(s) \/ SvAttach(s) \/ SvPinAttr(s) \/ SvPinEntry(s) \/ SvEnd(s)
        \/ SvUnpinAttr(s) \/ SvUnpinEntry(s) \/ SvDetach(s) \/ SvKill(s) \/ SvEject(s)

ServiceSpec == ServiceInit /\ [][ServiceNext]_svVars

-----------------------------------------------------------------------------
\* librms reaches the scheduler that runs: while an instance waits with its
\* scheduler attached, both paths lead to its own maps.  What takes them away
\* is a kill or an ejection, after which the paths of the old instance are in
\* the way of the next, and another instance that fails to start, whose
\* destroy() unpins the paths of this one (attach, pinMaps, unpinMaps).
SvReachable ==
    \A s \in Services :
        svPc[s] = "running" /\ svLinked = s /\ ~svKilled /\ ~svFailed /\ ~svEjected
            => \A p \in Paths : svPin[p] = s

\* Instances that overlap, fail or are ejected may hide each other's maps, but
\* never leave a map behind: a pinned map belongs to an instance that has still
\* to unpin it, or that was killed, so librms never records an admission in the
\* maps of a scheduler that ended in order (destroy).
SvNoMapLeft == \A p \in Paths : svPin[p] # NoService => svPc[svPin[p]] \notin {"off", "done"}
=============================================================================
