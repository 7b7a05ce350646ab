---------------------------- MODULE LoaderProofs ----------------------------
(***************************************************************************)
(* The programs that load and unload code into the kernel, for every set   *)
(* of their instances: the loader service of sched_ext_rms and the filters *)
(* of wirefisher.                                                          *)
(***************************************************************************)
EXTENDS SchedulerService, TcFilters, TLAPS

(* SchedulerService: whatever overlaps, fails or is ejected, no map stays  *)
(* pinned without a kill, and librms reaches the scheduler that runs.      *)
USE ServiceAssumption

SvPlaces == {"off", "loaded", "pin attr", "pin entry", "running", "unpin attr",
           "unpin entry", "detach", "done", "killed"}

(* Type invariant of the service.                                          *)
ServiceTypeOK ==
    /\ svPc \in [Services -> SvPlaces]
    /\ svLinked \in Services \cup {NoService}
    /\ svPin \in [Paths -> Services \cup {NoService}]
    /\ svKilled \in BOOLEAN /\ svFailed \in BOOLEAN /\ svEjected \in BOOLEAN

(* A pinned map belongs to an instance that may have pinned it: the        *)
(* attributes are the first to be pinned, and to be unpinned.              *)
PinnedByOwner ==
    /\ svPin["task_attr_hmap"] # NoService =>
          svPc[svPin["task_attr_hmap"]] \in {"pin entry", "running", "unpin attr", "killed"}
    /\ svPin["rms_entry_map"] # NoService =>
          svPc[svPin["rms_entry_map"]] \in {"running", "unpin attr", "unpin entry", "killed"}

(* An instance is killed only when the flag says so.                       *)
KillsAreKnown == svKilled \/ \A s \in Services : svPc[s] # "killed"

(* Without a kill, a failure or an ejection only one instance is past its  *)
(* attach and not yet detached, and it is the one that is linked.          *)
Attached(s) == svPc[s] \in {"pin attr", "pin entry", "running", "unpin attr",
                            "unpin entry", "detach"}

Smooth == ~svKilled /\ ~svFailed /\ ~svEjected

OneAttached == Smooth => \A s \in Services : Attached(s) <=> svLinked = s

(* What the one instance has pinned so far.                                *)
HasPinned(s) ==
    /\ svPc[s] \in {"pin entry", "running"} => svPin["task_attr_hmap"] = s
    /\ svPc[s] = "running" => svPin["rms_entry_map"] = s

PinsAreThere == Smooth => \A s \in Services : HasPinned(s)

ServiceInv == ServiceTypeOK /\ PinnedByOwner /\ KillsAreKnown /\ OneAttached /\ PinsAreThere

LEMMA ServiceInvInit == ServiceInit => ServiceInv
  BY DEF ServiceInit, ServiceInv, ServiceTypeOK, PinnedByOwner, KillsAreKnown, OneAttached,
         PinsAreThere, HasPinned, Attached, Smooth, SvPlaces, Paths

LEMMA ServiceInvNext == ServiceInv /\ [ServiceNext]_svVars => ServiceInv'
<1> SUFFICES ASSUME ServiceInv, [ServiceNext]_svVars
             PROVE  ServiceInv'
  OBVIOUS
<1> USE DEF ServiceInv, ServiceTypeOK, PinnedByOwner, KillsAreKnown, OneAttached, PinsAreThere,
            HasPinned, Attached, Smooth, SvPlaces, Paths, SvGoes
<1>1. ASSUME NEW s \in Services, SvLoad(s) PROVE ServiceInv'
  BY <1>1 DEF SvLoad
<1>2. ASSUME NEW s \in Services, SvAttach(s) PROVE ServiceInv'
  BY <1>2 DEF SvAttach
<1>3. ASSUME NEW s \in Services, SvPinAttr(s) PROVE ServiceInv'
  <2>1. ServiceTypeOK'
    BY <1>3 DEF SvPinAttr, bpf_map__pin
  <2>2. PinnedByOwner'
    BY <1>3 DEF SvPinAttr, bpf_map__pin
  <2>3. KillsAreKnown' /\ OneAttached'
    BY <1>3 DEF SvPinAttr, bpf_map__pin
  <2>4. PinsAreThere'
    BY <1>3 DEF SvPinAttr, bpf_map__pin
  <2> QED
    BY <2>1, <2>2, <2>3, <2>4
<1>4. ASSUME NEW s \in Services, SvPinEntry(s) PROVE ServiceInv'
  <2>1. ServiceTypeOK'
    BY <1>4 DEF SvPinEntry, bpf_map__pin
  <2>2. PinnedByOwner'
    BY <1>4 DEF SvPinEntry, bpf_map__pin
  <2>3. KillsAreKnown' /\ OneAttached'
    BY <1>4 DEF SvPinEntry, bpf_map__pin
  <2>4. PinsAreThere'
    BY <1>4 DEF SvPinEntry, bpf_map__pin
  <2> QED
    BY <2>1, <2>2, <2>3, <2>4
<1>5. ASSUME NEW s \in Services, SvEnd(s) PROVE ServiceInv'
  BY <1>5 DEF SvEnd
<1>6. ASSUME NEW s \in Services, SvUnpinAttr(s) PROVE ServiceInv'
  BY <1>6 DEF SvUnpinAttr
<1>7. ASSUME NEW s \in Services, SvUnpinEntry(s) PROVE ServiceInv'
  BY <1>7 DEF SvUnpinEntry
<1>8. ASSUME NEW s \in Services, SvDetach(s) PROVE ServiceInv'
  BY <1>8 DEF SvDetach, Detached
<1>9. ASSUME NEW s \in Services, SvKill(s) PROVE ServiceInv'
  BY <1>9 DEF SvKill, Detached
<1>10. ASSUME NEW s \in Services, SvEject(s) PROVE ServiceInv'
  BY <1>10 DEF SvEject
<1>11. CASE UNCHANGED svVars
  BY <1>11 DEF svVars
<1> QED
  BY <1>1, <1>2, <1>3, <1>4, <1>5, <1>6, <1>7, <1>8, <1>9, <1>10, <1>11 DEF ServiceNext

LEMMA ServiceInvHolds == ServiceSpec => []ServiceInv
  BY ServiceInvInit, ServiceInvNext, PTL DEF ServiceSpec

(* A pinned map is one that an instance will still unpin, unless that      *)
(* instance was killed (destroy, unpinMaps).                               *)
THEOREM NothingStaysPinned == ServiceSpec => []SvNoMapLeft
<1>1. ServiceInv => SvNoMapLeft
  BY DEF ServiceInv, PinnedByOwner, SvNoMapLeft, Paths
<1> QED
  BY <1>1, ServiceInvHolds, PTL

(* While a scheduler runs undisturbed both paths lead to its maps (attach, *)
(* pinMaps).                                                               *)
THEOREM RunningIsReachable == ServiceSpec => []SvReachable
<1>1. ServiceInv => SvReachable
  BY DEF ServiceInv, PinsAreThere, HasPinned, Smooth, SvReachable, Paths
<1> QED
  BY <1>1, ServiceInvHolds, PTL

----------------------------------------------------------------------------
(* TcFilters: a filter belongs to a process that will still clean up or that*)
(* was killed, and the filters of a process that runs are taken away by no *)
(* one but another's clean-up.                                             *)
USE TcAssumption

TcPlaces == {"off", "hook ingress", "attach egress", "attach ingress", "ring buffer",
           "running", "error ingress", "error egress", "failed", "unload", "done", "killed"}

(* Type invariant of the hooks.                                            *)
TcTypeOK ==
    /\ tcPc \in [Loaders -> TcPlaces]
    /\ tcHook \in [TcHooks -> Loaders \cup {NoLoader}]
    /\ tcCreated \in [Loaders -> SUBSET TcHooks]
    /\ tcCleaned \in SUBSET Loaders

(* A process attaches only to hooks whose flags it has set: egress first,  *)
(* and both clean-ups begin with ingress.                                  *)
FlagsAreSet ==
    \A l \in Loaders :
        /\ tcPc[l] \in {"hook ingress", "attach egress", "attach ingress", "ring buffer",
                        "running"} => "egress" \in tcCreated[l]
        /\ tcPc[l] \in {"attach egress", "attach ingress", "ring buffer", "running"} =>
              "ingress" \in tcCreated[l]

(* The owner of a filter has set the flag by which it cleans up, and is    *)
(* past the attach and before the clean-up, or was killed.                 *)
OwnersCleanUp ==
    /\ tcHook["egress"] # NoLoader =>
          /\ "egress" \in tcCreated[tcHook["egress"]]
          /\ tcPc[tcHook["egress"]] \in {"attach ingress", "ring buffer", "running",
                                         "error ingress", "error egress", "unload", "killed"}
    /\ tcHook["ingress"] # NoLoader =>
          /\ "ingress" \in tcCreated[tcHook["ingress"]]
          /\ tcPc[tcHook["ingress"]] \in {"ring buffer", "running", "error ingress", "killed"}

(* What a process has attached stays, until another one cleans up.         *)
FiltersStay ==
    \A l \in Loaders : l \notin tcCleaned =>
        /\ tcPc[l] \in {"attach ingress", "ring buffer", "running"} => tcHook["egress"] = l
        /\ tcPc[l] \in {"ring buffer", "running"} => tcHook["ingress"] = l

TcInv == TcTypeOK /\ FlagsAreSet /\ OwnersCleanUp /\ FiltersStay

LEMMA TcInvInit == TcInit => TcInv
  BY DEF TcInit, TcInv, TcTypeOK, FlagsAreSet, OwnersCleanUp, FiltersStay, TcPlaces, TcHooks

(* A failure on the way only sends the process to its clean-up.            *)
LEMMA FailureKeeps ==
  ASSUME TcInv, NEW l \in Loaders, NEW from, TcFails(l, from),
         UNCHANGED <<tcHook, tcCreated, tcCleaned>>
  PROVE  TcInv'
<1> USE DEF TcInv, TcTypeOK, TcFails, TcGoes, TcPlaces
<1>1. TcTypeOK'
  OBVIOUS
<1>2. FlagsAreSet'
  BY DEF FlagsAreSet
<1>3. OwnersCleanUp' /\ FiltersStay'
  BY DEF OwnersCleanUp, FiltersStay, TcHooks
<1> QED
  BY <1>1, <1>2, <1>3

(* A hook that is there: its flag is set.                                  *)
LEMMA CreationKeeps ==
  ASSUME TcInv, NEW l \in Loaders, NEW hook \in TcHooks, NEW from, NEW to \in TcPlaces,
         TcGoes(l, from, to),
         \/ from = "off" /\ hook = "egress" /\ to = "hook ingress"
         \/ from = "hook ingress" /\ hook = "ingress" /\ to = "attach egress",
         tcCreated' = [tcCreated EXCEPT ![l] = @ \union {hook}],
         UNCHANGED <<tcHook, tcCleaned>>
  PROVE  TcInv'
<1> USE DEF TcInv
<1>1. tcCreated[l] \union {hook} \in SUBSET TcHooks
  BY DEF TcTypeOK
<1>2. tcCreated' \in [Loaders -> SUBSET TcHooks]
  BY <1>1 DEF TcTypeOK
<1>3. TcTypeOK'
  BY <1>2 DEF TcTypeOK, TcGoes
<1>4. \A k \in Loaders : tcCreated[k] \subseteq tcCreated'[k]
  BY DEF TcTypeOK
<1>5. hook \in tcCreated'[l]
  BY DEF TcTypeOK
<1>6. FlagsAreSet'
  <2> SUFFICES ASSUME NEW k \in Loaders
               PROVE  /\ tcPc'[k] \in {"hook ingress", "attach egress", "attach ingress",
                                       "ring buffer", "running"} => "egress" \in tcCreated'[k]
                      /\ tcPc'[k] \in {"attach egress", "attach ingress", "ring buffer",
                                       "running"} => "ingress" \in tcCreated'[k]
    BY DEF FlagsAreSet
  <2>1. CASE k = l
    BY <2>1, <1>4, <1>5 DEF FlagsAreSet, TcGoes, TcTypeOK
  <2>2. CASE k # l
    BY <2>2, <1>4 DEF FlagsAreSet, TcGoes, TcTypeOK
  <2> QED
    BY <2>1, <2>2
<1>7. OwnersCleanUp' /\ FiltersStay'
  BY <1>4 DEF OwnersCleanUp, FiltersStay, TcGoes, TcTypeOK, TcHooks
<1> QED
  BY <1>3, <1>6, <1>7

(* A filter that is attached to a free hook.                               *)
LEMMA AttachKeeps ==
  ASSUME TcInv, NEW l \in Loaders, NEW hook \in TcHooks, NEW from, NEW to \in TcPlaces,
         TcGoes(l, from, to),
         \/ from = "attach egress" /\ hook = "egress" /\ to = "attach ingress"
         \/ from = "attach ingress" /\ hook = "ingress" /\ to = "ring buffer",
         tcHook[hook] = NoLoader,
         tcHook' = [tcHook EXCEPT ![hook] = l],
         UNCHANGED <<tcCreated, tcCleaned>>
  PROVE  TcInv'
<1> USE DEF TcInv
<1>1. TcTypeOK'
  BY DEF TcTypeOK, TcGoes
<1>2. FlagsAreSet'
  BY DEF FlagsAreSet, TcGoes, TcTypeOK
<1>3. OwnersCleanUp' /\ FiltersStay'
  <2>1. CASE hook = "egress"
    BY <2>1 DEF OwnersCleanUp, FiltersStay, FlagsAreSet, TcGoes, TcTypeOK, TcHooks
  <2>2. CASE hook = "ingress"
    BY <2>2 DEF OwnersCleanUp, FiltersStay, FlagsAreSet, TcGoes, TcTypeOK, TcHooks
  <2> QED
    BY <2>1, <2>2 DEF TcHooks
<1> QED
  BY <1>1, <1>2, <1>3

(* Leaving a state and taking a hook away keep the types.                  *)
LEMMA GoesTyped ==
  ASSUME TcTypeOK, NEW l \in Loaders, NEW from, NEW to \in TcPlaces, TcGoes(l, from, to)
  PROVE  tcPc' \in [Loaders -> TcPlaces]
  BY DEF TcTypeOK, TcGoes

LEMMA DestroyedTyped ==
  ASSUME TcTypeOK, NEW l \in Loaders, NEW hook \in TcHooks, Destroyed(l, hook)
  PROVE  /\ tcHook' \in [TcHooks -> Loaders \cup {NoLoader}]
         /\ tcCreated' \in [Loaders -> SUBSET TcHooks]
         /\ tcCleaned' \in SUBSET Loaders
  BY DEF TcTypeOK, Destroyed

LEMMA TcInvNext == TcInv /\ [TcNext]_tcVars => TcInv'
<1> SUFFICES ASSUME TcInv, [TcNext]_tcVars
             PROVE  TcInv'
  OBVIOUS
<1>1. ASSUME NEW l \in Loaders, TcCreateEgress(l) PROVE TcInv'
  BY <1>1, CreationKeeps, FailureKeeps DEF TcCreateEgress, TcCreateHook, TcHooks, TcPlaces
<1>2. ASSUME NEW l \in Loaders, TcCreateIngress(l) PROVE TcInv'
  BY <1>2, CreationKeeps, FailureKeeps DEF TcCreateIngress, TcCreateHook, TcHooks, TcPlaces
<1>3. ASSUME NEW l \in Loaders, TcAttachEgress(l) PROVE TcInv'
  BY <1>3, AttachKeeps, FailureKeeps DEF TcAttachEgress, bpf_tc_attach, TcHooks, TcPlaces
<1>4. ASSUME NEW l \in Loaders, TcAttachIngress(l) PROVE TcInv'
  BY <1>4, AttachKeeps, FailureKeeps DEF TcAttachIngress, bpf_tc_attach, TcHooks, TcPlaces
<1>5. ASSUME NEW l \in Loaders, TcRingBuffer(l) PROVE TcInv'
  <2>1. TcTypeOK'
    BY <1>5 DEF TcInv, TcRingBuffer, TcFails, TcGoes, TcTypeOK, TcPlaces, TcHooks
  <2>2. FlagsAreSet'
    BY <1>5 DEF TcInv, TcRingBuffer, TcFails, TcGoes, TcTypeOK, FlagsAreSet, TcHooks
  <2>3. OwnersCleanUp'
    BY <1>5 DEF TcInv, TcRingBuffer, TcFails, TcGoes, TcTypeOK, FlagsAreSet,
                OwnersCleanUp, TcHooks
  <2>4. FiltersStay'
    BY <1>5 DEF TcInv, TcRingBuffer, TcFails, TcGoes, TcTypeOK, FiltersStay,
                OwnersCleanUp, TcHooks
  <2> QED
    BY <2>1, <2>2, <2>3, <2>4 DEF TcInv
<1>6. ASSUME NEW l \in Loaders, TcErrorIngress(l) PROVE TcInv'
  <2>1. TcTypeOK'
    <3>1. "error egress" \in TcPlaces /\ "ingress" \in TcHooks /\ TcTypeOK
      BY DEF TcInv, TcPlaces, TcHooks
    <3>2. tcPc' \in [Loaders -> TcPlaces]
      BY <1>6, <3>1, GoesTyped DEF TcErrorIngress
    <3> QED
      BY <1>6, <3>1, <3>2, DestroyedTyped DEF TcErrorIngress, TcTypeOK
  <2>2. FlagsAreSet'
    BY <1>6 DEF TcInv, TcErrorIngress, Destroyed, TcGoes, TcTypeOK, FlagsAreSet, TcHooks
  <2>3. OwnersCleanUp'
    BY <1>6 DEF TcInv, TcErrorIngress, Destroyed, TcGoes, TcTypeOK, FlagsAreSet,
                OwnersCleanUp, TcHooks
  <2>4. FiltersStay'
    BY <1>6 DEF TcInv, TcErrorIngress, Destroyed, TcGoes, TcTypeOK, FiltersStay,
                OwnersCleanUp, TcHooks
  <2> QED
    BY <2>1, <2>2, <2>3, <2>4 DEF TcInv
<1>7. ASSUME NEW l \in Loaders, TcErrorEgress(l) PROVE TcInv'
  <2>1. TcTypeOK'
    <3>1. "failed" \in TcPlaces /\ "egress" \in TcHooks /\ TcTypeOK
      BY DEF TcInv, TcPlaces, TcHooks
    <3>2. tcPc' \in [Loaders -> TcPlaces]
      BY <1>7, <3>1, GoesTyped DEF TcErrorEgress
    <3> QED
      BY <1>7, <3>1, <3>2, DestroyedTyped DEF TcErrorEgress, TcTypeOK
  <2>2. FlagsAreSet'
    BY <1>7 DEF TcInv, TcErrorEgress, Destroyed, TcGoes, TcTypeOK, FlagsAreSet, TcHooks
  <2>3. OwnersCleanUp'
    BY <1>7 DEF TcInv, TcErrorEgress, Destroyed, TcGoes, TcTypeOK, FlagsAreSet,
                OwnersCleanUp, TcHooks
  <2>4. FiltersStay'
    BY <1>7 DEF TcInv, TcErrorEgress, Destroyed, TcGoes, TcTypeOK, FiltersStay,
                OwnersCleanUp, TcHooks
  <2> QED
    BY <2>1, <2>2, <2>3, <2>4 DEF TcInv
<1>8. ASSUME NEW l \in Loaders, TcUnloadIngress(l) PROVE TcInv'
  <2>1. TcTypeOK'
    <3>1. "unload" \in TcPlaces /\ "ingress" \in TcHooks /\ TcTypeOK
      BY DEF TcInv, TcPlaces, TcHooks
    <3>2. tcPc' \in [Loaders -> TcPlaces]
      BY <1>8, <3>1, GoesTyped DEF TcUnloadIngress
    <3> QED
      BY <1>8, <3>1, <3>2, DestroyedTyped DEF TcUnloadIngress, TcTypeOK
  <2>2. FlagsAreSet'
    BY <1>8 DEF TcInv, TcUnloadIngress, Destroyed, TcGoes, TcTypeOK, FlagsAreSet, TcHooks
  <2>3. OwnersCleanUp'
    BY <1>8 DEF TcInv, TcUnloadIngress, Destroyed, TcGoes, TcTypeOK, FlagsAreSet,
                OwnersCleanUp, TcHooks
  <2>4. FiltersStay'
    BY <1>8 DEF TcInv, TcUnloadIngress, Destroyed, TcGoes, TcTypeOK, FiltersStay,
                OwnersCleanUp, TcHooks
  <2> QED
    BY <2>1, <2>2, <2>3, <2>4 DEF TcInv
<1>9. ASSUME NEW l \in Loaders, TcUnloadEgress(l) PROVE TcInv'
  <2>1. TcTypeOK'
    <3>1. "done" \in TcPlaces /\ "egress" \in TcHooks /\ TcTypeOK
      BY DEF TcInv, TcPlaces, TcHooks
    <3>2. tcPc' \in [Loaders -> TcPlaces]
      BY <1>9, <3>1, GoesTyped DEF TcUnloadEgress
    <3> QED
      BY <1>9, <3>1, <3>2, DestroyedTyped DEF TcUnloadEgress, TcTypeOK
  <2>2. FlagsAreSet'
    BY <1>9 DEF TcInv, TcUnloadEgress, Destroyed, TcGoes, TcTypeOK, FlagsAreSet, TcHooks
  <2>3. OwnersCleanUp'
    BY <1>9 DEF TcInv, TcUnloadEgress, Destroyed, TcGoes, TcTypeOK, FlagsAreSet,
                OwnersCleanUp, TcHooks
  <2>4. FiltersStay'
    BY <1>9 DEF TcInv, TcUnloadEgress, Destroyed, TcGoes, TcTypeOK, FiltersStay,
                OwnersCleanUp, TcHooks
  <2> QED
    BY <2>1, <2>2, <2>3, <2>4 DEF TcInv
<1>10. ASSUME NEW l \in Loaders, TcKill(l) PROVE TcInv'
  <2>1. TcTypeOK'
    BY <1>10 DEF TcInv, TcKill, TcGoes, TcTypeOK, TcPlaces, TcHooks
  <2>2. FlagsAreSet'
    BY <1>10 DEF TcInv, TcKill, TcGoes, TcTypeOK, FlagsAreSet, TcHooks
  <2>3. OwnersCleanUp'
    BY <1>10 DEF TcInv, TcKill, TcGoes, TcTypeOK, FlagsAreSet, OwnersCleanUp, TcHooks
  <2>4. FiltersStay'
    BY <1>10 DEF TcInv, TcKill, TcGoes, TcTypeOK, FiltersStay, OwnersCleanUp, TcHooks
  <2> QED
    BY <2>1, <2>2, <2>3, <2>4 DEF TcInv
<1>11. CASE UNCHANGED tcVars
  BY <1>11 DEF tcVars, TcInv, TcTypeOK, FlagsAreSet, OwnersCleanUp, FiltersStay
<1> QED
  BY <1>1, <1>2, <1>3, <1>4, <1>5, <1>6, <1>7, <1>8, <1>9, <1>10, <1>11 DEF TcNext

LEMMA TcInvHolds == TcSpec => []TcInv
  BY TcInvInit, TcInvNext, PTL DEF TcSpec

(* A running process has its two filters unless another one cleaned up,    *)
(* and no filter outlives a process that was not killed (load_eth_module,  *)
(* unload_eth_module).                                                     *)
THEOREM FiltersAreOwned == TcSpec => []TcFiltersOwned
<1>1. TcInv => TcFiltersOwned
  BY DEF TcInv, TcTypeOK, OwnersCleanUp, FiltersStay, TcFiltersOwned, TcHooks
<1> QED
  BY <1>1, TcInvHolds, PTL
=============================================================================
