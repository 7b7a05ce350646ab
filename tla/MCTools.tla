------------------------------ MODULE MCTools ------------------------------
(***************************************************************************)
(* An instance of every tool that watches or steers the kernel from one    *)
(* program: a behaviour is one of one tool, and leaves the variables of    *)
(* the others as they begin.                                               *)
(***************************************************************************)
EXTENDS NetfilterTimes, PacketTimes, NetConns, SockMap, MapCounters, TcFilters,
        UdsTrace, ShmTrace, IoTracing, StartTimes, SyscallImage, ScheduleImage,
        SchedulerService

VARIABLE tool

Tools == {"netfilter", "packet", "conns", "tcpaccd", "counters", "tc_eth", "uds", "shm",
          "iotracing", "cpu_watcher", "syscall", "schedule", "scx_rms"}

\* Several initial states only for the tool that runs.
Begins(name, chosen) == tool # name => chosen

Init ==
    /\ tool \in Tools
    /\ NetfilterInit /\ PacketInit /\ NetConnsInit /\ TcInit /\ ShmInit /\ IoInit
    /\ ServiceInit
    /\ SockMapInit /\ Begins("tcpaccd", smTuple = [c \in Conns |-> CHOOSE t \in Tuples : TRUE])
    /\ MapCountersInit /\ Begins("counters", mcIdiom = "rst")
    /\ UdsInit /\ Begins("uds", udPeer = [s \in UdsSockets |-> NoSock])
    /\ StartTimesInit /\ Begins("cpu_watcher", stTool = "softirq" /\ ~stOverlapped)
    /\ SyscallInit /\ Begins("syscall", /\ syscalls = CHOOSE n \in SyOptions : TRUE
                                        /\ \A t \in SyThreads : syThread[t].pc = "user")
    /\ ScheduleInit /\ Begins("schedule", \A t \in SiTasks : siTask[t].at = "none")

Rests(name, vars) == tool # name => UNCHANGED vars

Resting ==
    /\ UNCHANGED tool
    /\ Rests("netfilter", nfVars) /\ Rests("packet", ptVars) /\ Rests("conns", ncVars)
    /\ Rests("tcpaccd", smVars) /\ Rests("counters", mcVars) /\ Rests("tc_eth", tcVars)
    /\ Rests("uds", udVars) /\ Rests("shm", shVars) /\ Rests("iotracing", ioVars)
    /\ Rests("cpu_watcher", stVars) /\ Rests("syscall", syVars) /\ Rests("schedule", siVars)
    /\ Rests("scx_rms", svVars)

Next ==
    \/ tool = "netfilter" /\ NetfilterNext /\ Resting
    \/ tool = "packet" /\ PacketNext /\ Resting
    \/ tool = "conns" /\ NetConnsNext /\ Resting
    \/ tool = "tcpaccd" /\ SockMapNext /\ Resting
    \/ tool = "counters" /\ MapCountersNext /\ Resting
    \/ tool = "tc_eth" /\ TcNext /\ Resting
    \/ tool = "uds" /\ UdsNext /\ Resting
    \/ tool = "shm" /\ ShmNext /\ Resting
    \/ tool = "iotracing" /\ IoNext /\ Resting
    \/ tool = "cpu_watcher" /\ StartTimesNext /\ Resting
    \/ tool = "syscall" /\ SyscallNext /\ Resting
    \/ tool = "schedule" /\ ScheduleNext /\ Resting
    \/ tool = "scx_rms" /\ ServiceNext /\ Resting

Spec == Init /\ [][Next]_<<tool, nfVars, ptVars, ncVars, smVars, mcVars, tcVars, udVars,
                           shVars, ioVars, stVars, syVars, siVars, svVars>>
=============================================================================
