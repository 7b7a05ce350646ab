---------------------------- MODULE SyscallImage ----------------------------
(***************************************************************************)
(* The system call sequences of proc_image (syscall_image.bpf.c): each     *)
(* thread has an entry in proc_syscall with the calls it entered, the time *)
(* of the last entry and the time spent so far; the return of the          *)
(* syscalls-th call sends the entry to the user and deletes it.            *)
(*                                                                         *)
(* The environment: threads in and out of system calls, which exit and     *)
(* whose ids are used again; a new thread begins in the call that made it, *)
(* and returns from it without having entered it.  A probe may not run: it *)
(* is not attached yet, was missed, or a filter took the call before.      *)
(***************************************************************************)
EXTENDS Integers, BpfMaps

CONSTANTS SyThreads,
          SyOptions,          \* values the user gives the option -s
          MAX_SYSCALL_COUNT,  \* calls an entry has room for
          MaxEvents           \* bound on the clock: entries and returns

ASSUME SyscallAssumption ==
    SyOptions \subseteq Int /\ MAX_SYSCALL_COUNT \in Nat \ {0} /\ MaxEvents \in Nat

VARIABLES syscalls,       \* the option: length of a sequence
          syThread,       \* where each thread is, since when
          syMap,          \* map proc_syscall
          syClock,
          sySpent,        \* per thread, the time really spent in the calls of
                          \* its entry that sys_exit has seen
          syLate,         \* threads that are or were in a call whose beginning
                          \* their entry did not take
          syReport        \* the event the last step submitted, if any

syVars == <<syscalls, syThread, syMap, syClock, sySpent, syLate, syReport>>

SyNoReport == [sum |-> 0, spent |-> 0, count |-> 0, late |-> FALSE]

\* proc_image.c:186 rejects no value.
SyscallInit ==
    /\ syscalls \in SyOptions
    /\ syThread \in [SyThreads -> [pc : {"user", "in"}, began : {0}]]
    /\ syMap = [t \in {} |-> 0]
    /\ syClock = 0
    /\ sySpent = [t \in SyThreads |-> 0]
    /\ syLate = {}
    /\ syReport = SyNoReport

\* The probe leaves the beginning of the call out.
NotTaken(t) == syLate' = syLate \union {t} /\ UNCHANGED <<syMap, sySpent>>

\* The first call makes the entry, for which the map may have no room.
FirstCall(t, now) ==
    /\ t \notin DOMAIN syMap
    /\ \/ /\ syMap' = Updated(syMap, t, [enter |-> now, count |-> 1, sum |-> 0])
          /\ sySpent' = [sySpent EXCEPT ![t] = 0]
          /\ syLate' = syLate \ {t}
       \/ NotTaken(t)

\* The record has room for the call.
Capped(entry) == IF entry.count <= MAX_SYSCALL_COUNT - 1 THEN entry.count + 1 ELSE entry.count

\* Mutant: only the first call of a sequence takes the time.
sys_enter_first(t, now) ==
    \/ FirstCall(t, now)
    \/ /\ t \in DOMAIN syMap /\ syMap[t].count < syscalls
       /\ syMap' = [syMap EXCEPT ![t].count = Capped(syMap[t])]
       /\ UNCHANGED <<sySpent, syLate>>
    \/ t \in DOMAIN syMap /\ syMap[t].count >= syscalls /\ NotTaken(t)

\* sys_enter: only an entry that is not full takes the call and the time.
sys_enter(t, now) ==
    \/ FirstCall(t, now)
    \/ /\ t \in DOMAIN syMap /\ syMap[t].count < syscalls
       /\ syMap' = [syMap EXCEPT ![t] = [enter |-> now, count |-> Capped(@), sum |-> @.sum]]
       /\ UNCHANGED <<sySpent, syLate>>
    \/ t \in DOMAIN syMap /\ syMap[t].count >= syscalls /\ NotTaken(t)

SyEnter(t) ==
    /\ syThread[t].pc = "user"
    /\ syClock < MaxEvents
    /\ syClock' = syClock + 1
    /\ syThread' = [syThread EXCEPT ![t] = [pc |-> "in", began |-> syClock + 1]]
    /\ sys_enter(t, syClock + 1) \/ NotTaken(t)
    /\ syReport' = SyNoReport
    /\ UNCHANGED syscalls

\* sys_exit: the entry is sent and deleted when it is full, unless the ring
\* buffer is full, too.
sys_exit(t, now) ==
    LET entry == [syMap[t] EXCEPT !.sum = @ + (now - syMap[t].enter)]
        spent == sySpent[t] + (now - syThread[t].began)
    IN  /\ t \in DOMAIN syMap
        /\ sySpent' = [sySpent EXCEPT ![t] = spent]
        /\ \/ /\ syMap' = [syMap EXCEPT ![t] = entry]
              /\ syReport' = SyNoReport
           \/ /\ entry.count >= syscalls
              /\ syMap' = Without(syMap, {t})
              /\ syReport' = [sum |-> entry.sum, spent |-> spent, count |-> entry.count,
                              late |-> t \in syLate]

SyExit(t) ==
    /\ syThread[t].pc = "in"
    /\ syClock < MaxEvents
    /\ syClock' = syClock + 1
    /\ syThread' = [syThread EXCEPT ![t] = [pc |-> "user", began |-> 0]]
    /\ \/ sys_exit(t, syClock + 1)
       \/ UNCHANGED <<syMap, sySpent>> /\ syReport' = SyNoReport
    /\ UNCHANGED <<syscalls, syLate>>

\* A thread dies, and its id comes to a new one, which is in its clone.
SyReplaced(t) ==
    /\ syThread' = [syThread EXCEPT ![t] = [pc |-> "in", began |-> syClock]]
    /\ syLate' = syLate \union {t}
    /\ syReport' = SyNoReport
    /\ UNCHANGED <<syscalls, syMap, syClock, sySpent>>

SyscallNext == \E t \in SyThreads : SyEnter(t) \/ SyExit(t) \/ SyReplaced(t)

SyscallSpec == SyscallInit /\ [][SyscallNext]_syVars

-----------------------------------------------------------------------------
\* A sequence is reported with the length the user asked for - one call, where
\* that is less than one, and none, where it is more than an entry has room for
\* - and with the time its calls took, though threads die in the middle of one.
\* Only where the entry did not take the beginning of a call - it was full, the
\* probe did not run, or the thread began its life inside - is the time larger,
\* never smaller (sys_enter, sys_exit).
SySequencesExact ==
    syReport # SyNoReport =>
        /\ syReport.count = IF syscalls < 1 THEN 1 ELSE syscalls
        /\ syReport.count <= MAX_SYSCALL_COUNT
        /\ syReport.sum >= syReport.spent
        /\ ~syReport.late => syReport.sum = syReport.spent
=============================================================================
