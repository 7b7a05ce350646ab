------------------------------ MODULE IoTracing ------------------------------
(***************************************************************************)
(* The accounting of block requests by iotracing (iotracing.bpf.c): a      *)
(* probe at issue stores the owner of a request in start_info_map under    *)
(* device and SECTOR; one at completion finds it there, adds the request   *)
(* to the owner's entry of io_source_map, and deletes it.  The probes of   *)
(* reads, writes and faults of files make an entry of the owner, with no   *)
(* request in it, when they find none.  What is counted here is requests   *)
(* (latency.cnt), not their bytes.                                         *)
(*                                                                         *)
(* The environment is the block layer: the data of a request is handed     *)
(* back before its completion reaches the probe, so its sector may be      *)
(* issued again by then; a request may be put back and issued once more;   *)
(* requests with REQ_META are not recorded, but do reach the second probe. *)
(*                                                                         *)
(* bpf_map_update_elem puts a new element in the place of one that is      *)
(* there, and the map will use the old one again, for any key: a pointer   *)
(* to it reads and writes what is another's.                               *)
(***************************************************************************)
EXTENDS Naturals, FiniteSets, BpfMaps

CONSTANTS IoCpus, Sectors, Owners,
          MaxIssued       \* bound: requests issued

ASSUME IoAssumption == MaxIssued \in Nat

VARIABLES ioRequests,     \* requests issued and not completed
          ioStart,        \* map start_info_map: sector -> recorded request
          ioSource,       \* map io_source_map: owner -> element; gen 0: none
          ioProgram,      \* the program each CPU runs
          ioIssued,       \* requests issued so far
          ioRecorded,     \* per owner, how many were recorded at issue
          ioFinished,     \* per owner, how many were to be counted by now
          ioShared,       \* owners two programs were at work for at one time
          ioOverlapped,   \* completions of one sector overlapped, or a record
                          \* was replaced between its lookup and its reading
          ioTorn          \* a program held an element of io_source_map when it
                          \* was replaced

ioVars == <<ioRequests, ioStart, ioSource, ioProgram, ioIssued, ioRecorded, ioFinished,
            ioShared, ioOverlapped, ioTorn>>

IoIdle == [pc |-> "idle"]

IoInit ==
    /\ ioRequests = {}
    /\ ioStart = [s \in {} |-> 0]
    /\ ioSource = [o \in Owners |-> [gen |-> 0, count |-> 0]]
    /\ ioProgram = [c \in IoCpus |-> IoIdle]
    /\ ioIssued = 0
    /\ ioRecorded = [o \in Owners |-> 0]
    /\ ioFinished = [o \in Owners |-> 0]
    /\ ioShared = {}
    /\ ioOverlapped = FALSE
    /\ ioTorn = FALSE

Finding(sector) ==
    \E c \in IoCpus : ioProgram[c].pc = "read" /\ ioProgram[c].sector = sector

\* bpf_rq_qos_issue replaces whatever is under the sector; start_info_map may
\* be full.
rq_qos_issue(r) ==
    IF r.meta THEN UNCHANGED <<ioStart, ioRecorded, ioOverlapped>>
    ELSE \/ /\ ioStart' = Updated(ioStart, r.sector, [owner |-> r.owner, nr |-> ioIssued + 1])
            /\ ioRecorded' = [ioRecorded EXCEPT ![r.owner] = @ + 1]
            /\ ioOverlapped' = (ioOverlapped \/ Finding(r.sector))
         \/ /\ r.sector \notin DOMAIN ioStart
            /\ UNCHANGED <<ioStart, ioRecorded, ioOverlapped>>

IoIssue(sector, owner, meta) ==
    LET r == [nr |-> ioIssued + 1, sector |-> sector, owner |-> owner, meta |-> meta]
    IN  /\ ioIssued < MaxIssued
        /\ ioIssued' = ioIssued + 1
        /\ ioRequests' = ioRequests \union {r}
        /\ rq_qos_issue(r)
        /\ UNCHANGED <<ioSource, ioProgram, ioFinished, ioShared, ioTorn>>

\* A request that was put back is issued again.
IoReissue(r) ==
    /\ ioIssued < MaxIssued
    /\ ioIssued' = ioIssued + 1
    /\ rq_qos_issue(r)
    /\ UNCHANGED <<ioRequests, ioSource, ioProgram, ioFinished, ioShared, ioTorn>>

\* A completion is at work on the sector.
Handled(sector) ==
    \E c \in IoCpus : /\ ioProgram[c].pc \in {"read", "load", "store", "delete"}
                      /\ ioProgram[c].sector = sector

\* bpf_rq_qos_done looks the record up, ...
IoDone(c, r) ==
    /\ ioProgram[c] = IoIdle
    /\ ioRequests' = ioRequests \ {r}
    /\ IF r.sector \notin DOMAIN ioStart THEN UNCHANGED <<ioProgram, ioOverlapped>>
       ELSE /\ ioProgram' = [ioProgram EXCEPT ![c] =
                  [pc |-> "read", sector |-> r.sector, nr |-> ioStart[r.sector].nr]]
            /\ ioOverlapped' = (ioOverlapped \/ Handled(r.sector))
    /\ UNCHANGED <<ioStart, ioSource, ioIssued, ioRecorded, ioFinished, ioShared, ioTorn>>

\* A program is between its lookup of the owner's entry and its end with it.
WorksFor(c, o) == ioProgram[c].pc \in {"load", "store", "insert"} /\ ioProgram[c].owner = o

\* The element of io_source_map that the program on c points to is in the map.
InMap(c) == ioProgram[c].gen = ioSource[ioProgram[c].owner].gen

\* Mutant: the entry that is there is not looked at.
SourceIgnored(owner) == 0

\* The lookup in io_source_map.
Source(owner) == ioSource[owner].gen

\* ... reads the owner out of it, and looks up the owner's entry; a request
\* that neither reads nor writes is not counted ...
IoOwner(c) ==
    LET done == ioProgram[c]
        kept == done.sector \in DOMAIN ioStart /\ ioStart[done.sector].nr = done.nr
    IN  /\ done.pc = "read"
        /\ \/ /\ ioProgram' = [ioProgram EXCEPT ![c] = [pc |-> "delete", sector |-> done.sector]]
              /\ UNCHANGED ioShared
           \/ \E o \in IF kept THEN {ioStart[done.sector].owner} ELSE Owners :
                 /\ ioProgram' = [ioProgram EXCEPT ![c] =
                        [pc |-> "load", sector |-> done.sector, owner |-> o,
                         gen |-> Source(o), count |-> 0]]
                 /\ ioShared' = IF \E d \in IoCpus : WorksFor(d, o) THEN ioShared \union {o}
                                ELSE ioShared
        /\ UNCHANGED <<ioRequests, ioStart, ioSource, ioIssued, ioRecorded, ioFinished,
                       ioOverlapped, ioTorn>>

\* ... adds the request to the entry it found, by a load and a store, or
\* makes one of its own ...
IoLoad(c) ==
    LET done == ioProgram[c]
    IN  /\ done.pc = "load"
        /\ \E value \in IF done.gen = 0 THEN {0}
                        ELSE IF InMap(c) THEN {ioSource[done.owner].count} ELSE 0 .. MaxIssued :
              ioProgram' = [ioProgram EXCEPT ![c] = [done EXCEPT !.pc = "store", !.count = value + 1]]
        /\ UNCHANGED <<ioRequests, ioStart, ioSource, ioIssued, ioRecorded, ioFinished,
                       ioShared, ioOverlapped, ioTorn>>

\* bpf_map_update_elem of io_source_map.
Inserted(owner, count) ==
    /\ ioSource' = [ioSource EXCEPT ![owner] = [gen |-> @.gen + 1, count |-> count]]
    /\ ioTorn' = (ioTorn \/ \E d \in IoCpus : /\ WorksFor(d, owner) /\ InMap(d)
                                              /\ ioProgram[d].gen # 0)

Counted(c) ==
    /\ ioFinished' = [ioFinished EXCEPT ![ioProgram[c].owner] = @ + 1]
    /\ ioProgram' = [ioProgram EXCEPT ![c] = [pc |-> "delete", sector |-> ioProgram[c].sector]]
    /\ UNCHANGED <<ioRequests, ioStart, ioIssued, ioRecorded, ioShared, ioOverlapped>>

\* ... (what is stored to an element that was replaced may be in the entry of
\* any owner) ...
IoStore(c) ==
    LET done == ioProgram[c]
    IN  /\ done.pc = "store"
        /\ done.gen # 0
        /\ \/ /\ InMap(c)
              /\ ioSource' = [ioSource EXCEPT ![done.owner].count = done.count]
           \/ /\ ~InMap(c)
              /\ \/ UNCHANGED ioSource
                 \/ \E o \in Owners : ioSource[o].gen # 0
                       /\ ioSource' = [ioSource EXCEPT ![o].count = done.count]
        /\ Counted(c)
        /\ UNCHANGED ioTorn

IoInsert(c) ==
    /\ ioProgram[c].pc = "store"
    /\ ioProgram[c].gen = 0
    /\ Inserted(ioProgram[c].owner, ioProgram[c].count)
    /\ Counted(c)

\* ... (the owner has no entry, and the map is full: nothing is counted) ...
IoInsertFails(c) ==
    /\ ioProgram[c].pc = "store"
    /\ ioSource[ioProgram[c].owner].gen = 0
    /\ ioProgram' = [ioProgram EXCEPT ![c] = [pc |-> "delete", sector |-> ioProgram[c].sector]]
    /\ UNCHANGED <<ioRequests, ioStart, ioSource, ioIssued, ioRecorded, ioFinished, ioShared,
                   ioOverlapped, ioTorn>>

\* Mutant: the start stays.
IoDeleteForgotten(c) ==
    /\ ioProgram[c].pc = "delete"
    /\ ioProgram' = [ioProgram EXCEPT ![c] = IoIdle]
    /\ UNCHANGED <<ioRequests, ioStart, ioSource, ioIssued, ioRecorded, ioFinished, ioShared,
                   ioOverlapped, ioTorn>>

\* ... and deletes the start, whoever stored it.
IoDelete(c) ==
    /\ ioProgram[c].pc = "delete"
    /\ ioStart' = Without(ioStart, {ioProgram[c].sector})
    /\ ioProgram' = [ioProgram EXCEPT ![c] = IoIdle]
    /\ UNCHANGED <<ioRequests, ioSource, ioIssued, ioRecorded, ioFinished, ioShared,
                   ioOverlapped, ioTorn>>

\* bpf_file_read_write finds no entry of the owner ...
IoFile(c, o) ==
    /\ ioProgram[c] = IoIdle
    /\ ioSource[o].gen = 0
    /\ ioProgram' = [ioProgram EXCEPT ![c] = [pc |-> "insert", owner |-> o, gen |-> 0]]
    /\ ioShared' = IF \E d \in IoCpus : WorksFor(d, o) THEN ioShared \union {o} ELSE ioShared
    /\ UNCHANGED <<ioRequests, ioStart, ioSource, ioIssued, ioRecorded, ioFinished,
                   ioOverlapped, ioTorn>>

\* ... and makes one, over the one another program may have made by now; the
\* map may be full.
IoFileInsert(c) ==
    /\ ioProgram[c].pc = "insert"
    /\ \/ Inserted(ioProgram[c].owner, 0)
       \/ ioSource[ioProgram[c].owner].gen = 0 /\ UNCHANGED <<ioSource, ioTorn>>
    /\ ioProgram' = [ioProgram EXCEPT ![c] = IoIdle]
    /\ UNCHANGED <<ioRequests, ioStart, ioIssued, ioRecorded, ioFinished, ioShared, ioOverlapped>>

IoNext ==
    \/ \E s \in Sectors, o \in Owners, meta \in BOOLEAN : IoIssue(s, o, meta)
    \/ \E r \in ioRequests : IoReissue(r) \/ \E c \in IoCpus : IoDone(c, r)
    \/ \E c \in IoCpus :
          \/ IoOwner(c) \/ IoLoad(c) \/ IoStore(c) \/ IoInsert(c) \/ IoInsertFails(c)
          \/ IoDelete(c) \/ IoFileInsert(c)
          \/ \E o \in Owners : IoFile(c, o)

IoSpec == IoInit /\ [][IoNext]_ioVars

-----------------------------------------------------------------------------
\* Requests recorded for an owner and neither counted nor being deleted.
Waiting(o) ==
    Cardinality({s \in DOMAIN ioStart : ioStart[s].owner = o /\ ~\E c \in IoCpus :
                    ioProgram[c].pc = "delete" /\ ioProgram[c].sector = s})

\* No owner is charged for more requests than were recorded for it, although a
\* request is known by its sector only, is issued again, or finds the record
\* of another, and although completions on several CPUs add to one entry: as
\* long as no two completions of one sector overlap, and no record or element
\* is replaced in the hands of a program, each record is counted at most once
\* and then gone (bpf_rq_qos_issue and bpf_rq_qos_done).
IoChargedOnce ==
    ~ioOverlapped /\ ~ioTorn =>
        \A o \in Owners : ioSource[o].count + Waiting(o) <= ioRecorded[o]

\* No charge is lost or made twice but where two programs were at work for one
\* owner at one time: completions, of any sectors, that load and store one
\* entry, or a completion and an access to the file that both found none, of
\* which the second insert replaces the first.  Else the entry of an owner has
\* every request whose completion found its record, those aside that found the
\* map full (bpf_rq_qos_done, bpf_file_read_write).
IoChargesKept ==
    ~ioTorn => \A o \in Owners : /\ ioSource[o].count <= ioFinished[o]
                                 /\ o \notin ioShared => ioSource[o].count = ioFinished[o]
=============================================================================
