------------------------------ MODULE SharedFd ------------------------------
(***************************************************************************)
(* Ownership of file descriptors: driver/shared_fd.rs.  A SharedFd is a    *)
(* clone of a reference-counted Inner; every operation in flight holds     *)
(* one.  The last clone to go closes the descriptor, with a Close entry    *)
(* (uring) or a system call (legacy), unless close() or try_unwrap did     *)
(* something about it before.                                              *)
(*                                                                         *)
(* The kernel gives a number that was closed to the next file, so a close  *)
(* too many, or a close while an operation that names the number is still  *)
(* queued, hits somebody else's file.                                      *)
(***************************************************************************)
EXTENDS Naturals, FiniteSets

CONSTANTS
  Files,       \* the Inner objects, each for a file of its own
  Fds,         \* descriptor numbers
  Ops,         \* operations
  MaxHandles,  \* bound on the clones of a SharedFd that tasks hold
  NoFile       \* nothing

ASSUME SharedFdAssumption ==
  /\ IsFiniteSet(Ops)
  /\ Fds # {}
  /\ MaxHandles \in Nat /\ MaxHandles >= 1
  /\ NoFile \notin Files

VARIABLES
  legacy,   \* which driver runs
  table,    \* the kernel's table: the file a number denotes
  fdOf,     \* Inner::fd
  st,       \* Inner::state; "new" before, "gone" after ("twice": closed twice)
            \* and "raw" if unwrapped
  handles,  \* clones held by tasks
  closer,   \* the future of close(): "none", "wait" or "closing"
  opOf,     \* the file an operation holds a clone of
  opAt,     \* where the operation is: "none", "sq", "kernel", "wait"
  pend,     \* Close entries: the files whose number they name
  reg,      \* files with a ScheduledIo in the poller's slab
  strayed   \* files whose close or operation hit another file (history)

owners == <<handles, closer, opOf, opAt>>
inner == <<table, fdOf, st, pend, reg, strayed>>
fdVars == <<owners, inner>>

(* The type invariant. *)
FdTypeOK ==
  /\ legacy \in BOOLEAN
  /\ table \in [Fds -> Files \cup {NoFile}]
  /\ fdOf \in [Files -> Fds]
  /\ st \in [Files -> {"new", "Init", "Waiting", "Closing", "Poll", "Legacy", "raw", "gone", "twice"}]
  /\ handles \in [Files -> 0..MaxHandles]
  /\ closer \in [Files -> {"none", "wait", "closing"}]
  /\ opOf \in [Ops -> Files \cup {NoFile}]
  /\ opAt \in [Ops -> {"none", "sq", "kernel", "wait"}]
  /\ pend \subseteq Files
  /\ reg \subseteq Files
  /\ strayed \subseteq Files

FdInit ==
  /\ legacy \in BOOLEAN
  /\ table = [n \in Fds |-> NoFile]
  /\ fdOf = [f \in Files |-> CHOOSE n \in Fds : TRUE]
  /\ st = [f \in Files |-> "new"]
  /\ handles = [f \in Files |-> 0]
  /\ closer = [f \in Files |-> "none"]
  /\ opOf = [o \in Ops |-> NoFile]
  /\ opAt = [o \in Ops |-> "none"]
  /\ pend = {}
  /\ reg = {}
  /\ strayed = {}

OpsOn(f) == {o \in Ops : opOf[o] = f}

(* Rc::strong_count. *)
Refs(f) == handles[f] + Cardinality(OpsOn(f)) + (IF closer[f] = "none" THEN 0 ELSE 1)

(* f's number is used: the kernel looks up what it denotes by now.         *)
UseNumber(f) ==
  strayed' = IF table[fdOf[f]] \in {f, NoFile} THEN strayed ELSE strayed \cup {f}

(* A close of f's number takes effect; the file it denotes goes.           *)
CloseNumber(f) ==
  /\ table' = [table EXCEPT ![fdOf[f]] = NoFile]
  /\ UseNumber(f)

-----------------------------------------------------------------------------
(* The end of an Inner.                                                    *)

(* Mutant: the one that waits for its close is forgotten.                  *)
InnerDropForgets(f) ==
  /\ st' = [st EXCEPT ![f] = "gone"]
  /\ IF st[f] \in {"Legacy", "Poll"}
     THEN CloseNumber(f) /\ reg' = reg \ {f} /\ UNCHANGED pend
     ELSE /\ pend' = IF st[f] = "Init" THEN pend \cup {f} ELSE pend
          /\ UNCHANGED <<table, reg, strayed>>

(* Drop for Inner.  The Close may not find room in the submission queue:   *)
(* then the descriptor is closed by a system call.                         *)
InnerDrop(f) ==
  /\ st' = [st EXCEPT ![f] = "gone"]
  /\ \/ st[f] \in {"Legacy", "Poll"} /\ CloseNumber(f) /\ reg' = reg \ {f} /\ UNCHANGED pend
     \/ st[f] \in {"Init", "Waiting"} /\ pend' = pend \cup {f} /\ UNCHANGED <<table, reg, strayed>>
     \/ st[f] \in {"Init", "Waiting"} /\ CloseNumber(f) /\ UNCHANGED <<pend, reg>>
     \/ st[f] = "Closing" /\ UNCHANGED <<table, pend, reg, strayed>>

(* A clone goes. *)
Release(f) ==
  /\ IF Refs(f) = 1 THEN InnerDrop(f) ELSE UNCHANGED <<table, st, pend, reg, strayed>>
  /\ UNCHANGED fdOf

-----------------------------------------------------------------------------
(* Operations on a SharedFd.                                               *)

(* SharedFd::new; with the legacy driver the file is registered.           *)
Open(f) ==
  /\ st[f] = "new"
  /\ \E n \in Fds :
       /\ table[n] = NoFile
       /\ table' = [table EXCEPT ![n] = f]
       /\ fdOf' = [fdOf EXCEPT ![f] = n]
  /\ st' = [st EXCEPT ![f] = IF legacy THEN "Legacy" ELSE "Init"]
  /\ reg' = IF legacy THEN reg \cup {f} ELSE reg
  /\ handles' = [handles EXCEPT ![f] = 1]
  /\ UNCHANGED <<closer, opOf, opAt, pend, strayed>>

Clone(f) ==
  /\ handles[f] \in 1..(MaxHandles - 1)
  /\ handles' = [handles EXCEPT ![f] = @ + 1]
  /\ UNCHANGED <<closer, opOf, opAt, inner>>

DropHandle(f) ==
  /\ handles[f] > 0
  /\ handles' = [handles EXCEPT ![f] = @ - 1]
  /\ Release(f)
  /\ UNCHANGED <<closer, opOf, opAt>>

(* An operation is made, and holds a clone until it is done, or, for the   *)
(* uring driver, until the kernel is done with it.                         *)
StartOp(f, o) ==
  /\ handles[f] > 0 /\ opOf[o] = NoFile /\ st[f] \in {"Init", "Waiting", "Legacy"}
  /\ opOf' = [opOf EXCEPT ![o] = f]
  /\ opAt' = [opAt EXCEPT ![o] = IF legacy THEN "wait" ELSE "sq"]
  /\ UNCHANGED <<handles, closer, inner>>

(* The kernel looks the number up when it takes the entry.                 *)
KernelTakes(o) ==
  /\ opAt[o] = "sq"
  /\ opAt' = [opAt EXCEPT ![o] = "kernel"]
  /\ UseNumber(opOf[o])
  /\ UNCHANGED <<handles, closer, opOf, table, fdOf, st, pend, reg>>

EndOp(o) ==
  /\ opAt[o] \in {"kernel", "wait"}
  /\ opOf' = [opOf EXCEPT ![o] = NoFile]
  /\ opAt' = [opAt EXCEPT ![o] = "none"]
  /\ Release(opOf[o])
  /\ UNCHANGED <<handles, closer>>

(* close(), for the uring driver: the only clone is closed; with others    *)
(* around the future waits.  (No room for the entry: see CloseFails.)      *)
Close(f) ==
  /\ handles[f] > 0 /\ closer[f] = "none" /\ st[f] \in {"Init", "Waiting", "Poll"}
  /\ handles' = [handles EXCEPT ![f] = @ - 1]
  /\ \/ /\ Refs(f) = 1
        /\ closer' = [closer EXCEPT ![f] = "closing"]
        /\ st' = [st EXCEPT ![f] = "Closing"]
        /\ pend' = pend \cup {f}
     \/ /\ Refs(f) > 1 /\ st[f] # "Poll"
        /\ closer' = [closer EXCEPT ![f] = "wait"]
        /\ st' = [st EXCEPT ![f] = "Waiting"]
        /\ UNCHANGED pend
     \/ /\ Refs(f) > 1 /\ st[f] = "Poll"
        /\ UNCHANGED <<closer, st, pend>>
  /\ UNCHANGED <<opOf, opAt, table, fdOf, reg, strayed>>

(* close() finds no room for its entry: it closes the descriptor with a    *)
(* system call and returns, and the drop of the Inner, whose state is what *)
(* it was, closes it again.                                                *)
CloseFails(f) ==
  /\ handles[f] = 1 /\ Refs(f) = 1 /\ st[f] \in {"Init", "Waiting", "Poll"}
  /\ handles' = [handles EXCEPT ![f] = 0]
  /\ st' = [st EXCEPT ![f] = "twice"]
  /\ CloseNumber(f)
  /\ IF st[f] = "Poll" THEN reg' = reg \ {f} /\ UNCHANGED pend
     ELSE pend' \in {pend, pend \cup {f}} /\ UNCHANGED reg
  /\ UNCHANGED <<closer, opOf, opAt, fdOf>>

KernelCloses(f) ==
  /\ f \in pend
  /\ pend' = pend \ {f}
  /\ CloseNumber(f)
  /\ UNCHANGED <<owners, fdOf, st, reg>>

(* The Close has completed: the future of close() returns, and the Inner   *)
(* goes with it.                                                           *)
CloseReturns(f) ==
  /\ closer[f] = "closing" /\ f \notin pend
  /\ closer' = [closer EXCEPT ![f] = "none"]
  /\ Release(f)
  /\ UNCHANGED <<handles, opOf, opAt>>

(* It is dropped before; the Close is not cancelled (SKIP_CANCEL).         *)
DropClose(f) ==
  /\ closer[f] # "none"
  /\ closer' = [closer EXCEPT ![f] = "none"]
  /\ Release(f)
  /\ UNCHANGED <<handles, opOf, opAt>>

(* try_unwrap: the only clone gives the number away unclosed.              *)
TryUnwrap(f) ==
  /\ handles[f] = 1 /\ Refs(f) = 1
  /\ st' = [st EXCEPT ![f] = "raw"]
  /\ handles' = [handles EXCEPT ![f] = 0]
  /\ reg' = IF st[f] = "Legacy" THEN reg \ {f} ELSE reg
  /\ UNCHANGED <<closer, opOf, opAt, table, fdOf, pend, strayed>>

RawClose(f) ==
  /\ st[f] = "raw"
  /\ st' = [st EXCEPT ![f] = "gone"]
  /\ CloseNumber(f)
  /\ UNCHANGED <<owners, fdOf, pend, reg>>

(* into_poll_io and back: the descriptor changes over to the poller.       *)
CvtPoll(f) ==
  /\ handles[f] > 0 /\ st[f] = "Init"
  /\ st' = [st EXCEPT ![f] = "Poll"]
  /\ reg' = reg \cup {f}
  /\ UNCHANGED <<owners, table, fdOf, pend, strayed>>

CvtComp(f) ==
  /\ handles[f] > 0 /\ st[f] = "Poll"
  /\ st' = [st EXCEPT ![f] = "Init"]
  /\ reg' = reg \ {f}
  /\ UNCHANGED <<owners, table, fdOf, pend, strayed>>

-----------------------------------------------------------------------------
(* No close and no operation reaches another file, although numbers are    *)
(* reused: what close() is written for ("This prevents bugs where          *)
(* in-flight reads could operate on the incorrect file descriptor").  A    *)
(* close() whose entry found no room is the exception, see CloseFails.     *)
OnlyOwnFile == strayed = {} \/ \E f \in Files : st[f] = "twice"

(* No descriptor leaks: an open one has an owner, or a Close on its way.   *)
NoFdLeak ==
  \A n \in Fds : table[n] # NoFile =>
    LET f == table[n] IN fdOf[f] = n /\ (Refs(f) > 0 \/ f \in pend \/ st[f] = "raw")

(* A file that is used through the poller is registered there: poll_op     *)
(* never finds its ScheduledIo lost.                                       *)
ScheduledIoAlive == \A f \in Files : st[f] \in {"Legacy", "Poll"} => f \in reg

(* Every descriptor has its owner for as long as it is open, and nobody    *)
(* uses or closes one that is not its own.                                 *)
DescriptorsOwned == FdTypeOK /\ OnlyOwnFile /\ NoFdLeak /\ ScheduledIoAlive
=============================================================================
