------------------------------- MODULE Stream -------------------------------
(***************************************************************************)
(* A byte stream from one application to another: a Writer and a Reader    *)
(* over one connection, or over two with a Relay between them.  cfg tells  *)
(* which layers are put on the sockets, and which of the hard cases the    *)
(* applications exercise.                                                  *)
(***************************************************************************)
EXTENDS Writer, Reader, Relay

ASSUME StreamAssumption ==
    Configs \subseteq [bytes : Nat, tx : {"raw", "bufw", "compat"},
                      rx : {"raw", "prefixed", "bufr", "compat"},
                      hop : {"none", "copy", "splice"}, sock : {"tcp", "unix"},
                      legacy : BOOLEAN, cancel : BOOLEAN, drop : BOOLEAN,
                      fast : BOOLEAN]

streamVars == <<socketVars, tx, rx, hop>>

StreamInit == SocketInit /\ WriterInit /\ ReaderInit /\ RelayInit

\* The calls in progress that were given a handle of the Canceller.
Cancelable == {e \in {"tx", "rx"} : IF e = "tx" THEN tx.call \in {"write", "write_all"}
                                                ELSE rx.call # "none"}

Kernel == \/ \E e \in {"tx", "out"} : KernelSend(e) \/ KernelFail(e)
          \/ \E e \in {"rx", "in"} : KernelRecv(e) \/ KernelFail(e)

StreamNext ==
    \/ (WriterTask \/ WriterApp) /\ UNCHANGED <<rx, hop>>
    \/ (ReaderTask \/ ReaderApp) /\ UNCHANGED <<tx, hop>>
    \/ RelayTask /\ UNCHANGED <<tx, rx>>
    \/ (Kernel \/ KernelConnects) /\ UNCHANGED <<tx, rx, hop>>
    \/ cancel(Cancelable) /\ UNCHANGED <<tx, rx, hop>>

\* The runtime polls a task whose operation is done, the kernel moves bytes
\* while it can, a connection is made, and the receiver keeps reading.  The
\* sender need not send anything, nor close.
Fairness ==
    /\ WF_streamVars(WriterTask /\ UNCHANGED <<rx, hop>>)
    /\ WF_streamVars(ReaderTask /\ UNCHANGED <<tx, hop>>)
    /\ WF_streamVars(BeginRead /\ UNCHANGED <<tx, hop>>)
    /\ WF_streamVars(RelayTask /\ UNCHANGED <<tx, rx>>)
    /\ WF_streamVars(KernelConnects /\ UNCHANGED <<tx, rx, hop>>)
    /\ \A e \in {"tx", "out"} : WF_streamVars(KernelSend(e) /\ UNCHANGED <<tx, rx, hop>>)
    /\ \A e \in {"rx", "in"} : WF_streamVars(KernelRecv(e) /\ UNCHANGED <<tx, rx, hop>>)

StreamSpec == StreamInit /\ [][StreamNext]_streamVars /\ Fairness

-----------------------------------------------------------------------------
(* Properties.                                                             *)

UpTo(n) == [i \in 1..n |-> i]

Lost == \/ tx.pc \in {"failed", "dropped"}
        \/ rx.pc \in {"failed", "dropped"}
        \/ hop.pc = "failed"
        \/ peer = "refused"

\* Everything from the application that reads back to the one that writes.
Pipeline == rx.got \o Held
            \o (IF cfg.hop = "none" THEN <<>> ELSE wire[2].q \o InRelay)
            \o wire[1].q \o Unsent

\* No byte that a write accepted is lost, doubled or moved, wherever it is:
\* on the wire, in a BufWriter, in the future a StreamWrapper keeps, in the
\* buffer or the pipe of a relay, in a BufReader, in the part of a buffer
\* read_exact has filled, or with the application.  Short counts, interrupted
\* and cancelled operations leave it so.  After a fatal error or a drop the
\* application that reads still has a prefix of what was sent.  No read gets
\* to a slice that SliceMut::new refuses.
Conserved == /\ SliceMutAsserts(rx.u.buf, rx.u.begin, rx.u.end)
             /\ rx.got = UpTo(Len(rx.got))
             /\ ~Lost => /\ Pipeline = UpTo(Len(Pipeline))
                         /\ Len(Pipeline) >= tx.given

\* A call that says the stream has ended (Ok(0), UnexpectedEof) says so only
\* when everything that the sender handed over before its shutdown was read.
EofIsFinal == rx.eof /\ ~Lost => /\ tx.pc = "closed"
                                 /\ Len(rx.got) = tx.given

\* connect hands out a stream only when the connection is established, or, if
\* the caller asked for fast open, when it will be by the first write: a stream
\* whose connection is still to be made, or failed after it was handed out, is
\* one with fast open, and a connection is begun no later than with the first
\* bytes, and given up at the shutdown.
ConnectHonest ==
    tx.pc \notin {"new", "connect", "writable", "take_error", "refused"}
        => \/ peer = "established"
           \/ cfg.fast /\ (peer = "deferred" <=> wire[1].q = <<>> /\ ~wire[1].shut)

\* After a shutdown the receiver gets every byte and then the end, unless
\* something fails for good or is dropped.
AllDelivered == [](tx.pc = "closed" => <>(rx.eof \/ Lost))

=============================================================================
