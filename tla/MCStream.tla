------------------------------ MODULE MCStream ------------------------------
(* Representative stacks of streams, each exercised with small buffers.    *)
EXTENDS Stream

Cfg(n, t, r, h, s, l, c, d) ==
    [bytes |-> n, tx |-> t, rx |-> r, hop |-> h, sock |-> s,
     legacy |-> l, cancel |-> c, drop |-> d, fast |-> FALSE]

MCConfigs == {
    Cfg(3, "raw", "raw", "none", "tcp", TRUE, TRUE, FALSE),
    Cfg(3, "raw", "prefixed", "none", "unix", FALSE, TRUE, TRUE),
    Cfg(4, "bufw", "bufr", "none", "tcp", FALSE, FALSE, FALSE),
    Cfg(3, "compat", "compat", "none", "unix", TRUE, FALSE, TRUE),
    Cfg(3, "raw", "compat", "copy", "tcp", FALSE, FALSE, TRUE),
    Cfg(3, "bufw", "compat", "splice", "tcp", FALSE, FALSE, FALSE)}
    \cup {[Cfg(2, t, "raw", "none", "tcp", l, FALSE, l) EXCEPT !.fast = TRUE] :
            t \in {"raw", "bufw"}, l \in BOOLEAN}

MCVecLens == <<1, 2>>
=============================================================================
