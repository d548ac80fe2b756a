----------------------------- MODULE MCKeyStore -----------------------------
(***************************************************************************)
(* Small instances of KeyStore.                                            *)
(***************************************************************************)
EXTENDS KeyStore

\* A key that is rotated up to twice, with no handler at work
Rotated == [KeyIDs |-> {"k1", "k2", "k3"}, Generated |-> {"k1"}, Handlers |-> {},
            Operations |-> {}, Period |-> 2, Interval |-> 1, AutoRotate |-> TRUE,
            MaxObjects |-> 3, MaxSpend |-> 1, MaxClock |-> 5]

\* UpdateKey requests, one after the other, with resets and a rotation
Updated == [KeyIDs |-> {"k1", "k2"}, Generated |-> {"k1"}, Handlers |-> {"h1"},
            Operations |-> {"update"}, Period |-> 1, Interval |-> 1, AutoRotate |-> TRUE,
            MaxObjects |-> 3, MaxSpend |-> 0, MaxClock |-> 3]

\* Two concurrent UpdateKey requests, with resets
Concurrent == [Updated EXCEPT !.KeyIDs = {"k1"}, !.Handlers = {"h1", "h2"},
                              !.AutoRotate = FALSE]

\* New credentials for a key whose budget is due
Regenerated == [KeyIDs |-> {"k1"}, Generated |-> {"k1"}, Handlers |-> {"h1"},
                Operations |-> {"regenerate"}, Period |-> 1, Interval |-> 2,
                AutoRotate |-> FALSE, MaxObjects |-> 3, MaxSpend |-> 0, MaxClock |-> 3]

MCSettings == {Rotated, Updated, Concurrent, Regenerated}

=============================================================================
