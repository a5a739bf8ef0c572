---------------------------- MODULE MCRemoteSubmix ----------------------------
(* The remote submix device with a few addresses and recording clients. *)
EXTENDS RemoteSubmix, TLC

\* Threads and sample rates are interchangeable.
Symmetry == Permutations(Addresses) \cup Permutations(Clients) \cup Permutations(Rates)

\* Pipes are told apart by who refers to them, not by their number; a pipe nobody refers to
\* is not read again before it is created anew.
Holders(p) == <<{i \in Routes : routes[i].pipe = p}, {a \in Addresses : out[a].sink = p},
                {c \in Clients : in[c].source = p}>>
View == <<[i \in Routes |-> [routes[i] EXCEPT !.pipe = IF @ = 0 THEN 0 ELSE 1]],
          [a \in Addresses |-> [out[a] EXCEPT !.sink = 0]],
          [c \in Clients |-> [in[c] EXCEPT !.source = 0]], exited,
          {<<Holders(p), pipes[p]>> : p \in {q \in Pipes : Holders(q) # <<{}, {}, {}>>}}>>
=============================================================================
