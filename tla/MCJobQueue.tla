---------------------------- MODULE MCJobQueue ----------------------------
(***************************************************************************)
(* Instances of JobQueue for TLC.                                          *)
(***************************************************************************)
EXTENDS JobQueue, TLC

\* Every run passes a name of its own, as two JobQueueService objects built
\* with different workerIds do.
DistinctIds == [p \in Runs |-> p]

\* As app/server.js wires it: one name per queue, whatever the host or pump.
SharedId == [p \in Runs |-> "worker"]

\* 1000 * 2^(attempt - 1) ms under a cap of five minutes, one tick a second.
BackoffTable == <<1, 2, 4, 8, 16, 32, 64, 128, 256, 300>>
MCBackoff == [n \in 1..MaxAttempts |-> BackoffTable[n]]

NoDelay == [n \in 1..MaxAttempts |-> 0]
NoHint == {0}
SomeHint == {0, 3}

\* A body is its content and the order of its payload's keys, which
\* JSON.stringify shows.  The in-memory store keeps the order, a jsonb column
\* keeps its own.
TwoBodies == [content : {"a", "b"}, keys : {"jsonb"}]
LiteralBodies == [content : {"a", "b"}, keys : {"jsonb", "literal"}]
OneBody == [content : {"a"}, keys : {"jsonb"}]
KeepsKeys == [b \in Bodies |-> b]
SortsKeys == [b \in Bodies |-> [b EXCEPT !.keys = "jsonb"]]

Symmetry == Permutations(Runs)
=============================================================================
