------------------------- MODULE MC_DevicesService -------------------------
(* Small instances of DevicesService for TLC. *)
EXTENDS DevicesService, TLC

\* No ObjectID, content or goroutine differs from another before it is used.
Alike == Permutations(Oids) \cup Permutations(Names) \cup Permutations(Clients)

\* All but the history of the answers, which no guard reads where clients take
\* their ids from the collection.
Unanswered == <<docs, cache, issued, local, budget, suspect>>

=============================================================================
