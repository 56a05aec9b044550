----------------------------- MODULE MCChatTurn -----------------------------
(***************************************************************************)
(* TLC instances of ChatTurn: the rows a session may start from, each with *)
(* one turn that is older than the run.                                    *)
(***************************************************************************)
EXTENDS ChatTurn, TLC

Turn(hasId) == <<[role |-> "user", by |-> Old, hasId |-> hasId],
                 [role |-> "assistant", by |-> Old, hasId |-> hasId]>>

RowOf(list, entries) ==
  [messages |-> list, llm |-> entries, usage |-> {}, memory |-> {}]

\* Pre-created by POST /sessions, plain, compacted, and from before ids.
Empty == RowOf(<<>>, NoLlm)
Plain == RowOf(Turn(TRUE), NoLlm)
Compacted == RowOf(Turn(TRUE), <<{Gist(m) : m \in Range(Turn(TRUE))}>>)
Legacy == RowOf(Turn(FALSE), NoLlm)

NewOrUsed == {NoRow, Plain, Compacted}
OnlyCompacted == {Compacted}
OnlyPlain == {Plain}
OnlyLegacy == {Legacy}

Symmetry == Permutations(Requests)
=============================================================================
