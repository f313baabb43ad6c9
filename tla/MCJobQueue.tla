----------------------------- MODULE MCJobQueue -----------------------------
(***************************************************************************)
(* The job queue on two kinds: "purge", only ever enqueued with            *)
(* replacePending, and "gone", whose handler a deploy has removed.         *)
(***************************************************************************)
EXTENDS JobQueue, TLC

CONSTANTS j1, j2, j3

MCJob    == {j1, j2, j3}
MCKindOf == (j1 :> "purge") @@ (j2 :> "purge") @@ (j3 :> "gone")

MCTwoJob    == {j1, j2}
MCTwoKindOf == (j1 :> "purge") @@ (j2 :> "purge")

\* A row of a kind whose handler exists and one that it does not.
MCMixedJob    == {j1, j3}
MCMixedKindOf == (j1 :> "purge") @@ (j3 :> "gone")

MCKind    == {"purge", "gone"}
MCHandled == {"purge"}
=============================================================================
