---------------------------- MODULE MCPostAudit ----------------------------
(* Small instances of PostAudit for TLC. *)
EXTENDS PostAudit, TLC

(* Every mode and the Agent switch, with the Feishu notifications left on: with
   them off the code raises no alert at all, which PendingIsWatched is about. *)
OnSettings == [mode: Modes, agentAudit: BOOLEAN, feishu: {TRUE}]

(* The default settings of a new database. *)
AgentSettings == [mode: {"ai"}, agentAudit: {TRUE}, feishu: {TRUE}]

(* The jobs are interchangeable; for runs without liveness. *)
WorkerSymmetry == Permutations(Workers)

=============================================================================
