---------------------------- MODULE MCEscalation -----------------------------
(***************************************************************************)
(* An instance of Escalation for TLC: three rules; critical events go to   *)
(* two channels, warnings are muted unless a channel is forced, and info   *)
(* events never get that far.                                              *)
(***************************************************************************)
EXTENDS Escalation, TLC

RuleSymmetry == Permutations(Rules)
TwoChannels == {"ntfy", "outbox"}
Routes == [s \in Severities |->
             CASE s = "critical" -> <<"ntfy", "outbox">>
               [] s = "warning"  -> <<>>
               [] s = "info"     -> <<"outbox">>]
=============================================================================
