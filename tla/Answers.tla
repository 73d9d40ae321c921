-------------------------------- MODULE Answers --------------------------------
(***************************************************************************)
(* What the API computes for one answer, from tables it only reads: the    *)
(* network of a player, the filing desk's lists and the check against the  *)
(* lists of sanctions.  Nothing goes on here; the contents of the tables   *)
(* are the inputs.                                                         *)
(***************************************************************************)
EXTENDS PlayerNetwork, FilingDesk, Sanctions

AnswersInit == NetworkInit /\ FilingInit /\ SanctionsInit

(* What the API answers from the tables is what they say: the players      *)
(* within reach of one, the packages whose deadline is nearest, the lists  *)
(* that a person stands on.                                                *)
AnswersSound ==
  /\ NodesWithinHops /\ EdgesShared
  /\ OverdueQueued /\ ViewsAgree
  /\ ListedIsFound /\ LessIsFound
================================================================================
