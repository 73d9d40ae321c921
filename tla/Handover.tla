------------------------------- MODULE Handover --------------------------------
(***************************************************************************)
(* What a stage of the pipeline promises of the items given to it, with    *)
(* its processes, queues and offsets taken away.  An item is under way     *)
(* until the stage has kept it, for good, or lost it.  Items are lost only *)
(* when a process dies, and then no more than have room in its memory, or  *)
(* when a store refuses one and the stage gives it up.  A lost item may    *)
(* come back, when it is sent again.                                       *)
(***************************************************************************)
EXTENDS Naturals, FiniteSets

CONSTANT Room   \* how many items one process can have in its memory

VARIABLES
  given,    \* items given to the stage
  kept,     \* items that arrived
  lost,     \* items given up
  crashes,  \* processes that died
  drops     \* items refused by a store

handover == <<given, kept, lost, crashes, drops>>

UnderWay == given \ (kept \cup lost)

Init == given = {} /\ kept = {} /\ lost = {} /\ crashes = 0 /\ drops = 0

Give ==
  /\ given \subseteq given'
  /\ UNCHANGED <<kept, lost, crashes, drops>>

Keep(i) ==
  /\ i \in given \ kept
  /\ kept' = kept \cup {i}
  /\ lost' = lost \ {i}
  /\ UNCHANGED <<given, crashes, drops>>

(* No more than n of the items under way are lost, nothing is found again. *)
Lose(n) ==
  /\ lost \subseteq lost'
  /\ lost' \ lost \subseteq UnderWay
  /\ IsFiniteSet(lost' \ lost)
  /\ Cardinality(lost' \ lost) <= n
  /\ UNCHANGED <<given, kept>>

Crash == Lose(Room) /\ crashes' = crashes + 1 /\ UNCHANGED drops

Drop == Lose(1) /\ drops' = drops + 1 /\ UNCHANGED crashes

ComeBack ==
  /\ lost' \subseteq lost
  /\ UNCHANGED <<given, kept, crashes, drops>>

Next == Give \/ (\E i \in given : Keep(i)) \/ Crash \/ Drop \/ ComeBack

Spec == Init /\ [][Next]_handover

(* What is lost is bounded by what went wrong: without faults nothing is.  *)
LossBounded == Cardinality(lost) <= Room * crashes + drops
=============================================================================
