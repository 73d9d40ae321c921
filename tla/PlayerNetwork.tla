----------------------------- MODULE PlayerNetwork -----------------------------
(***************************************************************************)
(* get_player_network, services/api/routers/players.py: the players that   *)
(* share a device, a bank account or an IP address with a player, over one *)
(* or two hops, as nodes and edges, and the risk of that cluster.  A kind  *)
(* of element is shared by a group of players; the rows of an expansion    *)
(* (50 per element) are below their bound.                                 *)
(***************************************************************************)
EXTENDS Naturals, FiniteSets, FiniteSetsExt

CONSTANTS
  People,
  Focal,      \* the player asked about
  Shared,     \* inputs: [Kinds -> SUBSET People], who has the element
  MaxNodes    \* all_pids is cut to that many

VARIABLE sharing

Kinds == {"device", "bank_account", "ip"}

ASSUME NetworkAssumption == Focal \in People /\ Shared \subseteq [Kinds -> SUBSET People]

NetworkInit == sharing \in Shared

Share(kind, p, q) == {p, q} \subseteq sharing[kind]

(* The peers an expansion finds: not the ones it starts from.              *)
Peers(from) == (UNION {sharing[kind] : kind \in {k \in Kinds : sharing[k] \cap from # {}}}) \ from

(* A peer that was found by one kind is not looked for by the next: its    *)
(* edges are of the first kind, and go to every player of the expansion.   *)
FirstKind(from, q) ==
  LET by(kind) == \E p \in from : Share(kind, p, q)
  IN  CASE by("device") -> "device"
        [] ~by("device") /\ by("bank_account") -> "bank_account"
        [] OTHER -> "ip"

EdgesFrom(from) ==
  {[ends |-> {p, q}, kind |-> FirstKind(from, q)] : p \in from, q \in Peers(from)}

(* The second expansion starts from the first's peers and leaves only them *)
(* out, so that it finds the focal player again.                           *)
Reached(depth) ==
  LET first == Peers({Focal})
  IN  {Focal} \cup first \cup (IF depth = 2 /\ first # {} THEN Peers(first) ELSE {})

Edges(depth) ==
  LET first == Peers({Focal})
  IN  EdgesFrom({Focal}) \cup (IF depth = 2 /\ first # {} THEN EdgesFrom(first) ELSE {})

(* Any MaxNodes of them are kept, in the order of a set.                   *)
NodeSets(depth) ==
  IF Cardinality(Reached(depth)) <= MaxNodes THEN {Reached(depth)}
  ELSE kSubset(MaxNodes, Reached(depth))

-----------------------------------------------------------------------------
(* The nodes are the players within depth hops, up to the cut, and no hop  *)
(* is made over an element that two players do not share.                  *)
Near(set) == set \cup {q \in People : \E kind \in Kinds, p \in set : Share(kind, p, q)}
Within(hops) == IF hops = 1 THEN Near({Focal}) ELSE Near(Near({Focal}))

NodesWithinHops ==
  \A depth \in {1, 2} :
    LET near == Within(depth)
    IN  \A nodes \in NodeSets(depth) :
          /\ nodes \subseteq near
          /\ Cardinality(near) <= MaxNodes => nodes = near

(* "Arestas representam elementos compartilhados": over one hop an edge    *)
(* joins two players that share an element of its kind; each peer has one. *)
EdgesShared ==
  /\ \A e \in Edges(1) : \E p, q \in e.ends : p # q /\ Share(e.kind, p, q)
  /\ \A q \in Peers({Focal}) : \E e \in Edges(1) : e.ends = {Focal, q}
=============================================================================
