---------------------------- MODULE MappingVersions ----------------------------
(***************************************************************************)
(* The versions of a tenant's field mappings (routers/mappings.py and the  *)
(* onboarding of routers/admin.py): every save adds a row, makes it the    *)
(* current one of its source and entity and leaves the older rows as they  *)
(* are.  No key makes a version number or the current row unique.          *)
(***************************************************************************)
EXTENDS ApiRequests, Sequences, FiniteSetsExt

CONSTANTS
  Groups,    \* pairs of a source system and an entity type
  MaxRows    \* bound: rows in a run

ASSUME MappingAssumption == MaxRows \in Nat

VARIABLE mappings  \* Seq([group, version, current, config]): mapping_configs

MappingInit == mappings = <<>>

Of(g) == {i \in DOMAIN mappings : mappings[i].group = g}
Versions(g) == {mappings[i].version : i \in Of(g)}

(* Mutant of NextVersion: one more than that of the row it started from.   *)
NextVersionOfRow(g, ref) == IF ref = 0 THEN 1 ELSE mappings[ref].version + 1

(* _next_version_number.                                                   *)
NextVersion(g, ref) == 1 + Max({0} \cup Versions(g))

Saving(g, ref, config) ==
  [op |-> "save", group |-> g, version |-> NextVersion(g, ref), config |-> config]

(* create_mapping and create_onboarding_mapping: a configuration that is   *)
(* known by the row it comes with.                                         *)
MappingCreateBegin(w, g) ==
  /\ Begin(w, Saving(g, 0, calls + 1))
  /\ UNCHANGED mappings

(* create_new_mapping_version: of the body, or of the row.                 *)
MappingUpdateBegin(w, i) ==
  /\ \E config \in {mappings[i].config, calls + 1} : Begin(w, Saving(mappings[i].group, i, config))
  /\ UNCHANGED mappings

(* rollback_mapping_version: two rows of the version raise.                *)
RollbackBegin(w, i, version) ==
  /\ \E j \in Of(mappings[i].group) :
       /\ {k \in Of(mappings[i].group) : mappings[k].version = version} = {j}
       /\ Begin(w, Saving(mappings[i].group, i, mappings[j].config))
  /\ UNCHANGED mappings

(* The rows an UPDATE sees are those committed when it starts; it waits    *)
(* for others that update them, and does not see what they insert.         *)
Clears(w) ==
  /\ Doing(w, "save")
  /\ GoesOn(w, [op |-> "insert", group |-> request[w].group, version |-> request[w].version,
                config |-> request[w].config, cleared |-> Of(request[w].group)])
  /\ UNCHANGED mappings

Inserted(r) == [group |-> r.group, version |-> r.version, current |-> TRUE, config |-> r.config]

MappingCommit(w) ==
  /\ Doing(w, "insert")
  /\ Len(mappings) < MaxRows
  /\ mappings' = Append([i \in DOMAIN mappings |->
                           [mappings[i] EXCEPT !.current = @ /\ i \notin request[w].cleared]],
                        Inserted(request[w]))
  /\ Ends(w)

MappingNext ==
  \E w \in Workers :
    \/ \E g \in Groups : MappingCreateBegin(w, g)
    \/ \E i \in DOMAIN mappings :
         \/ MappingUpdateBegin(w, i)
         \/ \E version \in Versions(mappings[i].group) : RollbackBegin(w, i, version)
    \/ Clears(w) \/ MappingCommit(w)

MappingSpec == RequestInit /\ MappingInit /\ [][MappingNext]_<<requestVars, mappings>>

(* _resolve_effective_mapping_config and _resolve_mapping_cfg: the current *)
(* row of the highest version; of two, either.                             *)
Resolved(g) ==
  LET now == {i \in Of(g) : mappings[i].current}
  IN {i \in now : \A j \in now : mappings[j].version <= mappings[i].version}

-----------------------------------------------------------------------------
MappingTypeOK ==
  mappings \in Seq([group : Groups, version : 1..MaxCalls, current : BOOLEAN, config : 1..MaxCalls])

(* Ingestion falls back to a built-in template where it finds no current   *)
(* row: it never does once a mapping was saved, overlapping saves included.*)
AlwaysResolvable == \A g \in Groups : Of(g) # {} => Resolved(g) # {}

(* What ingestion maps with is what was saved or rolled back to last, with*)
(* a version number of its own, which rollback needs to find it by; unless *)
(* two saves overlapped.                                                   *)
LastSaveUsed ==
  crossed \/ \A g \in Groups : Of(g) # {} =>
    /\ Resolved(g) = {Max(Of(g))}
    /\ Cardinality(Versions(g)) = Cardinality(Of(g))

(* Ingestion finds a mapping once there is one, and it is the last.        *)
MappingsSound == MappingTypeOK /\ AlwaysResolvable /\ LastSaveUsed
=============================================================================
