-------------------------- MODULE ModelServing_proofs --------------------------
(***************************************************************************)
(* Proofs about the model registry and the cache of the ml_service, for    *)
(* any number of analysts, replicas, requests, models and model types.     *)
(* What a call has read of the table is what the table still holds, until  *)
(* a write overlaps with another.                                          *)
(***************************************************************************)
EXTENDS ModelServing, SequenceTheorems, FiniteSetTheorems, WellFoundedInduction, TLAPS

(* What the UPDATE of a transaction changes besides the model's own row.   *)
Others(w) ==
  (IF tx[w].op = "promote" THEN Champions(models[tx[w].model].type)
   ELSE Challengers(models[tx[w].model].type)) \ {tx[w].model}

TxSound(w) ==
  tx[w] # None =>
    /\ w \in Replicas => tx[w].op = "promote"
    /\ strict /\ tx[w].op = "promote" => ~models[tx[w].model].synthetic
    /\ ~overlap =>
         /\ models[tx[w].model].status =
              IF tx[w].op = "promote" THEN "challenger" ELSE "STAGING"
         /\ tx[w].seen # None => tx[w].seen = Others(w)

RunSound(r) ==
  run[r] # None =>
    /\ run[r].expired \cap run[r].todo = {}
    /\ ~overlap =>
         /\ \A i \in run[r].expired \cup run[r].todo : models[i].challenger
         /\ tx[r] # None => tx[r].model \notin run[r].expired \cup run[r].todo

TrainerSound ==
  trainer # None =>
    /\ strict => ~trainer.row.synthetic
    /\ ~trainer.row.challenger
    /\ trainer.demoted # {} => trainer.row.status = "champion"
    /\ ~overlap => \A i \in trainer.demoted : models[i].status = "champion"

FlagMeansStatus ==
  ~overlap => \A i \in DOMAIN models : models[i].challenger => models[i].status = "challenger"

OnePerType ==
  ~overlap => \A i, j \in DOMAIN models :
    models[i].challenger /\ models[j].challenger /\ models[i].type = models[j].type => i = j

RegistryInv ==
  /\ RegistryTypeOK
  /\ NoSyntheticChampion /\ FlagMeansStatus /\ OnePerType
  /\ TrainerSound
  /\ \A w \in Writers : TxSound(w)
  /\ \A r \in Replicas : RunSound(r)

(* The cache may name another model than the registry.                     *)
MayDiffer == untold \/ crossed \/ \E t \in Threads : thread[t] # None /\ thread[t].do = "clear"

LoadsCurrent ==
  \A t \in Threads, v \in Variants :
    thread[t] # None /\ thread[t].do = "load" /\ thread[t].variant = v =>
      thread[t].model = Latest(v) \/ MayDiffer

Loads == [do : {"load"}, variant : Variants, model : DOMAIN models \cup {None}]
Clears == [do : {"clear"}]

ServingInv ==
  /\ cache \in [Variants -> DOMAIN models \cup {None}]
  /\ thread \in [Threads -> {None} \cup Clears \cup Loads]
  /\ untold \in BOOLEAN /\ crossed \in BOOLEAN
  /\ CacheCurrent /\ LoadsCurrent

IInv == RegistryInv /\ ServingInv

-----------------------------------------------------------------------------
(* Steps that leave the table of models alone.                             *)

(* A write by one who has nothing in flight beside it leaves nobody else   *)
(* with something read.                                                    *)
LEMMA Alone ==
  ASSUME RegistryTypeOK, NEW who, NEW STATE table, Write(who, table), ~overlap'
  PROVE  /\ ~overlap
         /\ \A w \in Writers : w # who => tx[w] = None
         /\ \A r \in Replicas : r # who => run[r] = None
         /\ who # "trainer" => trainer = None
<1>1. ~overlap /\ InFlight \ {who} = {}
  BY DEF Write, RegistryTypeOK
<1> QED
  BY <1>1 DEF InFlight

(* Nothing of the registry changes.                                        *)
LEMMA RegistryStays ==
  ASSUME RegistryInv, UNCHANGED tableVars
  PROVE  RegistryInv'
<1>1. RegistryTypeOK'
  BY DEF RegistryInv, RegistryTypeOK, tableVars
<1>2. NoSyntheticChampion' /\ FlagMeansStatus' /\ OnePerType' /\ TrainerSound'
  BY DEF RegistryInv, NoSyntheticChampion, FlagMeansStatus, OnePerType, TrainerSound, tableVars
<1>3. \A w \in Writers : TxSound(w)'
  BY DEF RegistryInv, TxSound, Others, Champions, Challengers, tableVars
<1>4. \A r \in Replicas : RunSound(r)'
  BY DEF RegistryInv, RunSound, tableVars
<1> QED
  BY <1>1, <1>2, <1>3, <1>4 DEF RegistryInv

(* A promotion of a challenger starts.                                     *)
LEMMA PromoteBeginInv ==
  ASSUME RegistryInv, NEW c \in Callers, NEW i \in DOMAIN models, PromoteBegin(c, i)
  PROVE  RegistryInv'
<1> DEFINE new == Transaction("promote", i)
<1>1. i \in Nat /\ c \in Writers /\ c \notin Replicas
  BY ElementOfSeq, LenProperties, RegistryAssumption DEF RegistryInv, RegistryTypeOK, Writers
<1>2. new \in InTransaction /\ new.op = "promote" /\ new.model = i /\ new.seen = None
  BY <1>1 DEF Transaction, InTransaction
<1>3. tx' = [tx EXCEPT ![c] = new] /\ UNCHANGED <<models, strict, manual, run, trainer, overlap>>
  BY DEF PromoteBegin
<1>4. models[i].status = "challenger" /\ ~(strict /\ models[i].synthetic)
  BY DEF PromoteBegin, Promotable, Allowed
<1> HIDE DEF new
<1>5. RegistryTypeOK'
  BY <1>1, <1>2, <1>3 DEF RegistryInv, RegistryTypeOK
<1>6. NoSyntheticChampion' /\ FlagMeansStatus' /\ OnePerType' /\ TrainerSound'
  BY <1>3 DEF RegistryInv, NoSyntheticChampion, FlagMeansStatus, OnePerType, TrainerSound
<1>7. ASSUME NEW w \in Writers
      PROVE  TxSound(w)'
  BY <1>1, <1>2, <1>3, <1>4 DEF RegistryInv, RegistryTypeOK, TxSound, Others, Champions, Challengers
<1>8. ASSUME NEW r \in Replicas
      PROVE  RunSound(r)'
  BY <1>1, <1>3 DEF RegistryInv, RegistryTypeOK, RunSound, Writers
<1> QED
  BY <1>5, <1>6, <1>7, <1>8 DEF RegistryInv

(* A designation of a STAGING model starts.                                *)
LEMMA DesignateBeginInv ==
  ASSUME RegistryInv, NEW c \in Callers, NEW i \in DOMAIN models, DesignateBegin(c, i)
  PROVE  RegistryInv'
<1> DEFINE new == Transaction("designate", i)
<1>1. i \in Nat /\ c \in Writers /\ c \notin Replicas
  BY ElementOfSeq, LenProperties, RegistryAssumption DEF RegistryInv, RegistryTypeOK, Writers
<1>2. new \in InTransaction /\ new.op = "designate" /\ new.model = i /\ new.seen = None
  BY <1>1 DEF Transaction, InTransaction
<1>3. tx' = [tx EXCEPT ![c] = new] /\ UNCHANGED <<models, strict, manual, run, trainer, overlap>>
  BY DEF DesignateBegin
<1>4. models[i].status = "STAGING"
  BY DEF DesignateBegin
<1> HIDE DEF new
<1>5. RegistryTypeOK'
  BY <1>1, <1>2, <1>3 DEF RegistryInv, RegistryTypeOK
<1>6. NoSyntheticChampion' /\ FlagMeansStatus' /\ OnePerType' /\ TrainerSound'
  BY <1>3 DEF RegistryInv, NoSyntheticChampion, FlagMeansStatus, OnePerType, TrainerSound
<1>7. ASSUME NEW w \in Writers
      PROVE  TxSound(w)'
  BY <1>1, <1>2, <1>3, <1>4 DEF RegistryInv, RegistryTypeOK, TxSound, Others, Champions, Challengers
<1>8. ASSUME NEW r \in Replicas
      PROVE  RunSound(r)'
  BY <1>1, <1>3 DEF RegistryInv, RegistryTypeOK, RunSound, Writers
<1> QED
  BY <1>5, <1>6, <1>7, <1>8 DEF RegistryInv

(* The UPDATE reads the rows it will change.                               *)
LEMMA BulkUpdateInv ==
  ASSUME RegistryInv, NEW w \in Writers, BulkUpdate(w)
  PROVE  RegistryInv'
<1>1. tx[w] \in InTransaction /\ tx[w] # None
  BY DEF RegistryInv, RegistryTypeOK, BulkUpdate
<1>2. PICK S : S = Others(w)
  OBVIOUS
<1>3. S \subseteq DOMAIN models /\ S \subseteq Nat
  BY <1>2, ElementOfSeq, LenProperties DEF Others, Champions, Challengers, RegistryInv, RegistryTypeOK
<1>4. PICK new : new = [tx[w] EXCEPT !.seen = S]
  OBVIOUS
<1>5. new \in InTransaction /\ new.op = tx[w].op /\ new.model = tx[w].model /\ new.seen = S
  BY <1>1, <1>3, <1>4 DEF InTransaction
<1>6. tx' = [tx EXCEPT ![w] = new] /\ UNCHANGED <<models, strict, manual, run, trainer, overlap>>
  BY <1>2, <1>4 DEF BulkUpdate, Others
<1>7. RegistryTypeOK'
  BY <1>1, <1>3, <1>5, <1>6 DEF RegistryInv, RegistryTypeOK
<1>8. NoSyntheticChampion' /\ FlagMeansStatus' /\ OnePerType' /\ TrainerSound'
  BY <1>6 DEF RegistryInv, NoSyntheticChampion, FlagMeansStatus, OnePerType, TrainerSound
<1>9. ASSUME NEW x \in Writers
      PROVE  TxSound(x)'
  <2>1. CASE x # w
    <3>1. tx'[x] = tx[x]
      BY <1>6, <2>1 DEF RegistryInv, RegistryTypeOK
    <3> QED
      BY <1>6, <3>1 DEF RegistryInv, TxSound, Others, Champions, Challengers
  <2>2. CASE x = w
    <3>1. tx'[w] = new /\ Others(w)' = Others(w)
      BY <1>5, <1>6 DEF RegistryInv, RegistryTypeOK, Others, Champions, Challengers
    <3>2. TxSound(w)
      BY DEF RegistryInv
    <3> QED
      BY <1>1, <1>2, <1>5, <1>6, <2>2, <3>1, <3>2 DEF TxSound
  <2> QED
    BY <2>1, <2>2
<1>10. ASSUME NEW r \in Replicas
       PROVE  RunSound(r)'
  <2>1. RunSound(r) /\ r \in Writers
    BY DEF RegistryInv, Writers
  <2>2. (tx'[r] # None => tx[r] # None /\ tx'[r].model = tx[r].model)
    BY <1>1, <1>5, <1>6, <2>1 DEF RegistryInv, RegistryTypeOK
  <2> QED
    BY <1>6, <2>1, <2>2 DEF RunSound
<1> QED
  BY <1>7, <1>8, <1>9, <1>10 DEF RegistryInv

(* What becomes of a row whose status and flag are written.                *)
LEMMA EditedModel ==
  ASSUME NEW m \in Model, NEW s \in Statuses, NEW f \in BOOLEAN
  PROVE  LET new == [m EXCEPT !.status = s, !.challenger = f]
         IN /\ new \in Model /\ new.status = s /\ new.challenger = f
            /\ new.type = m.type /\ new.synthetic = m.synthetic
BY DEF Model

(* What a promotion does to the rows.                                      *)
LEMMA PromotedRows ==
  ASSUME NEW table, table \in Seq(Model), NEW i \in DOMAIN table, NEW S
  PROVE  LET new == Promoted(table, i, S)
         IN /\ new \in Seq(Model) /\ DOMAIN new = DOMAIN table
            /\ new[i].status = "champion" /\ ~new[i].challenger
            /\ \A j \in DOMAIN table :
                 /\ new[j].type = table[j].type /\ new[j].synthetic = table[j].synthetic
                 /\ j # i /\ j \in S /\ table[j].status = "champion" =>
                      new[j].status = "archived" /\ ~new[j].challenger
                 /\ j # i /\ ~(j \in S /\ table[j].status = "champion") => new[j] = table[j]
<1> DEFINE new == Promoted(table, i, S)
<1>1. DOMAIN table = 1..Len(table) /\ Len(table) \in Nat
  BY LenProperties
<1>2. \A j \in DOMAIN table : table[j] \in Model
  BY <1>1, ElementOfSeq
<1>3. \A j \in DOMAIN table : new[j] =
        IF j = i THEN [table[j] EXCEPT !.status = "champion", !.challenger = FALSE]
        ELSE IF j \in S /\ table[j].status = "champion"
        THEN [table[j] EXCEPT !.status = "archived", !.challenger = FALSE] ELSE table[j]
  BY DEF Promoted
<1>4. DOMAIN new = 1..Len(table)
  BY <1>1 DEF Promoted
<1>5. new = [j \in 1..Len(table) |-> new[j]]
  BY <1>1 DEF Promoted
<1> HIDE DEF new
<1>6. ASSUME NEW j \in DOMAIN table
      PROVE  new[j] \in Model
  <2>1. table[j] \in Model
    BY <1>2
  <2>2. /\ [table[j] EXCEPT !.status = "champion", !.challenger = FALSE] \in Model
        /\ [table[j] EXCEPT !.status = "archived", !.challenger = FALSE] \in Model
    BY <2>1, EditedModel DEF Statuses
  <2> QED
    BY <1>3, <2>1, <2>2
<1>7. new \in Seq(Model)
  BY <1>1, <1>5, <1>6, IsASeq
<1>8. \A j \in DOMAIN table :
        /\ j = i => new[j].status = "champion" /\ ~new[j].challenger
        /\ new[j].type = table[j].type /\ new[j].synthetic = table[j].synthetic
        /\ j # i /\ j \in S /\ table[j].status = "champion" =>
             new[j].status = "archived" /\ ~new[j].challenger
        /\ j # i /\ ~(j \in S /\ table[j].status = "champion") => new[j] = table[j]
  BY <1>2, <1>3 DEF Model
<1> QED
  BY <1>1, <1>4, <1>7, <1>8 DEF new

(* What a designation does to the rows.                                    *)
LEMMA DesignatedRows ==
  ASSUME NEW table, table \in Seq(Model), NEW i \in DOMAIN table, NEW S
  PROVE  LET new == Designated(table, i, S)
         IN /\ new \in Seq(Model) /\ DOMAIN new = DOMAIN table
            /\ new[i].status = "challenger" /\ new[i].challenger
            /\ \A j \in DOMAIN table :
                 /\ new[j].type = table[j].type /\ new[j].synthetic = table[j].synthetic
                 /\ j # i /\ j \in S /\ table[j].challenger =>
                      new[j].status = "STAGING" /\ ~new[j].challenger
                 /\ j # i /\ ~(j \in S /\ table[j].challenger) => new[j] = table[j]
<1> DEFINE new == Designated(table, i, S)
<1>1. DOMAIN table = 1..Len(table) /\ Len(table) \in Nat
  BY LenProperties
<1>2. \A j \in DOMAIN table : table[j] \in Model
  BY <1>1, ElementOfSeq
<1>3. \A j \in DOMAIN table : new[j] =
        IF j = i THEN [table[j] EXCEPT !.status = "challenger", !.challenger = TRUE]
        ELSE IF j \in S /\ table[j].challenger
        THEN [table[j] EXCEPT !.status = "STAGING", !.challenger = FALSE] ELSE table[j]
  BY DEF Designated
<1>4. DOMAIN new = 1..Len(table)
  BY <1>1 DEF Designated
<1>5. new = [j \in 1..Len(table) |-> new[j]]
  BY <1>1 DEF Designated
<1> HIDE DEF new
<1>6. ASSUME NEW j \in DOMAIN table
      PROVE  new[j] \in Model
  <2>1. table[j] \in Model
    BY <1>2
  <2>2. /\ [table[j] EXCEPT !.status = "challenger", !.challenger = TRUE] \in Model
        /\ [table[j] EXCEPT !.status = "STAGING", !.challenger = FALSE] \in Model
    BY <2>1, EditedModel DEF Statuses
  <2> QED
    BY <1>3, <2>1, <2>2
<1>7. new \in Seq(Model)
  BY <1>1, <1>5, <1>6, IsASeq
<1>8. \A j \in DOMAIN table :
        /\ j = i => new[j].status = "challenger" /\ new[j].challenger
        /\ new[j].type = table[j].type /\ new[j].synthetic = table[j].synthetic
        /\ j # i /\ j \in S /\ table[j].challenger =>
             new[j].status = "STAGING" /\ ~new[j].challenger
        /\ j # i /\ ~(j \in S /\ table[j].challenger) => new[j] = table[j]
  BY <1>2, <1>3 DEF Model
<1> QED
  BY <1>1, <1>4, <1>7, <1>8 DEF new

(* The table keeps its rows, and each row its type and its data.           *)
SameRows(new) ==
  /\ new \in Seq(Model) /\ DOMAIN new = DOMAIN models
  /\ \A j \in DOMAIN models :
       new[j].type = models[j].type /\ new[j].synthetic = models[j].synthetic

(* A promotion that has read its rows ends.                                *)
LEMMA CommitPromotionInv ==
  ASSUME RegistryInv, NEW w \in Writers, Commit(w), tx[w].op = "promote"
  PROVE  RegistryInv'
<1>1. tx[w] # None /\ tx[w].seen # None /\ tx[w] \in InTransaction /\ tx[w].model \in DOMAIN models
  BY DEF RegistryInv, RegistryTypeOK, Commit
<1>2. PICK i : i = tx[w].model
  OBVIOUS
<1>3. PICK S : S = tx[w].seen
  OBVIOUS
<1>4. PICK new : new = Promoted(models, i, S)
  OBVIOUS
<1>5. /\ SameRows(new) /\ new[i].status = "champion" /\ ~new[i].challenger
      /\ \A j \in DOMAIN models :
           /\ j # i /\ j \in S /\ models[j].status = "champion" =>
                new[j].status = "archived" /\ ~new[j].challenger
           /\ j # i /\ ~(j \in S /\ models[j].status = "champion") => new[j] = models[j]
  BY <1>1, <1>2, <1>4, PromotedRows DEF RegistryInv, RegistryTypeOK, SameRows
<1>6. /\ models' = new /\ tx' = [tx EXCEPT ![w] = None]
      /\ UNCHANGED <<strict, manual, run, trainer>> /\ overlap' \in BOOLEAN
  BY <1>2, <1>3, <1>4 DEF Commit, Write, RegistryInv, RegistryTypeOK
<1>7. Write(w, new)
  BY <1>2, <1>3, <1>4 DEF Commit
<1>8. ~overlap' => /\ ~overlap
                   /\ \A x \in Writers : x # w => tx[x] = None
                   /\ \A r \in Replicas : r # w => run[r] = None
                   /\ trainer = None
  BY <1>7, Alone, RegistryAssumption DEF RegistryInv
<1>9. tx'[w] = None /\ \A x \in Writers : x # w => tx'[x] = tx[x]
  BY <1>6 DEF RegistryInv, RegistryTypeOK
<1>10. TxSound(w) /\ (w \in Replicas => RunSound(w))
  BY DEF RegistryInv
<1>11. RegistryTypeOK'
  BY <1>5, <1>6, <1>9 DEF RegistryInv, RegistryTypeOK, SameRows
<1>12. NoSyntheticChampion'
  BY <1>1, <1>2, <1>5, <1>6, <1>10 DEF RegistryInv, NoSyntheticChampion, TxSound, SameRows
<1>13. FlagMeansStatus' /\ OnePerType' /\ TrainerSound'
  BY <1>1, <1>2, <1>5, <1>6, <1>8
     DEF RegistryInv, FlagMeansStatus, OnePerType, TrainerSound, SameRows
<1>14. ASSUME NEW x \in Writers
       PROVE  TxSound(x)'
  BY <1>5, <1>6, <1>8, <1>9 DEF RegistryInv, RegistryTypeOK, TxSound, SameRows
<1>15. ASSUME NEW r \in Replicas
       PROVE  RunSound(r)'
  <2>1. CASE r # w
    <3>1. RunSound(r)
      BY DEF RegistryInv
    <3> QED
      BY <1>6, <1>8, <2>1, <3>1 DEF RunSound
  <2>2. CASE r = w
    <3>1. ~overlap' /\ run[w] # None => \A k \in run[w].expired \cup run[w].todo :
             k \in DOMAIN models /\ k # i /\ new[k] = models[k] /\ models[k].challenger
      BY <1>1, <1>2, <1>5, <1>8, <1>10, <2>2 DEF RunSound, RegistryInv, RegistryTypeOK, FlagMeansStatus
    <3> QED
      BY <1>6, <1>9, <1>10, <2>2, <3>1 DEF RunSound
  <2> QED
    BY <2>1, <2>2
<1> QED
  BY <1>11, <1>12, <1>13, <1>14, <1>15 DEF RegistryInv

(* A designation that has read its rows ends.                              *)
LEMMA CommitDesignationInv ==
  ASSUME RegistryInv, NEW w \in Writers, Commit(w), tx[w].op # "promote"
  PROVE  RegistryInv'
<1>1. tx[w] # None /\ tx[w].seen # None /\ tx[w] \in InTransaction /\ tx[w].model \in DOMAIN models
  BY DEF RegistryInv, RegistryTypeOK, Commit
<1>2. PICK i : i = tx[w].model
  OBVIOUS
<1>3. PICK S : S = tx[w].seen
  OBVIOUS
<1>4. PICK new : new = Designated(models, i, S)
  OBVIOUS
<1>5. /\ SameRows(new) /\ new[i].status = "challenger" /\ new[i].challenger
      /\ \A j \in DOMAIN models :
           /\ j # i /\ j \in S /\ models[j].challenger =>
                new[j].status = "STAGING" /\ ~new[j].challenger
           /\ j # i /\ ~(j \in S /\ models[j].challenger) => new[j] = models[j]
  BY <1>1, <1>2, <1>4, DesignatedRows DEF RegistryInv, RegistryTypeOK, SameRows
<1>6. /\ models' = new /\ tx' = [tx EXCEPT ![w] = None]
      /\ UNCHANGED <<strict, manual, run, trainer>> /\ overlap' \in BOOLEAN
  BY <1>2, <1>3, <1>4 DEF Commit, Write, RegistryInv, RegistryTypeOK
<1>7. Write(w, new)
  BY <1>2, <1>3, <1>4 DEF Commit
<1>8. ~overlap' => /\ ~overlap
                   /\ \A x \in Writers : x # w => tx[x] = None
                   /\ \A r \in Replicas : r # w => run[r] = None
                   /\ trainer = None
  BY <1>7, Alone, RegistryAssumption DEF RegistryInv
<1>9. tx'[w] = None /\ \A x \in Writers : x # w => tx'[x] = tx[x]
  BY <1>6 DEF RegistryInv, RegistryTypeOK
<1>10. TxSound(w) /\ w \notin Replicas
  BY <1>1 DEF RegistryInv, TxSound
<1>11. RegistryTypeOK'
  BY <1>5, <1>6, <1>9 DEF RegistryInv, RegistryTypeOK, SameRows
<1>12. NoSyntheticChampion'
  BY <1>1, <1>2, <1>5, <1>6 DEF RegistryInv, NoSyntheticChampion, SameRows
<1>13. FlagMeansStatus' /\ TrainerSound'
  BY <1>1, <1>2, <1>5, <1>6, <1>8 DEF RegistryInv, FlagMeansStatus, TrainerSound, SameRows
<1>14. OnePerType'
  <2>1. ~overlap' => S = Challengers(models[i].type) \ {i}
    BY <1>1, <1>2, <1>3, <1>8, <1>10 DEF TxSound, Others
  <2>2. ASSUME ~overlap', NEW j \in DOMAIN models, new[j].challenger, new[j].type = new[i].type
        PROVE  j = i
    BY <1>1, <1>2, <1>5, <2>1, <2>2 DEF SameRows, Challengers
  <2>3. \A j \in DOMAIN models : j # i /\ new[j].challenger => models[j].challenger
    BY <1>5
  <2> QED
    BY <1>1, <1>2, <1>5, <1>6, <1>8, <2>2, <2>3 DEF OnePerType, SameRows, RegistryInv
<1>15. ASSUME NEW x \in Writers
       PROVE  TxSound(x)'
  BY <1>5, <1>6, <1>8, <1>9 DEF RegistryInv, RegistryTypeOK, TxSound, SameRows
<1>16. ASSUME NEW r \in Replicas
       PROVE  RunSound(r)'
  BY <1>6, <1>8, <1>10 DEF RegistryInv, RunSound
<1> QED
  BY <1>11, <1>12, <1>13, <1>14, <1>15, <1>16 DEF RegistryInv

(* A run of the job reads the challengers.                                 *)
LEMMA JobStartInv ==
  ASSUME RegistryInv, NEW r \in Replicas, NEW old \in SUBSET Found, JobStart(r, old)
  PROVE  RegistryInv'
<1>1. r \in Writers /\ tx[r] = None /\ Found \subseteq DOMAIN models /\ DOMAIN models \subseteq Nat
  BY LenProperties DEF JobStart, Found, Writers, RegistryInv, RegistryTypeOK
<1>2. PICK todo : todo = Found \ old
  OBVIOUS
<1>3. PICK new : new = Rest(old, todo)
  OBVIOUS
<1>4. new # None => new = [expired |-> old, todo |-> todo]
  BY <1>3 DEF Rest
<1>5. /\ run' = [run EXCEPT ![r] = new]
      /\ UNCHANGED <<models, strict, manual, tx, trainer, overlap>>
  BY <1>2, <1>3 DEF JobStart
<1>6. new \in {None} \cup [expired : SUBSET Nat, todo : SUBSET Nat]
      /\ (new # None => new.expired \cup new.todo \subseteq DOMAIN models)
  BY <1>1, <1>2, <1>4
<1>7. RegistryTypeOK'
  BY <1>5, <1>6 DEF RegistryInv, RegistryTypeOK
<1>8. NoSyntheticChampion' /\ FlagMeansStatus' /\ OnePerType' /\ TrainerSound'
  BY <1>5 DEF RegistryInv, NoSyntheticChampion, FlagMeansStatus, OnePerType, TrainerSound
<1>9. ASSUME NEW w \in Writers
      PROVE  TxSound(w)'
  BY <1>5 DEF RegistryInv, TxSound, Others, Champions, Challengers
<1>10. ASSUME NEW x \in Replicas
       PROVE  RunSound(x)'
  <2>1. CASE x # r
    BY <1>5, <2>1 DEF RegistryInv, RegistryTypeOK, RunSound
  <2>2. CASE x = r
    <3>1. run'[r] = new
      BY <1>5 DEF RegistryInv, RegistryTypeOK
    <3>2. \A i \in old \cup todo : models[i].challenger
      BY <1>2 DEF Found
    <3> QED
      BY <1>1, <1>2, <1>4, <1>5, <2>2, <3>1, <3>2 DEF RunSound
  <2> QED
    BY <2>1, <2>2
<1> QED
  BY <1>7, <1>8, <1>9, <1>10 DEF RegistryInv

(* A run that handles a row has one row less to handle.                    *)
LEMMA RestSound ==
  ASSUME NEW E, NEW T, NEW rest, rest = Rest(E, T), rest # None
  PROVE  rest.expired = E /\ rest.todo = T /\ rest = [expired |-> E, todo |-> T]
BY DEF Rest

(* The job archives a challenger that is too old.                          *)
LEMMA JobExpiresInv ==
  ASSUME RegistryInv, NEW r \in Replicas, NEW i \in DOMAIN models, JobExpires(r, i)
  PROVE  RegistryInv'
<1>1. /\ r \in Writers /\ tx[r] = None /\ run[r] # None /\ i \in run[r].expired
      /\ run[r] \in [expired : SUBSET Nat, todo : SUBSET Nat]
      /\ run[r].expired \cup run[r].todo \subseteq DOMAIN models
  BY DEF JobExpires, Writers, RegistryInv, RegistryTypeOK
<1>2. PICK new : new = [models EXCEPT ![i].status = "archived", ![i].challenger = FALSE]
  OBVIOUS
<1>3. PICK row : row = [models[i] EXCEPT !.status = "archived", !.challenger = FALSE]
  OBVIOUS
<1>4. models \in Seq(Model) /\ models[i] \in Model
  BY ElementOfSeq, LenProperties DEF RegistryInv, RegistryTypeOK
<1>5. /\ row \in Model /\ row.status = "archived" /\ ~row.challenger
      /\ row.type = models[i].type /\ row.synthetic = models[i].synthetic
  BY <1>3, <1>4, EditedModel DEF Statuses
<1>6. new = [models EXCEPT ![i] = row]
  BY <1>2, <1>3, <1>4
<1>7. SameRows(new) /\ new[i] = row /\ \A j \in DOMAIN models : j # i => new[j] = models[j]
  BY <1>4, <1>5, <1>6, ExceptSeq DEF SameRows
<1>8. PICK rest : rest = Rest(run[r].expired \ {i}, run[r].todo)
  OBVIOUS
<1>9. /\ models' = new /\ run' = [run EXCEPT ![r] = rest]
      /\ UNCHANGED <<strict, manual, tx, trainer>> /\ overlap' \in BOOLEAN
  BY <1>2, <1>8 DEF JobExpires, Write, RegistryInv, RegistryTypeOK
<1>10. Write(r, new)
  BY <1>2 DEF JobExpires
<1>11. ~overlap' => /\ ~overlap
                    /\ \A x \in Writers : x # r => tx[x] = None
                    /\ \A x \in Replicas : x # r => run[x] = None
                    /\ trainer = None
  BY <1>10, Alone, RegistryAssumption, <1>1 DEF RegistryInv
<1>12. rest # None => rest = [expired |-> run[r].expired \ {i}, todo |-> run[r].todo]
  BY <1>8, RestSound
<1>13. rest \in {None} \cup [expired : SUBSET Nat, todo : SUBSET Nat]
       /\ (rest # None => rest.expired \cup rest.todo \subseteq DOMAIN models)
  BY <1>1, <1>12
<1>14. RegistryTypeOK'
  BY <1>7, <1>9, <1>13 DEF RegistryInv, RegistryTypeOK, SameRows
<1>15. NoSyntheticChampion' /\ FlagMeansStatus' /\ OnePerType' /\ TrainerSound'
  BY <1>5, <1>7, <1>9, <1>11
     DEF RegistryInv, NoSyntheticChampion, FlagMeansStatus, OnePerType, TrainerSound, SameRows
<1>16. ASSUME NEW w \in Writers
       PROVE  TxSound(w)'
  <2>1. TxSound(w)
    BY DEF RegistryInv
  <2>2. tx[w] # None => tx[w].model \in DOMAIN models
    BY DEF RegistryInv, RegistryTypeOK
  <2> QED
    BY <1>1, <1>7, <1>9, <1>11, <2>1, <2>2 DEF TxSound, SameRows
<1>17. ASSUME NEW x \in Replicas
       PROVE  RunSound(x)'
  <2>1. RunSound(x) /\ RunSound(r)
    BY DEF RegistryInv
  <2>2. CASE x # r
    <3>1. run'[x] = run[x]
      BY <1>9, <2>2 DEF RegistryInv, RegistryTypeOK
    <3> QED
      BY <1>9, <1>11, <2>1, <2>2, <3>1 DEF RunSound
  <2>3. CASE x = r
    <3>1. run'[r] = rest
      BY <1>9 DEF RegistryInv, RegistryTypeOK
    <3>2. rest # None =>
            /\ rest.expired \cap rest.todo = {}
            /\ rest.expired \cup rest.todo \subseteq (run[r].expired \cup run[r].todo) \ {i}
      BY <1>1, <1>12, <2>1 DEF RunSound
    <3>3. ~overlap' /\ rest # None => \A k \in rest.expired \cup rest.todo : new[k].challenger
      BY <1>1, <1>7, <1>11, <2>1, <3>2 DEF RunSound
    <3> QED
      BY <1>1, <1>9, <2>3, <3>1, <3>2, <3>3 DEF RunSound
  <2> QED
    BY <2>2, <2>3
<1> QED
  BY <1>14, <1>15, <1>16, <1>17 DEF RegistryInv

(* The job decides about a challenger: a promotion may start.              *)
LEMMA JobDecidesInv ==
  ASSUME RegistryInv, NEW r \in Replicas, NEW i \in DOMAIN models, NEW better, NEW estimate,
         JobDecides(r, i, better, estimate)
  PROVE  RegistryInv'
<1>1. /\ r \in Writers /\ tx[r] = None /\ run[r] # None /\ i \in run[r].todo
      /\ run[r] \in [expired : SUBSET Nat, todo : SUBSET Nat]
      /\ run[r].expired \cup run[r].todo \subseteq DOMAIN models
      /\ RunSound(r)
  BY DEF JobDecides, Writers, RegistryInv, RegistryTypeOK
<1>2. UNCHANGED <<models, strict, manual, trainer, overlap>>
  BY DEF JobDecides
<1>3. PICK rest : /\ run' = [run EXCEPT ![r] = rest]
                  /\ rest # None => rest = [expired |-> run[r].expired, todo |-> run[r].todo \ {i}]
  <2>1. CASE Unambiguous(Champions(models[i].type))
    <3>1. PICK rest : rest = Rest(run[r].expired, run[r].todo \ {i})
      OBVIOUS
    <3>2. run' = [run EXCEPT ![r] = rest]
      BY <2>1, <3>1 DEF JobDecides
    <3>3. rest # None => rest = [expired |-> run[r].expired, todo |-> run[r].todo \ {i}]
      BY <3>1 DEF Rest
    <3> QED
      BY <3>2, <3>3
  <2>2. CASE ~Unambiguous(Champions(models[i].type))
    <3>1. run' = [run EXCEPT ![r] = None]
      BY <2>2 DEF JobDecides
    <3> QED
      BY <3>1
  <2> QED
    BY <2>1, <2>2
<1>4. PICK new : new = Transaction("promote", i)
  OBVIOUS
<1>5. new \in InTransaction /\ new.op = "promote" /\ new.model = i /\ new.seen = None
  <2>1. i \in Nat
    BY <1>1
  <2> QED
    BY <1>4, <2>1 DEF Transaction, InTransaction
<1>6. tx' = tx \/ (tx' = [tx EXCEPT ![r] = new] /\ ~(strict /\ models[i].synthetic))
  BY <1>4 DEF JobDecides, AutoPromotes, Allowed
<1>7. rest \in {None} \cup [expired : SUBSET Nat, todo : SUBSET Nat]
      /\ (rest # None => rest.expired \cup rest.todo \subseteq DOMAIN models)
  BY <1>1, <1>3
<1>8. run'[r] = rest /\ \A x \in Replicas : x # r => run'[x] = run[x]
  BY <1>3 DEF RegistryInv, RegistryTypeOK
<1>9. /\ \A x \in Writers : x # r => tx'[x] = tx[x]
      /\ tx'[r] # None => tx'[r] = new /\ ~(strict /\ models[i].synthetic)
      /\ tx' \in [Writers -> {None} \cup InTransaction]
  BY <1>1, <1>5, <1>6 DEF RegistryInv, RegistryTypeOK
<1>10. RegistryTypeOK'
  <2>1. \A w \in Writers : tx'[w] # None => /\ tx'[w].model \in DOMAIN models
                                            /\ tx'[w].seen # None => tx'[w].seen \subseteq DOMAIN models
    BY <1>5, <1>9 DEF RegistryInv, RegistryTypeOK
  <2>2. \A x \in Replicas : run'[x] # None => run'[x].expired \cup run'[x].todo \subseteq DOMAIN models
    BY <1>7, <1>8 DEF RegistryInv, RegistryTypeOK
  <2>3. run' \in [Replicas -> {None} \cup [expired : SUBSET Nat, todo : SUBSET Nat]]
    BY <1>3, <1>7 DEF RegistryInv, RegistryTypeOK
  <2> QED
    BY <1>2, <1>9, <2>1, <2>2, <2>3 DEF RegistryInv, RegistryTypeOK
<1>11. NoSyntheticChampion' /\ FlagMeansStatus' /\ OnePerType' /\ TrainerSound'
  BY <1>2 DEF RegistryInv, NoSyntheticChampion, FlagMeansStatus, OnePerType, TrainerSound
<1>12. ~overlap => models[i].status = "challenger"
  BY <1>1 DEF RunSound, RegistryInv, FlagMeansStatus
<1>13. ASSUME NEW w \in Writers
       PROVE  TxSound(w)'
  <2>1. CASE w # r
    <3>1. TxSound(w) /\ tx'[w] = tx[w]
      BY <1>9, <2>1 DEF RegistryInv
    <3> QED
      BY <1>2, <3>1 DEF TxSound, Others, Champions, Challengers
  <2>2. CASE w = r
    BY <1>2, <1>5, <1>9, <1>12, <2>2 DEF TxSound
  <2> QED
    BY <2>1, <2>2
<1>14. ASSUME NEW x \in Replicas
       PROVE  RunSound(x)'
  <2>1. CASE x # r
    <3>1. RunSound(x) /\ run'[x] = run[x] /\ tx'[x] = tx[x]
      BY <1>8, <1>9, <2>1 DEF RegistryInv, Writers
    <3> QED
      BY <1>2, <3>1 DEF RunSound
  <2>2. CASE x = r
    <3>1. rest # None =>
            /\ rest.expired \cap rest.todo = {}
            /\ rest.expired \cup rest.todo \subseteq (run[r].expired \cup run[r].todo) \ {i}
      BY <1>1, <1>3 DEF RunSound
    <3>2. ~overlap' /\ rest # None => \A k \in rest.expired \cup rest.todo : models'[k].challenger
      BY <1>1, <1>2, <3>1 DEF RunSound
    <3> QED
      BY <1>5, <1>8, <1>9, <2>2, <3>1, <3>2 DEF RunSound
  <2> QED
    BY <2>1, <2>2
<1> QED
  BY <1>10, <1>11, <1>13, <1>14 DEF RegistryInv

-----------------------------------------------------------------------------
(* The trainers, and models that are added.                                *)

(* What becomes of the table when a row is added.                          *)
LEMMA AppendedRows ==
  ASSUME NEW table, table \in Seq(Model), NEW row \in Model
  PROVE  LET new == Append(table, row)
         IN /\ new \in Seq(Model) /\ Len(new) = Len(table) + 1 /\ Len(table) \in Nat
            /\ DOMAIN table = 1..Len(table) /\ DOMAIN new = 1..(Len(table) + 1)
            /\ new[Len(table) + 1] = row
            /\ \A j \in DOMAIN table : new[j] = table[j]
BY AppendProperties, LenProperties

(* What the trainer's write does to the champions it read.                 *)
LEMMA DemotedRows ==
  ASSUME NEW table, table \in Seq(Model), NEW S
  PROVE  LET new == Demoted(table, S)
         IN /\ new \in Seq(Model) /\ DOMAIN new = DOMAIN table
            /\ \A j \in DOMAIN table :
                 /\ new[j].type = table[j].type /\ new[j].synthetic = table[j].synthetic
                 /\ new[j].challenger = table[j].challenger
                 /\ j \in S => new[j].status = "archived"
                 /\ j \notin S => new[j] = table[j]
<1> DEFINE new == Demoted(table, S)
<1>1. DOMAIN table = 1..Len(table) /\ Len(table) \in Nat
  BY LenProperties
<1>2. \A j \in DOMAIN table : table[j] \in Model
  BY <1>1, ElementOfSeq
<1>3. \A j \in DOMAIN table : new[j] =
        IF j \in S THEN [table[j] EXCEPT !.status = "archived"] ELSE table[j]
  BY DEF Demoted
<1>4. DOMAIN new = 1..Len(table) /\ new = [j \in 1..Len(table) |-> new[j]]
  BY <1>1 DEF Demoted
<1> HIDE DEF new
<1>5. ASSUME NEW j \in DOMAIN table
      PROVE  /\ new[j] \in Model
             /\ new[j].type = table[j].type /\ new[j].synthetic = table[j].synthetic
             /\ new[j].challenger = table[j].challenger
             /\ j \in S => new[j].status = "archived"
             /\ j \notin S => new[j] = table[j]
  <2>1. table[j] \in Model
    BY <1>2
  <2>2. PICK e : e = [table[j] EXCEPT !.status = "archived"]
    OBVIOUS
  <2>3. e \in Model /\ e.status = "archived" /\ e.type = table[j].type
        /\ e.synthetic = table[j].synthetic /\ e.challenger = table[j].challenger
    BY <2>1, <2>2 DEF Model, Statuses
  <2> QED
    BY <1>3, <2>1, <2>2, <2>3
<1>6. new \in Seq(Model)
  BY <1>1, <1>4, <1>5, IsASeq
<1> QED
  BY <1>1, <1>4, <1>5, <1>6 DEF new

(* The row may become part of the table.                                   *)
Addable(row) ==
  /\ row \in Model /\ ~row.challenger
  /\ strict /\ row.status \in {"champion", "bootstrap"} => ~row.synthetic

(* A registration by one who has nothing in flight.                        *)
LEMMA AppendInv ==
  ASSUME RegistryInv, NEW who, who \notin Writers, who = "trainer" => trainer = None,
         NEW STATE row, Addable(row), Write(who, Append(models, row)),
         UNCHANGED <<strict, manual, tx, run, trainer>>
  PROVE  RegistryInv'
<1>1. PICK m : m = row
  OBVIOUS
<1>2. PICK new : new = Append(models, m)
  OBVIOUS
<1>3. PICK n : n = Len(models) + 1
  OBVIOUS
<1>4. /\ new \in Seq(Model) /\ n \in Nat /\ n \notin DOMAIN models
      /\ DOMAIN new = DOMAIN models \cup {n} /\ new[n] = m
      /\ \A j \in DOMAIN models : new[j] = models[j]
  BY <1>1, <1>2, <1>3, AppendedRows DEF Addable, RegistryInv, RegistryTypeOK
<1>5. models' = new /\ overlap' \in BOOLEAN
  BY <1>1, <1>2 DEF Write, RegistryInv, RegistryTypeOK
<1>6. ~overlap' => /\ ~overlap
                   /\ \A w \in Writers : tx[w] = None
                   /\ \A r \in Replicas : run[r] = None
                   /\ trainer = None
  <2> SUFFICES ASSUME ~overlap' PROVE
                   /\ ~overlap
                   /\ \A w \in Writers : tx[w] = None
                   /\ \A r \in Replicas : run[r] = None
                   /\ trainer = None
    OBVIOUS
  <2>1. /\ ~overlap
        /\ \A w \in Writers : w # who => tx[w] = None
        /\ \A r \in Replicas : r # who => run[r] = None
        /\ who # "trainer" => trainer = None
    BY Alone DEF RegistryInv
  <2> QED
    BY <2>1 DEF Writers
<1>7. ~m.challenger /\ (strict /\ m.status \in {"champion", "bootstrap"} => ~m.synthetic)
  BY <1>1 DEF Addable
<1>8. RegistryTypeOK'
  BY <1>4, <1>5 DEF RegistryInv, RegistryTypeOK
<1>9. NoSyntheticChampion' /\ FlagMeansStatus' /\ OnePerType' /\ TrainerSound'
  BY <1>4, <1>5, <1>6, <1>7
     DEF RegistryInv, NoSyntheticChampion, FlagMeansStatus, OnePerType, TrainerSound
<1>10. ASSUME NEW w \in Writers
       PROVE  TxSound(w)'
  <2>1. TxSound(w) /\ (tx[w] # None => tx[w].model \in DOMAIN models)
    BY DEF RegistryInv, RegistryTypeOK
  <2> QED
    BY <1>4, <1>5, <1>6, <2>1 DEF TxSound
<1>11. ASSUME NEW r \in Replicas
       PROVE  RunSound(r)'
  BY <1>6 DEF RegistryInv, RunSound
<1> QED
  BY <1>8, <1>9, <1>10, <1>11 DEF RegistryInv

(* Retraining, and bootstrapping, prepare a write.                         *)
LEMMA TrainerBeginsInv ==
  ASSUME RegistryInv, NEW STATE t, trainer' = t,
         t.row \in Model, t = [row |-> t.row, demoted |-> t.demoted],
         ~t.row.challenger, strict => ~t.row.synthetic,
         t.demoted # {} => t.row.status = "champion",
         t.demoted \subseteq DOMAIN models,
         \A i \in t.demoted : models[i].status = "champion",
         UNCHANGED <<models, strict, manual, tx, run, overlap>>
  PROVE  RegistryInv'
<1>1. DOMAIN models \subseteq Nat
  BY LenProperties DEF RegistryInv, RegistryTypeOK
<1>2. t \in [row : Model, demoted : SUBSET Nat]
  BY <1>1
<1>3. RegistryTypeOK'
  BY <1>2 DEF RegistryInv, RegistryTypeOK
<1>4. NoSyntheticChampion' /\ FlagMeansStatus' /\ OnePerType'
  BY DEF RegistryInv, NoSyntheticChampion, FlagMeansStatus, OnePerType
<1>5. TrainerSound'
  BY DEF TrainerSound
<1>6. \A w \in Writers : TxSound(w)'
  BY DEF RegistryInv, TxSound, Others, Champions, Challengers
<1>7. \A r \in Replicas : RunSound(r)'
  BY DEF RegistryInv, RunSound
<1> QED
  BY <1>3, <1>4, <1>5, <1>6, <1>7 DEF RegistryInv

(* Retraining.                                                             *)
LEMMA TrainerRetrainsInv ==
  ASSUME RegistryInv, NEW wins \in BOOLEAN, NEW grade \in Measured, TrainerRetrains(wins, grade)
  PROVE  RegistryInv'
<1>1. PICK row : row = Candidate(IF wins THEN "champion" ELSE "STAGING", grade)
  OBVIOUS
<1>2. row \in Model /\ ~row.challenger /\ ~row.synthetic /\ (wins => row.status = "champion")
  BY <1>1, RegistryAssumption DEF Candidate, NewModel, Model, Statuses, Grades
<1>3. PICK S : S = IF wins THEN LatestChampion ELSE {}
  OBVIOUS
<1>4. S \subseteq DOMAIN models /\ (\A i \in S : models[i].status = "champion") /\ (S # {} => wins)
  BY <1>3 DEF LatestChampion
<1>5. PICK t : t = [row |-> row, demoted |-> S]
  OBVIOUS
<1>6. trainer' = t /\ UNCHANGED <<models, strict, manual, tx, run, overlap>>
  BY <1>1, <1>3, <1>5 DEF TrainerRetrains
<1> QED
  BY <1>2, <1>4, <1>5, <1>6, TrainerBeginsInv

(* The bootstrap of an empty table.                                        *)
LEMMA BootstrapBeginsInv ==
  ASSUME RegistryInv, BootstrapBegins
  PROVE  RegistryInv'
<1>1. PICK row : row = NewModel("ANOMALY", "bootstrap", TRUE, "missing", FALSE)
  OBVIOUS
<1>2. row \in Model /\ ~row.challenger
  BY <1>1, RegistryAssumption DEF NewModel, Model, Statuses, Grades
<1>3. PICK t : t = [row |-> row, demoted |-> {}]
  OBVIOUS
<1>4. trainer' = t /\ ~strict /\ UNCHANGED <<models, strict, manual, tx, run, overlap>>
  BY <1>1, <1>3 DEF BootstrapBegins
<1> QED
  BY <1>2, <1>3, <1>4, TrainerBeginsInv

(* The trainer writes what it prepared.                                    *)
LEMMA TrainerReplacesInv ==
  ASSUME RegistryInv, TrainerReplaces
  PROVE  RegistryInv'
<1>1. trainer # None /\ trainer \in [row : Model, demoted : SUBSET Nat]
      /\ trainer.demoted \subseteq DOMAIN models /\ TrainerSound
  BY DEF TrainerReplaces, RegistryInv, RegistryTypeOK
<1>2. PICK m : m = trainer.row
  OBVIOUS
<1>3. PICK S : S = trainer.demoted
  OBVIOUS
<1>4. PICK mid : mid = Demoted(models, S)
  OBVIOUS
<1>5. /\ mid \in Seq(Model) /\ DOMAIN mid = DOMAIN models
      /\ \A j \in DOMAIN models :
           /\ mid[j].type = models[j].type /\ mid[j].synthetic = models[j].synthetic
           /\ mid[j].challenger = models[j].challenger
           /\ j \in S => mid[j].status = "archived"
           /\ j \notin S => mid[j] = models[j]
  BY <1>4, DemotedRows DEF RegistryInv, RegistryTypeOK
<1>6. PICK new : new = Append(mid, m)
  OBVIOUS
<1>7. PICK n : n = Len(mid) + 1
  OBVIOUS
<1>8. /\ new \in Seq(Model) /\ n \in Nat /\ n \notin DOMAIN models
      /\ DOMAIN new = DOMAIN models \cup {n} /\ new[n] = m
      /\ \A j \in DOMAIN models : new[j] = mid[j]
  BY <1>1, <1>2, <1>5, <1>6, <1>7, AppendedRows
<1>9. /\ models' = new /\ overlap' \in BOOLEAN /\ trainer' = None
      /\ UNCHANGED <<strict, manual, tx, run>>
  BY <1>2, <1>3, <1>4, <1>6 DEF TrainerReplaces, Write, RegistryInv, RegistryTypeOK
<1>10. Write("trainer", new)
  BY <1>2, <1>3, <1>4, <1>6 DEF TrainerReplaces
<1>11. ~overlap' => /\ ~overlap
                    /\ \A w \in Writers : tx[w] = None
                    /\ \A r \in Replicas : run[r] = None
  BY <1>10, Alone, RegistryAssumption DEF RegistryInv, Writers
<1>12. ~m.challenger /\ (strict => ~m.synthetic)
  BY <1>1, <1>2 DEF TrainerSound
<1>13. ~overlap' => \A i \in S : models[i].status = "champion"
  BY <1>1, <1>3, <1>11 DEF TrainerSound
<1>14. RegistryTypeOK'
  BY <1>5, <1>8, <1>9 DEF RegistryInv, RegistryTypeOK
<1>15. NoSyntheticChampion' /\ OnePerType' /\ TrainerSound'
  BY <1>5, <1>8, <1>9, <1>11, <1>12
     DEF RegistryInv, NoSyntheticChampion, OnePerType, TrainerSound
<1>16. FlagMeansStatus'
  BY <1>5, <1>8, <1>9, <1>11, <1>12, <1>13 DEF RegistryInv, FlagMeansStatus
<1>17. ASSUME NEW w \in Writers
       PROVE  TxSound(w)'
  <2>1. TxSound(w) /\ (tx[w] # None => tx[w].model \in DOMAIN models)
    BY DEF RegistryInv, RegistryTypeOK
  <2> QED
    BY <1>5, <1>8, <1>9, <1>11, <2>1 DEF TxSound
<1>18. ASSUME NEW r \in Replicas
       PROVE  RunSound(r)'
  BY <1>9, <1>11 DEF RegistryInv, RunSound
<1> QED
  BY <1>14, <1>15, <1>16, <1>17, <1>18 DEF RegistryInv

(* Every step of the registry keeps what the calls in flight rely on.      *)
LEMMA RegistryNextInv ==
  ASSUME RegistryInv, RegistryNext
  PROVE  RegistryInv'
<1>1. ASSUME NEW goodF1 \in BOOLEAN, TrainerStructuring(goodF1) PROVE RegistryInv'
  <2>1. PICK row : row = NewModel("STRUCTURING", IF goodF1 THEN "champion" ELSE "STAGING",
                                  FALSE, "missing", FALSE)
    OBVIOUS
  <2>2. Addable(row)
    BY <2>1, RegistryAssumption DEF Addable, NewModel, Model, Statuses, Grades
  <2> QED
    BY <1>1, <2>1, <2>2, AppendInv, RegistryAssumption DEF TrainerStructuring, Register
<1>2. ASSUME NEW type \in Types \ {"ANOMALY", "STRUCTURING"}, TrainerClusters(type) PROVE RegistryInv'
  <2>1. PICK row : row = NewModel(type, "champion", FALSE, "missing", FALSE)
    OBVIOUS
  <2>2. Addable(row)
    BY <2>1 DEF Addable, NewModel, Model, Statuses, Grades
  <2> QED
    BY <1>2, <2>1, <2>2, AppendInv, RegistryAssumption DEF TrainerClusters, Register
<1>3. ASSUME NEW m \in Imports, Import(m) PROVE RegistryInv'
  <2>1. PICK row : row = NewModel(m.type, "STAGING", m.synthetic, m.grade, TRUE)
    OBVIOUS
  <2>2. m.type \in Types /\ m.synthetic \in BOOLEAN /\ m.grade \in Grades
    BY RegistryAssumption
  <2>3. Addable(row)
    BY <2>1, <2>2 DEF Addable, NewModel, Model, Statuses
  <2> QED
    BY <1>3, <2>1, <2>3, AppendInv, RegistryAssumption DEF Import, Register
<1>4. ASSUME NEW w \in Writers, Commit(w) PROVE RegistryInv'
  BY <1>4, CommitPromotionInv, CommitDesignationInv
<1>5. ASSUME NEW supervised \in BOOLEAN, NEW goodF1 \in BOOLEAN, NEW regression \in BOOLEAN,
             NEW grade \in Measured, TrainerRetrains(Wins(supervised, goodF1, regression), grade)
      PROVE  RegistryInv'
  <2>1. Wins(supervised, goodF1, regression) \in BOOLEAN
    BY DEF Wins
  <2> QED
    BY <1>5, <2>1, TrainerRetrainsInv
<1>6. ASSUME NEW r \in Replicas, NEW old \in SUBSET Found, JobStart(r, old) PROVE RegistryInv'
  BY <1>6, JobStartInv
<1> QED
  BY <1>1, <1>2, <1>3, <1>4, <1>5, <1>6, PromoteBeginInv, DesignateBeginInv, BulkUpdateInv,
     JobExpiresInv, JobDecidesInv, BootstrapBeginsInv, TrainerReplacesInv DEF RegistryNext

(* No row is ever deleted.                                                 *)
LEMMA TableGrows ==
  ASSUME RegistryInv, RegistryNext
  PROVE  DOMAIN models \subseteq DOMAIN models'
<1>1. models \in Seq(Model)
  BY DEF RegistryInv, RegistryTypeOK
<1>2. ASSUME NEW row, models' = Append(models, row)
      PROVE  DOMAIN models \subseteq DOMAIN models'
  <2>1. DOMAIN models = 1..Len(models) /\ Len(models) \in Nat
    BY <1>1, LenProperties
  <2>2. DOMAIN Append(models, row) = 1..(Len(models) + 1)
    BY <1>1
  <2> QED
    BY <1>2, <2>1, <2>2
<1>3. ASSUME NEW w \in Writers, Commit(w) PROVE DOMAIN models \subseteq DOMAIN models'
  BY <1>3 DEF Commit, Write, Promoted, Designated
<1>4. ASSUME TrainerReplaces PROVE DOMAIN models \subseteq DOMAIN models'
  <2>1. PICK mid : mid = Demoted(models, trainer.demoted)
    OBVIOUS
  <2>2. mid \in Seq(Model) /\ DOMAIN mid = DOMAIN models
    BY <1>1, <2>1, DemotedRows
  <2>3. PICK row : row = trainer.row
    OBVIOUS
  <2>4. models' = Append(mid, row)
    BY <1>4, <2>1, <2>3 DEF TrainerReplaces, Write
  <2>5. DOMAIN mid = 1..Len(mid) /\ Len(mid) \in Nat /\ DOMAIN Append(mid, row) = 1..(Len(mid) + 1)
    BY <2>2, LenProperties
  <2> QED
    BY <2>2, <2>4, <2>5
<1>5. ASSUME NEW r \in Replicas, NEW i \in DOMAIN models, JobExpires(r, i)
      PROVE  DOMAIN models \subseteq DOMAIN models'
  BY <1>5 DEF JobExpires, Write
<1>6. ASSUME NEW m \in Imports, Import(m) PROVE DOMAIN models \subseteq DOMAIN models'
  BY <1>2, <1>6 DEF Import, Register, Write
<1>7. ASSUME NEW type, TrainerClusters(type) PROVE DOMAIN models \subseteq DOMAIN models'
  BY <1>2, <1>7 DEF TrainerClusters, Register, Write
<1>8. ASSUME NEW goodF1, TrainerStructuring(goodF1) PROVE DOMAIN models \subseteq DOMAIN models'
  BY <1>2, <1>8 DEF TrainerStructuring, Register, Write
<1> QED
  BY <1>3, <1>4, <1>5, <1>6, <1>7, <1>8
     DEF RegistryNext, PromoteBegin, DesignateBegin, BulkUpdate, JobStart, JobDecides,
         TrainerRetrains, BootstrapBegins

-----------------------------------------------------------------------------
(* The cache of the ml_service.                                            *)

(* A set of numbers that has a bound has a greatest.                       *)
LEMMA GreatestExists ==
  ASSUME NEW S, S \subseteq Nat, S # {}, NEW b \in Nat, \A x \in S : x <= b
  PROVE  \E x \in S : \A y \in S : y <= x
<1> DEFINE T == {n \in Nat : \A x \in S : x <= n}
<1> DEFINE Less == {p \in Nat \X Nat : p[1] < p[2]}
<1>1. IsWellFoundedOn(Less, Nat)
  BY NatLessThanWellFounded DEF OpToRel
<1>2. T \subseteq Nat /\ T # {}
  OBVIOUS
<1> HIDE DEF T
<1>3. PICK m \in T : \A n \in T : ~ (<<n, m>> \in Less)
  <2> HIDE DEF Less
  <2> QED
    BY <1>1, <1>2, WFMin
<1>4. m \in Nat /\ \A n \in T : ~ (n < m)
  BY <1>3, <1>2
<1>5. ASSUME m \notin S PROVE FALSE
  <2>1. PICK x \in S : TRUE
    OBVIOUS
  <2>2. m # 0 /\ m - 1 \in Nat
    BY <2>1, <1>4, <1>5, <1>3 DEF T
  <2>3. m - 1 \in T
    BY <2>2, <1>3, <1>5 DEF T
  <2> QED
    BY <2>2, <2>3, <1>4
<1> QED
  BY <1>3, <1>5 DEF T

(* A load finds a row of the table, or none.                               *)
LEMMA LatestType ==
  ASSUME RegistryTypeOK, NEW v
  PROVE  Latest(v) \in DOMAIN models \cup {None}
<1>1. DOMAIN models = 1..Len(models) /\ Len(models) \in Nat
  BY LenProperties DEF RegistryTypeOK
<1>2. PICK S : S = Servable(v)
  OBVIOUS
<1>3. S \subseteq DOMAIN models
  BY <1>2 DEF Servable
<1>4. S # {} => \E i \in S : \A j \in S : j <= i
  <2>1. S \subseteq Nat /\ \A x \in S : x <= Len(models)
    BY <1>1, <1>3
  <2> QED
    BY <1>1, <2>1, GreatestExists
<1>5. Latest(v) = IF S = {} THEN None ELSE CHOOSE i \in S : \A j \in S : j <= i
  BY <1>2 DEF Latest
<1> QED
  BY <1>3, <1>4, <1>5

(* What a load finds depends on the table and the environment alone.       *)
LEMMA LatestStays ==
  ASSUME UNCHANGED <<models, strict>>, NEW v
  PROVE  Latest(v)' = Latest(v)
BY DEF Latest, Servable

(* The registry changes, or nothing does.                                  *)
LEMMA OthersServe ==
  ASSUME ServingInv, DOMAIN models \subseteq DOMAIN models',
         untold' = (untold \/ (Loaded /\ \E v \in Variants : Latest(v)' # Latest(v))),
         UNCHANGED <<thread, cache, crossed>>
  PROVE  ServingInv'
<1>1. CASE Loaded /\ \E v \in Variants : Latest(v)' # Latest(v)
  <2>1. untold'
    BY <1>1
  <2>2. CacheCurrent' /\ LoadsCurrent'
    BY <2>1 DEF CacheCurrent, LoadsCurrent, MayDiffer
  <2> QED
    BY <1>1, <2>1, <2>2 DEF ServingInv, Loads, Clears
<1>2. CASE ~ Loaded
  <2>1. CacheCurrent' /\ LoadsCurrent'
    BY <1>2 DEF CacheCurrent, LoadsCurrent, MayDiffer, Loaded
  <2> QED
    BY <1>2, <2>1 DEF ServingInv, Loads, Clears
<1>3. CASE \A v \in Variants : Latest(v)' = Latest(v)
  <2>1. (untold' <=> untold) /\ untold' \in BOOLEAN
    BY <1>3 DEF ServingInv
  <2>2. CacheCurrent'
    BY <1>3, <2>1 DEF CacheCurrent, ServingInv
  <2>4. LoadsCurrent'
    BY <1>3, <2>1 DEF LoadsCurrent, MayDiffer, ServingInv
  <2> QED
    BY <2>1, <2>2, <2>4 DEF ServingInv, Loads, Clears
<1> QED
  BY <1>1, <1>2, <1>3

(* A request finds no model in the cache.                                  *)
LEMMA ScoreBeginInv ==
  ASSUME RegistryTypeOK, ServingInv, NEW t \in Threads, NEW v \in Variants, ScoreBegin(t, v)
  PROVE  ServingInv'
<1>1. PICK m : m = Latest(v)
  OBVIOUS
<1>2. m \in DOMAIN models \cup {None}
  BY <1>1, LatestType
<1>3. PICK new : new = [do |-> "load", variant |-> v, model |-> m]
  OBVIOUS
<1>4. new \in Loads /\ new.do = "load" /\ new.variant = v /\ new.model = m
  BY <1>2, <1>3 DEF Loads
<1>5. /\ thread' = [thread EXCEPT ![t] = new] /\ thread[t] = None
      /\ UNCHANGED <<models, strict, cache, untold, crossed>>
  BY <1>1, <1>3 DEF ScoreBegin, tableVars
<1>6. thread'[t] = new /\ \A u \in Threads : u # t => thread'[u] = thread[u]
  BY <1>5 DEF ServingInv
<1>7. \A x : Latest(x)' = Latest(x)
  BY <1>5 DEF Latest, Servable
<1>8. MayDiffer => MayDiffer'
  BY <1>5, <1>6 DEF MayDiffer
<1>9. CacheCurrent'
  <2>1. CacheCurrent /\ \A x \in Variants : cache[x] # None => cache[x] = Latest(x) \/ MayDiffer
    BY DEF ServingInv, CacheCurrent, MayDiffer
  <2>2. \A x \in Variants : cache'[x] # None => cache'[x] = Latest(x)' \/ MayDiffer'
    BY <1>5, <1>7, <1>8, <2>1
  <2> QED
    BY <2>2 DEF CacheCurrent, MayDiffer
<1>10. LoadsCurrent'
  <2> SUFFICES ASSUME NEW u \in Threads, NEW x \in Variants,
                      thread'[u] # None, thread'[u].do = "load", thread'[u].variant = x
               PROVE  thread'[u].model = Latest(x)' \/ MayDiffer'
    BY DEF LoadsCurrent
  <2>1. CASE u = t
    BY <1>1, <1>4, <1>6, <1>7, <2>1
  <2>2. CASE u # t
    BY <1>6, <1>7, <1>8, <2>2 DEF ServingInv, LoadsCurrent
  <2> QED
    BY <2>1, <2>2
<1>11. thread' \in [Threads -> {None} \cup Clears \cup Loads]
  BY <1>4, <1>5 DEF ServingInv
<1> QED
  BY <1>5, <1>9, <1>10, <1>11 DEF ServingInv, Loads, Clears

(* The cache is emptied: a load that is under way leaves a mark.           *)
LEMMA EmptyCacheInv ==
  ASSUME ServingInv, EmptyCache, UNCHANGED <<models, strict>>,
         \/ UNCHANGED thread
         \/ \E t \in Threads : thread' = [thread EXCEPT ![t] = None]
  PROVE  ServingInv'
<1>1. \A t \in Threads : thread'[t] = thread[t] \/ thread'[t] = None
  BY DEF ServingInv
<1>2. thread' \in [Threads -> {None} \cup Clears \cup Loads]
  BY DEF ServingInv
<1>3. cache' \in [Variants -> {None}] /\ untold' \in BOOLEAN /\ crossed' \in BOOLEAN
  BY DEF EmptyCache, ServingInv
<1>4. CacheCurrent'
  BY <1>3 DEF CacheCurrent
<1>5. LoadsCurrent'
  <2>1. CASE crossed'
    BY <2>1 DEF LoadsCurrent, MayDiffer
  <2>2. CASE ~crossed'
    <3>1. ~ \E t \in Threads : thread[t] # None /\ thread[t].do = "load"
      BY <2>2 DEF EmptyCache
    <3> QED
      BY <1>1, <3>1 DEF LoadsCurrent
  <2> QED
    BY <2>1, <2>2
<1> QED
  BY <1>2, <1>3, <1>4, <1>5 DEF ServingInv, Loads, Clears

(* A load ends: its model goes to the cache, or the champion is loaded.    *)
LEMMA LoadEndsInv ==
  ASSUME RegistryTypeOK, ServingInv, NEW t \in Threads, LoadEnds(t)
  PROVE  ServingInv'
<1>1. /\ thread[t] # None /\ thread[t].do = "load" /\ thread[t] \in Clears \cup Loads
      /\ UNCHANGED <<models, strict, untold, crossed>>
  BY DEF LoadEnds, ServingInv, registryVars, tableVars
<1>2. thread[t] \in Loads
  BY <1>1 DEF Clears, Loads
<1>3. PICK v \in Variants : v = thread[t].variant
  BY <1>2 DEF Loads
<1>4. PICK m \in DOMAIN models \cup {None} : m = thread[t].model
  BY <1>2 DEF Loads
<1>5. m = Latest(v) \/ MayDiffer
  BY <1>1, <1>3, <1>4 DEF ServingInv, LoadsCurrent
<1>6. PICK loaded \in BOOLEAN : /\ loaded = (m # None /\ models[m].loadable)
                                /\ loaded => m # None
  OBVIOUS
<1>7. PICK champion \in DOMAIN models \cup {None} : champion = Latest("champion")
  BY LatestType
<1>8. PICK load : load = [do |-> "load", variant |-> "champion", model |-> champion]
  OBVIOUS
<1>9. load \in Loads /\ load.do = "load" /\ load.variant = "champion" /\ load.model = champion
  BY <1>7, <1>8 DEF Loads, Variants
<1>10. PICK new \in {None, load} : thread' = [thread EXCEPT ![t] = new]
  BY <1>7, <1>8 DEF LoadEnds
<1>11. cache' = IF loaded THEN [cache EXCEPT ![v] = m] ELSE cache
  BY <1>3, <1>4, <1>6 DEF LoadEnds
<1>12. thread'[t] = new /\ \A u \in Threads : u # t => thread'[u] = thread[u]
  BY <1>10 DEF ServingInv
<1>13. \A x : Latest(x)' = Latest(x)
  BY <1>1 DEF Latest, Servable
<1>14. MayDiffer => MayDiffer'
  BY <1>1, <1>12 DEF MayDiffer
<1>15. cache' \in [Variants -> DOMAIN models \cup {None}]
  BY <1>11 DEF ServingInv
<1>16. CacheCurrent'
  <2>1. \A x \in Variants : cache[x] # None => cache[x] = Latest(x) \/ MayDiffer
    BY DEF ServingInv, CacheCurrent, MayDiffer
  <2>2. \A x \in Variants : cache'[x] = cache[x] \/ (x = v /\ cache'[x] = m)
    BY <1>11 DEF ServingInv
  <2>3. \A x \in Variants : cache'[x] # None => cache'[x] = Latest(x)' \/ MayDiffer'
    BY <1>5, <1>13, <1>14, <2>1, <2>2
  <2> QED
    BY <2>3 DEF CacheCurrent, MayDiffer
<1>17. LoadsCurrent'
  <2> SUFFICES ASSUME NEW u \in Threads, NEW x \in Variants,
                      thread'[u] # None, thread'[u].do = "load", thread'[u].variant = x
               PROVE  thread'[u].model = Latest(x)' \/ MayDiffer'
    BY DEF LoadsCurrent
  <2>1. CASE u = t
    BY <1>7, <1>9, <1>10, <1>12, <1>13, <2>1
  <2>2. CASE u # t
    BY <1>12, <1>13, <1>14, <2>2 DEF ServingInv, LoadsCurrent
  <2> QED
    BY <2>1, <2>2
<1>18. thread' \in [Threads -> {None} \cup Clears \cup Loads]
  BY <1>9, <1>10 DEF ServingInv
<1> QED
  BY <1>1, <1>15, <1>16, <1>17, <1>18 DEF ServingInv, Loads, Clears

(* A training has yet to empty the cache.                                  *)
LEMMA TrainedInv ==
  ASSUME ServingInv, NEW t \in Threads, thread' = [thread EXCEPT ![t] = [do |-> "clear"]],
         [do |-> "clear"] # None, DOMAIN models \subseteq DOMAIN models',
         UNCHANGED <<cache, untold, crossed>>
  PROVE  ServingInv'
<1>1. [do |-> "clear"] \in Clears
  BY DEF Clears
<1>2. thread' \in [Threads -> {None} \cup Clears \cup Loads] /\ thread'[t] = [do |-> "clear"]
  BY <1>1 DEF ServingInv
<1>3. MayDiffer'
  BY <1>2 DEF MayDiffer
<1>4. CacheCurrent' /\ LoadsCurrent'
  BY <1>3 DEF CacheCurrent, LoadsCurrent, MayDiffer
<1> QED
  BY <1>2, <1>4 DEF ServingInv, Loads, Clears

(* A training may register its model.                                      *)
LEMMA RegisteredInv ==
  ASSUME RegistryInv, NEW t \in Threads, NEW type \in Types, NEW synthetic \in BOOLEAN,
         NEW uploaded \in BOOLEAN, NEW registered \in BOOLEAN,
         IF registered THEN Registered(t, type, synthetic, uploaded) ELSE UNCHANGED <<models, overlap>>,
         UNCHANGED <<strict, manual, tx, run, trainer>>
  PROVE  RegistryInv' /\ DOMAIN models \subseteq DOMAIN models'
<1>1. CASE ~registered
  BY <1>1, RegistryStays DEF tableVars
<1>2. CASE registered
  <2>1. PICK row : row = NewModel(type, "champion", synthetic, "missing", uploaded)
    OBVIOUS
  <2>2. Write(t, Append(models, row)) /\ ~(synthetic /\ strict)
    BY <1>2, <2>1 DEF Registered, Register
  <2>3. Addable(row)
    BY <2>1, <2>2 DEF Addable, NewModel, Model, Statuses, Grades
  <2>4. t \notin Writers /\ t # "trainer"
    BY ServingAssumption
  <2>5. RegistryInv'
    BY <2>2, <2>3, <2>4, AppendInv
  <2>6. models' = Append(models, row) /\ models \in Seq(Model) /\ row \in Model
    BY <2>2, <2>3 DEF Write, Addable, RegistryInv, RegistryTypeOK
  <2>7. DOMAIN models \subseteq DOMAIN models'
    BY <2>6, AppendedRows
  <2> QED
    BY <2>5, <2>7
<1> QED
  BY <1>1, <1>2

(* A step of the ml_service.                                               *)
LEMMA ServingNextInv ==
  ASSUME RegistryInv, ServingInv, ServingNext
  PROVE  RegistryInv' /\ ServingInv'
<1>1. RegistryTypeOK
  BY DEF RegistryInv
<1>2. ASSUME NEW t \in Threads, NEW v \in Variants, ScoreBegin(t, v)
      PROVE  RegistryInv' /\ ServingInv'
  BY <1>1, <1>2, ScoreBeginInv, RegistryStays DEF ScoreBegin
<1>3. ASSUME NEW t \in Threads, LoadEnds(t)
      PROVE  RegistryInv' /\ ServingInv'
  BY <1>1, <1>3, LoadEndsInv, RegistryStays DEF LoadEnds, registryVars
<1>4. ASSUME NEW t \in Threads, TrainEnds(t)
      PROVE  RegistryInv' /\ ServingInv'
  <2>1. UNCHANGED tableVars /\ UNCHANGED <<models, strict>>
    BY <1>4 DEF TrainEnds, registryVars, tableVars
  <2>2. EmptyCache /\ thread' = [thread EXCEPT ![t] = None]
    BY <1>4 DEF TrainEnds
  <2> QED
    BY <2>1, <2>2, EmptyCacheInv, RegistryStays
<1>5. ASSUME NEW t \in Threads, NEW synthetic \in BOOLEAN, NEW uploaded \in BOOLEAN,
             NEW registered \in BOOLEAN, Train(t, synthetic, uploaded, registered)
      PROVE  RegistryInv' /\ ServingInv'
  <2>1. "ANOMALY" \in Types
    BY RegistryAssumption
  <2>2. RegistryInv' /\ DOMAIN models \subseteq DOMAIN models'
    BY <1>5, <2>1, RegisteredInv DEF Train
  <2> QED
    BY <1>5, <2>2, TrainedInv, ServingAssumption DEF Train
<1>6. ASSUME NEW t \in Threads, NEW type \in Types \ {"ANOMALY"}, NEW uploaded \in BOOLEAN,
             NEW registered \in BOOLEAN, TrainMadeUp(t, type, uploaded, registered)
      PROVE  RegistryInv' /\ ServingInv'
  <2>1. RegistryInv' /\ DOMAIN models \subseteq DOMAIN models'
    BY <1>6, RegisteredInv DEF TrainMadeUp
  <2> QED
    BY <1>6, <2>1, TrainedInv, ServingAssumption DEF TrainMadeUp
<1>7. ASSUME Reload PROVE RegistryInv' /\ ServingInv'
  BY <1>7, EmptyCacheInv, RegistryStays DEF Reload, tableVars
<1>8. ASSUME Restart PROVE RegistryInv' /\ ServingInv'
  <2>1. cache' \in [Variants -> {None}] /\ thread' \in [Threads -> {None}]
    BY <1>8 DEF Restart
  <2>2. CacheCurrent' /\ LoadsCurrent'
    BY <2>1 DEF CacheCurrent, LoadsCurrent
  <2>3. untold' = FALSE /\ crossed' = FALSE /\ models' = models /\ UNCHANGED tableVars
    BY <1>8 DEF Restart, tableVars
  <2>4. ServingInv'
    BY <2>1, <2>2, <2>3 DEF ServingInv, Loads, Clears
  <2> QED
    BY <2>3, <2>4, RegistryStays
<1> QED
  BY <1>2, <1>3, <1>4, <1>5, <1>6, <1>7, <1>8 DEF ServingNext

(* The tables and the cache are empty.                                     *)
LEMMA InitInv == Init => IInv
<1> SUFFICES ASSUME Init PROVE IInv
  OBVIOUS
<1>1. models = <<>> /\ DOMAIN models = {} /\ models \in Seq(Model)
  BY EmptySeq DEF Init, RegistryInit
<1>2. /\ \A w \in Writers : tx[w] = None
      /\ \A r \in Replicas : run[r] = None
      /\ tx \in [Writers -> {None}] /\ run \in [Replicas -> {None}]
      /\ trainer = None /\ overlap = FALSE
  BY DEF Init, RegistryInit
<1>3. [strict |-> strict, manual |-> manual] \in Settings
  <2>1. PICK s \in Settings : strict = s.strict /\ manual = s.manual
    BY DEF Init, RegistryInit
  <2>2. s \in [strict : BOOLEAN, manual : BOOLEAN]
    BY RegistryAssumption
  <2>3. s = [strict |-> strict, manual |-> manual]
    BY <2>1, <2>2
  <2> QED
    BY <2>3
<1>4. RegistryTypeOK
  BY <1>1, <1>2, <1>3 DEF RegistryTypeOK
<1>5. NoSyntheticChampion /\ FlagMeansStatus /\ OnePerType /\ TrainerSound
  BY <1>1, <1>2 DEF NoSyntheticChampion, FlagMeansStatus, OnePerType, TrainerSound
<1>6. RegistryInv
  BY <1>2, <1>4, <1>5 DEF RegistryInv, TxSound, RunSound
<1>7. /\ thread \in [Threads -> {None}] /\ cache \in [Variants -> {None}]
      /\ untold = FALSE /\ crossed = FALSE
  BY DEF Init
<1>8. ServingInv
  BY <1>7 DEF ServingInv, CacheCurrent, LoadsCurrent, Loads, Clears
<1> QED
  BY <1>6, <1>8 DEF IInv

(* Every step preserves the invariant.                                     *)
LEMMA NextInv == IInv /\ [Next]_vars => IInv'
<1> SUFFICES ASSUME IInv, [Next]_vars PROVE IInv'
  OBVIOUS
<1>1. CASE ServingNext
  BY <1>1, ServingNextInv DEF IInv
<1>2. ASSUME RegistryNext,
             untold' = (untold \/ (Loaded /\ \E v \in Variants : Latest(v)' # Latest(v))),
             UNCHANGED <<thread, cache, crossed>>
      PROVE  IInv'
  BY <1>2, RegistryNextInv, TableGrows, OthersServe DEF IInv
<1>3. CASE UNCHANGED vars
  <2>1. UNCHANGED tableVars /\ UNCHANGED <<thread, cache, untold, crossed>>
        /\ UNCHANGED <<models, strict>>
    BY <1>3 DEF vars, registryVars, servingVars, tableVars
  <2>2. \A v : Latest(v)' = Latest(v)
    BY <2>1, LatestStays
  <2>3. untold' = (untold \/ (Loaded /\ \E v \in Variants : Latest(v)' # Latest(v)))
    BY <2>1, <2>2 DEF IInv, ServingInv
  <2> QED
    BY <2>1, <2>3, RegistryStays, OthersServe DEF IInv
<1> QED
  BY <1>1, <1>2, <1>3 DEF Next

(* In every state what the calls in flight have read still holds.          *)
LEMMA Invariance == Spec => []IInv
<1> QED
  BY InitInv, NextInv, PTL DEF Spec

(* Variables have their types.                                             *)
LEMMA TypeCorrect == IInv => TypeOK
BY DEF IInv, RegistryInv, ServingInv, TypeOK, Loads, Clears

(* At most one element makes at most cardinality one.                      *)
LEMMA AtMostOne ==
  ASSUME NEW S, \A x, y \in S : x = y
  PROVE  Cardinality(S) <= 1
<1>1. CASE S = {}
  BY <1>1, FS_EmptySet
<1>2. CASE S # {}
  <2>1. PICK x \in S : S = {x}
    BY <1>2
  <2> QED
    BY <2>1, FS_Singleton
<1> QED
  BY <1>1, <1>2

(* No model of synthetic data serves where that is forbidden, whichever of *)
(* the six ways to become champion it takes and however they overlap, and  *)
(* a type has one challenger where writes do not overlap: promote_model,   *)
(* designate_challenger, auto_promote_challenger_models and the trainers.  *)
THEOREM RegistryIsSound == Spec => []RegistrySound
<1>1. IInv => OneChallenger
  <2> SUFFICES ASSUME IInv, ~overlap, NEW type \in Types
               PROVE  Cardinality(Challengers(type)) <= 1
    BY DEF OneChallenger
  <2>1. \A i, j \in Challengers(type) : i = j
    BY DEF Challengers, IInv, RegistryInv, OnePerType
  <2> QED
    BY <2>1, AtMostOne
<1>2. IInv => RegistrySound
  BY <1>1, TypeCorrect DEF IInv, RegistryInv, RegistrySound
<1> QED
  BY <1>2, Invariance, PTL

(* The cache of the ml_service names the model the registry would, or one  *)
(* of the three reasons why it may not is at hand (_load_tenant_model).    *)
THEOREM CacheIsCurrent == Spec => []CacheCurrent
<1>1. IInv => CacheCurrent
  BY DEF IInv, ServingInv
<1> QED
  BY <1>1, Invariance, PTL

-----------------------------------------------------------------------------
(* What a step may never do.                                               *)

(* A transaction that ends was committed.                                  *)
LEMMA EndsByCommit ==
  ASSUME RegistryInv, [Next]_vars, NEW w \in Writers, tx[w] # None, tx'[w] = None
  PROVE  Commit(w)
<1>1. tx \in [Writers -> {None} \cup InTransaction] /\ tx' # tx
  BY DEF RegistryInv, RegistryTypeOK
<1>2. ~ServingNext /\ ~UNCHANGED vars
  BY <1>1 DEF ServingNext, vars, registryVars, tableVars, ScoreBegin, LoadEnds, TrainEnds, Train,
              TrainMadeUp, Reload, Restart
<1>3. RegistryNext
  BY <1>2 DEF Next
<1>4. ASSUME NEW c \in Callers, NEW i, PromoteBegin(c, i) \/ DesignateBegin(c, i) PROVE FALSE
  BY <1>1, <1>4 DEF PromoteBegin, DesignateBegin, Writers
<1>5. ASSUME NEW x \in Writers, BulkUpdate(x) PROVE FALSE
  <2>1. tx[x] \in InTransaction
    BY <1>1, <1>5 DEF BulkUpdate
  <2>2. PICK S : S = Others(x)
    OBVIOUS
  <2>3. S \subseteq Nat
    BY <2>2, LenProperties DEF Others, Champions, Challengers, RegistryInv, RegistryTypeOK
  <2>4. PICK new : new = [tx[x] EXCEPT !.seen = S]
    OBVIOUS
  <2>5. new \in InTransaction
    BY <2>1, <2>3, <2>4 DEF InTransaction
  <2>6. tx' = [tx EXCEPT ![x] = new] /\ new # None
    BY <1>5, <2>2, <2>4, <2>5, RegistryAssumption DEF BulkUpdate, Others
  <2> QED
    BY <1>1, <2>6
<1>6. ASSUME NEW r \in Replicas, NEW i, NEW better, NEW estimate, JobDecides(r, i, better, estimate)
      PROVE  FALSE
  <2>1. tx[r] = None /\ (tx' = tx \/ \E new : tx' = [tx EXCEPT ![r] = new])
    BY <1>6 DEF JobDecides
  <2> QED
    BY <1>1, <2>1 DEF Writers
<1>7. ASSUME NEW x \in Writers, Commit(x) PROVE x = w
  BY <1>1, <1>7 DEF Commit
<1> QED
  BY <1>1, <1>3, <1>4, <1>5, <1>6, <1>7
     DEF RegistryNext, JobStart, JobExpires, TrainerRetrains, BootstrapBegins, TrainerReplaces,
         TrainerStructuring, TrainerClusters, Import

RowsStay == \A j \in DOMAIN models : j \in DOMAIN models' /\ models'[j] = models[j]

(* Three writes change rows that are there.                                *)
LEMMA WhoWrites ==
  ASSUME RegistryInv, [Next]_vars
  PROVE  \/ RowsStay
         \/ \E w \in Writers : Commit(w)
         \/ \E r \in Replicas, i \in DOMAIN models : JobExpires(r, i)
         \/ TrainerReplaces
<1>1. ASSUME NEW row, models' = Append(models, row)
      PROVE  RowsStay
  <2>1. models \in Seq(Model) /\ DOMAIN models = 1..Len(models) /\ Len(models) \in Nat
    BY LenProperties DEF RegistryInv, RegistryTypeOK
  <2>2. DOMAIN Append(models, row) = 1..(Len(models) + 1)
        /\ \A j \in 1..Len(models) : Append(models, row)[j] = models[j]
    BY <2>1
  <2> QED
    BY <1>1, <2>1, <2>2 DEF RowsStay
<1>2. ASSUME models' = models PROVE RowsStay
  BY <1>2 DEF RowsStay
<1>3. ASSUME NEW m, Import(m) PROVE RowsStay
  BY <1>1, <1>3 DEF Import, Register, Write
<1>4. ASSUME NEW type, TrainerClusters(type) PROVE RowsStay
  BY <1>1, <1>4 DEF TrainerClusters, Register, Write
<1>5. ASSUME NEW goodF1, TrainerStructuring(goodF1) PROVE RowsStay
  BY <1>1, <1>5 DEF TrainerStructuring, Register, Write
<1>6. ASSUME NEW t, NEW type, NEW synthetic, NEW uploaded, Registered(t, type, synthetic, uploaded)
      PROVE  RowsStay
  BY <1>1, <1>6 DEF Registered, Register, Write
<1>7. CASE ServingNext
  <2>1. ASSUME NEW t \in Threads, NEW synthetic, NEW uploaded, NEW registered,
               Train(t, synthetic, uploaded, registered)
        PROVE  RowsStay
    BY <1>2, <1>6, <2>1 DEF Train
  <2>2. ASSUME NEW t \in Threads, NEW type, NEW uploaded, NEW registered,
               TrainMadeUp(t, type, uploaded, registered)
        PROVE  RowsStay
    BY <1>2, <1>6, <2>2 DEF TrainMadeUp
  <2> QED
    BY <1>2, <1>7, <2>1, <2>2
       DEF ServingNext, ScoreBegin, LoadEnds, TrainEnds, Reload, Restart, registryVars, tableVars
<1>8. CASE UNCHANGED vars
  BY <1>2, <1>8 DEF vars, registryVars, tableVars
<1>9. CASE RegistryNext
  BY <1>2, <1>3, <1>4, <1>5, <1>9
     DEF RegistryNext, PromoteBegin, DesignateBegin, BulkUpdate, JobStart, JobDecides,
         TrainerRetrains, BootstrapBegins
<1> QED
  BY <1>7, <1>8, <1>9 DEF Next

(* What a committed promotion leaves: the model, and no other champion of  *)
(* its type that was read.                                                 *)
LEMMA PromotionStep ==
  ASSUME RegistryInv, NEW w \in Writers, Commit(w), tx[w].op = "promote", ~overlap'
  PROVE  /\ \A type : models[tx[w].model].type = type => Champions(type)' = {tx[w].model}
         /\ \A type : models[tx[w].model].type # type => Champions(type) \subseteq Champions(type)'
         /\ \A j \in DOMAIN models : models[j].status = "archived" => models'[j].status = "archived"
<1>1. tx[w] # None /\ tx[w].seen # None /\ tx[w].model \in DOMAIN models
  BY DEF RegistryInv, RegistryTypeOK, Commit
<1>2. PICK i : i = tx[w].model
  OBVIOUS
<1>3. PICK S : S = tx[w].seen
  OBVIOUS
<1>4. PICK new : new = Promoted(models, i, S)
  OBVIOUS
<1>5. /\ SameRows(new) /\ new[i].status = "champion" /\ ~new[i].challenger
      /\ \A j \in DOMAIN models :
           /\ j # i /\ j \in S /\ models[j].status = "champion" =>
                new[j].status = "archived" /\ ~new[j].challenger
           /\ j # i /\ ~(j \in S /\ models[j].status = "champion") => new[j] = models[j]
  BY <1>1, <1>2, <1>4, PromotedRows DEF RegistryInv, RegistryTypeOK, SameRows
<1>6. models' = new /\ Write(w, new)
  BY <1>2, <1>3, <1>4 DEF Commit, Write
<1>7. ~overlap /\ TxSound(w)
  BY <1>6, Alone DEF RegistryInv
<1>8. S = Champions(models[i].type) \ {i} /\ models[i].status = "challenger"
  BY <1>1, <1>2, <1>3, <1>7 DEF TxSound, Others
<1> QED
  BY <1>1, <1>2, <1>5, <1>6, <1>8 DEF Champions, SameRows

(* What a committed designation leaves: every champion and every archived  *)
(* model.                                                                  *)
LEMMA DesignationStep ==
  ASSUME RegistryInv, NEW w \in Writers, Commit(w), tx[w].op # "promote", ~overlap'
  PROVE  \A j \in DOMAIN models :
           /\ j \in DOMAIN models' /\ models'[j].type = models[j].type
           /\ models[j].status \in {"champion", "archived"} => models'[j].status = models[j].status
<1>1. tx[w] # None /\ tx[w].seen # None /\ tx[w].model \in DOMAIN models
  BY DEF RegistryInv, RegistryTypeOK, Commit
<1>2. PICK i : i = tx[w].model
  OBVIOUS
<1>3. PICK S : S = tx[w].seen
  OBVIOUS
<1>4. PICK new : new = Designated(models, i, S)
  OBVIOUS
<1>5. /\ SameRows(new)
      /\ \A j \in DOMAIN models : j # i /\ ~models[j].challenger => new[j] = models[j]
  BY <1>1, <1>2, <1>4, DesignatedRows DEF RegistryInv, RegistryTypeOK, SameRows
<1>6. models' = new /\ Write(w, new)
  BY <1>2, <1>3, <1>4 DEF Commit, Write
<1>7. ~overlap /\ TxSound(w) /\ FlagMeansStatus
  BY <1>6, Alone DEF RegistryInv
<1>8. models[i].status = "STAGING" /\ \A j \in DOMAIN models :
        models[j].challenger => models[j].status = "challenger"
  BY <1>1, <1>2, <1>7 DEF TxSound, FlagMeansStatus
<1> QED
  BY <1>5, <1>6, <1>8 DEF SameRows

(* What an expiry leaves: the same.                                        *)
LEMMA ExpiryStep ==
  ASSUME RegistryInv, NEW r \in Replicas, NEW i \in DOMAIN models, JobExpires(r, i), ~overlap'
  PROVE  \A j \in DOMAIN models :
           /\ j \in DOMAIN models' /\ models'[j].type = models[j].type
           /\ models[j].status \in {"champion", "archived"} => models'[j].status = models[j].status
<1>1. /\ run[r] # None /\ i \in run[r].expired /\ RunSound(r) /\ FlagMeansStatus
      /\ models[i] \in Model /\ models \in Seq(Model)
  BY ElementOfSeq, LenProperties DEF JobExpires, RegistryInv, RegistryTypeOK
<1>2. PICK new : new = [models EXCEPT ![i].status = "archived", ![i].challenger = FALSE]
  OBVIOUS
<1>3. models' = new /\ Write(r, new)
  BY <1>2 DEF JobExpires, Write
<1>4. ~overlap
  BY <1>3, Alone DEF RegistryInv
<1>5. models[i].status = "challenger"
  BY <1>1, <1>4 DEF RunSound, FlagMeansStatus
<1>6. DOMAIN new = DOMAIN models /\ new[i].type = models[i].type
      /\ \A j \in DOMAIN models : j # i => new[j] = models[j]
  BY <1>1, <1>2 DEF Model
<1> QED
  BY <1>3, <1>5, <1>6

(* What the trainer's write leaves: every row it did not read as champion, *)
(* and a champion of its own type, if it has read one.                     *)
LEMMA ReplacementStep ==
  ASSUME RegistryInv, TrainerReplaces
  PROVE  /\ trainer # None /\ trainer' = None
         /\ trainer.demoted # {} => \E n \in DOMAIN models' :
              models'[n].type = trainer.row.type /\ models'[n].status = "champion"
         /\ \A j \in DOMAIN models :
              /\ j \in DOMAIN models' /\ models'[j].type = models[j].type
              /\ j \notin trainer.demoted => models'[j].status = models[j].status
              /\ models[j].status = "archived" => models'[j].status = "archived"
<1>1. trainer # None /\ trainer.row \in Model /\ TrainerSound /\ trainer' = None
  BY DEF TrainerReplaces, RegistryInv, RegistryTypeOK
<1>2. PICK m : m = trainer.row
  OBVIOUS
<1>3. PICK S : S = trainer.demoted
  OBVIOUS
<1>4. PICK mid : mid = Demoted(models, S)
  OBVIOUS
<1>5. /\ mid \in Seq(Model) /\ DOMAIN mid = DOMAIN models
      /\ \A j \in DOMAIN models :
           /\ mid[j].type = models[j].type
           /\ j \in S => mid[j].status = "archived"
           /\ j \notin S => mid[j] = models[j]
  BY <1>4, DemotedRows DEF RegistryInv, RegistryTypeOK
<1>6. PICK n : n = Len(mid) + 1
  OBVIOUS
<1>7. PICK new : new = Append(mid, m)
  OBVIOUS
<1>8. /\ DOMAIN new = DOMAIN models \cup {n} /\ new[n] = m
      /\ \A j \in DOMAIN models : new[j] = mid[j]
  BY <1>1, <1>2, <1>5, <1>6, <1>7, AppendedRows
<1>9. models' = new
  BY <1>2, <1>3, <1>4, <1>7 DEF TrainerReplaces, Write
<1>10. S # {} => m.status = "champion"
  BY <1>1, <1>2, <1>3 DEF TrainerSound
<1> QED
  BY <1>1, <1>2, <1>3, <1>5, <1>8, <1>9, <1>10

(* A promotion that does not overlap with another write leaves the model   *)
(* as the only champion of its type (promote_model and                     *)
(* auto_promote_challenger_models).                                        *)
THEOREM PromotionLeavesOne == Spec => PromotionReplaces
<1> DEFINE A == \A w \in Writers, type \in Types :
                  /\ tx[w] # None /\ tx'[w] = None /\ ~overlap'
                  /\ tx[w].op = "promote" /\ models[tx[w].model].type = type
                  => Champions(type)' = {tx[w].model}
<1>1. IInv /\ [Next]_vars => [A]_vars
  BY EndsByCommit, PromotionStep DEF IInv
<1> QED
  BY <1>1, Invariance, PTL DEF Spec, PromotionReplaces

(* No promotion, designation, expiry or training leaves a type without a   *)
(* champion, but for writes that overlap and for the daily retraining,     *)
(* which archives the latest champion of any type.                         *)
THEOREM ChampionsAreKept == Spec => ChampionKept
<1> DEFINE A == \A type \in Types : Champions(type) # {} /\ Champions(type)' = {} =>
                  \/ overlap'
                  \/ trainer # None /\ trainer' = None /\ trainer.row.type # type
<1>1. IInv /\ [Next]_vars => A
  <2> SUFFICES ASSUME RegistryInv, [Next]_vars, NEW type \in Types, ~overlap',
                      Champions(type) # {}, Champions(type)' = {}
               PROVE  trainer # None /\ trainer' = None /\ trainer.row.type # type
    BY DEF IInv
  <2>1. PICK k \in DOMAIN models : models[k].type = type /\ models[k].status = "champion"
    BY DEF Champions
  <2>2. ~(k \in DOMAIN models' /\ models'[k].type = type /\ models'[k].status = "champion")
    BY DEF Champions
  <2>3. CASE RowsStay
    BY <2>1, <2>2, <2>3 DEF RowsStay
  <2>4. ASSUME NEW w \in Writers, Commit(w), tx[w].op = "promote" PROVE FALSE
    BY <2>4, PromotionStep
  <2>5. ASSUME NEW w \in Writers, Commit(w), tx[w].op # "promote" PROVE FALSE
    BY <2>1, <2>2, <2>5, DesignationStep
  <2>6. ASSUME NEW r \in Replicas, NEW i \in DOMAIN models, JobExpires(r, i) PROVE FALSE
    BY <2>1, <2>2, <2>6, ExpiryStep
  <2>7. CASE TrainerReplaces
    <3>1. k \in trainer.demoted
      BY <2>1, <2>2, <2>7, ReplacementStep
    <3>2. PICK n \in DOMAIN models' : models'[n].type = trainer.row.type /\ models'[n].status = "champion"
      BY <2>7, <3>1, ReplacementStep
    <3>3. trainer.row.type # type
      BY <3>2 DEF Champions
    <3> QED
      BY <2>7, <3>3, ReplacementStep
  <2> QED
    BY <2>3, <2>4, <2>5, <2>6, <2>7, WhoWrites
<1>2. IInv /\ [Next]_vars => [A]_vars
  BY <1>1
<1> QED
  BY <1>2, Invariance, PTL DEF Spec, ChampionKept

(* An archived model comes back only where a call that had checked it      *)
(* before overlaps with the one that archived it.                          *)
THEOREM ArchivedIsFinal == Spec => ArchivedStays
<1> DEFINE A == \A i \in DOMAIN models :
                  models[i].status = "archived" => models'[i].status = "archived" \/ overlap'
<1>1. IInv /\ [Next]_vars => A
  <2> SUFFICES ASSUME RegistryInv, [Next]_vars, NEW k \in DOMAIN models, ~overlap',
                      models[k].status = "archived"
               PROVE  models'[k].status = "archived"
    BY DEF IInv
  <2>1. CASE RowsStay
    BY <2>1 DEF RowsStay
  <2>2. ASSUME NEW w \in Writers, Commit(w), tx[w].op = "promote" PROVE models'[k].status = "archived"
    BY <2>2, PromotionStep
  <2>3. ASSUME NEW w \in Writers, Commit(w), tx[w].op # "promote" PROVE models'[k].status = "archived"
    BY <2>3, DesignationStep
  <2>4. ASSUME NEW r \in Replicas, NEW i \in DOMAIN models, JobExpires(r, i)
        PROVE  models'[k].status = "archived"
    BY <2>4, ExpiryStep
  <2>5. CASE TrainerReplaces
    BY <2>5, ReplacementStep
  <2> QED
    BY <2>1, <2>2, <2>3, <2>4, <2>5, WhoWrites
<1>2. IInv /\ [Next]_vars => [A]_vars
  BY <1>1
<1> QED
  BY <1>2, Invariance, PTL DEF Spec, ArchivedStays

(* The three things a step of the registry may never do.                   *)
THEOREM LifecycleIsSound == Spec => LifecycleSteps
<1> QED
  BY PromotionLeavesOne, ChampionsAreKept, ArchivedIsFinal DEF LifecycleSteps
=============================================================================
