------------------------------- MODULE Sanctions -------------------------------
(***************************************************************************)
(* sanctions.py: the check of a person against the lists of sanctions and  *)
(* politically exposed persons.  A name is a sequence of words without     *)
(* accents and capitals (of none, where no letter is Latin), a CPF stands  *)
(* for its HMAC.                                                           *)
(***************************************************************************)
EXTENDS Naturals, Sequences

CONSTANTS
  Names,      \* names that are listed or checked
  NoName,     \* of a person whose name is not given
  ShortWords, \* words of fewer than partial_name_threshold letters
  Cpfs,
  NoCpf,
  MaxListed   \* bound: rows of the CSV file

ASSUME SanctionsAssumption == MaxListed \in Nat /\ NoName \notin Names

VARIABLES
  listed,     \* Seq([name, cpf]): the rows as reload reads them
  subject     \* [name, cpf]

WordsOf(name) == {name[i] : i \in DOMAIN name}

(* Mutant of ByCpf: a CPF of two rows is no key.                           *)
ByCpfUnique(cpf) ==
  {i \in DOMAIN listed : cpf # NoCpf /\ \A j \in DOMAIN listed : listed[j].cpf = cpf <=> j = i}

(* _by_cpf: one row of each CPF, the last.                                 *)
ByCpf(cpf) ==
  {i \in DOMAIN listed :
     /\ cpf # NoCpf /\ listed[i].cpf = cpf
     /\ \A j \in DOMAIN listed : listed[j].cpf = cpf => j <= i}

ByName(name) == {i \in DOMAIN listed : name # NoName /\ listed[i].name = name}

Significant(name) == IF name = NoName THEN {} ELSE WordsOf(name) \ ShortWords

Partly(entry, words) == words # {} /\ words \subseteq WordsOf(entry)

(* check: the rows that are found; a name that is listed as it is, is not  *)
(* looked for in longer ones.                                              *)
Found(person) ==
  ByCpf(person.cpf) \cup
  IF ByName(person.name) # {} THEN ByName(person.name)
  ELSE {i \in DOMAIN listed : Partly(listed[i].name, Significant(person.name))}

CsvRows == [name : Names, cpf : Cpfs \cup {NoCpf}]

SanctionsInit ==
  /\ \E n \in 0..MaxListed : listed \in [1..n -> CsvRows]
  /\ subject \in [name : Names \cup {NoName}, cpf : Cpfs \cup {NoCpf}]

-----------------------------------------------------------------------------
(* A person whose CPF or whose name is that of a row is found, whatever    *)
(* the other says, and whatever else is listed under the same CPF.         *)
ListedIsFound ==
  \A i \in DOMAIN listed :
    \/ subject.cpf # NoCpf /\ subject.cpf = listed[i].cpf
    \/ subject.name = listed[i].name
    => Found(subject) # {}

(* A person who is found is found by less of the name, too, and by no      *)
(* more than its significant words: who leaves a name out or adds a "da"   *)
(* does not get past the lists.                                            *)
LessIsFound ==
  Found(subject) # {} =>
    \A name \in Names :
      /\ Significant(name) # {}
      /\ Significant(name) \subseteq Significant(subject.name)
      => Found([subject EXCEPT !.name = name]) # {}
=============================================================================
