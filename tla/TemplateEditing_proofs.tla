------------------------ MODULE TemplateEditing_proofs ------------------------
(***************************************************************************)
(* What TLAPS proves of TemplateEditing, for any number of requests, seed  *)
(* runs, fields and mappings.                                              *)
(***************************************************************************)
EXTENDS TemplateEditing, TLAPS

FieldOps   == {"update_field", "delete_field"}
MappingOps == {"update_mapping", "delete_mapping"}
UpdateOps  == {"update", "update_field", "update_mapping"}

\* What a request asks for fits its operation.
AskFits(r) ==
  /\ req[r] \in Request
  /\ req[r].op \in FieldOps => req[r].id \in FieldIds
  /\ req[r].op \in MappingOps => req[r].id \in MappingIds
  /\ req[r].op = "create_field" => req[r].type \in RowTypes
  /\ req[r].op = "create_mapping" => req[r].ref \in FieldIds

\* Where an operation can be.
PlaceFits(r) ==
  /\ pc[r] = "row" => req[r].op \in FieldOps \union MappingOps
  /\ pc[r] = "own" => req[r].op \in StatusOps \union EditOps
  /\ pc[r] = "status" => req[r].op \in StatusOps \union {"seed"}
  /\ pc[r] = "ref" => req[r].op \in {"create_field", "create_mapping", "update_mapping"}
                      /\ req[r].ref \in FieldIds
  /\ pc[r] = "children" => req[r].op \in FieldOps
  /\ pc[r] = "mapped" => req[r].op = "delete_field"
  /\ pc[r] = "fetch" => req[r].op \in UpdateOps
  /\ pc[r] \in SeedPCs => req[r].op = "seed"

\* The copy of a field was there when it was fetched, and its parent is
\* older; a seed run has the field it created.
CopyFits(r) ==
  /\ copy[r] \in Copy /\ seen[r] \in RowTypes \union {"none"} /\ pc[r] \in PCs
  /\ pc[r] = "save" /\ req[r].op = "update_field" =>
       /\ copy[r].type \in RowTypes
       /\ copy[r].parent = None \/ copy[r].parent < req[r].id
       /\ req[r].id < nextField
  /\ pc[r] \in {"wipe_again", "load_maps"} => copy[r].field \in FieldIds

Control(r) == AskFits(r) /\ PlaceFits(r) /\ CopyFits(r)

FieldsAreOld == \A f \in FieldIds : Exists(f) => f < nextField

\* The tree invariant with what makes it inductive.
TemplateInv ==
  /\ TypeOK /\ FieldsAreOld /\ FieldsFormAForest
  /\ \A r \in Requests : Control(r)

LEMMA Ids ==
  /\ None \notin FieldIds /\ None \notin MappingIds /\ FieldIds \subseteq Nat
  /\ MappingIds \subseteq Nat /\ None \in Nat
  /\ MaxFields \in Nat \ {0} /\ MaxMappings \in Nat \ {0}
BY ConstantsAssumption DEF None, FieldIds, MappingIds

LEMMA FieldTypes ==
  ASSUME TypeOK, NEW f \in FieldIds
  PROVE  /\ fields[f].type \in RowTypes \union {"none"}
         /\ fields[f].parent \in FieldIds \union {None}
         /\ Exists(f) <=> fields[f].type \in RowTypes
BY DEF TypeOK, FieldRow, NoField, Exists, RowTypes
-----------------------------------------------------------------------------
(* Control: what each request is doing *)

\* The requests that may begin.
LEMMA BeginControl ==
  ASSUME TypeOK, NEW r \in Requests, CopyFits(r),
         LifecycleRequest(r) \/ TemplateRequest(r) \/ FieldRequest(r) \/ MappingRequest(r)
         \/ SeedCommand(r)
  PROVE  /\ Control(r)'
         /\ pc' = [pc EXCEPT ![r] = pc'[r]] /\ req' = [req EXCEPT ![r] = req'[r]]
         /\ UNCHANGED <<seen, copy, nextField>>
<1> DEFINE Fits(q) == /\ q \in Request
                      /\ q.op \in StatusOps \union EditOps \union {"seed"}
                      /\ q.op \in FieldOps => q.id \in FieldIds
                      /\ q.op \in MappingOps => q.id \in MappingIds
                      /\ q.op = "create_field" => q.type \in RowTypes
                      /\ q.op = "create_mapping" => q.ref \in FieldIds
<1>1. PICK q \in Request : Begin(r, q) /\ Fits(q)
  <2> USE DEF StatusOps, EditOps, FieldOps, MappingOps
  <2>1. \A op, id, ref, type :
          Ask(op, id, ref, type)
            = [op |-> op, id |-> id, ref |-> ref, type |-> type, meta |-> "a"]
    BY DEF Ask
  <2>2. ASSUME NEW op \in StatusOps \union EditOps \union {"seed"}, NEW id \in Nat,
               NEW ref \in FieldIds \union {None}, NEW type \in RowTypes \union {"none"}
        PROVE  Ask(op, id, ref, type) \in Request
    BY <2>1 DEF Request, Metas
  <2>3. CASE LifecycleRequest(r)
    <3>1. PICK op \in StatusOps : Begin(r, Ask(op, None, None, "none"))
      BY <2>3 DEF LifecycleRequest
    <3>2. Fits(Ask(op, None, None, "none"))
      BY <2>1, <2>2, Ids
    <3>3. QED  BY <3>1, <3>2
  <2>4. CASE TemplateRequest(r)
    <3>1. PICK m \in Metas : Begin(r, [Ask("update", None, None, "none") EXCEPT !.meta = m])
      BY <2>4 DEF TemplateRequest
    <3>2. [Ask("update", None, None, "none") EXCEPT !.meta = m]
            = [op |-> "update", id |-> None, ref |-> None, type |-> "none", meta |-> m]
      BY <2>1
    <3>3. Fits([Ask("update", None, None, "none") EXCEPT !.meta = m])
      BY <3>2, Ids DEF Request
    <3>4. QED  BY <3>1, <3>3
  <2>5. CASE \E p \in FieldIds \union {None}, t \in RowTypes :
               Begin(r, Ask("create_field", None, p, t))
    <3>1. PICK p \in FieldIds \union {None}, t \in RowTypes :
            Begin(r, Ask("create_field", None, p, t))
      BY <2>5
    <3>2. Fits(Ask("create_field", None, p, t))
      BY <2>1, <2>2, Ids
    <3>3. QED  BY <3>1, <3>2
  <2>6. CASE \E f \in FieldIds, t \in RowTypes \union {"none"} :
               Begin(r, Ask("update_field", f, None, t))
    <3>1. PICK f \in FieldIds, t \in RowTypes \union {"none"} :
            Begin(r, Ask("update_field", f, None, t))
      BY <2>6
    <3>2. Fits(Ask("update_field", f, None, t))
      BY <2>1, <2>2, Ids
    <3>3. QED  BY <3>1, <3>2
  <2>7. CASE \E f \in FieldIds : Begin(r, Ask("delete_field", f, None, "none"))
    <3>1. PICK f \in FieldIds : Begin(r, Ask("delete_field", f, None, "none"))
      BY <2>7
    <3>2. Fits(Ask("delete_field", f, None, "none"))
      BY <2>1, <2>2, Ids
    <3>3. QED  BY <3>1, <3>2
  <2>8. CASE \E f \in FieldIds : Begin(r, Ask("create_mapping", None, f, "none"))
    <3>1. PICK f \in FieldIds : Begin(r, Ask("create_mapping", None, f, "none"))
      BY <2>8
    <3>2. Fits(Ask("create_mapping", None, f, "none"))
      BY <2>1, <2>2, Ids
    <3>3. QED  BY <3>1, <3>2
  <2>9. CASE \E m \in MappingIds, f \in FieldIds \union {None} :
               Begin(r, Ask("update_mapping", m, f, "none"))
    <3>1. PICK m \in MappingIds, f \in FieldIds \union {None} :
            Begin(r, Ask("update_mapping", m, f, "none"))
      BY <2>9
    <3>2. Fits(Ask("update_mapping", m, f, "none"))
      BY <2>1, <2>2, Ids
    <3>3. QED  BY <3>1, <3>2
  <2>10. CASE \E m \in MappingIds : Begin(r, Ask("delete_mapping", m, None, "none"))
    <3>1. PICK m \in MappingIds : Begin(r, Ask("delete_mapping", m, None, "none"))
      BY <2>10
    <3>2. Fits(Ask("delete_mapping", m, None, "none"))
      BY <2>1, <2>2, Ids
    <3>3. QED  BY <3>1, <3>2
  <2>11. CASE SeedCommand(r)
    <3>1. Fits(Ask("seed", None, None, "none"))
      BY <2>1, <2>2, Ids
    <3>2. QED  BY <2>11, <3>1 DEF SeedCommand
  <2>12. QED
    BY <2>3, <2>4, <2>5, <2>6, <2>7, <2>8, <2>9, <2>10, <2>11 DEF FieldRequest, MappingRequest
<1>2. /\ pc' = [pc EXCEPT ![r] = EntryPC(q.op)] /\ req' = [req EXCEPT ![r] = q]
      /\ UNCHANGED <<seen, copy, nextField>>
  BY <1>1 DEF Begin, rows
<1>3. pc'[r] = EntryPC(q.op) /\ req'[r] = q
  BY <1>2 DEF TypeOK
<1>4. AskFits(r)'
  BY <1>1, <1>3 DEF AskFits
<1>5. PlaceFits(r)' /\ pc'[r] \in PCs /\ pc'[r] \notin {"save", "wipe_again", "load_maps"}
  BY <1>1, <1>3 DEF PlaceFits, EntryPC, FieldOps, MappingOps, StatusOps, EditOps, SeedPCs, PCs
<1>6. CopyFits(r)'
  BY <1>2, <1>5 DEF CopyFits
<1>7. QED  BY <1>2, <1>3, <1>4, <1>5, <1>6 DEF Control

\* A request that has ended asks for nothing.
LEMMA EndedControl ==
  ASSUME TypeOK, NEW r \in Requests, Ended(r)
  PROVE  Control(r)'
<1>1. pc'[r] = "idle" /\ req'[r] = NoRequest /\ seen'[r] = "none" /\ copy'[r] = NoCopy
  BY DEF Ended, TypeOK
<1>2. NoRequest \in Request /\ NoCopy \in Copy
  BY Ids DEF NoRequest, Ask, Request, NoCopy, Copy, Statuses, Metas, RowTypes
<1>3. AskFits(r)' /\ PlaceFits(r)'
  BY <1>1, <1>2 DEF AskFits, PlaceFits, NoRequest, Ask, FieldOps, MappingOps, SeedPCs
<1>4. CopyFits(r)'
  BY <1>1, <1>2 DEF CopyFits, PCs
<1>5. QED  BY <1>3, <1>4 DEF Control

LEMMA CheckControl ==
  ASSUME TypeOK, FieldsAreOld, FieldsFormAForest, NEW r \in Requests, Control(r), Check(r)
  PROVE  /\ Control(r)' /\ UNCHANGED <<tmpl, rows>>
<1> USE DEF Control, AskFits, PlaceFits, CopyFits, TypeOK
<1>1. CASE Refuse(r)
  BY <1>1, EndedControl DEF Refuse, End
<1>2. ASSUME NEW p \in PCs, Proceed(r, p), PlaceFits(r)',
             p \notin {"save", "wipe_again", "load_maps"}
      PROVE  Control(r)' /\ UNCHANGED <<tmpl, rows>>
  BY <1>2 DEF Proceed, Goto, rows
<1>3. CASE LookUpRow(r) /\ ~Refuse(r)
  <2>1. Exists(req[r].id) /\ req[r].op \in FieldOps => fields[req[r].id].type \in RowTypes
    BY FieldTypes
  <2>2. QED
    BY <1>2, <1>3, <2>1 DEF LookUpRow, Proceed, Goto, rows, FieldOps, MappingOps, StatusOps, EditOps, PCs, SeedPCs
<1>4. CASE CheckTransition(r) /\ ~Refuse(r)
  BY <1>2, <1>4 DEF CheckTransition, Proceed, Goto, PCs, SeedPCs
<1>5. CASE CheckEditable(r) /\ ~Refuse(r)
  <2>1. Proceed(r, FirstEditStep(r)) /\ req[r].op \in EditOps
    BY <1>5 DEF CheckEditable
  <2>2. /\ FirstEditStep(r) \in PCs
        /\ FirstEditStep(r) \notin {"save", "wipe_again", "load_maps"} 
    BY <2>1 DEF FirstEditStep, PCs, EditPCs, SeedPCs, EditOps
  <2>3. pc'[r] = FirstEditStep(r) /\ req' = req
    BY <2>1 DEF Proceed, Goto
  <2>4. req[r].ref \in FieldIds \union {None}
    BY DEF Request
  <2>5. PlaceFits(r)'
    BY <2>1, <2>3, <2>4, Ids DEF FirstEditStep, FieldOps, MappingOps, UpdateOps, EditOps, SeedPCs
  <2>6. QED  BY <1>2, <2>1, <2>2, <2>5
<1>6. CASE CheckReference(r) /\ ~Refuse(r)
  BY <1>2, <1>6 DEF CheckReference, Proceed, Goto, PCs, EditPCs, SeedPCs, UpdateOps
<1>7. CASE CheckChildren(r) /\ ~Refuse(r)
  BY <1>2, <1>7 DEF CheckChildren, Proceed, Goto, PCs, EditPCs, SeedPCs, UpdateOps, FieldOps
<1>8. CASE CheckMappings(r) /\ ~Refuse(r)
  BY <1>2, <1>8 DEF CheckMappings, Proceed, Goto, PCs, EditPCs, SeedPCs
<1>9. CASE Fetch(r) /\ ~Refuse(r)
  <2>0. pc[r] = "fetch" /\ req[r].op \in UpdateOps
    BY <1>9 DEF Fetch
  <2>1. PICK c \in Copy : /\ Keep(r, c)
                          /\ req[r].op = "update_field" =>
                               /\ c.type \in RowTypes
                               /\ c.parent = None \/ c.parent < req[r].id
                               /\ req[r].id < nextField
    <3>1. CASE req[r].op = "update"
      BY <1>9, <3>1, Ids DEF Fetch, Copy, NoCopy, TemplateRow, RowTypes
    <3>2. CASE req[r].op = "update_field"
      <4>1. req[r].id \in FieldIds /\ Exists(req[r].id)
        BY <1>9, <3>2 DEF Fetch, FieldOps
      <4>2. fields[req[r].id].type \in RowTypes /\ fields[req[r].id].parent \in FieldIds \union {None}
        BY <4>1, FieldTypes
      <4>3. [NoCopy EXCEPT !.parent = fields[req[r].id].parent,
                           !.type = fields[req[r].id].type] \in Copy
        BY <4>2, Ids DEF Copy, NoCopy, Statuses, Metas
      <4>4. fields[req[r].id].parent = None \/ fields[req[r].id].parent < req[r].id
        BY <4>1 DEF FieldsFormAForest
      <4>5. req[r].id < nextField
        BY <4>1 DEF FieldsAreOld
      <4>6. QED
        BY <1>9, <3>2, <4>1, <4>2, <4>3, <4>4, <4>5 DEF Fetch, NoCopy
    <3>3. CASE req[r].op = "update_mapping"
      <4>1. req[r].id \in MappingIds
        BY <3>3 DEF MappingOps
      <4>2. QED
        BY <1>9, <3>3, <4>1, Ids DEF Fetch, Copy, NoCopy, Statuses, Metas
    <3>4. QED  BY <2>0, <3>1, <3>2, <3>3 DEF UpdateOps
  <2>2. /\ pc'[r] = "save" /\ copy'[r] = c /\ UNCHANGED <<req, seen, tmpl, rows>>
    BY <2>1 DEF Keep, Goto
  <2>3. QED  BY <2>0, <2>1, <2>2 DEF rows, PCs, EditPCs, SeedPCs
<1>10. RefuseSheet(r) \/ NameTaken(r) => Refuse(r)
  BY DEF RefuseSheet, NameTaken
<1>11. QED
  BY <1>1, <1>3, <1>4, <1>5, <1>6, <1>7, <1>8, <1>9, <1>10 DEF Check

LEMMA WriteControl ==
  ASSUME TypeOK, NEW r \in Requests, Control(r), Write(r)
  PROVE  Control(r)'
<1>1. CASE Ended(r)
  BY <1>1, EndedControl
<1>2. CASE ~Ended(r)
  <2>1. SetStatus(r) /\ req[r].op = "seed"
    BY <1>2 DEF Write, SetStatus, SaveTemplate, SaveField, SaveMapping, InsertField,
                InsertMapping, DeleteField, DeleteMapping, End
  <2>2. pc' = [pc EXCEPT ![r] = "wipe_maps"] /\ UNCHANGED <<req, seen, copy, rows>>
    BY <2>1 DEF SetStatus
  <2>3. QED
    BY <2>1, <2>2
       DEF Control, AskFits, PlaceFits, CopyFits, TypeOK, PCs, SeedPCs, FieldOps, MappingOps
<1>3. QED  BY <1>1, <1>2

LEMMA SeedControl ==
  ASSUME TypeOK, NEW r \in Requests, Control(r), Seed(r)
  PROVE  Control(r)'
<1> USE DEF Control, AskFits, PlaceFits, CopyFits, TypeOK, PCs, SeedPCs, Goto
<1>1. CASE Ended(r)
  BY <1>1, EndedControl
<1>2. CASE WipeMappings(r)
  BY <1>2 DEF WipeMappings
<1>3. CASE WipeFields(r) /\ ~Ended(r)
  BY <1>3 DEF WipeFields, Refuse, End
<1>4. CASE LoadFields(r) /\ ~Ended(r)
  <2>1. /\ pc[r] = "load_fields" /\ nextField \in FieldIds
        /\ copy' = [copy EXCEPT ![r].field = nextField]
        /\ pc' = [pc EXCEPT ![r] = "wipe_again"] /\ UNCHANGED <<req, seen>>
    BY <1>4 DEF LoadFields, Refuse, End
  <2>2. copy'[r] \in Copy /\ copy'[r].field = nextField
    BY <2>1 DEF Copy
  <2>3. QED  BY <2>1, <2>2
<1>5. LoadMappings(r) => Ended(r)
  BY DEF LoadMappings, End
<1>6. QED  BY <1>1, <1>2, <1>3, <1>4, <1>5 DEF Seed

\* A step of a request leaves the others where they are.
LEMMA OthersStay ==
  ASSUME TypeOK, NEW r \in Requests, Control(r), NEW q \in Requests \ {r},
         \/ LifecycleRequest(r) \/ TemplateRequest(r) \/ FieldRequest(r) \/ MappingRequest(r)
         \/ SeedCommand(r) \/ Check(r) \/ Write(r) \/ Seed(r)
  PROVE  /\ pc'[q] = pc[q] /\ req'[q] = req[q] /\ seen'[q] = seen[q] /\ copy'[q] = copy[q]
         /\ nextField' \in {nextField, nextField + 1}
<1> USE DEF TypeOK, Goto, Ended, End, Refuse, Proceed, rows
<1>1. CASE LifecycleRequest(r) \/ TemplateRequest(r) \/ FieldRequest(r) \/ MappingRequest(r)
           \/ SeedCommand(r)
  BY <1>1 DEF LifecycleRequest, TemplateRequest, FieldRequest, MappingRequest, SeedCommand, Begin
<1>2. CASE LookUpRow(r) \/ CheckTransition(r) \/ CheckEditable(r) \/ CheckReference(r)
           \/ RefuseSheet(r)
  BY <1>2 DEF LookUpRow, CheckTransition, CheckEditable, CheckReference, RefuseSheet
<1>3. CASE CheckChildren(r) \/ CheckMappings(r) \/ NameTaken(r)
  BY <1>3 DEF CheckChildren, CheckMappings, NameTaken
<1>4. CASE Fetch(r)
  BY <1>4 DEF Fetch, Keep, Control, PlaceFits, UpdateOps
<1>5. CASE SetStatus(r) \/ SaveTemplate(r) \/ SaveField(r) \/ SaveMapping(r)
  BY <1>5 DEF SetStatus, SaveTemplate, SaveField, SaveMapping
<1>6. CASE InsertField(r) \/ InsertMapping(r) \/ DeleteField(r) \/ DeleteMapping(r)
  BY <1>6 DEF InsertField, InsertMapping, DeleteField, DeleteMapping
<1>7. CASE WipeMappings(r) \/ WipeFields(r) \/ LoadFields(r) \/ LoadMappings(r)
  BY <1>7 DEF WipeMappings, WipeFields, LoadFields, LoadMappings
<1>8. QED  BY <1>1, <1>2, <1>3, <1>4, <1>5, <1>6, <1>7 DEF Check, Write, Seed
-----------------------------------------------------------------------------
(* Rows: the fields stay a forest *)

RowsInv ==
  /\ tmpl \in TemplateRow
  /\ fields \in [FieldIds -> FieldRow \union {NoField}]
  /\ mappings \in [MappingIds -> FieldIds \union {None}]
  /\ nextField \in 1 .. MaxFields + 1 /\ nextMapping \in 1 .. MaxMappings + 1
  /\ FieldsAreOld /\ FieldsFormAForest

\* A row written for a field whose parent is there, and older.
LEMMA PutField ==
  ASSUME RowsInv, NEW f \in FieldIds, NEW p \in FieldIds \union {None}, NEW t \in RowTypes,
         Resolves(p), p = None \/ p < f, f < nextField',
         nextField' \in {nextField, nextField + 1}, nextField' \in 1 .. MaxFields + 1,
         fields' = [fields EXCEPT ![f] = [parent |-> p, type |-> t]],
         UNCHANGED <<tmpl, mappings, nextMapping>>
  PROVE  RowsInv'
<1> USE Ids DEF RowsInv, Exists, Resolves
<1>1. [parent |-> p, type |-> t] \in FieldRow /\ t # "none"
  BY DEF FieldRow, RowTypes
<1>2. fields'[f].parent = p /\ fields'[f].type = t
      /\ \A g \in FieldIds \ {f} : fields'[g] = fields[g]
  OBVIOUS
<1>3. FieldsAreOld'
  BY <1>2 DEF FieldsAreOld
<1>4. \A g \in FieldIds : Exists(g) => Exists(g)'
  BY <1>1, <1>2
<1>5. FieldsFormAForest'
  BY <1>1, <1>2, <1>4 DEF FieldsFormAForest
<1>6. QED  BY <1>1, <1>3, <1>5

\* A mapping set to a field that is there, or to none.
LEMMA PutMapping ==
  ASSUME RowsInv, NEW m \in MappingIds, NEW f \in FieldIds \union {None}, Resolves(f),
         mappings' = [mappings EXCEPT ![m] = f], nextMapping' \in 1 .. MaxMappings + 1,
         UNCHANGED <<tmpl, fields, nextField>>
  PROVE  RowsInv'
BY DEF RowsInv, FieldsAreOld, FieldsFormAForest, Exists, Resolves

\* What hangs below a field that is deleted goes with it.
LEMMA SubtreeClosed ==
  ASSUME NEW f, NEW g \in FieldIds, Exists(g), fields[g].parent \in Subtree(f)
  PROVE  g \in Subtree(f)
BY DEF Subtree

LEMMA WriteRows ==
  ASSUME RowsInv, NEW r \in Requests, Control(r), Write(r)
  PROVE  RowsInv'
<1> USE DEF Control, AskFits, CopyFits
<1>1. CASE SetStatus(r)
  <2>1. req[r].op \in StatusOps \union {"seed"}
    BY <1>1 DEF SetStatus, PlaceFits
  <2>2. Target(req[r].op) \in Statuses
    BY <2>1 DEF Target, StatusOps, Statuses
  <2>3. tmpl' \in TemplateRow
    BY <1>1, <2>2 DEF SetStatus, WriteTemplate, RowsInv, TemplateRow
  <2>4. QED
    BY <1>1, <2>3 DEF SetStatus, RowsInv, rows, FieldsAreOld, FieldsFormAForest, Exists, Resolves
<1>2. CASE SaveTemplate(r)
  <2>1. tmpl' \in TemplateRow
    BY <1>2 DEF SaveTemplate, TemplateRow, Copy, Request
  <2>2. QED
    BY <1>2, <2>1 DEF SaveTemplate, RowsInv, rows, FieldsAreOld, FieldsFormAForest, Exists, Resolves
<1>3. CASE SaveField(r)
  <2> DEFINE id   == req[r].id
             type == IF req[r].type = "none" THEN copy[r].type ELSE req[r].type
  <2>1. id \in FieldIds /\ type \in RowTypes /\ id < nextField
        /\ copy[r].parent \in FieldIds \union {None}
        /\ (copy[r].parent = None \/ copy[r].parent < id)
    BY <1>3 DEF SaveField, FieldOps, Request, Copy
  <2>2. CASE Resolves(copy[r].parent)
    <3>1. fields' = [fields EXCEPT ![id] = [parent |-> copy[r].parent, type |-> type]]
      BY <1>3, <2>2 DEF SaveField
    <3>2. UNCHANGED <<tmpl, mappings, nextMapping, nextField>>
      BY <1>3 DEF SaveField
    <3> HIDE DEF id, type
    <3>3. QED  BY <2>1, <2>2, <3>1, <3>2, PutField DEF RowsInv
  <2>3. CASE ~Resolves(copy[r].parent)
    BY <1>3, <2>3 DEF SaveField, RowsInv, FieldsAreOld, FieldsFormAForest, Exists, Resolves
  <2>4. QED  BY <2>2, <2>3
<1>4. CASE SaveMapping(r)
  <2>1. req[r].id \in MappingIds /\ SavedField(r) \in FieldIds \union {None}
    BY <1>4 DEF SaveMapping, MappingOps, SavedField, Request, Copy
  <2>2. CASE Resolves(SavedField(r))
    BY <1>4, <2>1, <2>2, PutMapping DEF SaveMapping, RowsInv
  <2>3. CASE ~Resolves(SavedField(r))
    BY <1>4, <2>3 DEF SaveMapping, RowsInv, FieldsAreOld, FieldsFormAForest, Exists, Resolves
  <2>4. QED  BY <2>2, <2>3
<1>5. CASE InsertField(r)
  <2>1. CASE Resolves(req[r].ref) /\ nextField \in FieldIds
    <3>1. req[r].ref \in FieldIds \union {None} /\ req[r].type \in RowTypes
      BY <1>5 DEF InsertField, Request
    <3>2. req[r].ref = None \/ req[r].ref < nextField
      BY <2>1, <3>1 DEF Resolves, RowsInv, FieldsAreOld
    <3>3. /\ fields' = [fields EXCEPT ![nextField] =
                          [parent |-> req[r].ref, type |-> req[r].type]]
          /\ nextField' = nextField + 1 /\ UNCHANGED <<tmpl, mappings, nextMapping>>
      BY <1>5, <2>1 DEF InsertField
    <3>4. nextField' \in 1 .. MaxFields + 1 /\ nextField < nextField'
      BY <2>1, <3>3, Ids DEF FieldIds
    <3>5. QED  BY <2>1, <3>1, <3>2, <3>3, <3>4, PutField
  <2>2. CASE ~(Resolves(req[r].ref) /\ nextField \in FieldIds)
    BY <1>5, <2>2 DEF InsertField, RowsInv, FieldsAreOld, FieldsFormAForest, Exists, Resolves
  <2>3. QED  BY <2>1, <2>2
<1>6. CASE InsertMapping(r)
  <2>1. CASE Exists(req[r].ref) /\ nextMapping \in MappingIds
    <3>1. req[r].ref \in FieldIds
      BY <1>6 DEF InsertMapping
    <3>2. /\ mappings' = [mappings EXCEPT ![nextMapping] = req[r].ref]
          /\ nextMapping' = nextMapping + 1 /\ UNCHANGED <<tmpl, fields, nextField>>
      BY <1>6, <2>1 DEF InsertMapping
    <3>3. nextMapping' \in 1 .. MaxMappings + 1 /\ Resolves(req[r].ref)
      BY <2>1, <3>2, Ids DEF MappingIds, Resolves
    <3>4. QED  BY <2>1, <3>1, <3>2, <3>3, PutMapping
  <2>2. CASE ~(Exists(req[r].ref) /\ nextMapping \in MappingIds)
    BY <1>6, <2>2 DEF InsertMapping, RowsInv, FieldsAreOld, FieldsFormAForest, Exists, Resolves
  <2>3. QED  BY <2>1, <2>2
<1>7. CASE DeleteField(r)
  <2> DEFINE gone == Subtree(req[r].id)
  <2>1. CASE HasMappings(req[r].id)
    BY <1>7, <2>1 DEF DeleteField, RowsInv, FieldsAreOld, FieldsFormAForest, Exists, Resolves
  <2>2. CASE ~HasMappings(req[r].id)
    <3>1. /\ fields' = [f \in FieldIds |-> IF f \in gone THEN NoField ELSE fields[f]]
          /\ UNCHANGED <<tmpl, mappings, nextField, nextMapping>>
      BY <1>7, <2>2 DEF DeleteField
    <3>2. \A m \in MappingIds : mappings[m] \notin gone
      BY <2>2 DEF HasMappings
    <3>3. \A f \in FieldIds : Exists(f)' <=> Exists(f) /\ f \notin gone
      BY <3>1 DEF Exists, NoField
    <3>4. \A f \in FieldIds : Exists(f) /\ fields[f].parent \in gone => f \in gone
      BY SubtreeClosed
    <3> HIDE DEF gone
    <3>5. FieldsAreOld'
      BY <3>1, <3>3 DEF FieldsAreOld, RowsInv
    <3>6. ASSUME NEW f \in FieldIds, Exists(f)', fields'[f].parent # None
          PROVE  fields'[f].parent < f /\ fields'[fields'[f].parent].type # "none"
      <4>1. fields'[f] = fields[f] /\ Exists(f) /\ f \notin gone
        BY <3>1, <3>3, <3>6
      <4>2. fields[f].parent \in FieldIds
        BY <3>6, <4>1 DEF RowsInv, FieldRow, NoField
      <4>3. fields[f].parent \notin gone
        BY <3>4, <4>1
      <4>4. fields[f].parent < f /\ Exists(fields[f].parent)
        BY <3>6, <4>1 DEF RowsInv, FieldsFormAForest
      <4>5. fields'[fields[f].parent] = fields[fields[f].parent]
        BY <3>1, <4>2, <4>3
      <4>6. fields'[fields'[f].parent].type # "none"
        BY <4>1, <4>4, <4>5 DEF Exists
      <4>7. fields'[f].parent < f
        BY <4>1, <4>4
      <4>8. QED  BY <4>6, <4>7
    <3>7. \A m \in MappingIds : Resolves(mappings[m])'
      BY <3>1, <3>2, <3>3 DEF RowsInv, FieldsFormAForest, Resolves, Exists
    <3>8. FieldsFormAForest'
      BY <3>6, <3>7 DEF FieldsFormAForest, Exists
    <3>9. QED  BY <3>1, <3>5, <3>8 DEF RowsInv
  <2>3. QED  BY <2>1, <2>2
<1>8. CASE DeleteMapping(r)
  <2>1. req[r].id \in MappingIds
    BY <1>8 DEF DeleteMapping, MappingOps
  <2>2. QED  BY <1>8, <2>1, PutMapping DEF DeleteMapping, RowsInv, Resolves
<1>9. QED
  BY <1>1, <1>2, <1>3, <1>4, <1>5, <1>6, <1>7, <1>8 DEF Write

LEMMA SeedRows ==
  ASSUME RowsInv, NEW r \in Requests, Control(r), Seed(r)
  PROVE  RowsInv'
<1> USE DEF FieldsAreOld, FieldsFormAForest, Exists, Resolves
<1>1. CASE UNCHANGED <<tmpl, rows>>
  BY <1>1 DEF RowsInv, rows
<1>2. CASE WipeMappings(r)
  BY <1>2 DEF WipeMappings, RowsInv
<1>3. CASE WipeFields(r) /\ ~UNCHANGED <<tmpl, rows>>
  <2>1. /\ fields' = [f \in FieldIds |-> NoField] /\ \A m \in MappingIds : mappings[m] = None
        /\ UNCHANGED <<tmpl, mappings, nextField, nextMapping>>
    BY <1>3 DEF WipeFields, Refuse, IsMapping
  <2>2. QED  BY <2>1 DEF RowsInv, NoField
<1>4. CASE LoadFields(r) /\ ~UNCHANGED <<tmpl, rows>>
  <2>1. /\ nextField \in FieldIds
        /\ fields' = [fields EXCEPT ![nextField] = [parent |-> None, type |-> "leaf"]]
        /\ nextField' = nextField + 1 /\ UNCHANGED <<tmpl, mappings, nextMapping>>
    BY <1>4 DEF LoadFields, Refuse
  <2>2. nextField' \in 1 .. MaxFields + 1 /\ nextField < nextField' /\ Resolves(None)
    BY <2>1, Ids DEF FieldIds
  <2>3. QED  BY <2>1, <2>2, PutField DEF RowTypes
<1>5. CASE LoadMappings(r) /\ ~UNCHANGED <<tmpl, rows>>
  <2>1. copy[r].field \in FieldIds
    BY <1>5 DEF LoadMappings, Control, CopyFits
  <2>2. CASE Exists(copy[r].field) /\ nextMapping \in MappingIds
    <3>1. /\ mappings' = [mappings EXCEPT ![nextMapping] = copy[r].field]
          /\ nextMapping' = nextMapping + 1 /\ UNCHANGED <<tmpl, fields, nextField>>
      BY <1>5, <2>2 DEF LoadMappings
    <3>2. nextMapping' \in 1 .. MaxMappings + 1
      BY <2>2, <3>1, Ids DEF MappingIds
    <3>3. QED  BY <2>1, <2>2, <3>1, <3>2, PutMapping
  <2>3. CASE ~(Exists(copy[r].field) /\ nextMapping \in MappingIds)
    BY <1>5, <2>3 DEF LoadMappings, rows
  <2>4. QED  BY <2>2, <2>3
<1>6. QED  BY <1>1, <1>2, <1>3, <1>4, <1>5 DEF Seed
-----------------------------------------------------------------------------
(* The two invariants *)

LEMMA InitTemplateInv == Init => TemplateInv
<1> SUFFICES ASSUME Init  PROVE TemplateInv
  OBVIOUS
<1> USE Ids DEF Init
<1>1. \A f \in FieldIds : fields[f] = NoField /\ ~Exists(f)
  BY DEF Exists, NoField
<1>2. /\ NoField.parent = None /\ NoRequest \in Request /\ NoCopy \in Copy
      /\ NoRequest.op = "none"
  BY DEF NoField, NoRequest, Ask, Request, NoCopy, Copy, Statuses, Metas, RowTypes
<1>3. TypeOK
  BY <1>2 DEF TypeOK, TemplateRow, Statuses, Metas, PCs
<1>4. FieldsAreOld /\ FieldsFormAForest
  BY <1>1 DEF FieldsAreOld, FieldsFormAForest, Resolves
<1>5. \A r \in Requests : Control(r)
  BY <1>2 DEF Control, AskFits, PlaceFits, CopyFits, PCs, SeedPCs, FieldOps, MappingOps
<1>6. QED  BY <1>3, <1>4, <1>5 DEF TemplateInv

LEMMA OvertakenTyped ==
  ASSUME overtaken \subseteq Requests, NEW r \in Requests, Control(r),
         \/ LifecycleRequest(r) \/ TemplateRequest(r) \/ FieldRequest(r) \/ MappingRequest(r)
         \/ SeedCommand(r) \/ Check(r) \/ Write(r) \/ Seed(r)
  PROVE  overtaken' \subseteq Requests
<1> USE DEF Goto, End, Refuse, Proceed
<1>1. CASE LifecycleRequest(r) \/ TemplateRequest(r) \/ FieldRequest(r) \/ MappingRequest(r)
           \/ SeedCommand(r)
  BY <1>1 DEF LifecycleRequest, TemplateRequest, FieldRequest, MappingRequest, SeedCommand, Begin
<1>2. CASE LookUpRow(r) \/ CheckTransition(r) \/ CheckEditable(r) \/ CheckReference(r)
           \/ RefuseSheet(r)
  BY <1>2 DEF LookUpRow, CheckTransition, CheckEditable, CheckReference, RefuseSheet
<1>3. CASE CheckChildren(r) \/ CheckMappings(r) \/ NameTaken(r)
  BY <1>3 DEF CheckChildren, CheckMappings, NameTaken
<1>4. CASE Fetch(r)
  BY <1>4 DEF Fetch, Keep, Control, PlaceFits, UpdateOps
<1>5. CASE SetStatus(r) \/ SaveTemplate(r)
  BY <1>5 DEF SetStatus, WriteTemplate, SaveTemplate
<1>6. CASE SaveField(r) \/ SaveMapping(r)
  BY <1>6 DEF SaveField, SaveMapping
<1>7. CASE InsertField(r) \/ InsertMapping(r) \/ DeleteField(r) \/ DeleteMapping(r)
  BY <1>7 DEF InsertField, InsertMapping, DeleteField, DeleteMapping
<1>8. CASE WipeMappings(r) \/ WipeFields(r) \/ LoadFields(r) \/ LoadMappings(r)
  BY <1>8 DEF WipeMappings, WipeFields, LoadFields, LoadMappings
<1>9. QED  BY <1>1, <1>2, <1>3, <1>4, <1>5, <1>6, <1>7, <1>8 DEF Check, Write, Seed

\* The four variables of the requests, from the one that took a step.
LEMMA LocalsTyped ==
  ASSUME TypeOK, NEW r \in Requests, Control(r), Control(r)',
         \/ LifecycleRequest(r) \/ TemplateRequest(r) \/ FieldRequest(r) \/ MappingRequest(r)
         \/ SeedCommand(r) \/ Check(r) \/ Write(r) \/ Seed(r)
  PROVE  /\ pc' \in [Requests -> PCs] /\ req' \in [Requests -> Request]
         /\ seen' \in [Requests -> RowTypes \union {"none"}] /\ copy' \in [Requests -> Copy]
<1>1. /\ DOMAIN pc' = Requests /\ DOMAIN req' = Requests
      /\ DOMAIN seen' = Requests /\ DOMAIN copy' = Requests
      /\ pc' = [q \in Requests |-> pc'[q]] /\ req' = [q \in Requests |-> req'[q]]
      /\ seen' = [q \in Requests |-> seen'[q]] /\ copy' = [q \in Requests |-> copy'[q]]
  <2> USE DEF TypeOK, Goto, Ended, End, Refuse, Proceed
  <2>1. CASE LifecycleRequest(r) \/ TemplateRequest(r) \/ FieldRequest(r) \/ MappingRequest(r)
             \/ SeedCommand(r)
    BY <2>1 DEF LifecycleRequest, TemplateRequest, FieldRequest, MappingRequest, SeedCommand, Begin
  <2>2. CASE LookUpRow(r) \/ CheckTransition(r) \/ CheckEditable(r) \/ CheckReference(r)
             \/ RefuseSheet(r)
    BY <2>2 DEF LookUpRow, CheckTransition, CheckEditable, CheckReference, RefuseSheet
  <2>3. CASE CheckChildren(r) \/ CheckMappings(r) \/ NameTaken(r)
    BY <2>3 DEF CheckChildren, CheckMappings, NameTaken
  <2>4. CASE Fetch(r)
    BY <2>4 DEF Fetch, Keep, Control, PlaceFits, UpdateOps
  <2>5. CASE SetStatus(r) \/ SaveTemplate(r) \/ SaveField(r) \/ SaveMapping(r)
    BY <2>5 DEF SetStatus, SaveTemplate, SaveField, SaveMapping
  <2>6. CASE InsertField(r) \/ InsertMapping(r) \/ DeleteField(r) \/ DeleteMapping(r)
    BY <2>6 DEF InsertField, InsertMapping, DeleteField, DeleteMapping
  <2>7. CASE WipeMappings(r) \/ WipeFields(r) \/ LoadFields(r) \/ LoadMappings(r)
    BY <2>7 DEF WipeMappings, WipeFields, LoadFields, LoadMappings
  <2>8. QED  BY <2>1, <2>2, <2>3, <2>4, <2>5, <2>6, <2>7 DEF Check, Write, Seed
<1>2. \A q \in Requests : /\ pc'[q] \in PCs /\ req'[q] \in Request
                          /\ seen'[q] \in RowTypes \union {"none"} /\ copy'[q] \in Copy
  <2> TAKE q \in Requests
  <2>1. CASE q = r
    BY <2>1 DEF Control, AskFits, CopyFits
  <2>2. CASE q # r
    BY <2>2, OthersStay DEF TypeOK
  <2>3. QED  BY <2>1, <2>2
<1>3. QED  BY <1>1, <1>2

LEMMA NextTemplateInv == TemplateInv /\ [Next]_vars => TemplateInv'
<1> SUFFICES ASSUME TemplateInv, [Next]_vars  PROVE TemplateInv'
  OBVIOUS
<1>1. CASE UNCHANGED vars
  BY <1>1 DEF vars, rows, TemplateInv, TypeOK, FieldsAreOld, FieldsFormAForest, Control, AskFits,
              PlaceFits, CopyFits, Exists, Resolves
<1>2. ASSUME NEW r \in Requests,
             \/ LifecycleRequest(r) \/ TemplateRequest(r) \/ FieldRequest(r) \/ MappingRequest(r)
             \/ SeedCommand(r) \/ Check(r) \/ Write(r) \/ Seed(r)
      PROVE  TemplateInv'
  <2>1. TypeOK /\ RowsInv /\ Control(r) /\ FieldsAreOld /\ FieldsFormAForest
    BY DEF TemplateInv, TypeOK, RowsInv
  <2>2. Control(r)'
    BY <1>2, <2>1, BeginControl, CheckControl, WriteControl, SeedControl DEF Control
  <2>3. RowsInv'
    <3>1. CASE Check(r)
      <4>1. UNCHANGED <<tmpl, rows>>
        BY <2>1, <3>1, CheckControl
      <4>2. QED
        BY <2>1, <4>1 DEF RowsInv, rows, FieldsAreOld, FieldsFormAForest, Exists, Resolves
    <3>2. CASE LifecycleRequest(r) \/ TemplateRequest(r) \/ FieldRequest(r) \/ MappingRequest(r)
               \/ SeedCommand(r)
      <4>1. UNCHANGED <<tmpl, rows>>
        BY <3>2 DEF LifecycleRequest, TemplateRequest, FieldRequest, MappingRequest, SeedCommand,
                    Begin
      <4>2. QED
        BY <2>1, <4>1 DEF RowsInv, rows, FieldsAreOld, FieldsFormAForest, Exists, Resolves
    <3>3. QED  BY <1>2, <2>1, <3>1, <3>2, WriteRows, SeedRows
  <2>4. ASSUME NEW q \in Requests \ {r}  PROVE Control(q)'
    <3>1. /\ pc'[q] = pc[q] /\ req'[q] = req[q] /\ seen'[q] = seen[q] /\ copy'[q] = copy[q]
          /\ nextField' \in {nextField, nextField + 1} /\ nextField \in Nat
      BY <1>2, <2>1, OthersStay DEF TypeOK
    <3>2. Control(q)
      BY DEF TemplateInv
    <3>3. pc[q] = "save" /\ req[q].op = "update_field" => req[q].id \in Nat
      BY <3>2 DEF Control, AskFits, Request
    <3>4. QED  BY <3>1, <3>2, <3>3 DEF Control, AskFits, PlaceFits, CopyFits
  <2>5. TypeOK'
    BY <1>2, <2>1, <2>2, <2>3, OvertakenTyped, LocalsTyped DEF TypeOK, RowsInv
  <2>6. QED  BY <2>2, <2>3, <2>4, <2>5 DEF TemplateInv, RowsInv
<1>3. QED  BY <1>1, <1>2 DEF Next

\* A template, its rows and its requests have their types, a request is
\* where its operation can be, and the rows are a forest.
THEOREM TemplateInvariant == Spec => []TemplateInv
BY InitTemplateInv, NextTemplateInv, PTL DEF Spec

\* Every variable of a template's editing has its type.
THEOREM TypeCorrect == Spec => []TypeOK
<1>1. TemplateInv => TypeOK
  BY DEF TemplateInv
<1>2. QED  BY <1>1, TemplateInvariant, PTL

\* However creations, updates, deletions, seed runs and status changes of any
\* number of requests interleave between their checks and their writes, the
\* parents of source fields stay acyclic and no mapping dangles.
THEOREM Forest == Spec => []FieldsFormAForest
<1>1. TemplateInv => FieldsFormAForest
  BY DEF TemplateInv
<1>2. QED  BY <1>1, TemplateInvariant, PTL
-----------------------------------------------------------------------------
(* A template that is not a draft *)

\* Who may still write to it.
Writers == {r \in Requests : Editing(r) \/ req[r].op = "seed"}

WritersAreOvertaken ==
  /\ tmpl.status # "DRAFT" => {r \in Requests : Editing(r)} \subseteq overtaken
  /\ {r \in Requests : req[r].op = "seed"} \subseteq overtaken

\* A step of an edit, or of a seed run, is the only one that writes.
LEMMA OnlyWritersWrite ==
  ASSUME TemplateInv, NEW r \in Requests,
         \/ LifecycleRequest(r) \/ TemplateRequest(r) \/ FieldRequest(r) \/ MappingRequest(r)
         \/ SeedCommand(r) \/ Check(r) \/ Write(r) \/ Seed(r)
  PROVE  r \in Writers \/ UNCHANGED <<tmpl.meta, fields, mappings>>
<1>1. Control(r) /\ TypeOK /\ FieldsAreOld /\ FieldsFormAForest
  BY DEF TemplateInv
<1>2. CASE Check(r)
  BY <1>1, <1>2, CheckControl DEF rows
<1>3. CASE LifecycleRequest(r) \/ TemplateRequest(r) \/ FieldRequest(r) \/ MappingRequest(r)
           \/ SeedCommand(r)
  BY <1>3 DEF LifecycleRequest, TemplateRequest, FieldRequest, MappingRequest, SeedCommand,
              Begin, rows
<1>4. CASE SetStatus(r)
  BY <1>1, <1>4 DEF SetStatus, WriteTemplate, rows, TypeOK, TemplateRow
<1>5. CASE Write(r) /\ ~SetStatus(r)
  <2>1. pc[r] \in {"save", "insert", "delete"}
    BY <1>5 DEF Write, SaveTemplate, SaveField, SaveMapping, InsertField, InsertMapping,
                DeleteField, DeleteMapping
  <2>2. QED  BY <2>1 DEF Writers, Editing, EditPCs
<1>6. CASE Seed(r)
  <2>1. pc[r] \in SeedPCs
    BY <1>6 DEF Seed, WipeMappings, WipeFields, LoadFields, LoadMappings, SeedPCs
  <2>2. QED  BY <1>1, <2>1 DEF Writers, Control, PlaceFits
<1>7. QED  BY <1>2, <1>3, <1>4, <1>5, <1>6

LEMMA EndedIsNoWriter ==
  ASSUME TypeOK, NEW r \in Requests, Ended(r)
  PROVE  pc'[r] = "idle" /\ req'[r].op = "none"
BY DEF Ended, TypeOK, NoRequest, Ask

\* A step keeps the others overtaken, overtakes them by publishing, and does
\* not make its request a writer unseen.
LEMMA StepOvertakes ==
  ASSUME TemplateInv, WritersAreOvertaken, NEW r \in Requests,
         \/ LifecycleRequest(r) \/ TemplateRequest(r) \/ FieldRequest(r) \/ MappingRequest(r)
         \/ SeedCommand(r) \/ Check(r) \/ Write(r) \/ Seed(r)
  PROVE  /\ overtaken \ {r} \subseteq overtaken'
         /\ tmpl.status = "DRAFT" /\ tmpl'.status # "DRAFT" =>
              {q \in Requests \ {r} : Editing(q)} \subseteq overtaken'
         /\ pc'[r] \in EditPCs /\ tmpl'.status # "DRAFT" => r \in overtaken'
         /\ req'[r].op = "seed" => r \in overtaken'
<1> DEFINE Goal == /\ overtaken \ {r} \subseteq overtaken'
                   /\ tmpl.status = "DRAFT" /\ tmpl'.status # "DRAFT" =>
                        {q \in Requests \ {r} : Editing(q)} \subseteq overtaken'
                   /\ pc'[r] \in EditPCs /\ tmpl'.status # "DRAFT" => r \in overtaken'
                   /\ req'[r].op = "seed" => r \in overtaken'
<1>1. Control(r) /\ TypeOK /\ FieldsAreOld /\ FieldsFormAForest
  BY DEF TemplateInv
<1>2. /\ Editing(r) /\ tmpl.status # "DRAFT" => r \in overtaken
      /\ req[r].op = "seed" => r \in overtaken
  BY DEF WritersAreOvertaken
<1>3. ASSUME Ended(r), tmpl' = tmpl, overtaken' = overtaken \ {r}  PROVE Goal
  BY <1>1, <1>3, EndedIsNoWriter DEF EditPCs
<1>4. CASE LifecycleRequest(r) \/ TemplateRequest(r) \/ FieldRequest(r) \/ MappingRequest(r)
           \/ SeedCommand(r)
  <2>1. PICK q : Begin(r, q)
    BY <1>4 DEF LifecycleRequest, TemplateRequest, FieldRequest, MappingRequest, SeedCommand
  <2>2. EntryPC(q.op) \notin EditPCs
    BY DEF EntryPC, EditPCs
  <2>3. QED  BY <1>1, <2>1, <2>2 DEF Begin, TypeOK
<1>5. CASE Refuse(r)
  BY <1>3, <1>5 DEF Refuse, End
<1>6. CASE Check(r) /\ ~Refuse(r)
  <2>1. tmpl' = tmpl /\ overtaken' = overtaken /\ req' = req
    BY <1>1, <1>6
       DEF Check, LookUpRow, CheckTransition, CheckEditable, CheckReference, RefuseSheet,
           CheckChildren, CheckMappings, Fetch, NameTaken, Proceed, Goto, Keep, Control,
           PlaceFits, UpdateOps
  <2>2. pc'[r] \in EditPCs => Editing(r) \/ tmpl.status = "DRAFT"
    <3>1. CASE LookUpRow(r) \/ CheckTransition(r)
      BY <1>1, <1>6, <3>1
         DEF LookUpRow, CheckTransition, Proceed, Goto, TypeOK, EditPCs
    <3>2. CASE CheckEditable(r)
      BY <1>6, <3>2 DEF CheckEditable, IsEditable
    <3>3. CASE CheckReference(r) \/ CheckChildren(r) \/ CheckMappings(r) \/ Fetch(r)
      BY <3>3 DEF CheckReference, CheckChildren, CheckMappings, Fetch, Editing, EditPCs
    <3>4. QED  BY <1>6, <3>1, <3>2, <3>3 DEF Check, RefuseSheet, NameTaken
  <2>3. QED  BY <1>2, <2>1, <2>2
<1>7. CASE SetStatus(r)
  <2>1. WriteTemplate(r, [tmpl EXCEPT !.status = Target(req[r].op)])
    BY <1>7 DEF SetStatus
  <2>2. CASE Ended(r)
    BY <1>1, <2>1, <2>2, EndedIsNoWriter DEF WriteTemplate, EditPCs
  <2>3. CASE ~Ended(r)
    <3>1. pc' = [pc EXCEPT ![r] = "wipe_maps"] /\ req' = req /\ req[r].op = "seed"
      BY <1>7, <2>3 DEF SetStatus
    <3>2. r \in overtaken
      BY <1>2, <3>1
    <3>3. QED  BY <1>1, <2>1, <3>1, <3>2 DEF WriteTemplate, TypeOK, EditPCs
  <2>4. QED  BY <2>2, <2>3
<1>8. CASE SaveTemplate(r)
  <2>1. Ended(r) /\ tmpl'.status = copy[r].status
    BY <1>8 DEF SaveTemplate
  <2>2. QED  BY <1>1, <1>8, <2>1, EndedIsNoWriter DEF SaveTemplate, EditPCs
<1>9. CASE Write(r) /\ ~SetStatus(r) /\ ~SaveTemplate(r)
  BY <1>3, <1>9
     DEF Write, SaveField, SaveMapping, InsertField, InsertMapping, DeleteField, DeleteMapping,
         End
<1>10. CASE Seed(r) /\ ~Refuse(r)
  <2>1. CASE End(r)
    BY <1>3, <1>10, <2>1
       DEF End, Refuse, Seed, WipeMappings, WipeFields, LoadFields, LoadMappings
  <2>2. CASE ~End(r)
    <3>1. /\ tmpl' = tmpl /\ overtaken' = overtaken /\ req' = req
          /\ pc'[r] \in {"wipe_fields", "load_maps", "load_fields", "wipe_again"}
      BY <1>1, <1>10, <2>2
         DEF Seed, WipeMappings, WipeFields, LoadFields, LoadMappings, Goto, TypeOK
    <3>2. QED  BY <1>2, <3>1 DEF EditPCs
  <2>3. QED  BY <2>1, <2>2
<1>11. QED  BY <1>4, <1>5, <1>6, <1>7, <1>8, <1>9, <1>10

LEMMA NextWritersAreOvertaken ==
  TemplateInv /\ WritersAreOvertaken /\ [Next]_vars => WritersAreOvertaken'
<1> SUFFICES ASSUME TemplateInv, WritersAreOvertaken, [Next]_vars  PROVE WritersAreOvertaken'
  OBVIOUS
<1>1. CASE UNCHANGED vars
  BY <1>1 DEF vars, WritersAreOvertaken, Editing
<1>2. ASSUME NEW r \in Requests,
             \/ LifecycleRequest(r) \/ TemplateRequest(r) \/ FieldRequest(r) \/ MappingRequest(r)
             \/ SeedCommand(r) \/ Check(r) \/ Write(r) \/ Seed(r)
      PROVE  WritersAreOvertaken'
  <2>1. TypeOK /\ Control(r)
    BY DEF TemplateInv
  <2>2. \A q \in Requests \ {r} : pc'[q] = pc[q] /\ req'[q] = req[q]
    BY <1>2, <2>1, OthersStay
  <2>3. ASSUME NEW q \in Requests, pc'[q] \in EditPCs, tmpl'.status # "DRAFT"
        PROVE  q \in overtaken'
    BY <1>2, <2>2, <2>3, StepOvertakes DEF WritersAreOvertaken, Editing
  <2>4. ASSUME NEW q \in Requests, req'[q].op = "seed"  PROVE q \in overtaken'
    BY <1>2, <2>2, <2>4, StepOvertakes DEF WritersAreOvertaken
  <2>5. QED  BY <2>3, <2>4 DEF WritersAreOvertaken, Editing
<1>3. QED  BY <1>1, <1>2 DEF Next

\* A template that is not a draft is not changed, for any number of requests,
\* but by the edits and seed runs that a publish overtook.
THEOREM ReadOnly == Spec => ReadOnlyOncePublished
<1>1. Init => WritersAreOvertaken
  BY DEF Init, WritersAreOvertaken, Editing, EditPCs, NoRequest, Ask
<1>2. ASSUME TemplateInv, WritersAreOvertaken, [Next]_vars
      PROVE  [tmpl.status # "DRAFT" /\ overtaken = {} =>
                UNCHANGED <<tmpl.meta, fields, mappings>>]_vars
  <2> SUFFICES ASSUME tmpl.status # "DRAFT", overtaken = {}, ~UNCHANGED vars
               PROVE  UNCHANGED <<tmpl.meta, fields, mappings>>
    OBVIOUS
  <2>1. PICK r \in Requests :
          \/ LifecycleRequest(r) \/ TemplateRequest(r) \/ FieldRequest(r) \/ MappingRequest(r)
          \/ SeedCommand(r) \/ Check(r) \/ Write(r) \/ Seed(r)
    BY <1>2 DEF Next
  <2>2. Writers = {}
    BY <1>2 DEF WritersAreOvertaken, Writers
  <2>3. QED  BY <1>2, <2>1, <2>2, OnlyWritersWrite
<1>3. Spec => []WritersAreOvertaken
  BY <1>1, TemplateInvariant, NextWritersAreOvertaken, PTL DEF Spec
<1>4. QED  BY <1>2, <1>3, TemplateInvariant, PTL DEF Spec, ReadOnlyOncePublished
=============================================================================
