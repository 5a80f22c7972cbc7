--------------------------- MODULE TemplateEditing ---------------------------
(***************************************************************************)
(* One target template and the requests that change it: the DRAFT /        *)
(* PUBLISHED / DEPRECATED lifecycle, the tree of source fields, the field  *)
(* mappings, and a run of the seed command.                                *)
(*                                                                         *)
(* No request holds a transaction or a lock from its checks to its write,  *)
(* so each is cut at every call of the repository: pc names the next one.  *)
(* A save() of a row writes every column of the copy that was fetched,     *)
(* and inserts the row again when it is gone; a foreign key that does not  *)
(* resolve, or a protected one, ends the request with an error.            *)
(*                                                                         *)
(* MaxFields and MaxMappings bound how many rows are ever created, an      *)
(* insert past them does nothing; ids are serial and never reused.  Of a   *)
(* field's types "leaf" stands for all but "object"; a type of "none" is a *)
(* row that is not there.  A metadata value stands for name, source_path   *)
(* and metadata.                                                           *)
(*                                                                         *)
(* Not here: display orders and the counters they are claimed from, field  *)
(* names (a clash of names only refuses a request), the admin site, which  *)
(* writes the same rows without any of these checks.                       *)
(***************************************************************************)
EXTENDS Integers, FiniteSets

CONSTANTS
  Requests,      \* API requests, dashboard requests and seed runs
  MaxFields,     \* source fields ever created
  MaxMappings,   \* field mappings ever created
  SeedRuns       \* whether the seed command may run

ASSUME ConstantsAssumption ==
  /\ MaxFields \in Nat \ {0} /\ MaxMappings \in Nat \ {0}
  /\ SeedRuns \in BOOLEAN

FieldIds   == 1 .. MaxFields
MappingIds == 1 .. MaxMappings
None       == 0              \* no parent, no field, no row

Statuses  == {"DRAFT", "PUBLISHED", "DEPRECATED"}
Metas     == {"a", "b"}
RowTypes  == {"object", "leaf"}

TemplateRow == [status : Statuses, meta : Metas]
FieldRow    == [parent : FieldIds \union {None}, type : RowTypes]
NoField     == [parent |-> None, type |-> "none"]

StatusOps == {"publish", "deprecate", "revert_to_draft"}
EditOps   == {"update", "create_field", "update_field", "delete_field",
              "create_mapping", "update_mapping", "delete_mapping"}

\* What a request asks for.  id: the field or mapping of its URL; ref: the
\* parent or source field it names; type, meta: the value it sends, if any.
Request == [op : StatusOps \union EditOps \union {"seed", "none"},
            id : Nat, ref : FieldIds \union {None},
            type : RowTypes \union {"none"}, meta : Metas]

Ask(op, id, ref, type) == [op |-> op, id |-> id, ref |-> ref, type |-> type, meta |-> "a"]
NoRequest == Ask("none", None, None, "none")

SeedPCs == {"wipe_maps", "wipe_fields", "load_fields", "wipe_again", "load_maps"}
EditPCs == {"ref", "children", "mapped", "fetch", "save", "insert", "delete"}
PCs     == {"idle", "row", "own", "status"} \union EditPCs \union SeedPCs

VARIABLES
  tmpl,                  \* the TargetTemplate row
  fields, mappings,      \* its SourceFieldDefinition and FieldMapping rows
  nextField, nextMapping,\* the ids the sequences give next
  pc, req,               \* per request: next repository call, what it asks
  seen,                  \* per request: type of its field when it was looked up
  copy,                  \* per request: the row it fetched and will save
  overtaken              \* history: requests that may write to a template that
                         \* is not a draft, see ReadOnlyOncePublished

rows == <<fields, mappings, nextField, nextMapping>>
vars == <<tmpl, rows, pc, req, seen, copy, overtaken>>

Exists(f)      == fields[f].type # "none"
IsMapping(m)   == mappings[m] # None
Resolves(f)    == f = None \/ Exists(f)        \* what a foreign key accepts

\* What a request has fetched: columns of the template, of a field, or of a
\* mapping (or the field a seed run has created).
Copy   == [status : Statuses, meta : Metas,
           parent : FieldIds \union {None}, type : RowTypes \union {"none"},
           field : FieldIds \union {None}]
NoCopy == [status |-> "DRAFT", meta |-> "a", parent |-> None, type |-> "none", field |-> None]

\* create_template's row, without fields or mappings.
Init ==
  /\ tmpl = [status |-> "DRAFT", meta |-> "a"]
  /\ fields = [f \in FieldIds |-> NoField] /\ mappings = [m \in MappingIds |-> None]
  /\ nextField = 1 /\ nextMapping = 1
  /\ pc = [r \in Requests |-> "idle"] /\ req = [r \in Requests |-> NoRequest]
  /\ seen = [r \in Requests |-> "none"] /\ copy = [r \in Requests |-> NoCopy]
  /\ overtaken = {}
-----------------------------------------------------------------------------
(* Steps of a request *)

Goto(r, p) == pc' = [pc EXCEPT ![r] = p] /\ UNCHANGED <<req, overtaken>>

\* The request answers, well or badly.
Ended(r) ==
  /\ pc' = [pc EXCEPT ![r] = "idle"] /\ req' = [req EXCEPT ![r] = NoRequest]
  /\ seen' = [seen EXCEPT ![r] = "none"] /\ copy' = [copy EXCEPT ![r] = NoCopy]

End(r)    == Ended(r) /\ overtaken' = overtaken \ {r}
Refuse(r) == End(r) /\ UNCHANGED <<tmpl, rows>>
Proceed(r, p) == Goto(r, p) /\ UNCHANGED <<tmpl, rows, seen, copy>>

\* Past the check that the template is a draft.
Editing(r) == pc[r] \in EditPCs

\* A write of the template row: edits under way when the draft is published
\* are overtaken.
WriteTemplate(r, row) ==
  /\ tmpl' = row
  /\ overtaken' = IF tmpl.status = "DRAFT" /\ row.status # "DRAFT"
                    THEN overtaken \union {q \in Requests \ {r} : Editing(q)}
                    ELSE overtaken

EntryPC(op) == CASE op = "seed" -> "status"
                 [] op \in {"update_field", "delete_field",
                            "update_mapping", "delete_mapping"} -> "row"
                 [] OTHER -> "own"

Begin(r, q) ==
  /\ pc[r] = "idle"
  /\ pc' = [pc EXCEPT ![r] = EntryPC(q.op)] /\ req' = [req EXCEPT ![r] = q]
  /\ overtaken' = IF q.op = "seed" THEN overtaken \union {r} ELSE overtaken
  /\ UNCHANGED <<tmpl, rows, seen, copy>>

\* The requests of the API, and of the dashboard's pages in front of it.
LifecycleRequest(r) == \E op \in StatusOps : Begin(r, Ask(op, None, None, "none"))

TemplateRequest(r) == \E m \in Metas : Begin(r, [Ask("update", None, None, "none") EXCEPT !.meta = m])

FieldRequest(r) ==
  \/ \E p \in FieldIds \union {None}, t \in RowTypes :
       Begin(r, Ask("create_field", None, p, t))
  \/ \E f \in FieldIds, t \in RowTypes \union {"none"} :
       Begin(r, Ask("update_field", f, None, t))
  \/ \E f \in FieldIds : Begin(r, Ask("delete_field", f, None, "none"))

MappingRequest(r) ==
  \/ \E f \in FieldIds : Begin(r, Ask("create_mapping", None, f, "none"))
  \/ \E m \in MappingIds, f \in FieldIds \union {None} :
       Begin(r, Ask("update_mapping", m, f, "none"))
  \/ \E m \in MappingIds : Begin(r, Ask("delete_mapping", m, None, "none"))

SeedCommand(r) ==
  /\ SeedRuns
  /\ Begin(r, Ask("seed", None, None, "none"))

\* get_owned_source_field, get_owned_mapping
LookUpRow(r) ==
  /\ pc[r] = "row"
  /\ IF req[r].op \in {"update_field", "delete_field"}
       THEN IF Exists(req[r].id)
              THEN /\ Goto(r, "own") /\ seen' = [seen EXCEPT ![r] = fields[req[r].id].type]
                   /\ UNCHANGED <<tmpl, rows, copy>>
              ELSE Refuse(r)
       ELSE IF IsMapping(req[r].id) THEN Proceed(r, "own") ELSE Refuse(r)

\* _TRANSITIONS: the status an operation requires and the one it sets.
Required(op) == IF op = "publish" THEN "DRAFT" ELSE "PUBLISHED"

\* Mutant: the operation is stored as the status.
TargetIsVerb(op) == op

Target(op) == CASE op \in {"publish", "seed"} -> "PUBLISHED"
                [] op = "deprecate" -> "DEPRECATED"
                [] op = "revert_to_draft" -> "DRAFT"

\* Mutant: a deprecated template can still be edited.
EditableUnlessPublished == tmpl.status # "PUBLISHED"

IsEditable == tmpl.status = "DRAFT"

\* What an edit does once the template is known to be a draft.
FirstEditStep(r) ==
  CASE req[r].op = "update" -> "fetch"
    [] req[r].op = "create_field" -> IF req[r].ref = None THEN "insert" ELSE "ref"
    [] req[r].op = "update_field" ->
         IF req[r].type = "leaf" /\ seen[r] = "object" THEN "children" ELSE "fetch"
    [] req[r].op = "delete_field" -> "children"
    [] req[r].op = "create_mapping" -> "ref"
    [] req[r].op = "update_mapping" -> IF req[r].ref = None THEN "fetch" ELSE "ref"
    [] req[r].op = "delete_mapping" -> "delete"

\* get_owned_template, then the status check on what it read.
CheckTransition(r) ==
  /\ pc[r] = "own" /\ req[r].op \in StatusOps
  /\ IF tmpl.status = Required(req[r].op) THEN Proceed(r, "status") ELSE Refuse(r)

CheckEditable(r) ==
  /\ pc[r] = "own" /\ req[r].op \in EditOps
  /\ IF IsEditable THEN Proceed(r, FirstEditStep(r)) ELSE Refuse(r)

\* get_source_field_for_template: a parent must be an object field.
CheckReference(r) ==
  /\ pc[r] = "ref"
  /\ IF fields[req[r].ref].type \in (IF req[r].op = "create_field" THEN {"object"} ELSE RowTypes)
       THEN Proceed(r, IF req[r].op = "update_mapping" THEN "fetch" ELSE "insert")
       ELSE Refuse(r)

\* An xlsx mapping without a sheet name.
RefuseSheet(r) ==
  /\ pc[r] \in {"insert", "fetch"} /\ req[r].op \in {"create_mapping", "update_mapping"}
  /\ Refuse(r)

HasChildren(f) == \E g \in FieldIds : Exists(g) /\ fields[g].parent = f

CheckChildren(r) ==
  /\ pc[r] = "children"
  /\ IF HasChildren(req[r].id) THEN Refuse(r)
     ELSE Proceed(r, IF req[r].op = "delete_field" THEN "mapped" ELSE "fetch")

\* f and its descendants: the least set with f that is closed under children.
Subtree(f) ==
  {g \in FieldIds : \A S \in SUBSET FieldIds :
     f \in S /\ (\A h \in FieldIds : Exists(h) /\ fields[h].parent \in S => h \in S)
       => g \in S}

HasMappings(f) == \E m \in MappingIds : mappings[m] \in Subtree(f)

CheckMappings(r) ==
  /\ pc[r] = "mapped"
  /\ IF HasMappings(req[r].id) THEN Refuse(r) ELSE Proceed(r, "delete")
-----------------------------------------------------------------------------
(* Writes *)

\* set_status: save(update_fields=["status", ...]).
SetStatus(r) ==
  /\ pc[r] = "status"
  /\ WriteTemplate(r, [tmpl EXCEPT !.status = Target(req[r].op)])
  /\ IF req[r].op = "seed"
       THEN pc' = [pc EXCEPT ![r] = "wipe_maps"] /\ UNCHANGED <<req, seen, copy>>
       ELSE Ended(r)
  /\ UNCHANGED rows

\* The get() at the head of update_template, update_source_field and
\* update_mapping.
Keep(r, columns) ==
  /\ Goto(r, "save") /\ copy' = [copy EXCEPT ![r] = columns]
  /\ UNCHANGED <<tmpl, rows, seen>>

Fetch(r) ==
  /\ pc[r] = "fetch"
  /\ LET id == req[r].id
     IN CASE req[r].op = "update" ->
               Keep(r, [NoCopy EXCEPT !.status = tmpl.status, !.meta = tmpl.meta])
          [] req[r].op = "update_field" ->
               IF Exists(id)
                 THEN Keep(r, [NoCopy EXCEPT !.parent = fields[id].parent,
                                             !.type = fields[id].type])
                 ELSE Refuse(r)
          [] req[r].op = "update_mapping" ->
               IF IsMapping(id) THEN Keep(r, [NoCopy EXCEPT !.field = mappings[id]])
               ELSE Refuse(r)

\* The save() at their end: the whole row, from the copy.
SaveTemplate(r) ==
  /\ pc[r] = "save" /\ req[r].op = "update"
  /\ tmpl' = [status |-> copy[r].status, meta |-> req[r].meta]
  /\ overtaken' = (IF tmpl.status = "DRAFT" /\ copy[r].status # "DRAFT"
                     THEN overtaken \union {q \in Requests : Editing(q)}
                     ELSE overtaken) \ {r}
  /\ Ended(r) /\ UNCHANGED rows

\* Mutant: parent_id, which the dashboard sends, is among the saved columns.
SaveFieldAndParent(r) ==
  /\ pc[r] = "save" /\ req[r].op = "update_field"
  /\ \E p \in {q \in FieldIds \union {None} : Resolves(q)} :
       fields' = [fields EXCEPT ![req[r].id] = [parent |-> p, type |-> copy[r].type]]
  /\ End(r) /\ UNCHANGED <<tmpl, mappings, nextField, nextMapping>>

SaveField(r) ==
  /\ pc[r] = "save" /\ req[r].op = "update_field"
  /\ fields' = IF Resolves(copy[r].parent)
                 THEN [fields EXCEPT ![req[r].id] =
                         [parent |-> copy[r].parent,
                          type |-> IF req[r].type = "none" THEN copy[r].type
                                                           ELSE req[r].type]]
                 ELSE fields
  /\ End(r) /\ UNCHANGED <<tmpl, mappings, nextField, nextMapping>>

SavedField(r) == IF req[r].ref = None THEN copy[r].field ELSE req[r].ref

SaveMapping(r) ==
  /\ pc[r] = "save" /\ req[r].op = "update_mapping"
  /\ mappings' = IF Resolves(SavedField(r))
                   THEN [mappings EXCEPT ![req[r].id] = SavedField(r)] ELSE mappings
  /\ End(r) /\ UNCHANGED <<tmpl, fields, nextField, nextMapping>>

\* create_source_field; the insert fails on a parent that is gone.
InsertField(r) ==
  /\ pc[r] = "insert" /\ req[r].op = "create_field"
  /\ IF Resolves(req[r].ref) /\ nextField \in FieldIds
       THEN /\ fields' = [fields EXCEPT ![nextField] =
                            [parent |-> req[r].ref, type |-> req[r].type]]
            /\ nextField' = nextField + 1
       ELSE UNCHANGED <<fields, nextField>>
  /\ End(r) /\ UNCHANGED <<tmpl, mappings, nextMapping>>

InsertMapping(r) ==
  /\ pc[r] = "insert" /\ req[r].op = "create_mapping"
  /\ IF Exists(req[r].ref) /\ nextMapping \in MappingIds
       THEN /\ mappings' = [mappings EXCEPT ![nextMapping] = req[r].ref]
            /\ nextMapping' = nextMapping + 1
       ELSE UNCHANGED <<mappings, nextMapping>>
  /\ End(r) /\ UNCHANGED <<tmpl, fields, nextField>>

\* A (template, parent, name) that is taken: IntegrityError.
NameTaken(r) ==
  /\ \/ pc[r] = "insert" /\ req[r].op = "create_field" /\ HasChildren(req[r].ref)
     \/ /\ pc[r] = "save" /\ req[r].op = "update_field"
        /\ \E g \in FieldIds \ {req[r].id} : Exists(g) /\ fields[g].parent = copy[r].parent
  /\ Refuse(r)

\* delete() cascades to the children and is refused by a mapping of any of
\* them (PROTECT).
DeleteField(r) ==
  /\ pc[r] = "delete" /\ req[r].op = "delete_field"
  /\ fields' = IF HasMappings(req[r].id) THEN fields
               ELSE [f \in FieldIds |-> IF f \in Subtree(req[r].id) THEN NoField ELSE fields[f]]
  /\ End(r) /\ UNCHANGED <<tmpl, mappings, nextField, nextMapping>>

DeleteMapping(r) ==
  /\ pc[r] = "delete" /\ req[r].op = "delete_mapping"
  /\ mappings' = [mappings EXCEPT ![req[r].id] = None]
  /\ End(r) /\ UNCHANGED <<tmpl, fields, nextField, nextMapping>>
-----------------------------------------------------------------------------
(* The seed command: set_status, replace_source_fields, replace_mappings.  *)

WipeMappings(r) ==
  /\ pc[r] \in {"wipe_maps", "wipe_again"}
  /\ mappings' = [m \in MappingIds |-> None]
  /\ Goto(r, IF pc[r] = "wipe_maps" THEN "wipe_fields" ELSE "load_maps")
  /\ UNCHANGED <<tmpl, fields, nextField, nextMapping, seen, copy>>

\* A mapping made since the wipe protects its field: the command dies.
WipeFields(r) ==
  /\ pc[r] = "wipe_fields"
  /\ IF \E m \in MappingIds : IsMapping(m) THEN Refuse(r)
     ELSE /\ fields' = [f \in FieldIds |-> NoField] /\ Goto(r, "load_fields")
          /\ UNCHANGED <<tmpl, mappings, nextField, nextMapping, seen, copy>>

\* bulk_create of the demo schema, here one top-level field.
LoadFields(r) ==
  /\ pc[r] = "load_fields"
  /\ IF nextField \in FieldIds
       THEN /\ fields' = [fields EXCEPT ![nextField] = [parent |-> None, type |-> "leaf"]]
            /\ copy' = [copy EXCEPT ![r].field = nextField]
            /\ nextField' = nextField + 1
            /\ Goto(r, "wipe_again") /\ UNCHANGED <<tmpl, mappings, nextMapping, seen>>
       ELSE Refuse(r)

\* bulk_create of the demo mappings, on the fields read just before; one
\* deleted since fails it.
LoadMappings(r) ==
  /\ pc[r] = "load_maps"
  /\ IF Exists(copy[r].field) /\ nextMapping \in MappingIds
       THEN /\ mappings' = [mappings EXCEPT ![nextMapping] = copy[r].field]
            /\ nextMapping' = nextMapping + 1
       ELSE UNCHANGED <<mappings, nextMapping>>
  /\ End(r) /\ UNCHANGED <<tmpl, fields, nextField>>
-----------------------------------------------------------------------------
Check(r) == \/ LookUpRow(r) \/ CheckTransition(r) \/ CheckEditable(r)
            \/ CheckReference(r) \/ RefuseSheet(r) \/ CheckChildren(r)
            \/ CheckMappings(r) \/ Fetch(r) \/ NameTaken(r)

Write(r) == \/ SetStatus(r) \/ SaveTemplate(r) \/ SaveField(r) \/ SaveMapping(r)
            \/ InsertField(r) \/ InsertMapping(r) \/ DeleteField(r) \/ DeleteMapping(r)

Seed(r) == WipeMappings(r) \/ WipeFields(r) \/ LoadFields(r) \/ LoadMappings(r)

Next ==
  \E r \in Requests :
    \/ LifecycleRequest(r) \/ TemplateRequest(r) \/ FieldRequest(r) \/ MappingRequest(r)
    \/ SeedCommand(r) \/ Check(r) \/ Write(r) \/ Seed(r)

Spec == Init /\ [][Next]_vars
-----------------------------------------------------------------------------
(* Properties *)

\* Every variable has the type its declaration describes.
TypeOK ==
  /\ tmpl \in TemplateRow
  /\ fields \in [FieldIds -> FieldRow \union {NoField}]
  /\ mappings \in [MappingIds -> FieldIds \union {None}]
  /\ nextField \in 1 .. MaxFields + 1 /\ nextMapping \in 1 .. MaxMappings + 1
  /\ pc \in [Requests -> PCs] /\ req \in [Requests -> Request]
  /\ seen \in [Requests -> RowTypes \union {"none"}]
  /\ copy \in [Requests -> Copy]
  /\ overtaken \subseteq Requests

\* The source fields stay a forest, whatever races with whatever: a parent is
\* there and older than its child, so no field is its own ancestor and the
\* walks along parents (path, _collect_subtree_ids) end; no mapping dangles.
FieldsFormAForest ==
  /\ \A f \in FieldIds : Exists(f) /\ fields[f].parent # None =>
       fields[f].parent < f /\ Exists(fields[f].parent)
  /\ \A m \in MappingIds : Resolves(mappings[m])

\* A published or deprecated template "becomes read-only", except for the
\* edits that had already passed their check when it was published, each of
\* them once, and for a seed run.
ReadOnlyOncePublished ==
  [][tmpl.status # "DRAFT" /\ overtaken = {} =>
       UNCHANGED <<tmpl.meta, fields, mappings>>]_vars

-----------------------------------------------------------------------------
(* What a comment of the repository says of the program, and a run refutes. *)

\* TemplateLifecycleService: "Enforces the DRAFT <-> PUBLISHED -> DEPRECATED
\* transition table."
StatusFollowsTable ==
  [][tmpl'.status # tmpl.status =>
       <<tmpl.status, tmpl'.status>> \in
         {<<"DRAFT", "PUBLISHED">>, <<"PUBLISHED", "DRAFT">>,
          <<"PUBLISHED", "DEPRECATED">>}]_vars
=============================================================================
