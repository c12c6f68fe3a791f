------------------------ MODULE WorkspaceConfiguration ------------------------
(***************************************************************************)
(* The configuration of the workspaces of one template: the parameter      *)
(* definitions, images and modules that catalog requests change, the       *)
(* configuration a workspace request validates and resolves against them,  *)
(* and the parameters that reach Coder.                                    *)
(*                                                                         *)
(* Every workspace request locks the template and its image, every catalog *)
(* request one of them, so each is one action.  A catalog request does not *)
(* wait for workspace jobs: definitions may change between the acceptance  *)
(* of a request, the snapshot of its step and its retries.  The template   *)
(* is idle (TemplatePublication) and the job engine is reduced to attempts *)
(* that are claimed, fail and are retried (JobExecution).                  *)
(***************************************************************************)
EXTENDS Integers

CONSTANTS Spaces,        \* workspaces
          Params,        \* parameter names
          Values,        \* parameter values
          Images,        \* image identifiers
          Modules,       \* module names
          NoValue, NoImage,
          MaxChanges     \* bound on catalog requests

ASSUME ConfigurationAssumption ==
    /\ NoValue \notin Values
    /\ NoImage \notin Images
    /\ MaxChanges \in Nat

VARIABLES defs,     \* defs[p]: the definition of parameter p
          catalog,  \* the images and modules of the template
          ws,       \* ws[w]: the row of workspace w
          sent,     \* sent[w]: the parameters the running attempt has read
          coder,    \* coder[w]: the parameters of the latest remote build
          put,      \* history: put[w] is the last accepted payload, while no
                    \* definition has changed since
          touched,  \* history: touched[w] are the parameters defined, redefined
                    \* or deleted since the parameters of w were last to be built
          changes   \* the number of catalog requests

cvars == <<defs, catalog, ws, sent, coder, put, touched, changes>>

\* JSON objects from names to values; NoValue is an absent name.
Objects == [Params -> Values \cup {NoValue}]
Nothing == [p \in Params |-> NoValue]
None == [object |-> Nothing, there |-> FALSE]
Some(o) == [object |-> o, there |-> TRUE]
Optional == [object : Objects, there : BOOLEAN]

Definition(type, required, mutable, default) ==
    [type |-> type, required |-> required, mutable |-> mutable,
     default |-> default]
Undefined == Definition("none", FALSE, FALSE, NoValue)
System == Definition("system", FALSE, FALSE, NoValue)
UserDefinitions == {Definition("user", r, m, d) :
                        r \in BOOLEAN, m \in BOOLEAN, d \in Values \cup {NoValue}}
Defined == UserDefinitions \cup {System}

\* dirty: applied_parameters_revision differs from parameters_revision.
Row(status, action, params, dirty, image, modules) ==
    [status |-> status, action |-> action, params |-> params, dirty |-> dirty,
     image |-> image, modules |-> modules]
NoRow == Row("absent", "creating", Nothing, TRUE, NoImage, {})

Statuses == {"absent", "pending", "running", "success", "error"}
Exists(w) == ws[w].status # "absent"

\* Every definition, row and build has its type, and only a running attempt
\* holds a snapshot.
CTypeOK ==
    /\ defs \in [Params -> Defined \cup {Undefined}]
    /\ catalog \in [images : SUBSET Images, modules : SUBSET Modules]
    /\ ws \in [Spaces -> [status : Statuses,
                          action : {"creating", "updating", "deleting"},
                          params : Objects, dirty : BOOLEAN,
                          image : Images \cup {NoImage},
                          modules : SUBSET Modules]]
    /\ sent \in [Spaces -> Optional]
    /\ coder \in [Spaces -> Optional]
    /\ put \in [Spaces -> Optional]
    /\ touched \in [Spaces -> SUBSET Params]
    /\ changes \in Nat
    /\ \A w \in Spaces : sent[w].there => ws[w].status = "running"

CInit ==
    /\ defs \in [Params -> Defined \cup {Undefined}]
    /\ catalog = [images |-> Images, modules |-> Modules]
    /\ ws = [w \in Spaces |-> NoRow]
    /\ sent = [w \in Spaces |-> None]
    /\ coder = [w \in Spaces |-> None]
    /\ put = [w \in Spaces |-> None]
    /\ touched = [w \in Spaces |-> {}]
    /\ changes = 0

-----------------------------------------------------------------------------
\* Catalog requests.
CatalogRequest == changes < MaxChanges /\ changes' = changes + 1

Redefine(p, d) ==
    /\ CatalogRequest
    /\ defs' = [defs EXCEPT ![p] = d]
    /\ put' = [w \in Spaces |-> None]
    /\ touched' = [w \in Spaces |-> touched[w] \cup {p}]
    /\ UNCHANGED <<catalog, ws, sent, coder>>

\* TemplateParameterRepository.create; names are unique within the template.
CreateParameter(p, d) == defs[p] = Undefined /\ Redefine(p, d)

\* TemplateParameterRepository.update: the type cannot change.
UpdateParameter(p, d) == defs[p].type = d.type /\ defs[p] # d /\ Redefine(p, d)

\* TemplateParameterRepository.delete: no workspace is rewritten.
DeleteParameter(p) == defs[p] # Undefined /\ Redefine(p, Undefined)

Catalog(images, modules) ==
    /\ CatalogRequest
    /\ catalog' = [images |-> images, modules |-> modules]
    /\ UNCHANGED <<defs, ws, sent, coder, put, touched>>

\* TemplateImageRepository.create
CreateImage(i) == /\ i \notin catalog.images
                  /\ Catalog(catalog.images \cup {i}, catalog.modules)

\* Mutant of DeleteImage: the image may be in use.
DeleteAnyImage(i) == Catalog(catalog.images \ {i}, catalog.modules)

\* TemplateImageRepository.delete
DeleteImage(i) == /\ i \in catalog.images
                  /\ \A w \in Spaces : ws[w].image # i
                  /\ Catalog(catalog.images \ {i}, catalog.modules)

\* TemplateRepository.update with another list of modules: no workspace is
\* active, and every one is left with modules it may have.
ReplaceModules(modules) ==
    /\ modules # catalog.modules
    /\ \A w \in Spaces : /\ ws[w].status \in {"absent", "success"}
                         /\ ws[w].modules \subseteq modules
    /\ Catalog(catalog.images, modules)

-----------------------------------------------------------------------------
\* _resolve_parameters(supplied, previous); a creation has no previous values.
IsUser(p) == defs[p].type = "user"

\* A value that was assigned and may not change.
Fixed(p, previous) == ~defs[p].mutable /\ previous[p] # NoValue

Chosen(p, supplied, previous) ==
    IF supplied[p] # NoValue THEN supplied[p]
    ELSE IF Fixed(p, previous) THEN previous[p]
    ELSE defs[p].default

Accepted(supplied, previous) == \A p \in Params :
    IF IsUser(p)
    THEN /\ defs[p].required => Chosen(p, supplied, previous) # NoValue
         /\ Fixed(p, previous) => Chosen(p, supplied, previous) = previous[p]
    ELSE supplied[p] # NoValue => supplied[p] = previous[p]

\* Mutant of Resolved: what is no longer defined is dropped.
ForgetHistory(supplied, previous) == [p \in Params |->
    IF IsUser(p) THEN Chosen(p, supplied, previous) ELSE NoValue]

\* Deleted parameters keep their historical value.
Resolved(supplied, previous) == [p \in Params |->
    IF IsUser(p) THEN Chosen(p, supplied, previous) ELSE previous[p]]

\* _validate_image and _validate_modules
Allowed(image, modules) == image \in catalog.images /\ modules \subseteq catalog.modules

-----------------------------------------------------------------------------
SetRow(w, row) == ws' = [ws EXCEPT ![w] = row]

\* The request is accepted; touched is cleared if it leads to a build.
Accept(w, supplied, dirty) ==
    /\ put' = [put EXCEPT ![w] = Some(supplied)]
    /\ touched' = [touched EXCEPT ![w] = IF dirty THEN {} ELSE @]

\* Mutant of CreateWorkspace: the payload is stored without the defaults.
CreateUnresolved(w, supplied, image, modules) ==
    /\ ~Exists(w)
    /\ Allowed(image, modules)
    /\ Accepted(supplied, Nothing)
    /\ SetRow(w, Row("pending", "creating", supplied, TRUE, image, modules))
    /\ Accept(w, supplied, TRUE)
    /\ UNCHANGED <<defs, catalog, sent, coder, changes>>

\* WorkspaceRepository.create
CreateWorkspace(w, supplied, image, modules) ==
    /\ ~Exists(w)
    /\ Allowed(image, modules)
    /\ Accepted(supplied, Nothing)
    /\ SetRow(w, Row("pending", "creating", Resolved(supplied, Nothing), TRUE,
                     image, modules))
    /\ Accept(w, supplied, TRUE)
    /\ UNCHANGED <<defs, catalog, sent, coder, changes>>

\* WorkspaceRepository.update: an unchanged successful row gets no job.
UpdateWorkspace(w, supplied, image, modules) ==
    LET old    == ws[w]
        params == Resolved(supplied, old.params)
        dirty  == old.dirty \/ params # old.params
        same   == /\ params = old.params /\ image = old.image
                  /\ modules = old.modules /\ old.status = "success"
    IN  /\ old.status \in {"success", "error"}
        /\ Allowed(image, modules)
        /\ Accepted(supplied, old.params)
        /\ \/ same /\ UNCHANGED ws
           \/ ~same /\ SetRow(w, Row("pending", "updating", params, dirty,
                                     image, modules))
        /\ Accept(w, supplied, ~same /\ dirty)
        /\ UNCHANGED <<defs, catalog, sent, coder, changes>>

\* The row with another status and, for DeleteWorkspace, another action.
Moved(w, status, action) == Row(status, action, ws[w].params, ws[w].dirty,
                                ws[w].image, ws[w].modules)

\* WorkspaceRepository.request_deletion
DeleteWorkspace(w) ==
    /\ ws[w].status \in {"success", "error"}
    /\ SetRow(w, Moved(w, "pending", "deleting"))
    /\ UNCHANGED <<defs, catalog, sent, coder, put, touched, changes>>

-----------------------------------------------------------------------------
\* The step of the workspace's job.

\* workspace_remote_snapshot: the values of parameters that are still defined.
Sendable(params) == [p \in Params |-> IF IsUser(p) THEN params[p] ELSE NoValue]

\* A first attempt or a retry reads the row.
Snapshot(w) ==
    /\ ws[w].status \in {"pending", "error"}
    /\ SetRow(w, Moved(w, "running", ws[w].action))
    /\ sent' = [sent EXCEPT ![w] = Some(Sendable(ws[w].params))]
    /\ UNCHANGED <<defs, catalog, coder, put, touched, changes>>

\* A creation builds, or finds a build with the same parameters; an update
\* builds only a known remote workspace, and only changed parameters.
Build(w) ==
    /\ sent[w].there
    /\ \/ ws[w].action = "creating"
       \/ ws[w].action = "updating" /\ coder[w].there /\ ws[w].dirty
    /\ coder[w] # sent[w]
    /\ coder' = [coder EXCEPT ![w] = sent[w]]
    /\ UNCHANGED <<defs, catalog, ws, sent, put, touched, changes>>

\* Mutant of Delivered: the update does not look at the revision.
NotDelivered(w) == coder[w].there

\* The build the attempt wanted is there, or it wanted none.
Delivered(w) == coder[w] = sent[w] \/ (coder[w].there /\ ~ws[w].dirty)

\* complete_workspace
Complete(w) ==
    /\ sent[w].there
    /\ ws[w].action # "deleting"
    /\ Delivered(w)
    /\ SetRow(w, Row("success", ws[w].action, ws[w].params, FALSE, ws[w].image,
                     ws[w].modules))
    /\ sent' = [sent EXCEPT ![w] = None]
    /\ UNCHANGED <<defs, catalog, coder, put, touched, changes>>

\* complete_workspace of a deletion: the remote workspace and the row are gone.
Remove(w) ==
    /\ sent[w].there
    /\ ws[w].action = "deleting"
    /\ SetRow(w, NoRow)
    /\ sent' = [sent EXCEPT ![w] = None]
    /\ coder' = [coder EXCEPT ![w] = None]
    /\ put' = [put EXCEPT ![w] = None]
    /\ touched' = [touched EXCEPT ![w] = {}]
    /\ UNCHANGED <<defs, catalog, changes>>

\* The attempt raises or dies.
FailAttempt(w) ==
    /\ sent[w].there
    /\ SetRow(w, Moved(w, "error", ws[w].action))
    /\ sent' = [sent EXCEPT ![w] = None]
    /\ UNCHANGED <<defs, catalog, coder, put, touched, changes>>

-----------------------------------------------------------------------------
CatalogStep ==
    \/ \E p \in Params : \/ \E d \in Defined : CreateParameter(p, d)
                                               \/ UpdateParameter(p, d)
                         \/ DeleteParameter(p)
    \/ \E i \in Images : CreateImage(i) \/ DeleteImage(i)
    \/ \E modules \in SUBSET Modules : ReplaceModules(modules)

RequestStep(w) ==
    \/ \E supplied \in Objects, image \in Images, modules \in SUBSET Modules :
          \/ CreateWorkspace(w, supplied, image, modules)
          \/ UpdateWorkspace(w, supplied, image, modules)
    \/ DeleteWorkspace(w)

JobStep(w) == \/ Snapshot(w) \/ Build(w) \/ Complete(w) \/ Remove(w)
              \/ FailAttempt(w)

CNext == CatalogStep \/ \E w \in Spaces : RequestStep(w) \/ JobStep(w)

CSpec == CInit /\ [][CNext]_cvars

-----------------------------------------------------------------------------
\* A PUT may be repeated: as long as no definition changed, the payload that
\* was accepted last is accepted again and resolves to what is stored, whatever
\* it left to defaults, to fixed values or to history.  In particular every
\* required parameter has a value.
PutIsIdempotent == \A w \in Spaces : put[w].there =>
    /\ Accepted(put[w].object, ws[w].params)
    /\ Resolved(put[w].object, ws[w].params) = ws[w].params

\* A workspace reported successful was built with exactly its values of the
\* parameters the template defines, except where a definition was made,
\* changed or deleted after the request that led to the build.
SuccessIsDelivered == \A w \in Spaces : ws[w].status = "success" =>
    /\ coder[w].there
    /\ \A p \in Params \ touched[w] :
          coder[w].object[p] = IF IsUser(p) THEN ws[w].params[p] ELSE NoValue

\* No workspace is left with an image or a module its template does not offer,
\* while images are deleted, modules replaced and workspaces reconfigured.
ConfigurationIsAllowed == \A w \in Spaces : Exists(w) =>
    Allowed(ws[w].image, ws[w].modules)

\* The value of w for p is changed or dropped.
Reassigned(w, p) == /\ Exists(w) /\ ws'[w].status # "absent"
                    /\ ws[w].params[p] # NoValue
                    /\ ws'[w].params[p] # ws[w].params[p]

\* A value once assigned changes or disappears only while its parameter is
\* defined and mutable: neither omission, nor defaults, nor the deletion of the
\* definition, nor a system parameter that takes its name can lose it.
FixedValuesStay == [][\A w \in Spaces, p \in Params :
                          Reassigned(w, p) => IsUser(p) /\ defs[p].mutable]_cvars
=============================================================================
