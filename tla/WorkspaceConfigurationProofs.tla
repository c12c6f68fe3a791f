--------------------- MODULE WorkspaceConfigurationProofs ---------------------
(***************************************************************************)
(* Proofs about WorkspaceConfiguration, for any template, any number of    *)
(* workspaces and any number of catalog requests.                          *)
(***************************************************************************)
EXTENDS WorkspaceConfiguration, TLAPS

\* A definition has typed fields, whatever its kind.
LEMMA DefinitionFields ==
    ASSUME NEW d \in Defined \cup {Undefined}
    PROVE  /\ d.type \in {"none", "system", "user"}
           /\ d.required \in BOOLEAN
           /\ d.mutable \in BOOLEAN
           /\ d.default \in Values \cup {NoValue}
<1> USE DEF Definition
<1>1. CASE d \in UserDefinitions
  <2> PICK r \in BOOLEAN, m \in BOOLEAN, v \in Values \cup {NoValue} :
           d = Definition("user", r, m, v)
    BY <1>1 DEF UserDefinitions
  <2> QED OBVIOUS
<1>2. CASE d = System
  BY <1>2 DEF System
<1>3. CASE d = Undefined
  BY <1>3 DEF Undefined
<1> QED BY <1>1, <1>2, <1>3 DEF Defined

\* _resolve_parameters returns an object.
LEMMA ResolvedIsObject ==
    ASSUME CTypeOK, NEW s \in Objects, NEW o \in Objects
    PROVE  Resolved(s, o) \in Objects
<1>1. \A p \in Params : defs[p].default \in Values \cup {NoValue}
  BY DefinitionFields DEF CTypeOK
<1> QED BY <1>1 DEF Resolved, Chosen, Fixed, IsUser, Objects

\* What the step sends is an object.
LEMMA SendableIsObject ==
    ASSUME NEW o \in Objects
    PROVE  Sendable(o) \in Objects
BY DEF Sendable, Objects, IsUser

\* The initial state is well typed.
LEMMA InitTyped == CInit => CTypeOK
BY DEF CInit, CTypeOK, NoRow, Row, None, Nothing, Optional, Objects, Statuses

\* Every step keeps the types.
LEMMA NextTyped == CTypeOK /\ [CNext]_cvars => CTypeOK'
<1> SUFFICES ASSUME CTypeOK, [CNext]_cvars PROVE CTypeOK'
  OBVIOUS
<1> USE DEF CTypeOK
<1> Nothing \in Objects /\ None \in Optional
  BY DEF Nothing, Objects, None, Optional
<1>a. ASSUME NEW o \in Objects PROVE Some(o) \in Optional
  BY <1>a DEF Some, Optional
<1> HIDE DEF CTypeOK
<1>1. CASE CatalogStep
  <2>1. ASSUME NEW p \in Params, NEW d \in Defined \cup {Undefined}, Redefine(p, d)
        PROVE  CTypeOK'
    BY <2>1 DEF Redefine, CatalogRequest, CTypeOK
  <2>2. ASSUME NEW images \in SUBSET Images, NEW modules \in SUBSET Modules,
               Catalog(images, modules)
        PROVE  CTypeOK'
    BY <2>2 DEF Catalog, CatalogRequest, CTypeOK
  <2> QED
    <3> catalog.images \in SUBSET Images /\ catalog.modules \in SUBSET Modules
      BY DEF CTypeOK
    <3> QED
      BY <1>1, <2>1, <2>2 DEF CatalogStep, CreateParameter, UpdateParameter,
         DeleteParameter, CreateImage, DeleteImage, ReplaceModules
<1>2. ASSUME NEW w \in Spaces, RequestStep(w) PROVE CTypeOK'
  <2> ws[w].params \in Objects
    BY DEF CTypeOK
  <2>1. ASSUME NEW supplied \in Objects, NEW image \in Images,
               NEW modules \in SUBSET Modules,
               CreateWorkspace(w, supplied, image, modules)
        PROVE  CTypeOK'
    <3> Resolved(supplied, Nothing) \in Objects
      BY ResolvedIsObject
    <3> Some(supplied) \in Optional
      BY <1>a
    <3> HIDE DEF Resolved
    <3> QED BY <2>1 DEF CreateWorkspace, SetRow, Row, Accept, CTypeOK, Exists, Statuses
  <2>2. ASSUME NEW supplied \in Objects, NEW image \in Images,
               NEW modules \in SUBSET Modules,
               UpdateWorkspace(w, supplied, image, modules)
        PROVE  CTypeOK'
    <3> Resolved(supplied, ws[w].params) \in Objects
      BY ResolvedIsObject
    <3> Some(supplied) \in Optional
      BY <1>a
    <3>1. CASE ws' = ws
      BY <2>2, <3>1 DEF UpdateWorkspace, Accept, CTypeOK
    <3>2. CASE \E dirty \in BOOLEAN : ws' = [ws EXCEPT ![w] =
                  Row("pending", "updating", Resolved(supplied, ws[w].params),
                      dirty, image, modules)]
      BY <2>2, <3>2 DEF UpdateWorkspace, Row, Accept, CTypeOK, Statuses
    <3> QED BY <2>2, <3>1, <3>2 DEF UpdateWorkspace, SetRow, CTypeOK
  <2>3. ASSUME DeleteWorkspace(w) PROVE CTypeOK'
    BY <2>3 DEF DeleteWorkspace, SetRow, Moved, Row, CTypeOK, Statuses
  <2> QED BY <1>2, <2>1, <2>2, <2>3 DEF RequestStep
<1>3. ASSUME NEW w \in Spaces, JobStep(w) PROVE CTypeOK'
  <2> ws[w].params \in Objects
    BY DEF CTypeOK
  <2>1. ASSUME Snapshot(w) PROVE CTypeOK'
    <3> Some(Sendable(ws[w].params)) \in Optional
      BY SendableIsObject, <1>a
    <3> QED BY <2>1 DEF Snapshot, SetRow, Moved, Row, CTypeOK, Statuses
  <2>2. ASSUME Build(w) PROVE CTypeOK'
    BY <2>2 DEF Build, CTypeOK
  <2>3. ASSUME Complete(w) PROVE CTypeOK'
    BY <2>3 DEF Complete, SetRow, Row, CTypeOK, Statuses, None
  <2>4. ASSUME Remove(w) PROVE CTypeOK'
    BY <2>4 DEF Remove, SetRow, NoRow, Row, CTypeOK, Statuses, None
  <2>5. ASSUME FailAttempt(w) PROVE CTypeOK'
    BY <2>5 DEF FailAttempt, SetRow, Moved, Row, CTypeOK, Statuses, None
  <2> QED BY <1>3, <2>1, <2>2, <2>3, <2>4, <2>5 DEF JobStep
<1>4. CASE UNCHANGED cvars
  BY <1>4 DEF cvars, CTypeOK
<1> QED BY <1>1, <1>2, <1>3, <1>4 DEF CNext

\* Definitions, rows, snapshots and builds keep their types.
THEOREM ConfigurationTypeCorrect == CSpec => []CTypeOK
BY InitTyped, NextTyped, PTL DEF CSpec

-----------------------------------------------------------------------------
\* The workspaces of the next state have images and modules of the catalog.
LEMMA NextAllowed ==
    CTypeOK /\ ConfigurationIsAllowed /\ [CNext]_cvars => ConfigurationIsAllowed'
<1> SUFFICES ASSUME CTypeOK, ConfigurationIsAllowed, [CNext]_cvars
             PROVE  ConfigurationIsAllowed'
  OBVIOUS
<1> USE DEF ConfigurationIsAllowed, Exists, Allowed
<1>1. CASE CatalogStep
  <2>1. ASSUME NEW p \in Params, NEW d, Redefine(p, d)
        PROVE  ConfigurationIsAllowed'
    BY <2>1 DEF Redefine
  <2>2. ASSUME NEW i \in Images, CreateImage(i) \/ DeleteImage(i)
        PROVE  ConfigurationIsAllowed'
    BY <2>2 DEF CreateImage, DeleteImage, Catalog
  <2>3. ASSUME NEW modules \in SUBSET Modules, ReplaceModules(modules)
        PROVE  ConfigurationIsAllowed'
    BY <2>3 DEF ReplaceModules, Catalog
  <2> QED BY <1>1, <2>1, <2>2, <2>3
       DEF CatalogStep, CreateParameter, UpdateParameter, DeleteParameter
<1>2. ASSUME NEW w \in Spaces, RequestStep(w) PROVE ConfigurationIsAllowed'
  <2>1. ASSUME NEW supplied \in Objects, NEW image \in Images,
               NEW modules \in SUBSET Modules,
               \/ CreateWorkspace(w, supplied, image, modules)
               \/ UpdateWorkspace(w, supplied, image, modules)
        PROVE  ConfigurationIsAllowed'
    <3> catalog' = catalog /\ image \in catalog.images /\ modules \subseteq catalog.modules
      BY <2>1 DEF CreateWorkspace, UpdateWorkspace
    <3> ws' = ws \/ \E status, action, params, dirty :
                      ws' = [ws EXCEPT ![w] = Row(status, action, params, dirty,
                                                  image, modules)]
      BY <2>1, Zenon DEF CreateWorkspace, UpdateWorkspace, SetRow
    <3> QED BY DEF Row, CTypeOK
  <2>2. ASSUME DeleteWorkspace(w) PROVE ConfigurationIsAllowed'
    BY <2>2 DEF DeleteWorkspace, SetRow, Moved, Row, CTypeOK
  <2> QED BY <1>2, <2>1, <2>2 DEF RequestStep
<1>3. ASSUME NEW w \in Spaces, JobStep(w) PROVE ConfigurationIsAllowed'
  <2>1. CASE Snapshot(w) \/ FailAttempt(w)
    <3> catalog' = catalog /\ \E status : ws' = [ws EXCEPT ![w] =
                                   Moved(w, status, ws[w].action)]
      BY <2>1 DEF Snapshot, FailAttempt, SetRow
    <3> Exists(w)
      BY <2>1 DEF Snapshot, FailAttempt, CTypeOK
    <3> QED BY DEF Moved, Row, CTypeOK
  <2>2. CASE Build(w)
    BY <2>2 DEF Build
  <2>3. CASE Complete(w)
    BY <2>3 DEF Complete, SetRow, Row, CTypeOK
  <2>4. CASE Remove(w)
    BY <2>4 DEF Remove, SetRow, NoRow, Row, CTypeOK
  <2> QED BY <1>3, <2>1, <2>2, <2>3, <2>4 DEF JobStep
<1>4. CASE UNCHANGED cvars
  BY <1>4 DEF cvars
<1> QED BY <1>1, <1>2, <1>3, <1>4 DEF CNext

\* Image deletion, module replacement and workspace requests never leave a
\* workspace with an image or a module its template does not offer.
THEOREM AllowedCorrect == CSpec => []ConfigurationIsAllowed
<1>1. CInit => ConfigurationIsAllowed
  BY DEF CInit, ConfigurationIsAllowed, Exists, NoRow, Row
<1> QED BY <1>1, NextAllowed, ConfigurationTypeCorrect, PTL DEF CSpec

-----------------------------------------------------------------------------
\* What resolution does to one parameter: a value changes or is dropped only
\* for a mutable user parameter.
LEMMA ResolutionKeepsFixed ==
    ASSUME CTypeOK, NEW s \in Objects, NEW o \in Objects, Accepted(s, o),
           NEW p \in Params, o[p] # NoValue, Resolved(s, o)[p] # o[p]
    PROVE  IsUser(p) /\ defs[p].mutable
BY DEF Accepted, Resolved, Fixed, IsUser, Objects

\* A value once assigned changes or disappears only while its parameter is
\* defined and mutable.
THEOREM FixedValues == CSpec => FixedValuesStay
<1> DEFINE Keeps == \A w \in Spaces, p \in Params :
                       Reassigned(w, p) => IsUser(p) /\ defs[p].mutable
<1>1. CTypeOK /\ [CNext]_cvars => [Keeps]_cvars
  <2> SUFFICES ASSUME CTypeOK, CNext, NEW w \in Spaces, NEW p \in Params,
                      Reassigned(w, p)
               PROVE  IsUser(p) /\ defs[p].mutable
    OBVIOUS
  <2> USE DEF Reassigned, Exists
  <2>1. CASE CatalogStep
    BY <2>1 DEF CatalogStep, CreateParameter, UpdateParameter, DeleteParameter,
       Redefine, CreateImage, DeleteImage, ReplaceModules, Catalog
  <2>2. ASSUME NEW v \in Spaces, RequestStep(v)
        PROVE  IsUser(p) /\ defs[p].mutable
    <3>1. ASSUME NEW supplied \in Objects, NEW image \in Images,
                 NEW modules \in SUBSET Modules,
                 CreateWorkspace(v, supplied, image, modules)
          PROVE  FALSE
      BY <3>1 DEF CreateWorkspace, SetRow, CTypeOK
    <3>2. ASSUME NEW supplied \in Objects, NEW image \in Images,
                 NEW modules \in SUBSET Modules,
                 UpdateWorkspace(v, supplied, image, modules)
          PROVE  IsUser(p) /\ defs[p].mutable
      <4>1. /\ Accepted(supplied, ws[v].params)
            /\ \/ ws' = ws
               \/ \E dirty : ws' = [ws EXCEPT ![v] =
                    Row("pending", "updating", Resolved(supplied, ws[v].params),
                        dirty, image, modules)]
        BY <3>2, Zenon DEF UpdateWorkspace, SetRow
      <4>2. v = w /\ ws'[w].params = Resolved(supplied, ws[w].params)
        BY <4>1 DEF Row, CTypeOK
      <4>3. ws[w].params \in Objects
        BY DEF CTypeOK
      <4> QED BY <4>1, <4>2, <4>3, ResolutionKeepsFixed
    <3>3. CASE DeleteWorkspace(v)
      BY <3>3 DEF DeleteWorkspace, SetRow, Moved, Row, CTypeOK
    <3> QED BY <2>2, <3>1, <3>2, <3>3 DEF RequestStep
  <2>3. ASSUME NEW v \in Spaces, JobStep(v) PROVE FALSE
    <3>1. CASE Snapshot(v) \/ FailAttempt(v) \/ Complete(v)
      <4> \E status, dirty : ws' = [ws EXCEPT ![v] =
              Row(status, ws[v].action, ws[v].params, dirty, ws[v].image,
                  ws[v].modules)]
        BY <3>1, Zenon DEF Snapshot, FailAttempt, Complete, SetRow, Moved
      <4> QED BY DEF Row, CTypeOK
    <3>2. CASE Build(v)
      BY <3>2 DEF Build
    <3>3. CASE Remove(v)
      BY <3>3 DEF Remove, SetRow, NoRow, Row, CTypeOK
    <3> QED BY <2>3, <3>1, <3>2, <3>3 DEF JobStep
  <2> QED BY <2>1, <2>2, <2>3 DEF CNext
<1> QED BY <1>1, ConfigurationTypeCorrect, PTL DEF CSpec, FixedValuesStay

-----------------------------------------------------------------------------
\* Resolving a payload against its own result accepts it and changes nothing.
LEMMA ResolveTwice ==
    ASSUME CTypeOK, NEW s \in Objects, NEW o \in Objects, Accepted(s, o)
    PROVE  /\ Accepted(s, Resolved(s, o))
           /\ Resolved(s, Resolved(s, o)) = Resolved(s, o)
<1> DEFINE r == Resolved(s, o)
<1>1. ASSUME NEW p \in Params, IsUser(p)
      PROVE  /\ r[p] = Chosen(p, s, o)
             /\ Chosen(p, s, r) = r[p]
  BY <1>1 DEF Resolved, Chosen, Fixed
<1>2. ASSUME NEW p \in Params, ~IsUser(p)
      PROVE  r[p] = o[p]
  BY <1>2 DEF Resolved
<1>3. Accepted(s, r)
  BY <1>1, <1>2 DEF Accepted
<1>4. Resolved(s, r) = r
  <2> HIDE DEF r
  <2>1. \A p \in Params : Resolved(s, r)[p] = r[p]
    BY <1>1 DEF Resolved
  <2> QED BY <2>1 DEF Resolved, r
<1> QED BY <1>3, <1>4

\* Repeating a payload means the same as long as no definition changes.
LEMMA SameMeaning ==
    ASSUME CTypeOK, defs' = defs,
           NEW w \in Spaces, NEW s \in Objects, NEW o \in Objects,
           put'[w].object = s, ws'[w].params = o,
           Accepted(s, o), Resolved(s, o) = o
    PROVE  /\ Accepted(put[w].object, ws[w].params)'
           /\ (Resolved(put[w].object, ws[w].params) = ws[w].params)'
BY DEF Accepted, Resolved, Chosen, Fixed, IsUser

\* Every step leaves payloads that can be repeated.
LEMMA NextIdempotent ==
    CTypeOK /\ PutIsIdempotent /\ [CNext]_cvars => PutIsIdempotent'
<1> SUFFICES ASSUME CTypeOK, PutIsIdempotent, [CNext]_cvars,
                    NEW w \in Spaces, put'[w].there
             PROVE  /\ Accepted(put[w].object, ws[w].params)'
                    /\ (Resolved(put[w].object, ws[w].params) = ws[w].params)'
  BY DEF PutIsIdempotent
<1>a. ws[w].params \in Objects /\ put[w].object \in Objects
  BY DEF CTypeOK, Optional
<1>b. CASE defs' = defs /\ put'[w] = put[w] /\ ws'[w].params = ws[w].params
  <2> DEFINE s == put[w].object
             o == ws[w].params
  <2>1. /\ s \in Objects /\ o \in Objects /\ put'[w].object = s
        /\ ws'[w].params = o
    BY <1>a, <1>b
  <2>2. Accepted(s, o) /\ Resolved(s, o) = o
    BY <1>b DEF PutIsIdempotent
  <2> HIDE DEF s, o
  <2> QED BY <1>b, <2>1, <2>2, SameMeaning
<1>1. CASE CatalogStep
  <2>1. ASSUME NEW p \in Params, NEW d, Redefine(p, d) PROVE FALSE
    BY <2>1 DEF Redefine, None
  <2>2. ASSUME NEW images, NEW modules, Catalog(images, modules)
        PROVE  defs' = defs /\ put'[w] = put[w] /\ ws'[w].params = ws[w].params
    BY <2>2 DEF Catalog
  <2> QED BY <1>1, <1>b, <2>1, <2>2 DEF CatalogStep, CreateParameter,
       UpdateParameter, DeleteParameter, CreateImage, DeleteImage, ReplaceModules
<1>2. ASSUME NEW v \in Spaces, RequestStep(v)
      PROVE  /\ Accepted(put[w].object, ws[w].params)'
             /\ (Resolved(put[w].object, ws[w].params) = ws[w].params)'
  <2>1. ASSUME NEW supplied \in Objects, NEW old \in Objects,
               defs' = defs, Accepted(supplied, old),
               put' = [put EXCEPT ![v] = Some(supplied)],
               ws'[v].params = Resolved(supplied, old),
               \A u \in Spaces \ {v} : ws'[u] = ws[u]
        PROVE  /\ Accepted(put[w].object, ws[w].params)'
               /\ (Resolved(put[w].object, ws[w].params) = ws[w].params)'
    <3>1. CASE w = v
      <4>1. put'[w].object = supplied
        BY <2>1, <3>1 DEF Some, CTypeOK
      <4> DEFINE o == Resolved(supplied, old)
      <4>2. Accepted(supplied, o) /\ Resolved(supplied, o) = o
        BY <2>1, ResolveTwice
      <4>3. o \in Objects /\ ws'[w].params = o
        BY <2>1, <3>1, ResolvedIsObject
      <4> HIDE DEF o
      <4> QED BY <2>1, <4>1, <4>2, <4>3, SameMeaning
    <3>2. CASE w # v
      BY <2>1, <3>2, <1>b DEF CTypeOK
    <3> QED BY <3>1, <3>2
  <2>2. ASSUME NEW supplied \in Objects, NEW image \in Images,
               NEW modules \in SUBSET Modules,
               CreateWorkspace(v, supplied, image, modules)
        PROVE  \E old \in Objects :
                  /\ defs' = defs /\ Accepted(supplied, old)
                  /\ put' = [put EXCEPT ![v] = Some(supplied)]
                  /\ ws'[v].params = Resolved(supplied, old)
                  /\ \A u \in Spaces \ {v} : ws'[u] = ws[u]
    <3> Nothing \in Objects
      BY DEF Nothing, Objects
    <3>1. /\ defs' = defs /\ Accepted(supplied, Nothing)
          /\ put' = [put EXCEPT ![v] = Some(supplied)]
          /\ ws' = [ws EXCEPT ![v] = Row("pending", "creating",
                       Resolved(supplied, Nothing), TRUE, image, modules)]
      BY <2>2 DEF CreateWorkspace, Accept, SetRow
    <3> HIDE DEF Nothing
    <3>2. /\ ws'[v].params = Resolved(supplied, Nothing)
          /\ \A u \in Spaces \ {v} : ws'[u] = ws[u]
      BY <3>1 DEF Row, CTypeOK
    <3> QED BY <3>1, <3>2
  <2>3. ASSUME NEW supplied \in Objects, NEW image \in Images,
               NEW modules \in SUBSET Modules,
               UpdateWorkspace(v, supplied, image, modules)
        PROVE  /\ defs' = defs /\ Accepted(supplied, ws[v].params)
               /\ put' = [put EXCEPT ![v] = Some(supplied)]
               /\ ws'[v].params = Resolved(supplied, ws[v].params)
               /\ \A u \in Spaces \ {v} : ws'[u] = ws[u]
    <3>1. /\ defs' = defs /\ Accepted(supplied, ws[v].params)
          /\ put' = [put EXCEPT ![v] = Some(supplied)]
          /\ \/ ws' = ws /\ Resolved(supplied, ws[v].params) = ws[v].params
             \/ \E dirty : ws' = [ws EXCEPT ![v] =
                  Row("pending", "updating", Resolved(supplied, ws[v].params),
                      dirty, image, modules)]
      BY <2>3, Zenon DEF UpdateWorkspace, Accept, SetRow
    <3> QED BY <3>1 DEF Row, CTypeOK
  <2>4. CASE DeleteWorkspace(v)
    <3> defs' = defs /\ put'[w] = put[w] /\ ws'[w].params = ws[w].params
      BY <2>4 DEF DeleteWorkspace, SetRow, Moved, Row, CTypeOK
    <3> QED BY <1>b
  <2> ws[v].params \in Objects
    BY DEF CTypeOK
  <2> QED BY <1>2, <2>1, <2>2, <2>3, <2>4 DEF RequestStep
<1>3. ASSUME NEW v \in Spaces, JobStep(v)
      PROVE  defs' = defs /\ put'[w] = put[w] /\ ws'[w].params = ws[w].params
  <2>1. CASE Snapshot(v) \/ FailAttempt(v) \/ Complete(v)
    <3> \E status, dirty : ws' = [ws EXCEPT ![v] =
            Row(status, ws[v].action, ws[v].params, dirty, ws[v].image,
                ws[v].modules)]
      BY <2>1, Zenon DEF Snapshot, FailAttempt, Complete, SetRow, Moved
    <3> defs' = defs /\ put' = put
      BY <2>1 DEF Snapshot, FailAttempt, Complete
    <3> QED BY DEF Row, CTypeOK
  <2>2. CASE Build(v)
    BY <2>2 DEF Build
  <2>3. CASE Remove(v)
    BY <2>3 DEF Remove, SetRow, None, CTypeOK
  <2> QED BY <1>3, <2>1, <2>2, <2>3 DEF JobStep
<1>4. CASE UNCHANGED cvars
  BY <1>4, <1>b DEF cvars
<1> QED BY <1>1, <1>2, <1>3, <1>4, <1>b DEF CNext

\* An accepted workspace payload can be repeated without any effect, as long as
\* no parameter definition changes.
THEOREM IdempotentCorrect == CSpec => []PutIsIdempotent
<1>1. CInit => PutIsIdempotent
  BY DEF CInit, PutIsIdempotent, None
<1> QED BY <1>1, NextIdempotent, ConfigurationTypeCorrect, PTL DEF CSpec

-----------------------------------------------------------------------------
\* The object o agrees with what the template now defines of the row of w,
\* except for the touched parameters.
Matches(w, o) == \A p \in Params \ touched[w] :
    o[p] = IF IsUser(p) THEN ws[w].params[p] ELSE NoValue

\* Why success means delivery: the snapshot of a running attempt matches the
\* row, a clean row matches its remote build, success is clean, and a row that
\* is still being created is not.
Delivery == \A w \in Spaces :
    /\ sent[w].there => Matches(w, sent[w].object)
    /\ ~ws[w].dirty => coder[w].there /\ Matches(w, coder[w].object)
    /\ ws[w].status = "success" => ~ws[w].dirty
    /\ ws[w].action = "creating" /\ ws[w].status # "success" => ws[w].dirty

\* Every step keeps the delivery invariant.
LEMMA NextDelivery == CTypeOK /\ Delivery /\ [CNext]_cvars => Delivery'
<1> SUFFICES ASSUME CTypeOK, Delivery, [CNext]_cvars PROVE Delivery'
  OBVIOUS
<1> USE DEF Delivery, Matches, IsUser
<1>1. CASE CatalogStep
  <2>1. ASSUME NEW p \in Params, NEW d, Redefine(p, d) PROVE Delivery'
    BY <2>1 DEF Redefine, CTypeOK
  <2>2. ASSUME NEW images, NEW modules, Catalog(images, modules) PROVE Delivery'
    BY <2>2 DEF Catalog
  <2> QED BY <1>1, <2>1, <2>2 DEF CatalogStep, CreateParameter, UpdateParameter,
       DeleteParameter, CreateImage, DeleteImage, ReplaceModules
<1>2. ASSUME NEW w \in Spaces, RequestStep(w) PROVE Delivery'
  <2>1. ASSUME NEW supplied \in Objects, NEW image \in Images,
               NEW modules \in SUBSET Modules,
               CreateWorkspace(w, supplied, image, modules)
        PROVE  Delivery'
    <3>1. /\ ws' = [ws EXCEPT ![w] = Row("pending", "creating",
                       Resolved(supplied, Nothing), TRUE, image, modules)]
          /\ touched' = [touched EXCEPT ![w] = {}]
          /\ ~sent[w].there
          /\ UNCHANGED <<defs, sent, coder>>
      BY <2>1 DEF CreateWorkspace, SetRow, Accept, Exists, CTypeOK
    <3> QED BY <3>1 DEF Row, CTypeOK
  <2>2. ASSUME NEW supplied \in Objects, NEW image \in Images,
               NEW modules \in SUBSET Modules,
               UpdateWorkspace(w, supplied, image, modules)
        PROVE  Delivery'
    <3> DEFINE params == Resolved(supplied, ws[w].params)
               dirty == ws[w].dirty \/ params # ws[w].params
    <3>1. UNCHANGED <<defs, sent, coder>> /\ ~sent[w].there
      BY <2>2 DEF UpdateWorkspace, CTypeOK
    <3>2. \/ ws' = ws /\ touched' = touched
          \/ /\ ws' = [ws EXCEPT ![w] =
                          Row("pending", "updating", params, dirty, image, modules)]
             /\ touched' = [touched EXCEPT ![w] = IF dirty THEN {} ELSE @]
      BY <2>2 DEF UpdateWorkspace, SetRow, Accept, CTypeOK
    <3>3. CASE ws' = ws /\ touched' = touched
      BY <3>1, <3>3
    <3>4. CASE /\ ws' = [ws EXCEPT ![w] =
                           Row("pending", "updating", params, dirty, image, modules)]
               /\ touched' = [touched EXCEPT ![w] = IF dirty THEN {} ELSE @]
      <4>1. \A u \in Spaces \ {w} : ws'[u] = ws[u] /\ touched'[u] = touched[u]
        BY <3>4 DEF CTypeOK
      <4>2. /\ ws'[w].status = "pending" /\ ws'[w].action = "updating"
            /\ ws'[w].dirty = dirty /\ ws'[w].params = params
        BY <3>4 DEF Row, CTypeOK
      <4>3. ~dirty => params = ws[w].params /\ touched'[w] = touched[w]
        BY <3>4 DEF CTypeOK
      <4>4. ~dirty => ~ws[w].dirty
        OBVIOUS
      <4> HIDE DEF params, dirty
      <4> SUFFICES ASSUME NEW u \in Spaces
                   PROVE  /\ sent'[u].there => Matches(u, sent[u].object)'
                          /\ ~ws'[u].dirty => /\ coder'[u].there
                                              /\ Matches(u, coder[u].object)'
                          /\ ws'[u].status = "success" => ~ws'[u].dirty
                          /\ /\ ws'[u].action = "creating"
                             /\ ws'[u].status # "success"
                             => ws'[u].dirty
        OBVIOUS
      <4>5. CASE u # w
        BY <3>1, <4>1, <4>5
      <4>6. CASE u = w
        BY <3>1, <4>2, <4>3, <4>4, <4>6
      <4> QED BY <4>5, <4>6
    <3> QED BY <3>2, <3>3, <3>4
  <2>3. CASE DeleteWorkspace(w)
    BY <2>3 DEF DeleteWorkspace, SetRow, Moved, Row, CTypeOK
  <2> QED BY <1>2, <2>1, <2>2, <2>3 DEF RequestStep
<1>3. ASSUME NEW w \in Spaces, JobStep(w) PROVE Delivery'
  <2>1. CASE Snapshot(w)
    BY <2>1 DEF Snapshot, SetRow, Moved, Row, Some, Sendable, CTypeOK
  <2>2. CASE Build(w)
    BY <2>2 DEF Build, CTypeOK
  <2>3. CASE Complete(w)
    BY <2>3 DEF Complete, SetRow, Row, Delivered, None, CTypeOK
  <2>4. CASE Remove(w)
    BY <2>4 DEF Remove, SetRow, NoRow, Row, None, CTypeOK
  <2>5. CASE FailAttempt(w)
    BY <2>5 DEF FailAttempt, SetRow, Moved, Row, None, CTypeOK
  <2> QED BY <1>3, <2>1, <2>2, <2>3, <2>4, <2>5 DEF JobStep
<1>4. CASE UNCHANGED cvars
  BY <1>4 DEF cvars
<1> QED BY <1>1, <1>2, <1>3, <1>4 DEF CNext

\* A successful workspace was built with its values of the parameters the
\* template defines, except those redefined after its request.
THEOREM DeliveryCorrect == CSpec => []SuccessIsDelivered
<1>1. CInit => Delivery
  <2> SUFFICES ASSUME CInit, NEW w \in Spaces
               PROVE  /\ ~sent[w].there /\ ws[w].dirty
                      /\ ws[w].status # "success"
    BY ZenonT(30) DEF Delivery
  <2>1. sent[w] = None /\ ws[w] = NoRow
    BY DEF CInit
  <2>2. ~None.there /\ NoRow.dirty /\ NoRow.status # "success"
    BY DEF None, NoRow, Row
  <2> QED BY <2>1, <2>2
<1>2. CTypeOK /\ Delivery => SuccessIsDelivered
  BY DEF Delivery, Matches, SuccessIsDelivered
<1> QED BY <1>1, <1>2, NextDelivery, ConfigurationTypeCorrect, PTL DEF CSpec
=============================================================================
