-------------------------- MODULE GovernanceProofs --------------------------
(* Theorems about FactorGovernance, for every factor, every number of      *)
(* administrators and every interruption.                                  *)
EXTENDS FactorGovernance, TLAPS

-----------------------------------------------------------------------------
(* What the helpers return.                                                *)

LEMMA GivenVersionField ==
    ASSUME NEW fields, Sent(fields, VersionFields), NEW default
    PROVE  /\ "label" \in DOMAIN fields \/ default \in Labels
                => Given(fields, "label", default) \in Labels
           /\ "content" \in DOMAIN fields \/ default \in Contents
                => Given(fields, "content", default) \in Contents
           /\ "slot" \in DOMAIN fields \/ default \in Slots
                => Given(fields, "slot", default) \in Slots
           /\ "source" \in DOMAIN fields \/ default \in Sources
                => Given(fields, "source", default) \in Sources
BY DEF Sent, VersionFields, Given

LEMMA PatchedType ==
    ASSUME NEW fields, Sent(fields, SourceFields), NEW source \in Source
    PROVE  Patched(source, fields) \in Source
BY DEF Sent, SourceFields, Given, Patched, Source

LEMMA NewRowType ==
    ASSUME TypeOK, NEW p \in Requests, kind[p] = "create", pc[p] # "refused"
    PROVE  NewRow(p) \in Row
<1>1. Sent(dto[p], VersionFields) /\ label[p] \in Labels
    BY DEF TypeOK, Remembers
<1>2. \/ view[p] \in Row
      \/ {"content", "slot", "source"} \subseteq DOMAIN dto[p]
    BY DEF TypeOK, Remembers
<1>3. /\ Given(dto[p], "content", view[p].content) \in Contents
      /\ Given(dto[p], "slot", view[p].slot) \in Slots
      /\ Given(dto[p], "source", view[p].source) \in Sources
    BY <1>1, <1>2, GivenVersionField DEF Row
<1> QED
    BY <1>1, <1>3 DEF NewRow, Row, Status

LEMMA EditedRowType ==
    ASSUME TypeOK, NEW p \in Requests, kind[p] = "edit"
    PROVE  target[p] \in Existing /\ EditedRow(p) \in Row
<1> DEFINE row == versions[target[p]]
<1>1. Sent(dto[p], VersionFields) /\ target[p] \in Existing /\ row \in Row
    BY DEF TypeOK, Remembers, Existing
<1>2. /\ Given(dto[p], "label", row.label) \in Labels
      /\ Given(dto[p], "content", row.content) \in Contents
      /\ Given(dto[p], "slot", row.slot) \in Slots
      /\ Given(dto[p], "source", row.source) \in Sources
    BY <1>1, GivenVersionField DEF Row
<1> QED
    BY <1>1, <1>2 DEF EditedRow, Row

(* A version stays: what the handlers remember of versions stays true when *)
(* one is stored.                                                          *)
LEMMA StoreType ==
    ASSUME TypeOK, NEW p \in Requests, NEW v \in Versions, NEW row \in Row, Store(p, v, row)
    PROVE  /\ versions' \in [Versions -> Row \cup {NoVersion}]
           /\ wrote' \in [Requests -> Written \cup {NoVersion}]
           /\ Existing \subseteq Existing' /\ v \in Existing'
           /\ wrote'[p] # NoVersion
           /\ \A q \in Requests : q # p => wrote'[q] = wrote[q]
<1>1. /\ versions \in [Versions -> Row \cup {NoVersion}]
      /\ wrote \in [Requests -> Written \cup {NoVersion}]
      /\ NoVersion \notin Row \cup Written
    BY GovernanceAssumption DEF TypeOK
<1>2. [version |-> v, row |-> row] \in Written
    BY DEF Written
<1>3. /\ versions' = [versions EXCEPT ![v] = row]
      /\ wrote' = [wrote EXCEPT ![p] = [version |-> v, row |-> row]]
    BY DEF Store
<1> HIDE DEF Written
<1> QED
    BY <1>1, <1>2, <1>3 DEF Existing

-----------------------------------------------------------------------------
(* TypeOK is inductive.                                                    *)

LEMMA TypeInit == Init => TypeOK
BY GovernanceAssumption DEF Init, TypeOK, Remembers, Handlers, Existing, Pcs, Kinds, Labels,
   Row, Source

(* A handler begins, with what its steps need to know.                     *)
LEMMA BeginType ==
    ASSUME TypeOK, NEW p \in Requests, NEW k \in Kinds,
           NEW t \in Versions \cup Sources \cup {NoVersion},
           NEW fields \in {<< >>, [active |-> FALSE]} \cup NewVersions \cup Edits \cup Patches,
           NEW row \in Row \cup {NoVersion}, NEW step \in Pcs \ {"noting", "reviewing", "logging"},
           Begin(p, k, t, fields, row, step),
           k \in Handlers(step),
           k \in {"verify", "deprecate", "archive", "edit"} => t \in Existing /\ row \in Row,
           k \in {"create", "edit"} => Sent(fields, VersionFields),
           k = "create" /\ row = NoVersion /\ step # "refused" =>
               {"content", "slot", "source"} \subseteq DOMAIN fields,
           k \in {"patch", "remove"} => t \in Sources /\ Sent(fields, SourceFields)
    PROVE  TypeOK'
<1>1. /\ UNCHANGED <<versions, sources, reviews, log, found, label, wrote>>
      /\ pc' = [pc EXCEPT ![p] = step]
      /\ kind' = [kind EXCEPT ![p] = k]
      /\ target' = [target EXCEPT ![p] = t]
      /\ dto' = [dto EXCEPT ![p] = fields]
      /\ view' = [view EXCEPT ![p] = row]
    BY DEF Begin, Goto, tables
<1>2. Existing' = Existing
    BY <1>1 DEF Existing
<1>3. /\ pc'[p] = step /\ kind'[p] = k /\ target'[p] = t /\ dto'[p] = fields /\ view'[p] = row
      /\ \A q \in Requests \ {p} :
            /\ pc'[q] = pc[q] /\ kind'[q] = kind[q] /\ target'[q] = target[q]
            /\ dto'[q] = dto[q] /\ view'[q] = view[q]
    BY <1>1 DEF TypeOK
<1>4. ASSUME NEW q \in Requests PROVE Remembers(q)'
    <2>1. Remembers(q)
        BY DEF TypeOK
    <2>2. CASE q = p
        BY <1>1, <1>2, <1>3, <2>1, <2>2 DEF Remembers, Handlers
    <2>3. CASE q # p
        BY <1>1, <1>2, <1>3, <2>1, <2>3 DEF Remembers, Handlers
    <2> QED
        BY <2>2, <2>3
<1> QED
    BY <1>1, <1>4 DEF TypeOK

(* A handler goes on, and changes tables other than FactorVersion.         *)
LEMMA GoOnType ==
    ASSUME TypeOK, NEW p \in Requests, NEW step \in Pcs, Goto(p, step),
           UNCHANGED <<versions, kind, target, dto, view, wrote>>,
           sources' \in [Sources -> Source \cup {NoSource}],
           reviews' \subseteq Requests,
           \A e \in log' : e.by \in Requests /\ e.version \in Versions /\ e.new \in Row,
           label' \in [Requests -> Labels],
           found' \in [Requests -> SUBSET Versions],
           \A q \in Requests : found'[q] \subseteq Existing,
           kind[p] \in Handlers(step),
           pc[p] # "refused",
           step \in {"noting", "reviewing", "logging"} => wrote[p] # NoVersion
    PROVE  TypeOK'
<1>1. Existing' = Existing
    BY DEF Existing
<1>2. /\ pc' \in [Requests -> Pcs] /\ pc'[p] = step
      /\ \A q \in Requests \ {p} : pc'[q] = pc[q]
    BY DEF TypeOK, Goto
<1>3. ASSUME NEW q \in Requests PROVE Remembers(q)'
    <2>1. Remembers(q)
        BY DEF TypeOK
    <2>2. CASE q = p
        BY <1>1, <1>2, <2>1, <2>2 DEF Remembers, Handlers
    <2>3. CASE q # p
        BY <1>1, <1>2, <2>1, <2>3 DEF Remembers, Handlers
    <2> QED
        BY <2>2, <2>3
<1> QED
    BY <1>2, <1>3 DEF TypeOK

(* A handler stores a version.                                             *)
LEMMA StoresType ==
    ASSUME TypeOK, NEW p \in Requests, NEW v \in Versions, NEW row \in Row, Store(p, v, row),
           NEW step \in Pcs, Goto(p, step),
           UNCHANGED <<sources, reviews, log, kind, target, dto, view, label>>,
           found' \in [Requests -> SUBSET Versions],
           \A q \in Requests : found'[q] \subseteq Existing,
           kind[p] \in Handlers(step),
           pc[p] # "refused"
    PROVE  TypeOK'
<1>1. /\ versions' \in [Versions -> Row \cup {NoVersion}]
      /\ wrote' \in [Requests -> Written \cup {NoVersion}]
      /\ Existing \subseteq Existing'
      /\ wrote'[p] # NoVersion
      /\ \A q \in Requests : q # p => wrote'[q] = wrote[q]
    BY StoreType
<1>2. /\ pc' \in [Requests -> Pcs] /\ pc'[p] = step
      /\ \A q \in Requests \ {p} : pc'[q] = pc[q]
    BY DEF TypeOK, Goto
<1>3. ASSUME NEW q \in Requests PROVE Remembers(q)'
    <2>1. Remembers(q)
        BY DEF TypeOK
    <2>2. CASE q = p
        BY <1>1, <1>2, <2>1, <2>2 DEF Remembers, Handlers
    <2>3. CASE q # p
        BY <1>1, <1>2, <2>1, <2>3 DEF Remembers, Handlers
    <2> QED
        BY <2>2, <2>3
<1> QED
    BY <1>1, <1>2, <1>3 DEF TypeOK

LEMMA ExistingRow ==
    ASSUME TypeOK, NEW v \in Existing
    PROVE  v \in Versions /\ versions[v] \in Row
BY DEF TypeOK, Existing

LEMMA VerifyingType ==
    ASSUME TypeOK, NEW p \in Requests, Verifying(p)
    PROVE  TypeOK'
<1>1. ASSUME NEW v \in Versions, VerifyRead(p, v) PROVE TypeOK'
    BY <1>1, ExistingRow, BeginType DEF VerifyRead, Kinds, Pcs, Waiting, Handlers
<1>2. ASSUME NEW v \in Versions, SupersedeOne(p, v) PROVE TypeOK'
    <2>1. v \in Existing /\ kind[p] \in Handlers("noting") /\ pc[p] # "refused"
        BY <1>2 DEF SupersedeOne, TypeOK, Remembers, Handlers
    <2>2. [versions[v] EXCEPT !.status = "DEPRECATED"] \in Row
        BY <2>1, ExistingRow DEF Row, Status
    <2>3. /\ found' \in [Requests -> SUBSET Versions]
          /\ \A q \in Requests : found'[q] \subseteq Existing
        BY <1>2 DEF SupersedeOne, TypeOK, Remembers
    <2> QED
        BY <1>2, <2>1, <2>2, <2>3, StoresType DEF SupersedeOne, Pcs, Waiting
<1>3. CASE FindPrevious(p)
    <2>1. ActiveLike(target[p], view[p]) \subseteq Existing /\ Existing \subseteq Versions
        BY DEF ActiveLike, InSlot, Existing
    <2>2. /\ found' \in [Requests -> SUBSET Versions]
          /\ \A q \in Requests : found'[q] \subseteq Existing
        BY <1>3, <2>1 DEF FindPrevious, TypeOK, Remembers
    <2>3. kind[p] \in Handlers("superseding") /\ pc[p] # "refused"
        BY <1>3 DEF FindPrevious, TypeOK, Remembers, Handlers
    <2> QED
        BY <1>3, <2>2, <2>3, GoOnType DEF FindPrevious, tables, TypeOK, Pcs, Waiting
<1>4. CASE Verify(p)
    <2> DEFINE row == [versions[target[p]] EXCEPT !.status = "VERIFIED", !.verified = TRUE]
    <2>1. /\ target[p] \in Existing /\ pc[p] # "refused"
          /\ kind[p] \in Handlers("reviewing") /\ kind[p] \in Handlers("failed")
        BY <1>4 DEF Verify, TypeOK, Remembers, Handlers, Kinds
    <2>2. row \in Row /\ target[p] \in Versions
        BY <2>1, ExistingRow DEF Row, Status
    <2>3. /\ found' \in [Requests -> SUBSET Versions]
          /\ \A q \in Requests : found'[q] \subseteq Existing
        BY <1>4 DEF Verify, TypeOK, Remembers
    <2>4. CASE Unique(target[p], row)
        BY <1>4, <2>1, <2>2, <2>3, <2>4, StoresType DEF Verify, Pcs, Waiting
    <2>5. CASE ~ Unique(target[p], row)
        BY <1>4, <2>1, <2>3, <2>5, GoOnType DEF Verify, TypeOK, Pcs
    <2> QED
        BY <2>4, <2>5
<1>5. CASE RecordReview(p)
    <2>1. /\ kind[p] \in Handlers("logging") /\ pc[p] # "refused" /\ wrote[p] # NoVersion
          /\ \A q \in Requests : found'[q] \subseteq Existing
        BY <1>5 DEF RecordReview, memory, TypeOK, Remembers, Handlers, Kinds
    <2> QED
        BY <1>5, <2>1, GoOnType DEF RecordReview, memory, TypeOK, Pcs, Waiting
<1> QED
    BY <1>1, <1>2, <1>3, <1>4, <1>5 DEF Verifying

LEMMA RetiringType ==
    ASSUME TypeOK, NEW p \in Requests, Retiring(p)
    PROVE  TypeOK'
<1>1. ASSUME NEW v \in Versions, DeprecateRead(p, v) PROVE TypeOK'
    BY <1>1, ExistingRow, BeginType DEF DeprecateRead, Kinds, Pcs, Waiting, Handlers
<1>2. ASSUME NEW v \in Versions, ArchiveRead(p, v) PROVE TypeOK'
    BY <1>2, ExistingRow, BeginType DEF ArchiveRead, Kinds, Pcs, Waiting, Handlers
<1>3. CASE FindReplacement(p)
    <2>1. /\ kind[p] \in Handlers("updating") /\ kind[p] \in Handlers("refused")
          /\ pc[p] # "refused"
          /\ \A q \in Requests : found'[q] \subseteq Existing
        BY <1>3 DEF FindReplacement, memory, TypeOK, Remembers, Handlers, Kinds
    <2> QED
        BY <1>3, <2>1, GoOnType DEF FindReplacement, memory, tables, TypeOK, Pcs, Waiting
<1>4. CASE Retire(p)
    <2>1. target[p] \in Existing /\ kind[p] \in Handlers("logging") /\ pc[p] # "refused"
        BY <1>4 DEF Retire, TypeOK, Remembers, Handlers, Kinds
    <2>2. [versions[target[p]] EXCEPT !.status = Retired(kind[p])] \in Row
        BY <2>1, ExistingRow DEF Row, Status, Retired
    <2>3. /\ found' \in [Requests -> SUBSET Versions]
          /\ \A q \in Requests : found'[q] \subseteq Existing
        BY <1>4 DEF Retire, TypeOK, Remembers
    <2> QED
        BY <1>4, <2>1, <2>2, <2>3, ExistingRow, StoresType DEF Retire, Pcs, Waiting
<1> QED
    BY <1>1, <1>2, <1>3, <1>4 DEF Retiring

LEMMA SubmitType ==
    ASSUME TypeOK, NEW p \in Requests, NEW v \in Versions, NEW row \in Row, Submit(p, v, row),
           pc[p] # "refused"
    PROVE  TypeOK'
<1>1. kind[p] \in Handlers("logging") /\ kind[p] \in Handlers("failed")
    BY DEF TypeOK, Handlers
<1>2. /\ found' \in [Requests -> SUBSET Versions]
      /\ \A q \in Requests : found'[q] \subseteq Existing
    BY DEF Submit, TypeOK, Remembers
<1>3. CASE Accepted(v, row)
    BY <1>1, <1>2, <1>3, StoresType DEF Submit, Pcs, Waiting
<1>4. CASE ~ Accepted(v, row)
    BY <1>1, <1>2, <1>4, GoOnType DEF Submit, TypeOK, Pcs
<1> QED
    BY <1>3, <1>4

LEMMA DraftingType ==
    ASSUME TypeOK, NEW p \in Requests, Drafting(p)
    PROVE  TypeOK'
<1>1. ASSUME NEW fields \in NewVersions, CreateRead(p, fields) PROVE TypeOK'
    <2>1. PICK row \in Latest :
             Begin(p, "create", NoVersion, fields, row,
                   IF row = NoVersion /\ ~ {"content", "slot", "source"} \subseteq DOMAIN fields
                     THEN "refused" ELSE "checking")
        BY <1>1 DEF CreateRead
    <2>2. row \in Row \cup {NoVersion}
        BY ExistingRow DEF Latest
    <2>3. Sent(fields, VersionFields)
        BY GovernanceAssumption
    <2> QED
        BY <2>1, <2>2, <2>3, BeginType DEF Kinds, Pcs, Waiting, Handlers
<1>2. ASSUME NEW v \in Versions, NEW fields \in Edits, EditRead(p, v, fields) PROVE TypeOK'
    <2>1. Sent(fields, VersionFields)
        BY GovernanceAssumption
    <2> QED
        BY <1>2, <2>1, ExistingRow, BeginType DEF EditRead, Kinds, Pcs, Waiting, Handlers
<1>3. CASE CheckSource(p)
    <2>1. kind[p] \in {"create", "edit"} /\ Sent(dto[p], VersionFields)
        BY <1>3 DEF CheckSource, TypeOK, Remembers, Handlers
    <2>2. Given(dto[p], "label", label[p]) \in Labels
        BY <2>1, GivenVersionField DEF TypeOK
    <2>3. label' \in [Requests -> Labels]
        BY <1>3, <2>2 DEF CheckSource, TypeOK
    <2>4. PICK step \in {"refused", "editing", "creating", "labelling"} :
             Goto(p, step) /\ kind[p] \in Handlers(step)
        BY <1>3, <2>1 DEF CheckSource, Handlers, Kinds
    <2>5. pc[p] # "refused" /\ \A q \in Requests : found'[q] \subseteq Existing
        BY <1>3 DEF CheckSource, TypeOK, Remembers
    <2> QED
        BY <1>3, <2>3, <2>4, <2>5, GoOnType DEF CheckSource, tables, TypeOK, Pcs, Waiting
<1>4. CASE NextLabel(p)
    <2>1. kind[p] = "create" /\ pc[p] # "refused" /\ Sent(dto[p], VersionFields)
        BY <1>4 DEF NextLabel, TypeOK, Remembers, Handlers
    <2>2. view[p] \in Row \/ "slot" \in DOMAIN dto[p]
        BY <2>1 DEF TypeOK, Remembers
    <2>3. Given(dto[p], "slot", view[p].slot) \in Slots
        BY <2>1, <2>2, GivenVersionField DEF Row
    <2> DEFINE year == Year[Given(dto[p], "slot", view[p].slot)]
               taken == {versions[w].label[2] :
                            w \in {u \in Existing : versions[u].label[1] = year}}
    <2>4. year \in Nat
        BY <2>3, GovernanceAssumption
    <2>5. \A n \in {1} \cup {m + 1 : m \in taken} : n \in Nat
        BY ExistingRow DEF Row, Labels
    <2>6. PICK n \in Nat : label' = [label EXCEPT ![p] = <<year, n>>]
        BY <1>4, <2>5 DEF NextLabel
    <2>7. label' \in [Requests -> Labels]
        BY <2>4, <2>6 DEF TypeOK, Labels
    <2>8. kind[p] \in Handlers("creating") /\ \A q \in Requests : found'[q] \subseteq Existing
        BY <1>4, <2>1 DEF NextLabel, Handlers, TypeOK, Remembers
    <2> QED
        BY <1>4, <2>1, <2>7, <2>8, GoOnType DEF NextLabel, tables, TypeOK, Pcs, Waiting
<1>5. ASSUME NEW v \in Versions, CreateVersion(p, v) PROVE TypeOK'
    <2>1. kind[p] = "create" /\ pc[p] # "refused"
        BY <1>5 DEF CreateVersion, TypeOK, Remembers, Handlers
    <2> QED
        BY <1>5, <2>1, NewRowType, SubmitType DEF CreateVersion
<1>6. CASE EditVersion(p)
    <2>1. kind[p] = "edit" /\ pc[p] # "refused"
        BY <1>6 DEF EditVersion, TypeOK, Remembers, Handlers
    <2> QED
        BY <1>6, <2>1, EditedRowType, ExistingRow, SubmitType DEF EditVersion
<1> QED
    BY <1>1, <1>2, <1>3, <1>4, <1>5, <1>6 DEF Drafting

LEMMA SourcingType ==
    ASSUME TypeOK, NEW p \in Requests, Sourcing(p)
    PROVE  TypeOK'
<1>1. ASSUME NEW s \in Sources, NEW fields \in Patches, PatchRead(p, s, fields) PROVE TypeOK'
    <2>1. Sent(fields, SourceFields)
        BY GovernanceAssumption
    <2> QED
        BY <1>1, <2>1, BeginType DEF PatchRead, Kinds, Pcs, Waiting, Handlers
<1>2. ASSUME NEW s \in Sources, RemoveRead(p, s) PROVE TypeOK'
    <2>1. Sent([active |-> FALSE], SourceFields)
        <3>1. DOMAIN [active |-> FALSE] = {"active"} /\ [active |-> FALSE].active = FALSE
            OBVIOUS
        <3>2. "active" \in DOMAIN SourceFields /\ SourceFields["active"] = BOOLEAN
            BY DEF SourceFields
        <3>3. FALSE \in SourceFields["active"]
            BY <3>2
        <3> QED
            BY <3>1, <3>2, <3>3, Zenon DEF Sent
    <2> QED
        <3>1. PICK step \in {"patching", "deleting"} :
                 Begin(p, "remove", s, [active |-> FALSE], NoVersion, step)
            BY <1>2 DEF RemoveRead
        <3> QED
            BY <2>1, <3>1, BeginType DEF Kinds, Pcs, Waiting, Handlers
<1>3. ASSUME NEW s \in Sources, NEW row \in Source, AddSource(p, s, row) PROVE TypeOK'
    <2>1. ASSUME NEW q \in Requests PROVE Remembers(q)'
        <3>1. Remembers(q)
            BY DEF TypeOK
        <3>2. Existing' = Existing
            BY <1>3 DEF AddSource, Existing
        <3> QED
            BY <1>3, <3>1, <3>2 DEF AddSource, Goto, TypeOK, Remembers, Handlers, Kinds
    <2> QED
        BY <1>3, <2>1 DEF AddSource, Goto, TypeOK, Kinds, Pcs
<1>4. CASE PatchSource(p)
    <2>1. /\ target[p] \in Sources /\ Sent(dto[p], SourceFields)
          /\ kind[p] \in Handlers("done") /\ kind[p] \in Handlers("failed") /\ pc[p] # "refused"
          /\ \A q \in Requests : found'[q] \subseteq Existing
        BY <1>4 DEF PatchSource, memory, TypeOK, Remembers, Handlers, Kinds
    <2>2. sources' \in [Sources -> Source \cup {NoSource}]
        BY <1>4, <2>1, PatchedType DEF PatchSource, TypeOK
    <2> QED
        BY <1>4, <2>1, <2>2, GoOnType DEF PatchSource, memory, TypeOK, Pcs
<1>5. CASE DeleteSource(p)
    <2>1. /\ target[p] \in Sources
          /\ kind[p] \in Handlers("done") /\ kind[p] \in Handlers("failed") /\ pc[p] # "refused"
          /\ \A q \in Requests : found'[q] \subseteq Existing
        BY <1>5 DEF DeleteSource, memory, TypeOK, Remembers, Handlers, Kinds
    <2>2. sources' \in [Sources -> Source \cup {NoSource}]
        BY <1>5, <2>1 DEF DeleteSource, TypeOK
    <2> QED
        BY <1>5, <2>1, <2>2, GoOnType DEF DeleteSource, memory, TypeOK, Pcs
<1> QED
    BY <1>1, <1>2, <1>3, <1>4, <1>5 DEF Sourcing

LEMMA TypeStep == TypeOK /\ [Next]_vars => TypeOK'
<1> SUFFICES ASSUME TypeOK, [Next]_vars PROVE TypeOK'
    OBVIOUS
<1>1. ASSUME NEW p \in Requests, WriteLog(p) PROVE TypeOK'
    <2>1. /\ wrote[p] \in Written /\ pc[p] # "refused"
          /\ \A q \in Requests : found'[q] \subseteq Existing
        BY <1>1 DEF WriteLog, memory, TypeOK, Remembers
    <2>2. PICK step \in {"superseding", "done"} : Goto(p, step) /\ kind[p] \in Handlers(step)
        BY <1>1 DEF WriteLog, TypeOK, Remembers, Handlers, Kinds
    <2>3. \A e \in log' : e.by \in Requests /\ e.version \in Versions /\ e.new \in Row
        BY <1>1, <2>1 DEF WriteLog, Entry, Written, TypeOK
    <2> QED
        BY <1>1, <2>1, <2>2, <2>3, GoOnType DEF WriteLog, memory, TypeOK, Pcs, Waiting
<1>2. ASSUME NEW p \in Requests, Stop(p) PROVE TypeOK'
    <2>1. /\ kind[p] \in Handlers("stopped") /\ pc[p] # "refused"
          /\ \A q \in Requests : found'[q] \subseteq Existing
        BY <1>2 DEF Stop, Waiting, memory, TypeOK, Remembers, Handlers
    <2> QED
        BY <1>2, <2>1, GoOnType DEF Stop, memory, tables, TypeOK, Pcs
<1>3. CASE UNCHANGED vars
    <2>1. \A q \in Requests : Remembers(q) => Remembers(q)'
        BY <1>3 DEF vars, tables, memory, Remembers, Handlers, Existing
    <2> QED
        BY <1>3, <2>1 DEF vars, tables, memory, TypeOK
<1> QED
    BY <1>1, <1>2, <1>3, VerifyingType, RetiringType, DraftingType, SourcingType DEF Next

(* Every table and every request keeps its type, and a handler knows at    *)
(* each of its steps what the step relies on.                              *)
THEOREM GovernanceTypeCorrect == Spec => []TypeOK
<1> QED
    BY TypeInit, TypeStep, PTL DEF Spec

-----------------------------------------------------------------------------
(* One active version per slot, and a source for every version.            *)

(* Every statement that writes a version writes one row, which the index   *)
(* accepts, and whose source exists.                                       *)
RowWritten(v, row) ==
    /\ versions' = [versions EXCEPT ![v] = row]
    /\ UNCHANGED sources
    /\ Unique(v, row)
    /\ sources[row.source] # NoSource \/ (v \in Existing /\ row.source = versions[v].source)

LEMMA HowVersionsChange ==
    ASSUME TypeOK, Next
    PROVE  UNCHANGED versions \/ \E v \in Versions, row \in Row : RowWritten(v, row)
<1> SUFFICES ASSUME NEW p \in Requests,
                    Verifying(p) \/ Retiring(p) \/ Drafting(p) \/ Sourcing(p)
                        \/ WriteLog(p) \/ Stop(p),
                    ~ UNCHANGED versions
             PROVE  \E v \in Versions, row \in Row : RowWritten(v, row)
    BY DEF Next
<1>1. ASSUME NEW v \in Existing, NEW row \in Row, Store(p, v, row), UNCHANGED sources,
             Unique(v, row), row.source = versions[v].source
      PROVE  \E w \in Versions, r \in Row : RowWritten(w, r)
    BY <1>1, ExistingRow DEF RowWritten, Store
<1>2. ASSUME NEW v \in Versions, SupersedeOne(p, v)
      PROVE  \E w \in Versions, r \in Row : RowWritten(w, r)
    <2> DEFINE row == [versions[v] EXCEPT !.status = "DEPRECATED"]
    <2>1. v \in Existing
        BY <1>2 DEF SupersedeOne, TypeOK, Remembers
    <2>2. row \in Row /\ row.status = "DEPRECATED" /\ row.source = versions[v].source
        BY <2>1, ExistingRow DEF Row, Status
    <2> QED
        BY <1>1, <1>2, <2>1, <2>2 DEF SupersedeOne, Unique, ActiveStatus
<1>3. CASE Verify(p)
    <2> DEFINE row == [versions[target[p]] EXCEPT !.status = "VERIFIED", !.verified = TRUE]
    <2>1. target[p] \in Existing
        BY <1>3 DEF Verify, TypeOK, Remembers, Handlers
    <2>2. row \in Row /\ row.source = versions[target[p]].source
        BY <2>1, ExistingRow DEF Row, Status
    <2> QED
        BY <1>1, <1>3, <2>1, <2>2 DEF Verify
<1>4. CASE Retire(p)
    <2> DEFINE row == [versions[target[p]] EXCEPT !.status = Retired(kind[p])]
    <2>1. target[p] \in Existing
        BY <1>4 DEF Retire, TypeOK, Remembers, Handlers
    <2>2. /\ row \in Row /\ row.source = versions[target[p]].source
          /\ row.status \notin ActiveStatus
        BY <2>1, ExistingRow DEF Row, Status, Retired, ActiveStatus
    <2> QED
        BY <1>1, <1>4, <2>1, <2>2 DEF Retire, Unique
<1>5. ASSUME NEW v \in Versions, NEW row \in Row, Submit(p, v, row)
      PROVE  \E w \in Versions, r \in Row : RowWritten(w, r)
    BY <1>5 DEF Submit, Store, Accepted, RowWritten
<1>6. ASSUME NEW v \in Versions, CreateVersion(p, v)
      PROVE  \E w \in Versions, r \in Row : RowWritten(w, r)
    <2>1. kind[p] = "create" /\ pc[p] # "refused"
        BY <1>6 DEF CreateVersion, TypeOK, Remembers, Handlers
    <2> QED
        BY <1>5, <1>6, <2>1, NewRowType DEF CreateVersion
<1>7. CASE EditVersion(p)
    <2>1. kind[p] = "edit"
        BY <1>7 DEF EditVersion, TypeOK, Remembers, Handlers
    <2> QED
        BY <1>5, <1>7, <2>1, EditedRowType, ExistingRow DEF EditVersion
<1> QED
    BY <1>2, <1>3, <1>4, <1>6, <1>7
    DEF Verifying, VerifyRead, FindPrevious, RecordReview, Retiring, DeprecateRead, ArchiveRead,
        FindReplacement, Drafting, CreateRead, EditRead, CheckSource, NextLabel, Sourcing,
        PatchRead, RemoveRead, AddSource, PatchSource, DeleteSource, WriteLog, Stop, Begin,
        tables, memory

(* What the tables hold at first.                                          *)
SeededInOrder ==
    \A v, w \in Versions :
        /\ SeededVersions[v] # NoVersion /\ SeededVersions[v].status \in ActiveStatus
        /\ SeededVersions[w] # NoVersion /\ SeededVersions[w].status \in ActiveStatus
        /\ Canon[SeededVersions[v].slot] = Canon[SeededVersions[w].slot]
        => v = w

LEMMA OneActiveStep ==
    ASSUME TypeOK, OneActivePerSlot, [Next]_vars
    PROVE  OneActivePerSlot'
<1>1. CASE UNCHANGED versions
    BY <1>1 DEF OneActivePerSlot, Existing, Active
<1>2. ASSUME NEW v \in Versions, NEW row \in Row, RowWritten(v, row)
      PROVE  OneActivePerSlot'
    <2>1. /\ versions'[v] = row
          /\ \A w \in Versions \ {v} : versions'[w] = versions[w]
        BY <1>2 DEF RowWritten, TypeOK
    <2>2. ASSUME NEW w \in Existing', Active(w)', w # v, row.status \in ActiveStatus
          PROVE  Canon[versions'[w].slot] # Canon[row.slot]
        BY <1>2, <2>1, <2>2 DEF RowWritten, Unique, Existing, Active
    <2>3. ASSUME NEW u \in Existing', NEW w \in Existing', Active(u)', Active(w)',
                 Canon[versions'[u].slot] = Canon[versions'[w].slot]
          PROVE  u = w
        <3>1. CASE u # v /\ w # v
            BY <2>1, <2>3, <3>1 DEF OneActivePerSlot, Existing, Active
        <3>2. CASE u = v \/ w = v
            BY <2>1, <2>2, <2>3, <3>2 DEF Active
        <3> QED
            BY <3>1, <3>2
    <2> QED
        BY <2>3 DEF OneActivePerSlot
<1> QED
    BY <1>1, <1>2, HowVersionsChange DEF vars, tables

(* "Only one production-active version can exist for the same factor/unit/ *)
(* jurisdiction/year": the index of the migration keeps it through every   *)
(* overlap of verifications, edits and retirements, if it held when the    *)
(* migration ran.                                                          *)
THEOREM OneActiveVersion ==
    ASSUME SeededInOrder
    PROVE  Spec => []OneActivePerSlot
<1>1. Init => OneActivePerSlot
    BY DEF SeededInOrder, Init, OneActivePerSlot, Existing, Active
<1>2. TypeOK /\ OneActivePerSlot /\ [Next]_vars => OneActivePerSlot'
    BY OneActiveStep
<1> QED
    BY <1>1, <1>2, GovernanceTypeCorrect, PTL DEF Spec

LEMMA SourceStep ==
    ASSUME TypeOK, VersionsHaveSource, [Next]_vars
    PROVE  VersionsHaveSource'
<1>1. CASE UNCHANGED <<versions, sources>>
    BY <1>1 DEF VersionsHaveSource, Existing
<1>2. ASSUME NEW v \in Versions, NEW row \in Row, RowWritten(v, row)
      PROVE  VersionsHaveSource'
    <2>1. /\ versions'[v] = row /\ sources' = sources
          /\ \A w \in Versions \ {v} : versions'[w] = versions[w]
        BY <1>2 DEF RowWritten, TypeOK
    <2>2. sources[row.source] # NoSource
        BY <1>2 DEF RowWritten, VersionsHaveSource
    <2> QED
        BY <2>1, <2>2 DEF VersionsHaveSource, Existing
<1>3. ASSUME NEW s \in Sources, NEW row \in Source,
             sources' = [sources EXCEPT ![s] = row], UNCHANGED versions
      PROVE  VersionsHaveSource'
    <2>1. row # NoSource
        BY GovernanceAssumption
    <2>2. \A t \in Sources : sources[t] # NoSource => sources'[t] # NoSource
        BY <1>3, <2>1 DEF TypeOK
    <2>3. \A v \in Existing : versions[v].source \in Sources
        BY ExistingRow DEF Row
    <2> QED
        BY <1>3, <2>2, <2>3 DEF VersionsHaveSource, Existing
<1>4. ASSUME NEW p \in Requests, DeleteSource(p)
      PROVE  VersionsHaveSource'
    <2>1. CASE ~ Deletable(target[p])
        BY <1>1, <1>4, <2>1 DEF DeleteSource
    <2>2. CASE Deletable(target[p])
        <3>1. /\ sources' = [sources EXCEPT ![target[p]] = NoSource] /\ UNCHANGED versions
              /\ \A v \in Existing : versions[v].source # target[p]
            BY <1>4, <2>2 DEF DeleteSource, Deletable, Cited
        <3>2. \A t \in Sources \ {target[p]} : sources'[t] = sources[t]
            BY <3>1 DEF TypeOK
        <3>3. \A v \in Existing : versions[v].source \in Sources
            BY ExistingRow DEF Row
        <3> QED
            BY <3>1, <3>2, <3>3 DEF VersionsHaveSource, Existing
    <2> QED
        BY <2>1, <2>2
<1>5. ASSUME NEW p \in Requests, PatchSource(p)
      PROVE  VersionsHaveSource'
    <2>1. target[p] \in Sources /\ Sent(dto[p], SourceFields)
        BY <1>5 DEF PatchSource, TypeOK, Remembers, Handlers
    <2>2. CASE sources[target[p]] = NoSource
        BY <1>1, <1>5, <2>2 DEF PatchSource
    <2>3. CASE sources[target[p]] # NoSource
        <3>1. sources[target[p]] \in Source
            BY <2>1, <2>3 DEF TypeOK
        <3> QED
            BY <1>3, <1>5, <2>1, <2>3, <3>1, PatchedType DEF PatchSource
    <2> QED
        BY <2>2, <2>3
<1>6. ASSUME NEW p \in Requests, NEW s \in Sources, NEW row \in Source, AddSource(p, s, row)
      PROVE  VersionsHaveSource'
    BY <1>3, <1>6 DEF AddSource
<1>7. CASE Next /\ UNCHANGED versions
    <2>1. PICK p \in Requests :
             Verifying(p) \/ Retiring(p) \/ Drafting(p) \/ Sourcing(p) \/ WriteLog(p) \/ Stop(p)
        BY <1>7 DEF Next
    <2> QED
        BY <1>1, <1>4, <1>5, <1>6, <1>7, <2>1
        DEF Verifying, VerifyRead, FindPrevious, SupersedeOne, Verify, RecordReview, Retiring,
            DeprecateRead, ArchiveRead, FindReplacement, Retire, Drafting, CreateRead, EditRead,
            CheckSource, NextLabel, CreateVersion, EditVersion, Submit, Sourcing, PatchRead,
            RemoveRead, WriteLog, Stop, Begin, tables, memory
<1> QED
    BY <1>1, <1>2, <1>7, HowVersionsChange DEF vars, tables

(* A version never loses the source it cites, although remove counts the   *)
(* versions of a source and deletes it in two statements: the foreign key  *)
(* refuses whichever of the two comes late.                                *)
THEOREM SourcesStay == Spec => []VersionsHaveSource
<1>1. Init => VersionsHaveSource
    BY GovernanceAssumption DEF Init, VersionsHaveSource, Existing
<1>2. TypeOK /\ VersionsHaveSource /\ [Next]_vars => VersionsHaveSource'
    BY SourceStep
<1> QED
    BY <1>1, <1>2, GovernanceTypeCorrect, PTL DEF Spec

-----------------------------------------------------------------------------
(* The audit trail.                                                        *)

(* A request owes an entry from the statement that writes a version to the *)
(* one that logs it.                                                       *)
Owing == {"noting", "reviewing", "logging", "stopped"}

LEMMA AuditStep ==
    ASSUME TypeOK, AuditShowsVersions, [Next]_vars
    PROVE  AuditShowsVersions'
<1>1. CASE UNCHANGED vars
    BY <1>1 DEF vars, tables, memory, AuditShowsVersions, Existing
<1>2. ASSUME NEW p \in Requests, NEW v \in Versions, NEW row \in Row, Store(p, v, row),
             NEW step \in Owing, Goto(p, step), pc[p] \notin Owing, UNCHANGED log
      PROVE  AuditShowsVersions'
    <2>1. /\ versions'[v] = row /\ wrote'[p] = [version |-> v, row |-> row] /\ pc'[p] \in Owing
          /\ \A w \in Versions \ {v} : versions'[w] = versions[w]
          /\ \A q \in Requests \ {p} : pc'[q] = pc[q] /\ wrote'[q] = wrote[q]
        BY <1>2 DEF Store, Goto, TypeOK
    <2>2. ASSUME NEW w \in Existing', w # v
          PROVE  \/ versions'[w] = SeededVersions[w]
                 \/ \E e \in log' : e.version = w /\ e.new = versions'[w]
                 \/ \E q \in Requests :
                       pc'[q] \in Owing /\ wrote'[q] = [version |-> w, row |-> versions'[w]]
        <3>1. w \in Existing /\ versions'[w] = versions[w]
            BY <2>1, <2>2 DEF Existing
        <3> QED
            BY <1>2, <2>1, <3>1 DEF AuditShowsVersions, Owing
    <2> QED
        BY <2>1, <2>2 DEF AuditShowsVersions, Existing, Owing
<1>3. ASSUME NEW p \in Requests, UNCHANGED <<versions, wrote>>, NEW step, Goto(p, step),
             log \subseteq log', pc[p] \in Owing => step \in Owing \/ Entry(p) \in log'
      PROVE  AuditShowsVersions'
    <2>1. pc'[p] = step /\ \A q \in Requests \ {p} : pc'[q] = pc[q]
        BY <1>3 DEF Goto, TypeOK
    <2>2. ASSUME NEW v \in Existing, pc[p] \in Owing, pc'[p] \notin Owing,
                 wrote[p] = [version |-> v, row |-> versions[v]]
          PROVE  \E e \in log' : e.version = v /\ e.new = versions[v]
        BY <1>3, <2>1, <2>2 DEF Entry
    <2>3. ASSUME NEW v \in Existing
          PROVE  \/ versions[v] = SeededVersions[v]
                 \/ \E e \in log' : e.version = v /\ e.new = versions[v]
                 \/ \E q \in Requests :
                       pc'[q] \in Owing /\ wrote[q] = [version |-> v, row |-> versions[v]]
        BY <1>3, <2>1, <2>2 DEF AuditShowsVersions, Owing
    <2> QED
        BY <1>3, <2>3 DEF AuditShowsVersions, Existing, Owing
<1>4. ASSUME NEW p \in Requests, NEW v \in Versions, SupersedeOne(p, v)
      PROVE  AuditShowsVersions'
    <2>1. v \in Existing
        BY <1>4 DEF SupersedeOne, TypeOK, Remembers
    <2>2. [versions[v] EXCEPT !.status = "DEPRECATED"] \in Row
        BY <2>1, ExistingRow DEF Row, Status
    <2> QED
        BY <1>2, <1>4, <2>2 DEF SupersedeOne, Owing
<1>5. ASSUME NEW p \in Requests, Verify(p)
      PROVE  AuditShowsVersions'
    <2> DEFINE row == [versions[target[p]] EXCEPT !.status = "VERIFIED", !.verified = TRUE]
    <2>1. target[p] \in Existing
        BY <1>5 DEF Verify, TypeOK, Remembers, Handlers
    <2>2. row \in Row
        BY <2>1, ExistingRow DEF Row, Status
    <2> QED
        BY <1>2, <1>3, <1>5, <2>1, <2>2 DEF Verify, Owing, Existing
<1>6. ASSUME NEW p \in Requests, Retire(p)
      PROVE  AuditShowsVersions'
    <2>1. target[p] \in Existing
        BY <1>6 DEF Retire, TypeOK, Remembers, Handlers
    <2>2. [versions[target[p]] EXCEPT !.status = Retired(kind[p])] \in Row
        BY <2>1, ExistingRow DEF Row, Status, Retired
    <2> QED
        BY <1>2, <1>6, <2>1, <2>2 DEF Retire, Owing, Existing
<1>7. ASSUME NEW p \in Requests, NEW v \in Versions, NEW row \in Row,
             pc[p] \notin Owing, Submit(p, v, row)
      PROVE  AuditShowsVersions'
    BY <1>2, <1>3, <1>7 DEF Submit, Owing
<1>8. ASSUME NEW p \in Requests, NEW v \in Versions, CreateVersion(p, v)
      PROVE  AuditShowsVersions'
    <2>1. kind[p] = "create" /\ pc[p] \notin Owing \cup {"refused"}
        BY <1>8 DEF CreateVersion, TypeOK, Remembers, Handlers, Owing
    <2> QED
        BY <1>7, <1>8, <2>1, NewRowType DEF CreateVersion
<1>9. ASSUME NEW p \in Requests, EditVersion(p)
      PROVE  AuditShowsVersions'
    <2>1. kind[p] = "edit" /\ pc[p] \notin Owing
        BY <1>9 DEF EditVersion, TypeOK, Remembers, Handlers, Owing
    <2> QED
        BY <1>7, <1>9, <2>1, EditedRowType DEF EditVersion, Existing
<1>10. ASSUME NEW p \in Requests, WriteLog(p)
       PROVE  AuditShowsVersions'
    BY <1>3, <1>10 DEF WriteLog, memory
<1>11. ASSUME NEW p \in Requests, RecordReview(p) \/ Stop(p)
       PROVE  AuditShowsVersions'
    BY <1>3, <1>11 DEF RecordReview, Stop, tables, memory, Owing
<1>12. ASSUME NEW p \in Requests, NEW k, NEW t, NEW fields, NEW row, NEW step,
              Begin(p, k, t, fields, row, step)
       PROVE  AuditShowsVersions'
    BY <1>3, <1>12 DEF Begin, tables, Owing
<1>13. ASSUME NEW p \in Requests,
              FindPrevious(p) \/ FindReplacement(p) \/ CheckSource(p) \/ NextLabel(p)
                 \/ PatchSource(p) \/ DeleteSource(p)
                 \/ \E s \in Sources, row \in Source : AddSource(p, s, row)
       PROVE  AuditShowsVersions'
    <2>1. UNCHANGED <<versions, log, wrote>> /\ pc[p] \notin Owing /\ \E step : Goto(p, step)
        BY <1>13 DEF FindPrevious, FindReplacement, CheckSource, NextLabel, PatchSource,
                     DeleteSource, AddSource, tables, memory, Owing
    <2> QED
        BY <1>3, <2>1
<1> QED
    BY <1>1, <1>4, <1>5, <1>6, <1>8, <1>9, <1>10, <1>11, <1>12, <1>13
    DEF Next, Verifying, VerifyRead, Retiring, DeprecateRead, ArchiveRead, Drafting, CreateRead,
        EditRead, Sourcing, PatchRead, RemoveRead

(* FactorChangeLog can be replayed: every version that is not as it was    *)
(* seeded is the last value some entry gives it, or that of a request that *)
(* has still to log it or was stopped before -- whichever requests overlap.*)
THEOREM ChangesAreLogged == Spec => []AuditShowsVersions
<1>1. Init => AuditShowsVersions
    BY DEF Init, AuditShowsVersions
<1>2. TypeOK /\ AuditShowsVersions /\ [Next]_vars => AuditShowsVersions'
    BY AuditStep
<1> QED
    BY <1>1, <1>2, GovernanceTypeCorrect, PTL DEF Spec

-----------------------------------------------------------------------------
(* What was reviewed.                                                      *)

(* A request has written nothing yet in one of these steps.                *)
Fresh == {"idle", "finding", "replacing", "updating", "checking", "labelling", "creating",
          "editing"}
Reviewing == {"finding", "superseding", "noting"}

(* An editor had read a draft; who verifies a version does not count it    *)
(* among those before it, and has not written it yet.                      *)
KnowsItsVersion(p) ==
    /\ pc[p] \in Fresh => wrote[p] = NoVersion
    /\ kind[p] = "edit" /\ pc[p] \in {"checking", "editing"} => view[p].status = "DRAFT"
    /\ pc[p] \in {"superseding", "noting"} => target[p] \notin found[p] /\ ~ Wrote(p, target[p])

KnowledgeInv == \A p \in Requests : KnowsItsVersion(p)

(* The step of one request is no concern of the others.                    *)
LEMMA OthersKnow ==
    ASSUME TypeOK, KnowledgeInv, NEW p \in Requests, KnowsItsVersion(p)',
           \A q \in Requests \ {p} :
              /\ pc'[q] = pc[q] /\ kind'[q] = kind[q] /\ target'[q] = target[q]
              /\ view'[q] = view[q] /\ found'[q] = found[q] /\ wrote'[q] = wrote[q]
    PROVE  KnowledgeInv'
BY DEF KnowledgeInv, KnowsItsVersion, Wrote

LEMMA BeginKnows ==
    ASSUME TypeOK, KnowledgeInv, NEW p \in Requests, NEW k, NEW t, NEW fields, NEW row, NEW step,
           Begin(p, k, t, fields, row, step), step \notin {"superseding", "noting"},
           k = "edit" /\ step \in {"checking", "editing"} => row.status = "DRAFT"
    PROVE  KnowledgeInv'
<1>1. /\ pc'[p] = step /\ kind'[p] = k /\ view'[p] = row /\ wrote'[p] = NoVersion
      /\ \A q \in Requests \ {p} :
            /\ pc'[q] = pc[q] /\ kind'[q] = kind[q] /\ target'[q] = target[q]
            /\ view'[q] = view[q] /\ found'[q] = found[q] /\ wrote'[q] = wrote[q]
    BY DEF Begin, Goto, TypeOK, KnowledgeInv, KnowsItsVersion, Fresh
<1>2. KnowsItsVersion(p)'
    BY <1>1 DEF KnowsItsVersion
<1> QED
    BY <1>1, <1>2, OthersKnow

(* It goes on, and writes no version.                                      *)
LEMMA GoOnKnows ==
    ASSUME TypeOK, KnowledgeInv, NEW p \in Requests, NEW step, Goto(p, step),
           UNCHANGED <<kind, target, view, wrote>>,
           \A q \in Requests \ {p} : found'[q] = found[q],
           step \in Fresh => pc[p] \in Fresh,
           step \in {"checking", "editing"} => pc[p] = "checking",
           step \in {"superseding", "noting"} =>
              /\ target[p] \notin found'[p]
              /\ pc[p] \in Fresh \/ (pc[p] = "noting" /\ found'[p] = found[p])
    PROVE  KnowledgeInv'
<1>1. pc'[p] = step /\ \A q \in Requests \ {p} : pc'[q] = pc[q]
    BY DEF Goto, TypeOK
<1>2. KnowsItsVersion(p)
    BY DEF KnowledgeInv
<1>3. KnowsItsVersion(p)'
    BY <1>1, <1>2 DEF KnowsItsVersion, Wrote
<1> QED
    BY <1>1, <1>3, OthersKnow

(* It writes a version.                                                    *)
LEMMA StoreKnows ==
    ASSUME TypeOK, KnowledgeInv, NEW p \in Requests, NEW v \in Versions, NEW row, NEW step,
           Store(p, v, row), Goto(p, step), UNCHANGED <<kind, target, view>>,
           \A q \in Requests \ {p} : found'[q] = found[q],
           step \notin Fresh \cup {"superseding"},
           step = "noting" => target[p] \notin found'[p] /\ target[p] # v
    PROVE  KnowledgeInv'
<1>1. /\ pc'[p] = step /\ wrote'[p].version = v
      /\ \A q \in Requests \ {p} : pc'[q] = pc[q] /\ wrote'[q] = wrote[q]
    BY DEF Goto, Store, TypeOK
<1>2. KnowsItsVersion(p)'
    BY <1>1 DEF KnowsItsVersion, Wrote, Fresh
<1> QED
    BY <1>1, <1>2, OthersKnow

LEMMA KnowledgeStep ==
    ASSUME TypeOK, KnowledgeInv, [Next]_vars
    PROVE  KnowledgeInv'
<1>1. CASE UNCHANGED vars
    BY <1>1 DEF vars, memory, KnowledgeInv, KnowsItsVersion, Wrote
<1>2. ASSUME NEW p \in Requests, Verifying(p) PROVE KnowledgeInv'
    <2>1. ASSUME NEW v \in Versions, VerifyRead(p, v) PROVE KnowledgeInv'
        BY <2>1, BeginKnows DEF VerifyRead
    <2>2. ASSUME NEW v \in Versions, SupersedeOne(p, v) PROVE KnowledgeInv'
        <3>1. target[p] \notin found[p] /\ v \in found[p]
            BY <2>2 DEF SupersedeOne, KnowledgeInv, KnowsItsVersion
        <3>2. found'[p] \subseteq found[p] /\ \A q \in Requests \ {p} : found'[q] = found[q]
            BY <2>2 DEF SupersedeOne, TypeOK
        <3> QED
            BY <2>2, <3>1, <3>2, StoreKnows DEF SupersedeOne, Fresh
    <2>3. ASSUME FindPrevious(p) PROVE KnowledgeInv'
        <3>1. found'[p] = ActiveLike(target[p], view[p])
              /\ \A q \in Requests \ {p} : found'[q] = found[q]
            BY <2>3 DEF FindPrevious, TypeOK
        <3>2. target[p] \notin found'[p]
            BY <3>1 DEF ActiveLike
        <3> QED
            BY <2>3, <3>1, <3>2, GoOnKnows DEF FindPrevious, Fresh
    <2>4. ASSUME Verify(p) PROVE KnowledgeInv'
        <3>1. target[p] \in Versions
            BY <2>4 DEF Verify, TypeOK, Remembers, Handlers, Existing
        <3> QED
            BY <2>4, <3>1, StoreKnows, GoOnKnows DEF Verify, Fresh
    <2>5. ASSUME RecordReview(p) PROVE KnowledgeInv'
        BY <2>5, GoOnKnows DEF RecordReview, memory, Fresh
    <2> QED
        BY <1>2, <2>1, <2>2, <2>3, <2>4, <2>5 DEF Verifying
<1>3. ASSUME NEW p \in Requests, Retiring(p) PROVE KnowledgeInv'
    <2>1. ASSUME NEW v \in Versions, DeprecateRead(p, v) \/ ArchiveRead(p, v)
          PROVE  KnowledgeInv'
        BY <2>1, BeginKnows DEF DeprecateRead, ArchiveRead
    <2>2. ASSUME FindReplacement(p) PROVE KnowledgeInv'
        BY <2>2, GoOnKnows DEF FindReplacement, memory, Fresh
    <2>3. ASSUME Retire(p) PROVE KnowledgeInv'
        <3>1. target[p] \in Versions
            BY <2>3 DEF Retire, TypeOK, Remembers, Handlers, Existing
        <3> QED
            BY <2>3, <3>1, StoreKnows DEF Retire, Fresh
    <2> QED
        BY <1>3, <2>1, <2>2, <2>3 DEF Retiring
<1>4. ASSUME NEW p \in Requests, Drafting(p) PROVE KnowledgeInv'
    <2>1. ASSUME NEW fields \in NewVersions, CreateRead(p, fields) PROVE KnowledgeInv'
        BY <2>1, BeginKnows DEF CreateRead
    <2>2. ASSUME NEW v \in Versions, NEW fields \in Edits, EditRead(p, v, fields)
          PROVE  KnowledgeInv'
        BY <2>2, BeginKnows DEF EditRead, DraftEditable
    <2>3. ASSUME CheckSource(p) \/ NextLabel(p) PROVE KnowledgeInv'
        BY <2>3, GoOnKnows DEF CheckSource, NextLabel, Fresh
    <2>4. ASSUME NEW v \in Versions, NEW row, Submit(p, v, row), pc[p] \in Fresh
          PROVE  KnowledgeInv'
        BY <2>4, StoreKnows, GoOnKnows DEF Submit, Fresh
    <2>5. ASSUME EditVersion(p) PROVE KnowledgeInv'
        <3>1. target[p] \in Versions
            BY <2>5 DEF EditVersion, TypeOK, Remembers, Handlers, Existing
        <3> QED
            BY <2>4, <2>5, <3>1 DEF EditVersion, Fresh
    <2> QED
        BY <1>4, <2>1, <2>2, <2>3, <2>4, <2>5 DEF Drafting, CreateVersion, Fresh
<1>5. ASSUME NEW p \in Requests, Sourcing(p) PROVE KnowledgeInv'
    <2>1. ASSUME NEW s \in Sources, NEW row \in Source, AddSource(p, s, row)
          PROVE  KnowledgeInv'
        <3>1. /\ pc'[p] = "done"
              /\ \A q \in Requests \ {p} :
                    /\ pc'[q] = pc[q] /\ kind'[q] = kind[q] /\ target'[q] = target[q]
                    /\ view'[q] = view[q] /\ found'[q] = found[q] /\ wrote'[q] = wrote[q]
            BY <2>1 DEF AddSource, Goto, TypeOK
        <3>2. KnowsItsVersion(p)'
            BY <3>1 DEF KnowsItsVersion, Fresh
        <3> QED
            BY <3>1, <3>2, OthersKnow
    <2>2. ASSUME PatchSource(p) \/ DeleteSource(p) PROVE KnowledgeInv'
        BY <2>2, GoOnKnows DEF PatchSource, DeleteSource, memory, Fresh
    <2> QED
        BY <1>5, <2>1, <2>2, BeginKnows DEF Sourcing, PatchRead, RemoveRead
<1>6. ASSUME NEW p \in Requests, WriteLog(p) PROVE KnowledgeInv'
    <2>1. pc[p] = "noting" => target[p] \notin found[p]
        BY DEF KnowledgeInv, KnowsItsVersion
    <2> QED
        BY <1>6, <2>1, GoOnKnows DEF WriteLog, memory, Fresh
<1>7. ASSUME NEW p \in Requests, Stop(p) PROVE KnowledgeInv'
    BY <1>7, GoOnKnows DEF Stop, memory, Fresh
<1> QED
    BY <1>1, <1>2, <1>3, <1>4, <1>5, <1>6, <1>7 DEF Next

(* What a request is about, and what it has read, it never forgets, and    *)
(* what it has written last it forgets only for what it writes next.       *)
LEMMA NothingForgotten ==
    ASSUME TypeOK, [Next]_vars, NEW q \in Requests, pc[q] # "idle"
    PROVE  /\ kind'[q] = kind[q] /\ target'[q] = target[q] /\ view'[q] = view[q]
           /\ wrote'[q] = wrote[q] \/ pc[q] \in {"superseding", "updating", "creating", "editing"}
           /\ pc'[q] \in Reviewing => pc[q] \in Reviewing
<1>1. CASE UNCHANGED vars
    BY <1>1 DEF vars, memory
<1>2. ASSUME NEW p \in Requests,
             \E k, t, fields, row, step : Begin(p, k, t, fields, row, step)
      PROVE  /\ kind'[q] = kind[q] /\ target'[q] = target[q] /\ view'[q] = view[q]
             /\ wrote'[q] = wrote[q] /\ pc'[q] = pc[q]
    BY <1>2 DEF Begin, Goto, TypeOK
<1>3. ASSUME NEW p \in Requests, Verifying(p) \/ WriteLog(p),
             ~ \E k, t, fields, row, step : Begin(p, k, t, fields, row, step)
      PROVE  /\ UNCHANGED <<kind, target, view>>
             /\ wrote'[q] = wrote[q] \/ pc[q] = "superseding"
             /\ pc'[q] \in Reviewing => pc[q] \in Reviewing
    BY <1>3 DEF Verifying, VerifyRead, SupersedeOne, FindPrevious, Verify, RecordReview, WriteLog,
           memory, Goto, Store, TypeOK, Reviewing
<1>4. ASSUME NEW p \in Requests, Retiring(p),
             ~ \E k, t, fields, row, step : Begin(p, k, t, fields, row, step)
      PROVE  /\ UNCHANGED <<kind, target, view>>
             /\ wrote'[q] = wrote[q] \/ pc[q] = "updating"
             /\ pc'[q] \in Reviewing => pc[q] \in Reviewing
    BY <1>4 DEF Retiring, DeprecateRead, ArchiveRead, FindReplacement, Retire,
           memory, Goto, Store, TypeOK, Reviewing
<1>5. ASSUME NEW p \in Requests, Drafting(p),
             ~ \E k, t, fields, row, step : Begin(p, k, t, fields, row, step)
      PROVE  /\ UNCHANGED <<kind, target, view>>
             /\ wrote'[q] = wrote[q] \/ pc[q] \in {"creating", "editing"}
             /\ pc'[q] \in Reviewing => pc[q] \in Reviewing
    BY <1>5 DEF Drafting, CreateRead, EditRead, CheckSource, NextLabel, CreateVersion, EditVersion,
           Submit, memory, Goto, Store, TypeOK, Reviewing
<1>6. ASSUME NEW p \in Requests, Sourcing(p) \/ Stop(p),
             ~ \E k, t, fields, row, step : Begin(p, k, t, fields, row, step)
      PROVE  /\ kind'[q] = kind[q] /\ target'[q] = target[q] /\ UNCHANGED <<view, wrote>>
             /\ pc'[q] \in Reviewing => pc[q] \in Reviewing
    BY <1>6 DEF Sourcing, PatchRead, RemoveRead, AddSource, PatchSource, DeleteSource, Stop,
           memory, Goto, TypeOK, Reviewing
<1> QED
    BY <1>1, <1>2, <1>3, <1>4, <1>5, <1>6 DEF Next

(* A request that is written in the histories stays there.                 *)
EditedIn(v) == \E q \in Requests : kind[q] = "edit" /\ Wrote(q, v) /\ view[q].status = "DRAFT"

LEMMA VerifiedStays ==
    ASSUME TypeOK, KnowledgeInv, [Next]_vars, NEW p \in Requests, NEW v, Verified(p, v)
    PROVE  Verified(p, v)' /\ view'[p] = view[p]
<1>1. KnowsItsVersion(p) /\ Remembers(p)
    BY DEF KnowledgeInv, TypeOK
<1>2. pc[p] # "idle" /\ pc[p] \notin {"superseding", "updating", "creating", "editing"}
    BY <1>1 DEF KnowsItsVersion, Fresh, Verified, Wrote
<1> QED
    BY <1>2, NothingForgotten DEF Verified, Wrote

LEMMA EditedStays ==
    ASSUME TypeOK, KnowledgeInv, [Next]_vars, NEW v, EditedIn(v)
    PROVE  EditedIn(v)'
<1>1. PICK q \in Requests : kind[q] = "edit" /\ Wrote(q, v) /\ view[q].status = "DRAFT"
    BY DEF EditedIn
<1>2. KnowsItsVersion(q) /\ Remembers(q)
    BY DEF KnowledgeInv, TypeOK
<1>3. pc[q] # "idle" /\ pc[q] \notin {"superseding", "updating", "creating", "editing"}
    BY <1>1, <1>2 DEF KnowsItsVersion, Fresh, Wrote, Remembers, Handlers
<1>4. kind'[q] = "edit" /\ wrote'[q] = wrote[q] /\ view'[q] = view[q]
    BY <1>1, <1>3, NothingForgotten
<1> QED
    BY <1>1, <1>4 DEF EditedIn, Wrote

(* A draft was moved to another slot.                                      *)
Moved == \E q \in Requests : kind[q] = "edit" /\ wrote[q] # NoVersion /\ "slot" \in DOMAIN dto[q]

(* What can become of a version: it is created, leaves the active ones, is *)
(* verified, or is edited by who had read it as a draft.                   *)
Created(v) == versions[v] = NoVersion /\ versions'[v] # NoVersion /\ versions'[v].status = "DRAFT"
Same(v) == versions'[v] # NoVersion /\ Substance(versions'[v]) = Substance(versions[v])
Left(v) ==
    Same(v) /\ \/ versions'[v].status = "DEPRECATED" /\ \E p \in Requests : SupersedeOne(p, v)
               \/ \E p \in Requests : Retire(p) /\ target[p] = v
                     /\ versions'[v].status = Retired(kind[p])
IsVerified(v) ==
    /\ Same(v) /\ versions'[v].status = "VERIFIED"
    /\ \E p \in Requests :
           pc[p] = "superseding" /\ target[p] = v /\ Verified(p, v)' /\ view'[p] = view[p]
IsEdited(v) ==
    /\ versions'[v] # NoVersion /\ versions'[v].status = versions[v].status
    /\ \E p \in Requests : pc[p] = "editing" /\ kind[p] = "edit" /\ target[p] = v
    /\ EditedIn(v)'
    /\ versions'[v].slot = versions[v].slot \/ Moved'

LEMMA WhatBecomes ==
    ASSUME TypeOK, KnowledgeInv, [Next]_vars, NEW v \in Versions
    PROVE  \/ versions'[v] = versions[v] \/ Created(v)
           \/ v \in Existing /\ (Left(v) \/ IsVerified(v) \/ IsEdited(v))
<1> SUFFICES ASSUME NEW p \in Requests, versions'[v] # versions[v],
                    \/ \E w \in Versions : SupersedeOne(p, w)
                    \/ Verify(p) \/ Retire(p) \/ EditVersion(p)
                    \/ \E w \in Versions : CreateVersion(p, w)
             PROVE  Created(v) \/ (v \in Existing /\ (Left(v) \/ IsVerified(v) \/ IsEdited(v)))
    BY DEF Next, Verifying, Retiring, Drafting, Sourcing, VerifyRead, FindPrevious, RecordReview,
           DeprecateRead, ArchiveRead, FindReplacement, CreateRead, EditRead, CheckSource,
           NextLabel, PatchRead, RemoveRead, AddSource, PatchSource, DeleteSource, WriteLog, Stop,
           Begin, tables, vars
<1>0. ASSUME NEW w \in Versions, NEW row, Store(p, w, row)
      PROVE  w = v /\ versions'[v] = row /\ wrote'[p] = [version |-> v, row |-> row]
    BY <1>0 DEF Store, TypeOK
<1>1. ASSUME NEW w \in Versions, SupersedeOne(p, w) PROVE v \in Existing /\ Left(v)
    <2>1. w \in Existing
        BY <1>1 DEF SupersedeOne, TypeOK, Remembers
    <2>2. w = v /\ versions'[v] = [versions[v] EXCEPT !.status = "DEPRECATED"]
        BY <1>0, <1>1 DEF SupersedeOne
    <2>3. versions[v] \in Row /\ versions'[v] \in Row
        BY <2>1, <2>2, ExistingRow DEF Row, Status
    <2> QED
        BY <1>1, <2>1, <2>2, <2>3, GovernanceAssumption DEF Left, Same, Substance, Row
<1>2. ASSUME Verify(p) PROVE v \in Existing /\ IsVerified(v)
    <2> DEFINE row == [versions[target[p]] EXCEPT !.status = "VERIFIED", !.verified = TRUE]
    <2>1. target[p] \in Existing /\ kind[p] = "verify" /\ pc[p] = "superseding"
        BY <1>2 DEF Verify, TypeOK, Remembers, Handlers
    <2>2. target[p] \in Versions
        BY <2>1 DEF Existing
    <2>3. Store(p, target[p], row) /\ UNCHANGED <<kind, target, view>>
        BY <1>2 DEF Verify
    <2>4. target[p] = v /\ versions'[v] = row /\ wrote'[p] = [version |-> v, row |-> row]
        BY <1>0, <2>2, <2>3
    <2>5. versions[v] \in Row /\ versions'[v] \in Row
        BY <2>1, <2>4, ExistingRow DEF Row, Status
    <2>6. Same(v)
        BY <2>4, <2>5, GovernanceAssumption DEF Same, Substance, Row
    <2>7. wrote'[p] # NoVersion
        BY <2>4, <2>5, GovernanceAssumption DEF Written
    <2>8. versions'[v].status = "VERIFIED"
        BY <2>4, <2>5 DEF Row
    <2> QED
        BY <2>1, <2>3, <2>4, <2>6, <2>7, <2>8 DEF IsVerified, Verified, Wrote
<1>3. ASSUME Retire(p) PROVE v \in Existing /\ Left(v)
    <2>1. target[p] \in Existing
        BY <1>3 DEF Retire, TypeOK, Remembers, Handlers
    <2>2. target[p] \in Versions
        BY <2>1 DEF Existing
    <2>3. target[p] = v /\ versions'[v] = [versions[v] EXCEPT !.status = Retired(kind[p])]
        BY <1>0, <1>3, <2>2 DEF Retire
    <2>4. versions[v] \in Row /\ versions'[v] \in Row
        BY <2>1, <2>3, ExistingRow DEF Row, Status, Retired
    <2>5. Same(v) /\ versions'[v].status = Retired(kind[p])
        BY <2>3, <2>4, GovernanceAssumption DEF Same, Substance, Row
    <2> QED
        BY <1>3, <2>1, <2>3, <2>5 DEF Left
<1>4. ASSUME NEW w \in Versions, NEW row, Submit(p, w, row)
      PROVE  w = v /\ versions'[v] = row /\ wrote'[p] = [version |-> v, row |-> row]
    BY <1>0, <1>4 DEF Submit
<1>5. ASSUME EditVersion(p) PROVE v \in Existing /\ IsEdited(v)
    <2>1. target[p] \in Existing /\ kind[p] = "edit" /\ pc[p] = "editing" /\ pc[p] # "refused"
        BY <1>5 DEF EditVersion, TypeOK, Remembers, Handlers
    <2>2. target[p] \in Versions
        BY <2>1 DEF Existing
    <2>3. Submit(p, target[p], EditedRow(p)) /\ UNCHANGED <<kind, view>>
        BY <1>5 DEF EditVersion, Submit
    <2>4. /\ target[p] = v /\ versions'[v] = EditedRow(p)
          /\ wrote'[p] = [version |-> v, row |-> EditedRow(p)]
        BY <1>4, <2>2, <2>3
    <2>5. EditedRow(p) \in Row
        BY <2>1, EditedRowType
    <2>6. versions[v] \in Row
        BY <2>1, <2>4, ExistingRow
    <2>7. versions'[v].status = versions[v].status
        BY <2>4, <2>6 DEF EditedRow, Row
    <2>8. view'[p].status = "DRAFT"
        BY <2>1, <2>3 DEF KnowledgeInv, KnowsItsVersion
    <2>9. wrote'[p] # NoVersion /\ versions'[v] # NoVersion
        BY <2>4, <2>5, GovernanceAssumption DEF Written
    <2>10. versions'[v].slot = versions[v].slot \/ "slot" \in DOMAIN dto'[p]
        BY <2>3, <2>4, <2>6 DEF EditedRow, Row, Given, Submit
    <2> QED
        BY <2>1, <2>3, <2>4, <2>7, <2>8, <2>9, <2>10 DEF IsEdited, EditedIn, Wrote, Moved
<1>6. ASSUME NEW w \in Versions, CreateVersion(p, w) PROVE Created(v)
    <2>1. kind[p] = "create" /\ pc[p] # "refused"
        BY <1>6 DEF CreateVersion, TypeOK, Remembers, Handlers
    <2>2. w = v /\ versions'[v] = NewRow(p)
        BY <1>4, <1>6 DEF CreateVersion
    <2>3. NewRow(p) \in Row /\ NewRow(p).status = "DRAFT"
        BY <2>1, NewRowType DEF NewRow
    <2> QED
        BY <1>6, <2>2, <2>3, GovernanceAssumption DEF Created, CreateVersion, Existing
<1> QED
    BY <1>1, <1>2, <1>3, <1>5, <1>6

(* While a version is being verified it is as its verifier has read it, or *)
(* an editor has written it since.                                         *)
AsRead(p) ==
    pc[p] \in Reviewing =>
        Substance(versions[target[p]]) = Substance(view[p]) \/ EditedIn(target[p])

ReviewInv ==
    /\ KnowledgeInv
    /\ \A p \in Requests : AsRead(p)
    /\ ActiveAsReviewed

(* Verification begins with the version as it is.                          *)
LEMMA BeginsAsRead ==
    ASSUME TypeOK, [Next]_vars, NEW q \in Requests, pc[q] = "idle", pc'[q] \in Reviewing
    PROVE  UNCHANGED versions /\ view'[q] = versions[target'[q]] /\ pc'[q] = "finding"
<1>1. PICK p \in Requests : Verifying(p) \/ Retiring(p) \/ Drafting(p) \/ Sourcing(p)
                               \/ WriteLog(p) \/ Stop(p)
    BY DEF Next, vars, Reviewing
<1>2. p = q
    BY <1>1 DEF Verifying, Retiring, Drafting, Sourcing, VerifyRead, SupersedeOne, FindPrevious,
       Verify, RecordReview, DeprecateRead, ArchiveRead, FindReplacement, Retire, CreateRead,
       EditRead, CheckSource, NextLabel, CreateVersion, EditVersion, Submit, PatchRead,
       RemoveRead, AddSource, PatchSource, DeleteSource, WriteLog, Stop, Begin, Goto, TypeOK,
       Reviewing
<1>3. \A k, t, fields, row, step : Begin(q, k, t, fields, row, step) => step \in Reviewing
    BY DEF Begin, Goto, TypeOK
<1>4. \E v \in Versions : VerifyRead(q, v)
    <2>1. ~ WriteLog(q) /\ ~ Stop(q)
        BY DEF WriteLog, Stop, Waiting
    <2>2. ~ Retiring(q)
        BY <1>3 DEF Retiring, DeprecateRead, ArchiveRead, FindReplacement, Retire, Reviewing
    <2>3. ~ Drafting(q)
        BY <1>3 DEF Drafting, CreateRead, EditRead, CheckSource, NextLabel, CreateVersion,
           EditVersion, Reviewing
    <2>4. ~ Sourcing(q)
        BY <1>3 DEF Sourcing, PatchRead, RemoveRead, AddSource, PatchSource, DeleteSource, Goto,
           TypeOK, Reviewing
    <2> QED
        BY <1>1, <1>2, <2>1, <2>2, <2>3, <2>4 DEF Verifying, SupersedeOne, FindPrevious, Verify,
           RecordReview
<1> QED
    BY <1>4 DEF VerifyRead, Begin, Goto, tables, TypeOK, Reviewing

LEMMA AsReadStep ==
    ASSUME TypeOK, ReviewInv, [Next]_vars, NEW q \in Requests
    PROVE  AsRead(q)'
<1> SUFFICES ASSUME pc'[q] \in Reviewing PROVE AsRead(q)'
    BY DEF AsRead
<1>1. CASE pc[q] = "idle"
    BY <1>1, BeginsAsRead DEF AsRead, Substance
<1>2. CASE pc[q] # "idle"
    <2>0. PICK v : v = target[q]
        OBVIOUS
    <2>1. target'[q] = v /\ view'[q] = view[q] /\ pc[q] \in Reviewing
        BY <1>2, <2>0, NothingForgotten
    <2>2. v \in Existing /\ v \in Versions
        BY <2>0, <2>1 DEF TypeOK, Remembers, Handlers, Reviewing, Existing
    <2>3. Substance(versions[v]) = Substance(view[q]) \/ EditedIn(v)
        BY <2>0, <2>1 DEF ReviewInv, AsRead
    <2>4. EditedIn(v) => EditedIn(v)'
        BY EditedStays DEF ReviewInv
    <2>5. ~ Created(v)
        BY <2>2 DEF Created, Existing
    <2>6. versions'[v] = versions[v] \/ Left(v) \/ IsVerified(v) \/ IsEdited(v)
        BY <2>2, <2>5, WhatBecomes DEF ReviewInv
    <2>7. Substance(versions'[v]) = Substance(versions[v]) \/ EditedIn(v)'
        BY <2>6 DEF Left, IsVerified, IsEdited, Same
    <2>8. Substance(versions'[v]) = Substance(view[q]) \/ EditedIn(v)'
        BY <2>3, <2>4, <2>7
    <2> QED
        BY <2>1, <2>8 DEF AsRead, Substance, EditedIn, Wrote
<1> QED
    BY <1>1, <1>2

LEMMA ActiveStep ==
    ASSUME TypeOK, ReviewInv, [Next]_vars
    PROVE  ActiveAsReviewed'
<1> SUFFICES ASSUME NEW v \in Versions, versions'[v] # NoVersion,
                    versions'[v].status \in ActiveStatus, ~ EditedIn(v)'
             PROVE  \/ /\ SeededVersions[v] # NoVersion /\ SeededVersions[v].status \in ActiveStatus
                       /\ Substance(versions'[v]) = Substance(SeededVersions[v])
                    \/ \E p \in Requests :
                          Verified(p, v)' /\ Substance(versions'[v]) = Substance(view'[p])
    BY DEF ActiveAsReviewed, Active, Existing, EditedIn, Substance
<1>1. ~ EditedIn(v)
    BY EditedStays DEF ReviewInv
<1>2. ~ Created(v) /\ ~ Left(v) /\ ~ IsEdited(v)
    BY DEF Created, Left, IsEdited, ActiveStatus, Retired
<1>3. CASE versions'[v] = versions[v]
    <2>1. Active(v)
        BY <1>3 DEF Active, Existing
    <2>2. \/ /\ SeededVersions[v] # NoVersion /\ SeededVersions[v].status \in ActiveStatus
             /\ Substance(versions[v]) = Substance(SeededVersions[v])
          \/ \E p \in Requests : Verified(p, v) /\ Substance(versions[v]) = Substance(view[p])
        BY <1>1, <2>1 DEF ReviewInv, ActiveAsReviewed, EditedIn
    <2>3. ASSUME NEW p \in Requests, Verified(p, v) PROVE Verified(p, v)' /\ view'[p] = view[p]
        BY <2>3, VerifiedStays DEF ReviewInv
    <2> QED
        BY <1>3, <2>2, <2>3
<1>4. CASE IsVerified(v)
    <2>1. PICK p \in Requests : /\ pc[p] = "superseding" /\ target[p] = v
                                /\ Verified(p, v)' /\ view'[p] = view[p]
        BY <1>4 DEF IsVerified
    <2>2. Substance(versions[v]) = Substance(view[p])
        BY <1>1, <2>1 DEF ReviewInv, AsRead, Reviewing
    <2>3. Substance(versions'[v]) = Substance(view'[p])
        BY <1>4, <2>1, <2>2 DEF IsVerified, Same
    <2> QED
        BY <2>1, <2>3
<1> QED
    BY <1>2, <1>3, <1>4, WhatBecomes DEF ReviewInv

(* What calculations use is what a reviewer has read: an active version    *)
(* was seeded as it is, or verified by a request that had read it as it is *)
(* -- or else an editor who had read it as a draft has written it.         *)
THEOREM ActiveIsAsReviewed == Spec => []ActiveAsReviewed
<1>1. Init => ReviewInv
    BY DEF Init, ReviewInv, KnowledgeInv, KnowsItsVersion, AsRead, Reviewing, ActiveAsReviewed,
       Active, Existing
<1>2. TypeOK /\ ReviewInv /\ [Next]_vars => ReviewInv'
    <2> SUFFICES ASSUME TypeOK, ReviewInv, [Next]_vars PROVE ReviewInv'
        OBVIOUS
    <2>1. KnowledgeInv'
        BY KnowledgeStep DEF ReviewInv
    <2>2. \A p \in Requests : AsRead(p)'
        BY AsReadStep
    <2>3. ActiveAsReviewed'
        BY ActiveStep
    <2> QED
        BY <2>1, <2>2, <2>3 DEF ReviewInv
<1>3. ReviewInv => ActiveAsReviewed
    BY DEF ReviewInv
<1> QED
    BY <1>1, <1>2, <1>3, GovernanceTypeCorrect, PTL DEF Spec

-----------------------------------------------------------------------------
(* A version active since the beginning is one nobody has moved.           *)

Unverified(v) == Active(v) /\ \A p \in Requests : ~ Verified(p, v)

NotYetArchived(p) ==
    /\ kind[p] = "edit" /\ Unverified(target[p]) => view[p].status # "DRAFT"
    /\ pc[p] = "replacing" /\ Unverified(target[p]) =>
          view[p].status \in ActiveStatus /\ view[p].slot = versions[target[p]].slot
    /\ pc[p] = "updating" /\ kind[p] = "archive" => ~ Unverified(target[p])

ArchiveInv == KnowledgeInv /\ OneActivePerSlot /\ \A p \in Requests : NotYetArchived(p)

LEMMA UnverifiedBefore ==
    ASSUME TypeOK, ArchiveInv, [Next]_vars, NEW v \in Versions, Unverified(v)'
    PROVE  Unverified(v) /\ Substance(versions'[v]) = Substance(versions[v])
<1>1. versions'[v] # NoVersion /\ versions'[v].status \in ActiveStatus
    BY DEF Unverified, Active, Existing
<1>2. ~ Created(v) /\ ~ Left(v) /\ ~ IsVerified(v)
    BY <1>1 DEF Created, Left, ActiveStatus, Retired, IsVerified, Unverified
<1>3. \A p \in Requests : ~ Verified(p, v)
    BY VerifiedStays DEF Unverified, ArchiveInv
<1>4. ASSUME v \in Existing, IsEdited(v) PROVE FALSE
    <2>1. PICK p \in Requests : pc[p] = "editing" /\ kind[p] = "edit" /\ target[p] = v
        BY <1>4 DEF IsEdited
    <2>2. view[p].status = "DRAFT"
        BY <2>1 DEF ArchiveInv, KnowledgeInv, KnowsItsVersion
    <2>3. Unverified(v)
        BY <1>1, <1>3, <1>4 DEF IsEdited, Unverified, Active
    <2> QED
        BY <2>1, <2>2, <2>3 DEF ArchiveInv, NotYetArchived
<1>5. versions'[v] = versions[v]
    BY <1>2, <1>4, WhatBecomes DEF ArchiveInv
<1> QED
    BY <1>1, <1>3, <1>5 DEF Unverified, Active, Existing

(* Whoever moves on without a new reading knows what it knew.              *)
LEMMA ArchiveOthers ==
    ASSUME TypeOK, ArchiveInv, [Next]_vars, NEW q \in Requests,
           kind'[q] = kind[q], target'[q] = target[q], view'[q] = view[q],
           pc'[q] \in {"replacing", "updating"} => pc[q] = pc'[q]
    PROVE  NotYetArchived(q)'
<1>0. PICK v : v = target[q]
    OBVIOUS
<1>1. kind'[q] = kind[q] /\ target'[q] = v /\ view'[q] = view[q]
    BY <1>0
<1>2. NotYetArchived(q)
    BY DEF ArchiveInv
<1>3. kind[q] = "edit" \/ pc[q] \in {"replacing", "updating"} => v \in Versions
    BY <1>0 DEF TypeOK, Remembers, Handlers, Existing
<1>4. v \in Versions /\ Unverified(v)' =>
          Unverified(v) /\ Substance(versions'[v]) = Substance(versions[v])
    BY UnverifiedBefore
<1>5. kind'[q] = "edit" /\ Unverified(target[q])' => view'[q].status # "DRAFT"
    BY <1>0, <1>1, <1>2, <1>3, <1>4
       DEF NotYetArchived, Unverified, Active, Existing, Verified, Wrote
<1>6. pc'[q] = "replacing" /\ Unverified(target[q])' =>
          view'[q].status \in ActiveStatus /\ view'[q].slot = versions'[target'[q]].slot
    <2>1. ASSUME Unverified(target[q])', pc'[q] = "replacing" PROVE Unverified(v)'
        BY <1>1, <2>1 DEF Unverified, Active, Existing, Verified, Wrote
    <2> QED
        BY <1>0, <1>1, <1>2, <1>3, <1>4, <2>1 DEF NotYetArchived, Substance
<1>7. pc'[q] = "updating" /\ kind'[q] = "archive" => ~ Unverified(target[q])'
    <2>1. ASSUME Unverified(target[q])', pc'[q] = "updating" PROVE Unverified(v)'
        BY <1>1, <2>1 DEF Unverified, Active, Existing, Verified, Wrote
    <2> QED
        BY <1>0, <1>1, <1>2, <1>3, <1>4, <2>1 DEF NotYetArchived
<1> QED
    BY <1>5, <1>6, <1>7 DEF NotYetArchived

LEMMA ArchiveBegins ==
    ASSUME TypeOK, ArchiveInv, NEW p \in Requests, NEW k, NEW t, NEW fields, NEW row, NEW step,
           Begin(p, k, t, fields, row, step),
           k \in {"edit", "archive"} => t \in Existing /\ row = versions[t],
           step = "replacing" => k = "archive", k = "archive" => step = "replacing"
    PROVE  NotYetArchived(p)'
<1>1. /\ pc'[p] = step /\ kind'[p] = k /\ target'[p] = t /\ view'[p] = row
      /\ UNCHANGED versions
    BY DEF Begin, Goto, tables, TypeOK
<1>2. Unverified(target[p])' => versions[t].status \in ActiveStatus
    BY <1>1 DEF Unverified, Active
<1>3. "DRAFT" \notin ActiveStatus
    BY DEF ActiveStatus
<1> QED
    BY <1>1, <1>2, <1>3 DEF NotYetArchived

LEMMA ArchiveFinds ==
    ASSUME TypeOK, ArchiveInv, [Next]_vars, NEW p \in Requests, FindReplacement(p)
    PROVE  NotYetArchived(p)'
<1>0. PICK v : v = target[p]
    OBVIOUS
<1>1. /\ kind[p] = "archive" /\ v \in Versions /\ v \in Existing
      /\ UNCHANGED <<versions, kind, target, view, wrote>>
    BY <1>0 DEF FindReplacement, TypeOK, Remembers, Handlers, Existing, tables, memory
<1>2. CASE pc'[p] # "updating"
    <2>1. pc'[p] # "replacing"
        BY <1>2 DEF FindReplacement, Goto, TypeOK
    <2> QED
        BY <1>1, <1>2, <2>1 DEF NotYetArchived
<1>3. CASE pc'[p] = "updating"
    <2>1. Archivable(p)
        BY <1>3 DEF FindReplacement, Goto, TypeOK
    <2>2. ASSUME Unverified(v) PROVE FALSE
        <3>1. view[p].status \in ActiveStatus /\ view[p].slot = versions[v].slot
            BY <1>0, <2>2 DEF ArchiveInv, NotYetArchived, FindReplacement
        <3>2. PICK w \in InSlot(view[p].slot) \ {v} : Active(w)
            BY <1>0, <2>1, <3>1 DEF Archivable, ActiveLike
        <3>3. w \in Existing /\ w # v /\ versions[w].slot = versions[v].slot /\ Active(v)
            BY <2>2, <3>1, <3>2 DEF InSlot, Unverified
        <3> QED
            BY <1>1, <3>2, <3>3 DEF ArchiveInv, OneActivePerSlot
    <2>3. ~ Unverified(target[p])'
        BY <1>0, <1>1, <2>2 DEF Unverified, Active, Existing, Verified, Wrote
    <2> QED
        BY <1>1, <1>3, <2>3 DEF NotYetArchived
<1> QED
    BY <1>2, <1>3

LEMMA ArchiveStep ==
    ASSUME TypeOK, ArchiveInv, [Next]_vars, NEW q \in Requests
    PROVE  NotYetArchived(q)'
<1> DEFINE Keeps == kind'[q] = kind[q] /\ target'[q] = target[q] /\ view'[q] = view[q]
           Moves == pc'[q] \in {"replacing", "updating"} => pc[q] = pc'[q]
<1>0. Keeps /\ Moves => NotYetArchived(q)'
    BY ArchiveOthers
<1> HIDE DEF Keeps, Moves
<1>1. CASE UNCHANGED vars
    BY <1>0, <1>1 DEF vars, memory, Keeps, Moves
<1>2. ASSUME NEW p \in Requests, Verifying(p) PROVE NotYetArchived(q)'
    <2>1. ASSUME NEW v \in Versions, VerifyRead(p, v) PROVE NotYetArchived(q)'
        <3>1. CASE p = q
            BY <2>1, <3>1, ArchiveBegins DEF VerifyRead
        <3>2. CASE p # q
            BY <1>0, <2>1, <3>2 DEF VerifyRead, Begin, Goto, TypeOK, Keeps, Moves
        <3> QED
            BY <3>1, <3>2
    <2> QED
        BY <1>0, <1>2, <2>1 DEF Verifying, SupersedeOne, FindPrevious, Verify, RecordReview, memory,
           Goto, TypeOK, Keeps, Moves
<1>3. ASSUME NEW p \in Requests, Retiring(p) PROVE NotYetArchived(q)'
    <2>1. ASSUME NEW v \in Versions, DeprecateRead(p, v) \/ ArchiveRead(p, v)
          PROVE  NotYetArchived(q)'
        <3>1. CASE p = q
            BY <2>1, <3>1, ArchiveBegins DEF DeprecateRead, ArchiveRead
        <3>2. CASE p # q
            BY <1>0, <2>1, <3>2 DEF DeprecateRead, ArchiveRead, Begin, Goto, TypeOK, Keeps, Moves
        <3> QED
            BY <3>1, <3>2
    <2>2. ASSUME FindReplacement(p) PROVE NotYetArchived(q)'
        <3>1. CASE p = q
            BY <2>2, <3>1, ArchiveFinds
        <3>2. CASE p # q
            BY <1>0, <2>2, <3>2 DEF FindReplacement, memory, Goto, TypeOK, Keeps, Moves
        <3> QED
            BY <3>1, <3>2
    <2>3. ASSUME Retire(p) PROVE NotYetArchived(q)'
        BY <1>0, <2>3 DEF Retire, Goto, TypeOK, Keeps, Moves
    <2> QED
        BY <1>3, <2>1, <2>2, <2>3 DEF Retiring
<1>4. ASSUME NEW p \in Requests, Drafting(p) PROVE NotYetArchived(q)'
    <2>1. ASSUME NEW fields, NEW v, CreateRead(p, fields) \/ EditRead(p, v, fields)
          PROVE  NotYetArchived(q)'
        <3>1. CASE p = q
            BY <2>1, <3>1, ArchiveBegins DEF CreateRead, EditRead
        <3>2. CASE p # q
            BY <1>0, <2>1, <3>2 DEF CreateRead, EditRead, Begin, Goto, TypeOK, Keeps, Moves
        <3> QED
            BY <3>1, <3>2
    <2> QED
        BY <1>0, <1>4, <2>1 DEF Drafting, CheckSource, NextLabel, CreateVersion, EditVersion,
           Submit, Goto, TypeOK, Keeps, Moves
<1>5. ASSUME NEW p \in Requests, Sourcing(p) PROVE NotYetArchived(q)'
    <2>1. ASSUME NEW s, NEW fields, PatchRead(p, s, fields) \/ RemoveRead(p, s)
          PROVE  NotYetArchived(q)'
        <3>1. CASE p = q
            BY <2>1, <3>1, ArchiveBegins DEF PatchRead, RemoveRead
        <3>2. CASE p # q
            BY <1>0, <2>1, <3>2 DEF PatchRead, RemoveRead, Begin, Goto, TypeOK, Keeps, Moves
        <3> QED
            BY <3>1, <3>2
    <2>2. ASSUME NEW s, NEW row, AddSource(p, s, row) PROVE NotYetArchived(q)'
        <3>1. CASE p = q
            BY <2>2, <3>1 DEF AddSource, Goto, TypeOK, NotYetArchived
        <3>2. CASE p # q
            BY <1>0, <2>2, <3>2 DEF AddSource, Goto, TypeOK, Keeps, Moves
        <3> QED
            BY <3>1, <3>2
    <2> QED
        BY <1>0, <1>5, <2>1, <2>2 DEF Sourcing, PatchSource, DeleteSource, memory, Goto, TypeOK,
           Keeps, Moves
<1>6. ASSUME NEW p \in Requests, WriteLog(p) \/ Stop(p) PROVE NotYetArchived(q)'
    BY <1>0, <1>6 DEF WriteLog, Stop, memory, Goto, TypeOK, Keeps, Moves
<1> QED
    BY <1>1, <1>2, <1>3, <1>4, <1>5, <1>6 DEF Next

(* "Cannot archive the latest active factor version unless another active  *)
(* version replaces it": archiveFactor never takes away a version that has *)
(* been active since the beginning, only one that a request has verified,  *)
(* whatever requests overlap.                                              *)
THEOREM ActiveIsNotArchived ==
    ASSUME SeededInOrder
    PROVE  Spec => ArchivesNoActiveVersion
<1> DEFINE Archives == \A v \in Existing :
                          Active(v) /\ versions'[v].status = "ARCHIVED" =>
                              \E p \in Requests : Verified(p, v)
<1>1. Init => ArchiveInv
    BY DEF SeededInOrder, Init, ArchiveInv, KnowledgeInv, KnowsItsVersion, OneActivePerSlot,
       NotYetArchived, Existing, Active
<1>2. TypeOK /\ ArchiveInv /\ [Next]_vars => ArchiveInv'
    BY KnowledgeStep, OneActiveStep, ArchiveStep DEF ArchiveInv
<1>3. TypeOK /\ ArchiveInv /\ [Next]_vars => [Archives]_vars
    <2> SUFFICES ASSUME TypeOK, ArchiveInv, [Next]_vars, NEW v \in Existing,
                        Active(v), versions'[v].status = "ARCHIVED", Unverified(v)
                 PROVE  FALSE
        BY DEF Unverified
    <2>1. v \in Versions /\ versions[v] # NoVersion /\ versions[v].status \in ActiveStatus
        BY DEF Existing, Active
    <2>2. versions'[v] # versions[v]
        BY <2>1 DEF ActiveStatus
    <2>3. ~ Created(v) /\ ~ IsEdited(v)
        BY <2>1 DEF Created, IsEdited, ActiveStatus
    <2>4. ~ IsVerified(v)
        BY DEF IsVerified
    <2>5. PICK p \in Requests : /\ Retire(p) /\ target[p] = v
                                /\ versions'[v].status = Retired(kind[p])
        BY <2>1, <2>2, <2>3, <2>4, WhatBecomes DEF ArchiveInv, Left
    <2>6. kind[p] = "archive" /\ pc[p] = "updating"
        BY <2>5 DEF Retired, Retire
    <2> QED
        BY <2>5, <2>6 DEF ArchiveInv, NotYetArchived
<1>4. Spec => [][Archives]_vars
    BY <1>1, <1>2, <1>3, GovernanceTypeCorrect, PTL DEF Spec
<1> QED
    BY <1>4 DEF ArchivesNoActiveVersion

-----------------------------------------------------------------------------
(* Official sources.                                                       *)

PatchPending(q, s) == kind[q] = "patch" /\ target[q] = s /\ pc[q] = "patching"
PatchDone(q, s) == kind[q] = "patch" /\ target[q] = s /\ pc[q] = "done"

RemoveOnlyArchives ==
    \A q \in Requests : kind[q] = "remove" => DOMAIN dto[q] \cap {"official", "standing"} = {}

(* An update that is under way would leave the source valid, or another    *)
(* one has been made.                                                      *)
PendingIsValid ==
    \A q \in Requests, s \in Sources :
        PatchPending(q, s) /\ sources[s] # NoSource =>
            \/ Valid(Patched(sources[s], dto[q]))
            \/ \E r \in Requests \ {q} : PatchDone(r, s)

SourcesInv == RemoveOnlyArchives /\ PendingIsValid /\ OfficialMeansDocumented

(* What was valid when it was seeded.                                      *)
SeededDocumented ==
    \A s \in Sources : SeededSources[s] # NoSource => Valid(SeededSources[s])

LEMMA PatchFrame ==
    ASSUME TypeOK, [Next]_vars, NEW q \in Requests, NEW s
    PROVE  /\ PatchDone(q, s) => PatchDone(q, s)'
           /\ PatchPending(q, s)' =>
                 \/ PatchPending(q, s) /\ dto'[q] = dto[q]
                 \/ /\ sources' = sources /\ sources[s] # NoSource
                    /\ Valid(Patched(sources[s], dto'[q]))
           /\ kind'[q] = "remove" =>
                 \/ kind[q] = "remove" /\ dto'[q] = dto[q]
                 \/ dto'[q] = [active |-> FALSE]
<1> DEFINE Quiet ==
              /\ kind'[q] = kind[q] /\ target'[q] = target[q] /\ dto'[q] = dto[q]
              /\ pc'[q] = pc[q] \/ (pc'[q] # "patching" /\ pc[q] # "done")
<1>0. ASSUME Quiet
      PROVE  /\ PatchDone(q, s) => PatchDone(q, s)'
             /\ PatchPending(q, s)' => PatchPending(q, s)
             /\ kind'[q] = "remove" => kind[q] = "remove"
    BY <1>0 DEF PatchDone, PatchPending
<1>1. CASE UNCHANGED vars
    BY <1>1 DEF vars, memory, PatchDone, PatchPending
<1>2. ASSUME NEW p \in Requests, NEW t \in Sources, NEW fields \in Patches, PatchRead(p, t, fields),
             p = q
      PROVE  /\ pc[q] = "idle" /\ kind'[q] = "patch" /\ target'[q] = t /\ dto'[q] = fields
             /\ sources' = sources /\ sources[t] # NoSource
             /\ pc'[q] = "patching" => Valid(Patched(sources[t], fields))
    BY <1>2 DEF PatchRead, Begin, Goto, TypeOK, Acceptable, tables
<1>3. ASSUME NEW p \in Requests, NEW t \in Sources, RemoveRead(p, t), p = q
      PROVE  pc[q] = "idle" /\ kind'[q] = "remove" /\ dto'[q] = [active |-> FALSE]
    BY <1>3 DEF RemoveRead, Begin, Goto, TypeOK
<1>4. ASSUME NEW p \in Requests, NEW t \in Sources, NEW row \in Source, AddSource(p, t, row), p = q
      PROVE  pc[q] = "idle" /\ kind'[q] = "add"
    BY <1>4 DEF AddSource, Goto, TypeOK
<1>5. ASSUME NEW p \in Requests, p # q,
             \/ \E t \in Sources, fields \in Patches : PatchRead(p, t, fields)
             \/ \E t \in Sources : RemoveRead(p, t)
             \/ \E t \in Sources, row \in Source : AddSource(p, t, row)
      PROVE  Quiet
    BY <1>5 DEF PatchRead, RemoveRead, AddSource, Begin, Goto, TypeOK
<1>6. ASSUME NEW p \in Requests, PatchSource(p) \/ DeleteSource(p)
      PROVE  Quiet
    BY <1>6 DEF PatchSource, DeleteSource, memory, Goto, TypeOK
<1>7. ASSUME NEW p \in Requests, Verifying(p) \/ WriteLog(p) \/ Stop(p)
      PROVE  Quiet \/ (pc[q] = "idle" /\ kind'[q] = "verify")
    BY <1>7 DEF Verifying, VerifyRead, SupersedeOne, FindPrevious, Verify, RecordReview, WriteLog,
           Stop, Waiting, Begin, memory, Goto, TypeOK
<1>8. ASSUME NEW p \in Requests, Retiring(p)
      PROVE  Quiet \/ (pc[q] = "idle" /\ kind'[q] \in {"deprecate", "archive"})
    BY <1>8 DEF Retiring, DeprecateRead, ArchiveRead, FindReplacement, Retire, Begin, memory,
           Goto, TypeOK
<1>9. ASSUME NEW p \in Requests, Drafting(p)
      PROVE  Quiet \/ (pc[q] = "idle" /\ kind'[q] \in {"create", "edit"})
    BY <1>9 DEF Drafting, CreateRead, EditRead, CheckSource, NextLabel, CreateVersion, EditVersion,
           Submit, Begin, memory, Goto, TypeOK
<1>10. ASSUME pc[q] = "idle", kind'[q] \notin {"patch", "remove"}
       PROVE  /\ PatchDone(q, s) => PatchDone(q, s)'
              /\ ~ PatchPending(q, s)'
              /\ kind'[q] # "remove"
    BY <1>10 DEF PatchDone, PatchPending
<1>11. ASSUME Quiet PROVE dto'[q] = dto[q]
    BY <1>11
<1> HIDE DEF Quiet
<1>12. CASE \E p \in Requests : Sourcing(p)
    <2>1. PICK p \in Requests : Sourcing(p)
        BY <1>12
    <2>2. CASE \E t \in Sources, fields \in Patches : PatchRead(p, t, fields) /\ p = q
        BY <1>2, <2>2 DEF PatchDone, PatchPending
    <2>3. CASE \E t \in Sources : RemoveRead(p, t) /\ p = q
        BY <1>3, <2>3 DEF PatchDone, PatchPending
    <2> QED
        BY <1>0, <1>4, <1>5, <1>6, <1>10, <1>11, <2>1, <2>2, <2>3 DEF Sourcing
<1>13. CASE \E p \in Requests : Verifying(p) \/ Retiring(p) \/ Drafting(p) \/ WriteLog(p) \/ Stop(p)
    <2>1. Quiet \/ (pc[q] = "idle" /\ kind'[q] \notin {"patch", "remove"})
        BY <1>7, <1>8, <1>9, <1>13
    <2> QED
        BY <1>0, <1>10, <1>11, <2>1
<1> QED
    BY <1>0, <1>1, <1>11, <1>12, <1>13 DEF Next, Quiet

(* What can become of a source.                                            *)
LEMMA SourceBecomes ==
    ASSUME TypeOK, [Next]_vars, NEW s \in Sources
    PROVE  \/ sources'[s] = sources[s] \/ sources'[s] = NoSource
           \/ Valid(sources'[s]) /\ \A q \in Requests : target[q] # s
           \/ \E p \in Requests :
                 /\ sources[s] # NoSource /\ target[p] = s /\ pc[p] = "patching"
                 /\ kind[p] \in {"patch", "remove"} /\ kind'[p] = kind[p] /\ target'[p] = s
                 /\ pc'[p] = "done"
                 /\ sources'[s] = Patched(sources[s], dto[p])
<1>1. ASSUME NEW p \in Requests, PatchSource(p), sources[target[p]] # NoSource
      PROVE  /\ target[p] \in Sources /\ pc[p] = "patching" /\ kind[p] \in {"patch", "remove"}
             /\ kind'[p] = kind[p] /\ target'[p] = target[p] /\ pc'[p] = "done"
             /\ sources' = [sources EXCEPT ![target[p]] = Patched(@, dto[p])]
    BY <1>1 DEF PatchSource, TypeOK, Remembers, Handlers, Goto, memory
<1>2. ASSUME NEW p \in Requests, PatchSource(p), sources[target[p]] = NoSource
      PROVE  sources' = sources
    BY <1>2 DEF PatchSource
<1>3. ASSUME NEW t \in Sources, NEW row \in Source, NEW p \in Requests, AddSource(p, t, row)
      PROVE  /\ sources' = [sources EXCEPT ![t] = row] /\ Valid(row)
             /\ \A q \in Requests : target[q] # t
    BY <1>3 DEF AddSource
<1>4. ASSUME NEW p \in Requests, DeleteSource(p)
      PROVE  sources' = sources \/ sources' = [sources EXCEPT ![target[p]] = NoSource]
    BY <1>4 DEF DeleteSource
<1>5. ASSUME NEW p \in Requests,
             \/ Verifying(p) \/ Retiring(p) \/ Drafting(p) \/ WriteLog(p) \/ Stop(p)
             \/ \E t \in Sources, fields \in Patches : PatchRead(p, t, fields)
             \/ \E t \in Sources : RemoveRead(p, t)
      PROVE  sources' = sources
    BY <1>5 DEF Verifying, VerifyRead, FindPrevious, SupersedeOne, Verify, RecordReview, Retiring,
           DeprecateRead, ArchiveRead, FindReplacement, Retire, Drafting, CreateRead, EditRead,
           CheckSource, NextLabel, CreateVersion, EditVersion, Submit, PatchRead, RemoveRead,
           WriteLog, Stop, Begin, tables
<1>6. CASE UNCHANGED vars
    BY <1>6 DEF vars, tables
<1>7. sources \in [Sources -> Source \cup {NoSource}]
    BY DEF TypeOK
<1>8. CASE \E p \in Requests : PatchSource(p)
    BY <1>1, <1>2, <1>7, <1>8
<1>9. CASE \E p \in Requests, t \in Sources, row \in Source : AddSource(p, t, row)
    BY <1>3, <1>7, <1>9
<1>10. CASE \E p \in Requests : DeleteSource(p)
    BY <1>4, <1>7, <1>10
<1> QED
    BY <1>5, <1>6, <1>8, <1>9, <1>10 DEF Next, Sourcing

LEMMA ValidPatch ==
    ASSUME NEW row, NEW first, NEW second,
           DOMAIN first \cap {"official", "standing"} = {}
    PROVE  /\ Valid(Patched(row, first)) = Valid(row)
           /\ Valid(Patched(Patched(row, first), second)) = Valid(Patched(row, second))
BY DEF Valid, Patched, Given

LEMMA SourcesInvStep == TypeOK /\ SourcesInv /\ [Next]_vars => SourcesInv'
<1> SUFFICES ASSUME TypeOK, SourcesInv, [Next]_vars PROVE SourcesInv'
    OBVIOUS
<1>0. ASSUME NEW q \in Requests, NEW s \in Sources, PatchDone(q, s) PROVE PatchDone(q, s)'
    BY <1>0, PatchFrame
<1>1. RemoveOnlyArchives'
    <2>1. DOMAIN [active |-> FALSE] \cap {"official", "standing"} = {}
        OBVIOUS
    <2> QED
        BY <2>1, PatchFrame DEF SourcesInv, RemoveOnlyArchives
<1>2. ASSUME NEW s \in Sources, NEW q \in Requests, PatchPending(q, s)', sources'[s] # NoSource,
             ~ \E r \in Requests \ {q} : PatchDone(r, s)'
      PROVE  Valid(Patched(sources'[s], dto'[q]))
    <2>1. CASE sources' = sources /\ Valid(Patched(sources[s], dto'[q]))
        BY <2>1
    <2>2. CASE PatchPending(q, s) /\ dto'[q] = dto[q]
        <3>1. sources[s] # NoSource => Valid(Patched(sources[s], dto[q]))
            BY <1>0, <1>2, <2>2 DEF SourcesInv, PendingIsValid
        <3>2. CASE sources'[s] = sources[s]
            BY <1>2, <2>2, <3>1, <3>2
        <3>3. CASE sources'[s] # sources[s]
            <4>1. PICK p \in Requests :
                     /\ sources[s] # NoSource /\ target[p] = s /\ pc[p] = "patching"
                     /\ kind[p] \in {"patch", "remove"} /\ kind'[p] = kind[p] /\ target'[p] = s
                     /\ pc'[p] = "done"
                     /\ sources'[s] = Patched(sources[s], dto[p])
                BY <1>2, <2>2, <3>3, SourceBecomes DEF PatchPending
            <4>2. p # q
                BY <1>2, <4>1 DEF PatchPending
            <4>3. kind[p] = "remove"
                BY <1>2, <4>1, <4>2 DEF PatchDone
            <4>4. DOMAIN dto[p] \cap {"official", "standing"} = {}
                BY <4>3 DEF SourcesInv, RemoveOnlyArchives
            <4> QED
                BY <2>2, <3>1, <4>1, <4>4, ValidPatch
        <3> QED
            BY <3>2, <3>3
    <2> QED
        BY <1>2, <2>1, <2>2, PatchFrame
<1>3. PendingIsValid'
    BY <1>2 DEF PendingIsValid
<1>4. ASSUME NEW s \in Sources, sources'[s] # NoSource, ~ Valid(sources'[s])
      PROVE  \E p, q \in Requests : p # q /\ PatchDone(p, s)' /\ PatchDone(q, s)'
    <2>1. ASSUME sources[s] # NoSource, ~ Valid(sources[s])
          PROVE  \E p, q \in Requests : p # q /\ PatchDone(p, s)' /\ PatchDone(q, s)'
        <3>1. PICK p \in Requests, q \in Requests :
                 p # q /\ \A r \in {p, q} : kind[r] = "patch" /\ target[r] = s /\ pc[r] = "done"
            BY <2>1 DEF SourcesInv, OfficialMeansDocumented
        <3> QED
            BY <1>0, <3>1 DEF PatchDone
    <2>2. CASE sources'[s] = sources[s]
        BY <1>4, <2>1, <2>2
    <2>3. CASE sources'[s] # sources[s]
        <3>1. PICK p \in Requests :
                 /\ sources[s] # NoSource /\ target[p] = s /\ pc[p] = "patching"
                 /\ kind[p] \in {"patch", "remove"} /\ kind'[p] = kind[p] /\ target'[p] = s
                 /\ pc'[p] = "done"
                 /\ sources'[s] = Patched(sources[s], dto[p])
            BY <1>4, <2>3, SourceBecomes
        <3>2. CASE kind[p] = "remove"
            <4>1. DOMAIN dto[p] \cap {"official", "standing"} = {}
                BY <3>2 DEF SourcesInv, RemoveOnlyArchives
            <4> QED
                BY <1>4, <2>1, <3>1, <4>1, ValidPatch
        <3>3. CASE kind[p] = "patch"
            <4>1. PatchPending(p, s) /\ PatchDone(p, s)'
                BY <3>1, <3>3 DEF PatchPending, PatchDone
            <4>2. PICK r \in Requests \ {p} : PatchDone(r, s)
                BY <1>4, <3>1, <4>1 DEF SourcesInv, PendingIsValid
            <4> QED
                BY <1>0, <4>1, <4>2
        <3> QED
            BY <3>1, <3>2, <3>3
    <2> QED
        BY <2>2, <2>3
<1>5. OfficialMeansDocumented'
    BY <1>4 DEF OfficialMeansDocumented, PatchDone
<1> QED
    BY <1>1, <1>3, <1>5 DEF SourcesInv

(* Sources that validateSource has let pass stay documented if they are    *)
(* official, unless two updates have been made to one of them, each        *)
(* checked on the row without the other; and they stay while cited.        *)
THEOREM SourcesAreSound ==
    ASSUME SeededDocumented
    PROVE  Spec => []SourcesHold
<1>1. Init => SourcesInv
    BY GovernanceAssumption DEF Init, SourcesInv, RemoveOnlyArchives, PendingIsValid, PatchPending,
           OfficialMeansDocumented, SeededDocumented
<1>2. TypeOK /\ SourcesInv /\ [Next]_vars => SourcesInv'
    BY SourcesInvStep
<1>3. SourcesInv /\ VersionsHaveSource => SourcesHold
    BY DEF SourcesInv, SourcesHold
<1> QED
    BY <1>1, <1>2, <1>3, GovernanceTypeCorrect, SourcesStay, PTL DEF Spec

-----------------------------------------------------------------------------
(* Who supersedes a version replaces it.                                   *)

Acts(p) ==
    Verifying(p) \/ Retiring(p) \/ Drafting(p) \/ Sourcing(p) \/ WriteLog(p) \/ Stop(p)

(* A step changes what one request remembers.                              *)
LEMMA OthersUnchanged ==
    ASSUME TypeOK, [Next]_vars, NEW q \in Requests, ~ Acts(q)
    PROVE  /\ pc'[q] = pc[q] /\ kind'[q] = kind[q] /\ target'[q] = target[q]
           /\ dto'[q] = dto[q] /\ view'[q] = view[q] /\ found'[q] = found[q]
           /\ wrote'[q] = wrote[q]
<1>1. CASE UNCHANGED vars
    BY <1>1 DEF vars, memory
<1>2. ASSUME NEW p \in Requests, p # q,
             \E k, t, fields, row, step : Begin(p, k, t, fields, row, step)
      PROVE  /\ pc'[q] = pc[q] /\ kind'[q] = kind[q] /\ target'[q] = target[q]
             /\ dto'[q] = dto[q] /\ view'[q] = view[q] /\ found'[q] = found[q]
             /\ wrote'[q] = wrote[q]
    BY <1>2 DEF Begin, Goto, TypeOK, memory
<1>3. ASSUME NEW p \in Requests, p # q, Verifying(p) \/ WriteLog(p) \/ Stop(p),
             ~ \E k, t, fields, row, step : Begin(p, k, t, fields, row, step)
      PROVE  /\ pc'[q] = pc[q] /\ UNCHANGED <<kind, target, dto, view>>
             /\ found'[q] = found[q] /\ wrote'[q] = wrote[q]
    BY <1>3 DEF Verifying, VerifyRead, SupersedeOne, FindPrevious, Verify, RecordReview, WriteLog,
           Stop, memory, Goto, Store, TypeOK
<1>4. ASSUME NEW p \in Requests, p # q, Retiring(p),
             ~ \E k, t, fields, row, step : Begin(p, k, t, fields, row, step)
      PROVE  /\ pc'[q] = pc[q] /\ UNCHANGED <<kind, target, dto, view>>
             /\ found'[q] = found[q] /\ wrote'[q] = wrote[q]
    BY <1>4 DEF Retiring, DeprecateRead, ArchiveRead, FindReplacement, Retire,
           memory, Goto, Store, TypeOK
<1>5. ASSUME NEW p \in Requests, p # q, Drafting(p),
             ~ \E k, t, fields, row, step : Begin(p, k, t, fields, row, step)
      PROVE  /\ pc'[q] = pc[q] /\ UNCHANGED <<kind, target, dto, view>>
             /\ found'[q] = found[q] /\ wrote'[q] = wrote[q]
    BY <1>5 DEF Drafting, CreateRead, EditRead, CheckSource, NextLabel, CreateVersion, EditVersion,
           Submit, memory, Goto, Store, TypeOK
<1>6. ASSUME NEW p \in Requests, p # q, Sourcing(p),
             ~ \E k, t, fields, row, step : Begin(p, k, t, fields, row, step)
      PROVE  /\ pc'[q] = pc[q] /\ kind'[q] = kind[q] /\ target'[q] = target[q]
             /\ UNCHANGED <<dto, view>> /\ found'[q] = found[q] /\ wrote'[q] = wrote[q]
    BY <1>6 DEF Sourcing, PatchRead, RemoveRead, AddSource, PatchSource, DeleteSource,
           memory, Goto, TypeOK
<1> QED
    BY <1>1, <1>2, <1>3, <1>4, <1>5, <1>6 DEF Next, Acts

(* A request that has begun keeps the fields it was sent.                  *)
LEMMA FieldsKept ==
    ASSUME TypeOK, [Next]_vars, NEW q \in Requests, pc[q] # "idle"
    PROVE  dto'[q] = dto[q] /\ pc'[q] # "idle"
<1>1. CASE ~ Acts(q)
    BY <1>1, OthersUnchanged
<1>2. \A k, t, fields, row, step : ~ Begin(q, k, t, fields, row, step)
    BY DEF Begin
<1>3. ASSUME Verifying(q) \/ WriteLog(q) \/ Stop(q) PROVE UNCHANGED dto /\ pc'[q] # "idle"
    BY <1>2, <1>3 DEF Verifying, VerifyRead, SupersedeOne, FindPrevious, Verify, RecordReview,
           WriteLog, Stop, memory, Goto, TypeOK
<1>4. ASSUME Retiring(q) PROVE UNCHANGED dto /\ pc'[q] # "idle"
    BY <1>2, <1>4 DEF Retiring, DeprecateRead, ArchiveRead, FindReplacement, Retire,
           memory, Goto, TypeOK
<1>5. ASSUME Drafting(q) PROVE UNCHANGED dto /\ pc'[q] # "idle"
    BY <1>2, <1>5 DEF Drafting, CreateRead, EditRead, CheckSource, NextLabel, CreateVersion,
           EditVersion, Submit, memory, Goto, TypeOK
<1>6. ASSUME Sourcing(q) PROVE UNCHANGED dto /\ pc'[q] # "idle"
    BY <1>2, <1>6 DEF Sourcing, PatchRead, RemoveRead, AddSource, PatchSource, DeleteSource,
           memory, Goto, TypeOK
<1> QED
    BY <1>1, <1>3, <1>4, <1>5, <1>6 DEF Acts

(* A version was deprecated, or archived, by request.                      *)
RetiredOne == \E q \in Requests : kind[q] \in {"deprecate", "archive"} /\ wrote[q] # NoVersion

LEMMA HistoryStays ==
    ASSUME TypeOK, KnowledgeInv, [Next]_vars
    PROVE  (Moved => Moved') /\ (RetiredOne => RetiredOne')
<1> SUFFICES ASSUME NEW q \in Requests, wrote[q] # NoVersion,
                    kind[q] \in {"edit", "deprecate", "archive"}
             PROVE  kind'[q] = kind[q] /\ wrote'[q] = wrote[q] /\ dto'[q] = dto[q]
    BY DEF Moved, RetiredOne
<1>1. KnowsItsVersion(q) /\ Remembers(q)
    BY DEF KnowledgeInv, TypeOK
<1>2. pc[q] # "idle" /\ pc[q] \notin {"superseding", "updating", "creating", "editing"}
    BY <1>1 DEF KnowsItsVersion, Fresh, Remembers, Handlers
<1> QED
    BY <1>2, NothingForgotten, FieldsKept

(* Unless a draft is moved, a version stays in its slot.                   *)
LEMMA SlotKept ==
    ASSUME TypeOK, KnowledgeInv, [Next]_vars, ~ Moved', NEW v \in Existing
    PROVE  v \in Existing' /\ versions'[v].slot = versions[v].slot
<1>1. v \in Versions /\ ~ Created(v) /\ versions[v] # NoVersion
    BY DEF Existing, Created
<1>2. CASE versions'[v] = versions[v]
    BY <1>1, <1>2 DEF Existing
<1>3. CASE Left(v) \/ IsVerified(v)
    BY <1>1, <1>3 DEF Existing, Left, IsVerified, Same, Substance
<1>4. CASE IsEdited(v)
    BY <1>1, <1>4 DEF Existing, IsEdited
<1> QED
    BY <1>1, <1>2, <1>3, <1>4, WhatBecomes

(* Until it has verified its version a request finds it, and those it      *)
(* found before it, where it has read it, and what it has deprecated last  *)
(* was there as well.                                                      *)
InPlace(p) ==
    /\ pc[p] \in Reviewing => versions[target[p]].slot = view[p].slot
    /\ pc[p] \in {"superseding", "noting"} =>
          \A v \in found[p] : versions[v].slot = view[p].slot
    /\ pc[p] = "noting" => wrote[p].row.slot = view[p].slot

(* What it logs last is its own version.                                   *)
Concludes(p) ==
    kind[p] = "verify" /\ pc[p] \in {"reviewing", "logging"} => wrote[p].version = target[p]

(* A request is replacing the versions of a slot.                          *)
Replacing(q, s) ==
    /\ kind[q] = "verify" /\ wrote[q] # NoVersion
    /\ pc[q] \in {"noting", "superseding", "stopped"}
    /\ Canon[view[q].slot] = Canon[s]

Provided(s) == Covered(s) \/ \E q \in Requests : Replacing(q, s)

Supersedes(e) == kind[e.by] = "verify" /\ e.version # target[e.by]

ReplacementInv ==
    /\ KnowledgeInv
    /\ \A e \in log : pc[e.by] # "idle"
    /\ \A p \in Requests : Concludes(p)
    /\ Moved \/ \A p \in Requests : InPlace(p)
    /\ Moved \/ RetiredOne \/ \A e \in log : Supersedes(e) => Provided(e.new.slot)

LEMMA ConcludesStep ==
    ASSUME TypeOK, KnowledgeInv, NEW q \in Requests, Concludes(q), [Next]_vars
    PROVE  Concludes(q)'
<1> SUFFICES ASSUME kind'[q] = "verify", pc'[q] \in {"reviewing", "logging"}
             PROVE  wrote'[q].version = target'[q]
    BY DEF Concludes
<1>1. CASE ~ Acts(q)
    BY <1>1, OthersUnchanged DEF Concludes
<1>2. \A k, t, fields, row, step :
          Begin(q, k, t, fields, row, step) => step \in {"reviewing", "logging"}
    BY DEF Begin, Goto, TypeOK
<1>3. CASE Verifying(q)
    <2>1. CASE Verify(q)
        <3>1. target[q] \in Existing
            BY <2>1 DEF Verify, TypeOK, Remembers, Handlers
        <3> QED
            BY <2>1, <3>1 DEF Verify, Store, Goto, TypeOK
    <2>2. CASE RecordReview(q)
        BY <2>2 DEF RecordReview, memory, Goto, TypeOK, Concludes, Remembers, Handlers
    <2>3. \A v \in Versions : ~ VerifyRead(q, v)
        BY <1>2 DEF VerifyRead
    <2>4. ~ FindPrevious(q) /\ \A v \in Versions : ~ SupersedeOne(q, v)
        BY DEF SupersedeOne, FindPrevious, Goto, TypeOK
    <2> QED
        BY <1>3, <2>1, <2>2, <2>3, <2>4 DEF Verifying
<1>4. ~ Retiring(q)
    BY <1>2 DEF Retiring, DeprecateRead, ArchiveRead, FindReplacement, Retire, memory, Goto,
           TypeOK, Remembers, Handlers
<1>5. ~ Drafting(q)
    BY <1>2 DEF Drafting, CreateRead, EditRead, CheckSource, NextLabel, CreateVersion, EditVersion,
           Submit, memory, Goto, TypeOK, Remembers, Handlers
<1>6. ~ Sourcing(q)
    BY <1>2 DEF Sourcing, PatchRead, RemoveRead, AddSource, PatchSource, DeleteSource, memory,
           Goto, TypeOK
<1>7. ~ WriteLog(q) /\ ~ Stop(q)
    BY DEF WriteLog, Stop, Goto, TypeOK
<1> QED
    BY <1>1, <1>3, <1>4, <1>5, <1>6, <1>7 DEF Acts

(* The ways to the next version to deprecate, and back.                    *)
LEMMA WhileReplacing ==
    ASSUME TypeOK, [Next]_vars, NEW q \in Requests, pc[q] \in Reviewing,
           pc'[q] \in {"superseding", "noting"}
    PROVE  \/ pc'[q] = pc[q] /\ found'[q] = found[q] /\ wrote'[q] = wrote[q]
           \/ FindPrevious(q)
           \/ pc'[q] = "noting" /\ \E v \in Versions : SupersedeOne(q, v)
           \/ pc'[q] = "superseding" /\ pc[q] = "noting" /\ found'[q] = found[q]
<1>1. CASE ~ Acts(q)
    BY <1>1, OthersUnchanged
<1>2. CASE Verifying(q) \/ WriteLog(q)
    BY <1>2 DEF Verifying, VerifyRead, SupersedeOne, Verify, RecordReview, WriteLog, Begin,
           memory, Goto, TypeOK, Reviewing
<1>3. ~ Retiring(q) /\ ~ Drafting(q)
    BY DEF Retiring, DeprecateRead, ArchiveRead, FindReplacement, Retire, Begin, Drafting,
           CreateRead, EditRead, CheckSource, NextLabel, CreateVersion, EditVersion, Reviewing
<1>4. ~ Sourcing(q) /\ ~ Stop(q)
    BY DEF Sourcing, PatchRead, RemoveRead, AddSource, PatchSource, DeleteSource, Begin, Stop,
           Goto, TypeOK, Reviewing
<1> QED
    BY <1>1, <1>2, <1>3, <1>4 DEF Acts

LEMMA InPlaceStep ==
    ASSUME TypeOK, KnowledgeInv, NEW q \in Requests, InPlace(q), [Next]_vars, ~ Moved'
    PROVE  InPlace(q)'
<1> SUFFICES ASSUME pc'[q] \in Reviewing PROVE InPlace(q)'
    BY DEF InPlace, Reviewing
<1>1. CASE pc[q] = "idle"
    BY <1>1, BeginsAsRead DEF InPlace
<1>2. CASE pc[q] # "idle"
    <2>1. view'[q] = view[q] /\ target'[q] = target[q] /\ pc[q] \in Reviewing
        BY <1>2, NothingForgotten
    <2>2. target[q] \in Existing /\ found[q] \subseteq Existing
        BY <2>1 DEF TypeOK, Remembers, Handlers, Reviewing
    <2>3. versions[target[q]].slot = view[q].slot
        BY <2>1 DEF InPlace
    <2>4. versions'[target'[q]].slot = view'[q].slot
        BY <2>1, <2>2, <2>3, SlotKept
    <2>5. ASSUME pc'[q] \in {"superseding", "noting"}
          PROVE  /\ \A v \in found'[q] : versions'[v].slot = view'[q].slot
                 /\ pc'[q] = "noting" => wrote'[q].row.slot = view'[q].slot
        <3>1. CASE FindPrevious(q)
            <4>1. found'[q] = ActiveLike(target[q], view[q]) /\ pc'[q] = "superseding"
                  /\ UNCHANGED versions
                BY <3>1 DEF FindPrevious, Goto, tables, TypeOK
            <4> QED
                BY <2>1, <4>1 DEF ActiveLike, InSlot
        <3>2. ASSUME NEW v \in Versions, SupersedeOne(q, v), pc'[q] = "noting"
              PROVE  /\ \A w \in found'[q] : versions'[w].slot = view'[q].slot
                     /\ wrote'[q].row.slot = view'[q].slot
            <4>1. v \in found[q] /\ found'[q] \subseteq found[q] /\ pc[q] = "superseding"
                  /\ wrote'[q].row = [versions[v] EXCEPT !.status = "DEPRECATED"]
                BY <3>2 DEF SupersedeOne, Store, TypeOK
            <4>2. versions[v] \in Row /\ versions[v].slot = view[q].slot
                BY <2>2, <4>1, ExistingRow DEF InPlace
            <4>3. wrote'[q].row.slot = view'[q].slot
                BY <2>1, <4>1, <4>2 DEF Row
            <4>4. \A w \in found[q] : versions'[w].slot = view[q].slot
                BY <2>2, <4>1, SlotKept DEF InPlace
            <4> QED
                BY <2>1, <4>1, <4>3, <4>4
        <3>3. ASSUME pc[q] \in {"superseding", "noting"}, found'[q] = found[q]
              PROVE  \A v \in found'[q] : versions'[v].slot = view'[q].slot
            BY <2>1, <2>2, <3>3, SlotKept DEF InPlace
        <3>4. ASSUME pc'[q] = pc[q], wrote'[q] = wrote[q], pc'[q] = "noting"
              PROVE  wrote'[q].row.slot = view'[q].slot
            BY <2>1, <3>4 DEF InPlace
        <3> QED
            BY <2>1, <2>5, <3>1, <3>2, <3>3, <3>4, WhileReplacing
    <2> QED
        BY <2>4, <2>5 DEF InPlace
<1> QED
    BY <1>1, <1>2

(* The verification itself gives the slot an active version, or finds that *)
(* the index has one.                                                      *)
LEMMA VerifyCovers ==
    ASSUME TypeOK, NEW p \in Requests, InPlace(p), Verify(p)
    PROVE  Covered(view[p].slot)'
<1> DEFINE v == target[p]
           row == [versions[v] EXCEPT !.status = "VERIFIED", !.verified = TRUE]
<1>1. v \in Existing /\ pc[p] = "superseding" /\ view' = view
    BY DEF Verify, TypeOK, Remembers, Handlers
<1>2. v \in Versions /\ versions[v] \in Row /\ versions[v].slot = view[p].slot
    BY <1>1, ExistingRow DEF InPlace, Reviewing
<1>3. row \in Row /\ row.slot = view[p].slot /\ row.status = "VERIFIED"
    BY <1>2 DEF Row, Status
<1>4. CASE Unique(v, row)
    <2>1. versions'[v] = row
        BY <1>2, <1>4 DEF Verify, Store, TypeOK
    <2>2. v \in Existing'
        BY <1>2, <1>3, <2>1, GovernanceAssumption DEF Existing
    <2> QED
        BY <1>1, <1>3, <2>1, <2>2 DEF Covered, Active, ActiveStatus
<1>5. CASE ~ Unique(v, row)
    <2>1. UNCHANGED versions
        BY <1>5 DEF Verify
    <2>2. PICK w \in Existing : Active(w) /\ Canon[versions[w].slot] = Canon[row.slot]
        BY <1>5 DEF Unique
    <2> QED
        BY <1>1, <1>3, <2>1, <2>2 DEF Covered, Active, Existing
<1> QED
    BY <1>4, <1>5

(* Only a request that replaces the versions of a slot takes its active    *)
(* one, unless a version is retired; and then it is followed up.           *)
LEMMA ProvidedStays ==
    ASSUME TypeOK, KnowledgeInv, \A p \in Requests : InPlace(p), [Next]_vars,
           ~ Moved', ~ RetiredOne', NEW s, Provided(s)
    PROVE  Provided(s)'
<1>1. ASSUME NEW v \in Existing, Active(v), Canon[versions[v].slot] = Canon[s]
      PROVE  Provided(s)'
    <2>1. v \in Versions /\ v \in Existing' /\ versions'[v].slot = versions[v].slot
        BY <1>1, SlotKept DEF Existing
    <2>2. CASE Active(v)'
        BY <1>1, <2>1, <2>2 DEF Provided, Covered
    <2>3. CASE ~ Active(v)'
        <3>1. versions[v].status \in ActiveStatus /\ versions'[v].status \notin ActiveStatus
            BY <1>1, <2>1, <2>3 DEF Active
        <3>2. ~ Created(v) /\ ~ IsVerified(v) /\ ~ IsEdited(v) /\ versions'[v] # versions[v]
            BY <2>1, <3>1 DEF Created, IsVerified, IsEdited, ActiveStatus, Existing
        <3>3. Left(v)
            BY <2>1, <3>2, WhatBecomes
        <3>4. \A p \in Requests : ~ Retire(p)
            <4> SUFFICES ASSUME NEW p \in Requests, Retire(p) PROVE FALSE
                OBVIOUS
            <4>1. kind'[p] \in {"deprecate", "archive"} /\ target[p] \in Existing
                BY DEF Retire, TypeOK, Remembers, Handlers
            <4>2. wrote'[p] \in Written
                BY <4>1, ExistingRow DEF Retire, Store, TypeOK, Retired, Row, Written, Status
            <4> QED
                BY <4>1, <4>2, GovernanceAssumption DEF RetiredOne
        <3>5. PICK p \in Requests : SupersedeOne(p, v)
            BY <3>3, <3>4 DEF Left
        <3>6. /\ pc[p] = "superseding" /\ pc'[p] = "noting" /\ v \in found[p]
              /\ wrote'[p] = [version |-> v, row |-> [versions[v] EXCEPT !.status = "DEPRECATED"]]
              /\ kind' = kind /\ view' = view
            BY <3>5 DEF SupersedeOne, Store, Goto, TypeOK
        <3>7. wrote'[p] \in Written
            BY <2>1, <3>6, ExistingRow DEF Row, Written, Status
        <3>8. kind[p] = "verify" /\ versions[v].slot = view[p].slot
            BY <3>6 DEF TypeOK, Remembers, Handlers, InPlace
        <3>9. Replacing(p, s)'
            BY <1>1, <3>6, <3>7, <3>8, GovernanceAssumption DEF Replacing
        <3> QED
            BY <3>9 DEF Provided
    <2> QED
        BY <2>2, <2>3
<1>2. ASSUME NEW q \in Requests, Replacing(q, s)
      PROVE  Provided(s)'
    <2>1. kind'[q] = kind[q] /\ view'[q] = view[q]
        BY <1>2, NothingForgotten DEF Replacing
    <2>2. CASE Verify(q)
        <3>1. Covered(view[q].slot)'
            BY <2>2, VerifyCovers
        <3> QED
            BY <1>2, <2>1, <3>1 DEF Replacing, Provided, Covered
    <2>3. CASE \E v \in Versions : SupersedeOne(q, v)
        <3>1. PICK v \in Versions : SupersedeOne(q, v)
            BY <2>3
        <3>2. v \in Existing /\ pc'[q] = "noting"
              /\ wrote'[q] = [version |-> v, row |-> [versions[v] EXCEPT !.status = "DEPRECATED"]]
            BY <3>1 DEF SupersedeOne, Store, Goto, TypeOK, Remembers
        <3>3. wrote'[q] \in Written
            BY <3>2, ExistingRow DEF Row, Written, Status
        <3> QED
            BY <1>2, <2>1, <3>2, <3>3, GovernanceAssumption DEF Replacing, Provided
    <2>4. CASE ~ Verify(q) /\ ~ \E v \in Versions : SupersedeOne(q, v)
        <3>1. wrote'[q] = wrote[q] /\ pc'[q] \in {"noting", "superseding", "stopped"}
            <4>1. pc[q] \in {"noting", "superseding", "stopped"}
                BY <1>2 DEF Replacing
            <4>2. CASE ~ Acts(q)
                BY <4>1, <4>2, OthersUnchanged
            <4>3. CASE WriteLog(q) \/ Stop(q)
                BY <4>1, <4>3 DEF WriteLog, Stop, Goto, TypeOK, memory
            <4>4. ~ Verifying(q)
                BY <2>4, <4>1 DEF Verifying, VerifyRead, FindPrevious, RecordReview, Begin
            <4>5. ~ Retiring(q) /\ ~ Drafting(q)
                BY <4>1 DEF Retiring, DeprecateRead, ArchiveRead, FindReplacement, Retire, Begin,
                   Drafting, CreateRead, EditRead, CheckSource, NextLabel, CreateVersion,
                   EditVersion
            <4>6. ~ Sourcing(q)
                BY <4>1 DEF Sourcing, PatchRead, RemoveRead, AddSource, PatchSource,
                   DeleteSource, Begin
            <4> QED
                BY <4>2, <4>3, <4>4, <4>5, <4>6 DEF Acts
        <3> QED
            BY <1>2, <2>1, <3>1 DEF Replacing, Provided
    <2> QED
        BY <2>2, <2>3, <2>4
<1> QED
    BY <1>1, <1>2 DEF Provided, Covered

LEMMA LogChanges ==
    ASSUME TypeOK, [Next]_vars
    PROVE  \A e \in log' \ log : \E p \in Requests :
              WriteLog(p) /\ e = Entry(p) /\ pc[p] \in {"noting", "logging"}
<1>1. CASE UNCHANGED vars
    BY <1>1 DEF vars, tables
<1>2. ASSUME NEW p \in Requests, Verifying(p) PROVE log' = log
    BY <1>2 DEF Verifying, VerifyRead, SupersedeOne, FindPrevious, Verify, RecordReview, Begin,
           tables
<1>3. ASSUME NEW p \in Requests, Retiring(p) PROVE log' = log
    BY <1>3 DEF Retiring, DeprecateRead, ArchiveRead, FindReplacement, Retire, Begin, tables
<1>4. ASSUME NEW p \in Requests, Drafting(p) PROVE log' = log
    BY <1>4 DEF Drafting, CreateRead, EditRead, CheckSource, NextLabel, CreateVersion,
           EditVersion, Submit, Begin, tables
<1>5. ASSUME NEW p \in Requests, Sourcing(p) \/ Stop(p) PROVE log' = log
    BY <1>5 DEF Sourcing, PatchRead, RemoveRead, AddSource, PatchSource, DeleteSource, Stop,
           Begin, tables
<1>6. ASSUME NEW p \in Requests, WriteLog(p)
      PROVE  log' = log \cup {Entry(p)} /\ pc[p] \in {"noting", "logging"}
    BY <1>6 DEF WriteLog
<1> QED
    BY <1>1, <1>2, <1>3, <1>4, <1>5, <1>6 DEF Next

LEMMA ReplacementStep ==
    ASSUME TypeOK, ReplacementInv, [Next]_vars
    PROVE  ReplacementInv'
<1>1. KnowledgeInv'
    BY KnowledgeStep DEF ReplacementInv
<1>2. ASSUME NEW e \in log', e \notin log
      PROVE  \E p \in Requests :
                /\ WriteLog(p) /\ e = Entry(p) /\ e.by = p /\ pc[p] \in {"noting", "logging"}
                /\ e.version = wrote[p].version /\ e.new = wrote[p].row
    BY <1>2, LogChanges DEF Entry
<1>3. ASSUME NEW e \in log' PROVE pc[e.by] # "idle" /\ e.by \in Requests
    BY <1>2, <1>3 DEF ReplacementInv, TypeOK
<1>4. \A e \in log' : pc'[e.by] # "idle"
    BY <1>3, FieldsKept
<1>5. \A p \in Requests : Concludes(p)'
    BY ConcludesStep DEF ReplacementInv
<1>6. ASSUME ~ Moved' PROVE ~ Moved /\ \A p \in Requests : InPlace(p) /\ InPlace(p)'
    BY <1>6, HistoryStays, InPlaceStep DEF ReplacementInv
<1>7. ASSUME ~ Moved', ~ RetiredOne', NEW e \in log', Supersedes(e)'
      PROVE  Provided(e.new.slot)'
    <2>1. Supersedes(e) /\ kind[e.by] = "verify"
        BY <1>3, <1>7, NothingForgotten DEF Supersedes
    <2>2. CASE e \in log
        <3>1. Provided(e.new.slot)
            BY <1>6, <1>7, <2>1, <2>2, HistoryStays DEF ReplacementInv
        <3> QED
            BY <1>6, <1>7, <3>1, ProvidedStays DEF ReplacementInv
    <2>3. CASE e \notin log
        <3>1. PICK p \in Requests :
                 /\ WriteLog(p) /\ e.by = p /\ pc[p] \in {"noting", "logging"}
                 /\ e.version = wrote[p].version /\ e.new = wrote[p].row
            BY <1>2, <2>3
        <3>2. pc[p] = "noting"
            BY <2>1, <3>1 DEF ReplacementInv, Concludes, Supersedes
        <3>3. pc'[p] = "superseding" /\ UNCHANGED memory
            BY <3>1, <3>2 DEF WriteLog, Goto, TypeOK
        <3>4. wrote[p] # NoVersion /\ wrote[p].row.slot = view[p].slot
            BY <1>6, <1>7, <3>2 DEF TypeOK, Remembers, InPlace
        <3>5. Replacing(p, e.new.slot)'
            BY <2>1, <3>1, <3>3, <3>4 DEF Replacing, memory
        <3> QED
            BY <3>1, <3>5 DEF Provided
    <2> QED
        BY <2>2, <2>3
<1> QED
    BY <1>1, <1>4, <1>5, <1>6, <1>7 DEF ReplacementInv

(* A verification that has deprecated the active version of its slot ends  *)
(* with another one in that slot, whether the index has let its own pass   *)
(* or not, however verifications overlap: unless a request was interrupted *)
(* while it replaced versions, a version was retired on purpose, or a      *)
(* draft was moved to another slot.                                        *)
THEOREM SupersededAreReplaced == Spec => []SupersededMeansReplaced
<1>1. Init => ReplacementInv
    BY DEF Init, ReplacementInv, KnowledgeInv, KnowsItsVersion, Concludes, InPlace, Reviewing
<1>2. TypeOK /\ ReplacementInv /\ [Next]_vars => ReplacementInv'
    BY ReplacementStep
<1>3. ReplacementInv => SupersededMeansReplaced
    BY DEF ReplacementInv, SupersededMeansReplaced, Moved, RetiredOne, Supersedes, Provided,
       Replacing
<1> QED
    BY <1>1, <1>2, <1>3, GovernanceTypeCorrect, PTL DEF Spec
=============================================================================
