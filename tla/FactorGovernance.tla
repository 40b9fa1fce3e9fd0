-------------------------- MODULE FactorGovernance --------------------------
(***************************************************************************)
(* The versions of one emission factor and their sources: verification,    *)
(* deprecation, archiving, new versions and edits of drafts                *)
(* (ConversionFactorsService), and the sources they cite                   *)
(* (FactorSourcesService).                                                 *)
(*                                                                         *)
(* No handler opens a transaction: every statement commits on its own, and *)
(* an action is one statement with what the handler decides after it.      *)
(* What the database itself refuses is modelled with the statement: the    *)
(* unique indexes of FactorVersion and its foreign key to FactorSource.    *)
(***************************************************************************)
EXTENDS Naturals, FiniteSets

CONSTANTS
    Requests,       \* requests of administrators; each is made once
    Versions,       \* ids of versions, in the order of creation
    NoVersion,
    Slots,          \* unit, country, region and year, as stored
    Canon,          \* Canon[s]: s as the unique index sees it, null and '' alike
    Placed,         \* the slots with a jurisdiction and a year
    Year,           \* Year[s]: the year of s, or this one when it has none
    Recency,        \* the order of the slots by year, no year counting as the latest
    Contents,       \* the value and the other fields of a version
    Governmental,   \* the contents that claim OFFICIAL_GOVERNMENT confidence
    Sources,        \* ids of sources
    NoSource,
    SeededVersions, \* what the tables hold at first
    SeededSources,
    NewVersions,    \* the fields clients send with a new version,
    Edits,          \* with an edit of a draft,
    Patches,        \* and with an edit of a source
    Stops           \* TRUE: the server may stop, or a statement be rejected

Status == {"DRAFT", "OFFICIAL", "VERIFIED", "DEPRECATED", "ARCHIVED"}
ActiveStatus == {"OFFICIAL", "VERIFIED"}
Labels == Nat \X Nat
Row == [status : Status, verified : BOOLEAN, label : Labels,
        content : Contents, slot : Slots, source : Sources]
Written == [version : Versions, row : Row]

(* What a source says of itself: "documented" is a year, a URL and a known *)
(* publisher; "government", besides, a recognised government authority.    *)
Source == [active : BOOLEAN, official : BOOLEAN,
           standing : {"undocumented", "documented", "government"}]

(* The fields a client sends; those it leaves out are not in the domain.   *)
Sent(dto, fields) ==
    \A f \in DOMAIN dto : f \in DOMAIN fields /\ dto[f] \in fields[f]

VersionFields == [label |-> Labels, content |-> Contents, slot |-> Slots, source |-> Sources]
SourceFields == [active |-> BOOLEAN, official |-> BOOLEAN,
                 standing |-> {"undocumented", "documented", "government"}]

ASSUME GovernanceAssumption ==
    /\ Versions \subseteq Nat
    /\ NoVersion \notin Versions \cup Row \cup Written /\ NoSource \notin Sources \cup Source
    /\ Canon \in [Slots -> Slots] /\ Placed \subseteq Slots
    /\ Year \in [Slots -> Nat] /\ Recency \in [Slots -> Nat]
    /\ Governmental \subseteq Contents
    /\ SeededSources \in [Sources -> Source \cup {NoSource}]
    /\ SeededVersions \in [Versions -> Row \cup {NoVersion}]
    /\ \A v \in Versions : SeededVersions[v] # NoVersion =>
          SeededSources[SeededVersions[v].source] # NoSource
    /\ \A dto \in NewVersions \cup Edits : Sent(dto, VersionFields)
    /\ \A dto \in Patches : Sent(dto, SourceFields)
    /\ Stops \in BOOLEAN

VARIABLES
    versions,  \* FactorVersion
    sources,   \* FactorSource
    reviews,   \* the requests whose approval FactorReviewLog holds
    log,       \* FactorChangeLog: who, which version, and its new value
    pc, kind,
    target,    \* the version or the source a request is about
    dto,       \* the fields it was sent
    view,      \* the version it has read
    found,     \* the versions it still has to deprecate
    label,     \* the label it has chosen for a new version
    wrote      \* the version it has written last, and the row it was given back

tables == <<versions, sources, reviews, log>>
memory == <<kind, target, dto, view, found, label, wrote>>
vars == <<tables, pc, memory>>

-----------------------------------------------------------------------------
Existing == {v \in Versions : versions[v] # NoVersion}
Active(v) == v \in Existing /\ versions[v].status \in ActiveStatus
InSlot(s) == {v \in Existing : versions[v].slot = s}

(* (Mistake: the migration with the index was not applied.)                *)
Unique_NoIndex(v, row) == v \in Versions \/ row \in Row

(* FactorVersion_one_active_production_version_idx.                        *)
Unique(v, row) ==
    row.status \in ActiveStatus =>
        \A w \in Existing \ {v} : Active(w) => Canon[versions[w].slot] # Canon[row.slot]

(* @@unique([factorId, version]), and the foreign key to FactorSource.     *)
Accepted(v, row) ==
    /\ Unique(v, row)
    /\ \A w \in Existing \ {v} : versions[w].label # row.label
    /\ sources[row.source] # NoSource

Cited(s) == \E v \in Existing : versions[v].source = s

(* A source is deleted only while no version refers to it: ON DELETE       *)
(* RESTRICT.                                                               *)
Deletable(s) == sources[s] # NoSource /\ ~ Cited(s)

Goto(p, step) == pc' = [pc EXCEPT ![p] = step]

Store(p, v, row) ==
    /\ versions' = [versions EXCEPT ![v] = row]
    /\ wrote' = [wrote EXCEPT ![p] = [version |-> v, row |-> row]]

(* A handler begins: what is remembered is the version it reads first.     *)
Begin(p, k, t, fields, row, step) ==
    /\ pc[p] = "idle"
    /\ Goto(p, step)
    /\ kind' = [kind EXCEPT ![p] = k]
    /\ target' = [target EXCEPT ![p] = t]
    /\ dto' = [dto EXCEPT ![p] = fields]
    /\ view' = [view EXCEPT ![p] = row]
    /\ UNCHANGED <<tables, found, label, wrote>>

Init ==
    /\ versions = SeededVersions
    /\ sources = SeededSources
    /\ reviews = {} /\ log = {}
    /\ pc = [p \in Requests |-> "idle"]
    /\ kind = [p \in Requests |-> "none"]
    /\ target = [p \in Requests |-> NoVersion]
    /\ dto = [p \in Requests |-> << >>]
    /\ view = [p \in Requests |-> NoVersion]
    /\ found = [p \in Requests |-> {}]
    /\ label = [p \in Requests |-> <<0, 0>>]
    /\ wrote = [p \in Requests |-> NoVersion]

-----------------------------------------------------------------------------
(* verifyFactor: read the version, check it, deprecate the active versions *)
(* of its slot, then make it the active one, and record the review.        *)

(* validateProductionReadiness.                                            *)
Ready(row) ==
    /\ row.slot \in Placed
    /\ sources[row.source].active /\ sources[row.source].official
    /\ row.content \in Governmental => sources[row.source].standing = "government"

VerifyRead(p, v) ==
    /\ v \in Existing
    /\ Begin(p, "verify", v, << >>, versions[v],
             IF Ready(versions[v]) THEN "finding" ELSE "refused")

(* (Mistake: the conditions on jurisdiction and year are left out.)        *)
ActiveLike_AnySlot(v, row) == {w \in Existing \ {v} : Active(w) /\ row \in Row}

(* The active versions that agree with row in every column of the slot.    *)
ActiveLike(v, row) == {w \in InSlot(row.slot) \ {v} : Active(w)}

(* deprecatePreviousProductionVersions: the query, then one version after  *)
(* the other, each with its log entry.                                     *)
FindPrevious(p) ==
    /\ pc[p] = "finding"
    /\ found' = [found EXCEPT ![p] = ActiveLike(target[p], view[p])]
    /\ Goto(p, "superseding")
    /\ UNCHANGED <<tables, kind, target, dto, view, label, wrote>>

SupersedeOne(p, v) ==
    /\ pc[p] = "superseding" /\ v \in found[p]
    /\ Store(p, v, [versions[v] EXCEPT !.status = "DEPRECATED"])
    /\ found' = [found EXCEPT ![p] = @ \ {v}]
    /\ Goto(p, "noting")
    /\ UNCHANGED <<sources, reviews, log, kind, target, dto, view, label>>

Verify(p) ==
    LET row == [versions[target[p]] EXCEPT !.status = "VERIFIED", !.verified = TRUE]
    IN  /\ pc[p] = "superseding" /\ found[p] = {}
        /\ IF Unique(target[p], row)
             THEN Store(p, target[p], row) /\ Goto(p, "reviewing")
             ELSE Goto(p, "failed") /\ UNCHANGED <<versions, wrote>>
        /\ UNCHANGED <<sources, reviews, log, kind, target, dto, view, found, label>>

RecordReview(p) ==
    /\ pc[p] = "reviewing"
    /\ reviews' = reviews \cup {p}
    /\ Goto(p, "logging")
    /\ UNCHANGED <<versions, sources, log, memory>>

(* (Mistake: the row as it was when the handler read it.)                  *)
Entry_AsRead(p) == [by |-> p, version |-> wrote[p].version, new |-> view[p]]

(* logFactorVersionChange: the row as the statement before returned it.    *)
Entry(p) == [by |-> p, version |-> wrote[p].version, new |-> wrote[p].row]

WriteLog(p) ==
    /\ pc[p] \in {"noting", "logging"}
    /\ log' = log \cup {Entry(p)}
    /\ Goto(p, IF pc[p] = "noting" THEN "superseding" ELSE "done")
    /\ UNCHANGED <<versions, sources, reviews, memory>>

-----------------------------------------------------------------------------
(* deprecateFactor has no condition; archiveFactor looks for another       *)
(* active version of the slot when it has read an active one.              *)

DeprecateRead(p, v) ==
    /\ v \in Existing
    /\ Begin(p, "deprecate", v, << >>, versions[v], "updating")

ArchiveRead(p, v) ==
    /\ v \in Existing
    /\ Begin(p, "archive", v, << >>, versions[v], "replacing")

(* (Mistake: the status is not looked at.)                                 *)
Archivable_Always(p) == view[p] # NoVersion

Archivable(p) ==
    view[p].status \in ActiveStatus => ActiveLike(target[p], view[p]) # {}

FindReplacement(p) ==
    /\ pc[p] = "replacing"
    /\ Goto(p, IF Archivable(p) THEN "updating" ELSE "refused")
    /\ UNCHANGED <<tables, memory>>

(* (Mistake: a status the enumeration does not have.)                      *)
Retired_Unknown(k) == IF k = "archive" THEN "ARCHIVED" ELSE "RETIRED"

Retired(k) == IF k = "archive" THEN "ARCHIVED" ELSE "DEPRECATED"

Retire(p) ==
    /\ pc[p] = "updating"
    /\ Store(p, target[p], [versions[target[p]] EXCEPT !.status = Retired(kind[p])])
    /\ Goto(p, "logging")
    /\ UNCHANGED <<sources, reviews, log, kind, target, dto, view, found, label>>

-----------------------------------------------------------------------------
(* createNewFactorVersion and updateDraftFactorVersion                     *)

Given(fields, f, default) == IF f \in DOMAIN fields THEN fields[f] ELSE default

(* The version a new one starts from: ORDER BY factorYear DESC, createdAt  *)
(* DESC, where PostgreSQL puts the null years first; or none.              *)
IsLatest(v) ==
    \A w \in Existing :
        \/ Recency[versions[w].slot] < Recency[versions[v].slot]
        \/ Recency[versions[w].slot] = Recency[versions[v].slot] /\ w <= v

Latest ==
    IF Existing = {} THEN {NoVersion}
    ELSE {versions[v] : v \in {u \in Existing : IsLatest(u)}}

(* (Mistake: a version that is no longer active may be edited as well.)    *)
DraftEditable_Inactive(row) == row.status \notin ActiveStatus

(* ensureDraftEditable.                                                    *)
DraftEditable(row) == row.status = "DRAFT"

CreateRead(p, fields) ==
    \E row \in Latest :
        Begin(p, "create", NoVersion, fields, row,
              IF row = NoVersion /\ ~ {"content", "slot", "source"} \subseteq DOMAIN fields
                THEN "refused" ELSE "checking")

EditRead(p, v, fields) ==
    /\ v \in Existing
    /\ Begin(p, "edit", v, fields, versions[v],
             IF ~ DraftEditable(versions[v]) THEN "refused"
             ELSE IF "source" \in DOMAIN fields THEN "checking" ELSE "editing")

(* ensureSourceExists.                                                     *)
CheckSource(p) ==
    /\ pc[p] = "checking"
    /\ Goto(p, IF sources[Given(dto[p], "source", view[p].source)] = NoSource THEN "refused"
               ELSE IF kind[p] = "edit" THEN "editing"
               ELSE IF "label" \in DOMAIN dto[p] THEN "creating" ELSE "labelling")
    /\ label' = [label EXCEPT ![p] = Given(dto[p], "label", @)]
    /\ UNCHANGED <<tables, kind, target, dto, view, found, wrote>>

(* nextVersionLabel: one more than the last number of the year.            *)
NextLabel(p) ==
    LET year == Year[Given(dto[p], "slot", view[p].slot)]
        taken == {versions[w].label[2] : w \in {u \in Existing : versions[u].label[1] = year}}
    IN  /\ pc[p] = "labelling"
        /\ \E n \in {1} \cup {m + 1 : m \in taken} :
              /\ \A m \in taken : m < n
              /\ label' = [label EXCEPT ![p] = <<year, n>>]
        /\ Goto(p, "creating")
        /\ UNCHANGED <<tables, kind, target, dto, view, found, wrote>>

(* A new version is a draft; what was not sent it has from the one before. *)
NewRow(p) ==
    [status |-> "DRAFT", verified |-> FALSE, label |-> label[p],
     content |-> Given(dto[p], "content", view[p].content),
     slot |-> Given(dto[p], "slot", view[p].slot),
     source |-> Given(dto[p], "source", view[p].source)]

(* An edit replaces the fields that were sent in the row as it is now.     *)
EditedRow(p) ==
    [versions[target[p]] EXCEPT
        !.label = Given(dto[p], "label", @), !.content = Given(dto[p], "content", @),
        !.slot = Given(dto[p], "slot", @), !.source = Given(dto[p], "source", @)]

(* INSERT or UPDATE, unless the database refuses the row.                  *)
Submit(p, v, row) ==
    /\ IF Accepted(v, row)
         THEN Store(p, v, row) /\ Goto(p, "logging")
         ELSE Goto(p, "failed") /\ UNCHANGED <<versions, wrote>>
    /\ UNCHANGED <<sources, reviews, log, kind, target, dto, view, found, label>>

CreateVersion(p, v) ==
    /\ pc[p] = "creating"
    /\ v \in Versions \ Existing /\ \A w \in Versions \ Existing : v <= w
    /\ Submit(p, v, NewRow(p))

EditVersion(p) ==
    /\ pc[p] = "editing"
    /\ Submit(p, target[p], EditedRow(p))

-----------------------------------------------------------------------------
(* FactorSourcesService                                                    *)

(* validateSource.                                                         *)
Valid(source) == source.official => source.standing # "undocumented"

Patched(source, fields) ==
    [active |-> Given(fields, "active", source.active),
     official |-> Given(fields, "official", source.official),
     standing |-> Given(fields, "standing", source.standing)]

(* (Mistake: the fields that were sent are validated by themselves.)       *)
Acceptable_SentOnly(source, fields) ==
    Given(fields, "official", FALSE)
        => Given(fields, "standing", source.standing) # "undocumented"

(* update validates the row it has read with the fields merged into it.    *)
Acceptable(source, fields) == Valid(Patched(source, fields))

PatchRead(p, s, fields) ==
    /\ sources[s] # NoSource
    /\ Begin(p, "patch", s, fields, NoVersion,
             IF Acceptable(sources[s], fields) THEN "patching" ELSE "refused")

(* remove archives a source that versions cite and deletes one that none   *)
(* does, by the count it has read.                                         *)
RemoveRead(p, s) ==
    /\ sources[s] # NoSource
    /\ Begin(p, "remove", s, [active |-> FALSE], NoVersion,
             IF Cited(s) THEN "patching" ELSE "deleting")

(* The fields that were sent, or isActive = false, reach the row as it is  *)
(* now; a row that is gone rejects.                                        *)
PatchSource(p) ==
    /\ pc[p] = "patching"
    /\ IF sources[target[p]] # NoSource
         THEN /\ sources' = [sources EXCEPT ![target[p]] = Patched(@, dto[p])]
              /\ Goto(p, "done")
         ELSE Goto(p, "failed") /\ UNCHANGED sources
    /\ UNCHANGED <<versions, reviews, log, memory>>

DeleteSource(p) ==
    /\ pc[p] = "deleting"
    /\ IF Deletable(target[p])
         THEN /\ sources' = [sources EXCEPT ![target[p]] = NoSource]
              /\ Goto(p, "done")
         ELSE Goto(p, "failed") /\ UNCHANGED sources
    /\ UNCHANGED <<versions, reviews, log, memory>>

(* create, under an id nobody has had.                                     *)
AddSource(p, s, row) ==
    /\ SeededSources[s] = NoSource /\ \A q \in Requests : target[q] # s
    /\ Valid(row)
    /\ pc[p] = "idle"
    /\ Goto(p, "done")
    /\ kind' = [kind EXCEPT ![p] = "add"]
    /\ target' = [target EXCEPT ![p] = s]
    /\ sources' = [sources EXCEPT ![s] = row]
    /\ UNCHANGED <<versions, reviews, log, dto, view, found, label, wrote>>

-----------------------------------------------------------------------------
Waiting == {"finding", "superseding", "noting", "reviewing", "replacing", "updating",
            "checking", "labelling", "creating", "editing", "patching", "deleting", "logging"}

(* The process stops, or a statement of the request is rejected: what it   *)
(* has committed stays.                                                    *)
Stop(p) ==
    /\ Stops
    /\ pc[p] \in Waiting
    /\ Goto(p, "stopped")
    /\ UNCHANGED <<tables, memory>>

Verifying(p) ==
    \/ \E v \in Versions : VerifyRead(p, v) \/ SupersedeOne(p, v)
    \/ FindPrevious(p) \/ Verify(p) \/ RecordReview(p)

Retiring(p) ==
    \/ \E v \in Versions : DeprecateRead(p, v) \/ ArchiveRead(p, v)
    \/ FindReplacement(p) \/ Retire(p)

Drafting(p) ==
    \/ \E fields \in NewVersions : CreateRead(p, fields)
    \/ \E v \in Versions, fields \in Edits : EditRead(p, v, fields)
    \/ CheckSource(p) \/ NextLabel(p)
    \/ \E v \in Versions : CreateVersion(p, v)
    \/ EditVersion(p)

Sourcing(p) ==
    \/ \E s \in Sources, fields \in Patches : PatchRead(p, s, fields)
    \/ \E s \in Sources : RemoveRead(p, s)
    \/ \E s \in Sources, row \in Source : AddSource(p, s, row)
    \/ PatchSource(p) \/ DeleteSource(p)

Next ==
    \E p \in Requests :
        Verifying(p) \/ Retiring(p) \/ Drafting(p) \/ Sourcing(p) \/ WriteLog(p) \/ Stop(p)

Spec == Init /\ [][Next]_vars
-----------------------------------------------------------------------------
Pcs == {"idle", "done", "refused", "failed", "stopped"} \cup Waiting
Kinds == {"none", "verify", "deprecate", "archive", "create", "edit", "patch", "remove", "add"}

(* What a handler knows at each of its steps.                              *)
Handlers(step) ==
    CASE step \in {"finding", "superseding", "noting", "reviewing"} -> {"verify"}
      [] step = "replacing" -> {"archive"}
      [] step = "updating" -> {"archive", "deprecate"}
      [] step = "checking" -> {"create", "edit"}
      [] step \in {"labelling", "creating"} -> {"create"}
      [] step = "editing" -> {"edit"}
      [] step = "patching" -> {"patch", "remove"}
      [] step = "deleting" -> {"remove"}
      [] OTHER -> Kinds

Remembers(p) ==
    /\ kind[p] \in Handlers(pc[p])
    /\ found[p] \subseteq Existing
    /\ kind[p] \in {"verify", "deprecate", "archive", "edit"} =>
          target[p] \in Existing /\ view[p] \in Row
    /\ kind[p] \in {"create", "edit"} => Sent(dto[p], VersionFields)
    /\ kind[p] = "create" /\ view[p] = NoVersion /\ pc[p] # "refused" =>
          {"content", "slot", "source"} \subseteq DOMAIN dto[p]
    /\ kind[p] \in {"patch", "remove"} =>
          target[p] \in Sources /\ Sent(dto[p], SourceFields)
    /\ pc[p] \in {"noting", "reviewing", "logging"} => wrote[p] # NoVersion

TypeOK ==
    /\ versions \in [Versions -> Row \cup {NoVersion}]
    /\ sources \in [Sources -> Source \cup {NoSource}]
    /\ reviews \subseteq Requests
    /\ \A e \in log : e.by \in Requests /\ e.version \in Versions /\ e.new \in Row
    /\ pc \in [Requests -> Pcs]
    /\ kind \in [Requests -> Kinds]
    /\ target \in [Requests -> Versions \cup Sources \cup {NoVersion}]
    /\ dto \in [Requests -> {<< >>, [active |-> FALSE]} \cup NewVersions \cup Edits \cup Patches]
    /\ view \in [Requests -> Row \cup {NoVersion}]
    /\ found \in [Requests -> SUBSET Versions]
    /\ label \in [Requests -> Labels]
    /\ wrote \in [Requests -> Written \cup {NoVersion}]
    /\ \A p \in Requests : Remembers(p)

-----------------------------------------------------------------------------
Wrote(p, v) == wrote[p] # NoVersion /\ wrote[p].version = v
Verified(p, v) == kind[p] = "verify" /\ target[p] = v /\ Wrote(p, v)

(* "Only one production-active version can exist for the same factor/unit/ *)
(* jurisdiction/year", whichever requests overlap, whatever draft is moved *)
(* to another slot while it is being verified.                             *)
OneActivePerSlot ==
    \A v, w \in Existing :
        Active(v) /\ Active(w) /\ Canon[versions[v].slot] = Canon[versions[w].slot] => v = w

(* What calculations use is what was reviewed: an active version has the   *)
(* value, place and source that verifyFactor checked -- or a request that  *)
(* had read it as a draft wrote it since, which ensureDraftEditable does   *)
(* not prevent.                                                            *)
Substance(row) == <<row.content, row.slot, row.source>>

ActiveAsReviewed ==
    \A v \in Versions : Active(v) =>
        \/ SeededVersions[v] # NoVersion /\ SeededVersions[v].status \in ActiveStatus
             /\ Substance(versions[v]) = Substance(SeededVersions[v])
        \/ \E p \in Requests : Verified(p, v) /\ Substance(versions[v]) = Substance(view[p])
        \/ \E q \in Requests : kind[q] = "edit" /\ Wrote(q, v) /\ view[q].status = "DRAFT"

(* "Cannot archive the latest active factor version unless another active  *)
(* version replaces it": two versions of a slot are never active at once,  *)
(* so archiveFactor archives an active one only when a request has         *)
(* verified it, after the reading of it or of its replacement; one active  *)
(* since the beginning it never archives.                                  *)
ArchivesNoActiveVersion ==
    [][\A v \in Existing :
          Active(v) /\ versions'[v].status = "ARCHIVED" => \E p \in Requests : Verified(p, v)]_vars

(* FactorChangeLog shows every version as it is: once the requests are     *)
(* over some entry holds the row, unless the one that wrote it stopped.    *)
AuditShowsVersions ==
    \A v \in Existing :
        \/ versions[v] = SeededVersions[v]
        \/ \E e \in log : e.version = v /\ e.new = versions[v]
        \/ \E p \in Requests :
              /\ pc[p] \in {"noting", "reviewing", "logging", "stopped"}
              /\ wrote[p] = [version |-> v, row |-> versions[v]]

(* A version always has its source: remove may have counted none when a    *)
(* version that cites the source is created.                               *)
VersionsHaveSource == \A v \in Existing : sources[versions[v].source] # NoSource

(* validateSource keeps official sources documented, except that each of   *)
(* two updates may pass it on the row without the other.                   *)
OfficialMeansDocumented ==
    \A s \in Sources :
        sources[s] # NoSource /\ ~ Valid(sources[s]) =>
            \E p, q \in Requests :
                /\ p # q
                /\ \A r \in {p, q} : kind[r] = "patch" /\ target[r] = s /\ pc[r] = "done"

(* Sources are there and, if official, documented, behind every version.   *)
SourcesHold == VersionsHaveSource /\ OfficialMeansDocumented

(* A verification that has deprecated the active version of its slot gives *)
(* the slot another one, even if the index refuses its own -- unless it    *)
(* was stopped, a draft was moved to another slot, or the version was      *)
(* retired on purpose.                                                     *)
Covered(s) == \E v \in Existing : Active(v) /\ Canon[versions[v].slot] = Canon[s]

SupersededMeansReplaced ==
    \A e \in log :
        kind[e.by] = "verify" /\ e.version # target[e.by] =>
            \/ Covered(e.new.slot)
            \/ \E q \in Requests :
                  /\ kind[q] = "verify" /\ wrote[q] # NoVersion
                  /\ pc[q] \in {"noting", "superseding", "stopped"}
            \/ \E q \in Requests : kind[q] \in {"deprecate", "archive"} /\ wrote[q] # NoVersion
            \/ \E q \in Requests :
                  kind[q] = "edit" /\ wrote[q] # NoVersion /\ "slot" \in DOMAIN dto[q]
=============================================================================
