# CarbonLite API: TLA+ models, TLC runs and TLAPS proofs

CarbonLite API (`src/`) is a NestJS server over PostgreSQL (Prisma). Companies
upload utility bills, tables and JSON files; the server extracts activity rows
from them, a user reviews and confirms the rows, confirmed rows become
`ActivityData` records, and records are turned into emissions with governed
conversion factors. One Node process serves all requests: handlers interleave
at every `await`, several browser tabs or users of one organization act on one
document, clients repeat requests they got no answer to, and nothing is resumed
when the process restarts.

All paths below are relative to `src/src/` unless they begin with `test/` or
`prisma/`.

## 1. Inventory

| Component | State it keeps | Operations | What is hard | What makes it correct |
|---|---|---|---|---|
| Documents (`documents/`) | `Document` row (status, fileHash), the file on the server's disk | upload (refuses bytes it has, unless asked to keep a copy), remove, list, download | hash check and creation are two statements; remove is two deletes; the disk is lost on every deployment | no unwanted second copy; no record without its document |
| Document extraction (`document-extraction/`) | `Document.status`, one `DocumentExtraction` per document | extract (table and JSON parsers, OpenAI for everything else), findLatest | a slow provider, an error on every line, a promise that is returned and not awaited, status and rows written separately | a document in PROCESSING has an extraction that will settle it; a repetition keeps the identity of its rows |
| Import (`document-extraction.service.ts`, `confirmImport`) | `ActivityData` of a document | confirm, with or without staged spreadsheet rows | identity of a record across re-extraction and storage; repeated and overlapping confirmations; partial imports | an activity is imported once; nothing unresolved is hidden |
| Spreadsheet staging (`spreadsheet-import/`) | `SpreadsheetImportReviewRow`, a `Document` per batch | saveReviewRows, findReviewRows | find-then-create of the batch's document; row locks taken in caller's order | one document per batch; a row is staged once |
| Activity data (`activity-data/`) | `ActivityData` | create, update, remove, bulk delete, bulk province and facility, JSON import, clear, reset | multi-statement edits next to recalculation | a record's derived fields belong to its inputs |
| Calculation (`metrics/`) | snapshot, version and status of a record, `MetricResult` | recalculate, calculate | optimistic versions, non-transactional replacement | at most one result per record and metric; history is complete |
| Factor selection and summary (`metrics/calculation-quality.service.ts`, `conversion-factors.service.ts`) | none; an organization's own factors | matchFactor, getApplicableFactor, evaluate, buildSummary; create, update, remove a factor | a ladder of ten searches, each with its own filters and order; two roundings; six counts of one record; factors that change after they were used | electricity is local; what is said of a factor is so; one factor more lets no third one win; a summary shows what was kept, once |
| Factor governance (`conversion-factors/`) | `FactorVersion` status, review and change logs, `FactorSource` | create version, edit draft, verify, deprecate, archive, delete source | every operation is several statements without a transaction | one active version per factor, unit, place and year; an active version is what was reviewed; the change log shows every version |
| Accounts (`auth/`) | `User` password and invite fields, `Membership` | register, create, regenerate and deactivate a pilot reviewer, set password, login | check, slow hash, write; an invitation is a transaction with the sample dataset in it | a link works once, and not after it was replaced; one membership; a session belongs to its invitation |
| Organizations (`organizations/`) | profile and reporting boundary with its attestation | update profile, review boundary | version compared with a stale read | a review attests what the reviewer saw |
| Golden sample (`sample-data/`) | sample records and report of the demo workspace | ensure (every login) | count, delete and create without a transaction | the sample is there once |
| Facilities (`facilities/`) | `Facility` | create, update, list | where a record without a province is calculated depends on a row that changes without it | as for activity data |
| Reports, feedback, audit log, tracking, analytics, energy usage, AI jobs, assets, users | plain rows | single statements | nothing | -- |

Components talk by direct calls: the extraction service writes documents'
status, calls the snapshot service for every record it creates and the tracking
service for every event; deletion of records and documents is in two services
that know nothing of each other. All shared state is in PostgreSQL at its
default isolation (READ COMMITTED); `ActivityData.sourceDocumentId` is a plain
column and no record key is unique in the schema.

`PROJECT.json` lists every component with its status and every hazard with its
line.

## 2. Modules

| Module | Models | State |
|---|---|---|
| `ImportIdentity` | record keys, merge, dedupe, remaining rows and final status of one confirmation, as set expressions | none (operators) |
| `ImportLoop` | the loops of `confirmImport`, iteration by iteration | request, Map, index, keys, created records, status |
| `ImportOnce` | what importing promises: a record for an activity once, a status that says whether every row has one, no record without its document | stage and rows per document, records |
| `DocumentImport` | upload, extraction, confirmation, deletion of documents and of records, lost files, crashes, as interleaving requests | documents, extraction, records; per request where it is and what it has read |
| `SpreadsheetStaging` | `saveReviewRows` and the staged branch of `confirmImport`, with the row locks they hold | source documents, review rows, records; per request its rows, its locks and what it has read |
| `CalculationLedger` | what calculation promises: numbered calculations and a complete history | version, current result, history per record |
| `ActivityCalculation` | `CalculationSnapshotsService` under `update` and `MetricsService.calculate`, next to bulk changes of province or facility and deletions | factor library; record inputs, status, version, snapshot, audit history; metric results; per request what it has read |
| `FactorGovernance` | verification, deprecation, archiving, creation and edits of the versions of a factor, and their sources, statement by statement | versions, sources, review and change log; per request where it is, what it was sent and what it has read and written |
| `FactorSelection` | the two ladders that choose a factor, and the reason given for a choice | none (operators) |
| `MetricsSummary` | judging and calculating records, the summary of an organization, edits of its own factors | catalogue, records, organization; kept results; the last summary |
| `OrganizationBoundary` | `updateOrganizationProfile`: the versions of a reporting boundary and their review | organizations; per request what it was sent and what it has read |
| `GoldenSample` | `ensureGoldenSampleDataForWorkspace`, statement by statement | sample records and reports; per seeder where it is |
| `PilotReviewers` | registration, invitations, links, passwords, logins, next to the sample they ensure and the profile that is edited | accounts, memberships, sessions, and the state of the two modules above |
| `ImportLoopProofs`, `DocumentImportProofs`, `StagingProofs`, `CalculationProofs`, `GovernanceProofs`, `SelectionProofs`, `SummaryProofs`, `AccountProofs` | theorems about `ImportLoop`, `DocumentImport`, `SpreadsheetStaging`, `ActivityCalculation`, `FactorGovernance`, `FactorSelection` and `MetricsSummary` (two modules), `PilotReviewers` | -- |
| `MCImportLoop`, `MCDocumentImport`, `MCSpreadsheetStaging`, `MCActivityCalculation`, `MCFactorGovernance`, `MCMetricsSummary`, `MCPilotReviewers` | the instances TLC checks | -- |

`DocumentImport` EXTENDS `ImportIdentity`: its `ConfirmCommit` creates
`ToCreate(payload, keys)` in one step. `ImportLoop` shows that this formula is what
the code's loops compute, so that the large model does not have to run them.
`DocumentImport` instantiates `ImportOnce` as `Promise`: there a document is open
whatever its status says, unless it is IMPORTED or gone; its rows are its
extraction, and the records are the records. `SpreadsheetStaging` EXTENDS
`ImportIdentity` as well: it looks at the part of the same transaction that
`DocumentImport` leaves out. `ActivityCalculation` stands by itself: importers meet
it in `Create` only. It instantiates `CalculationLedger` with the snapshot as the
current result, and the ledger's specification is one of its properties.
`FactorGovernance` stands by itself too: what it decides reaches
`ActivityCalculation` as `EditLibrary`. `MetricsSummary` EXTENDS `FactorSelection`:
together they open what `ActivityCalculation` takes as the function `Evaluate` of an
input and a library. `PilotReviewers` EXTENDS `OrganizationBoundary` (an account
belongs to a workspace, whose name decides whether its reviewers get the sample) and
instantiates `GoldenSample` with its requests as seeders, because the sample is
written inside its handlers: in the transaction of an invitation, and statement by
statement when a reviewer logs in.

### How code and model correspond

*Identity.* `buildImportActivityRecordKey` is `RecordKey`: `<<"row", n>>` for an
activity with a source row, `<<"content", c>>` for one without. The five content
fields (reference, type, date, quantity, unit) are one abstract content `c`;
`Stored[c]` is what `c` reads back as from PostgreSQL. `Canonical` says that
`Stored` is the identity; runs and theorems that need it say so.

*Requests.* A request is `idle`, then at a step, then `done`. It keeps what the
code keeps in local variables: `rows` (extraction rows in memory), `payload`
(the confirmed activities) and `scan` (the records its transaction has read;
kept afterwards as history). Code between two awaits whose order nobody can
observe is one action:

| Code | Actions |
|---|---|
| `DocumentsService.upload` | `UploadRefused`, `UploadCheck`, `UploadCreate` |
| `extract`: PROCESSING before the `try` | `ExtractStart` |
| access, readFile | `ExtractFileMissing` |
| table and JSON parsers | `ExtractParse`, `ExtractUnreadable`, `ExtractMalformedJson` |
| the provider | `ExtractCall`, `ExtractAnswer`, `ExtractProviderError` |
| status, then `saveExtractionResult`, then audit and tracking | `ExtractSettle`, `ExtractSave`, `ExtractLog` |
| the catch block; a rejecting statement; a deleted document | `ExtractFail`, `ExtractFault`, `ExtractGone` |
| `confirmImport`: read, transaction's reads, commit, rollback | `ConfirmRead`, `ConfirmScan`, `ConfirmCommit`, `ConfirmAbort` |
| `DocumentsService.remove`, one transaction | `RemoveScan`, `RemoveCommit`, `RemoveAbort` |
| `ActivityDataService.remove`, `bulkDelete` | `DeleteRecord` |
| the host | `FileLost`, `Crash` |

`ExtractMalformedJson` deserves a word: the extraction of tables and JSON files
is returned, not awaited, inside the `try` block (lines 223 and 231), so its
rejection does not reach the catch block and the document stays in PROCESSING.
No document or comment promises otherwise; `ProcessingHasWorker` and
`ProcessingSettles` state it as their one exception.

A second transaction's records become visible at its commit, all at once. That
is what READ COMMITTED gives a single `findMany`; the code reads the records of
a document once per transaction, and `ConfirmScan` is that read.

*Staging.* A slot is a physical row of the workbook, `<<sheet, row number>>`.
`staged` is the table of review rows, whose unique key is (organization, batch,
sheet, row): one batch of one organization is modelled.

| Code | Actions |
|---|---|
| `saveReviewRows`: the transaction's `findFirst` | `SaveFind` |
| the document's update or create | `SaveSource` |
| one upsert of the loop | `SaveRow` |
| extraction, status, commit | `SaveCommit` |
| `confirmImport`: document and extraction, before the transaction | `ConfirmRead` |
| the review rows, default selection of the ready ones | `ConfirmReview` |
| one revalidating update of the loop | `Revalidate` |
| the existing records, after the loop | `ConfirmScan` |
| creation, remaining rows, status, commit | `ConfirmCommit` |
| a rejecting statement, the 15 s timeout, a deadlock, the end of the process | `Abort` |

An UPDATE or upsert at READ COMMITTED keeps its row locked until the transaction
ends; `held` and `owns` are those locks, and a step that wants a row or document
another request holds is not enabled. The rows of a running transaction are
written at its commit in the model, which is when others can see them. A save
locks the document first and then its rows, a confirmation its rows first and
then the document. Both go through the rows in the order the client sent them
(`order`), and a confirmation that names no row in the order in which the database
lists the review rows (`Listed`): `sourceRow` is a text, so row 11 is before row 2.
Requests whose orders disagree may wait for one another in a circle, as a save and a
confirmation may; PostgreSQL resolves the deadlock by aborting one of them, which is
`Abort`. `DeadlockTakesTwoOrders` says that there are no other circles.

Restrictions of `SpreadsheetStaging`: a request names the sheet of every row and
lists a row once; review rows of one number are listed sheet by sheet, which is the
order of their creation when the workbook was staged as a whole; a client reports a
status that fits the content; deletion of the source document is in `DocumentImport`
only.

*Calculation.* The input of a record is one abstract value (activity, quantity,
unit, year, province, and the facility it is linked to); `library` is, for each
input, the factor that the factor tables, the places of the facilities and the
organization's settings give at the moment. `Evaluate` is
`evaluate` on behalf of `fields`: a result, or none; every status without a
result (no factor, no province, tracked only, ...) is MISSING_FACTOR.

| Code | Actions |
|---|---|
| `create`, `prepareCreate` | `Create` |
| `update`, one transaction that locks the record first | `Update` |
| `bulkUpdateProvince`: the eligible records, then the change | `ProvinceFind`, `ProvinceCommit` |
| `bulkUpdateFacility`: those of the records found that are still there | `BulkUpdateFacility` |
| `calculate`: records found, ..., response | `CalculateStart`, `CalculateEnd` |
| a carbon result: read and evaluate; update under the version read; delete and create, commit | `CarbonRead`, `CarbonWrite`, `CarbonCommit` |
| another metric: no factor; delete; create | `MetricSkip`, `MetricDelete`, `MetricCreate` |
| `remove`, `bulkDelete` | `Remove` |
| `clearForOrganization`, `resetDemoDataForOrganization`, `DocumentsService.remove` | `ClearScan`, `ClearCommit` |
| a rejecting statement (record gone, version changed, ...), the end of the process | `Abort` |
| edits of the factor tables, the facilities and the organization's settings | `EditLibrary` |

A request in `writing` holds the lock of its record, one in `writing` or
`clearing` those of the results it has deleted; `Free` and `Unlocked` are the
waits. The order in which `calculate` takes records and metrics is left open.
`displaced` is not in the code: it remembers which records had their province
changed under a running calculation, or lost their facility, until a calculation
catches up with them. `bulkUpdateFacility` writes a name and removes the link: a
record without a province of its own was calculated where the facility is, and
`Unhoused` says what is left of its input. Its two reads decide nothing else, so
the update is one action. Records written before versions existed are left out.

*Governance.* One factor. A version is its status, its label `<<year, number>>`
(`v2025.3`), its *slot* (unit, country, region and year, as stored), one abstract
content for every other field, and its source. `Canon` is what the unique index
makes of a slot: null and the empty string are one (`COALESCE`), whereas the
queries of the service compare the columns as they are. `Placed` are the slots
that verification accepts. A source is active or not, official or not, and
documented to one of three degrees, which is what `validateSource` and
`validateProductionReadiness` tell apart. The model has no transactions because
the code has none: every await is a step.

| Code | Actions |
|---|---|
| `verifyFactor`: read and validate | `VerifyRead` |
| `deprecatePreviousProductionVersions`: the query; one update, its log entry | `FindPrevious`; `SupersedeOne`, `WriteLog` |
| the update to VERIFIED; the review; the log entry | `Verify`; `RecordReview`; `WriteLog` |
| `deprecateFactor` | `DeprecateRead`, `Retire`, `WriteLog` |
| `archiveFactor`: read; replacement; update; log entry | `ArchiveRead`, `FindReplacement`, `Retire`, `WriteLog` |
| `createNewFactorVersion`: the version before; the source; the label; insert; log entry | `CreateRead`, `CheckSource`, `NextLabel`, `CreateVersion`, `WriteLog` |
| `updateDraftFactorVersion`: read; the source; update; log entry | `EditRead`, `CheckSource`, `EditVersion`, `WriteLog` |
| `FactorSourcesService` `create`; `update`; `remove` | `AddSource`; `PatchRead`, `PatchSource`; `RemoveRead`, `PatchSource` or `DeleteSource` |
| a rejecting statement, the end of the process | `Stop` |

A row the database refuses (`Accepted`, `Unique`, `Deletable`) ends its request in
`failed`. A client sends a slot as a whole, although the fields of one may be sent
separately. `AuditLog` entries of sources, review notes and dates are left out;
`reviews` is kept because its entry is a step of its own.

*Selection.* A factor is a record of everything the searches look at; a governed
version has its factor's and source's standing folded into `live`. A place is one
normalized name, and `Normal` is the table of `normalizeJurisdictionRegion` and
`...Country` over the spellings of the instance. Each rung of `Ladder` is one
search of `matchFactor` (lines 661-885), as the set of the factors it may return;
`Best`, `First`, `Latest` and `Nearest` are its sort. Two factors are never
updated at one time (`PoolAssumption`), so that no order is left to the database;
the factors of a database, and the records of a scope, are finitely many. A factor
table that predates the governed one keeps its place in two columns: the searches
compare `region || jurisdiction` (`Region`), what is told about the choice goes by
`region ?? jurisdiction` (`ToldRegion`), and an empty region makes the difference.
`CatalogLadder` is the second ladder, `getApplicableFactor`, which no handler
calls. It differs from the first in units, countries, the rank of a status and
the years it takes, and is compared with it.

*Summary.* `Evaluated` is `evaluate` with the factors of the moment, `Shown` the
same with `persistedOnly`; `Kept` is what `fields` writes of it. A quantity is an
integer in ten-thousandths, as the column stores it (`Decimal(18,4)`); what `round`
has rounded, a quantity in the unit of the factor or emissions, is in thousandths; a
factor's value is in parts of 1 / `Scale`, any positive number. Every quantity is
rounded, whether it is converted or not (`Converted`). The arithmetic is exact: the
floating-point numbers of the code may send a tie the other way, which is as far from
the exact result.

| Code | Actions |
|---|---|
| `CalculationSnapshotsService.fields` of one record | `CalculateRecord` |
| `buildSummary` of a scope | `Summarize` |
| `ConversionFactorsService` `create`, `update`, `remove` | `CreateCustom`, `UpdateCustom`, `RemoveCustom` |

A summary is one action: its queries run together and the rest is synchronous.
Lists of issues, recommendations and texts are left out.

*Boundary.* An organization is a name, one abstract value for every other field
of the boundary, a version and whether it is reviewed. `Displayed` is what
`toProfileResponse` puts in place of a missing field, `Folded` what the
fingerprint makes of case and white space. The row is read (`SaveRead`), then
updated by its id (`SaveWrite`), or the request dies (`SaveLost`); the log entries
that follow are left out.

*Accounts.* A link is named by the request that issued it, a password by the link
or registration it was chosen with, so `secret` says where a password or a
session comes from.

| Code | Actions |
|---|---|
| `register`, one transaction | `Register` |
| `createPilotReviewer`: the workspace of that name | `InviteFind` |
| its creation, and the account of that address | `InviteFound` |
| the account's update or creation; the memberships | `InviteWrite`; `InviteJoin` |
| the sample's statements; commit | `Seed`; `InviteCommit` |
| `deactivatePilotReviewer` | `DeactivateRead`, `DeactivateWrite` |
| `regeneratePilotReviewerInvite` | `RegenerateRead`, `RegenerateWrite` |
| `setPasswordFromInvite`, its answer | `SetPasswordRead`, `SetPasswordWrite`, then `Seed`, `SeedAnswer` |
| `login`, its answer | `LoginRead`, `LoginWrite`, then `Seed`, `SeedAnswer` |
| `scripts/seed-sample-workspace.ts` | `SeedScript`, `Seed`, `SeedAnswer` |
| `updateOrganizationProfile` | `EditProfile` |
| deletion of records and reports of the sample | `UserDeletes` |
| days go by | `Lapse`, `AccountEnds` |
| an error, a restart | `Fail`, of some requests at a time |

`Locked` is the row lock of an account that an open transaction has written; every
update waits for it. Between an unlocked read and the update by id there is
nothing, and the histories remember when that mattered: `raced` the accounts
written over something nobody had read, `contested` the workspaces saved so,
`crowded` the workspaces two seeders were busy with at a time, `disturbed` the
seeders some sample was deleted under. The statements of a transaction on
`samples` are there at once but `Visible` to nobody else until it commits. In
`GoldenSample` one step is one statement: `SeedCount`, `SeedDelete`, `SeedCreate`,
`ReportCount` (with the deletion that `force` makes), `ReportCreate`.

Restrictions: who may call an administrator's operation is left out, and so are
logout (a log entry) and the local demo login without a database; the script does
not create its workspace; only the sample's rows are deleted, and rows a user
gives the sample's own source names are not modelled.

*Environment.* `Exclusive = TRUE` restricts clients to one request per document
at a time, which is what one user with one tab does; `FALSE` leaves them free.
`Faults` lets a statement of `extract` reject; a transaction may roll back in
every run. `Crashes` lets the server restart. One organization is modelled:
every query carries the organization's id.

## 3. Runs

| Run | Question | Result |
|---|---|---|
| `import_loop` | Do the loops compute `ToCreate`, `KeysAfter`, `StatusAfter`? Is anything confirmed lost? Does a repetition create anything? | holds, every request of up to 3 activities over 2 rows and 2 contents, against every set of existing keys |
| `waiting` | Two documents and clients that wait, with rejecting statements, rollbacks and restarts: is a second copy only there when asked for, do the steps amount to those of `ImportOnce` -- everything imported once, identity kept over re-extraction, the status truthful, nothing surviving its document? | holds |
| `concurrent` | Clients that do not wait, all four kinds of file, malformed bytes: where may duplicates come from, who settles PROCESSING, and does a document leave it? | holds, the last one under `Fairness` |
| `double_import` | Overlapping confirmations | `NoDoubleImport` is violated (finding) |
| `staging` | Saves and confirmations that may overlap: may a staged row be imported twice, when can requests wait in a circle, does every eligible row get its record? Before any overlap: one document, nothing in need of review hidden? | holds |
| `staging_partial` | Confirmation of a part of what is ready | `ImportedMeansEverything` is violated (finding) |
| `staging_sheets` | Two sheets that number their rows alike | `EligibleRowsAreImported` is violated (finding) |
| `calculation` | Edits, calculations, bulk changes of province and facility, and deletions that overlap: is every calculation in the history, is a result counted twice, does a calculated record show the result of its input? | holds |
| `factor_governance` | Requests of administrators that overlap and may stop anywhere: is one version active per slot, was it reviewed as it is, does archiving take the active version away, does a version keep its source, does the change log show every version? | holds |
| `selection` | Records against pairs of factors, with an organization's own factors coming and going: is electricity local, is the reason given so, may a factor let a third one win, how far off is the rounding, does a summary show what was kept? | holds |
| `workspace` | Requests about one account and its workspaces that overlap and may stop anywhere: what is a link worth, a session, a membership, a sample that was repaired, a boundary that was reviewed? | holds |
| `reports_follow_status` | Is a record that waits for its calculation reported as calculated? | `ReportsFollowStatus` is violated (finding) |

Every `pass` property has a mutant: a plausible mistake, written beside the
definition it replaces and marked "(Mistake: ...)", under which TLC finds the
property violated.

*Bounds.* Requests are used once, so their number bounds a behaviour: five for
waiting clients (upload, extract, confirm, extract again or delete, confirm again),
three when they overlap (the third is what two can race with). One document is
enough when they overlap; waiting clients have two, for the hash check of uploads,
the only operation that looks at a second one. The table has two rows of EQUAL
content, the smallest case in which row identity and content identity differ; a
provider answers with nothing or with two rowless rows, one of which has the content
of the table rows; clients confirm one row, both, or an old rowless one
(corrections, twins and empty requests are met by `import_loop`). Requests and
documents are interchangeable, hence symmetry sets in the runs without liveness.

Staging runs have a workbook of two rows, the least with an order to take locks in
and with a part to confirm (or one row on each of two sheets), and three kinds of
content: complete, without its province, blank. The rows are 2 and 11, which the
database lists the other way round; a save and a confirmation of both are sent in
either order, all others as listed. Four requests are two saves and two
confirmations, or a save and three confirmations.

The calculation runs have one record, since no operation looks at one record on
behalf of another, with two inputs (to one of which both bulk changes lead, from the
other), two states of the library, and three requests -- two that race and one that
comes before or after; creation, single deletion, the change of facility and factor
edits are not counted.

The governance run has a verified version, a draft for the same slot, and room for
two more; a slot whose region is null, the same with an empty region (equal to the
index, different to the queries), another place, and one without a year; a
governmental source, an unofficial one, and an id for a new one; three requests,
which are enough for two that race about a version with a third that changes or
retires what they have read. The table is never empty, so the first version of a
factor is created in no behaviour of the run.

`BatchIsSettled` is asked until requests overlap, which `overlapped` remembers: a
save that commits between a confirmation's read and its commit may stage a row in
need of review that the confirmation does not count, and two first saves of a batch
create two documents.

The selection run has records of five activities (electricity, a fuel, one with
country factors in the first ladder only, one with neither, one that is tracked), in
tables of three of thirteen rows, which differ in place, facility, hint, unit and
quantity (some with a fourth decimal that a value of 2000, at a `Scale` of 100,
blows up); two organizations; and as catalogues all pairs of the factors of one
activity and one triple of years, besides one factor of the organization's own that
is created, changed or removed twice at most (`MaxCustom`, `MaxEdits`): one with an
empty region and a jurisdiction and one of a prior year are among these. Pairs are
what the order of the rungs and of a sort can be seen on; the triple is the least in
which choosing the year first goes wrong.

The workspace run has one e-mail address, two workspaces and two names (one the
sample's), three requests, a sample of two records, and five saves: a review, the
same in another spelling, the default text written out, the cleared field, and
another name. Three requests are an invitation, the use of its link, and one that
interferes; two records are the least of which a part can be missing.

*Deadlock* is checked where requests do not run out (`selection`), and not
elsewhere: a finite number of requests ends.

*Fairness.* Weak fairness of the steps of a request that is being served: the
event loop runs every continuation, PostgreSQL answers or rejects, and the
OpenAI client has a default timeout (`openai/openai.client.ts` sets none, so the
library's applies). No fairness on clients, crashes or lost files, and none on
confirmations or deletions: no liveness property depends on them.

## 4. Proofs

`ImportLoopProofs` proves about `ImportLoop`, from `NoRowAssumption`,
`StoredAssumption` and `LoopAssumption`, for requests of any length:

| Theorem | Says |
|---|---|
| `LoopsComputeToCreate` | `Spec => []LoopComputesToCreate`: the step by which `DocumentImport` and `SpreadsheetStaging` import is what the loops of the code compute |
| `ConfirmedIsRecorded` | `Spec => []NothingConfirmedIsLost` |
| `RepeatedConfirmCreatesNothing` | `Spec => []ConfirmIsIdempotent` if storage gives contents back as they were (`StoredExactly`) |

*Argument.* The loops are one step per iteration, so what an induction over the
request would say is an invariant. `MapHolds` describes the Map after `k`
activities: one place per key, in the order in which keys appear, holding the
last activity of its key; `MapIsMerged` and `MapIsInOrder` read from it, when
`k` is the length of the request, that the values are `Merged` in their order.
`WalkHolds` describes the second loop: what was created of the first `k` values,
and that the index is the document's keys and theirs. `WalkDecides` is the one
fact that is not bookkeeping: as no two values have one key, an earlier value of
the walk is in the way of a later one just when `ToCreate` says so.

`DocumentImportProofs` proves, for every value of the constants that satisfies
`NoRowAssumption`, `StoredAssumption` and `DocumentAssumption`:

| Theorem | Says |
|---|---|
| `TypeCorrect` | `Spec => []TypeOK` |
| `OnlyOverlapDuplicates` | `Spec => []DuplicatesOnlyFromOverlap` if `Canonical`: with any clients, faults and crashes, two records with one key come from two confirmations of which neither had read the other's record |
| `SerialLeavesNoOrphans` | `Exclusive` and `Spec` imply `[]NoOrphanRecords`, through faults and crashes |
| `SerialImportsOnce` | `Exclusive`, `Canonical` and `Spec` imply `[]NoDoubleImport` |
| `PromiseImplemented` | `Exclusive`, `Canonical` and `Spec` imply `PromiseKept`: the detailed specification implements `ImportOnce` |
| `SerialKeepsLegacyIdentity` | `Exclusive` and `Spec` imply `LegacyIdentityKept`, the part of the promise about table rows and their rowless predecessors, whatever storage does to contents |
| `SerialHidesNothing` | `Exclusive`, `Canonical` and `Spec` imply `ImportedMeansResolved` |
| `SerialUploadsNeedConsent` | `Exclusive` and `Spec` imply `[]DuplicateNeedsConsent` |
| `SomebodySettles` | `Spec => []ProcessingHasWorker` without `Faults` and `Crashes` |

*Argument.* `DuplicatesOnlyFromOverlap` is not inductive: a commit could
duplicate a record its transaction has read, or be attributed to a request that
is still running. `OverlapInv` adds `CreatorIsDone` (a record is in `records` or
in anybody's `scan` only once the request that created it is done), so a
committing request is the creator of nothing yet, what it creates is new with
respect to `scan`, and two records of one commit have different keys
(`MergedIsUnique`, `CreatedOnce`). `StepKinds` sorts the steps of `Next` by what
they do to `records` and `scan`, so each preservation proof looks at a handful
of cases. For waiting clients, `WaitingInv` adds `OneRequestPerDocument` and
`ScanIsCurrent` (what a transaction has read is still everything there is), from
which a commit's keys are disjoint from all keys of the document
(`CommitAddsNewKeys`) and a deletion removes all records. `CurrentInv` says the
same of the rows a confirmation has read, and that an extraction that will
replace them has taken the document out of `IMPORTED`; so a document is finished
only by a commit that covers each row it has. `ConsentInv` counts the upload
under way among the documents there are (`Taken`): its check has seen all others.
`PromiseStep` puts the refinement together: `DocumentSteps` sorts the steps by what
they do to statuses, rows and records; a commit is an `Import` because what it
counts as imported is what the document then has (`CommitKnowsKeys`), a deletion a
`Discard` because what it has read is all there is.
For `ProcessingHasWorker`, `WorkerKept` says which steps of a worker may leave a
document, and no other request can take one away from it.

`StagingProofs` proves about `SpreadsheetStaging`, from `StagingAssumption`,
`NoRowAssumption` and `StoredAssumption`:

| Theorem | Says |
|---|---|
| `StagingTypeCorrect` | `Spec => []TypeOK` |
| `StagedOnce` | `Spec => []StagedRowImportedOnce`: however requests overlap, and whichever abort, a staged row has one record per document |
| `CirclesTakeTwoOrders` | `Spec => []DeadlockTakesTwoOrders`: requests that all wait for one another have no single order of the rows that agrees with all of theirs, or a confirmation among them waits for the document a save holds |
| `OneBatchIsSettled` | `Spec => []BatchIsSettled` |
| `OneSheetIsImportedInFull` | `Spec => EligibleRowsAreImported`, if the workbook has one sheet (`OneSheet`) |

*Argument.* `LockInv` adds to the type invariant that no two requests hold one
row (`LocksExclude`), and two facts about what was read: a record of a staged
slot carries the key of its row number (`RecordsNameRows`), and a transaction
that holds a slot and has read the records has read every record of that slot
there is (`ScanKnowsHeld`). The last one is the point of the order "update, then
read": a commit that adds a record of the slot would need the lock, so nothing
is added between the read and the holder's commit. Hence what a commit creates
from a staged slot is new (`CommitAddsFresh`). With the read before the updates,
the transactions could pass each other -- as they do for unstaged rows in the run
`double_import`.

`CirclesTakeTwoOrders` rests on `RowByRow`: a request holds the rows it goes through
from the first on, without gaps, in its own order. `OwnersSave` says that a document
is locked by saves only, until they commit. So in a circle in which no confirmation
has come to its document everybody who updates rows awaits a row that another of them
holds (`WaitsForRow`), and the holder awaits one that is later in its own order
(`AwaitsEarlier`). If one order agreed with all of theirs, every awaited row would
have a later awaited one; there is a last, by the well-foundedness of the natural
numbers (`LeastNumber`, `NoCircleInOneOrder`). For `OneBatchIsSettled`, `AloneInv` says what a request that nobody
overlaps may rely on: a save goes for the document there is (`SaveAims`), a
confirmation judges the rows there are (`ViewIsCurrent`).

`OneSheetIsImportedInFull` needs that what a confirmation has read are records of
its document (`ScanIsOfDocument`). An eligible row is passed over for one of two
reasons: another row of its number comes first, or a record covers it. In one
sheet the first row of a number is the row itself, and a record that covers a
numbered row has its number (`CoveredByNumber`), hence its slot. Without the
hypothesis the property is false, and the run `staging_sheets` shows how.

`CalculationProofs` proves about `ActivityCalculation`, from
`CalculationAssumption`:

| Theorem | Says |
|---|---|
| `CalculationTypeCorrect` | `Spec => []TypeOK` |
| `LedgerImplemented` | `Spec => LedgerKept`: the detailed specification implements `CalculationLedger` |
| `CarbonResultOnce` | `Spec => []OneCarbonResult` |
| `ResultOfItsInput` | `Spec => []CalculatedFromItsInput` |
| `OverlapMakesDoubleMetrics` | `Spec => []DoubleMetricsOnlyFromOverlap` |

*Argument.* `CalculationInv` adds to the four properties what a request may rely on
between its steps. `WriterInv`: a transaction that has updated a record is alone
with it and the record has the version that was read. `ReaderInv`: a version never
goes down, and the snapshot of the version read is the snapshot read; so the commit
numbers the calculation one up and enters the very result it replaces, which is the
step of the ledger. `FreshInv`: at an unchanged version the input is the one that
was evaluated, unless the record is `displaced`. `CarbonInv`: the results a
transaction deletes are all there are, because a new one needs the lock. For the
other metrics, which have no lock, `MetricInv` says that a request creates a result
for a record once (`OnceTodo`, `OnceCreated`), so that two results come from two
requests, and that what was deleted stays deleted (`DeletedIsGone`).

`GovernanceProofs` proves about `FactorGovernance`, from `GovernanceAssumption`:

| Theorem | Says |
|---|---|
| `GovernanceTypeCorrect` | `Spec => []TypeOK` |
| `OneActiveVersion` | `Spec => []OneActivePerSlot`, if the tables had it when the index was made (`SeededInOrder`) |
| `SourcesStay` | `Spec => []VersionsHaveSource`, the first half of what the run checks as `SourcesHold` |
| `SourcesAreSound` | `Spec => []SourcesHold`, if the seeded sources are documented (`SeededDocumented`) |
| `ActiveIsAsReviewed` | `Spec => []ActiveAsReviewed` |
| `ActiveIsNotArchived` | `Spec => ArchivesNoActiveVersion`, if `SeededInOrder` |
| `ChangesAreLogged` | `Spec => []AuditShowsVersions` |
| `SupersededAreReplaced` | `Spec => []SupersededMeansReplaced` |

*Argument.* `TypeOK` contains `Remembers`: at each step of a handler, which
handlers can be there (`Handlers`), and that the version or source it is about,
the fields it was sent and the row it has written are there. That is what makes
the rows it writes rows. `HowVersionsChange` reduces a step that touches versions
to one row, which the index accepts and whose source exists; the first two
invariants are then inductive, a deletion of a source being the other case of
`SourcesStay`. For `ChangesAreLogged` a step either writes a version and owes its
entry, or moves a request that pays what it owes.

`WhatBecomes` sharpens `HowVersionsChange`: four things can become of a version
in a step -- it is created, leaves the active ones, is verified or is edited.
With what requests know of theirs (`KnowledgeInv`), and the fact that a version
under verification is as its verifier has read it, or edited since (`AsRead`),
this gives `ActiveIsAsReviewed`. `ActiveIsNotArchived` follows the versions that
are active and that nobody has verified: they have not moved, so who is about to
archive one has read it as it is, and the replacement found for it would be a
second active version of its slot, against `OneActivePerSlot`. For official
sources, `PendingIsValid` says that an update that has passed its check would
leave the source documented -- or another one has been made meanwhile.

`SupersededAreReplaced` speaks of the log, and the log of what happened long ago;
`ReplacementInv` says of every entry of a superseded version that its slot is
provided for: an active version is in it, or a request that has deprecated one is
still on its way to verify another, or one of the exceptions the property names
has happened and stays (`HistoryStays`). Three facts carry it. A version does not
leave its slot unless a draft is moved (`SlotKept`), so a request finds its
version, and those it found, where it has read them (`InPlace`). Who takes the
active version of a slot away, other than on purpose, is itself replacing it
(`WhileReplacing`), which passes the duty on when verifications overlap. And
`Verify`, which ends the duty, either makes its version active or is refused by
the index, which has then shown that another one is (`VerifyCovers`).

`SelectionProofs` proves about `MetricsSummary`, from the assumptions of
`FactorSelection` and `MetricsSummary`:

| Theorem | Says |
|---|---|
| `ElectricityFactorIsLocal` | about the operators, for every table and record: a factor `MatchFactor` returns for electricity is of the place asked for, and of no country as a whole |
| `ElectricityIsLocal` | `Spec => []ElectricityStaysLocal`: nor is one a record was calculated with |
| `SelectionTypeCorrect` | `Spec => []TypeOK` |
| `OneMoreChangesNothingElse` | `Spec => []ChoiceIgnoresTheRest`: one factor more is chosen, or changes nothing |
| `OfferedVersionIsCalculated` | `Spec => []OfferedIsCalculated`: where `getApplicableFactor` offers a version, `matchFactor` finds one |

*Argument.* Each of the ten rungs is a set of factors that a comparison of places
has filtered (`RungInPlace`); the rungs that compare countries only are closed to
electricity, and the country itself is no place to look for it
(`NothingCountryWide`). Whatever the sort picks from a rung is in it (`Sorted`,
`StopsAtARung`). What an evaluation keeps of it names a factor of the catalogue
or of the organization (`MatchIsCatalogued`); `LocalInv` says of every kept result
that its factor was in place when it was chosen, which later edits of the
organization's factors do not change because the result holds a copy.

`OneMoreChangesNothingElse` is proved rung by rung: a rung of the larger catalogue
is the rung of the smaller one with at most the new factor, and a sort is
indifferent to what it does not pick. `OfferedVersionIsCalculated` follows what the
second ladder accepts into the rungs of the first: a version it offers is in one of
the governed rungs, so the search has stopped there or before, at another version or
at a factor of the organization. Both use that a sort of a rung that holds something
returns something (`LatestIsThere`, `NearestIsThere`), which is where the pool has
to be finite.

`SummaryProofs` goes on from there:

| Theorem | Says |
|---|---|
| `RoundingTwiceIsBounded` | `Spec => []RoundingIsBounded`, for any quantities, values, `Scale` and units: half a thousandth, and half a thousandth of the factor's unit times its value if the quantity has to be rounded |
| `ExplanationsHold` | `Spec => ExplanationHolds`: what the reason claims was passed over was not there, among the governed versions if one was chosen, and else among the factors like the one chosen |
| `SummariesHold` | `Spec => SummaryHolds` |

*Argument.* `KeptInv` says that what is kept of a record is what judging it with the
kept factor yields, and that its unit converts into the factor's. The bound is then
the sum of two errors: of the quantity, at most half a thousandth (none if it is a
whole number of them, `RoundedIsExact`), multiplied by the factor, and of the
emissions, half a thousandth (`RoundedIsNear`, `TwiceRounded`). For
`ExplanationsHold`, `JudgedAtARung` gives the rung a factor was found on and the empty
ones before it; `ReasonHolds` takes the reasons of a governed version one by one, each
true because the rung that would contradict it comes earlier and was empty. A factor
of the organization's own or a default is on one of the other rungs, which take the
latest of what they hold (`RungsOfLegacy`); the factors like it are on the same rung
(`AlikeIsSearchedToo`), so none of the record's year was there if it is of a prior one
(`UngovernedReasonHolds`). What is told goes by `ToldRegion`, which is never narrower
than where the search found the factor (`ToldAsWide`). For
`SummariesHold` the sums are functions on the subsets of a finite set. Induction
over sets is out of reach (below); `MinimalSet` takes its place: a property that
fails for a finite set fails for a minimal one, strict inclusion of finite sets
being well-founded. With it sums exist (`SumsExist`), do not depend on the order of
their terms (`SumTakes`), and may be taken by kinds (`SumByKind`), from which the
counts by status, category and exclusion agree with the number of records. What is
left is that a detail shows the kept result (`ShowsWhatIsKept`) and that usage is
computed from the record (`UsageIsOfTheRecords`).

`AccountProofs` proves about `PilotReviewers`, with `OrganizationBoundary` and
`GoldenSample` inside it, from `BoundaryAssumption` and `ReviewersAssumption`:

| Theorem | Says |
|---|---|
| `AccountTypeCorrect` | `Spec => []TypeOK` |
| `ReviewersHaveOneMembership` | `Spec => []OneMembership` |
| `LinksSetOnePassword` | `Spec => []LinksWorkOnce` |
| `SessionsAreOfTheirInvitation` | `Spec => []SessionsComeFromTheirInvitation` |
| `ReviewsAreOfWhatWasShown` | `Spec => []ReviewsAttestWhatWasShown` |
| `OnlyCrowdsMakeCopies` | `Spec => []CopiesOnlyFromCrowds` |
| `SeedingLeavesTheSample` | `Spec => SeedingRepairs` |

*Argument.* `Typed` adds to the types what a request remembers at each of its steps
(`RequestOK`): whom it is about, and from the founding on which workspace.
`OneMembership` needs `MemberInv`: a transaction that has replaced memberships holds
the row lock of the account, so what it will delete is every membership of that
account there is, until it commits. For links, `TokenInv` says that the request that
issued one is done and remembers for which user and workspace; a link that was used
is spent (`Spent`); a password and a session name the link or registration they come
from. No request ever forgets (`StepRemembers`), so these facts survive the steps of
all others (`QuietSteps`), and the write of a password is the one step that has to
look at them; if the account it writes to is not the one it read, the account is in
`raced` and nothing is claimed. For the boundary, `BoundaryInv` adds that a version
number above the current one was never shown and that the current one was shown as
it is (`Latest`). It needs one fact about the data: no boundary reads like the one
with its field cleared, because the service trims what it stores, so a text of
nothing but spaces *is* the cleared field. For the sample, `CopiesInv`: in a
workspace that two seeders have never shared, the records and the report are there
once (`Tidy`), and a seeder that is about to create them sees none, because what it
sees is all there is once it is alone; `FreshInv` says that a seeder has left
nothing behind before it begins. `SeedingLeavesTheSample` has the code's own
difficulty: completeness is decided by comparing two counts. Where nothing is there
twice, to be as many as the items is to have them all (`AsManyIsAll`), and nothing
is, by `CopiesInv`, for a seeder that was never in company. `RepairInv` follows such
a seeder: before it creates it has left nothing behind, what it deletes is the rows
of others, and once it has passed the records, and then the report, it sees them
complete. Others may end, be rolled back or die meanwhile, which leaves its view
whole (`OthersRepair`).

*Out of the prover's reach.* `ProcessingSettles`, liveness under fairness, is only
model-checked; it is the one property of the passing runs without a theorem.
Theorems of the library that take an operator as a parameter cannot be used, so
that an induction over data is either an invariant of a loop modelled step by step
(`ImportLoopProofs`) or a minimal counterexample (`SummaryProofs`). The properties
of the runs that expect a violation are false as they stand;
`OneSheetIsImportedInFull` and `SerialImportsOnce` prove two of them under a
hypothesis.

## 5. Findings

Four behaviours of the code contradict a test or a comment of the repository, each
with the run that shows it; see `findings` in `PROJECT.json`.

Several properties hold for waiting clients only. With `Exclusive = FALSE` TLC
finds the behaviours that break them, all of them races whose cause is the same,
a check and a write in different statements without a lock or a constraint:

- `NoOrphanRecords`: a confirmation that commits between the two deletes of
  `DocumentsService.remove`.
- `ImportedMeansResolved`: an extraction saved after a confirmation has read the
  previous one.
- `DuplicateNeedsConsent`: two uploads that both pass the hash check.
- `BatchIsSettled`: two first saves of one batch, hence two documents.

Confirmations of one batch may deadlock: an explicit one of rows 2 and 11 updates
them in this order, one that names no row ("what is ready") as the database lists
the texts, 11 before 2, and each may then hold the row the other awaits. PostgreSQL
aborts one, which the client sees as an error; nothing is imported twice or lost by
it. Two explicit confirmations that send their rows in different orders, two such
saves, and a save that meets a confirmation, do the same (`DeadlockTakesTwoOrders`).

The same holds for two properties of calculation that the model restricts:
overlapping calculations leave two results of a metric other than
CARBON_EMISSION (`DoubleMetricsOnlyFromOverlap` says that nothing else does),
and a record says CALCULATED for a place it is no longer in when its province
changed while the calculation ran, or when `bulkUpdateFacility` took its facility,
which leaves status, version and result as they are (`displaced`).

About factor versions, the properties name what the statements without a
transaction allow, and nothing else happens:

- `verifyFactor` deprecates the active version before it verifies its own, so the
  slot has none in between -- for good, when the request stops there
  (`SupersededMeansReplaced`); a calculation meanwhile finds no version.
- Its last statement verifies the row as it is by then: a draft moved or changed
  while it is verified becomes active unreviewed, and a version verified while it
  is edited changes (`ActiveAsReviewed`).
- A source archived while a version that cites it is verified ends up behind an
  active version; no property forbids it, because archiving a source that active
  versions cite is allowed at any time.
- Since the index lets one version of a slot be active, the condition of
  `archiveFactor` ("unless another active version replaces it") never holds for
  an active version that it reads in time; it is met only when the two were
  exchanged between its statements (`ArchivesNoActiveVersion`).
- Two versions of one place with a null and an empty region are one slot to the
  index and two to the queries: the second cannot be verified while the first is
  active, and its verification does not deprecate the first.
- Two updates of a source, each valid, may leave an official one undocumented
  (`OfficialMeansDocumented`, part of `SourcesHold`).

`ConfirmIsIdempotent` needs a storage that returns what it was given: with
`Stored` mapping a content to its rounded form (a quantity with more than four
decimals), repeating a confirmation creates a rowless activity again.

Two more behaviours contradict nothing written: a document
stays in PROCESSING when its JSON is malformed or when the server stops during
an extraction, and two overlapping extractions of one document may leave the
status of one with the rows of the other.

About the choice of a factor, with the ladders as they are:

- The reason is given by the rung, not by the factor: the code reports an exact
  match for a factor without a year, for a legacy factor whose unit was converted
  and, on the nearest-year rung, for a year that is not known. "No
  province-specific factor was available" may be said although there is one in
  another unit or year. `ExplanationHolds` states what remains true.
- An organization's own verified factor of the place is taken first, whatever its
  year. If it is of a prior one, "No exact ... factor was available" is told although
  a governed version of the record's year may be there; it is true of the
  organization's own factors of that place only, and `ExplanationHolds` claims no
  more.
- A factor whose region is the empty text and which is of a place by its jurisdiction
  is found as a factor of that place, and told to be a generic one (`ToldRegion`).
  `ConversionFactorsService.create` stores such a region when it is sent one.
- The searches for another year compare regions without the country.
- The two ladders rank a status differently and disagree about units, countries and
  future years; the second, `getApplicableFactor`, has no caller.
- A prior-year factor of the demo data is not flagged as a pilot default, and
  unverified defaults of the legacy table are used where demo data is not allowed.
- Rounding to thousandths makes 0 of a small quantity in kWh under a factor per
  MWh, and doubles one of 0.0005 without any conversion, since that is rounded to
  0.001 before it is multiplied: at a value of 2000 the result is 2 and not 1
  (`RoundingIsBounded` bounds the error, it does not forbid this).
- Electricity without a province is in no total of usage.

About accounts:

- A link used twice at a time sets two passwords, and a password that was being
  hashed while the link was regenerated uses up the new link: `LinksWorkOnce`
  names both through `raced`, and nothing else does it.
- Inviting a registered customer makes a reviewer of them.
- A token handed out before a reviewer was moved to another workspace is honoured
  again when they are invited back to the first.
- Two invitations at a time may found two workspaces of one name, unless their
  slugs meet.
- The name of a test, `auth/auth.service.spec.ts:816`, says that using a link
  clears its hash; the code, and the test's own expectation, keep the hash and mark
  it used. `UsedLinkSetThePassword` relies on what the code does.

About the boundary and the sample:

- A cleared field is shown as its default text but stored as cleared; saving it
  again, blank, counts as a change and takes the review away.
- Two saves that have both read one version both pass the comparison; the second
  overwrites the first (`contested`). The fingerprint joins its fields with `|`, so
  two boundaries whose texts contain it may look alike.
- Completeness of the sample is a count: two logins at a time leave it twice
  (`CopiesOnlyFromCrowds`); the next login deletes and creates the records, but
  counts a second report as good enough.

Two more observations are about code next to the models: clearing an
organization's data deletes the results of the records it found and then all
records, so a result created in between stays without a record
(`activity-data/activity-data.service.ts:778`; nothing that aggregates reads it),
and two versions created at a time may draw one label, of which the index refuses
the second.

## 6. Plan

Done so far: import with its promise and its loops, staging, calculation with its
ledger, governance, selection and summary, accounts with the boundary and the
sample. What is left, in order of importance:

1. The JSON import of activity records as a second source of `Create`.
2. Under which hypothesis the properties that a run refutes hold, as
   `OneSheetIsImportedInFull` does for one: what would have to be confirmed for
   `ImportedMeansEverything`, and which requests for `ReportsFollowStatus`.

*Not modelled*: reports, feedback, the audit log, activity tracking,
analytics, energy usage, AI jobs, assets and users are single statements on plain
rows, or read-only queries, and no other state depends on their order. Text
heuristics (header recognition, units and dates in cells, the prompt of the
extraction) compute data that the models take as given; formatting of reports and
exports changes no state; bootstrapping, guards of routes and the seeding of the
factor tables run before the first request or decide nothing about it.
