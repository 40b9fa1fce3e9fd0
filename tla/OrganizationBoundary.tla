------------------------ MODULE OrganizationBoundary ------------------------
(***************************************************************************)
(* The reporting boundary of a workspace: OrganizationsService             *)
(* .updateOrganizationProfile saves the profile, counts the versions of    *)
(* its boundary and lets an administrator attest one of them.              *)
(*                                                                         *)
(* A save reads the organization, compares versions and fingerprints with  *)
(* what it has read, and updates the row by its id: nothing is locked and  *)
(* the update does not ask for the version again.                          *)
(***************************************************************************)
EXTENDS Naturals

CONSTANTS
    Requests,     \* HTTP requests; each is made once
    Workspaces,   \* organization ids
    NoWorkspace,
    NoRequest, Answered,
    Names,        \* organization names
    Boundaries,   \* what the other boundary fields can say
    Blank,        \* ... the one with a field cleared that has a default text
    Standard,     \* ... and the one that spells this default text out
    Complete,     \* those that fill in every field a review asks for
    Folded,       \* equal up to case and white space: a representative of each
    Saves         \* what clients send

Fingerprints == Names \X Boundaries

(* boundaryVersion may be left out: 0.                                     *)
Save == [name : Names, boundary : Boundaries, version : Nat, review : BOOLEAN]

Organization ==
    [name : Names, boundary : Boundaries, version : Nat, reviewed : BOOLEAN]

ASSUME BoundaryAssumption ==
    /\ NoWorkspace \notin Workspaces \cup Organization
    /\ NoRequest \notin Requests /\ NoRequest # Answered
    /\ {Blank, Standard} \subseteq Boundaries /\ Complete \subseteq Boundaries
    /\ Folded \in [Boundaries -> Boundaries]
    /\ Standard # Blank /\ \A b \in Boundaries \ {Blank} : Folded[b] # Folded[Blank]
    /\ Saves \subseteq Save

VARIABLES
    organizations,  \* Organization by id; NoWorkspace: no such row
    saves,          \* the save a request is making, and the row it has read; none
                    \* yet, or no more
    shown,          \* history: what was shown of each boundary version, and whether
                    \* the save behind it was a review
    contested       \* history: workspaces saved over a row nobody had read

boundaryVars == <<organizations, saves, shown, contested>>

BoundaryInit ==
    /\ organizations = [w \in Workspaces |-> NoWorkspace]
    /\ saves = [p \in Requests |-> NoRequest]
    /\ shown = {}
    /\ contested = {}

Exists(w) == organizations[w] # NoWorkspace

(* toProfileResponse puts a default text where the row has none.           *)
Displayed(b) == IF b = Blank THEN Standard ELSE b

(* boundaryFingerprint(toProfileResponse(organization))                    *)
Fingerprint(profile) == <<profile.name, Folded[Displayed(profile.boundary)]>>

(* ... and of what the client sends, which is not given any default.       *)
Sent(in) == <<in.name, Folded[in.boundary]>>

Changed(in, seen) == Sent(in) # Fingerprint(seen)

(* (Mistake: a review attests the version that was read, changed or not.)  *)
Saved_ReviewKeepsVersion(row, in, seen) ==
    [name |-> in.name, boundary |-> in.boundary,
     reviewed |-> in.review \/ (row.reviewed /\ ~ Changed(in, seen)),
     version |-> IF in.review THEN seen.version
                 ELSE IF Changed(in, seen) THEN seen.version + 1 ELSE row.version]

(* What the update makes of the row: the profile, and the attestation when *)
(* there is one to write.                                                  *)
Saved(row, in, seen) ==
    [name |-> in.name, boundary |-> in.boundary,
     reviewed |-> in.review \/ (row.reviewed /\ ~ Changed(in, seen)),
     version |-> IF Changed(in, seen) THEN seen.version + 1
                 ELSE IF in.review THEN seen.version ELSE row.version]

Entry(w, o, review) ==
    [ws |-> w, version |-> o.version, what |-> Fingerprint(o), review |-> review]

(* A new organization: the profile is empty, its boundary a first draft.   *)
NewOrganization(n) == [name |-> n, boundary |-> Blank, version |-> 1, reviewed |-> FALSE]

-----------------------------------------------------------------------------
(* The row is read, the version and the fields a review needs are checked. *)
SaveRead(p, w, in) ==
    /\ saves[p] = NoRequest
    /\ Exists(w)
    /\ in.version \in {0, organizations[w].version}
    /\ in.review => in.boundary \in Complete
    /\ saves' = [saves EXCEPT ![p] = [ws |-> w, in |-> in, seen |-> organizations[w]]]
    /\ UNCHANGED <<organizations, shown, contested>>

Saving(p) == saves[p] \notin {NoRequest, Answered}

(* organization.update, then the audit log and the activity event.         *)
SaveWrite(p) ==
    /\ Saving(p)
    /\ LET s == saves[p]
           o == Saved(organizations[s.ws], s.in, s.seen)
       IN  /\ organizations' = [organizations EXCEPT ![s.ws] = o]
           /\ shown' = shown \cup {Entry(s.ws, o, s.in.review)}
           /\ contested' = IF organizations[s.ws] = s.seen THEN contested
                           ELSE contested \cup {s.ws}
    /\ saves' = [saves EXCEPT ![p] = Answered]

(* The request dies, or its update fails.                                  *)
SaveLost(p) ==
    /\ Saving(p)
    /\ saves' = [saves EXCEPT ![p] = Answered]
    /\ UNCHANGED <<organizations, shown, contested>>

-----------------------------------------------------------------------------
BoundaryTypeOK ==
    /\ organizations \in [Workspaces -> Organization \cup {NoWorkspace}]
    /\ saves \in [Requests -> {NoRequest, Answered} \cup
                     [ws : Workspaces, in : Save, seen : Organization]]
    /\ shown \subseteq [ws : Workspaces, version : Nat, what : Fingerprints, review : BOOLEAN]
    /\ contested \subseteq Workspaces
    /\ \A p \in Requests : Saving(p) => Exists(saves[p].ws)

(* A boundary that says REVIEWED shows what was shown when this version of *)
(* it was reviewed, whatever is saved and reviewed in between, as long as  *)
(* no save overwrites one it has not seen.                                 *)
ReviewedAsShown ==
    \A w \in Workspaces \ contested :
        Exists(w) /\ organizations[w].reviewed =>
            Entry(w, organizations[w], TRUE) \in shown

(* A version number names one boundary: two boundaries that read           *)
(* differently never had the same number, under the same condition.        *)
VersionNamesOneBoundary ==
    \A e, f \in shown :
        e.ws = f.ws /\ e.ws \notin contested /\ e.version = f.version => e.what = f.what

(* What a review says of a version can be relied on.                       *)
ReviewsAttestWhatWasShown == ReviewedAsShown /\ VersionNamesOneBoundary
=============================================================================
