---------------------------- MODULE AccountProofs ----------------------------
(***************************************************************************)
(* Theorems about PilotReviewers: what links, memberships, sessions and    *)
(* reviewed boundaries are worth, for any number of accounts, workspaces   *)
(* and requests.                                                           *)
(***************************************************************************)
EXTENDS PilotReviewers, FiniteSetTheorems, TLAPS

-----------------------------------------------------------------------------
(* The sample's own variables keep their types.                            *)

SampleStep ==
    \/ \E p \in Requests, w \in Workspaces, t, f \in BOOLEAN : Sample!SeedBegin(p, w, t, f)
    \/ \E p \in Requests : Sample!SeedStep(p) \/ Sample!SeedEnd(p)
    \/ \E w \in Workspaces : Sample!UserDeletes(w)
    \/ \E P \in SUBSET Requests : Sample!SeedLost(P)
    \/ UNCHANGED sampleVars

LEMMA SampleTyped ==
  ASSUME Sample!SampleTypeOK, SampleStep
  PROVE  Sample!SampleTypeOK'
<1> USE ReviewersAssumption DEF Sample!SampleTypeOK, Sample!Progress, Sample!Seeding, Sample!Steps
<1>1. CASE \E p \in Requests, w \in Workspaces, t, f \in BOOLEAN : Sample!SeedBegin(p, w, t, f)
  BY <1>1 DEF Sample!SeedBegin, Sample!Seeding, Sample!Steps
<1>2. ASSUME NEW p \in Requests, Sample!SeedStep(p) \/ Sample!SeedEnd(p)
      PROVE  Sample!SampleTypeOK'
  <2> USE DEF Sample!Row, Sample!SampleReport, Sample!At, Sample!Seeding, Sample!Steps
  <2>0. ASSUME Sample!Seeding(p)
        PROVE  seeding[p] \in Sample!Progress
    BY <2>0
  <2>1. CASE Sample!SeedCount(p)
    <3>1. Sample!NextStep(p) \in Sample!Steps
      BY DEF Sample!NextStep
    <3> QED BY <2>0, <2>1, <3>1 DEF Sample!SeedCount, Sample!GoTo
  <2>2. CASE Sample!SeedDelete(p)
    <3>1. Sample!InView(p) \subseteq samples
      BY DEF Sample!InView, Sample!Visible
    <3> QED BY <2>0, <2>2, <3>1 DEF Sample!SeedDelete, Sample!GoTo
  <2>3. CASE Sample!SeedCreate(p)
    BY <2>0, <2>3 DEF Sample!SeedCreate, Sample!GoTo
  <2>4. CASE Sample!ReportCount(p)
    BY <2>0, <2>4 DEF Sample!ReportCount, Sample!GoTo
  <2>5. CASE Sample!ReportCreate(p)
    BY <2>0, <2>5 DEF Sample!ReportCreate, Sample!GoTo
  <2>6. CASE Sample!SeedEnd(p)
    BY <2>0, <2>6 DEF Sample!SeedEnd
  <2> QED BY <1>2, <2>1, <2>2, <2>3, <2>4, <2>5, <2>6 DEF Sample!SeedStep
<1>3. CASE \E w \in Workspaces : Sample!UserDeletes(w)
  BY <1>3 DEF Sample!UserDeletes, Sample!Committed, Sample!SeedingIn, Sample!Seeding
<1>4. CASE \E P \in SUBSET Requests : Sample!SeedLost(P)
  BY <1>4 DEF Sample!SeedLost, Sample!Seeding
<1>5. CASE UNCHANGED sampleVars
  BY <1>5 DEF sampleVars, Sample!Seeding
<1> QED BY <1>1, <1>2, <1>3, <1>4, <1>5 DEF SampleStep

-----------------------------------------------------------------------------
(* What a request has in its variables between two of its steps.           *)

RequestOK(p) ==
    LET j == job[p]
    IN  /\ pc[p] = "idle" => j = NoJob
        /\ pc[p] \in {"founding", "inviting", "joining", "hashing", "comparing",
                       "deactivating", "regenerating"} => j.user \in Reviewers
        /\ pc[p] \in {"inviting", "joining", "seeding", "hashing", "comparing"} =>
              j.ws \in Workspaces
        /\ pc[p] \in {"hashing", "comparing", "deactivating", "regenerating"} => Known(j.user)
        /\ pc[p] \in {"hashing", "comparing"} => j.secret \in Requests /\ j.seen \in Account
        /\ pc[p] = "hashing" => j.seen.link = j.secret /\ ~ j.seen.used
        /\ p \in open => pc[p] = "seeding" /\ j.user \in Reviewers
        /\ pc[p] = "seeding" /\ j.secret # NoRequest => j.user \in Reviewers

AccountInv == TypeOK /\ \A p \in Requests : RequestOK(p)

(* The types of the variables that are not the sample's.                   *)
AccountTypes ==
    /\ BoundaryTypeOK
    /\ accounts \in [Reviewers -> Account \cup {NoUser}]
    /\ members \subseteq Member
    /\ pc \in [Requests -> {"idle", "founding", "inviting", "joining", "seeding", "hashing",
                            "comparing", "deactivating", "regenerating", "done"}]
    /\ job \in [Requests -> Job]
    /\ sessions \subseteq [user : Reviewers, ws : Workspaces, secret : Requests]
    /\ written \subseteq [link : Requests, by : Requests]
    /\ raced \subseteq Reviewers
    /\ \A u \in Reviewers : Known(u) => Exists(accounts[u].ws)

LEMMA TypeSplit == TypeOK <=> AccountTypes /\ Sample!SampleTypeOK
BY DEF TypeOK, AccountTypes

(* What a step that keeps the accounts and their workspaces has to show.   *)
Typed == AccountTypes /\ \A p \in Requests : RequestOK(p)

LEMMA StartTyped ==
  ASSUME Typed, NEW p \in Requests, NEW u \in Reviewers,
         NEW step \in {"founding", "inviting", "hashing", "comparing", "deactivating",
                       "regenerating"},
         NEW w \in Workspaces \cup {NoWorkspace}, NEW n \in Names, NEW secret \in Secrets,
         Start(p, step, u, w, n, secret), UNCHANGED <<boundaryVars, accountVars, sampleVars>>,
         step # "founding" => w \in Workspaces,
         step \in {"hashing", "comparing", "deactivating", "regenerating"} => Known(u),
         step \in {"hashing", "comparing"} => secret \in Requests,
         step = "hashing" => accounts[u].link = secret /\ ~ accounts[u].used
  PROVE  Typed'
<1>1. /\ pc' = [pc EXCEPT ![p] = step]
      /\ job' = [job EXCEPT ![p] = [user |-> u, ws |-> w, name |-> n, secret |-> secret,
                                    seen |-> accounts[u], replaces |-> {}]]
      /\ pc[p] = "idle"
  BY DEF Start, Idle
<1>2. accounts[u] \in Account \cup {NoUser}
  BY DEF Typed, AccountTypes
<1>3. job' \in [Requests -> Job]
  BY <1>1, <1>2 DEF Typed, AccountTypes, Job
<1>4. /\ UNCHANGED <<organizations, saves, shown, contested, accounts, members, sessions,
                     written, raced, open>>
  BY DEF boundaryVars, accountVars, sampleVars
<1>5. AccountTypes'
  BY <1>1, <1>3, <1>4 DEF Typed, AccountTypes, BoundaryTypeOK, Known, Exists, Saving
<1>6. ASSUME NEW q \in Requests
      PROVE  RequestOK(q)'
  <2>1. CASE q = p
    <3>1. /\ pc'[p] = step
          /\ job'[p] = [user |-> u, ws |-> w, name |-> n, secret |-> secret,
                        seen |-> accounts[u], replaces |-> {}]
      BY <1>1 DEF Typed, AccountTypes
    <3>2. p \notin open
      BY <1>1 DEF Typed, RequestOK
    <3> QED BY <1>2, <1>4, <2>1, <3>1, <3>2 DEF RequestOK, Known
  <2>2. CASE q # p
    <3>1. pc'[q] = pc[q] /\ job'[q] = job[q]
      BY <1>1, <2>2 DEF Typed, AccountTypes
    <3> QED BY <1>4, <3>1 DEF Typed, RequestOK, Known
  <2> QED BY <2>1, <2>2
<1> QED BY <1>5, <1>6 DEF Typed

(* A request that is answered, and what of it is remembered.               *)
LEMMA EndJob ==
  ASSUME AccountTypes, NEW p \in Requests, NEW w \in Workspaces \cup {NoWorkspace},
         NEW secret \in Secrets
  PROVE  /\ About(p, w, secret) \in Job
         /\ About(p, w, secret).user = job[p].user
         /\ About(p, w, secret).ws = w
         /\ About(p, w, secret).secret = secret
         /\ About(p, w, secret).seen = NoUser
         /\ End(p, w, secret) =>
               /\ pc' = [pc EXCEPT ![p] = "done"] /\ pc'[p] = "done"
               /\ job' = [job EXCEPT ![p] = About(p, w, secret)]
               /\ job'[p] = About(p, w, secret)
               /\ job' \in [Requests -> Job]
               /\ \A q \in Requests \ {p} : pc'[q] = pc[q] /\ job'[q] = job[q]
<1> USE ReviewersAssumption
<1>1. job[p] \in Job
  BY DEF AccountTypes
<1>2. job[p].user \in Reviewers \cup {NoUser}
  BY <1>1 DEF Job
<1>3. /\ About(p, w, secret) \in Job
      /\ About(p, w, secret).user = job[p].user
      /\ About(p, w, secret).ws = w
      /\ About(p, w, secret).secret = secret
      /\ About(p, w, secret).seen = NoUser
  BY <1>2 DEF About, NoJob, Job
<1> QED BY <1>3 DEF End, AccountTypes

(* A step of one request leaves the others as they were.                   *)
LEMMA OneRequest ==
  ASSUME Typed, NEW p \in Requests, AccountTypes',
         \A q \in Requests \ {p} : pc'[q] = pc[q] /\ job'[q] = job[q],
         \A q \in Requests \ {p} : q \in open' => q \in open,
         \A u \in Reviewers : Known(u) => accounts'[u] # NoUser,
         RequestOK(p)'
  PROVE  Typed'
<1>1. ASSUME NEW q \in Requests
      PROVE  RequestOK(q)'
  <2>1. CASE q = p
    BY <2>1
  <2>2. CASE q # p
    <3>1. pc'[q] = pc[q] /\ job'[q] = job[q] /\ (q \in open' => q \in open)
      BY <2>2
    <3>2. RequestOK(q)
      BY DEF Typed
    <3>3. pc[q] \in {"hashing", "comparing", "deactivating", "regenerating"} =>
             accounts'[job[q].user] # NoUser
      BY <3>2 DEF RequestOK, Known
    <3>6. pc'[q] \in {"hashing", "comparing", "deactivating", "regenerating"} =>
             Known(job[q].user)'
      BY <3>1, <3>3 DEF Known
    <3> QED BY <3>1, <3>2, <3>6 DEF RequestOK
  <2> QED BY <2>1, <2>2
<1> QED BY <1>1 DEF Typed

(* An answered request has nothing to show.                                *)
LEMMA Answers ==
  ASSUME NEW p \in Requests, pc[p] = "done", p \notin open
  PROVE  RequestOK(p)
BY DEF RequestOK

(* Boundaries keep their types, and a workspace that exists goes on to.    *)
Lasting == \A w \in Workspaces : Exists(w) => organizations'[w] # NoWorkspace

LEMMA Founded ==
  ASSUME BoundaryTypeOK, NEW w \in Workspaces, NEW n \in Names, ~ Exists(w),
         organizations' = [organizations EXCEPT ![w] = NewOrganization(n)],
         shown' = shown \cup {Entry(w, NewOrganization(n), FALSE)},
         UNCHANGED <<saves, contested>>
  PROVE  BoundaryTypeOK' /\ Lasting /\ organizations'[w] # NoWorkspace
<1> USE BoundaryAssumption DEF BoundaryTypeOK
<1>1. NewOrganization(n) \in Organization
  BY DEF NewOrganization, Organization
<1>2. organizations'[w] = NewOrganization(n)
  OBVIOUS
<1>3. organizations'[w] # NoWorkspace
  BY <1>1, <1>2
<1>4. Lasting
  BY <1>3 DEF Lasting, Exists
<1>5. Entry(w, NewOrganization(n), FALSE) \in
         [ws : Workspaces, version : Nat, what : Fingerprints, review : BOOLEAN]
  BY DEF Entry, NewOrganization, Fingerprint, Fingerprints, Displayed
<1>6. ASSUME NEW p \in Requests, Saving(p)'
      PROVE  organizations'[saves'[p].ws] # NoWorkspace
  <2>1. Saving(p) /\ saves'[p] = saves[p]
    BY <1>6 DEF Saving
  <2>2. saves[p].ws \in Workspaces /\ Exists(saves[p].ws)
    BY <2>1 DEF Saving
  <2> QED BY <2>1, <2>2, <1>4 DEF Lasting
<1> QED BY <1>1, <1>3, <1>4, <1>5, <1>6 DEF Exists

LEMMA SavedOK ==
  ASSUME NEW row \in Organization, NEW in \in Save, NEW seen \in Organization
  PROVE  Saved(row, in, seen) \in Organization
<1>1. row.version \in Nat /\ seen.version \in Nat /\ seen.version + 1 \in Nat
  BY DEF Organization
<1>2. in.name \in Names /\ in.boundary \in Boundaries
  BY DEF Save
<1>3. Changed(in, seen) \in BOOLEAN
  BY DEF Changed
<1>4. /\ Saved(row, in, seen).version \in Nat
      /\ DOMAIN Saved(row, in, seen) = {"name", "boundary", "reviewed", "version"}
  BY <1>1 DEF Saved
<1>5. (in.review \/ (row.reviewed /\ ~ Changed(in, seen))) \in BOOLEAN
  OBVIOUS
<1>6. (IF Changed(in, seen) THEN seen.version + 1
       ELSE IF in.review THEN seen.version ELSE row.version) \in Nat
  BY <1>1
<1> HIDE DEF Changed
<1> QED BY <1>2, <1>5, <1>6 DEF Saved, Organization

LEMMA SavingOK ==
  ASSUME BoundaryTypeOK, NEW p \in Requests,
         (\E w \in Workspaces, in \in Saves : SaveRead(p, w, in)) \/ SaveWrite(p) \/ SaveLost(p)
  PROVE  BoundaryTypeOK' /\ Lasting
<1> USE BoundaryAssumption DEF BoundaryTypeOK
<1>1. ASSUME NEW w \in Workspaces, NEW in \in Saves, SaveRead(p, w, in)
      PROVE  BoundaryTypeOK' /\ Lasting
  <2>1. organizations[w] \in Organization
    BY <1>1 DEF SaveRead, Exists
  <2>2. [ws |-> w, in |-> in, seen |-> organizations[w]] \in
           [ws : Workspaces, in : Save, seen : Organization]
    BY <2>1
  <2>3. ASSUME NEW q \in Requests, Saving(q)'
        PROVE  organizations'[saves'[q].ws] # NoWorkspace
    <3>1. CASE q = p
      BY <3>1, <1>1, <2>2 DEF SaveRead, Exists
    <3>2. CASE q # p
      BY <3>2, <2>3, <1>1 DEF SaveRead, Exists, Saving
    <3> QED BY <3>1, <3>2
  <2>4. UNCHANGED <<organizations, shown, contested>>
    BY <1>1 DEF SaveRead
  <2>5. saves' \in [Requests -> {NoRequest, Answered} \cup
                     [ws : Workspaces, in : Save, seen : Organization]]
    BY <1>1, <2>2 DEF SaveRead
  <2> QED BY <2>3, <2>4, <2>5 DEF Lasting, Exists
<1>2. CASE SaveWrite(p)
  <2> DEFINE s == saves[p]
             o == Saved(organizations[s.ws], s.in, s.seen)
  <2>1. s \in [ws : Workspaces, in : Save, seen : Organization]
    BY <1>2 DEF SaveWrite, Saving
  <2>2. organizations[s.ws] \in Organization
    BY <1>2, <2>1 DEF SaveWrite, Saving, Exists
  <2>3. o \in Organization
    BY <2>1, <2>2, SavedOK
  <2>4. /\ organizations' = [organizations EXCEPT ![s.ws] = o]
        /\ shown' = shown \cup {Entry(s.ws, o, s.in.review)}
        /\ contested' \subseteq contested \cup {s.ws}
        /\ saves' = [saves EXCEPT ![p] = Answered]
    BY <1>2 DEF SaveWrite
  <2> HIDE DEF o, s
  <2>5. s.in.review \in BOOLEAN /\ s.ws \in Workspaces
    BY <2>1 DEF Save
  <2>6. Entry(s.ws, o, s.in.review) \in
         [ws : Workspaces, version : Nat, what : Fingerprints, review : BOOLEAN]
    BY <2>3, <2>5 DEF Entry, Organization, Fingerprint, Fingerprints, Displayed
  <2>7. o # NoWorkspace
    BY <2>3
  <2>8. Lasting
    BY <2>4, <2>5, <2>7 DEF Lasting, Exists
  <2>9. ASSUME NEW q \in Requests, Saving(q)'
        PROVE  organizations'[saves'[q].ws] # NoWorkspace
    <3>1. Saving(q) /\ saves'[q] = saves[q]
      BY <2>9, <2>4 DEF Saving
    <3>2. saves[q].ws \in Workspaces /\ Exists(saves[q].ws)
      BY <3>1 DEF Saving
    <3> QED BY <3>1, <3>2, <2>8 DEF Lasting
  <2> QED BY <2>3, <2>4, <2>5, <2>6, <2>8, <2>9 DEF Exists
<1>3. CASE SaveLost(p)
  BY <1>3 DEF SaveLost, Lasting, Exists, Saving
<1> QED BY <1>1, <1>2, <1>3

(* The types after a step, by what it does to the accounts.                *)
LEMMA AccountsKept ==
  ASSUME AccountTypes, BoundaryTypeOK', Lasting, UNCHANGED accounts
  PROVE  /\ accounts' \in [Reviewers -> Account \cup {NoUser}]
         /\ \A u \in Reviewers : Known(u) => accounts'[u] # NoUser
         /\ \A u \in Reviewers : Known(u)' => Exists(accounts[u].ws)'
<1>1. ASSUME NEW u \in Reviewers, Known(u)
      PROVE  accounts[u].ws \in Workspaces /\ Exists(accounts[u].ws)
  <2>1. accounts[u] \in Account
    BY <1>1 DEF AccountTypes, Known
  <2> QED BY <1>1, <2>1 DEF AccountTypes, Account
<1> QED BY <1>1 DEF Lasting, AccountTypes, Known, Exists

LEMMA AccountWritten ==
  ASSUME AccountTypes, BoundaryTypeOK', Lasting, NEW u \in Reviewers, NEW a \in Account,
         accounts' = [accounts EXCEPT ![u] = a], organizations'[a.ws] # NoWorkspace
  PROVE  /\ accounts' \in [Reviewers -> Account \cup {NoUser}]
         /\ \A v \in Reviewers : Known(v) => accounts'[v] # NoUser
         /\ \A v \in Reviewers : Known(v)' => Exists(accounts[v].ws)'
<1>1. accounts' \in [Reviewers -> Account \cup {NoUser}] /\ accounts'[u] = a /\ a # NoUser
  BY ReviewersAssumption DEF AccountTypes
<1>2. ASSUME NEW v \in Reviewers, v # u
      PROVE  accounts'[v] = accounts[v]
  BY <1>2 DEF AccountTypes
<1>3. ASSUME NEW v \in Reviewers, Known(v)
      PROVE  accounts[v].ws \in Workspaces /\ Exists(accounts[v].ws)
  <2>1. accounts[v] \in Account
    BY <1>3 DEF AccountTypes, Known
  <2> QED BY <1>3, <2>1 DEF AccountTypes, Account
<1> QED BY <1>1, <1>2, <1>3 DEF Lasting, Known, Exists

-----------------------------------------------------------------------------
(* The steps of an invitation keep the types.                              *)

LEMMA InvitingTyped ==
  ASSUME Typed, NEW p \in Requests,
         \/ \E u \in Reviewers, n \in Names : InviteFind(p, u, n)
         \/ InviteFound(p) \/ InviteWrite(p) \/ InviteJoin(p)
  PROVE  Typed'
<1> USE ReviewersAssumption
<1>0. RequestOK(p) /\ job[p] \in Job /\ BoundaryTypeOK
  BY DEF Typed, AccountTypes
<1>1. ASSUME NEW u \in Reviewers, NEW n \in Names, InviteFind(p, u, n)
      PROVE  Typed'
  <2>0. p \in Secrets /\ UNCHANGED <<boundaryVars, accountVars, sampleVars>>
    BY <1>1 DEF Secrets, InviteFind
  <2>1. ASSUME NEW w \in Workspaces, Start(p, "inviting", u, w, n, p)
        PROVE  Typed'
    <3>1. w \in Workspaces \cup {NoWorkspace}
      OBVIOUS
    <3> QED BY <2>0, <2>1, <3>1, StartTyped
  <2>2. CASE Start(p, "founding", u, NoWorkspace, n, p)
    <3>1. NoWorkspace \in Workspaces \cup {NoWorkspace}
      OBVIOUS
    <3> QED BY <2>0, <2>2, <3>1, StartTyped
  <2> QED BY <1>1, <2>1, <2>2 DEF InviteFind
<1>2. ASSUME UNCHANGED <<boundaryVars, accountVars>>,
             pc' \in [Requests -> {"idle", "founding", "inviting", "joining", "seeding",
                        "hashing", "comparing", "deactivating", "regenerating", "done"}],
             job' \in [Requests -> Job]
      PROVE  AccountTypes' /\ \A u \in Reviewers : Known(u) => accounts'[u] # NoUser
  BY <1>2 DEF Typed, AccountTypes, BoundaryTypeOK, boundaryVars, accountVars, Known, Exists, Saving
<1>3. CASE InviteFound(p)
  <2>0. UNCHANGED <<boundaryVars, accountVars>> /\ open' = open /\ p \notin open
    BY <1>3, <1>0 DEF InviteFound, sampleVars, RequestOK
  <2>1. ASSUME NEW w \in Workspaces,
               job' = [job EXCEPT ![p].ws = w, ![p].seen = accounts[job[p].user]],
               pc' = [pc EXCEPT ![p] = "inviting"]
        PROVE  Typed'
    <3>1. job[p].user \in Reviewers
      BY <1>0, <1>3 DEF RequestOK, InviteFound
    <3>2. accounts[job[p].user] \in Account \cup {NoUser}
      BY <3>1 DEF Typed, AccountTypes
    <3>3. job'[p] = [job[p] EXCEPT !.ws = w, !.seen = accounts[job[p].user]] /\ job'[p] \in Job
      BY <2>1, <3>2, <1>0 DEF Job, Typed, AccountTypes
    <3>4. job' \in [Requests -> Job]
      BY <2>1, <3>3 DEF Typed, AccountTypes
    <3>5. pc'[p] = "inviting" /\ job'[p].user = job[p].user /\ job'[p].ws = w
      BY <2>1, <3>3, <1>0 DEF Typed, AccountTypes, Job
    <3>6. AccountTypes' /\ \A u \in Reviewers : Known(u) => accounts'[u] # NoUser
      BY <1>2, <2>0, <2>1, <3>4 DEF Typed, AccountTypes
    <3>7. RequestOK(p)'
      BY <3>5, <3>1, <2>0 DEF RequestOK
    <3>8. \A q \in Requests \ {p} : pc'[q] = pc[q] /\ job'[q] = job[q]
      BY <2>1 DEF Typed, AccountTypes
    <3> QED BY <3>6, <3>7, <3>8, <2>0, OneRequest
  <2>2. CASE End(p, job[p].ws, p)
    <3>1. job[p].ws \in Workspaces \cup {NoWorkspace} /\ p \in Secrets
      BY <1>0 DEF Job, Secrets
    <3>2. /\ pc' = [pc EXCEPT ![p] = "done"] /\ pc'[p] = "done" /\ job' \in [Requests -> Job]
          /\ \A q \in Requests \ {p} : pc'[q] = pc[q] /\ job'[q] = job[q]
      BY <2>2, <3>1, EndJob DEF Typed
    <3>3. AccountTypes' /\ \A u \in Reviewers : Known(u) => accounts'[u] # NoUser
      BY <1>2, <2>0, <3>2 DEF Typed, AccountTypes
    <3> QED BY <2>0, <3>2, <3>3, Answers, OneRequest DEF RequestOK
  <2> QED BY <1>3, <2>1, <2>2 DEF InviteFound
<1>4. CASE InviteWrite(p)
  <2>0. UNCHANGED <<boundaryVars, accountVars>> /\ open' = open /\ p \notin open
    BY <1>4, <1>0 DEF InviteWrite, sampleVars, RequestOK
  <2>1. CASE End(p, job[p].ws, p)
    <3>1. job[p].ws \in Workspaces \cup {NoWorkspace} /\ p \in Secrets
      BY <1>0 DEF Job, Secrets
    <3>2. /\ pc' = [pc EXCEPT ![p] = "done"] /\ pc'[p] = "done" /\ job' \in [Requests -> Job]
          /\ \A q \in Requests \ {p} : pc'[q] = pc[q] /\ job'[q] = job[q]
      BY <2>1, <3>1, EndJob DEF Typed
    <3>3. AccountTypes' /\ \A u \in Reviewers : Known(u) => accounts'[u] # NoUser
      BY <1>2, <2>0, <3>2 DEF Typed, AccountTypes
    <3> QED BY <2>0, <3>2, <3>3, OneRequest DEF RequestOK
  <2>2. CASE Goto(p, "joining")
    <3>1. /\ pc' = [pc EXCEPT ![p] = "joining"] /\ pc'[p] = "joining" /\ job' = job
          /\ \A q \in Requests \ {p} : pc'[q] = pc[q] /\ job'[q] = job[q]
      BY <2>2 DEF Goto, Typed, AccountTypes
    <3>2. AccountTypes' /\ \A u \in Reviewers : Known(u) => accounts'[u] # NoUser
      BY <1>2, <2>0, <3>1 DEF Typed, AccountTypes
    <3>3. RequestOK(p)'
      BY <1>0, <1>4, <2>0, <3>1 DEF RequestOK, InviteWrite
    <3> QED BY <2>0, <3>1, <3>2, <3>3, OneRequest
  <2> QED BY <1>4, <2>1, <2>2 DEF InviteWrite
<1>5. CASE InviteJoin(p)
  <2>0. UNCHANGED <<boundaryVars, accountVars>> /\ open' = open \cup {p}
    BY <1>5 DEF InviteJoin, Sample!SeedBegin
  <2>1. /\ pc' = [pc EXCEPT ![p] = "seeding"] /\ pc'[p] = "seeding"
        /\ job' = [job EXCEPT ![p].replaces = {m \in members : m.user = job[p].user}]
        /\ \A q \in Requests \ {p} : pc'[q] = pc[q] /\ job'[q] = job[q]
    BY <1>5 DEF InviteJoin, Typed, AccountTypes
  <2>2. {m \in members : m.user = job[p].user} \subseteq Member
    BY DEF Typed, AccountTypes
  <2>3. job'[p] = [job[p] EXCEPT !.replaces = {m \in members : m.user = job[p].user}]
    BY <2>1 DEF Typed, AccountTypes
  <2>4. job'[p] \in Job /\ job'[p].user = job[p].user /\ job'[p].ws = job[p].ws
    BY <2>2, <2>3, <1>0 DEF Job
  <2>5. job' \in [Requests -> Job]
    BY <2>1, <2>4 DEF Typed, AccountTypes
  <2>6. AccountTypes' /\ \A u \in Reviewers : Known(u) => accounts'[u] # NoUser
    BY <1>2, <2>0, <2>1, <2>5 DEF Typed, AccountTypes
  <2>7. RequestOK(p)'
    BY <1>0, <1>5, <2>1, <2>4 DEF RequestOK, InviteJoin
  <2> QED BY <2>0, <2>1, <2>6, <2>7, OneRequest
<1> QED BY <1>1, <1>3, <1>4, <1>5

(* The commit of an invitation: the account and its workspace.             *)
LEMMA CommitTyped ==
  ASSUME Typed, NEW p \in Requests, InviteCommit(p)
  PROVE  Typed'
<1> USE ReviewersAssumption
<1> DEFINE w == job[p].ws
           u == job[p].user
           o == NewOrganization(job[p].name)
<1>0. RequestOK(p) /\ job[p] \in Job /\ BoundaryTypeOK /\ AccountTypes
  BY DEF Typed, AccountTypes
<1>1. u \in Reviewers /\ w \in Workspaces /\ job[p].name \in Names
  BY <1>0 DEF InviteCommit, RequestOK, Job
<1>2. /\ accounts' = [accounts EXCEPT ![u] = Invited(p, accounts[u])]
      /\ members' = (members \ job[p].replaces) \cup {[user |-> u, ws |-> w, by |-> p]}
      /\ IF Exists(w) THEN UNCHANGED <<organizations, shown>>
         ELSE /\ organizations' = [organizations EXCEPT ![w] = o]
              /\ shown' = shown \cup {Entry(w, o, FALSE)}
      /\ UNCHANGED <<saves, contested, sessions, written, raced>>
      /\ End(p, w, p) /\ open' = open \ {p}
  BY DEF InviteCommit, Sample!SeedEnd
<1>3. BoundaryTypeOK' /\ Lasting /\ organizations'[w] # NoWorkspace
  <2>1. CASE Exists(w)
    BY <1>0, <1>2, <2>1 DEF BoundaryTypeOK, Lasting, Exists, Saving
  <2>2. CASE ~ Exists(w)
    BY <1>0, <1>1, <1>2, <2>2, Founded
  <2> QED BY <2>1, <2>2
<1>4. Invited(p, accounts[u]) \in Account /\ Invited(p, accounts[u]).ws = w
  BY <1>1 DEF Invited, Account, Secrets
<1>5. /\ accounts' \in [Reviewers -> Account \cup {NoUser}]
      /\ \A v \in Reviewers : Known(v) => accounts'[v] # NoUser
      /\ \A v \in Reviewers : Known(v)' => Exists(accounts[v].ws)'
  <2> DEFINE a == Invited(p, accounts[u])
  <2>1. a \in Account /\ a.ws = w /\ accounts' = [accounts EXCEPT ![u] = a]
    BY <1>2, <1>4
  <2> HIDE DEF a, u, w
  <2> QED BY <1>0, <1>1, <1>3, <2>1, AccountWritten
<1>6. members' \subseteq Member
  BY <1>0, <1>1, <1>2 DEF AccountTypes, Member
<1>7. p \in Secrets /\ w \in Workspaces \cup {NoWorkspace}
  BY <1>1 DEF Secrets
<1>8. /\ pc' = [pc EXCEPT ![p] = "done"] /\ pc'[p] = "done" /\ job' \in [Requests -> Job]
      /\ \A q \in Requests \ {p} : pc'[q] = pc[q] /\ job'[q] = job[q]
  BY <1>0, <1>2, <1>7, EndJob
<1>9. AccountTypes'
  BY <1>0, <1>2, <1>3, <1>5, <1>6, <1>8 DEF AccountTypes
<1>10. RequestOK(p)'
  BY <1>2, <1>8 DEF RequestOK
<1> QED BY <1>2, <1>5, <1>8, <1>9, <1>10, OneRequest

(* A customer registers.                                                   *)
LEMMA RegisterTyped ==
  ASSUME Typed, NEW p \in Requests, NEW u \in Reviewers, NEW n \in Names, NEW w \in Workspaces,
         Register(p, u, n, w)
  PROVE  Typed'
<1> USE ReviewersAssumption
<1> DEFINE a == [ws |-> w, pilot |-> FALSE, active |-> TRUE, ended |-> FALSE,
                 password |-> p, link |-> NoRequest, lapsed |-> FALSE, used |-> FALSE]
<1>0. RequestOK(p) /\ job[p] \in Job /\ BoundaryTypeOK /\ AccountTypes /\ open' = open
  BY DEF Typed, AccountTypes, Register, sampleVars
<1>1. BoundaryTypeOK' /\ Lasting /\ organizations'[w] # NoWorkspace
  BY <1>0, Founded DEF Register
<1>2. a \in Account /\ a.ws = w
  BY DEF Account, Secrets
<1>3. /\ accounts' \in [Reviewers -> Account \cup {NoUser}]
      /\ \A v \in Reviewers : Known(v) => accounts'[v] # NoUser
      /\ \A v \in Reviewers : Known(v)' => Exists(accounts[v].ws)'
  <2>1. accounts' = [accounts EXCEPT ![u] = a]
    BY DEF Register
  <2> HIDE DEF a
  <2> QED BY <1>0, <1>1, <1>2, <2>1, AccountWritten
<1>4. /\ pc[p] = "idle" /\ pc' = [pc EXCEPT ![p] = "done"] /\ pc'[p] = "done"
      /\ job' = [job EXCEPT ![p].user = u, ![p].ws = w]
      /\ \A q \in Requests \ {p} : pc'[q] = pc[q] /\ job'[q] = job[q]
  BY <1>0 DEF Register, Idle, AccountTypes
<1>5. job'[p] = [job[p] EXCEPT !.user = u, !.ws = w]
  BY <1>0, <1>4 DEF AccountTypes
<1>6. job'[p] \in Job
  BY <1>0, <1>5 DEF Job
<1>7. job' \in [Requests -> Job]
  BY <1>0, <1>4, <1>6 DEF AccountTypes
<1>8. /\ sessions' \subseteq [user : Reviewers, ws : Workspaces, secret : Requests]
      /\ UNCHANGED <<members, written, raced>>
  BY <1>0 DEF Register, AccountTypes
<1>9. AccountTypes'
  BY <1>0, <1>1, <1>3, <1>4, <1>7, <1>8 DEF AccountTypes
<1>10. RequestOK(p)'
  BY <1>0, <1>4 DEF RequestOK
<1> QED BY <1>0, <1>3, <1>4, <1>9, <1>10, OneRequest

-----------------------------------------------------------------------------
(* The steps about an account that exists keep the types.                  *)

DataTypes ==
    /\ BoundaryTypeOK
    /\ accounts \in [Reviewers -> Account \cup {NoUser}]
    /\ members \subseteq Member
    /\ sessions \subseteq [user : Reviewers, ws : Workspaces, secret : Requests]
    /\ written \subseteq [link : Requests, by : Requests]
    /\ raced \subseteq Reviewers
    /\ \A u \in Reviewers : Known(u) => Exists(accounts[u].ws)

Staying == \A u \in Reviewers : Known(u) => accounts'[u] # NoUser

LEMMA EndTyped ==
  ASSUME Typed, NEW p \in Requests, NEW w \in Workspaces \cup {NoWorkspace},
         NEW secret \in Secrets, End(p, w, secret), p \notin open',
         \A q \in Requests \ {p} : q \in open' => q \in open,
         DataTypes', Staying
  PROVE  Typed'
<1>1. /\ pc' = [pc EXCEPT ![p] = "done"] /\ pc'[p] = "done" /\ job' \in [Requests -> Job]
      /\ \A q \in Requests \ {p} : pc'[q] = pc[q] /\ job'[q] = job[q]
  BY EndJob DEF Typed
<1>2. AccountTypes'
  BY <1>1 DEF Typed, AccountTypes, DataTypes
<1>3. RequestOK(p)'
  BY <1>1 DEF RequestOK
<1> QED BY <1>1, <1>2, <1>3, OneRequest DEF Staying

LEMMA SeedingTyped ==
  ASSUME Typed, NEW p \in Requests, NEW w \in Workspaces, NEW secret \in Secrets,
         pc' = [pc EXCEPT ![p] = "seeding"], job' = [job EXCEPT ![p] = About(p, w, secret)],
         job[p].user \in Reviewers, p \notin open, open' = open,
         DataTypes', Staying
  PROVE  Typed'
<1>1. /\ About(p, w, secret) \in Job
      /\ About(p, w, secret).user = job[p].user
      /\ About(p, w, secret).ws = w
  <2>2. job[p].user \in Reviewers \cup {NoUser}
    OBVIOUS
  <2> QED BY <2>2, ReviewersAssumption DEF About, NoJob, Job
<1>2. /\ pc'[p] = "seeding" /\ job'[p] = About(p, w, secret)
      /\ \A q \in Requests \ {p} : pc'[q] = pc[q] /\ job'[q] = job[q]
      /\ job' \in [Requests -> Job]
  BY <1>1 DEF Typed, AccountTypes
<1>3. AccountTypes'
  BY <1>2 DEF Typed, AccountTypes, DataTypes
<1>4. RequestOK(p)'
  BY <1>1, <1>2 DEF RequestOK
<1> QED BY <1>2, <1>3, <1>4, OneRequest DEF Staying

(* A step that changes one account, not its workspace.                     *)
LEMMA OneAccount ==
  ASSUME Typed, NEW u \in Reviewers, Known(u), NEW a \in Account, a.ws = accounts[u].ws,
         accounts' = [accounts EXCEPT ![u] = a], UNCHANGED <<boundaryVars, members>>,
         sessions' \subseteq [user : Reviewers, ws : Workspaces, secret : Requests],
         written' \subseteq [link : Requests, by : Requests],
         raced' \subseteq Reviewers
  PROVE  DataTypes' /\ Staying
<1>1. BoundaryTypeOK' /\ Lasting
  BY DEF Typed, AccountTypes, BoundaryTypeOK, boundaryVars, Saving, Exists, Lasting
<1>2. organizations'[a.ws] # NoWorkspace
  BY DEF Typed, AccountTypes, boundaryVars, Exists
<1>3. /\ accounts' \in [Reviewers -> Account \cup {NoUser}]
      /\ \A v \in Reviewers : Known(v) => accounts'[v] # NoUser
      /\ \A v \in Reviewers : Known(v)' => Exists(accounts[v].ws)'
  BY <1>1, <1>2, AccountWritten DEF Typed
<1> QED BY <1>1, <1>3 DEF DataTypes, Staying, Typed, AccountTypes

(* ... and one that changes none.                                          *)
LEMMA NoAccount ==
  ASSUME Typed, UNCHANGED <<accounts, members, written, raced>>, BoundaryTypeOK', Lasting,
         sessions' \subseteq [user : Reviewers, ws : Workspaces, secret : Requests]
  PROVE  DataTypes' /\ Staying
<1>1. /\ accounts' \in [Reviewers -> Account \cup {NoUser}]
      /\ \A v \in Reviewers : Known(v) => accounts'[v] # NoUser
      /\ \A v \in Reviewers : Known(v)' => Exists(accounts[v].ws)'
  BY AccountsKept DEF Typed
<1> QED BY <1>1 DEF DataTypes, Staying, Typed, AccountTypes

LEMMA SameBoundary ==
  ASSUME Typed, UNCHANGED boundaryVars
  PROVE  BoundaryTypeOK' /\ Lasting
BY DEF Typed, AccountTypes, BoundaryTypeOK, boundaryVars, Saving, Exists, Lasting

LEMMA ReadsTyped ==
  ASSUME Typed, NEW p \in Requests, NEW u \in Reviewers,
         \/ DeactivateRead(p, u) \/ RegenerateRead(p, u) \/ LoginRead(p, u)
         \/ \E link \in Requests : SetPasswordRead(p, u, link)
  PROVE  Typed'
<1> USE ReviewersAssumption
<1>1. Known(u) /\ UNCHANGED <<boundaryVars, accountVars, sampleVars>>
  BY DEF DeactivateRead, RegenerateRead, LoginRead, SetPasswordRead
<1>2. /\ accounts[u] \in Account
      /\ accounts[u].ws \in Workspaces \cup {NoWorkspace} /\ accounts[u].ws \in Workspaces
      /\ accounts[u].password \in Secrets
  BY <1>1 DEF Typed, AccountTypes, Known, Account
<1>3. organizations[accounts[u].ws].name \in Names
  BY <1>1, <1>2, BoundaryAssumption DEF Typed, AccountTypes, BoundaryTypeOK, Exists, Organization
<1>4. SampleName \in Names /\ p \in Secrets /\ NoRequest \in Secrets
  BY DEF Secrets
<1>5. CASE DeactivateRead(p, u)
  BY <1>1, <1>2, <1>4, <1>5, StartTyped DEF DeactivateRead
<1>6. CASE RegenerateRead(p, u)
  BY <1>1, <1>2, <1>4, <1>6, StartTyped DEF RegenerateRead
<1>7. CASE LoginRead(p, u)
  <2>1. accounts[u].password \in Requests
    BY <1>2, <1>7 DEF LoginRead, Secrets
  <2> QED BY <1>1, <1>2, <1>3, <1>7, <2>1, StartTyped DEF LoginRead
<1>8. ASSUME NEW link \in Requests, SetPasswordRead(p, u, link)
      PROVE  Typed'
  <2>1. link \in Secrets /\ accounts[u].link = link /\ ~ accounts[u].used
    BY <1>8 DEF SetPasswordRead, Opens, Secrets
  <2> QED BY <1>1, <1>2, <1>4, <1>8, <2>1, StartTyped DEF SetPasswordRead
<1> QED BY <1>5, <1>6, <1>7, <1>8

LEMMA WritesTyped ==
  ASSUME Typed, NEW p \in Requests,
         DeactivateWrite(p) \/ RegenerateWrite(p) \/ SetPasswordWrite(p) \/ LoginWrite(p)
  PROVE  Typed'
<1> USE ReviewersAssumption
<1> DEFINE u == job[p].user
<1>0. RequestOK(p) /\ job[p] \in Job /\ BoundaryTypeOK /\ AccountTypes
  BY DEF Typed, AccountTypes
<1>1. u \in Reviewers /\ Known(u) /\ p \notin open
  BY <1>0 DEF RequestOK, DeactivateWrite, RegenerateWrite, SetPasswordWrite, LoginWrite
<1>2. accounts[u] \in Account /\ accounts[u].ws \in Workspaces
  BY <1>0, <1>1 DEF AccountTypes, Known, Account
<1>3. /\ sessions \subseteq [user : Reviewers, ws : Workspaces, secret : Requests]
      /\ written \subseteq [link : Requests, by : Requests] /\ raced \subseteq Reviewers
  BY <1>0 DEF AccountTypes
<1>4. NoRequest \in Secrets /\ p \in Secrets /\ job[p].ws \in Workspaces \cup {NoWorkspace}
  BY <1>0 DEF Secrets, Job
<1>5. CASE DeactivateWrite(p)
  <2> DEFINE a == [accounts[u] EXCEPT !.active = FALSE, !.link = NoRequest,
                                      !.lapsed = FALSE, !.used = FALSE]
  <2>1. a \in Account /\ a.ws = accounts[u].ws
    BY <1>2 DEF Account, Secrets
  <2>2. accounts' = [accounts EXCEPT ![u] = a] /\ UNCHANGED <<boundaryVars, members, sessions,
           written, raced, open>> /\ End(p, job[p].ws, NoRequest)
    BY <1>0, <1>1, <1>5 DEF DeactivateWrite, AccountTypes, sampleVars
  <2> HIDE DEF a, u
  <2>3. DataTypes' /\ Staying
    BY <1>1, <1>3, <2>1, <2>2, OneAccount
  <2> QED BY <1>1, <1>4, <2>2, <2>3, EndTyped
<1>6. CASE RegenerateWrite(p)
  <2> DEFINE a == [accounts[u] EXCEPT !.link = p, !.lapsed = FALSE, !.used = FALSE]
  <2>1. a \in Account /\ a.ws = accounts[u].ws
    BY <1>2 DEF Account, Secrets
  <2>2. accounts' = [accounts EXCEPT ![u] = a] /\ UNCHANGED <<boundaryVars, members, sessions,
           written, raced, open>> /\ End(p, accounts[u].ws, p)
    BY <1>0, <1>1, <1>6 DEF RegenerateWrite, AccountTypes, sampleVars
  <2> HIDE DEF a, u
  <2>3. DataTypes' /\ Staying
    BY <1>1, <1>3, <2>1, <2>2, OneAccount
  <2>4. accounts[u].ws \in Workspaces \cup {NoWorkspace}
    BY <1>2
  <2> QED BY <1>1, <1>4, <2>2, <2>3, <2>4, EndTyped
<1>7. CASE SetPasswordWrite(p)
  <2> DEFINE s == job[p].secret
             a == [accounts[u] EXCEPT !.password = s, !.used = TRUE]
             new == [user |-> u, ws |-> accounts[u].ws, secret |-> s]
  <2>0. s \in Requests /\ s \in Secrets
    BY <1>0, <1>7 DEF RequestOK, SetPasswordWrite, Secrets
  <2>1. a \in Account /\ a.ws = accounts[u].ws
    BY <1>2, <2>0 DEF Account, Secrets
  <2>2. /\ accounts' = [accounts EXCEPT ![u] = a]
        /\ UNCHANGED <<boundaryVars, members, open>>
        /\ written' = written \cup {[link |-> s, by |-> p]}
        /\ raced' \subseteq raced \cup {u}
        /\ \/ /\ pc' = [pc EXCEPT ![p] = "seeding"]
              /\ job' = [job EXCEPT ![p] = About(p, accounts[u].ws, s)]
              /\ sessions' = sessions
           \/ End(p, accounts[u].ws, s) /\ sessions' = sessions \cup {new}
    BY <1>0, <1>1, <1>7 DEF SetPasswordWrite, AccountTypes, sampleVars, Answer, Sample!SeedBegin
  <2>3. new \in [user : Reviewers, ws : Workspaces, secret : Requests]
    BY <1>1, <1>2, <2>0
  <2> HIDE DEF a, u, s, new
  <2>4. DataTypes' /\ Staying
    <3>1. /\ sessions' \subseteq [user : Reviewers, ws : Workspaces, secret : Requests]
          /\ written' \subseteq [link : Requests, by : Requests] /\ raced' \subseteq Reviewers
      BY <1>1, <1>3, <2>0, <2>2, <2>3 DEF End
    <3>2. UNCHANGED <<boundaryVars, members>> /\ accounts' = [accounts EXCEPT ![u] = a]
      BY <2>2
    <3> QED BY <1>1, <2>1, <3>1, <3>2, OneAccount
  <2>5. accounts[u].ws \in Workspaces \cup {NoWorkspace}
    BY <1>2
  <2>6. CASE End(p, accounts[u].ws, s)
    BY <1>1, <2>0, <2>2, <2>4, <2>5, <2>6, EndTyped
  <2>7. CASE /\ pc' = [pc EXCEPT ![p] = "seeding"]
             /\ job' = [job EXCEPT ![p] = About(p, accounts[u].ws, s)]
    BY <1>1, <1>2, <2>0, <2>2, <2>4, <2>7, SeedingTyped DEF u
  <2> QED BY <2>2, <2>6, <2>7
<1>8. CASE LoginWrite(p)
  <2> DEFINE s == job[p].secret
             w == job[p].ws
             new == [user |-> u, ws |-> w, secret |-> s]
  <2>0. s \in Requests /\ s \in Secrets /\ w \in Workspaces /\ w \in Workspaces \cup {NoWorkspace}
    BY <1>0, <1>8 DEF RequestOK, LoginWrite, Secrets
  <2>2. /\ UNCHANGED <<boundaryVars, accounts, members, written, raced, open>>
        /\ \/ /\ pc' = [pc EXCEPT ![p] = "seeding"]
              /\ job' = [job EXCEPT ![p] = About(p, w, s)]
              /\ sessions' = sessions
           \/ End(p, w, s) /\ sessions' = sessions \cup {new}
    BY <1>8 DEF LoginWrite, sampleVars, Sample!SeedBegin
  <2>3. new \in [user : Reviewers, ws : Workspaces, secret : Requests]
    BY <1>1, <2>0
  <2> HIDE DEF u, s, new, w
  <2>4. DataTypes' /\ Staying
    BY <1>3, <2>2, <2>3, NoAccount, SameBoundary
  <2>6. CASE End(p, w, s)
    BY <1>1, <2>0, <2>2, <2>4, <2>6, EndTyped
  <2>7. CASE pc' = [pc EXCEPT ![p] = "seeding"] /\ job' = [job EXCEPT ![p] = About(p, w, s)]
    BY <1>1, <2>0, <2>2, <2>4, <2>7, SeedingTyped DEF u
  <2> QED BY <2>2, <2>6, <2>7
<1> QED BY <1>5, <1>6, <1>7, <1>8

(* The steps of the sample, of time, of a failure and of an administrator. *)
LEMMA SampleStepsTyped ==
  ASSUME Typed, NEW p \in Requests,
         \/ Seed(p) \/ SeedAnswer(p)
         \/ \E w \in Workspaces, force \in BOOLEAN : SeedScript(p, w, force)
         \/ \E w \in Workspaces : UserDeletes(w)
  PROVE  Typed'
<1> USE ReviewersAssumption
<1>0. RequestOK(p) /\ job[p] \in Job /\ BoundaryTypeOK /\ AccountTypes
  BY DEF Typed, AccountTypes
<1>1. ASSUME UNCHANGED <<boundaryVars, accountVars, requestVars, open>>
      PROVE  Typed'
  BY <1>1 DEF Typed, AccountTypes, RequestOK, BoundaryTypeOK, boundaryVars, accountVars,
              requestVars, Known, Exists, Saving
<1>2. ASSUME Seed(p) \/ \E w \in Workspaces : UserDeletes(w)
      PROVE  Typed'
  <2>1. open' = open
    BY <1>2 DEF Seed, UserDeletes, Sample!UserDeletes, Sample!SeedStep, Sample!SeedCount,
                Sample!SeedDelete, Sample!SeedCreate, Sample!ReportCount, Sample!ReportCreate
  <2> QED BY <1>1, <1>2, <2>1 DEF Seed, UserDeletes
<1>3. CASE SeedAnswer(p)
  <2>1. /\ UNCHANGED <<boundaryVars, accounts, members, written, raced>>
        /\ open' = open \ {p} /\ End(p, job[p].ws, job[p].secret)
        /\ job[p].ws \in Workspaces /\ job[p].secret \in Secrets
    BY <1>0, <1>3 DEF SeedAnswer, Sample!SeedEnd, RequestOK, Job
  <2>2. sessions' \subseteq [user : Reviewers, ws : Workspaces, secret : Requests]
    <3>1. CASE job[p].secret = NoRequest
      BY <1>0, <1>3, <3>1 DEF SeedAnswer, AccountTypes
    <3>2. CASE job[p].secret # NoRequest
      <4>1. job[p].user \in Reviewers /\ job[p].secret \in Requests
        BY <1>0, <1>3, <2>1, <3>2 DEF SeedAnswer, RequestOK, Secrets
      <4>2. sessions' = sessions \cup
                {[user |-> job[p].user, ws |-> job[p].ws, secret |-> job[p].secret]}
        BY <1>3, <3>2 DEF SeedAnswer
      <4> QED BY <1>0, <2>1, <4>1, <4>2 DEF AccountTypes
    <3> QED BY <3>1, <3>2
  <2>3. DataTypes' /\ Staying
    BY <2>1, <2>2, NoAccount, SameBoundary
  <2>4. job[p].ws \in Workspaces \cup {NoWorkspace} /\ p \notin open'
    BY <2>1
  <2> QED BY <2>1, <2>3, <2>4, EndTyped
<1>4. ASSUME NEW w \in Workspaces, NEW force \in BOOLEAN, SeedScript(p, w, force)
      PROVE  Typed'
  <2>1. /\ pc[p] = "idle" /\ job[p] = NoJob
        /\ UNCHANGED <<boundaryVars, accountVars>> /\ open' = open /\ p \notin open
        /\ pc' = [pc EXCEPT ![p] = "seeding"] /\ job' = [job EXCEPT ![p].ws = w]
    BY <1>0, <1>4 DEF SeedScript, Idle, RequestOK, Sample!SeedBegin
  <2>2. /\ pc'[p] = "seeding" /\ job'[p] = [NoJob EXCEPT !.ws = w]
        /\ \A q \in Requests \ {p} : pc'[q] = pc[q] /\ job'[q] = job[q]
    BY <1>0, <2>1 DEF AccountTypes
  <2>3. job'[p] \in Job /\ job'[p].ws = w /\ job'[p].secret = NoRequest
    BY <2>2 DEF NoJob, Job, Secrets
  <2>4. job' \in [Requests -> Job]
    BY <1>0, <2>1, <2>2, <2>3 DEF AccountTypes
  <2>5. DataTypes' /\ Staying
    BY <1>0, <2>1, NoAccount, SameBoundary DEF accountVars, AccountTypes
  <2>6. AccountTypes'
    BY <1>0, <2>1, <2>4, <2>5 DEF AccountTypes, DataTypes
  <2>7. RequestOK(p)'
    BY <2>1, <2>2, <2>3 DEF RequestOK
  <2> QED BY <2>1, <2>2, <2>5, <2>6, <2>7, OneRequest DEF Staying
<1> QED BY <1>2, <1>3, <1>4

LEMMA TimeTyped ==
  ASSUME Typed, NEW u \in Reviewers, Lapse(u) \/ AccountEnds(u)
  PROVE  Typed'
<1>1. Known(u) /\ accounts[u] \in Account /\ AccountTypes
  BY DEF Typed, AccountTypes, Known, Lapse, AccountEnds
<1>2. /\ UNCHANGED <<boundaryVars, members, sessions, written, raced, requestVars>> /\ open' = open
  BY DEF Lapse, AccountEnds, sampleVars
<1>3. ASSUME NEW a \in Account, a.ws = accounts[u].ws, accounts' = [accounts EXCEPT ![u] = a]
      PROVE  Typed'
  <2>1. DataTypes' /\ Staying
    BY <1>1, <1>2, <1>3, OneAccount DEF AccountTypes
  <2>2. AccountTypes'
    BY <1>1, <1>2, <2>1 DEF AccountTypes, DataTypes, requestVars
  <2>3. ASSUME NEW p \in Requests
        PROVE  RequestOK(p)'
    <3>1. RequestOK(p) /\ pc' = pc /\ job' = job /\ open' = open
      BY <1>2 DEF Typed, requestVars
    <3>2. pc[p] \in {"hashing", "comparing", "deactivating", "regenerating"} =>
             accounts'[job[p].user] # NoUser
      BY <3>1, <2>1 DEF RequestOK, Staying
    <3> QED BY <3>1, <3>2 DEF RequestOK, Known
  <2> QED BY <2>2, <2>3 DEF Typed
<1>4. CASE Lapse(u)
  <2> DEFINE a == [accounts[u] EXCEPT !.lapsed = TRUE]
  <2>1. a \in Account /\ a.ws = accounts[u].ws
    BY <1>1 DEF Account
  <2>2. accounts' = [accounts EXCEPT ![u] = a]
    BY <1>1, <1>4 DEF Lapse, AccountTypes
  <2> HIDE DEF a
  <2> QED BY <1>3, <2>1, <2>2
<1>5. CASE AccountEnds(u)
  <2> DEFINE a == [accounts[u] EXCEPT !.ended = TRUE]
  <2>1. a \in Account /\ a.ws = accounts[u].ws
    BY <1>1 DEF Account
  <2>2. accounts' = [accounts EXCEPT ![u] = a]
    BY <1>1, <1>5 DEF AccountEnds, AccountTypes
  <2> HIDE DEF a
  <2> QED BY <1>3, <2>1, <2>2
<1> QED BY <1>4, <1>5

LEMMA FailTyped ==
  ASSUME Typed, NEW P \in SUBSET Requests, Fail(P)
  PROVE  Typed'
<1> USE ReviewersAssumption
<1>1. /\ UNCHANGED <<boundaryVars, accountVars>> /\ open' = open \ P
      /\ pc' = [p \in Requests |-> IF p \in P THEN "done" ELSE pc[p]]
      /\ job' = [p \in Requests |-> IF p \in P THEN About(p, job[p].ws, job[p].secret) ELSE job[p]]
  BY DEF Fail, Sample!SeedLost
<1>2. ASSUME NEW p \in Requests
      PROVE  About(p, job[p].ws, job[p].secret) \in Job
  <2>1. job[p] \in Job
    BY DEF Typed, AccountTypes
  <2>2. job[p].ws \in Workspaces \cup {NoWorkspace} /\ job[p].secret \in Secrets
        /\ job[p].user \in Reviewers \cup {NoUser}
    BY <2>1 DEF Job
  <2> QED BY <2>2 DEF About, NoJob, Job
<1>3. DataTypes' /\ Staying
  BY <1>1, NoAccount, SameBoundary DEF accountVars, Typed, AccountTypes
<1>4. job' \in [Requests -> Job]
  BY <1>1, <1>2 DEF Typed, AccountTypes
<1>5. AccountTypes'
  BY <1>1, <1>3, <1>4 DEF AccountTypes, DataTypes, Typed
<1>6. ASSUME NEW q \in Requests
      PROVE  RequestOK(q)'
  <2>1. CASE q \in P
    BY <1>1, <2>1 DEF RequestOK
  <2>2. CASE q \notin P
    <3>1. pc'[q] = pc[q] /\ job'[q] = job[q] /\ (q \in open' => q \in open) /\ RequestOK(q)
      BY <1>1, <2>2 DEF Typed
    <3>2. accounts' = accounts
      BY <1>1 DEF accountVars
    <3> QED BY <3>1, <3>2 DEF RequestOK, Known
  <2> QED BY <2>1, <2>2
<1> QED BY <1>5, <1>6 DEF Typed

LEMMA EditTyped ==
  ASSUME Typed, NEW p \in Requests, EditProfile(p)
  PROVE  Typed'
<1>1. UNCHANGED <<accountVars, requestVars>> /\ open' = open
  BY DEF EditProfile, sampleVars
<1>2. BoundaryTypeOK' /\ Lasting
  BY SavingOK DEF EditProfile, Typed, AccountTypes
<1>3. DataTypes' /\ Staying
  BY <1>1, <1>2, NoAccount DEF accountVars, Typed, AccountTypes
<1> QED BY <1>1, <1>3 DEF Typed, AccountTypes, DataTypes, RequestOK, Known, accountVars, requestVars

-----------------------------------------------------------------------------
LEMMA StepTyped ==
  ASSUME Typed, [Next]_vars
  PROVE  Typed'
<1>1. CASE UNCHANGED vars
  BY <1>1 DEF vars, Typed, AccountTypes, RequestOK, BoundaryTypeOK, boundaryVars, accountVars,
              requestVars, sampleVars, Known, Exists, Saving
<1>2. CASE Next
  <2>1. ASSUME NEW p \in Requests,
               \/ \E u \in Reviewers, n \in Names :
                     InviteFind(p, u, n) \/ \E w \in Workspaces : Register(p, u, n, w)
               \/ InviteFound(p) \/ InviteWrite(p) \/ InviteJoin(p) \/ InviteCommit(p)
        PROVE  Typed'
    BY <2>1, InvitingTyped, CommitTyped, RegisterTyped
  <2>2. ASSUME NEW p \in Requests,
               \/ \E u \in Reviewers :
                     \/ DeactivateRead(p, u) \/ RegenerateRead(p, u) \/ LoginRead(p, u)
                     \/ \E link \in Requests : SetPasswordRead(p, u, link)
               \/ DeactivateWrite(p) \/ RegenerateWrite(p) \/ SetPasswordWrite(p) \/ LoginWrite(p)
        PROVE  Typed'
    BY <2>2, ReadsTyped, WritesTyped
  <2>3. ASSUME NEW p \in Requests,
               \/ \E w \in Workspaces, force \in BOOLEAN : SeedScript(p, w, force)
               \/ Seed(p) \/ SeedAnswer(p)
        PROVE  Typed'
    BY <2>3, SampleStepsTyped
  <2>4. ASSUME NEW p \in Requests, EditProfile(p)
        PROVE  Typed'
    BY <2>4, EditTyped
  <2>5. ASSUME NEW w \in Workspaces, UserDeletes(w)
        PROVE  Typed'
    BY <2>5 DEF UserDeletes, Sample!UserDeletes, Typed, AccountTypes, RequestOK, BoundaryTypeOK,
                boundaryVars, accountVars, requestVars, Known, Exists, Saving
  <2> QED BY <1>2, <2>1, <2>2, <2>3, <2>4, <2>5, TimeTyped, FailTyped DEF Next
<1> QED BY <1>1, <1>2

LEMMA StepIsSampleStep ==
  ASSUME Typed, [Next]_vars
  PROVE  SampleStep
<1>1. CASE UNCHANGED vars
  BY <1>1 DEF vars, SampleStep
<1>2. CASE Next
  <2> USE DEF SampleStep
  <2>0. ASSUME NEW p \in Requests
        PROVE  /\ job[p].user \in Reviewers /\ Known(job[p].user) =>
                     accounts[job[p].user].ws \in Workspaces
               /\ pc[p] \in {"inviting", "joining", "seeding", "hashing", "comparing"} =>
                     job[p].ws \in Workspaces
               /\ pc[p] = "hashing" => job[p].user \in Reviewers /\ Known(job[p].user)
    <3>1. job[p].user \in Reviewers /\ Known(job[p].user) => accounts[job[p].user] \in Account
      BY DEF Typed, AccountTypes, Known
    <3> QED BY <3>1 DEF Typed, RequestOK, Account
  <2>1. ASSUME NEW p \in Requests,
               \/ \E u \in Reviewers, n \in Names :
                     InviteFind(p, u, n) \/ \E w \in Workspaces : Register(p, u, n, w)
               \/ InviteFound(p) \/ InviteWrite(p) \/ InviteJoin(p) \/ InviteCommit(p)
        PROVE  SampleStep
    BY <2>0, <2>1 DEF InviteFind, Register, InviteFound, InviteWrite, InviteJoin, InviteCommit
  <2>2. ASSUME NEW p \in Requests,
               \/ \E u \in Reviewers :
                     \/ DeactivateRead(p, u) \/ RegenerateRead(p, u) \/ LoginRead(p, u)
                     \/ \E link \in Requests : SetPasswordRead(p, u, link)
               \/ DeactivateWrite(p) \/ RegenerateWrite(p)
        PROVE  SampleStep
    BY <2>2 DEF DeactivateRead, RegenerateRead, LoginRead, SetPasswordRead, DeactivateWrite,
                RegenerateWrite
  <2>3. ASSUME NEW p \in Requests, SetPasswordWrite(p) \/ LoginWrite(p)
        PROVE  SampleStep
    BY <2>0, <2>3 DEF SetPasswordWrite, Answer, LoginWrite
  <2>4. ASSUME NEW p \in Requests,
               \/ \E w \in Workspaces, force \in BOOLEAN : SeedScript(p, w, force)
               \/ Seed(p) \/ SeedAnswer(p) \/ EditProfile(p)
        PROVE  SampleStep
    BY <2>4 DEF SeedScript, Seed, SeedAnswer, EditProfile
  <2>5. ASSUME NEW u \in Reviewers, Lapse(u) \/ AccountEnds(u)
        PROVE  SampleStep
    BY <2>5 DEF Lapse, AccountEnds
  <2>6. ASSUME NEW w \in Workspaces, UserDeletes(w)
        PROVE  SampleStep
    BY <2>6 DEF UserDeletes
  <2>7. ASSUME NEW P \in SUBSET Requests, Fail(P)
        PROVE  SampleStep
    BY <2>7 DEF Fail
  <2> QED BY <1>2, <2>1, <2>2, <2>3, <2>4, <2>5, <2>6, <2>7 DEF Next
<1> QED BY <1>1, <1>2

LEMMA InitTyped ==
  ASSUME Init
  PROVE  Typed /\ Sample!SampleTypeOK
<1> USE ReviewersAssumption, BoundaryAssumption
<1>1. Sample!SampleTypeOK
  BY DEF Init, Sample!SampleInit, Sample!SampleTypeOK
<1>2. BoundaryTypeOK
  BY DEF Init, BoundaryInit, BoundaryTypeOK, Saving
<1>3. NoJob \in Job
  BY DEF NoJob, Job, Secrets
<1>4. AccountTypes
  BY <1>2, <1>3 DEF Init, AccountTypes, Known
<1>5. \A p \in Requests : RequestOK(p)
  BY DEF Init, Sample!SampleInit, RequestOK
<1> QED BY <1>1, <1>4, <1>5 DEF Typed

(* Types, and what a request carries from one of its steps to the next.    *)
LEMMA Always == Spec => [](Typed /\ Sample!SampleTypeOK)
<1>1. Init => Typed /\ Sample!SampleTypeOK
  BY InitTyped
<1>2. Typed /\ Sample!SampleTypeOK /\ [Next]_vars => (Typed /\ Sample!SampleTypeOK)'
  BY StepTyped, StepIsSampleStep, SampleTyped
<1> QED BY <1>1, <1>2, PTL DEF Spec

(* The variables of accounts, boundaries and sample keep their types, and  *)
(* every account is in a workspace that exists.                            *)
THEOREM AccountTypeCorrect == Spec => []TypeOK
<1>1. Typed /\ Sample!SampleTypeOK => TypeOK
  BY TypeSplit DEF Typed
<1> QED BY <1>1, Always, PTL

-----------------------------------------------------------------------------
(* Boundaries.  A version that nobody contests is the latest that was      *)
(* shown, and what was shown under its number is what the row says.        *)

BoundaryStep ==
    \/ UNCHANGED boundaryVars
    \/ \E w \in Workspaces, n \in Names :
          /\ ~ Exists(w)
          /\ organizations' = [organizations EXCEPT ![w] = NewOrganization(n)]
          /\ shown' = shown \cup {Entry(w, NewOrganization(n), FALSE)}
          /\ UNCHANGED <<saves, contested>>
    \/ \E p \in Requests :
          (\E w \in Workspaces, in \in Saves : SaveRead(p, w, in)) \/ SaveWrite(p) \/ SaveLost(p)

Latest(w) ==
    LET o == organizations[w]
    IN  /\ o.reviewed => Entry(w, o, TRUE) \in shown
        /\ \A e \in shown : e.ws = w =>
              /\ e.version <= o.version
              /\ e.version = o.version => e.what = Fingerprint(o)

BoundaryInv ==
    /\ BoundaryTypeOK
    /\ \A e \in shown : Exists(e.ws)
    /\ \A w \in Workspaces \ contested : Exists(w) => Latest(w)
    /\ VersionNamesOneBoundary

LEMMA StepIsBoundaryStep ==
  ASSUME Typed, [Next]_vars
  PROVE  BoundaryStep
<1>1. CASE UNCHANGED vars
  BY <1>1 DEF vars, BoundaryStep
<1>2. CASE Next
  <2> USE DEF BoundaryStep
  <2>1. ASSUME NEW p \in Requests,
               \/ \E u \in Reviewers, n \in Names : InviteFind(p, u, n)
               \/ InviteFound(p) \/ InviteWrite(p) \/ InviteJoin(p)
        PROVE  BoundaryStep
    BY <2>1 DEF InviteFind, InviteFound, InviteWrite, InviteJoin
  <2>2. ASSUME NEW p \in Requests, InviteCommit(p)
        PROVE  BoundaryStep
    <3>1. job[p].ws \in Workspaces /\ job[p].name \in Names
      BY <2>2 DEF InviteCommit, Typed, AccountTypes, RequestOK, Job
    <3> QED BY <2>2, <3>1 DEF InviteCommit, boundaryVars
  <2>3. ASSUME NEW p \in Requests, NEW u \in Reviewers, NEW n \in Names, NEW w \in Workspaces,
               Register(p, u, n, w)
        PROVE  BoundaryStep
    BY <2>3 DEF Register
  <2>4. ASSUME NEW p \in Requests,
               \/ \E u \in Reviewers :
                     \/ DeactivateRead(p, u) \/ RegenerateRead(p, u) \/ LoginRead(p, u)
                     \/ \E link \in Requests : SetPasswordRead(p, u, link)
               \/ DeactivateWrite(p) \/ RegenerateWrite(p) \/ SetPasswordWrite(p) \/ LoginWrite(p)
        PROVE  BoundaryStep
    BY <2>4 DEF DeactivateRead, RegenerateRead, LoginRead, SetPasswordRead, DeactivateWrite,
                RegenerateWrite, SetPasswordWrite, LoginWrite
  <2>5. ASSUME NEW p \in Requests,
               \/ \E w \in Workspaces, force \in BOOLEAN : SeedScript(p, w, force)
               \/ Seed(p) \/ SeedAnswer(p)
        PROVE  BoundaryStep
    BY <2>5 DEF SeedScript, Seed, SeedAnswer
  <2>6. ASSUME NEW p \in Requests, EditProfile(p)
        PROVE  BoundaryStep
    BY <2>6 DEF EditProfile
  <2>7. ASSUME \/ \E u \in Reviewers : Lapse(u) \/ AccountEnds(u)
               \/ \E w \in Workspaces : UserDeletes(w)
               \/ \E P \in SUBSET Requests : Fail(P)
        PROVE  BoundaryStep
    BY <2>7 DEF Lapse, AccountEnds, UserDeletes, Fail
  <2> QED BY <1>2, <2>1, <2>2, <2>3, <2>4, <2>5, <2>6, <2>7 DEF Next
<1> QED BY <1>1, <1>2

(* A save over the row it has read: the version goes up when what is shown *)
(* changes, and only then.                                                 *)
LEMMA SavedOverWhatWasRead ==
  ASSUME NEW row \in Organization, NEW in \in Save
  PROVE  LET o == Saved(row, in, row)
         IN  \/ o.version = row.version + 1 /\ o.reviewed = in.review
             \/ /\ o.version = row.version /\ Fingerprint(o) = Fingerprint(row)
                /\ o.reviewed = (in.review \/ row.reviewed)
<1> USE BoundaryAssumption
<1> DEFINE o == Saved(row, in, row)
<1>0. /\ row.reviewed \in BOOLEAN /\ in.review \in BOOLEAN
      /\ row.boundary \in Boundaries /\ in.boundary \in Boundaries
  BY DEF Organization, Save
<1>1. CASE Changed(in, row)
  <2>1. o.version = row.version + 1
    BY <1>1 DEF Saved
  <2>2. o.reviewed = (in.review \/ (row.reviewed /\ ~ Changed(in, row)))
    BY DEF Saved
  <2>3. o.reviewed = in.review
    BY <1>0, <1>1, <2>2
  <2> QED BY <2>1, <2>3
<1>2. CASE ~ Changed(in, row)
  <2>1. o.version = row.version
    BY <1>2 DEF Saved
  <2>2. o.reviewed = (in.review \/ (row.reviewed /\ ~ Changed(in, row)))
    BY DEF Saved
  <2>3. o.reviewed = (in.review \/ row.reviewed)
    BY <1>0, <1>2, <2>2
  <2>4. in.name = row.name /\ Folded[in.boundary] = Folded[Displayed(row.boundary)]
    BY <1>2 DEF Changed, Sent, Fingerprint
  <2>5. Displayed(row.boundary) \in Boundaries \ {Blank}
    BY <1>0 DEF Displayed
  <2>6. Displayed(in.boundary) = in.boundary
    BY <2>4, <2>5 DEF Displayed
  <2>7. o.name = in.name /\ o.boundary = in.boundary
    BY DEF Saved
  <2>8. Fingerprint(o) = Fingerprint(row)
    BY <2>4, <2>6, <2>7 DEF Fingerprint
  <2> QED BY <2>1, <2>3, <2>8
<1> QED BY <1>1, <1>2

LEMMA FoundingKeepsBoundaries ==
  ASSUME BoundaryInv, NEW w \in Workspaces, NEW n \in Names, ~ Exists(w),
         organizations' = [organizations EXCEPT ![w] = NewOrganization(n)],
         shown' = shown \cup {Entry(w, NewOrganization(n), FALSE)},
         UNCHANGED <<saves, contested>>
  PROVE  BoundaryInv'
<1> DEFINE o == NewOrganization(n)
           x == Entry(w, o, FALSE)
<1>1. BoundaryTypeOK' /\ Lasting /\ organizations'[w] # NoWorkspace
  BY Founded DEF BoundaryInv
<1>2. /\ organizations'[w] = o /\ \A v \in Workspaces \ {w} : organizations'[v] = organizations[v]
      /\ \A e \in shown : e.ws # w /\ e.ws \in Workspaces
  BY DEF BoundaryInv, BoundaryTypeOK
<1>3. /\ x.ws = w /\ x.version = 1 /\ x.what = Fingerprint(o)
      /\ o.version = 1 /\ o.reviewed = FALSE
  BY DEF Entry, NewOrganization
<1> HIDE DEF o, x
<1>4. shown' = shown \cup {x} /\ contested' = contested
  BY DEF o, x
<1>5. \A e \in shown' : Exists(e.ws)'
  BY <1>1, <1>2, <1>3, <1>4 DEF BoundaryInv, Exists, Lasting
<1>6. ASSUME NEW v \in Workspaces \ contested', Exists(v)'
      PROVE  Latest(v)'
  <2>1. CASE v = w
    <3>1. organizations'[v] = o /\ ~ o.reviewed /\ \A e \in shown' : e.ws = v => e = x
      BY <1>2, <1>3, <1>4, <2>1
    <3> QED BY <1>3, <3>1 DEF Latest, Entry, Fingerprint
  <2>2. CASE v # w
    <3>1. Exists(v) /\ organizations'[v] = organizations[v]
      BY <1>2, <1>6, <2>2 DEF Exists
    <3>2. Latest(v)
      BY <1>4, <1>6, <3>1 DEF BoundaryInv
    <3> QED BY <1>3, <1>4, <2>2, <3>1, <3>2 DEF Latest
  <2> QED BY <2>1, <2>2
<1>7. VersionNamesOneBoundary'
  BY <1>2, <1>3, <1>4 DEF VersionNamesOneBoundary, BoundaryInv
<1> QED BY <1>1, <1>5, <1>6, <1>7 DEF BoundaryInv

LEMMA SavingKeepsBoundaries ==
  ASSUME BoundaryInv, NEW p \in Requests, SaveWrite(p)
  PROVE  BoundaryInv'
<1> DEFINE s == saves[p]
           w == s.ws
           row == organizations[w]
           o == Saved(row, s.in, s.seen)
           x == Entry(w, o, s.in.review)
<1>1. BoundaryTypeOK' /\ Lasting
  BY SavingOK DEF BoundaryInv
<1>2. /\ s \in [ws : Workspaces, in : Save, seen : Organization]
      /\ w \in Workspaces /\ Exists(w) /\ row \in Organization
      /\ s.in \in Save /\ s.seen \in Organization
  BY DEF SaveWrite, Saving, BoundaryInv, BoundaryTypeOK, Exists
<1>3. o \in Organization
  BY <1>2, SavedOK
<1>4. /\ organizations' = [organizations EXCEPT ![w] = o]
      /\ shown' = shown \cup {x}
      /\ contested' = IF row = s.seen THEN contested ELSE contested \cup {w}
  BY DEF SaveWrite
<1>5. x.ws = w /\ x.version = o.version /\ x.what = Fingerprint(o) /\ x.review = s.in.review
  BY DEF Entry
<1>6. w \notin contested' =>
         \/ o.version = row.version + 1 /\ o.reviewed = s.in.review
         \/ /\ o.version = row.version /\ Fingerprint(o) = Fingerprint(row)
            /\ o.reviewed = (s.in.review \/ row.reviewed)
  BY <1>2, <1>4, SavedOverWhatWasRead
<1>7. row.version \in Nat /\ o.version \in Nat /\ s.in.review \in BOOLEAN
  BY <1>2, <1>3 DEF Organization, Save
<1>8. s.in.review = TRUE => x = Entry(w, o, TRUE)
  OBVIOUS
<1>81. o.version = row.version /\ Fingerprint(o) = Fingerprint(row) =>
          Entry(w, o, TRUE) = Entry(w, row, TRUE)
  BY DEF Entry
<1>9. /\ organizations'[w] = o /\ \A v \in Workspaces \ {w} : organizations'[v] = organizations[v]
      /\ \A e \in shown : e.ws \in Workspaces /\ Exists(e.ws) /\ e.version \in Nat
  BY <1>2, <1>4 DEF BoundaryInv, BoundaryTypeOK
<1> HIDE DEF o, x, row, w, s
<1>10. \A e \in shown' : Exists(e.ws)'
  BY <1>1, <1>2, <1>4, <1>5, <1>9 DEF Exists, Lasting
<1>11. contested \subseteq contested'
  BY <1>4
<1>12. w \notin contested' => Latest(w)
  BY <1>2, <1>11 DEF BoundaryInv
<1>13. Exists(w) => row = organizations[w]
  BY DEF row
<1>14. ASSUME NEW v \in Workspaces \ contested', Exists(v)'
       PROVE  Latest(v)'
  <2>1. CASE v = w
    <3>1. o.reviewed => Entry(w, o, TRUE) \in shown'
      BY <1>4, <1>6, <1>7, <1>8, <1>81, <1>12, <1>13, <1>2, <1>14, <2>1 DEF Latest
    <3>2. ASSUME NEW e \in shown', e.ws = w
          PROVE  e.version <= o.version /\ (e.version = o.version => e.what = Fingerprint(o))
      <4>1. CASE e = x
        BY <1>5, <1>7, <4>1
      <4>2. CASE e \in shown
        <5>1. e.version <= row.version /\ (e.version = row.version => e.what = Fingerprint(row))
          BY <1>12, <1>13, <1>2, <1>14, <2>1, <3>2, <4>2 DEF Latest
        <5> QED BY <1>6, <1>7, <1>9, <1>14, <2>1, <4>2, <5>1
      <4> QED BY <1>4, <4>1, <4>2
    <3> QED BY <1>9, <2>1, <3>1, <3>2 DEF Latest
  <2>2. CASE v # w
    <3>1. Exists(v) /\ organizations'[v] = organizations[v]
      BY <1>9, <1>14, <2>2 DEF Exists
    <3>2. Latest(v)
      BY <1>11, <1>14, <3>1 DEF BoundaryInv
    <3> QED BY <1>4, <1>5, <2>2, <3>1, <3>2 DEF Latest, Entry, Fingerprint
  <2> QED BY <2>1, <2>2
<1>15. VersionNamesOneBoundary'
  <2>1. ASSUME NEW e \in shown, e.ws = w, w \notin contested', e.version = o.version
        PROVE  e.what = Fingerprint(o)
    <3>1. e.version <= row.version /\ (e.version = row.version => e.what = Fingerprint(row))
      BY <1>12, <1>13, <1>2, <2>1 DEF Latest
    <3> QED BY <1>6, <1>7, <1>9, <2>1, <3>1
  <2> QED BY <1>4, <1>5, <1>11, <2>1 DEF BoundaryInv, VersionNamesOneBoundary
<1> QED BY <1>1, <1>10, <1>14, <1>15 DEF BoundaryInv

(* A reviewed boundary shows what was shown when it was reviewed, and a    *)
(* version number names one boundary, as long as no save overwrites one it *)
(* has not read: whatever else is saved, founded or lost in between.       *)
THEOREM ReviewsAreOfWhatWasShown == Spec => []ReviewsAttestWhatWasShown
<1>1. Init => BoundaryInv
  <2> SUFFICES ASSUME Init PROVE BoundaryInv
    OBVIOUS
  <2>1. BoundaryTypeOK
    BY InitTyped DEF Typed, AccountTypes
  <2> QED BY <2>1 DEF Init, BoundaryInit, BoundaryInv, VersionNamesOneBoundary, Exists
<1>2. BoundaryInv /\ BoundaryStep => BoundaryInv'
  <2> SUFFICES ASSUME BoundaryInv, BoundaryStep PROVE BoundaryInv'
    OBVIOUS
  <2>1. CASE UNCHANGED boundaryVars
    BY <2>1 DEF BoundaryInv, boundaryVars, BoundaryTypeOK, Exists, Latest, Saving,
                VersionNamesOneBoundary
  <2>2. ASSUME NEW p \in Requests,
               (\E w \in Workspaces, in \in Saves : SaveRead(p, w, in)) \/ SaveLost(p)
        PROVE  BoundaryInv'
    <3>1. BoundaryTypeOK'
      BY <2>2, SavingOK DEF BoundaryInv
    <3>2. UNCHANGED <<organizations, shown, contested>>
      BY <2>2 DEF SaveRead, SaveLost
    <3> QED BY <3>1, <3>2 DEF BoundaryInv, Exists, Latest, VersionNamesOneBoundary
  <2> QED BY <2>1, <2>2, FoundingKeepsBoundaries, SavingKeepsBoundaries DEF BoundaryStep
<1>3. BoundaryInv => ReviewsAttestWhatWasShown
  BY DEF BoundaryInv, Latest, ReviewsAttestWhatWasShown, ReviewedAsShown
<1>4. Typed /\ BoundaryInv /\ [Next]_vars => BoundaryInv'
  BY <1>2, StepIsBoundaryStep
<1> QED BY <1>1, <1>3, <1>4, Always, PTL DEF Spec

-----------------------------------------------------------------------------
(* Memberships.  Two transactions never hold the row of one account, so    *)
(* the memberships an invitation replaces are all there are of its user    *)
(* when it commits.                                                        *)

Holds(p) == pc[p] = "joining" \/ p \in open
Of(u) == {m \in members : m.user = u}

MemberInv ==
    /\ \A p, q \in Requests : Holds(p) /\ Holds(q) /\ p # q => job[p].user # job[q].user
    /\ \A p \in open : job[p].replaces = Of(job[p].user)
    /\ OneMembership

(* What a step that neither locks a row nor writes a membership leaves.    *)
Kept(p) ==
    (pc'[p] = "joining" \/ p \in open') =>
        /\ Holds(p) /\ job'[p] = job[p]
        /\ p \in open' => p \in open

SameMembers ==
    /\ members' = members
    /\ \A u \in Reviewers :
          accounts'[u] # NoUser /\ accounts'[u].pilot =>
              Known(u) /\ accounts[u].pilot /\ accounts[u].ws = accounts'[u].ws

LEMMA LeavesKept ==
  ASSUME Typed, NEW p \in Requests, NEW step, step # "joining",
         pc' = [pc EXCEPT ![p] = step], p \notin open', open' \subseteq open,
         \A q \in Requests \ {p} : job'[q] = job[q]
  PROVE  \A q \in Requests : Kept(q)
<1>1. Kept(p)
  <2>1. pc'[p] = step
    BY DEF Typed, AccountTypes
  <2> QED BY <2>1 DEF Kept
<1>2. ASSUME NEW q \in Requests \ {p}
      PROVE  Kept(q)
  <2>1. pc'[q] = pc[q] /\ job'[q] = job[q]
    BY DEF Typed, AccountTypes
  <2> QED BY <2>1 DEF Kept, Holds
<1> QED BY <1>1, <1>2

(* Every step of one request, except the four that matter here.            *)
LEMMA OthersKept ==
  ASSUME Typed, NEW p \in Requests,
         \/ \E u \in Reviewers, n \in Names : InviteFind(p, u, n)
         \/ InviteFound(p)
         \/ \E u \in Reviewers :
               \/ DeactivateRead(p, u) \/ RegenerateRead(p, u) \/ LoginRead(p, u)
               \/ \E link \in Requests : SetPasswordRead(p, u, link)
         \/ DeactivateWrite(p) \/ RegenerateWrite(p) \/ SetPasswordWrite(p) \/ LoginWrite(p)
         \/ \E w \in Workspaces, force \in BOOLEAN : SeedScript(p, w, force)
         \/ SeedAnswer(p)
  PROVE  (\A q \in Requests : Kept(q)) /\ members' = members
<1>0. RequestOK(p) /\ job \in [Requests -> Job]
  BY DEF Typed, AccountTypes
<1>1. ASSUME NEW step, NEW u, NEW w, NEW n, NEW secret, step # "joining",
             Start(p, step, u, w, n, secret), UNCHANGED <<accountVars, sampleVars>>
      PROVE  (\A q \in Requests : Kept(q)) /\ members' = members
  <2>1. /\ pc' = [pc EXCEPT ![p] = step] /\ open' = open /\ p \notin open
        /\ \A q \in Requests \ {p} : job'[q] = job[q]
    BY <1>0, <1>1 DEF Start, Idle, sampleVars, RequestOK
  <2> QED BY <1>1, <2>1, LeavesKept DEF accountVars
<1>2. ASSUME \E u \in Reviewers, n \in Names : InviteFind(p, u, n)
      PROVE  (\A q \in Requests : Kept(q)) /\ members' = members
  BY <1>1, <1>2 DEF InviteFind
<1>3. ASSUME NEW u \in Reviewers,
             \/ DeactivateRead(p, u) \/ RegenerateRead(p, u) \/ LoginRead(p, u)
             \/ \E link \in Requests : SetPasswordRead(p, u, link)
      PROVE  (\A q \in Requests : Kept(q)) /\ members' = members
  BY <1>1, <1>3 DEF DeactivateRead, RegenerateRead, LoginRead, SetPasswordRead
<1>4. ASSUME NEW j, NEW step, step # "joining", p \notin open, open' \subseteq open,
             pc' = [pc EXCEPT ![p] = step], job' = [job EXCEPT ![p] = j]
      PROVE  \A q \in Requests : Kept(q)
  <2>1. p \notin open' /\ \A q \in Requests \ {p} : job'[q] = job[q]
    BY <1>0, <1>4
  <2> QED BY <1>4, <2>1, LeavesKept
<1>5. ASSUME InviteFound(p)
      PROVE  (\A q \in Requests : Kept(q)) /\ members' = members
  <2>1. p \notin open /\ open' = open /\ members' = members
    BY <1>0, <1>5 DEF InviteFound, RequestOK, sampleVars, accountVars
  <2>2. ASSUME NEW w \in Workspaces, pc' = [pc EXCEPT ![p] = "inviting"],
               job' = [job EXCEPT ![p].ws = w, ![p].seen = accounts[job[p].user]]
        PROVE  \A q \in Requests : Kept(q)
    <3>1. \A q \in Requests \ {p} : job'[q] = job[q]
      BY <1>0, <2>2
    <3> QED BY <2>1, <2>2, <3>1, LeavesKept
  <2>3. CASE End(p, job[p].ws, p)
    BY <2>1, <2>3, <1>4 DEF End
  <2> QED BY <1>5, <2>1, <2>2, <2>3 DEF InviteFound
<1>6. ASSUME DeactivateWrite(p) \/ RegenerateWrite(p)
      PROVE  (\A q \in Requests : Kept(q)) /\ members' = members
  <2>1. p \notin open /\ open' = open /\ members' = members
    BY <1>0, <1>6 DEF DeactivateWrite, RegenerateWrite, RequestOK, sampleVars
  <2> QED BY <1>4, <1>6, <2>1 DEF DeactivateWrite, RegenerateWrite, End
<1>7. ASSUME SetPasswordWrite(p) \/ LoginWrite(p)
      PROVE  (\A q \in Requests : Kept(q)) /\ members' = members
  <2>1. p \notin open /\ open' = open /\ members' = members
    BY <1>0, <1>7 DEF SetPasswordWrite, LoginWrite, RequestOK, sampleVars, Answer, Sample!SeedBegin
  <2>2. \E w, secret : job' = [job EXCEPT ![p] = About(p, w, secret)]
    BY <1>7 DEF SetPasswordWrite, LoginWrite, Answer, End
  <2>3. pc' = [pc EXCEPT ![p] = "seeding"] \/ pc' = [pc EXCEPT ![p] = "done"]
    BY <1>7 DEF SetPasswordWrite, LoginWrite, Answer, End
  <2> QED BY <1>4, <2>1, <2>2, <2>3
<1>8. ASSUME SeedAnswer(p)
      PROVE  (\A q \in Requests : Kept(q)) /\ members' = members
  <2>1. p \notin open /\ open' \subseteq open /\ members' = members
    BY <1>8 DEF SeedAnswer, Sample!SeedEnd
  <2> QED BY <1>4, <1>8, <2>1 DEF SeedAnswer, End
<1>9. ASSUME NEW w \in Workspaces, NEW force \in BOOLEAN, SeedScript(p, w, force)
      PROVE  (\A q \in Requests : Kept(q)) /\ members' = members
  <2>1. /\ p \notin open /\ open' = open /\ members' = members
        /\ pc' = [pc EXCEPT ![p] = "seeding"]
        /\ \A q \in Requests \ {p} : job'[q] = job[q]
    BY <1>0, <1>9 DEF SeedScript, Idle, RequestOK, Sample!SeedBegin, accountVars
  <2> QED BY <2>1, LeavesKept
<1> QED BY <1>2, <1>3, <1>5, <1>6, <1>7, <1>8, <1>9

(* What steps do to the accounts, as far as memberships ask.               *)
LEMMA OneSameMembers ==
  ASSUME Typed, members' = members, NEW u \in Reviewers, Known(u), NEW a \in Account,
         a.pilot = accounts[u].pilot, a.ws = accounts[u].ws,
         accounts' = [accounts EXCEPT ![u] = a]
  PROVE  SameMembers
<1>1. ASSUME NEW v \in Reviewers, accounts'[v] # NoUser, accounts'[v].pilot
      PROVE  Known(v) /\ accounts[v].pilot /\ accounts[v].ws = accounts'[v].ws
  <2>0. accounts \in [Reviewers -> Account \cup {NoUser}]
    BY DEF Typed, AccountTypes
  <2>1. CASE v = u
    BY <2>0, <1>1, <2>1
  <2>2. CASE v # u
    BY <2>0, <1>1, <2>2 DEF Known
  <2> QED BY <2>1, <2>2
<1> QED BY <1>1 DEF SameMembers

LEMMA OthersSameMembers ==
  ASSUME Typed, NEW p \in Requests, members' = members,
         \/ accounts' = accounts
         \/ DeactivateWrite(p) \/ RegenerateWrite(p) \/ SetPasswordWrite(p)
         \/ \E u \in Reviewers, n \in Names, w \in Workspaces : Register(p, u, n, w)
  PROVE  SameMembers
<1>0. RequestOK(p) /\ accounts \in [Reviewers -> Account \cup {NoUser}]
  BY DEF Typed, AccountTypes
<1>1. CASE accounts' = accounts
  BY <1>1 DEF SameMembers, Known
<1>4. CASE DeactivateWrite(p) \/ RegenerateWrite(p) \/ SetPasswordWrite(p)
  <2> DEFINE u == job[p].user
  <2>1. u \in Reviewers /\ Known(u) /\ accounts[u] \in Account
    BY <1>0, <1>4 DEF DeactivateWrite, RegenerateWrite, SetPasswordWrite, RequestOK, Known
  <2>2. pc[p] = "hashing" => job[p].secret \in Requests
    BY <1>0 DEF RequestOK
  <2>3. CASE DeactivateWrite(p)
    <3> DEFINE a == [accounts[u] EXCEPT !.active = FALSE, !.link = NoRequest,
                                        !.lapsed = FALSE, !.used = FALSE]
    <3>1. a \in Account /\ a.pilot = accounts[u].pilot /\ a.ws = accounts[u].ws
      BY <2>1 DEF Account, Secrets
    <3>2. accounts' = [accounts EXCEPT ![u] = a]
      BY <1>0, <2>1, <2>3 DEF DeactivateWrite
    <3> HIDE DEF a, u
    <3> QED BY <2>1, <3>1, <3>2, OneSameMembers
  <2>4. CASE RegenerateWrite(p)
    <3> DEFINE a == [accounts[u] EXCEPT !.link = p, !.lapsed = FALSE, !.used = FALSE]
    <3>1. a \in Account /\ a.pilot = accounts[u].pilot /\ a.ws = accounts[u].ws
      BY <2>1 DEF Account, Secrets
    <3>2. accounts' = [accounts EXCEPT ![u] = a]
      BY <1>0, <2>1, <2>4 DEF RegenerateWrite
    <3> HIDE DEF a, u
    <3> QED BY <2>1, <3>1, <3>2, OneSameMembers
  <2>5. CASE SetPasswordWrite(p)
    <3> DEFINE a == [accounts[u] EXCEPT !.password = job[p].secret, !.used = TRUE]
    <3>1. a \in Account /\ a.pilot = accounts[u].pilot /\ a.ws = accounts[u].ws
      BY <2>1, <2>2, <2>5 DEF Account, Secrets, SetPasswordWrite
    <3>2. accounts' = [accounts EXCEPT ![u] = a]
      BY <1>0, <2>1, <2>5 DEF SetPasswordWrite
    <3> HIDE DEF a, u
    <3> QED BY <2>1, <3>1, <3>2, OneSameMembers
  <2> QED BY <1>4, <2>3, <2>4, <2>5
<1>5. ASSUME NEW u \in Reviewers, NEW n \in Names, NEW w \in Workspaces, Register(p, u, n, w)
      PROVE  SameMembers
  <2>1. ASSUME NEW v \in Reviewers, accounts'[v] # NoUser, accounts'[v].pilot
        PROVE  Known(v) /\ accounts'[v] = accounts[v]
    BY <1>0, <1>5, <2>1 DEF Register, Known
  <2> QED BY <2>1 DEF SameMembers
<1> QED BY <1>1, <1>4, <1>5

LEMMA TimeSameMembers ==
  ASSUME Typed, NEW u \in Reviewers, Lapse(u) \/ AccountEnds(u)
  PROVE  SameMembers
<1>0. /\ accounts \in [Reviewers -> Account \cup {NoUser}] /\ members' = members
      /\ Known(u) /\ accounts[u] \in Account
  BY DEF Typed, AccountTypes, Lapse, AccountEnds, Known
<1>1. CASE Lapse(u)
  <2> DEFINE a == [accounts[u] EXCEPT !.lapsed = TRUE]
  <2>1. a \in Account /\ a.pilot = accounts[u].pilot /\ a.ws = accounts[u].ws
    BY <1>0 DEF Account
  <2>2. accounts' = [accounts EXCEPT ![u] = a]
    BY <1>0, <1>1 DEF Lapse
  <2> HIDE DEF a
  <2> QED BY <1>0, <2>1, <2>2, OneSameMembers
<1>2. CASE AccountEnds(u)
  <2> DEFINE a == [accounts[u] EXCEPT !.ended = TRUE]
  <2>1. a \in Account /\ a.pilot = accounts[u].pilot /\ a.ws = accounts[u].ws
    BY <1>0 DEF Account
  <2>2. accounts' = [accounts EXCEPT ![u] = a]
    BY <1>0, <1>2 DEF AccountEnds
  <2> HIDE DEF a
  <2> QED BY <1>0, <2>1, <2>2, OneSameMembers
<1> QED BY <1>1, <1>2

LEMMA KeptMembers ==
  ASSUME Typed, MemberInv, \A q \in Requests : Kept(q), SameMembers, open' \subseteq Requests
  PROVE  MemberInv'
<1>1. ASSUME NEW p \in Requests, NEW q \in Requests, Holds(p)', Holds(q)', p # q
      PROVE  job'[p].user # job'[q].user
  <2>1. /\ Holds(p) /\ job'[p] = job[p]
        /\ Holds(q) /\ job'[q] = job[q]
    BY <1>1 DEF Kept, Holds
  <2> QED BY <1>1, <2>1 DEF MemberInv
<1>2. ASSUME NEW p \in open'
      PROVE  job'[p].replaces = Of(job[p].user)'
  <2>1. p \in open /\ job'[p] = job[p]
    BY <1>2 DEF Kept
  <2> QED BY <2>1 DEF MemberInv, Of, SameMembers
<1>3. OneMembership'
  BY DEF MemberInv, OneMembership, SameMembers, Known
<1> QED BY <1>1, <1>2, <1>3 DEF MemberInv

(* A row is locked by the transaction that updates it, and by no second    *)
(* one until this one has ended.                                           *)
LEMMA WriteLocks ==
  ASSUME Typed, MemberInv, NEW p \in Requests, InviteWrite(p), open' \subseteq Requests
  PROVE  MemberInv'
<1>0. RequestOK(p) /\ job[p] \in Job
  BY DEF Typed, AccountTypes
<1>1. /\ pc[p] = "inviting" /\ p \notin open /\ open' = open
      /\ UNCHANGED <<accounts, members>>
  BY <1>0 DEF InviteWrite, sampleVars, accountVars, RequestOK
<1>2. SameMembers
  BY <1>1, OthersSameMembers
<1>3. CASE End(p, job[p].ws, p)
  <2>1. /\ pc' = [pc EXCEPT ![p] = "done"] /\ \A q \in Requests \ {p} : job'[q] = job[q]
        /\ p \notin open' /\ open' \subseteq open
    BY <1>1, <1>3 DEF End, Typed, AccountTypes
  <2>2. \A q \in Requests : Kept(q)
    BY <2>1, LeavesKept
  <2> QED BY <1>2, <2>2, KeptMembers
<1>4. CASE Goto(p, "joining")
  <2>1. /\ pc'[p] = "joining" /\ job' = job /\ \A q \in Requests \ {p} : pc'[q] = pc[q]
    BY <1>4 DEF Goto, Typed, AccountTypes
  <2>2. ASSUME NEW q \in Requests \ {p}, Holds(q)'
        PROVE  Holds(q) /\ job[q].user # job[p].user
    <3>1. Holds(q)
      BY <1>1, <2>1, <2>2 DEF Holds
    <3>2. pc[q] = "joining" \/ (pc[q] = "seeding" /\ q \in open)
      BY <3>1 DEF Holds, Typed, RequestOK
    <3> QED BY <3>1, <3>2 DEF InviteWrite, Locked
  <2>3. ASSUME NEW q \in Requests, NEW r \in Requests, Holds(q)', Holds(r)', q # r
        PROVE  job'[q].user # job'[r].user
    BY <2>1, <2>2, <2>3 DEF MemberInv
  <2>4. \A q \in open' : job'[q].replaces = Of(job[q].user)'
    BY <1>1, <2>1 DEF MemberInv, Of
  <2>5. OneMembership'
    BY <1>1 DEF MemberInv, OneMembership, Known
  <2> QED BY <2>3, <2>4, <2>5 DEF MemberInv
<1> QED BY <1>3, <1>4 DEF InviteWrite

(* The memberships to be replaced are read under the lock ...              *)
LEMMA JoinReads ==
  ASSUME Typed, MemberInv, NEW p \in Requests, InviteJoin(p), open' \subseteq Requests
  PROVE  MemberInv'
<1>1. /\ pc[p] = "joining" /\ pc'[p] = "seeding" /\ open' = open \cup {p}
      /\ \A q \in Requests \ {p} : pc'[q] = pc[q] /\ job'[q] = job[q]
      /\ job'[p] = [job[p] EXCEPT !.replaces = Of(job[p].user)]
      /\ UNCHANGED <<accounts, members>> /\ job[p] \in Job
  BY DEF InviteJoin, Typed, AccountTypes, Sample!SeedBegin, accountVars, Of
<1>2. job'[p].user = job[p].user /\ job'[p].replaces = Of(job[p].user)
  BY <1>1 DEF Job
<1>3. ASSUME NEW q \in Requests, Holds(q)'
      PROVE  Holds(q) /\ job'[q].user = job[q].user
  BY <1>1, <1>2, <1>3 DEF Holds
<1>4. ASSUME NEW q \in open'
      PROVE  job'[q].replaces = Of(job[q].user)'
  <2>1. CASE q = p
    BY <1>1, <1>2, <2>1 DEF Of
  <2>2. CASE q # p
    BY <1>1, <1>4, <2>2 DEF Of, MemberInv
  <2> QED BY <2>1, <2>2
<1>5. OneMembership'
  BY <1>1 DEF MemberInv, OneMembership, Known
<1> QED BY <1>3, <1>4, <1>5 DEF MemberInv

(* ... and are still all there are when the transaction commits.           *)
LEMMA CommitReplaces ==
  ASSUME Typed, MemberInv, NEW p \in Requests, InviteCommit(p), open' \subseteq Requests
  PROVE  MemberInv'
<1> USE ReviewersAssumption
<1> DEFINE u == job[p].user
           w == job[p].ws
           m == [user |-> u, ws |-> w, by |-> p]
<1>0. RequestOK(p) /\ job[p] \in Job /\ accounts \in [Reviewers -> Account \cup {NoUser}]
  BY DEF Typed, AccountTypes
<1>1. /\ u \in Reviewers /\ w \in Workspaces /\ p \in open
  BY <1>0 DEF InviteCommit, RequestOK
<1>2. /\ accounts' = [accounts EXCEPT ![u] = Invited(p, accounts[u])]
      /\ members' = (members \ Of(u)) \cup {m}
      /\ End(p, w, p) /\ open' = open \ {p}
  BY <1>1 DEF InviteCommit, Sample!SeedEnd, MemberInv
<1>3. /\ accounts'[u].ws = w /\ \A v \in Reviewers \ {u} : accounts'[v] = accounts[v]
      /\ {x \in members' : x.user = u} = {m} /\ m.ws = w /\ m.user = u
  <2>1. accounts'[u].ws = w /\ \A v \in Reviewers \ {u} : accounts'[v] = accounts[v]
    BY <1>0, <1>1, <1>2 DEF Invited
  <2>2. m.ws = w /\ m.user = u
    OBVIOUS
  <2> HIDE DEF m, u, w
  <2>3. {x \in members' : x.user = u} = {m}
    BY <1>2, <2>2 DEF Of
  <2> QED BY <2>1, <2>2, <2>3
<1>4. \A v \in Reviewers \ {u} : Of(v)' = Of(v)
  BY <1>2 DEF Of
<1>5. \A q \in Requests : Kept(q)
  <2>1. pc' = [pc EXCEPT ![p] = "done"] /\ \A q \in Requests \ {p} : job'[q] = job[q]
    BY <1>2 DEF End, Typed, AccountTypes
  <2> QED BY <1>2, <2>1, LeavesKept
<1>6. ASSUME NEW q \in Requests, NEW r \in Requests, Holds(q)', Holds(r)', q # r
      PROVE  job'[q].user # job'[r].user
  <2>1. Holds(q) /\ job'[q] = job[q] /\ Holds(r) /\ job'[r] = job[r]
    BY <1>5, <1>6 DEF Kept, Holds
  <2> QED BY <1>6, <2>1 DEF MemberInv
<1>7. ASSUME NEW q \in open'
      PROVE  job'[q].replaces = Of(job[q].user)'
  <2>1. q \in open /\ q # p /\ job'[q] = job[q] /\ q \in Requests
    BY <1>2, <1>5, <1>7 DEF Kept
  <2>2. job[q].user # u /\ job[q].user \in Reviewers
    BY <1>1, <2>1 DEF MemberInv, Holds, Typed, RequestOK
  <2>3. Of(job[q].user)' = Of(job[q].user)
    <3>1. \A v \in Reviewers \ {u} : {x \in members' : x.user = v} = Of(v)
      BY <1>2 DEF Of
    <3>2. {x \in members' : x.user = job[q].user} = Of(job[q].user)
      BY <2>2, <3>1
    <3> QED BY <2>1, <3>2 DEF Of
  <2> QED BY <2>1, <2>3 DEF MemberInv
<1>8. OneMembership'
  <2>1. ASSUME NEW v \in Reviewers, accounts'[v] # NoUser, accounts'[v].pilot
        PROVE  \E x \in members' : {n \in members' : n.user = v} = {x} /\ x.ws = accounts'[v].ws
    <3>1. CASE v = u
      BY <1>2, <1>3, <3>1 DEF Of
    <3>2. CASE v # u
      <4>1. Known(v) /\ accounts[v].pilot /\ accounts'[v] = accounts[v]
        BY <1>3, <2>1, <3>2 DEF Known
      <4>2. PICK x \in members : {n \in members : n.user = v} = {x} /\ x.ws = accounts[v].ws
        BY <4>1 DEF MemberInv, OneMembership
      <4>3. x.user = v
        BY <4>2
      <4>4. {n \in members' : n.user = v} = {n \in members : n.user = v}
        BY <1>2, <3>2 DEF Of
      <4>5. x \in members'
        BY <4>2, <4>4
      <4> QED BY <4>1, <4>2, <4>4, <4>5
    <3> QED BY <3>1, <3>2
  <2> QED BY <2>1 DEF OneMembership, Known
<1> QED BY <1>6, <1>7, <1>8 DEF MemberInv

LEMMA StepKeepsMembers ==
  ASSUME Typed, MemberInv, open' \subseteq Requests, [Next]_vars
  PROVE  MemberInv'
<1>1. ASSUME pc' = pc, job' = job, open' = open
      PROVE  \A q \in Requests : Kept(q)
  BY <1>1 DEF Kept, Holds
<1>2. CASE UNCHANGED vars
  BY <1>2 DEF vars, requestVars, sampleVars, accountVars, MemberInv, Holds, Of, OneMembership,
              Known
<1>3. ASSUME NEW p \in Requests, (\A q \in Requests : Kept(q)) /\ members' = members,
             \/ accounts' = accounts
             \/ DeactivateWrite(p) \/ RegenerateWrite(p) \/ SetPasswordWrite(p)
             \/ \E u \in Reviewers, n \in Names, w \in Workspaces : Register(p, u, n, w)
      PROVE  MemberInv'
  <2>1. SameMembers
    BY <1>3, OthersSameMembers
  <2> QED BY <1>3, <2>1, KeptMembers
<1>4. ASSUME NEW p \in Requests, \/ \E u \in Reviewers, n \in Names : InviteFind(p, u, n)
                                 \/ InviteFound(p)
      PROVE  MemberInv'
  <2>1. accounts' = accounts
    BY <1>4 DEF InviteFind, InviteFound, accountVars
  <2>2. (\A q \in Requests : Kept(q)) /\ members' = members
    BY <1>4, OthersKept
  <2> QED BY <1>3, <2>1, <2>2
<1>5. ASSUME NEW p \in Requests,
             \E u \in Reviewers :
                   \/ DeactivateRead(p, u) \/ RegenerateRead(p, u) \/ LoginRead(p, u)
                   \/ \E link \in Requests : SetPasswordRead(p, u, link)
      PROVE  MemberInv'
  <2>1. accounts' = accounts
    BY <1>5 DEF DeactivateRead, RegenerateRead, LoginRead, SetPasswordRead, accountVars
  <2>2. (\A q \in Requests : Kept(q)) /\ members' = members
    BY <1>5, OthersKept
  <2> QED BY <1>3, <2>1, <2>2
<1>6. ASSUME NEW p \in Requests,
             DeactivateWrite(p) \/ RegenerateWrite(p) \/ SetPasswordWrite(p) \/ LoginWrite(p)
      PROVE  MemberInv'
  <2>1. LoginWrite(p) => accounts' = accounts
    BY DEF LoginWrite
  <2>2. (\A q \in Requests : Kept(q)) /\ members' = members
    BY <1>6, OthersKept
  <2> QED BY <1>3, <1>6, <2>1, <2>2
<1>7. ASSUME NEW p \in Requests,
             \/ \E w \in Workspaces, force \in BOOLEAN : SeedScript(p, w, force)
             \/ SeedAnswer(p)
      PROVE  MemberInv'
  <2>1. accounts' = accounts
    BY <1>7 DEF SeedScript, SeedAnswer, accountVars
  <2>2. (\A q \in Requests : Kept(q)) /\ members' = members
    BY <1>7, OthersKept
  <2> QED BY <1>3, <2>1, <2>2
<1>8. ASSUME NEW p \in Requests, NEW u \in Reviewers, NEW n \in Names, NEW w \in Workspaces,
             Register(p, u, n, w)
      PROVE  MemberInv'
  <2>1. /\ p \notin open /\ open' = open /\ members' = members
        /\ pc' = [pc EXCEPT ![p] = "done"] /\ \A q \in Requests \ {p} : job'[q] = job[q]
    BY <1>8 DEF Register, Idle, sampleVars, Typed, RequestOK, AccountTypes
  <2>2. \A q \in Requests : Kept(q)
    BY <2>1, LeavesKept
  <2> QED BY <1>3, <1>8, <2>1, <2>2
<1>9. ASSUME NEW p \in Requests, Seed(p) \/ EditProfile(p)
      PROVE  MemberInv'
  <2>1. pc' = pc /\ job' = job /\ accounts' = accounts /\ members' = members
    BY <1>9 DEF Seed, EditProfile, requestVars, accountVars
  <2>2. open' = open
    BY <1>9 DEF Seed, Sample!SeedStep, Sample!SeedCount, Sample!SeedDelete, Sample!SeedCreate,
                Sample!ReportCount, Sample!ReportCreate, EditProfile, sampleVars
  <2> QED BY <1>1, <1>3, <2>1, <2>2
<1>10. ASSUME NEW u \in Reviewers, Lapse(u) \/ AccountEnds(u)
       PROVE  MemberInv'
  <2>1. pc' = pc /\ job' = job /\ members' = members /\ open' = open
    BY <1>10 DEF Lapse, AccountEnds, requestVars, sampleVars
  <2>2. \A q \in Requests : Kept(q)
    BY <1>1, <2>1
  <2>3. SameMembers
    BY <1>10, TimeSameMembers
  <2> QED BY <2>2, <2>3, KeptMembers
<1>11. ASSUME NEW w \in Workspaces, UserDeletes(w)
       PROVE  MemberInv'
  <2>1. /\ pc' = pc /\ job' = job /\ members' = members /\ open' = open /\ accounts' = accounts
    BY <1>11 DEF UserDeletes, Sample!UserDeletes, requestVars, accountVars
  <2>2. SameMembers
    BY <2>1 DEF SameMembers, Known
  <2> QED BY <1>1, <2>1, <2>2, KeptMembers
<1>12. ASSUME NEW P \in SUBSET Requests, Fail(P)
       PROVE  MemberInv'
  <2>1. members' = members /\ accounts' = accounts
    BY <1>12 DEF Fail, accountVars
  <2>2. ASSUME NEW q \in Requests
        PROVE  Kept(q)
    <3>1. /\ pc'[q] = IF q \in P THEN "done" ELSE pc[q]
          /\ job'[q] = IF q \in P THEN About(q, job[q].ws, job[q].secret) ELSE job[q]
          /\ open' = open \ P
      BY <1>12 DEF Fail, Sample!SeedLost
    <3> QED BY <3>1 DEF Kept, Holds
  <2>3. SameMembers
    BY <2>1 DEF SameMembers, Known
  <2> QED BY <2>1, <2>2, <2>3, KeptMembers
<1>13. CASE Next
  BY <1>4, <1>5, <1>6, <1>7, <1>8, <1>9, <1>10, <1>11, <1>12, <1>13, WriteLocks, JoinReads,
     CommitReplaces DEF Next
<1> QED BY <1>2, <1>13

(* A reviewer is a member of the account's workspace and of no other,      *)
(* however many invitations of one e-mail address run at a time: only one  *)
(* transaction at a time has the row of an account, and it replaces the    *)
(* memberships of that account while it has it.                            *)
THEOREM ReviewersHaveOneMembership == Spec => []OneMembership
<1>1. Init => MemberInv
  BY ReviewersAssumption DEF Init, Sample!SampleInit, MemberInv, Holds, OneMembership, Known
<1>2. Typed /\ Sample!SampleTypeOK /\ (Typed /\ Sample!SampleTypeOK)' /\ MemberInv /\ [Next]_vars
         => MemberInv'
  BY StepKeepsMembers DEF Sample!SampleTypeOK
<1>3. MemberInv => OneMembership
  BY DEF MemberInv
<1> QED BY <1>1, <1>2, <1>3, Always, PTL DEF Spec

-----------------------------------------------------------------------------
(* Links, passwords and sessions.  Who issued a link is done, and its job  *)
(* remembers for whom, and for which workspace, it was.                    *)

LinkOK(u) ==
    LET a == accounts[u]
    IN  Known(u) =>
          /\ a.link # NoRequest =>
                pc[a.link] = "done" /\ job[a.link].user = u /\ job[a.link].ws = a.ws
          /\ a.password # NoRequest =>
                pc[a.password] = "done" /\ (u \notin raced => job[a.password].ws = a.ws)
          /\ u \notin raced /\ a.used => a.password = a.link

SecretOK(p) ==
    LET j == job[p]
    IN  /\ pc[p] = "hashing" => pc[j.secret] = "done" /\ job[j.secret].user = j.user
        /\ pc[p] = "comparing" \/ (pc[p] = "seeding" /\ p \notin open /\ j.secret # NoRequest) =>
              pc[j.secret] = "done" /\ (j.user \notin raced => job[j.secret].ws = j.ws)

SessionOK(s) == pc[s.secret] = "done" /\ (s.user \notin raced => job[s.secret].ws = s.ws)

Spent(u, link) == u \notin raced /\ Known(u) /\ accounts[u].link = link => accounts[u].used

WrittenOK(x) ==
    /\ pc[x.link] = "done" /\ pc[x.by] \in {"seeding", "done"}
    /\ job[x.by].user \in Reviewers /\ job[x.link].user = job[x.by].user
    /\ Spent(job[x.by].user, x.link)

TokenInv ==
    /\ \A u \in Reviewers : LinkOK(u)
    /\ \A p \in Requests : SecretOK(p)
    /\ \A s \in sessions : SessionOK(s)
    /\ \A x \in written : WrittenOK(x)
    /\ LinkWorksOnce

(* What is remembered of a request that is done is not forgotten.          *)
Remembered ==
    \A q \in Requests :
        /\ pc[q] = "done" => pc'[q] = "done" /\ job'[q] = job[q]
        /\ pc[q] = "seeding" => pc'[q] \in {"seeding", "done"} /\ job'[q].user = job[q].user

(* A step of one request that is not done yet remembers the others.        *)
LEMMA OneRemembers ==
  ASSUME Typed, NEW p \in Requests, pc[p] # "done",
         \A q \in Requests \ {p} : pc'[q] = pc[q] /\ job'[q] = job[q],
         pc[p] = "seeding" => pc'[p] \in {"seeding", "done"} /\ job'[p].user = job[p].user
  PROVE  Remembered
BY DEF Remembered

LEMMA LinkStays ==
  ASSUME Typed, TokenInv, Remembered, raced \subseteq raced', NEW u \in Reviewers,
         accounts'[u] = accounts[u]
  PROVE  LinkOK(u)'
<1> DEFINE a == accounts[u]
<1>1. CASE ~ Known(u)
  BY <1>1 DEF LinkOK, Known
<1>2. CASE Known(u)
  <2>1. a \in Account /\ a.link \in Secrets /\ a.password \in Secrets
    BY <1>2 DEF Typed, AccountTypes, Known, Account
  <2>2. LinkOK(u)
    BY DEF TokenInv
  <2>3. a.link # NoRequest => a.link \in Requests
    BY <2>1 DEF Secrets
  <2>4. a.password # NoRequest => a.password \in Requests
    BY <2>1 DEF Secrets
  <2>5. a.link # NoRequest => pc'[a.link] = "done" /\ job'[a.link].user = u /\ job'[a.link].ws = a.ws
    BY <1>2, <2>2, <2>3 DEF LinkOK, Remembered
  <2>6. a.password # NoRequest =>
           pc'[a.password] = "done" /\ (u \notin raced' => job'[a.password].ws = a.ws)
    BY <1>2, <2>2, <2>4 DEF LinkOK, Remembered
  <2>7. u \notin raced' /\ a.used => a.password = a.link
    BY <1>2, <2>2 DEF LinkOK
  <2> HIDE DEF a
  <2>8. accounts'[u] = a
    BY DEF a
  <2> QED BY <2>5, <2>6, <2>7, <2>8 DEF LinkOK
<1> QED BY <1>1, <1>2

LEMMA SecretStays ==
  ASSUME Typed, TokenInv, Remembered, raced \subseteq raced', NEW p \in Requests,
         pc'[p] = pc[p], job'[p] = job[p], p \notin open' => p \notin open
  PROVE  SecretOK(p)'
<1>1. RequestOK(p) /\ SecretOK(p) /\ job[p] \in Job
  BY DEF Typed, TokenInv, AccountTypes
<1>2. pc[p] \in {"hashing", "comparing"} \/ (pc[p] = "seeding" /\ job[p].secret # NoRequest) =>
         job[p].secret \in Requests
  BY <1>1 DEF RequestOK, Job, Secrets
<1> QED BY <1>1, <1>2 DEF SecretOK, Remembered

LEMMA SessionStays ==
  ASSUME Typed, TokenInv, Remembered, raced \subseteq raced', NEW s \in sessions
  PROVE  SessionOK(s)'
<1>1. s.secret \in Requests
  BY DEF Typed, AccountTypes
<1> QED BY <1>1 DEF TokenInv, SessionOK, Remembered

LEMMA WrittenStays ==
  ASSUME Typed, TokenInv, Remembered, NEW x \in written, Spent(job[x.by].user, x.link)'
  PROVE  WrittenOK(x)'
<1>1. x.link \in Requests /\ x.by \in Requests
  BY DEF Typed, AccountTypes
<1> QED BY <1>1 DEF TokenInv, WrittenOK, Remembered

(* A link somebody has set a password with stays spent, as long as the     *)
(* account keeps it and who raced is told.                                 *)
LEMMA SpentStays ==
  ASSUME Typed, TokenInv, Remembered, raced \subseteq raced', NEW x \in written,
         \A u \in Reviewers \ raced' :
            accounts'[u] # NoUser /\ accounts'[u].link = x.link =>
               \/ accounts'[u].used
               \/ Known(u) /\ accounts[u].link = x.link /\ ~ accounts[u].used
  PROVE  WrittenOK(x)'
<1>1. x.link \in Requests /\ x.by \in Requests /\ WrittenOK(x)
  BY DEF Typed, AccountTypes, TokenInv
<1>2. job'[x.by].user = job[x.by].user /\ job[x.by].user \in Reviewers
  BY <1>1 DEF WrittenOK, Remembered
<1>3. Spent(job[x.by].user, x.link)'
  BY <1>1, <1>2 DEF WrittenOK, Spent, Known
<1> QED BY <1>3, WrittenStays

LEMMA OnceStays ==
  ASSUME Typed, TokenInv, Remembered, raced \subseteq raced', written' = written
  PROVE  LinkWorksOnce'
<1>1. \A x \in written : x.by \in Requests /\ job'[x.by].user = job[x.by].user
  <2>1. ASSUME NEW x \in written
        PROVE  x.by \in Requests /\ WrittenOK(x)
    BY DEF Typed, AccountTypes, TokenInv
  <2> QED BY <2>1 DEF WrittenOK, Remembered
<1> QED BY <1>1 DEF TokenInv, LinkWorksOnce

(* A step that changes one request and no account, and takes up no secret. *)
Quiet(q) ==
    \/ pc'[q] = pc[q] /\ job'[q] = job[q] /\ (q \notin open' => q \notin open)
    \/ /\ pc'[q] \notin {"hashing", "comparing"}
       /\ pc'[q] = "seeding" => q \in open' \/ job'[q].secret = NoRequest

LEMMA QuietStep ==
  ASSUME Typed, TokenInv, Remembered, \A q \in Requests : Quiet(q),
         UNCHANGED <<accounts, sessions, written, raced>>
  PROVE  TokenInv'
<1>1. \A u \in Reviewers : LinkOK(u)'
  BY LinkStays
<1>2. ASSUME NEW q \in Requests
      PROVE  SecretOK(q)'
  <2>1. CASE pc'[q] = pc[q] /\ job'[q] = job[q] /\ (q \notin open' => q \notin open)
    BY <2>1, SecretStays
  <2>2. CASE /\ pc'[q] \notin {"hashing", "comparing"}
             /\ pc'[q] = "seeding" => q \in open' \/ job'[q].secret = NoRequest
    BY <2>2 DEF SecretOK
  <2> QED BY <2>1, <2>2 DEF Quiet
<1>3. \A s \in sessions' : SessionOK(s)'
  BY SessionStays
<1>4. \A x \in written' : WrittenOK(x)'
  BY SpentStays DEF Known
<1>5. LinkWorksOnce'
  BY OnceStays
<1> QED BY <1>1, <1>2, <1>3, <1>4, <1>5 DEF TokenInv

LEMMA StepRemembers ==
  ASSUME Typed, [Next]_vars
  PROVE  Remembered
<1>0. /\ job \in [Requests -> Job] /\ DOMAIN pc = Requests
      /\ \A p \in Requests : RequestOK(p)
  BY DEF Typed, AccountTypes
<1>1. ASSUME pc' = pc, job' = job
      PROVE  Remembered
  <2>1. \A q \in Requests : pc[q] = "seeding" => pc[q] \in {"seeding", "done"}
    OBVIOUS
  <2> QED BY <1>1, <2>1 DEF Remembered
<1>2. ASSUME NEW p \in Requests, NEW step, NEW j,
             pc' = [pc EXCEPT ![p] = step], job' = [job EXCEPT ![p] = j],
             pc[p] \notin {"seeding", "done"}
      PROVE  Remembered
  <2>1. \A q \in Requests \ {p} : pc'[q] = pc[q] /\ job'[q] = job[q]
    BY <1>0, <1>2
  <2> QED BY <1>2, <2>1, OneRemembers
<1>3. ASSUME NEW p \in Requests, NEW w, NEW secret, End(p, w, secret), pc[p] # "done"
      PROVE  Remembered
  <2>1. /\ \A q \in Requests \ {p} : pc'[q] = pc[q] /\ job'[q] = job[q]
        /\ pc'[p] = "done" /\ job'[p].user = job[p].user
    BY <1>0, <1>3 DEF End, About, NoJob
  <2> QED BY <1>3, <2>1, OneRemembers
<1>4. ASSUME NEW p \in Requests,
             \/ \E u \in Reviewers, n \in Names : InviteFind(p, u, n)
             \/ \E u \in Reviewers :
                   \/ DeactivateRead(p, u) \/ RegenerateRead(p, u) \/ LoginRead(p, u)
                   \/ \E link \in Requests : SetPasswordRead(p, u, link)
      PROVE  Remembered
  <2>1. ASSUME NEW step, NEW u, NEW w, NEW n, NEW secret, Start(p, step, u, w, n, secret)
        PROVE  Remembered
    BY <1>2, <2>1 DEF Start, Idle
  <2> QED BY <1>4, <2>1 DEF InviteFind, DeactivateRead, RegenerateRead, LoginRead, SetPasswordRead
<1>5. ASSUME NEW p \in Requests, InviteFound(p)
      PROVE  Remembered
  <2>1. ASSUME NEW w \in Workspaces, pc' = [pc EXCEPT ![p] = "inviting"],
               job' = [job EXCEPT ![p].ws = w, ![p].seen = accounts[job[p].user]]
        PROVE  Remembered
    <3>1. \A q \in Requests \ {p} : pc'[q] = pc[q] /\ job'[q] = job[q]
      BY <1>0, <2>1
    <3> QED BY <1>5, <3>1, OneRemembers DEF InviteFound
  <2> QED BY <1>3, <1>5, <2>1 DEF InviteFound
<1>6. ASSUME NEW p \in Requests, InviteWrite(p) \/ InviteJoin(p)
      PROVE  Remembered
  <2>1. CASE InviteWrite(p) /\ End(p, job[p].ws, p)
    BY <1>3, <2>1 DEF InviteWrite
  <2>2. CASE InviteWrite(p) /\ Goto(p, "joining")
    <3>1. \A q \in Requests \ {p} : pc'[q] = pc[q] /\ job'[q] = job[q]
      BY <1>0, <2>2 DEF Goto
    <3> QED BY <2>2, <3>1, OneRemembers DEF InviteWrite
  <2>3. CASE InviteJoin(p)
    <3>1. \A q \in Requests \ {p} : pc'[q] = pc[q] /\ job'[q] = job[q]
      BY <1>0, <2>3 DEF InviteJoin
    <3> QED BY <2>3, <3>1, OneRemembers DEF InviteJoin
  <2> QED BY <1>6, <2>1, <2>2, <2>3 DEF InviteWrite
<1>7. ASSUME NEW p \in Requests,
             \/ InviteCommit(p) \/ DeactivateWrite(p) \/ RegenerateWrite(p) \/ SeedAnswer(p)
      PROVE  Remembered
  BY <1>3, <1>7 DEF InviteCommit, DeactivateWrite, RegenerateWrite, SeedAnswer
<1>8. ASSUME NEW p \in Requests, SetPasswordWrite(p) \/ LoginWrite(p)
      PROVE  Remembered
  <2>1. \/ \E w, secret : End(p, w, secret)
        \/ \E j : pc' = [pc EXCEPT ![p] = "seeding"] /\ job' = [job EXCEPT ![p] = j]
    BY <1>8 DEF SetPasswordWrite, LoginWrite, Answer
  <2>2. pc[p] \notin {"seeding", "done"}
    BY <1>8 DEF SetPasswordWrite, LoginWrite
  <2> QED BY <1>2, <1>3, <2>1, <2>2
<1>9. ASSUME NEW p \in Requests,
             \/ \E w \in Workspaces, force \in BOOLEAN : SeedScript(p, w, force)
             \/ \E u \in Reviewers, n \in Names, w \in Workspaces : Register(p, u, n, w)
      PROVE  Remembered
  <2>1. \A q \in Requests \ {p} : pc'[q] = pc[q] /\ job'[q] = job[q]
    BY <1>0, <1>9 DEF SeedScript, Register
  <2>2. pc[p] = "idle"
    BY <1>9 DEF SeedScript, Register, Idle
  <2> QED BY <2>1, <2>2, OneRemembers
<1>10. ASSUME NEW P \in SUBSET Requests, Fail(P)
       PROVE  Remembered
  <2>1. ASSUME NEW q \in Requests
        PROVE  /\ pc'[q] = IF q \in P THEN "done" ELSE pc[q]
               /\ job'[q].user = job[q].user
               /\ q \notin P => job'[q] = job[q]
    BY <1>10 DEF Fail, About, NoJob
  <2>2. \A q \in P : pc[q] # "done"
    BY <1>10 DEF Fail
  <2> QED BY <2>1, <2>2 DEF Remembered
<1>11. ASSUME \/ UNCHANGED vars
              \/ \E p \in Requests : Seed(p) \/ EditProfile(p)
              \/ \E u \in Reviewers : Lapse(u) \/ AccountEnds(u)
              \/ \E w \in Workspaces : UserDeletes(w)
       PROVE  Remembered
  BY <1>1, <1>11 DEF vars, requestVars, Seed, EditProfile, Lapse, AccountEnds, UserDeletes
<1> QED BY <1>4, <1>5, <1>6, <1>7, <1>8, <1>9, <1>10, <1>11 DEF Next

(* The steps that neither write an account nor hand out a session nor take *)
(* up a secret.                                                            *)
LEMMA QuietSteps ==
  ASSUME Typed, TokenInv, Remembered, NEW p \in Requests,
         \/ \E u \in Reviewers, n \in Names : InviteFind(p, u, n)
         \/ InviteFound(p) \/ InviteWrite(p) \/ InviteJoin(p)
         \/ \E u \in Reviewers : DeactivateRead(p, u) \/ RegenerateRead(p, u)
         \/ \E w \in Workspaces, force \in BOOLEAN : SeedScript(p, w, force)
         \/ Seed(p) \/ EditProfile(p)
  PROVE  TokenInv'
<1>0. /\ job \in [Requests -> Job] /\ DOMAIN pc = Requests /\ RequestOK(p)
  BY DEF Typed, AccountTypes
<1>1. ASSUME \A q \in Requests \ {p} : pc'[q] = pc[q] /\ job'[q] = job[q], open \subseteq open',
             pc'[p] \notin {"hashing", "comparing"},
             pc'[p] = "seeding" => p \in open' \/ job'[p].secret = NoRequest,
             UNCHANGED <<accounts, sessions, written, raced>>
      PROVE  TokenInv'
  <2>1. \A q \in Requests : Quiet(q)
    BY <1>0, <1>1 DEF Quiet
  <2> QED BY <1>1, <2>1, QuietStep
<1>2. ASSUME NEW step, NEW u, NEW w, NEW n, NEW secret, step \notin {"hashing", "comparing", "seeding"},
             Start(p, step, u, w, n, secret), UNCHANGED <<accountVars, sampleVars>>
      PROVE  TokenInv'
  <2>1. /\ pc'[p] = step /\ open' = open
        /\ \A q \in Requests \ {p} : pc'[q] = pc[q] /\ job'[q] = job[q]
        /\ UNCHANGED <<accounts, sessions, written, raced>>
    BY <1>0, <1>2 DEF Start, sampleVars, accountVars
  <2> QED BY <1>1, <1>2, <2>1
<1>3. ASSUME NEW w, NEW secret, End(p, w, secret), open' = open,
             UNCHANGED <<accounts, sessions, written, raced>>
      PROVE  TokenInv'
  <2>1. pc'[p] = "done" /\ \A q \in Requests \ {p} : pc'[q] = pc[q] /\ job'[q] = job[q]
    BY <1>0, <1>3 DEF End
  <2> QED BY <1>1, <1>3, <2>1
<1>4. CASE \/ \E u \in Reviewers, n \in Names : InviteFind(p, u, n)
           \/ \E u \in Reviewers : DeactivateRead(p, u) \/ RegenerateRead(p, u)
  BY <1>2, <1>4 DEF InviteFind, DeactivateRead, RegenerateRead
<1>5. CASE InviteFound(p)
  <2>1. open' = open /\ UNCHANGED <<accounts, sessions, written, raced>>
    BY <1>5 DEF InviteFound, sampleVars, accountVars
  <2>2. ASSUME NEW w \in Workspaces, pc' = [pc EXCEPT ![p] = "inviting"],
               job' = [job EXCEPT ![p].ws = w, ![p].seen = accounts[job[p].user]]
        PROVE  TokenInv'
    <3>1. pc'[p] = "inviting" /\ \A q \in Requests \ {p} : pc'[q] = pc[q] /\ job'[q] = job[q]
      BY <1>0, <2>2
    <3> QED BY <1>1, <2>1, <2>2, <3>1
  <2> QED BY <1>3, <1>5, <2>1, <2>2 DEF InviteFound
<1>6. CASE InviteWrite(p)
  <2>1. open' = open /\ UNCHANGED <<accounts, sessions, written, raced>>
    BY <1>6 DEF InviteWrite, sampleVars, accountVars
  <2>2. CASE Goto(p, "joining")
    <3>1. pc'[p] = "joining" /\ \A q \in Requests \ {p} : pc'[q] = pc[q] /\ job'[q] = job[q]
      BY <1>0, <2>2 DEF Goto
    <3> QED BY <1>1, <2>1, <3>1
  <2> QED BY <1>3, <1>6, <2>1, <2>2 DEF InviteWrite
<1>7. CASE InviteJoin(p)
  <2>1. /\ open' = open \cup {p} /\ UNCHANGED <<accounts, sessions, written, raced>>
        /\ pc'[p] = "seeding" /\ \A q \in Requests \ {p} : pc'[q] = pc[q] /\ job'[q] = job[q]
    BY <1>0, <1>7 DEF InviteJoin, accountVars, Sample!SeedBegin
  <2> QED BY <1>1, <2>1
<1>8. ASSUME NEW w \in Workspaces, NEW force \in BOOLEAN, SeedScript(p, w, force)
      PROVE  TokenInv'
  <2>1. /\ open' = open /\ UNCHANGED <<accounts, sessions, written, raced>>
        /\ pc'[p] = "seeding" /\ \A q \in Requests \ {p} : pc'[q] = pc[q] /\ job'[q] = job[q]
        /\ job[p] = NoJob /\ job'[p] = [job[p] EXCEPT !.ws = w]
    BY <1>0, <1>8 DEF SeedScript, Idle, RequestOK, accountVars, Sample!SeedBegin
  <2>2. job'[p].secret = NoRequest
    BY <2>1 DEF NoJob
  <2> QED BY <1>1, <2>1, <2>2
<1>9. CASE Seed(p) \/ EditProfile(p)
  <2>1. pc' = pc /\ job' = job /\ UNCHANGED <<accounts, sessions, written, raced>>
    BY <1>9 DEF Seed, EditProfile, requestVars, accountVars
  <2>2. open' = open
    BY <1>9 DEF Seed, Sample!SeedStep, Sample!SeedCount, Sample!SeedDelete, Sample!SeedCreate,
                Sample!ReportCount, Sample!ReportCreate, EditProfile, sampleVars
  <2>3. \A q \in Requests : Quiet(q)
    BY <2>1, <2>2 DEF Quiet
  <2> QED BY <2>1, <2>3, QuietStep
<1> QED BY <1>4, <1>5, <1>6, <1>7, <1>8, <1>9

LEMMA AccountStep ==
  ASSUME Typed, TokenInv, Remembered, NEW u \in Reviewers, NEW a \in Account,
         accounts' = [accounts EXCEPT ![u] = a], UNCHANGED <<written, raced>>,
         a.link # NoRequest =>
            pc'[a.link] = "done" /\ job'[a.link].user = u /\ job'[a.link].ws = a.ws,
         a.password # NoRequest =>
            pc'[a.password] = "done" /\ (u \notin raced => job'[a.password].ws = a.ws),
         u \notin raced /\ a.used => a.password = a.link,
         \A x \in written : a.link = x.link =>
            a.used \/ (Known(u) /\ accounts[u].link = x.link /\ ~ accounts[u].used),
         \A q \in Requests : Quiet(q),
         \A s \in sessions' : s \in sessions \/ SessionOK(s)'
  PROVE  TokenInv'
<1>0. /\ accounts'[u] = a /\ \A v \in Reviewers \ {u} : accounts'[v] = accounts[v]
  BY DEF Typed, AccountTypes
<1>1. ASSUME NEW v \in Reviewers
      PROVE  LinkOK(v)'
  <2>1. CASE v = u
    BY <1>0, <2>1 DEF LinkOK
  <2>2. CASE v # u
    BY <1>0, <2>2, LinkStays
  <2> QED BY <2>1, <2>2
<1>2. ASSUME NEW q \in Requests
      PROVE  SecretOK(q)'
  <2>1. CASE pc'[q] = pc[q] /\ job'[q] = job[q] /\ (q \notin open' => q \notin open)
    BY <2>1, SecretStays
  <2>2. CASE /\ pc'[q] \notin {"hashing", "comparing"}
             /\ pc'[q] = "seeding" => q \in open' \/ job'[q].secret = NoRequest
    BY <2>2 DEF SecretOK
  <2> QED BY <2>1, <2>2 DEF Quiet
<1>3. \A s \in sessions' : SessionOK(s)'
  BY SessionStays
<1>4. ASSUME NEW x \in written'
      PROVE  WrittenOK(x)'
  <2>1. ASSUME NEW v \in Reviewers \ raced', accounts'[v] # NoUser, accounts'[v].link = x.link
        PROVE  \/ accounts'[v].used
               \/ Known(v) /\ accounts[v].link = x.link /\ ~ accounts[v].used
    <3>1. CASE v = u
      BY <1>0, <2>1, <3>1
    <3>2. CASE v # u
      <4>1. accounts'[v] = accounts[v]
        BY <1>0, <3>2
      <4> QED BY <2>1, <4>1 DEF Known
    <3> QED BY <3>1, <3>2
  <2> QED BY <2>1, SpentStays
<1>5. LinkWorksOnce'
  BY OnceStays
<1> QED BY <1>1, <1>2, <1>3, <1>4, <1>5 DEF TokenInv

(* An issued link is a new one: no password was ever set with it.          *)
LEMMA Unissued ==
  ASSUME Typed, TokenInv, NEW p \in Requests, pc[p] # "done"
  PROVE  \A x \in written : x.link # p
BY DEF TokenInv, WrittenOK

LEMMA TimeTokens ==
  ASSUME Typed, TokenInv, Remembered, NEW u \in Reviewers, Lapse(u) \/ AccountEnds(u)
  PROVE  TokenInv'
<1>0. /\ Known(u) /\ accounts[u] \in Account /\ accounts \in [Reviewers -> Account \cup {NoUser}]
      /\ UNCHANGED <<sessions, written, raced, pc, job, open>> /\ LinkOK(u)
  BY DEF Lapse, AccountEnds, Typed, AccountTypes, Known, requestVars, sampleVars, TokenInv
<1>1. \A q \in Requests : Quiet(q)
  BY <1>0 DEF Quiet
<1>2. ASSUME NEW a \in Account, accounts' = [accounts EXCEPT ![u] = a],
             a.link = accounts[u].link, a.password = accounts[u].password,
             a.used = accounts[u].used, a.ws = accounts[u].ws
      PROVE  TokenInv'
  <2>1. /\ a.link # NoRequest =>
              pc'[a.link] = "done" /\ job'[a.link].user = u /\ job'[a.link].ws = a.ws
        /\ a.password # NoRequest =>
              pc'[a.password] = "done" /\ (u \notin raced => job'[a.password].ws = a.ws)
        /\ u \notin raced /\ a.used => a.password = a.link
    BY <1>0, <1>2 DEF LinkOK
  <2>2. a.used \in BOOLEAN
    BY DEF Account
  <2>3. \A x \in written : a.link = x.link =>
            a.used \/ (Known(u) /\ accounts[u].link = x.link /\ ~ accounts[u].used)
    BY <1>0, <1>2, <2>2
  <2>4. UNCHANGED <<written, raced>> /\ \A s \in sessions' : s \in sessions \/ SessionOK(s)'
    BY <1>0
  <2> QED BY <1>1, <1>2, <2>1, <2>3, <2>4, AccountStep
<1>3. CASE Lapse(u)
  <2> DEFINE a == [accounts[u] EXCEPT !.lapsed = TRUE]
  <2>1. /\ a \in Account /\ a.link = accounts[u].link /\ a.password = accounts[u].password
        /\ a.used = accounts[u].used /\ a.ws = accounts[u].ws
    BY <1>0 DEF Account
  <2>2. accounts' = [accounts EXCEPT ![u] = a]
    BY <1>0, <1>3 DEF Lapse
  <2> HIDE DEF a
  <2> QED BY <1>2, <2>1, <2>2
<1>4. CASE AccountEnds(u)
  <2> DEFINE a == [accounts[u] EXCEPT !.ended = TRUE]
  <2>1. /\ a \in Account /\ a.link = accounts[u].link /\ a.password = accounts[u].password
        /\ a.used = accounts[u].used /\ a.ws = accounts[u].ws
    BY <1>0 DEF Account
  <2>2. accounts' = [accounts EXCEPT ![u] = a]
    BY <1>0, <1>4 DEF AccountEnds
  <2> HIDE DEF a
  <2> QED BY <1>2, <2>1, <2>2
<1> QED BY <1>3, <1>4

(* Whoever issues a link, or takes it back.                                *)
LEMMA IssuerTokens ==
  ASSUME Typed, TokenInv, Remembered, NEW p \in Requests,
         InviteCommit(p) \/ RegenerateWrite(p) \/ DeactivateWrite(p)
  PROVE  TokenInv'
<1> USE ReviewersAssumption, BoundaryAssumption
<1> DEFINE u == job[p].user
<1>0. /\ RequestOK(p) /\ job[p] \in Job /\ accounts \in [Reviewers -> Account \cup {NoUser}]
      /\ job \in [Requests -> Job] /\ DOMAIN pc = Requests /\ pc[p] # "done"
  BY DEF Typed, AccountTypes, InviteCommit, RegenerateWrite, DeactivateWrite
<1>1. u \in Reviewers /\ u \notin {NoUser}
  BY <1>0 DEF RequestOK, InviteCommit, RegenerateWrite, DeactivateWrite
<1>2. UNCHANGED <<written, raced, sessions>>
  BY DEF InviteCommit, RegenerateWrite, DeactivateWrite
<1>3. \A s \in sessions' : s \in sessions \/ SessionOK(s)'
  BY <1>2
<1>4. ASSUME NEW w, NEW secret, End(p, w, secret), \A q \in Requests \ {p} : q \in open => q \in open'
      PROVE  /\ \A q \in Requests : Quiet(q)
             /\ pc'[p] = "done" /\ job'[p].user = u /\ job'[p].ws = w
  <2>1. /\ \A q \in Requests \ {p} : pc'[q] = pc[q] /\ job'[q] = job[q]
        /\ pc'[p] = "done" /\ job'[p].user = u /\ job'[p].ws = w
    BY <1>0, <1>4 DEF End, About, NoJob
  <2> QED BY <1>4, <2>1 DEF Quiet
<1>5. \A x \in written : x.link # p /\ x.link # NoRequest
  BY <1>0, Unissued DEF Typed, AccountTypes
<1>6. CASE InviteCommit(p)
  <2> DEFINE a == Invited(p, accounts[u])
  <2>1. job[p].ws \in Workspaces /\ open' = open \ {p} /\ End(p, job[p].ws, p)
    BY <1>0, <1>6 DEF InviteCommit, RequestOK, Sample!SeedEnd
  <2>2. /\ a \in Account /\ a.link = p /\ a.password = NoRequest /\ ~ a.used
        /\ a.ws = job[p].ws
    BY <2>1 DEF Invited, Account, Secrets
  <2>3. accounts' = [accounts EXCEPT ![u] = a]
    BY <1>6 DEF InviteCommit
  <2>4. /\ \A q \in Requests : Quiet(q)
        /\ pc'[p] = "done" /\ job'[p].user = u /\ job'[p].ws = job[p].ws
    BY <1>4, <2>1
  <2> HIDE DEF a, u
  <2>6. /\ a.link # NoRequest =>
              pc'[a.link] = "done" /\ job'[a.link].user = u /\ job'[a.link].ws = a.ws
        /\ a.password # NoRequest =>
              pc'[a.password] = "done" /\ (u \notin raced => job'[a.password].ws = a.ws)
    BY <2>2, <2>4
  <2>7. u \notin raced /\ a.used => a.password = a.link
    BY <2>2
  <2>8. \A x \in written : a.link = x.link =>
            a.used \/ (Known(u) /\ accounts[u].link = x.link /\ ~ accounts[u].used)
    BY <1>5, <2>2
  <2>9. a \in Account /\ \A q \in Requests : Quiet(q)
    BY <2>2, <2>4
  <2> QED BY <1>1, <1>2, <1>3, <2>3, <2>6, <2>7, <2>8, <2>9, AccountStep
<1>7. CASE RegenerateWrite(p)
  <2> DEFINE a == [accounts[u] EXCEPT !.link = p, !.lapsed = FALSE, !.used = FALSE]
  <2>1. /\ accounts[u] \in Account /\ Known(u) /\ LinkOK(u)
        /\ open' = open /\ End(p, accounts[u].ws, p)
    BY <1>0, <1>1, <1>7 DEF RegenerateWrite, RequestOK, sampleVars, Known, TokenInv
  <2>2. /\ a \in Account /\ a.link = p /\ a.password = accounts[u].password /\ ~ a.used
        /\ a.ws = accounts[u].ws
    BY <2>1 DEF Account, Secrets
  <2>3. accounts' = [accounts EXCEPT ![u] = a]
    BY <1>0, <1>1, <1>7 DEF RegenerateWrite
  <2>4. /\ \A q \in Requests : Quiet(q)
        /\ pc'[p] = "done" /\ job'[p].user = u /\ job'[p].ws = accounts[u].ws
    BY <1>4, <2>1
  <2>5. accounts[u].password # NoRequest =>
           /\ pc'[accounts[u].password] = "done"
           /\ u \notin raced => job'[accounts[u].password].ws = accounts[u].ws
    BY <2>1 DEF LinkOK, Remembered, Account, Secrets
  <2> HIDE DEF a, u
  <2>6. /\ a.link # NoRequest =>
              pc'[a.link] = "done" /\ job'[a.link].user = u /\ job'[a.link].ws = a.ws
        /\ a.password # NoRequest =>
              pc'[a.password] = "done" /\ (u \notin raced => job'[a.password].ws = a.ws)
    BY <2>2, <2>4, <2>5
  <2>7. u \notin raced /\ a.used => a.password = a.link
    BY <2>2
  <2>8. \A x \in written : a.link = x.link =>
            a.used \/ (Known(u) /\ accounts[u].link = x.link /\ ~ accounts[u].used)
    BY <1>5, <2>2
  <2>9. a \in Account /\ \A q \in Requests : Quiet(q)
    BY <2>2, <2>4
  <2> QED BY <1>1, <1>2, <1>3, <2>3, <2>6, <2>7, <2>8, <2>9, AccountStep
<1>8. CASE DeactivateWrite(p)
  <2> DEFINE a == [accounts[u] EXCEPT !.active = FALSE, !.link = NoRequest,
                                      !.lapsed = FALSE, !.used = FALSE]
  <2>1. /\ accounts[u] \in Account /\ Known(u) /\ LinkOK(u)
        /\ open' = open /\ End(p, job[p].ws, NoRequest)
    BY <1>0, <1>1, <1>8 DEF DeactivateWrite, RequestOK, sampleVars, Known, TokenInv
  <2>2. /\ a \in Account /\ a.link = NoRequest /\ a.password = accounts[u].password /\ ~ a.used
        /\ a.ws = accounts[u].ws
    BY <2>1 DEF Account, Secrets
  <2>3. accounts' = [accounts EXCEPT ![u] = a]
    BY <1>0, <1>1, <1>8 DEF DeactivateWrite
  <2>4. \A q \in Requests : Quiet(q)
    BY <1>4, <2>1
  <2>5. accounts[u].password # NoRequest =>
           /\ pc'[accounts[u].password] = "done"
           /\ u \notin raced => job'[accounts[u].password].ws = accounts[u].ws
    BY <2>1 DEF LinkOK, Remembered, Account, Secrets
  <2> HIDE DEF a, u
  <2>6. /\ a.link # NoRequest =>
              pc'[a.link] = "done" /\ job'[a.link].user = u /\ job'[a.link].ws = a.ws
        /\ a.password # NoRequest =>
              pc'[a.password] = "done" /\ (u \notin raced => job'[a.password].ws = a.ws)
    BY <2>2, <2>4, <2>5
  <2>7. u \notin raced /\ a.used => a.password = a.link
    BY <2>2
  <2>8. \A x \in written : a.link = x.link =>
            a.used \/ (Known(u) /\ accounts[u].link = x.link /\ ~ accounts[u].used)
    BY <1>5, <2>2
  <2>9. a \in Account /\ \A q \in Requests : Quiet(q)
    BY <2>2, <2>4
  <2> QED BY <1>1, <1>2, <1>3, <2>3, <2>6, <2>7, <2>8, <2>9, AccountStep
<1> QED BY <1>6, <1>7, <1>8

LEMMA RegisterTokens ==
  ASSUME Typed, TokenInv, Remembered, NEW p \in Requests, NEW u \in Reviewers,
         NEW n \in Names, NEW w \in Workspaces, Register(p, u, n, w)
  PROVE  TokenInv'
<1> USE BoundaryAssumption
<1> DEFINE a == [ws |-> w, pilot |-> FALSE, active |-> TRUE, ended |-> FALSE,
                 password |-> p, link |-> NoRequest, lapsed |-> FALSE, used |-> FALSE]
           new == [user |-> u, ws |-> w, secret |-> p]
<1>1. /\ a \in Account /\ a.link = NoRequest /\ a.password = p /\ a.ws = w /\ ~ a.used
  BY DEF Account, Secrets
<1>2. /\ \A q \in Requests \ {p} : pc'[q] = pc[q] /\ job'[q] = job[q]
      /\ pc'[p] = "done" /\ job'[p].ws = w
  BY DEF Register, Typed, AccountTypes, Job
<1>3. open' = open /\ UNCHANGED <<written, raced>> /\ sessions' = sessions \cup {new}
      /\ accounts' = [accounts EXCEPT ![u] = a]
  BY DEF Register, sampleVars
<1>4. \A q \in Requests : Quiet(q)
  BY <1>2, <1>3 DEF Quiet
<1>5. new.secret = p /\ new.ws = w
  OBVIOUS
<1> HIDE DEF a, new
<1>6. \A s \in sessions' : s \in sessions \/ SessionOK(s)'
  BY <1>2, <1>3, <1>5 DEF SessionOK
<1>7. \A x \in written : x.link # NoRequest
  BY DEF Typed, AccountTypes
<1>8. /\ a.link # NoRequest =>
            pc'[a.link] = "done" /\ job'[a.link].user = u /\ job'[a.link].ws = a.ws
      /\ a.password # NoRequest =>
            pc'[a.password] = "done" /\ (u \notin raced => job'[a.password].ws = a.ws)
  BY <1>1, <1>2
<1>9. u \notin raced /\ a.used => a.password = a.link
  BY <1>1
<1>10. \A x \in written : a.link = x.link =>
            a.used \/ (Known(u) /\ accounts[u].link = x.link /\ ~ accounts[u].used)
  BY <1>1, <1>7
<1> QED BY <1>1, <1>3, <1>4, <1>6, <1>8, <1>9, <1>10, AccountStep

LEMMA SecretStep ==
  ASSUME Typed, TokenInv, Remembered, NEW p \in Requests,
         \A q \in Requests \ {p} : pc'[q] = pc[q] /\ job'[q] = job[q] /\ (q \in open => q \in open'),
         UNCHANGED <<accounts, written, raced>>, SecretOK(p)',
         \A s \in sessions' : s \in sessions \/ SessionOK(s)'
  PROVE  TokenInv'
<1>1. \A u \in Reviewers : LinkOK(u)'
  BY LinkStays
<1>2. ASSUME NEW q \in Requests
      PROVE  SecretOK(q)'
  <2>1. CASE q = p
    BY <2>1
  <2>2. CASE q # p
    BY <2>2, SecretStays
  <2> QED BY <2>1, <2>2
<1>3. \A s \in sessions' : SessionOK(s)'
  BY SessionStays
<1>4. \A x \in written' : WrittenOK(x)'
  BY SpentStays DEF Known
<1>5. LinkWorksOnce'
  BY OnceStays
<1> QED BY <1>1, <1>2, <1>3, <1>4, <1>5 DEF TokenInv

(* A request takes up the link, or the password, of an account as it is.   *)
LEMMA ReadTokens ==
  ASSUME Typed, TokenInv, Remembered, NEW p \in Requests, NEW u \in Reviewers,
         LoginRead(p, u) \/ \E link \in Requests : SetPasswordRead(p, u, link)
  PROVE  TokenInv'
<1>0. /\ Known(u) /\ accounts[u] \in Account /\ LinkOK(u) /\ open' = open
      /\ UNCHANGED <<accounts, written, raced, sessions>>
  BY DEF LoginRead, SetPasswordRead, Typed, AccountTypes, Known, TokenInv, sampleVars, accountVars
<1>1. ASSUME NEW step, NEW w, NEW n, NEW secret, Start(p, step, u, w, n, secret)
      PROVE  /\ \A q \in Requests \ {p} : pc'[q] = pc[q] /\ job'[q] = job[q]
             /\ pc'[p] = step /\ job'[p].user = u /\ job'[p].ws = w /\ job'[p].secret = secret
  BY <1>1 DEF Start, Typed, AccountTypes
<1>2. CASE LoginRead(p, u)
  <2> DEFINE P == accounts[u].password
  <2>1. P \in Requests /\ P # NoRequest
    BY <1>0, <1>2 DEF LoginRead, Account, Secrets
  <2>2. /\ \A q \in Requests \ {p} : pc'[q] = pc[q] /\ job'[q] = job[q]
        /\ pc'[p] = "comparing" /\ job'[p].user = u /\ job'[p].ws = accounts[u].ws
        /\ job'[p].secret = P
    BY <1>1, <1>2 DEF LoginRead
  <2>3. pc'[P] = "done" /\ (u \notin raced' => job'[P].ws = accounts[u].ws)
    BY <1>0, <2>1 DEF LinkOK, Remembered
  <2> HIDE DEF P
  <2>4. SecretOK(p)'
    BY <2>2, <2>3 DEF SecretOK
  <2> QED BY <1>0, <2>2, <2>4, SecretStep
<1>3. ASSUME NEW link \in Requests, SetPasswordRead(p, u, link)
      PROVE  TokenInv'
  <2>1. accounts[u].link = link /\ link # NoRequest
    BY <1>3 DEF SetPasswordRead, Opens
  <2>2. /\ \A q \in Requests \ {p} : pc'[q] = pc[q] /\ job'[q] = job[q]
        /\ pc'[p] = "hashing" /\ job'[p].user = u /\ job'[p].secret = link
    BY <1>1, <1>3 DEF SetPasswordRead
  <2>3. pc'[link] = "done" /\ job'[link].user = u
    BY <1>0, <1>3, <2>1 DEF LinkOK, Remembered
  <2>4. SecretOK(p)'
    BY <2>2, <2>3 DEF SecretOK
  <2> QED BY <1>0, <2>2, <2>4, SecretStep
<1> QED BY <1>2, <1>3

(* The answer of a login, and of any request whose sample is ready.        *)
LEMMA AnswerTokens ==
  ASSUME Typed, TokenInv, Remembered, NEW p \in Requests, LoginWrite(p) \/ SeedAnswer(p)
  PROVE  TokenInv'
<1> DEFINE s == [user |-> job[p].user, ws |-> job[p].ws, secret |-> job[p].secret]
<1>0. /\ RequestOK(p) /\ SecretOK(p) /\ job[p] \in Job
      /\ UNCHANGED <<accounts, written, raced>>
      /\ DOMAIN pc = Requests /\ job \in [Requests -> Job]
  BY DEF Typed, TokenInv, AccountTypes, LoginWrite, SeedAnswer
<1>1. /\ \/ sessions' = sessions
         \/ sessions' = sessions \cup {s} /\ job[p].secret # NoRequest
      /\ pc' = [pc EXCEPT ![p] = "seeding"] \/ pc' = [pc EXCEPT ![p] = "done"]
      /\ job' = [job EXCEPT ![p] = About(p, job[p].ws, job[p].secret)]
      /\ \A q \in Requests \ {p} : q \in open => q \in open'
  <2>1. CASE LoginWrite(p)
    <3>1. job[p].secret # NoRequest
      BY <1>0, <2>1, BoundaryAssumption DEF LoginWrite, RequestOK
    <3> QED BY <2>1, <3>1 DEF LoginWrite, End, Sample!SeedBegin, sampleVars
  <2>2. CASE SeedAnswer(p)
    BY <2>2 DEF SeedAnswer, End, Sample!SeedEnd
  <2> QED BY <2>1, <2>2
<1>2. /\ \A q \in Requests \ {p} : pc'[q] = pc[q] /\ job'[q] = job[q]
      /\ pc'[p] \in {"seeding", "done"}
      /\ job'[p].user = job[p].user /\ job'[p].ws = job[p].ws /\ job'[p].secret = job[p].secret
  BY <1>0, <1>1 DEF About, NoJob
<1>3. job[p].secret # NoRequest =>
         /\ job[p].secret \in Requests
         /\ pc[job[p].secret] = "done"
         /\ job[p].user \notin raced => job[job[p].secret].ws = job[p].ws
  <2>1. job[p].secret \in Secrets
    BY <1>0 DEF Job
  <2>2. pc[p] = "comparing" \/ (pc[p] = "seeding" /\ p \notin open)
    BY DEF LoginWrite, SeedAnswer
  <2> QED BY <1>0, <2>1, <2>2 DEF SecretOK, Secrets
<1>4. job[p].secret # NoRequest =>
         /\ pc'[job[p].secret] = "done"
         /\ job[p].user \notin raced => job'[job[p].secret].ws = job[p].ws
  BY <1>3 DEF Remembered
<1>5. SecretOK(p)'
  BY <1>0, <1>2, <1>4 DEF SecretOK
<1>6. ASSUME NEW x \in sessions', x \notin sessions
      PROVE  SessionOK(x)'
  <2>1. /\ x.user = job[p].user /\ x.ws = job[p].ws /\ x.secret = job[p].secret
        /\ job[p].secret # NoRequest
    BY <1>1, <1>6
  <2>2. pc'[x.secret] = "done" /\ (x.user \notin raced' => job'[x.secret].ws = x.ws)
    BY <1>0, <1>4, <2>1
  <2> QED BY <2>2 DEF SessionOK
<1>7. \A x \in sessions' : x \in sessions \/ SessionOK(x)'
  BY <1>6
<1> QED BY <1>0, <1>1, <1>2, <1>5, <1>7, SecretStep

(* A password is set.  Unless the account was written in between, it still *)
(* has the link, unused, that this request took up: so no other request    *)
(* has set a password with it.                                             *)
LEMMA PasswordTokens ==
  ASSUME Typed, TokenInv, Remembered, NEW p \in Requests, SetPasswordWrite(p)
  PROVE  TokenInv'
<1> USE ReviewersAssumption, BoundaryAssumption
<1> DEFINE u == job[p].user
           s == job[p].secret
           w == accounts[u].ws
           a == [accounts[u] EXCEPT !.password = s, !.used = TRUE]
           x == [link |-> s, by |-> p]
<1>0. /\ RequestOK(p) /\ SecretOK(p) /\ job[p] \in Job /\ pc[p] = "hashing"
      /\ DOMAIN pc = Requests /\ job \in [Requests -> Job]
      /\ accounts \in [Reviewers -> Account \cup {NoUser}]
  BY DEF Typed, TokenInv, AccountTypes, SetPasswordWrite
<1>1. /\ u \in Reviewers /\ Known(u) /\ s \in Requests /\ s # NoRequest
      /\ job[p].seen.link = s /\ ~ job[p].seen.used
      /\ pc[s] = "done" /\ job[s].user = u
      /\ accounts[u] \in Account /\ LinkOK(u)
  BY <1>0 DEF RequestOK, SecretOK, Known, TokenInv
<1>2. /\ accounts' = [accounts EXCEPT ![u] = a]
      /\ written' = written \cup {x}
      /\ raced' = IF accounts[u] = job[p].seen THEN raced ELSE raced \cup {u}
      /\ job' = [job EXCEPT ![p] = About(p, w, s)]
      /\ pc' = [pc EXCEPT ![p] = "seeding"] \/ pc' = [pc EXCEPT ![p] = "done"]
      /\ \/ sessions' = sessions
         \/ sessions' = sessions \cup {[user |-> u, ws |-> w, secret |-> s]}
      /\ open' = open
  BY <1>0, <1>1 DEF SetPasswordWrite, Answer, End, Sample!SeedBegin, sampleVars
<1>3. /\ \A q \in Requests \ {p} : pc'[q] = pc[q] /\ job'[q] = job[q]
      /\ pc'[p] \in {"seeding", "done"}
      /\ job'[p].user = u /\ job'[p].ws = w /\ job'[p].secret = s
  BY <1>0, <1>2 DEF About, NoJob
<1>4. /\ a.link = accounts[u].link /\ a.password = s /\ a.used = TRUE /\ a.ws = w
      /\ accounts'[u] = a /\ \A v \in Reviewers \ {u} : accounts'[v] = accounts[v]
      /\ a # NoUser
  <2>1. a \in Account
    BY <1>1 DEF Account, Secrets
  <2> QED BY <1>0, <1>1, <1>2, <2>1 DEF Account
<1>5. x.link = s /\ x.by = p
  OBVIOUS
<1>6. /\ raced \subseteq raced' /\ pc'[s] = "done" /\ job'[s] = job[s]
      /\ u \notin raced' => u \notin raced /\ accounts[u].link = s /\ ~ accounts[u].used
  BY <1>1, <1>2 DEF Remembered
<1>7. /\ accounts[u].link # NoRequest =>
            /\ pc'[accounts[u].link] = "done" /\ job'[accounts[u].link].user = u
            /\ job'[accounts[u].link].ws = w
  BY <1>1 DEF LinkOK, Remembered, Account, Secrets
<1>8. u \notin raced' => job'[s].ws = w
  BY <1>1, <1>6, <1>7
<1>9. ASSUME NEW y \in written, y.link = s
      PROVE  u \in raced'
  <2>1. y.by \in Requests /\ WrittenOK(y)
    BY DEF Typed, AccountTypes, TokenInv
  <2>2. job[y.by].user = u
    BY <1>1, <1>9, <2>1 DEF WrittenOK
  <2>3. Spent(u, s)
    BY <1>9, <2>1, <2>2 DEF WrittenOK
  <2> QED BY <1>1, <1>6, <2>3 DEF Spent
<1>10. \A y \in sessions' : y \in sessions \/ (y.user = u /\ y.ws = w /\ y.secret = s)
  BY <1>2
<1> HIDE DEF a, x, w, s, u
<1>11. ASSUME NEW v \in Reviewers
       PROVE  LinkOK(v)'
  <2>1. CASE v = u
    <3>1. /\ a.link # NoRequest =>
                pc'[a.link] = "done" /\ job'[a.link].user = v /\ job'[a.link].ws = a.ws
          /\ a.password # NoRequest =>
                pc'[a.password] = "done" /\ (v \notin raced' => job'[a.password].ws = a.ws)
          /\ v \notin raced' => a.password = a.link
      BY <1>4, <1>6, <1>7, <1>8, <2>1
    <3>2. accounts'[v] = a
      BY <1>4, <2>1
    <3> QED BY <3>1, <3>2 DEF LinkOK
  <2>2. CASE v # u
    BY <1>4, <1>6, <2>2, LinkStays
  <2> QED BY <2>1, <2>2
<1>12. ASSUME NEW q \in Requests
       PROVE  SecretOK(q)'
  <2>1. CASE q = p
    <3>1. /\ pc'[q] \in {"seeding", "done"} /\ job'[q].secret = s /\ job'[q].user = u
          /\ job'[q].ws = w /\ pc'[s] = "done" /\ (u \notin raced' => job'[s].ws = w)
      BY <1>3, <1>6, <1>8, <2>1
    <3> QED BY <3>1 DEF SecretOK
  <2>2. CASE q # p
    BY <1>2, <1>3, <1>6, <2>2, SecretStays
  <2> QED BY <2>1, <2>2
<1>13. ASSUME NEW y \in sessions'
       PROVE  SessionOK(y)'
  <2>1. CASE y \in sessions
    BY <1>6, <2>1, SessionStays
  <2>2. CASE y.user = u /\ y.ws = w /\ y.secret = s
    BY <1>6, <1>8, <2>2 DEF SessionOK
  <2> QED BY <1>10, <2>1, <2>2
<1>14. ASSUME NEW y \in written'
       PROVE  WrittenOK(y)'
  <2>1. CASE y \in written
    <3>1. ASSUME NEW v \in Reviewers \ raced', accounts'[v] # NoUser, accounts'[v].link = y.link
          PROVE  \/ accounts'[v].used
                 \/ Known(v) /\ accounts[v].link = y.link /\ ~ accounts[v].used
      <4>1. CASE v = u
        BY <1>4, <4>1
      <4>2. CASE v # u
        <5>1. accounts'[v] = accounts[v]
          BY <1>4, <4>2
        <5> QED BY <3>1, <5>1 DEF Known
      <4> QED BY <4>1, <4>2
    <3> QED BY <1>6, <2>1, <3>1, SpentStays
  <2>2. CASE y = x
    <3>1. y.link = s /\ y.by = p
      BY <1>5, <2>2
    <3>2. /\ pc'[s] = "done" /\ pc'[p] \in {"seeding", "done"} /\ job'[p].user = u
          /\ u \in Reviewers /\ job'[s].user = u /\ accounts'[u].used
      BY <1>1, <1>3, <1>4, <1>6
    <3> QED BY <3>1, <3>2 DEF WrittenOK, Spent
  <2> QED BY <1>2, <2>1, <2>2
<1>15. LinkWorksOnce'
  <2>1. ASSUME NEW y \in written
        PROVE  y.by \in Requests /\ job'[y.by].user = job[y.by].user
    <3>1. y.by \in Requests /\ WrittenOK(y)
      BY DEF Typed, AccountTypes, TokenInv
    <3> QED BY <3>1 DEF WrittenOK, Remembered
  <2>2. ASSUME NEW y \in written', NEW z \in written', y.link = z.link, y.by # z.by
        PROVE  job'[y.by].user \in raced'
    <3>1. CASE y \in written /\ z \in written
      BY <1>6, <2>1, <2>2, <3>1 DEF TokenInv, LinkWorksOnce
    <3>2. CASE y = x
      <4>1. z \in written /\ z.link = s
        BY <1>2, <1>5, <2>2, <3>2
      <4> QED BY <1>3, <1>5, <1>9, <3>2, <4>1
    <3>3. CASE z = x
      <4>1. y \in written /\ y.link = s
        BY <1>2, <1>5, <2>2, <3>3
      <4>2. WrittenOK(y) /\ job'[y.by].user = job[y.by].user
        BY <2>1, <4>1 DEF TokenInv
      <4>3. job[y.by].user = u
        BY <1>1, <4>1, <4>2 DEF WrittenOK
      <4> QED BY <1>9, <4>1, <4>2, <4>3
    <3> QED BY <1>2, <3>1, <3>2, <3>3
  <2> QED BY <2>2 DEF LinkWorksOnce
<1> QED BY <1>11, <1>12, <1>13, <1>14, <1>15 DEF TokenInv

LEMMA StepKeepsTokens ==
  ASSUME Typed, TokenInv, [Next]_vars
  PROVE  TokenInv'
<1>0. Remembered
  BY StepRemembers
<1>1. CASE UNCHANGED vars
  <2>1. UNCHANGED <<pc, job, open, accounts, sessions, written, raced>>
    BY <1>1 DEF vars, requestVars, sampleVars, accountVars
  <2>2. \A q \in Requests : Quiet(q)
    BY <2>1 DEF Quiet
  <2> QED BY <1>0, <2>1, <2>2, QuietStep
<1>2. ASSUME NEW w \in Workspaces, UserDeletes(w)
      PROVE  TokenInv'
  <2>1. UNCHANGED <<pc, job, open, accounts, sessions, written, raced>>
    BY <1>2 DEF UserDeletes, Sample!UserDeletes, requestVars, accountVars
  <2>2. \A q \in Requests : Quiet(q)
    BY <2>1 DEF Quiet
  <2> QED BY <1>0, <2>1, <2>2, QuietStep
<1>3. ASSUME NEW P \in SUBSET Requests, Fail(P)
      PROVE  TokenInv'
  <2>1. UNCHANGED <<accounts, sessions, written, raced>>
    BY <1>3 DEF Fail, accountVars
  <2>2. ASSUME NEW q \in Requests
        PROVE  Quiet(q)
    <3>1. CASE q \in P
      <4>1. pc'[q] = "done"
        BY <1>3, <3>1 DEF Fail
      <4> QED BY <4>1 DEF Quiet
    <3>2. CASE q \notin P
      <4>1. pc'[q] = pc[q] /\ job'[q] = job[q] /\ open' = open \ P
        BY <1>3, <3>2 DEF Fail, Sample!SeedLost
      <4> QED BY <3>2, <4>1 DEF Quiet
    <3> QED BY <3>1, <3>2
  <2> QED BY <1>0, <2>1, <2>2, QuietStep
<1>4. ASSUME NEW p \in Requests,
             \/ \E u \in Reviewers, n \in Names :
                   InviteFind(p, u, n) \/ \E w \in Workspaces : Register(p, u, n, w)
             \/ InviteFound(p) \/ InviteWrite(p) \/ InviteJoin(p) \/ InviteCommit(p)
      PROVE  TokenInv'
  BY <1>0, <1>4, QuietSteps, RegisterTokens, IssuerTokens
<1>5. ASSUME NEW p \in Requests,
             \/ \E u \in Reviewers :
                   \/ DeactivateRead(p, u) \/ RegenerateRead(p, u) \/ LoginRead(p, u)
                   \/ \E link \in Requests : SetPasswordRead(p, u, link)
             \/ DeactivateWrite(p) \/ RegenerateWrite(p) \/ SetPasswordWrite(p) \/ LoginWrite(p)
      PROVE  TokenInv'
  BY <1>0, <1>5, QuietSteps, ReadTokens, IssuerTokens, PasswordTokens, AnswerTokens
<1>6. ASSUME NEW p \in Requests,
             \/ \E w \in Workspaces, force \in BOOLEAN : SeedScript(p, w, force)
             \/ Seed(p) \/ SeedAnswer(p) \/ EditProfile(p)
      PROVE  TokenInv'
  BY <1>0, <1>6, QuietSteps, AnswerTokens
<1> QED BY <1>0, <1>1, <1>2, <1>3, <1>4, <1>5, <1>6, TimeTokens DEF Next

LEMMA TokensAlways == Spec => []TokenInv
<1>1. Init => TokenInv
  BY BoundaryAssumption, ReviewersAssumption
     DEF Init, TokenInv, LinkOK, Known, SecretOK, LinkWorksOnce
<1>2. Typed /\ TokenInv /\ [Next]_vars => TokenInv'
  BY StepKeepsTokens
<1> QED BY <1>1, <1>2, Always, PTL DEF Spec

(* A link sets one password, and a used link set the password that is      *)
(* there: except for an account over which somebody wrote what they had    *)
(* not read, which the model tells, however many requests hash passwords,  *)
(* regenerate, deactivate and invite at a time.                            *)
THEOREM LinksSetOnePassword == Spec => []LinksWorkOnce
<1>1. TokenInv => LinksWorkOnce
  BY DEF TokenInv, LinkOK, LinksWorkOnce, UsedLinkSetThePassword
<1> QED BY <1>1, TokensAlways, PTL

(* A session opens no workspace but that of the invitation or registration *)
(* its password was chosen with, under the same condition.                 *)
THEOREM SessionsAreOfTheirInvitation == Spec => []SessionsComeFromTheirInvitation
<1>1. TokenInv => SessionsComeFromTheirInvitation
  BY DEF TokenInv, SessionOK, SessionsComeFromTheirInvitation
<1> QED BY <1>1, TokensAlways, PTL

-----------------------------------------------------------------------------
(* Why only a crowd leaves copies of the sample.                           *)

(* Who begins with the sample has not been at it before.                   *)
Fresh(p) ==
    /\ ~ Sample!Seeding(p) /\ p \notin open
    /\ \A r \in samples : r.by # p
    /\ \A r \in reports : r.by # p

Early(p) == pc[p] \notin {"seeding", "done"}
FreshInv == \A p \in Requests : Early(p) => Fresh(p)

FreshSampleStep ==
    \/ \E p \in Requests, w \in Workspaces, t, f \in BOOLEAN :
          Early(p) /\ ~ Early(p)' /\ Sample!SeedBegin(p, w, t, f)
    \/ \E p \in Requests : ~ Early(p) /\ (Sample!SeedStep(p) \/ Sample!SeedEnd(p))
    \/ \E w \in Workspaces : Sample!UserDeletes(w)
    \/ \E P \in SUBSET Requests : Sample!SeedLost(P)
    \/ UNCHANGED sampleVars

LEMMA StepIsFresh ==
  ASSUME Typed, [Next]_vars
  PROVE  FreshSampleStep /\ \A q \in Requests : Early(q)' => Early(q)
<1> USE DEF Early
<1>0. pc \in [Requests -> {"idle", "founding", "inviting", "joining", "seeding", "hashing",
                            "comparing", "deactivating", "regenerating", "done"}]
  BY DEF Typed, AccountTypes
<1>1. CASE UNCHANGED vars
  BY <1>1 DEF vars, requestVars, FreshSampleStep
<1>2. CASE Next
  <2> USE DEF FreshSampleStep
  <2>0. ASSUME NEW p \in Requests
        PROVE  /\ job[p].user \in Reviewers /\ Known(job[p].user) =>
                     accounts[job[p].user].ws \in Workspaces
               /\ pc[p] \in {"inviting", "joining", "seeding", "hashing", "comparing"} =>
                     job[p].ws \in Workspaces
               /\ pc[p] = "hashing" => job[p].user \in Reviewers /\ Known(job[p].user)
    <3>1. job[p].user \in Reviewers /\ Known(job[p].user) => accounts[job[p].user] \in Account
      BY DEF Typed, AccountTypes, Known
    <3> QED BY <3>1 DEF Typed, RequestOK, Account
  <2> DEFINE Goal == FreshSampleStep /\ \A q \in Requests : Early(q)' => Early(q)
  <2>1. ASSUME NEW p \in Requests,
               \E u \in Reviewers, n \in Names :
                  InviteFind(p, u, n) \/ \E w \in Workspaces : Register(p, u, n, w)
        PROVE  Goal
    BY <1>0, <2>1 DEF InviteFind, Register, Start, Idle
  <2>2. ASSUME NEW p \in Requests, InviteFound(p) \/ InviteWrite(p)
        PROVE  Goal
    BY <1>0, <2>2 DEF InviteFound, InviteWrite, End, Goto
  <2>3. ASSUME NEW p \in Requests, InviteJoin(p) PROVE Goal
    <3>1. /\ pc[p] = "joining" /\ pc' = [pc EXCEPT ![p] = "seeding"]
          /\ Sample!SeedBegin(p, job[p].ws, TRUE, FALSE) /\ job[p].ws \in Workspaces
      BY <2>0, <2>3 DEF InviteJoin
    <3> QED BY <1>0, <3>1
  <2>4. ASSUME NEW p \in Requests, InviteCommit(p) \/ SeedAnswer(p) PROVE Goal
    <3>1. pc[p] = "seeding" /\ pc' = [pc EXCEPT ![p] = "done"] /\ Sample!SeedEnd(p)
      BY <2>4 DEF InviteCommit, SeedAnswer, End
    <3> QED BY <1>0, <3>1
  <2>5. ASSUME NEW p \in Requests, Seed(p) PROVE Goal
    <3>1. pc[p] = "seeding" /\ pc' = pc /\ Sample!SeedStep(p)
      BY <2>5 DEF Seed, requestVars
    <3> QED BY <3>1
  <2>6. ASSUME NEW p \in Requests, NEW u \in Reviewers,
               \/ DeactivateRead(p, u) \/ RegenerateRead(p, u) \/ LoginRead(p, u)
               \/ \E link \in Requests : SetPasswordRead(p, u, link)
        PROVE  Goal
    BY <1>0, <2>6 DEF DeactivateRead, RegenerateRead, LoginRead, SetPasswordRead, Start, Idle
  <2>7. ASSUME NEW p \in Requests, DeactivateWrite(p) \/ RegenerateWrite(p) PROVE Goal
    BY <1>0, <2>7 DEF DeactivateWrite, RegenerateWrite, End
  <2>8. ASSUME NEW p \in Requests, SetPasswordWrite(p) \/ LoginWrite(p) PROVE Goal
    <3>1. /\ pc[p] \in {"hashing", "comparing"}
          /\ \/ /\ pc' = [pc EXCEPT ![p] = "seeding"]
                /\ \E w \in Workspaces : Sample!SeedBegin(p, w, FALSE, FALSE)
             \/ pc' = [pc EXCEPT ![p] = "done"] /\ UNCHANGED sampleVars
      BY <2>0, <2>8 DEF SetPasswordWrite, Answer, LoginWrite, End
    <3> QED BY <1>0, <3>1
  <2>9. ASSUME NEW p \in Requests, NEW w \in Workspaces, NEW force \in BOOLEAN,
               SeedScript(p, w, force)
        PROVE  Goal
    <3>1. /\ pc[p] = "idle" /\ pc' = [pc EXCEPT ![p] = "seeding"]
          /\ Sample!SeedBegin(p, w, FALSE, force)
      BY <2>9 DEF SeedScript, Idle
    <3> QED BY <1>0, <3>1
  <2>10. ASSUME NEW p \in Requests, EditProfile(p) PROVE Goal
    BY <2>10 DEF EditProfile, requestVars
  <2>11. ASSUME NEW u \in Reviewers, Lapse(u) \/ AccountEnds(u) PROVE Goal
    BY <2>11 DEF Lapse, AccountEnds, requestVars
  <2>12. ASSUME NEW w \in Workspaces, UserDeletes(w) PROVE Goal
    BY <2>12 DEF UserDeletes, requestVars
  <2>13. ASSUME NEW P \in SUBSET Requests, Fail(P) PROVE Goal
    BY <1>0, <2>13 DEF Fail
  <2> HIDE DEF Goal
  <2>14. Goal
    BY <1>2, <2>1, <2>2, <2>3, <2>4, <2>5, <2>6, <2>7, <2>8, <2>9, <2>10, <2>11, <2>12, <2>13
       DEF Next
  <2> QED BY <2>14 DEF Goal
<1> QED BY <1>1, <1>2

(* The tables change as the step says, and rows are added by who is at it. *)
LEMMA FreshKept ==
  ASSUME Typed, Sample!SampleTypeOK, FreshInv, [Next]_vars
  PROVE  FreshInv'
<1> SUFFICES ASSUME NEW q \in Requests, Early(q)'
             PROVE  Fresh(q)'
  BY DEF FreshInv
<1>0. Early(q) /\ Fresh(q) /\ FreshSampleStep
  BY StepIsFresh DEF FreshInv
<1> USE DEF Fresh, Sample!Seeding
<1>s. seeding \in [Requests -> {NotSeeding} \cup Sample!Progress]
  BY DEF Sample!SampleTypeOK
<1>1. ASSUME NEW p \in Requests, NEW w \in Workspaces, NEW t \in BOOLEAN, NEW f \in BOOLEAN,
             ~ Early(p)', Sample!SeedBegin(p, w, t, f)
      PROVE  Fresh(q)'
  <2>1. p # q
    BY <1>1
  <2> QED BY <1>0, <1>s, <1>1, <2>1 DEF Sample!SeedBegin
<1>2. ASSUME NEW p \in Requests, ~ Early(p), Sample!SeedStep(p) \/ Sample!SeedEnd(p)
      PROVE  Fresh(q)'
  <2>1. p # q
    BY <1>0, <1>2
  <2>2. /\ \A r \in samples' : r \in samples \/ r.by = p
        /\ \A r \in reports' : r \in reports \/ r.by = p
        /\ open' \subseteq open
        /\ seeding'[q] = seeding[q]
    BY <1>s, <1>2, <2>1 DEF Sample!SeedStep, Sample!SeedCount, Sample!SeedDelete, Sample!SeedCreate,
       Sample!ReportCount, Sample!ReportCreate, Sample!SeedEnd, Sample!GoTo
  <2> QED BY <1>0, <2>1, <2>2
<1>3. ASSUME NEW w \in Workspaces, Sample!UserDeletes(w)
      PROVE  Fresh(q)'
  BY <1>0, <1>3 DEF Sample!UserDeletes
<1>4. ASSUME NEW P \in SUBSET Requests, Sample!SeedLost(P)
      PROVE  Fresh(q)'
  BY <1>0, <1>4 DEF Sample!SeedLost
<1>5. CASE UNCHANGED sampleVars
  BY <1>0, <1>5 DEF sampleVars
<1> QED BY <1>0, <1>1, <1>2, <1>3, <1>4, <1>5 DEF FreshSampleStep

(* In a workspace that was never crowded one seeder at most is busy; what  *)
(* is committed, and what it sees, holds nothing twice; and where it goes  *)
(* on to write, it sees nothing.                                           *)
OwnPlaces ==
    /\ \A r \in samples : r.by \in open => r.ws = seeding[r.by].ws
    /\ \A r \in reports : r.by \in open => r.ws = seeding[r.by].ws

NothingPending ==
    \A p \in Requests :
        Sample!Seeding(p) /\ (p \notin open \/ seeding[p].step \in {"count", "delete"}) =>
            seeding[p].gone = {}

OnceEach(R) == \A r, s \in R : r.item = s.item => r = s
OneOnly(R) == \A r, s \in R : r = s

Tidy(w) ==
    /\ OnceEach(Sample!Committed(w, samples)) /\ OneOnly(Sample!Committed(w, reports))
    /\ \A p, q \in Sample!SeedingIn(w) : p = q
    /\ \A p \in Sample!SeedingIn(w) :
          /\ OnceEach(Sample!InView(p)) /\ OneOnly(Sample!Visible(p, reports))
          /\ seeding[p].step = "create" => Sample!InView(p) = {}
          /\ seeding[p].step = "write" => Sample!Visible(p, reports) = {}

CopiesInv ==
    /\ OwnPlaces /\ NothingPending
    /\ \A w \in Workspaces \ crowded : Tidy(w)

LEMMA BeginIsTidy ==
  ASSUME Sample!SampleTypeOK, CopiesInv, NEW p \in Requests, Fresh(p),
         NEW v \in Workspaces, NEW t \in BOOLEAN, NEW f \in BOOLEAN, Sample!SeedBegin(p, v, t, f)
  PROVE  CopiesInv'
<1>0. /\ seeding \in [Requests -> {NotSeeding} \cup Sample!Progress]
      /\ seeding' = [seeding EXCEPT ![p] = [ws |-> v, step |-> "count", force |-> f, gone |-> {}]]
      /\ samples' = samples /\ reports' = reports
      /\ open \subseteq open' /\ \A q \in open' : q \in open \/ q = p
      /\ crowded' = IF Sample!SeedingIn(v) = {} THEN crowded ELSE crowded \cup {v}
  BY DEF Sample!SeedBegin, Sample!SampleTypeOK
<1>1. /\ seeding'[p] = [ws |-> v, step |-> "count", force |-> f, gone |-> {}]
      /\ \A q \in Requests : q # p => seeding'[q] = seeding[q]
      /\ seeding[p] = NotSeeding /\ seeding'[p] # NotSeeding
  BY <1>0, ReviewersAssumption DEF Fresh, Sample!Seeding, Sample!Progress, Sample!Steps
<1>2. (\A r \in samples : r.by # p) /\ (\A r \in reports : r.by # p) /\ p \notin open
  BY DEF Fresh
<1>3. OwnPlaces'
  <2>1. /\ \A r \in samples' : r \in samples /\ (r.by \in open' => r.by \in open /\ r.by # p)
        /\ \A r \in reports' : r \in reports /\ (r.by \in open' => r.by \in open /\ r.by # p)
    BY <1>0, <1>2
  <2>2. open \subseteq Requests
    BY DEF Sample!SampleTypeOK
  <2> QED BY <1>1, <2>1, <2>2 DEF CopiesInv, OwnPlaces
<1>4. NothingPending'
  BY <1>0, <1>1 DEF CopiesInv, NothingPending, Sample!Seeding
<1>5. ASSUME NEW w \in Workspaces, w \notin crowded' PROVE Tidy(w)'
  <2>1. Tidy(w) /\ (w = v => Sample!SeedingIn(w) = {})
    BY <1>0, <1>5 DEF CopiesInv
  <2>2. /\ Sample!Committed(w, samples)' = Sample!Committed(w, samples)
        /\ Sample!Committed(w, reports)' = Sample!Committed(w, reports)
    BY <1>0, <1>2 DEF Sample!Committed
  <2>3. ASSUME NEW q \in Requests, q # p
        PROVE  /\ Sample!InView(q)' = Sample!InView(q)
               /\ Sample!Visible(q, reports)' = Sample!Visible(q, reports)
               /\ (q \in Sample!SeedingIn(w))' <=> q \in Sample!SeedingIn(w)
    BY <1>0, <1>1, <1>2, <2>3 DEF Sample!InView, Sample!Visible, Sample!SeedingIn, Sample!Seeding
  <2>4. /\ Sample!InView(p)' = Sample!Committed(v, samples)
        /\ Sample!Visible(p, reports)' = Sample!Committed(v, reports)
    BY <1>0, <1>1, <1>2 DEF Sample!InView, Sample!Visible, Sample!Committed
  <2>5. (p \in Sample!SeedingIn(w))' => w = v
    BY <1>1 DEF Sample!SeedingIn
  <2>6. \A q \in Sample!SeedingIn(w)' : q \in Requests /\ (q = p \/ q \in Sample!SeedingIn(w))
    BY <2>3 DEF Sample!SeedingIn
  <2>7. \A q \in Sample!SeedingIn(w)', r \in Sample!SeedingIn(w)' : q = r
    BY <2>1, <2>5, <2>6 DEF Tidy
  <2>8. ASSUME NEW q \in Requests, q \in Sample!SeedingIn(w)'
        PROVE  (/\ OnceEach(Sample!InView(q)) /\ OneOnly(Sample!Visible(q, reports))
                /\ seeding[q].step = "create" => Sample!InView(q) = {}
                /\ seeding[q].step = "write" => Sample!Visible(q, reports) = {})'
    <3>1. CASE q = p
      <4>1. w = v
        BY <2>5, <2>8, <3>1
      <4>2. OnceEach(Sample!Committed(v, samples)) /\ OneOnly(Sample!Committed(v, reports))
        BY <2>1, <4>1 DEF Tidy
      <4> QED BY <1>1, <2>4, <3>1, <4>2 DEF OnceEach, OneOnly
    <3>2. CASE q # p
      <4>1. q \in Sample!SeedingIn(w)
        BY <2>6, <2>8, <3>2
      <4> QED BY <1>1, <2>1, <2>3, <3>2, <4>1 DEF Tidy, OnceEach, OneOnly
    <3> QED BY <3>1, <3>2
  <2> QED BY <2>1, <2>2, <2>6, <2>7, <2>8 DEF Tidy, OnceEach, OneOnly
<1> QED BY <1>3, <1>4, <1>5 DEF CopiesInv

OwnView(p) ==
    /\ OnceEach(Sample!InView(p)) /\ OneOnly(Sample!Visible(p, reports))
    /\ seeding[p].step = "create" => Sample!InView(p) = {}
    /\ seeding[p].step = "write" => Sample!Visible(p, reports) = {}

(* A statement of a seeder concerns its own workspace, in which it is alone. *)
LEMMA StatementIsTidy ==
  ASSUME Sample!SampleTypeOK, Sample!SampleTypeOK', CopiesInv, NEW p \in Requests,
         Sample!Seeding(p), Sample!Seeding(p)', open' = open, crowded' = crowded,
         \A q \in Requests : q # p => seeding'[q] = seeding[q],
         seeding'[p].ws = seeding[p].ws,
         p \notin open \/ seeding'[p].step \in {"count", "delete"} => seeding'[p].gone = {},
         \A r \in samples' : r \in samples \/ (r.by = p /\ r.ws = seeding[p].ws),
         \A r \in reports' : r \in reports \/ (r.by = p /\ r.ws = seeding[p].ws),
         Tidy(seeding[p].ws) => OwnView(p)'
  PROVE  CopiesInv'
<1>1. OwnPlaces'
  <2>1. open \subseteq Requests
    BY DEF Sample!SampleTypeOK
  <2>2. ASSUME NEW r, r \in samples' \/ r \in reports', r.by \in open'
        PROVE  r.ws = seeding'[r.by].ws
    <3>1. r.by \in Requests /\ seeding'[r.by].ws = seeding[r.by].ws
      BY <2>1, <2>2
    <3> QED BY <2>2, <3>1 DEF CopiesInv, OwnPlaces
  <2> QED BY <2>2 DEF OwnPlaces
<1>2. NothingPending'
  BY DEF CopiesInv, NothingPending, Sample!Seeding
<1>3. ASSUME NEW w \in Workspaces, w \notin crowded' PROVE Tidy(w)'
  <2>1. Tidy(w)
    BY <1>3 DEF CopiesInv
  <2>2. Sample!SeedingIn(w)' = Sample!SeedingIn(w)
    BY DEF Sample!SeedingIn, Sample!Seeding
  <2>3. CASE w # seeding[p].ws
    <3>1. /\ Sample!Committed(w, samples)' \subseteq Sample!Committed(w, samples)
          /\ Sample!Committed(w, reports)' \subseteq Sample!Committed(w, reports)
      BY <2>3 DEF Sample!Committed
    <3>2. ASSUME NEW q \in Requests, q \in Sample!SeedingIn(w)
          PROVE  OwnView(q)'
      <4>1. q # p /\ seeding[q].ws = w /\ seeding'[q] = seeding[q]
        BY <2>3, <3>2 DEF Sample!SeedingIn
      <4>2. /\ Sample!InView(q)' \subseteq Sample!InView(q)
            /\ Sample!Visible(q, reports)' \subseteq Sample!Visible(q, reports)
        BY <2>3, <4>1 DEF Sample!InView, Sample!Visible
      <4> QED BY <2>1, <3>2, <4>1, <4>2 DEF Tidy, OwnView, OnceEach, OneOnly
    <3>3. \A q \in Sample!SeedingIn(w) : q \in Requests
      BY DEF Sample!SeedingIn
    <3> QED BY <2>1, <2>2, <3>1, <3>2, <3>3 DEF Tidy, OwnView, OnceEach, OneOnly
  <2>4. CASE w = seeding[p].ws
    <3>1. p \in Sample!SeedingIn(w)
      BY <2>4 DEF Sample!SeedingIn
    <3>2. \A q \in Sample!SeedingIn(w) : q = p
      BY <2>1, <3>1 DEF Tidy
    <3>3. OwnView(p)'
      BY <2>1, <2>4
    <3>4. OnceEach(Sample!Committed(w, samples)') /\ OneOnly(Sample!Committed(w, reports)')
      <4>1. CASE p \in open
        <5>1. /\ Sample!Committed(w, samples)' \subseteq Sample!Committed(w, samples)
              /\ Sample!Committed(w, reports)' \subseteq Sample!Committed(w, reports)
          BY <4>1 DEF Sample!Committed
        <5> QED BY <2>1, <5>1 DEF Tidy, OnceEach, OneOnly
      <4>2. CASE p \notin open
        <5>1. /\ Sample!Committed(w, samples)' = Sample!InView(p)'
              /\ Sample!Committed(w, reports)' = Sample!Visible(p, reports)'
          BY <2>4, <4>2 DEF Sample!Committed, Sample!InView, Sample!Visible
        <5> QED BY <3>3, <5>1 DEF OwnView, OnceEach, OneOnly
      <4> QED BY <4>1, <4>2
    <3> QED BY <2>2, <3>1, <3>2, <3>3, <3>4 DEF Tidy, OwnView, OnceEach, OneOnly
  <2> QED BY <2>3, <2>4
<1> QED BY <1>1, <1>2, <1>3 DEF CopiesInv

LEMMA StepsAreTidy ==
  ASSUME Sample!SampleTypeOK, Sample!SampleTypeOK', CopiesInv, NEW p \in Requests,
         Sample!SeedStep(p)
  PROVE  CopiesInv'
<1>0. /\ Sample!Seeding(p) /\ seeding[p] \in Sample!Progress
      /\ seeding \in [Requests -> {NotSeeding} \cup Sample!Progress]
      /\ p \notin open \/ seeding[p].step \in {"count", "delete"} => seeding[p].gone = {}
      /\ Sample!InView(p) \subseteq Sample!Row /\ Sample!NextStep(p) \in Sample!Steps
  BY DEF Sample!SeedStep, Sample!SeedCount, Sample!SeedDelete, Sample!SeedCreate,
     Sample!ReportCount, Sample!ReportCreate, Sample!At, Sample!SampleTypeOK, Sample!Seeding,
     CopiesInv, NothingPending, Sample!InView, Sample!Visible, Sample!NextStep, Sample!Steps
<1>1. ASSUME Tidy(seeding[p].ws)
      PROVE  OwnView(p)
  <2>1. p \in Sample!SeedingIn(seeding[p].ws)
    BY <1>0 DEF Sample!SeedingIn
  <2> QED BY <1>1, <2>1 DEF Tidy, OwnView
<1> USE DEF Sample!At
<1>2. CASE Sample!SeedCount(p)
  <2>1. /\ seeding' = [seeding EXCEPT ![p].step = Sample!NextStep(p)]
        /\ UNCHANGED <<samples, reports, open, crowded>>
    BY <1>2 DEF Sample!SeedCount, Sample!GoTo
  <2>2. /\ seeding'[p].ws = seeding[p].ws /\ seeding'[p].gone = seeding[p].gone
        /\ seeding'[p].step = Sample!NextStep(p) /\ Sample!Seeding(p)'
        /\ seeding[p].step = "count"
    BY <1>0, <1>2, <2>1, ReviewersAssumption DEF Sample!SeedCount, Sample!Progress, Sample!Seeding, Sample!Steps
  <2>3. /\ Sample!InView(p)' = Sample!InView(p)
        /\ Sample!Visible(p, reports)' = Sample!Visible(p, reports)
    BY <2>1, <2>2 DEF Sample!InView, Sample!Visible
  <2>4. Tidy(seeding[p].ws) => OwnView(p)'
    BY <1>1, <2>2, <2>3 DEF OwnView, Sample!NextStep, OnceEach, OneOnly
  <2>5. \A q \in Requests : q # p => seeding'[q] = seeding[q]
    BY <2>1, <1>0
  <2> QED BY <1>0, <2>1, <2>2, <2>4, <2>5, StatementIsTidy
<1>3. CASE Sample!SeedDelete(p)
  <2>1. /\ seeding'[p].ws = seeding[p].ws /\ seeding'[p].step = "create" /\ Sample!Seeding(p)'
        /\ reports' = reports /\ open' = open /\ crowded' = crowded
        /\ samples' = IF p \in open THEN samples ELSE samples \ Sample!InView(p)
        /\ seeding'[p].gone = IF p \in open THEN Sample!InView(p) ELSE seeding[p].gone
    BY <1>0, <1>3, ReviewersAssumption
       DEF Sample!SeedDelete, Sample!GoTo, Sample!Progress, Sample!Seeding, Sample!Steps
  <2>2. \A q \in Requests : q # p => seeding'[q] = seeding[q]
    BY <1>0, <1>3 DEF Sample!SeedDelete, Sample!GoTo
  <2>3. Sample!Visible(p, reports)' = Sample!Visible(p, reports)
    BY <2>1 DEF Sample!Visible
  <2>4. Tidy(seeding[p].ws) => Sample!InView(p)' = {}
    <3>1. CASE p \in open
      <4>1. Sample!InView(p) = Sample!Visible(p, samples) \ seeding[p].gone
        BY DEF Sample!InView
      <4>2. Sample!Visible(p, samples)' = Sample!Visible(p, samples)
        BY <2>1, <3>1 DEF Sample!Visible
      <4>3. Sample!InView(p)' = Sample!Visible(p, samples) \ Sample!InView(p)
        BY <2>1, <3>1, <4>2 DEF Sample!InView
      <4>4. seeding[p].gone = {}
        BY <1>0, <1>3 DEF Sample!SeedDelete
      <4> QED BY <4>1, <4>3, <4>4
    <3>2. CASE p \notin open
      <4>1. seeding[p].gone = {} /\ seeding'[p].gone = {}
        BY <1>0, <2>1, <3>2
      <4>2. Sample!InView(p) = Sample!Visible(p, samples)
        BY <4>1 DEF Sample!InView
      <4> QED BY <2>1, <3>2, <4>1, <4>2 DEF Sample!InView, Sample!Visible
    <3> QED BY <3>1, <3>2
  <2>5. Tidy(seeding[p].ws) => OwnView(p)'
    BY <1>1, <2>1, <2>3, <2>4 DEF OwnView, OnceEach, OneOnly
  <2> QED BY <1>0, <2>1, <2>2, <2>5, StatementIsTidy
<1>4. CASE Sample!SeedCreate(p)
  <2>1. /\ seeding'[p].ws = seeding[p].ws /\ seeding'[p].step = "report" /\ Sample!Seeding(p)'
        /\ seeding'[p].gone = seeding[p].gone /\ seeding[p].step = "create"
        /\ reports' = reports /\ open' = open /\ crowded' = crowded
        /\ samples' = samples \cup {[ws |-> seeding[p].ws, by |-> p, item |-> i] : i \in Items}
    BY <1>0, <1>4, ReviewersAssumption
       DEF Sample!SeedCreate, Sample!GoTo, Sample!Progress, Sample!Seeding, Sample!Steps
  <2>2. \A q \in Requests : q # p => seeding'[q] = seeding[q]
    BY <1>0, <1>4 DEF Sample!SeedCreate, Sample!GoTo
  <2>3. Sample!Visible(p, reports)' = Sample!Visible(p, reports)
    BY <2>1 DEF Sample!Visible
  <2>4. ASSUME Sample!InView(p) = {}
        PROVE  OnceEach(Sample!InView(p)')
    <3>1. \A r \in Sample!InView(p)' : \E i \in Items :
             r = [ws |-> seeding[p].ws, by |-> p, item |-> i]
      BY <2>1, <2>4 DEF Sample!InView, Sample!Visible
    <3> QED BY <3>1 DEF OnceEach
  <2>5. Tidy(seeding[p].ws) => OwnView(p)'
    BY <1>1, <2>1, <2>3, <2>4 DEF OwnView, OnceEach, OneOnly
  <2>6. \A r \in samples' : r \in samples \/ (r.by = p /\ r.ws = seeding[p].ws)
    BY <2>1
  <2> QED BY <1>0, <2>1, <2>2, <2>5, <2>6, StatementIsTidy
<1>5. CASE Sample!ReportCount(p)
  <2>1. /\ seeding'[p].ws = seeding[p].ws /\ Sample!Seeding(p)'
        /\ seeding'[p].gone = seeding[p].gone
        /\ seeding'[p].step = IF seeding[p].force \/ Sample!Visible(p, reports) = {}
                              THEN "write" ELSE "ready"
        /\ samples' = samples /\ open' = open /\ crowded' = crowded
        /\ reports' = IF seeding[p].force THEN reports \ Sample!Visible(p, reports) ELSE reports
    BY <1>0, <1>5, ReviewersAssumption
       DEF Sample!ReportCount, Sample!GoTo, Sample!Progress, Sample!Seeding, Sample!Steps
  <2>2. \A q \in Requests : q # p => seeding'[q] = seeding[q]
    BY <1>0, <1>5 DEF Sample!ReportCount, Sample!GoTo
  <2>3. Sample!InView(p)' = Sample!InView(p)
    BY <2>1 DEF Sample!InView, Sample!Visible
  <2>4. /\ Sample!Visible(p, reports)' \subseteq Sample!Visible(p, reports)
        /\ seeding[p].force => Sample!Visible(p, reports)' = {}
    BY <2>1 DEF Sample!Visible
  <2>5. Tidy(seeding[p].ws) => OwnView(p)'
    BY <1>1, <2>1, <2>3, <2>4 DEF OwnView, OnceEach, OneOnly
  <2>6. \A r \in reports' : r \in reports
    BY <2>1
  <2> QED BY <1>0, <2>1, <2>2, <2>5, <2>6, StatementIsTidy
<1>6. CASE Sample!ReportCreate(p)
  <2>1. /\ seeding'[p].ws = seeding[p].ws /\ seeding'[p].step = "ready" /\ Sample!Seeding(p)'
        /\ seeding'[p].gone = seeding[p].gone /\ seeding[p].step = "write"
        /\ samples' = samples /\ open' = open /\ crowded' = crowded
        /\ reports' = reports \cup {[ws |-> seeding[p].ws, by |-> p]}
    BY <1>0, <1>6, ReviewersAssumption
       DEF Sample!ReportCreate, Sample!GoTo, Sample!Progress, Sample!Seeding, Sample!Steps
  <2>2. \A q \in Requests : q # p => seeding'[q] = seeding[q]
    BY <1>0, <1>6 DEF Sample!ReportCreate, Sample!GoTo
  <2>3. Sample!InView(p)' = Sample!InView(p)
    BY <2>1 DEF Sample!InView, Sample!Visible
  <2>4. ASSUME Sample!Visible(p, reports) = {}
        PROVE  OneOnly(Sample!Visible(p, reports)')
    BY <2>1, <2>4 DEF Sample!Visible, OneOnly
  <2>5. Tidy(seeding[p].ws) => OwnView(p)'
    BY <1>1, <2>1, <2>3, <2>4 DEF OwnView, OnceEach, OneOnly
  <2>6. \A r \in reports' : r \in reports \/ (r.by = p /\ r.ws = seeding[p].ws)
    BY <2>1
  <2> QED BY <1>0, <2>1, <2>2, <2>5, <2>6, StatementIsTidy
<1> QED BY <1>2, <1>3, <1>4, <1>5, <1>6 DEF Sample!SeedStep

(* The end of a transaction shows what its seeder saw.                     *)
LEMMA EndIsTidy ==
  ASSUME Sample!SampleTypeOK, CopiesInv, NEW p \in Requests, Sample!SeedEnd(p)
  PROVE  CopiesInv'
<1>0. /\ Sample!Seeding(p) /\ ~ Sample!Seeding(p)'
      /\ samples' = samples \ seeding[p].gone /\ reports' = reports
      /\ open' = open \ {p} /\ crowded' = crowded
      /\ p \notin open => seeding[p].gone = {}
      /\ \A q \in Requests : q # p => seeding'[q] = seeding[q]
  BY DEF Sample!SeedEnd, Sample!At, Sample!Seeding, CopiesInv, NothingPending, Sample!SampleTypeOK
<1>1. OwnPlaces'
  BY <1>0 DEF CopiesInv, OwnPlaces, Sample!SampleTypeOK
<1>2. NothingPending'
  BY <1>0 DEF CopiesInv, NothingPending, Sample!Seeding
<1>3. ASSUME NEW w \in Workspaces, w \notin crowded' PROVE Tidy(w)'
  <2>1. Tidy(w)
    BY <1>0, <1>3 DEF CopiesInv
  <2>2. \A q \in Sample!SeedingIn(w)' : q \in Requests /\ q # p /\ q \in Sample!SeedingIn(w)
    BY <1>0 DEF Sample!SeedingIn, Sample!Seeding
  <2>3. CASE w # seeding[p].ws \/ p \notin open
    <3>1. \A r : (r \in samples \/ r \in reports) /\ r.ws = w /\ r.by = p => p \notin open
      BY <2>3 DEF CopiesInv, OwnPlaces
    <3>2. /\ Sample!Committed(w, samples)' \subseteq Sample!Committed(w, samples)
          /\ Sample!Committed(w, reports)' \subseteq Sample!Committed(w, reports)
      BY <1>0, <3>1 DEF Sample!Committed
    <3>3. ASSUME NEW q \in Requests, q \in Sample!SeedingIn(w)' PROVE OwnView(q)'
      <4>1. q # p /\ q \in Sample!SeedingIn(w) /\ seeding'[q] = seeding[q] /\ seeding[q].ws = w
        BY <1>0, <2>2, <3>3 DEF Sample!SeedingIn
      <4>2. /\ Sample!InView(q)' \subseteq Sample!InView(q)
            /\ Sample!Visible(q, reports)' \subseteq Sample!Visible(q, reports)
        BY <1>0, <3>1, <4>1 DEF Sample!InView, Sample!Visible
      <4> QED BY <2>1, <4>1, <4>2 DEF Tidy, OwnView, OnceEach, OneOnly
    <3> QED BY <2>1, <2>2, <3>2, <3>3 DEF Tidy, OwnView, OnceEach, OneOnly
  <2>4. CASE w = seeding[p].ws /\ p \in open
    <3>1. p \in Sample!SeedingIn(w)
      BY <1>0, <2>4 DEF Sample!SeedingIn
    <3>2. \A q \in Sample!SeedingIn(w)' : FALSE
      BY <2>1, <2>2, <3>1 DEF Tidy
    <3>3. /\ Sample!Committed(w, samples)' \subseteq Sample!InView(p)
          /\ Sample!Committed(w, reports)' \subseteq Sample!Visible(p, reports)
      BY <1>0, <2>4 DEF Sample!Committed, Sample!InView, Sample!Visible
    <3> QED BY <2>1, <3>1, <3>2, <3>3 DEF Tidy, OnceEach, OneOnly
  <2> QED BY <2>3, <2>4
<1> QED BY <1>1, <1>2, <1>3 DEF CopiesInv

(* Deletions by users, and what is lost with its transactions.             *)
LEMMA LessIsTidy ==
  ASSUME Sample!SampleTypeOK, CopiesInv, NEW P \in SUBSET Requests, crowded' = crowded,
         samples' \subseteq samples, reports' \subseteq reports, open' = open \ P,
         \A r \in samples' : r.by \notin P \cap open,
         \A r \in reports' : r.by \notin P \cap open,
         \A q \in P : ~ Sample!Seeding(q)', \A q \in Requests \ P : seeding'[q] = seeding[q]
  PROVE  CopiesInv'
<1>1. OwnPlaces'
  BY DEF CopiesInv, OwnPlaces, Sample!SampleTypeOK
<1>2. NothingPending'
  BY DEF CopiesInv, NothingPending, Sample!Seeding
<1>3. ASSUME NEW w \in Workspaces, w \notin crowded' PROVE Tidy(w)'
  <2>1. Tidy(w)
    BY <1>3 DEF CopiesInv
  <2>2. \A q \in Sample!SeedingIn(w)' : q \in Requests /\ q \notin P /\ q \in Sample!SeedingIn(w)
    BY DEF Sample!SeedingIn, Sample!Seeding
  <2>3. /\ Sample!Committed(w, samples)' \subseteq Sample!Committed(w, samples)
        /\ Sample!Committed(w, reports)' \subseteq Sample!Committed(w, reports)
    BY DEF Sample!Committed
  <2>4. ASSUME NEW q \in Requests, q \in Sample!SeedingIn(w)' PROVE OwnView(q)'
    <3>1. q \notin P /\ q \in Sample!SeedingIn(w) /\ seeding'[q] = seeding[q]
      BY <2>2, <2>4
    <3>2. /\ Sample!InView(q)' \subseteq Sample!InView(q)
          /\ Sample!Visible(q, reports)' \subseteq Sample!Visible(q, reports)
      BY <3>1 DEF Sample!InView, Sample!Visible
    <3> QED BY <2>1, <3>1, <3>2 DEF Tidy, OwnView, OnceEach, OneOnly
  <2> QED BY <2>1, <2>2, <2>3, <2>4 DEF Tidy, OwnView, OnceEach, OneOnly
<1> QED BY <1>1, <1>2, <1>3 DEF CopiesInv

LEMMA CopiesStep ==
  ASSUME Typed, Sample!SampleTypeOK, Sample!SampleTypeOK', FreshInv, CopiesInv, [Next]_vars
  PROVE  CopiesInv'
<1>0. FreshSampleStep
  BY StepIsFresh
<1>1. ASSUME NEW p \in Requests, NEW w \in Workspaces, NEW t \in BOOLEAN, NEW f \in BOOLEAN,
             Early(p), Sample!SeedBegin(p, w, t, f)
      PROVE  CopiesInv'
  <2>1. Fresh(p)
    BY <1>1 DEF FreshInv
  <2> QED BY <1>1, <2>1, BeginIsTidy
<1>2. ASSUME NEW p \in Requests, Sample!SeedStep(p) \/ Sample!SeedEnd(p)
      PROVE  CopiesInv'
  BY <1>2, StepsAreTidy, EndIsTidy
<1>3. ASSUME NEW w \in Workspaces, Sample!UserDeletes(w) PROVE CopiesInv'
  <2>1. /\ crowded' = crowded /\ samples' \subseteq samples /\ reports' \subseteq reports
        /\ open' = open \ {} /\ seeding' = seeding
        /\ {} \in SUBSET Requests /\ \A q \in {} : ~ Sample!Seeding(q)'
        /\ \A r \in samples' : r.by \notin {} \cap open
        /\ \A r \in reports' : r.by \notin {} \cap open
        /\ \A q \in Requests \ {} : seeding'[q] = seeding[q]
    BY <1>3 DEF Sample!UserDeletes
  <2> QED BY <2>1, LessIsTidy
<1>4. ASSUME NEW P \in SUBSET Requests, Sample!SeedLost(P) PROVE CopiesInv'
  <2>1. /\ crowded' = crowded /\ samples' \subseteq samples /\ reports' \subseteq reports
        /\ open' = open \ P
        /\ \A r \in samples' : r.by \notin P \cap open
        /\ \A r \in reports' : r.by \notin P \cap open
        /\ \A q \in P : ~ Sample!Seeding(q)'
        /\ \A q \in Requests \ P : seeding'[q] = seeding[q]
    BY <1>4 DEF Sample!SeedLost, Sample!Seeding
  <2> QED BY <2>1, LessIsTidy
<1>5. CASE UNCHANGED sampleVars
  <2>1. /\ crowded' = crowded /\ samples' = samples /\ reports' = reports
        /\ open' = open \ {} /\ seeding' = seeding
        /\ {} \in SUBSET Requests /\ \A q \in {} : ~ Sample!Seeding(q)'
        /\ \A r \in samples' : r.by \notin {} \cap open
        /\ \A r \in reports' : r.by \notin {} \cap open
        /\ \A q \in Requests \ {} : seeding'[q] = seeding[q]
    BY <1>5 DEF sampleVars
  <2> QED BY <2>1, LessIsTidy
<1> QED BY <1>0, <1>1, <1>2, <1>3, <1>4, <1>5 DEF FreshSampleStep

(* The sample of a workspace holds a record, or its report, twice only if  *)
(* two logins or invitations ensured it at a time: whatever fails between  *)
(* two statements, and whatever users delete, ensureGoldenSampleData-      *)
(* ForWorkspace by itself never makes a copy.                              *)
THEOREM OnlyCrowdsMakeCopies == Spec => []CopiesOnlyFromCrowds
<1>1. Init => FreshInv /\ CopiesInv
  BY DEF Init, Sample!SampleInit, FreshInv, Fresh, Early, CopiesInv, OwnPlaces, NothingPending,
         Tidy, OnceEach, OneOnly, Sample!Committed, Sample!SeedingIn, Sample!Seeding
<1>2. /\ Typed /\ Sample!SampleTypeOK /\ (Typed /\ Sample!SampleTypeOK)'
      /\ FreshInv /\ CopiesInv /\ [Next]_vars
      => (FreshInv /\ CopiesInv)'
  BY FreshKept, CopiesStep
<1>3. CopiesInv => CopiesOnlyFromCrowds
  BY DEF CopiesInv, Tidy, OnceEach, OneOnly, CopiesOnlyFromCrowds, Sample!CopiesOnlyFromCrowds
<1> QED BY <1>1, <1>2, <1>3, Always, PTL DEF Spec

-----------------------------------------------------------------------------
(* Why seeding leaves a complete sample behind.                            *)

Full(R) == \A i \in Items : \E r \in R : r.item = i

(* The sample counts as everybody does.                                    *)
LEMMA SameCount == \A S : Sample!Cardinality(S) = Cardinality(S)
BY DEF Sample!Cardinality, Cardinality

(* Where nothing is twice, to be as many as the items is to have them all. *)
LEMMA AsManyIsAll ==
  ASSUME NEW R, \A r \in R : r.item \in Items, OnceEach(R)
  PROVE  Cardinality(R) = Cardinality(Items) <=> Full(R)
<1> DEFINE f == [r \in R |-> r.item]
<1>1. f \in Injection(R, Items)
  BY DEF OnceEach, Injection, IsInjective
<1>2. IsFiniteSet(Items)
  BY ReviewersAssumption
<1>3. f \in Surjection(R, Items) <=> Full(R)
  BY <1>1 DEF Surjection, Injection, Full
<1> HIDE DEF f
<1> QED BY <1>1, <1>2, <1>3, FS_Injection

(* Before it writes, a seeder has no row of its own, and it takes away     *)
(* those of others only; if nobody disturbs it, it sees the whole sample   *)
(* once it has got past the records, and a report once it is ready.        *)
Undisturbed(p) == seeding[p].ws \notin crowded /\ p \notin disturbed

Repairs(p) ==
    Sample!Seeding(p) =>
        /\ seeding[p].step \in {"count", "delete", "create"} => \A r \in samples : r.by # p
        /\ \A r \in seeding[p].gone : r.ws = seeding[p].ws /\ r.by # p
        /\ Undisturbed(p) =>
              /\ seeding[p].step \in {"report", "write", "ready"} => Full(Sample!InView(p))
              /\ seeding[p].step = "ready" => Sample!Visible(p, reports) # {}

RepairInv == \A p \in Requests : Repairs(p)

(* What others do leaves its view whole.                                   *)
LEMMA RepairsKept ==
  ASSUME NEW q \in Requests, Repairs(q), Sample!Seeding(q)' => seeding'[q] = seeding[q],
         crowded \subseteq crowded', disturbed \subseteq disturbed',
         \A r \in samples' : r \in samples \/ r.by # q,
         Sample!Seeding(q)' /\ Undisturbed(q)' =>
            /\ Sample!InView(q) \subseteq Sample!InView(q)'
            /\ Sample!Visible(q, reports) \subseteq Sample!Visible(q, reports)'
  PROVE  Repairs(q)'
<1> SUFFICES ASSUME Sample!Seeding(q)' PROVE Repairs(q)'
  BY DEF Repairs
<1>1. seeding'[q] = seeding[q] /\ Sample!Seeding(q)
  BY DEF Sample!Seeding
<1>2. ASSUME Undisturbed(q)'
      PROVE  Undisturbed(q) /\ (Full(Sample!InView(q)) => Full(Sample!InView(q)'))
  BY <1>1, <1>2 DEF Undisturbed, Full
<1>3. Undisturbed(q)' /\ Sample!Visible(q, reports) # {} => Sample!Visible(q, reports)' # {}
  BY <1>1
<1> QED BY <1>1, <1>2, <1>3 DEF Repairs, Full

(* Where no two were busy at a time a seeder is alone.                     *)
LEMMA Alone ==
  ASSUME Sample!SampleTypeOK, CopiesInv, NEW p \in Requests, Sample!Seeding(p), Undisturbed(p)
  PROVE  /\ OwnView(p)
         /\ \A q \in Requests : Sample!Seeding(q) /\ seeding[q].ws = seeding[p].ws => q = p
<1>1. seeding[p].ws \in Workspaces \ crowded
  BY DEF Sample!SampleTypeOK, Sample!Seeding, Sample!Progress, Undisturbed
<1>2. Tidy(seeding[p].ws) /\ p \in Sample!SeedingIn(seeding[p].ws)
  BY <1>1 DEF CopiesInv, Sample!SeedingIn
<1> QED BY <1>2 DEF Tidy, OwnView, Sample!SeedingIn

LEMMA BeginRepairs ==
  ASSUME Sample!SampleTypeOK, RepairInv, NEW p \in Requests, Fresh(p),
         NEW v \in Workspaces, NEW t \in BOOLEAN, NEW f \in BOOLEAN, Sample!SeedBegin(p, v, t, f)
  PROVE  RepairInv'
<1>0. /\ seeding \in [Requests -> {NotSeeding} \cup Sample!Progress]
      /\ seeding' = [seeding EXCEPT ![p] = [ws |-> v, step |-> "count", force |-> f, gone |-> {}]]
      /\ samples' = samples /\ reports' = reports /\ disturbed' = disturbed
      /\ \A q \in open' : q \in open \/ q = p
      /\ crowded \subseteq crowded'
  BY DEF Sample!SeedBegin, Sample!SampleTypeOK
<1>1. /\ seeding'[p] = [ws |-> v, step |-> "count", force |-> f, gone |-> {}]
      /\ \A q \in Requests : q # p => seeding'[q] = seeding[q]
  BY <1>0
<1>2. (\A r \in samples : r.by # p) /\ (\A r \in reports : r.by # p)
  BY DEF Fresh
<1>3. Repairs(p)'
  BY <1>0, <1>1, <1>2 DEF Repairs
<1>4. ASSUME NEW q \in Requests, q # p PROVE Repairs(q)'
  <2>1. /\ Sample!InView(q) \subseteq Sample!InView(q)'
        /\ Sample!Visible(q, reports) \subseteq Sample!Visible(q, reports)'
    BY <1>0, <1>1, <1>2, <1>4 DEF Sample!InView, Sample!Visible
  <2> QED BY <1>0, <1>1, <1>4, <2>1, RepairsKept DEF RepairInv
<1> QED BY <1>3, <1>4 DEF RepairInv

(* A statement of one seeder is no concern of those elsewhere.             *)
LEMMA OthersRepair ==
  ASSUME Sample!SampleTypeOK, CopiesInv, RepairInv, NEW p \in Requests, Sample!SeedStep(p),
         NEW q \in Requests, q # p
  PROVE  Repairs(q)'
<1>0. /\ Sample!Seeding(p) /\ seeding'[q] = seeding[q]
      /\ open' = open /\ crowded' = crowded /\ disturbed' = disturbed
  BY DEF Sample!SeedStep, Sample!SeedCount, Sample!SeedDelete, Sample!SeedCreate,
     Sample!ReportCount, Sample!ReportCreate, Sample!At, Sample!GoTo, Sample!SampleTypeOK
<1>1. \A r \in samples' : r \in samples \/ r.by # q
  BY DEF Sample!SeedStep, Sample!SeedCount, Sample!SeedDelete, Sample!SeedCreate,
     Sample!ReportCount, Sample!ReportCreate
<1>2. /\ \A r \in samples : r \in samples' \/ r.ws = seeding[p].ws
      /\ \A r \in reports : r \in reports' \/ r.ws = seeding[p].ws
  BY DEF Sample!SeedStep, Sample!SeedCount, Sample!SeedDelete, Sample!SeedCreate,
     Sample!ReportCount, Sample!ReportCreate, Sample!InView, Sample!Visible
<1>3. ASSUME Sample!Seeding(q)', Undisturbed(q)'
      PROVE  /\ Sample!InView(q) \subseteq Sample!InView(q)'
             /\ Sample!Visible(q, reports) \subseteq Sample!Visible(q, reports)'
  <2>1. Sample!Seeding(q) /\ Undisturbed(q)
    BY <1>0, <1>3 DEF Sample!Seeding, Undisturbed
  <2>2. seeding[q].ws # seeding[p].ws
    BY <1>0, <2>1, Alone
  <2> QED BY <1>0, <1>2, <2>2 DEF Sample!InView, Sample!Visible
<1> QED BY <1>0, <1>1, <1>3, RepairsKept DEF RepairInv

(* Each statement does its part.                                           *)
LEMMA OwnStepRepairs ==
  ASSUME Sample!SampleTypeOK, CopiesInv, RepairInv, NEW p \in Requests, Sample!SeedStep(p)
  PROVE  Repairs(p)'
<1>0. /\ Sample!Seeding(p) /\ seeding[p] \in Sample!Progress
      /\ seeding \in [Requests -> {NotSeeding} \cup Sample!Progress]
      /\ Sample!InView(p) \subseteq Sample!Row /\ Repairs(p)
  BY DEF Sample!SeedStep, Sample!SeedCount, Sample!SeedDelete, Sample!SeedCreate,
     Sample!ReportCount, Sample!ReportCreate, Sample!At, Sample!SampleTypeOK, Sample!Seeding,
     RepairInv, Sample!InView, Sample!Visible
<1> USE DEF Sample!At
<1>1. CASE Sample!SeedCount(p)
  <2>1. /\ seeding'[p].ws = seeding[p].ws /\ seeding'[p].gone = seeding[p].gone
        /\ seeding'[p].step = Sample!NextStep(p) /\ seeding[p].step = "count"
        /\ UNCHANGED <<samples, reports, open, crowded, disturbed>>
    BY <1>0, <1>1 DEF Sample!SeedCount, Sample!GoTo, Sample!Progress
  <2>2. Sample!InView(p)' = Sample!InView(p)
    BY <2>1 DEF Sample!InView, Sample!Visible
  <2>3. Sample!NextStep(p) \in {"report", "delete", "create"}
    BY DEF Sample!NextStep
  <2>4. ASSUME Undisturbed(p), Sample!NextStep(p) = "report"
        PROVE  Full(Sample!InView(p))
    <3>1. OnceEach(Sample!InView(p))
      BY <1>0, <2>4, Alone DEF OwnView
    <3>2. Cardinality(Sample!InView(p)) = Cardinality(Items)
      BY <2>4, SameCount DEF Sample!NextStep
    <3>3. \A r \in Sample!InView(p) : r.item \in Items
      BY <1>0 DEF Sample!Row
    <3> QED BY <3>1, <3>2, <3>3, AsManyIsAll
  <2>5. Undisturbed(p)' => Undisturbed(p)
    BY <2>1 DEF Undisturbed
  <2> QED BY <1>0, <2>1, <2>2, <2>3, <2>4, <2>5 DEF Repairs, Full
<1>2. CASE Sample!SeedDelete(p)
  <2>1. /\ seeding'[p].ws = seeding[p].ws /\ seeding'[p].step = "create"
        /\ samples' \subseteq samples /\ seeding[p].step = "delete"
        /\ seeding'[p].gone = seeding[p].gone \/ seeding'[p].gone = Sample!InView(p)
    BY <1>0, <1>2 DEF Sample!SeedDelete, Sample!GoTo, Sample!Progress
  <2>2. \A r \in Sample!InView(p) : r \in samples /\ r.ws = seeding[p].ws
    BY DEF Sample!InView, Sample!Visible
  <2> QED BY <1>0, <2>1, <2>2 DEF Repairs
<1>3. CASE Sample!SeedCreate(p)
  <2>1. /\ seeding'[p].ws = seeding[p].ws /\ seeding'[p].step = "report"
        /\ seeding'[p].gone = seeding[p].gone /\ open' = open
        /\ samples' = samples \cup {[ws |-> seeding[p].ws, by |-> p, item |-> i] : i \in Items}
    BY <1>0, <1>3 DEF Sample!SeedCreate, Sample!GoTo, Sample!Progress
  <2>2. ASSUME NEW i \in Items
        PROVE  \E r \in Sample!InView(p)' : r.item = i
    <3> DEFINE r == [ws |-> seeding[p].ws, by |-> p, item |-> i]
    <3>1. r \in samples' /\ r.ws = seeding'[p].ws /\ r.by = p /\ r.item = i
      BY <2>1
    <3>2. r \notin seeding'[p].gone
      BY <1>0, <2>1, <3>1 DEF Repairs
    <3> HIDE DEF r
    <3> QED BY <3>1, <3>2 DEF Sample!InView, Sample!Visible
  <2> QED BY <1>0, <2>1, <2>2 DEF Repairs, Full
<1>4. CASE Sample!ReportCount(p)
  <2>1. /\ seeding'[p].ws = seeding[p].ws /\ seeding'[p].gone = seeding[p].gone
        /\ seeding'[p].step \in {"write", "ready"} /\ seeding[p].step = "report"
        /\ seeding'[p].step = "ready" => Sample!Visible(p, reports) # {} /\ reports' = reports
        /\ UNCHANGED <<samples, open, crowded, disturbed>>
    BY <1>0, <1>4 DEF Sample!ReportCount, Sample!GoTo, Sample!Progress
  <2>2. /\ Sample!InView(p)' = Sample!InView(p)
        /\ reports' = reports => Sample!Visible(p, reports)' = Sample!Visible(p, reports)
    BY <2>1 DEF Sample!InView, Sample!Visible
  <2>3. Undisturbed(p)' => Undisturbed(p)
    BY <2>1 DEF Undisturbed
  <2> QED BY <1>0, <2>1, <2>2, <2>3 DEF Repairs, Full
<1>5. CASE Sample!ReportCreate(p)
  <2>1. /\ seeding'[p].ws = seeding[p].ws /\ seeding'[p].gone = seeding[p].gone
        /\ seeding'[p].step = "ready" /\ seeding[p].step = "write"
        /\ [ws |-> seeding[p].ws, by |-> p] \in reports'
        /\ UNCHANGED <<samples, open, crowded, disturbed>>
    BY <1>0, <1>5 DEF Sample!ReportCreate, Sample!GoTo, Sample!Progress
  <2>2. Sample!InView(p)' = Sample!InView(p) /\ Sample!Visible(p, reports)' # {}
    BY <2>1 DEF Sample!InView, Sample!Visible
  <2>3. Undisturbed(p)' => Undisturbed(p)
    BY <2>1 DEF Undisturbed
  <2> QED BY <1>0, <2>1, <2>2, <2>3 DEF Repairs, Full
<1> QED BY <1>1, <1>2, <1>3, <1>4, <1>5 DEF Sample!SeedStep

LEMMA RepairStep ==
  ASSUME Typed, Sample!SampleTypeOK, FreshInv, CopiesInv, RepairInv, [Next]_vars
  PROVE  RepairInv'
<1>0. FreshSampleStep
  BY StepIsFresh
<1>s. seeding \in [Requests -> {NotSeeding} \cup Sample!Progress] /\ open \subseteq Requests
  BY DEF Sample!SampleTypeOK
<1>1. ASSUME NEW p \in Requests, NEW w \in Workspaces, NEW t \in BOOLEAN, NEW f \in BOOLEAN,
             Early(p), Sample!SeedBegin(p, w, t, f)
      PROVE  RepairInv'
  <2>1. Fresh(p)
    BY <1>1 DEF FreshInv
  <2> QED BY <1>1, <2>1, BeginRepairs
<1>2. ASSUME NEW p \in Requests, Sample!SeedStep(p) PROVE RepairInv'
  BY <1>2, OthersRepair, OwnStepRepairs DEF RepairInv
<1>3. ASSUME NEW p \in Requests, Sample!SeedEnd(p), NEW q \in Requests PROVE Repairs(q)'
  <2>1. /\ Sample!Seeding(p) /\ ~ Sample!Seeding(p)'
        /\ samples' = samples \ seeding[p].gone /\ open' \subseteq open
        /\ UNCHANGED <<reports, crowded, disturbed>> /\ Repairs(p)
        /\ q # p => seeding'[q] = seeding[q]
    BY <1>s, <1>3 DEF Sample!SeedEnd, Sample!At, Sample!Seeding, RepairInv
  <2>2. ASSUME Sample!Seeding(q)', Undisturbed(q)'
        PROVE  /\ Sample!InView(q) \subseteq Sample!InView(q)'
               /\ Sample!Visible(q, reports) \subseteq Sample!Visible(q, reports)'
    <3>1. q # p /\ seeding'[q] = seeding[q]
      BY <2>1, <2>2
    <3>2. Sample!Seeding(q) /\ Undisturbed(q)
      BY <2>1, <2>2, <3>1 DEF Sample!Seeding, Undisturbed
    <3>3. seeding[q].ws # seeding[p].ws
      BY <2>1, <3>1, <3>2, Alone
    <3>4. \A r \in seeding[p].gone : r.ws # seeding[q].ws
      BY <2>1, <3>3 DEF Repairs
    <3> QED BY <2>1, <3>1, <3>4 DEF Sample!InView, Sample!Visible
  <2> QED BY <2>1, <2>2, RepairsKept DEF RepairInv
<1>4. ASSUME NEW w \in Workspaces, Sample!UserDeletes(w), NEW q \in Requests PROVE Repairs(q)'
  <2>1. /\ \A r \in samples : r \in samples' \/ r.ws = w
        /\ \A r \in reports : r \in reports' \/ r.ws = w
        /\ samples' \subseteq samples /\ disturbed' = disturbed \cup Sample!SeedingIn(w)
        /\ UNCHANGED <<seeding, open, crowded>>
    BY <1>4 DEF Sample!UserDeletes, Sample!Committed
  <2>2. ASSUME Sample!Seeding(q)', Undisturbed(q)'
        PROVE  /\ Sample!InView(q) \subseteq Sample!InView(q)'
               /\ Sample!Visible(q, reports) \subseteq Sample!Visible(q, reports)'
    <3>1. seeding[q].ws # w
      BY <2>1, <2>2 DEF Undisturbed, Sample!SeedingIn, Sample!Seeding
    <3> QED BY <2>1, <3>1 DEF Sample!InView, Sample!Visible
  <2> QED BY <2>1, <2>2, RepairsKept DEF RepairInv
<1>5. ASSUME NEW P \in SUBSET Requests, Sample!SeedLost(P), NEW q \in Requests PROVE Repairs(q)'
  <2>1. /\ \A r \in samples : r \in samples' \/ r.by \in P \cap open
        /\ \A r \in reports : r \in reports' \/ r.by \in P \cap open
        /\ samples' \subseteq samples /\ open' \subseteq open
        /\ UNCHANGED <<crowded, disturbed>>
        /\ IF q \in P THEN ~ Sample!Seeding(q)' ELSE seeding'[q] = seeding[q]
    BY <1>5 DEF Sample!SeedLost, Sample!Seeding
  <2>2. ASSUME Sample!Seeding(q)'
        PROVE  /\ Sample!InView(q) \subseteq Sample!InView(q)'
               /\ Sample!Visible(q, reports) \subseteq Sample!Visible(q, reports)'
    BY <2>1, <2>2 DEF Sample!InView, Sample!Visible
  <2> QED BY <2>1, <2>2, RepairsKept DEF RepairInv
<1>6. CASE UNCHANGED sampleVars
  BY <1>6 DEF sampleVars, RepairInv, Repairs, Undisturbed, Full, Sample!Seeding, Sample!InView,
     Sample!Visible
<1> QED BY <1>0, <1>1, <1>2, <1>3, <1>4, <1>5, <1>6 DEF FreshSampleStep, RepairInv

(* What a seeder saw when it was ready is what the workspace then holds.   *)
LEMMA EndLeavesAll ==
  ASSUME Sample!SampleTypeOK, CopiesInv, RepairInv, NEW p \in Requests, Sample!SeedEnd(p),
         Undisturbed(p)
  PROVE  LET rows == {r \in samples' : r.ws = seeding[p].ws}
         IN  /\ Full(rows) /\ Cardinality(rows) = Cardinality(Items)
             /\ \E r \in reports' : r.ws = seeding[p].ws
<1> DEFINE rows == {r \in samples' : r.ws = seeding[p].ws}
<1>1. /\ Sample!Seeding(p) /\ seeding[p].step = "ready"
      /\ samples' = samples \ seeding[p].gone /\ reports' = reports
  BY DEF Sample!SeedEnd, Sample!At
<1>2. OnceEach(Sample!InView(p)) /\ Full(Sample!InView(p)) /\ Sample!Visible(p, reports) # {}
  BY <1>1, Alone DEF OwnView, RepairInv, Repairs
<1>3. ASSUME NEW r \in samples, r.ws = seeding[p].ws PROVE r.by \notin open \ {p}
  <2>1. r.by \in open => r.by \in Requests /\ Sample!Seeding(r.by) /\ r.ws = seeding[r.by].ws
    BY <1>3 DEF CopiesInv, OwnPlaces, Sample!SampleTypeOK
  <2> QED BY <1>1, <1>3, <2>1, Alone
<1>4. \A r : r \in rows <=> r \in Sample!InView(p)
  BY <1>1, <1>3 DEF Sample!InView, Sample!Visible
<1>5. \A r \in rows : r.item \in Items
  BY <1>1 DEF Sample!SampleTypeOK, Sample!Row
<1>6. \E r \in reports' : r.ws = seeding[p].ws
  BY <1>1, <1>2 DEF Sample!Visible
<1> HIDE DEF rows
<1>7. OnceEach(rows) /\ Full(rows)
  BY <1>2, <1>4 DEF OnceEach, Full
<1>8. Cardinality(rows) = Cardinality(Items)
  BY <1>5, <1>7, AsManyIsAll
<1> QED BY <1>6, <1>7, <1>8 DEF rows

(* Whoever ensures the sample dataset, at a login, with an invitation or   *)
(* from the script, leaves it complete behind: every record once, and a    *)
(* report.  It does not matter what an earlier run that was cut off, or a  *)
(* user's deletion before it began, has left; only a second one at the     *)
(* same time, or a deletion under its feet, does.                          *)
THEOREM SeedingLeavesTheSample == Spec => SeedingRepairs
<1> DEFINE Leaves ==
      \A p \in Requests :
          Sample!SeedEnd(p) /\ seeding[p].ws \notin crowded /\ p \notin disturbed =>
              LET rows == {r \in samples' : r.ws = seeding[p].ws}
              IN  /\ \A i \in Items : \E r \in rows : r.item = i
                  /\ Sample!Cardinality(rows) = Sample!Cardinality(Items)
                  /\ \E r \in reports' : r.ws = seeding[p].ws
<1>1. Init => FreshInv /\ CopiesInv /\ RepairInv
  BY DEF Init, Sample!SampleInit, FreshInv, Fresh, Early, CopiesInv, OwnPlaces, NothingPending,
         Tidy, OnceEach, OneOnly, Sample!Committed, Sample!SeedingIn, Sample!Seeding, RepairInv,
         Repairs
<1>2. /\ Typed /\ Sample!SampleTypeOK /\ (Typed /\ Sample!SampleTypeOK)'
      /\ FreshInv /\ CopiesInv /\ RepairInv /\ [Next]_vars
      => (FreshInv /\ CopiesInv /\ RepairInv)'
  BY FreshKept, CopiesStep, RepairStep
<1>3. Sample!SampleTypeOK /\ CopiesInv /\ RepairInv /\ [Next]_vars => [Leaves]_sampleVars
  BY EndLeavesAll, SameCount DEF Full, Undisturbed
<1>4. SeedingRepairs <=> [][Leaves]_sampleVars
  BY DEF SeedingRepairs, Sample!SeedingRepairs, Sample!sampleVars, sampleVars
<1> HIDE DEF Leaves
<1> QED BY <1>1, <1>2, <1>3, <1>4, Always, PTL DEF Spec
=============================================================================
