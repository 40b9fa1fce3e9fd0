--------------------------- MODULE PilotReviewers ---------------------------
(***************************************************************************)
(* Accounts: AuthService registers customers, invites pilot reviewers into *)
(* a workspace, lets them set a password through the link, and logs them   *)
(* in; with the sample dataset those steps ensure and the workspace        *)
(* profile administrators edit meanwhile.                                  *)
(*                                                                         *)
(* An invitation is one transaction; everything else reads the account,    *)
(* hashes or compares a password, which is slow, and updates the row by    *)
(* its id.  A row that an open transaction has updated is locked.          *)
(***************************************************************************)
EXTENDS OrganizationBoundary, FiniteSets

CONSTANTS
    Reviewers,    \* e-mail addresses
    NoUser,
    SampleName,   \* the name of the workspace whose reviewers get the sample
    Items, NotSeeding

VARIABLES
    accounts,     \* User by e-mail; NoUser: no such row
    members,      \* Membership
    pc, job,      \* what a request is doing, for whom, where, and what it has read
    sessions,     \* the tokens handed out, and the link behind their password
    written,      \* history: which request set a password through which link
    raced,        \* history: accounts written over something nobody had read
    samples, reports, seeding, open, crowded, disturbed

Sample == INSTANCE GoldenSample WITH Seeders <- Requests, Places <- Workspaces

accountVars == <<accounts, members, sessions, written, raced>>
requestVars == <<pc, job>>
sampleVars == <<samples, reports, seeding, open, crowded, disturbed>>
vars == <<boundaryVars, accountVars, requestVars, sampleVars>>

(* A link is named by the request that issued it, a password by the link   *)
(* or the registration it was chosen with.                                 *)
Secrets == Requests \cup {NoRequest}

Account ==
    [ws : Workspaces, pilot : BOOLEAN, active : BOOLEAN, ended : BOOLEAN,
     password : Secrets, link : Secrets, lapsed : BOOLEAN, used : BOOLEAN]

Member == [user : Reviewers, ws : Workspaces, by : Requests]
Job == [user : Reviewers \cup {NoUser}, ws : Workspaces \cup {NoWorkspace}, name : Names,
        secret : Secrets, seen : Account \cup {NoUser}, replaces : SUBSET Member]

ASSUME ReviewersAssumption ==
    /\ NoUser \notin Account \cup Reviewers /\ SampleName \in Names
    /\ IsFiniteSet(Items) /\ NotSeeding \notin Sample!Progress

NoJob == [user |-> NoUser, ws |-> NoWorkspace, name |-> SampleName, secret |-> NoRequest,
          seen |-> NoUser, replaces |-> {}]

Init ==
    /\ BoundaryInit
    /\ Sample!SampleInit
    /\ accounts = [u \in Reviewers |-> NoUser]
    /\ members = {}
    /\ pc = [p \in Requests |-> "idle"]
    /\ job = [p \in Requests |-> NoJob]
    /\ sessions = {}
    /\ written = {}
    /\ raced = {}

Known(u) == accounts[u] # NoUser
Idle(p) == pc[p] = "idle" /\ saves[p] = NoRequest
Inviting(p) == pc[p] \in {"inviting", "joining"} \/ (pc[p] = "seeding" /\ p \in open)

Start(p, step, u, w, n, secret) ==
    /\ Idle(p)
    /\ pc' = [pc EXCEPT ![p] = step]
    /\ job' = [job EXCEPT ![p] =
                 [user |-> u, ws |-> w, name |-> n, secret |-> secret,
                  seen |-> accounts[u], replaces |-> {}]]

Goto(p, step) == pc' = [pc EXCEPT ![p] = step] /\ UNCHANGED job

(* Answered; whom the request was about is remembered.                     *)
About(p, w, secret) == [NoJob EXCEPT !.user = job[p].user, !.ws = w, !.secret = secret]
End(p, w, secret) ==
    /\ pc' = [pc EXCEPT ![p] = "done"]
    /\ job' = [job EXCEPT ![p] = About(p, w, secret)]

(* (Mistake: a row is locked by nobody.)                                   *)
Locked_Never(u) == FALSE

(* The row of u is updated, or inserted, by a transaction still open.      *)
Locked(u) ==
    \E q \in Requests :
        /\ job[q].user = u
        /\ pc[q] = "joining" \/ (pc[q] = "seeding" /\ q \in open)

-----------------------------------------------------------------------------
(* createPilotReviewer                                                     *)

(* A workspace of that name, any of them, or none.                         *)
InviteFind(p, u, n) ==
    /\ \/ \E w \in Workspaces :
             Exists(w) /\ organizations[w].name = n /\ Start(p, "inviting", u, w, n, p)
       \/ /\ \A w \in Workspaces : Exists(w) => organizations[w].name # n
          /\ Start(p, "founding", u, NoWorkspace, n, p)
    /\ UNCHANGED <<boundaryVars, accountVars, sampleVars>>

Founders(n) ==
    {q \in Requests : job[q].name = n /\ Inviting(q) /\ ~ Exists(job[q].ws)}
Reserved == {job[q].ws : q \in {r \in Requests : Inviting(r)}}

(* The name makes the slug, which is unique: a transaction that is founding*)
(* the same workspace, and commits, makes this one fail.  Then existingUser*)
(* is read.                                                                *)
InviteFound(p) ==
    /\ pc[p] = "founding"
    /\ \/ /\ Founders(job[p].name) = {}
          /\ \E w \in Workspaces \ Reserved :
                /\ ~ Exists(w)
                /\ job' = [job EXCEPT ![p].ws = w, ![p].seen = accounts[job[p].user]]
                /\ pc' = [pc EXCEPT ![p] = "inviting"]
       \/ Founders(job[p].name) # {} /\ End(p, job[p].ws, p)
    /\ UNCHANGED <<boundaryVars, accountVars, sampleVars>>

(* user.update waits for the lock; user.create for the e-mail to be free,  *)
(* and fails if it is not.                                                 *)
InviteWrite(p) ==
    /\ pc[p] = "inviting"
    /\ ~ Locked(job[p].user)
    /\ IF job[p].seen = NoUser /\ Known(job[p].user) THEN End(p, job[p].ws, p)
       ELSE Goto(p, "joining")
    /\ UNCHANGED <<boundaryVars, accountVars, sampleVars>>

(* membership.deleteMany, membership.create; then the sample.              *)
InviteJoin(p) ==
    /\ pc[p] = "joining"
    /\ job' = [job EXCEPT ![p].replaces = {m \in members : m.user = job[p].user}]
    /\ pc' = [pc EXCEPT ![p] = "seeding"]
    /\ Sample!SeedBegin(p, job[p].ws, TRUE, FALSE)
    /\ UNCHANGED <<boundaryVars, accountVars>>

(* (Mistake: an account that exists keeps its password.)                   *)
Invited_KeepsPassword(p, old) ==
    [ws |-> job[p].ws, pilot |-> TRUE, active |-> TRUE, ended |-> FALSE,
     password |-> IF old = NoUser THEN NoRequest ELSE old.password,
     link |-> p, lapsed |-> FALSE, used |-> FALSE]

Invited(p, old) ==
    [ws |-> job[p].ws, pilot |-> TRUE, active |-> TRUE, ended |-> FALSE,
     password |-> NoRequest, link |-> p, lapsed |-> FALSE, used |-> FALSE]

InviteCommit(p) ==
    /\ pc[p] = "seeding" /\ p \in open
    /\ Sample!SeedEnd(p)
    /\ LET w == job[p].ws  u == job[p].user
           o == NewOrganization(job[p].name)
       IN  /\ accounts' = [accounts EXCEPT ![u] = Invited(p, @)]
           /\ members' = (members \ job[p].replaces) \cup {[user |-> u, ws |-> w, by |-> p]}
           /\ IF Exists(w) THEN UNCHANGED <<organizations, shown>>
              ELSE /\ organizations' = [organizations EXCEPT ![w] = o]
                   /\ shown' = shown \cup {Entry(w, o, FALSE)}
    /\ End(p, job[p].ws, p)
    /\ UNCHANGED <<saves, contested, sessions, written, raced>>

-----------------------------------------------------------------------------
(* register: organization and user in one transaction, in which the e-mail *)
(* is free; then the answer carries a session.                             *)
Register(p, u, n, w) ==
    /\ Idle(p)
    /\ ~ Known(u) /\ ~ Locked(u)
    /\ ~ Exists(w) /\ w \notin Reserved
    /\ organizations' = [organizations EXCEPT ![w] = NewOrganization(n)]
    /\ shown' = shown \cup {Entry(w, NewOrganization(n), FALSE)}
    /\ accounts' = [accounts EXCEPT ![u] =
                      [ws |-> w, pilot |-> FALSE, active |-> TRUE, ended |-> FALSE,
                       password |-> p, link |-> NoRequest, lapsed |-> FALSE, used |-> FALSE]]
    /\ sessions' = sessions \cup {[user |-> u, ws |-> w, secret |-> p]}
    /\ pc' = [pc EXCEPT ![p] = "done"]
    /\ job' = [job EXCEPT ![p].user = u, ![p].ws = w]
    /\ UNCHANGED <<saves, contested, members, written, raced, sampleVars>>

(* deactivatePilotReviewer: read and check, then update.                   *)
DeactivateRead(p, u) ==
    /\ Known(u) /\ accounts[u].pilot
    /\ Start(p, "deactivating", u, accounts[u].ws, SampleName, NoRequest)
    /\ UNCHANGED <<boundaryVars, accountVars, sampleVars>>

DeactivateWrite(p) ==
    /\ pc[p] = "deactivating"
    /\ ~ Locked(job[p].user)
    /\ accounts' = [accounts EXCEPT ![job[p].user].active = FALSE,
                                    ![job[p].user].link = NoRequest,
                                    ![job[p].user].lapsed = FALSE,
                                    ![job[p].user].used = FALSE]
    /\ End(p, job[p].ws, NoRequest)
    /\ UNCHANGED <<boundaryVars, members, sessions, written, raced, sampleVars>>

(* regeneratePilotReviewerInvite, for a reviewer whose status is Active.   *)
RegenerateRead(p, u) ==
    /\ Known(u) /\ accounts[u].pilot
    /\ accounts[u].active /\ ~ accounts[u].ended
    /\ Start(p, "regenerating", u, accounts[u].ws, SampleName, p)
    /\ UNCHANGED <<boundaryVars, accountVars, sampleVars>>

RegenerateWrite(p) ==
    /\ pc[p] = "regenerating"
    /\ ~ Locked(job[p].user)
    /\ accounts' = [accounts EXCEPT ![job[p].user].link = p, ![job[p].user].lapsed = FALSE,
                                    ![job[p].user].used = FALSE]
    /\ End(p, accounts[job[p].user].ws, p)
    /\ UNCHANGED <<boundaryVars, members, sessions, written, raced, sampleVars>>

-----------------------------------------------------------------------------
(* (Mistake: a used link still opens.)                                     *)
Opens_UsedToo(a, link) ==
    link # NoRequest /\ a.link = link /\ a.active /\ ~ a.lapsed /\ ~ a.ended

Opens(a, link) ==
    link # NoRequest /\ a.link = link /\ ~ a.used /\ a.active /\ ~ a.lapsed /\ ~ a.ended

(* setPasswordFromInvite: the account with this link, then bcrypt.hash.    *)
SetPasswordRead(p, u, link) ==
    /\ Known(u) /\ Opens(accounts[u], link)
    /\ Start(p, "hashing", u, accounts[u].ws, SampleName, link)
    /\ UNCHANGED <<boundaryVars, accountVars, sampleVars>>

(* ensurePilotReviewerSampleData, only for reviewers of the one workspace. *)
WantsSample(a) == a.pilot /\ organizations[a.ws].name = SampleName

(* buildAuthResponse for the account a: the sample, and then the token.    *)
Answer(p, a, secret) ==
    /\ IF WantsSample(a)
       THEN /\ pc' = [pc EXCEPT ![p] = "seeding"]
            /\ job' = [job EXCEPT ![p] = About(p, a.ws, secret)]
            /\ Sample!SeedBegin(p, a.ws, FALSE, FALSE)
            /\ UNCHANGED sessions
       ELSE /\ End(p, a.ws, secret)
            /\ sessions' = sessions \cup {[user |-> job[p].user, ws |-> a.ws, secret |-> secret]}
            /\ UNCHANGED sampleVars

(* user.update by id: the new password, and the link is used.              *)
SetPasswordWrite(p) ==
    /\ pc[p] = "hashing"
    /\ ~ Locked(job[p].user)
    /\ LET u == job[p].user
       IN  /\ accounts' = [accounts EXCEPT ![u].password = job[p].secret, ![u].used = TRUE]
           /\ written' = written \cup {[link |-> job[p].secret, by |-> p]}
           /\ raced' = IF accounts[u] = job[p].seen THEN raced ELSE raced \cup {u}
           /\ Answer(p, accounts[u], job[p].secret)
    /\ UNCHANGED <<boundaryVars, members>>

(* (Mistake: only an account that has a password is asked for it.)         *)
LoginRead_Unasked(p, u) ==
    /\ Known(u)
    /\ accounts[u].active /\ ~ accounts[u].ended
    /\ Start(p, "comparing", u, accounts[u].ws, organizations[accounts[u].ws].name,
             accounts[u].password)
    /\ UNCHANGED <<boundaryVars, accountVars, sampleVars>>

(* login: the account, then bcrypt.compare, then lastLoginAt.              *)
LoginRead(p, u) ==
    /\ Known(u)
    /\ accounts[u].active /\ accounts[u].password # NoRequest /\ ~ accounts[u].ended
    /\ Start(p, "comparing", u, accounts[u].ws, organizations[accounts[u].ws].name,
             accounts[u].password)
    /\ UNCHANGED <<boundaryVars, accountVars, sampleVars>>

(* The answer is about the account as it was read, its organization's name *)
(* included.                                                               *)
LoginWrite(p) ==
    /\ pc[p] = "comparing"
    /\ ~ Locked(job[p].user)
    /\ IF job[p].seen.pilot /\ job[p].name = SampleName
       THEN /\ pc' = [pc EXCEPT ![p] = "seeding"]
            /\ job' = [job EXCEPT ![p] = About(p, job[p].ws, job[p].secret)]
            /\ Sample!SeedBegin(p, job[p].ws, FALSE, FALSE)
            /\ UNCHANGED sessions
       ELSE /\ End(p, job[p].ws, job[p].secret)
            /\ sessions' = sessions \cup
                   {[user |-> job[p].user, ws |-> job[p].ws, secret |-> job[p].secret]}
            /\ UNCHANGED sampleVars
    /\ UNCHANGED <<boundaryVars, accounts, members, written, raced>>

(* The statements of the sample, in whichever request; the token at last.  *)
Seed(p) ==
    /\ pc[p] = "seeding"
    /\ Sample!SeedStep(p)
    /\ UNCHANGED <<boundaryVars, accountVars, requestVars>>

SeedAnswer(p) ==
    /\ pc[p] = "seeding" /\ p \notin open
    /\ Sample!SeedEnd(p)
    /\ sessions' = IF job[p].secret = NoRequest THEN sessions
                   ELSE sessions \cup
                     {[user |-> job[p].user, ws |-> job[p].ws, secret |-> job[p].secret]}
    /\ End(p, job[p].ws, job[p].secret)
    /\ UNCHANGED <<boundaryVars, accounts, members, written, raced>>

(* scripts/seed-sample-workspace.ts, on a workspace that exists.           *)
SeedScript(p, w, force) ==
    /\ Idle(p)
    /\ Exists(w)
    /\ pc' = [pc EXCEPT ![p] = "seeding"]
    /\ job' = [job EXCEPT ![p].ws = w]
    /\ Sample!SeedBegin(p, w, FALSE, force)
    /\ UNCHANGED <<boundaryVars, accountVars>>

-----------------------------------------------------------------------------
(* Time passes: a link lasts two days, an account until its end date.      *)
Lapse(u) ==
    /\ Known(u) /\ accounts[u].link # NoRequest /\ ~ accounts[u].lapsed
    /\ accounts' = [accounts EXCEPT ![u].lapsed = TRUE]
    /\ UNCHANGED <<boundaryVars, members, sessions, written, raced, requestVars, sampleVars>>

AccountEnds(u) ==
    /\ Known(u) /\ accounts[u].pilot /\ ~ accounts[u].ended
    /\ accounts' = [accounts EXCEPT ![u].ended = TRUE]
    /\ UNCHANGED <<boundaryVars, members, sessions, written, raced, requestVars, sampleVars>>

UserDeletes(w) ==
    /\ Exists(w)
    /\ Sample!UserDeletes(w)
    /\ UNCHANGED <<boundaryVars, accountVars, requestVars>>

(* An error answers one request, a restart all of them.                    *)
Fail(P) ==
    /\ P # {} /\ \A p \in P : pc[p] \notin {"idle", "done"}
    /\ pc' = [p \in Requests |-> IF p \in P THEN "done" ELSE pc[p]]
    /\ job' = [p \in Requests |->
                 IF p \in P THEN About(p, job[p].ws, job[p].secret) ELSE job[p]]
    /\ Sample!SeedLost(P)
    /\ UNCHANGED <<boundaryVars, accountVars>>

(* updateOrganizationProfile, by administrators only.                      *)
EditProfile(p) ==
    /\ \/ Idle(p) /\ \E w \in Workspaces, in \in Saves : SaveRead(p, w, in)
       \/ SaveWrite(p)
       \/ SaveLost(p)
    /\ UNCHANGED <<accountVars, requestVars, sampleVars>>

Next ==
    \/ \E p \in Requests :
          \/ \E u \in Reviewers, n \in Names :
                InviteFind(p, u, n) \/ \E w \in Workspaces : Register(p, u, n, w)
          \/ InviteFound(p) \/ InviteWrite(p) \/ InviteJoin(p) \/ InviteCommit(p)
          \/ \E u \in Reviewers :
                \/ DeactivateRead(p, u) \/ RegenerateRead(p, u) \/ LoginRead(p, u)
                \/ \E link \in Requests : SetPasswordRead(p, u, link)
          \/ DeactivateWrite(p) \/ RegenerateWrite(p) \/ SetPasswordWrite(p) \/ LoginWrite(p)
          \/ \E w \in Workspaces, force \in BOOLEAN : SeedScript(p, w, force)
          \/ Seed(p) \/ SeedAnswer(p)
          \/ EditProfile(p)
    \/ \E u \in Reviewers : Lapse(u) \/ AccountEnds(u)
    \/ \E w \in Workspaces : UserDeletes(w)
    \/ \E P \in SUBSET Requests : Fail(P)

Spec == Init /\ [][Next]_vars

-----------------------------------------------------------------------------
TypeOK ==
    /\ BoundaryTypeOK
    /\ Sample!SampleTypeOK
    /\ accounts \in [Reviewers -> Account \cup {NoUser}]
    /\ members \subseteq Member
    /\ pc \in [Requests -> {"idle", "founding", "inviting", "joining", "seeding", "hashing",
                            "comparing", "deactivating", "regenerating", "done"}]
    /\ job \in [Requests -> Job]
    /\ sessions \subseteq [user : Reviewers, ws : Workspaces, secret : Requests]
    /\ written \subseteq [link : Requests, by : Requests]
    /\ raced \subseteq Reviewers
    /\ \A u \in Reviewers : Known(u) => Exists(accounts[u].ws)

(* A link sets one password, unless it is used twice at a time: each       *)
(* request checks that it is unused, then hashes, then writes without      *)
(* asking again.                                                           *)
LinkWorksOnce ==
    \A x, y \in written :
        x.link = y.link /\ x.by # y.by => job[x.by].user \in raced

(* A link that is used is the one the password was set with, and no other  *)
(* was used up in its place.                                               *)
UsedLinkSetThePassword ==
    \A u \in Reviewers \ raced :
        Known(u) /\ accounts[u].used => accounts[u].password = accounts[u].link

(* An invite link is good for one password, and that is its own.           *)
LinksWorkOnce == LinkWorksOnce /\ UsedLinkSetThePassword

(* validateJwtPayload                                                      *)
Honoured(s) ==
    /\ Known(s.user)
    /\ accounts[s.user].ws = s.ws /\ accounts[s.user].active /\ ~ accounts[s.user].ended

(* A session that is honoured goes back to a link, or a registration, for  *)
(* the workspace it opens: moving an account to another workspace leaves   *)
(* nothing behind that works there.                                        *)
SessionsComeFromTheirInvitation ==
    \A s \in sessions : Honoured(s) /\ s.user \notin raced => job[s.secret].ws = s.ws

(* A reviewer is a member of the workspace of the account and of no other, *)
(* however many invitations of one e-mail address run at a time: they wait *)
(* for the row of the account before they touch its memberships.           *)
OneMembership ==
    \A u \in Reviewers :
        Known(u) /\ accounts[u].pilot =>
            \E m \in members : {n \in members : n.user = u} = {m} /\ m.ws = accounts[u].ws

(* A login that nobody disturbs leaves a complete sample behind.           *)
SeedingRepairs == Sample!SeedingRepairs

(* Copies in the sample come from two logins, or invitations, at a time.   *)
CopiesOnlyFromCrowds == Sample!CopiesOnlyFromCrowds
=============================================================================
