----------------------------- MODULE Onboarding -----------------------------
(***************************************************************************)
(* Users, organizations and memberships: a user signs in (sync), founds an *)
(* organization (onboard), or joins the one they were invited or           *)
(* registered to.  Onboarding is four separate commits with a hand-written *)
(* compensation; applying an invite is one transaction under a row lock;   *)
(* every other write of a user is TypeORM's save of the whole row as read. *)
(*                                                                         *)
(* Identities are fresh, names are unique among existing organizations,    *)
(* and every foreign key is NO ACTION: a row that is referred to cannot be *)
(* deleted.  A person has one email, and so one row, but in time several   *)
(* Clerk accounts, numbered: deleting an account lets the person make the  *)
(* next one.  A row names the account it is linked to, or none yet (0).    *)
(* The user's roles, profile and mails are left out.                       *)
(***************************************************************************)
EXTENDS Integers, FiniteSets

CONSTANTS
    Users,    \* people, each with one email and a Clerk account at a time
    Orgs,     \* identities an organization can be given
    Names,    \* organization names
    Workers,  \* handlers that can be running at once
    MaxJobs,  \* bound on the requests made
    None      \* no organization, no name, no user

ASSUME NoneAssumption == None \notin Users \cup Orgs \cup Names
ASSUME MaxJobsAssumption == MaxJobs \in Nat

\* The columns of a user that the handlers write; "exists" stands for the row.
Columns == {"exists", "clerk", "org", "active"}
UserRow == [id : Nat, exists : BOOLEAN, clerk : Nat, org : Orgs \cup {None}, active : BOOLEAN]
NoRow   == [id |-> 0, exists |-> FALSE, clerk |-> 0, org |-> None, active |-> FALSE]

Handlers == {"none", "sync", "register", "onboard", "setActive", "rename"}
\* What the user row is being saved for.
Purposes == {"none", "upsert", "link", "unlink", "setActive"}
Steps == {"idle", "find", "diff", "save", "invite", "apply", "read", "confirm",
          "createOrg", "roles", "readLink", "join", "answer", "readUnlink", "deleteOrg",
          "readActive", "diffOrg", "saveOrg"}

VARIABLES
    users,      \* the users table
    orgs,       \* name of each existing organization, None for no row
    members,    \* org_members, as <<user, organization>>
    invite,     \* the organization each user's Clerk invitation names
    account,    \* the Clerk account a person has, or will sign up for
    handler, step, purpose,   \* what each worker runs and where it is
    subject,    \* the user it is about
    name,       \* the name of the organization to found
    org,        \* the organization it made, found or was given
    entity,     \* the user row in memory; its clerk is the request's account
    dirty,      \* columns save has decided to write
    jobs,       \* requests made so far
    founded,    \* history: identities given to an organization so far
    founder,    \* history: the user whose onboarding created it
    placed,     \* history: <<user, organization>> the row was created with
    answered,   \* history: <<user, organization>> onboarding answered with
    overlapped, \* history: users two handlers were busy with at once
    died        \* history: users whose handler was cut short, or whose
                \* compensation failed

tables  == <<users, orgs, members, invite, account>>
worker  == <<handler, step, purpose, subject, name, org, entity, dirty>>
history == <<founded, founder, placed, answered, overlapped, died>>
vars    == <<tables, worker, jobs, history>>

Init ==
    /\ users = [u \in Users |-> NoRow]
    /\ orgs = [o \in Orgs |-> None]
    /\ members = {}
    /\ invite = [u \in Users |-> None]
    /\ account = [u \in Users |-> 1]
    /\ handler = [p \in Workers |-> "none"]
    /\ step = [p \in Workers |-> "idle"]
    /\ purpose = [p \in Workers |-> "none"]
    /\ subject = [p \in Workers |-> None]
    /\ name = [p \in Workers |-> None]
    /\ org = [p \in Workers |-> None]
    /\ entity = [p \in Workers |-> NoRow]
    /\ dirty = [p \in Workers |-> {}]
    /\ jobs = 0
    /\ founder = [o \in Orgs |-> None]
    /\ founded = {} /\ placed = {} /\ answered = {} /\ overlapped = {} /\ died = {}

-----------------------------------------------------------------------------
Live(o) == orgs[o] # None
NameTaken(n) == \E o \in Orgs : orgs[o] = n
Referenced(o) == \E u \in Users : users[u].org = o \/ <<u, o>> \in members

Busy(u) == \E p \in Workers : subject[p] = u
Overlap(u) == overlapped' = IF Busy(u) THEN overlapped \cup {u} ELSE overlapped

\* The row a handler has in memory, as it is by now: not one made since it was deleted.
Row(p) == IF users[subject[p]].id = entity[p].id THEN users[subject[p]] ELSE NoRow

Goto(p, s) == step' = [step EXCEPT ![p] = s]

Return(p) ==
    /\ handler' = [handler EXCEPT ![p] = "none"]
    /\ step' = [step EXCEPT ![p] = "idle"]
    /\ purpose' = [purpose EXCEPT ![p] = "none"]
    /\ subject' = [subject EXCEPT ![p] = None]
    /\ name' = [name EXCEPT ![p] = None]
    /\ org' = [org EXCEPT ![p] = None]
    /\ entity' = [entity EXCEPT ![p] = NoRow]
    /\ dirty' = [dirty EXCEPT ![p] = {}]

Start(p, h, u, n, o, e, first) ==
    /\ step[p] = "idle"
    /\ jobs < MaxJobs
    /\ jobs' = jobs + 1
    /\ handler' = [handler EXCEPT ![p] = h]
    /\ step' = [step EXCEPT ![p] = first]
    /\ subject' = [subject EXCEPT ![p] = u]
    /\ name' = [name EXCEPT ![p] = n]
    /\ org' = [org EXCEPT ![p] = o]
    /\ entity' = [entity EXCEPT ![p] = e]
    /\ Overlap(u)
    /\ UNCHANGED <<tables, purpose, dirty, founded, founder, placed, answered, died>>

-----------------------------------------------------------------------------
(* Requests.                                                               *)

\* All a request knows of its user is the account its token names, deleted since or not.
ByAccount(k) == [NoRow EXCEPT !.clerk = k]

Sync(p, u) ==
    \E k \in 1..account[u] : Start(p, "sync", u, None, None, ByAccount(k), "find")

\* The account is new to Clerk; the organization is one the caller chose.
Register(p, u, o) ==
    /\ users[u].clerk # account[u]
    /\ Live(o)
    /\ Start(p, "register", u, None, o, ByAccount(account[u]), "find")

\* The controller syncs first when the token's account has no row with an organization.
Onboard(p, u, n) ==
    \E k \in 1..account[u] :
       IF users[u].clerk = k /\ users[u].org # None
       THEN Start(p, "onboard", u, n, None, users[u], "read")
       ELSE Start(p, "onboard", u, n, None, ByAccount(k), "find")

\* Ban or unban; entity carries the new value until the row is read.
SetActive(p, u, b) ==
    Start(p, "setActive", u, None, None, [ByAccount(account[u]) EXCEPT !.active = b], "readActive")

\* Clerk lets existing users be invited, and again: the newest invitation counts.
InviteUser(u, o) ==
    /\ jobs < MaxJobs
    /\ jobs' = jobs + 1
    /\ Live(o)
    /\ invite' = [invite EXCEPT ![u] = o]
    /\ UNCHANGED <<users, orgs, members, account, worker, history>>

RevokeInvitation(u) ==
    /\ invite[u] # None
    /\ invite' = [invite EXCEPT ![u] = None]
    /\ UNCHANGED <<users, orgs, members, account, worker, jobs, history>>

\* POST /users: one INSERT, of a row with an organization and no membership.
CreateUser(u, o, b) ==
    /\ jobs < MaxJobs
    /\ jobs' = jobs + 1
    /\ ~users[u].exists
    /\ Live(o)
    /\ users' = [users EXCEPT ![u] =
          [id |-> account[u], exists |-> TRUE, clerk |-> 0, org |-> o, active |-> b]]
    /\ placed' = placed \cup {<<u, o>>}
    /\ Overlap(u)
    /\ UNCHANGED <<orgs, members, invite, account, worker, founded, founder, answered, died>>

\* The account goes first; the row it names stays if the handler dies in between,
\* or the foreign key refuses because the user is a member somewhere.
DeleteUser(u) ==
    /\ jobs < MaxJobs
    /\ jobs' = jobs + 1
    /\ account' = [account EXCEPT ![u] = @ + 1]
    /\ \/ UNCHANGED users
       \/ /\ users[u].clerk = account[u]
          /\ \A o \in Orgs : <<u, o>> \notin members
          /\ users' = [users EXCEPT ![u] = NoRow]
    /\ UNCHANGED <<orgs, members, invite, worker, history>>

CreateOrganization(o, n) ==
    /\ jobs < MaxJobs
    /\ jobs' = jobs + 1
    /\ o \notin founded
    /\ ~NameTaken(n)
    /\ orgs' = [orgs EXCEPT ![o] = n]
    /\ founded' = founded \cup {o}
    /\ UNCHANGED <<users, members, invite, account, worker, founder, placed, answered, overlapped, died>>

\* Mutant: deleting an organization takes no notice of who refers to it.
DeleteOrganizationUnchecked(o) ==
    /\ jobs < MaxJobs
    /\ jobs' = jobs + 1
    /\ Live(o)
    /\ orgs' = [orgs EXCEPT ![o] = None]
    /\ UNCHANGED <<users, members, invite, account, worker, history>>

DeleteOrganization(o) ==
    /\ jobs < MaxJobs
    /\ jobs' = jobs + 1
    /\ Live(o)
    /\ ~Referenced(o)
    /\ orgs' = [orgs EXCEPT ![o] = None]
    /\ UNCHANGED <<users, members, invite, account, worker, history>>

\* The organization is read here and its whole row saved later.
UpdateOrganization(p, o, n) ==
    /\ step[p] = "idle"
    /\ jobs < MaxJobs
    /\ jobs' = jobs + 1
    /\ Live(o)
    /\ handler' = [handler EXCEPT ![p] = "rename"]
    /\ org' = [org EXCEPT ![p] = o]
    /\ name' = [name EXCEPT ![p] = n]
    /\ Goto(p, "diffOrg")
    /\ overlapped' = overlapped \cup {u \in Users : u = founder[o] /\ Busy(u)}
    /\ UNCHANGED <<tables, purpose, subject, entity, dirty, founded, founder, placed, answered, died>>

DiffOrg(p) ==
    /\ step[p] = "diffOrg"
    /\ dirty' = [dirty EXCEPT ![p] = IF Live(org[p]) THEN {"org"} ELSE {"exists"}]
    /\ Goto(p, "saveOrg")
    /\ UNCHANGED <<tables, handler, purpose, subject, name, org, entity, jobs, history>>

\* INSERT when save found no row (someone deleted it), else UPDATE, which a
\* deletion since then turns into nothing.
SaveOrg(p) ==
    /\ step[p] = "saveOrg"
    /\ ~(Live(org[p]) /\ "exists" \in dirty[p])
    /\ ~\E o \in Orgs \ {org[p]} : orgs[o] = name[p]
    /\ orgs' = IF Live(org[p]) \/ "exists" \in dirty[p]
               THEN [orgs EXCEPT ![org[p]] = name[p]] ELSE orgs
    /\ Return(p)
    /\ UNCHANGED <<users, members, invite, account, jobs, history>>

-----------------------------------------------------------------------------
(* Saving a user: SELECT the row, then INSERT it or UPDATE what differs.   *)

DiffUser(p) ==
    /\ step[p] = "diff"
    /\ dirty' = [dirty EXCEPT ![p] = {c \in Columns : entity[p][c] # Row(p)[c]}]
    /\ Goto(p, "save")
    /\ UNCHANGED <<tables, handler, purpose, subject, name, org, entity, jobs, history>>

\* The unique keys refuse a second row, the foreign key a missing organization.
SaveRefused(p) ==
    \/ "exists" \in dirty[p] /\ users[subject[p]].exists
    \/ "org" \in dirty[p] /\ entity[p].org # None /\ ~Live(entity[p].org)

AfterSave(p) ==
    CASE purpose[p] = "upsert" /\ entity[p].org = None -> "invite"
      [] purpose[p] = "upsert" /\ entity[p].org # None /\ handler[p] = "onboard" -> "read"
      [] purpose[p] = "link"   -> "join"
      [] purpose[p] = "unlink" -> "deleteOrg"
      [] OTHER                 -> "idle"

\* An INSERT of a new row gives it its identity: the number of the account its
\* person had then.  A row is deleted with its account only, so the next has another.
Identity(p) ==
    IF "exists" \in dirty[p] /\ entity[p].id = 0 THEN account[subject[p]] ELSE entity[p].id

Saved(p) ==
    [c \in Columns \cup {"id"} |->
        IF c = "id" THEN Identity(p)
        ELSE IF c \in dirty[p] THEN entity[p][c] ELSE users[subject[p]][c]]

SaveUser(p) ==
    /\ step[p] = "save"
    /\ ~SaveRefused(p)
    /\ users' = IF Row(p).exists \/ "exists" \in dirty[p]
                THEN [users EXCEPT ![subject[p]] = Saved(p)] ELSE users
    /\ IF AfterSave(p) = "idle" THEN Return(p)
       ELSE /\ Goto(p, AfterSave(p))
            /\ entity' = [entity EXCEPT ![p].id = Identity(p)]
            /\ UNCHANGED <<handler, purpose, subject, name, org, dirty>>
    /\ UNCHANGED <<orgs, members, invite, account, jobs, history>>

\* A failed link has an organization to take back, any other save just fails.
SaveFails(p) ==
    /\ step[p] = "save"
    /\ SaveRefused(p)
    /\ IF purpose[p] = "link"
       THEN /\ Goto(p, "deleteOrg")
            /\ UNCHANGED <<handler, purpose, subject, name, org, entity, dirty, died>>
       ELSE /\ Return(p)
            /\ died' = died \cup {subject[p]}
    /\ UNCHANGED <<tables, jobs, founded, founder, placed, answered, overlapped>>

-----------------------------------------------------------------------------
(* Signing in: upsert the user, then apply the invitation if there is one. *)

\* Found by the account, or by the email while the row names no account yet.
FindUser(p) ==
    LET row == users[subject[p]] IN
    /\ step[p] = "find"
    /\ row.clerk \in {0, entity[p].clerk}
    /\ purpose' = [purpose EXCEPT ![p] = "upsert"]
    /\ entity' = [entity EXCEPT ![p] =
          [row EXCEPT !.exists = TRUE, !.active = TRUE, !.clerk = entity[p].clerk]]
    /\ dirty' = [dirty EXCEPT ![p] = IF row.exists THEN {} ELSE {"exists", "clerk", "active"}]
    /\ Goto(p, IF row.exists THEN "diff" ELSE "save")
    /\ UNCHANGED <<tables, handler, subject, name, org, jobs, history>>

\* The email's row names another account: answered 409.
EmailTaken(p) ==
    /\ step[p] = "find"
    /\ users[subject[p]].clerk \notin {0, entity[p].clerk}
    /\ Return(p)
    /\ UNCHANGED <<tables, jobs, history>>

\* Clerk is asked for the invitation of the account, and has none for a deleted one.
ReadInvite(p) ==
    LET registers == handler[p] = "register"
        o == IF registers THEN org[p] ELSE invite[subject[p]]
        unknown == ~registers /\ entity[p].clerk # account[subject[p]] IN
    /\ step[p] = "invite"
    /\ IF unknown \/ (o = None /\ handler[p] = "sync") THEN Return(p)
       ELSE /\ Goto(p, IF o = None THEN "read" ELSE "apply")
            /\ org' = [org EXCEPT ![p] = o]
            /\ UNCHANGED <<handler, purpose, subject, name, entity, dirty>>
    /\ UNCHANGED <<tables, jobs, history>>

\* A registration inserts its membership without looking for one first.
InviteRefused(p) ==
    \/ ~Live(org[p])
    \/ handler[p] = "register" /\ <<subject[p], org[p]>> \in members

\* One transaction under a row lock; nothing to do for a user with an organization.
ApplyInvite(p) ==
    LET open == Row(p).exists /\ Row(p).org = None IN
    /\ step[p] = "apply"
    /\ open => ~InviteRefused(p)
    /\ users' = IF open THEN [users EXCEPT ![subject[p]].org = org[p]] ELSE users
    /\ members' = IF open THEN members \cup {<<subject[p], org[p]>>} ELSE members
    /\ IF handler[p] = "onboard"
       THEN Goto(p, "read") /\ UNCHANGED <<handler, purpose, subject, name, org, entity, dirty>>
       ELSE Return(p)
    /\ UNCHANGED <<orgs, invite, account, jobs, history>>

-----------------------------------------------------------------------------
(* Founding an organization.                                               *)

\* Mutant: the handler does not look at the organization the user already has.
ReadUserUnchecked(p) ==
    /\ step[p] = "read"
    /\ Goto(p, "createOrg")
    /\ UNCHANGED <<tables, handler, purpose, subject, name, org, entity, dirty, jobs, history>>

\* What is read of a row that is gone by now: nothing, under the same identity.
Current(p) == [Row(p) EXCEPT !.id = entity[p].id]

\* Mutant: the check that the user has an organization at all is lost.
ReadUserConfirms(p) ==
    /\ step[p] = "read"
    /\ entity' = [entity EXCEPT ![p] = Current(p)]
    /\ Goto(p, "confirm")
    /\ UNCHANGED <<tables, handler, purpose, subject, name, org, dirty, jobs, history>>

ReadUser(p) ==
    /\ step[p] = "read"
    /\ entity' = [entity EXCEPT ![p] = Current(p)]
    /\ Goto(p, IF Row(p).org # None THEN "confirm" ELSE "createOrg")
    /\ UNCHANGED <<tables, handler, purpose, subject, name, org, dirty, jobs, history>>

\* Mutant: the organization a user is linked to is answered unconfirmed.
ConfirmUnchecked(p) ==
    /\ step[p] = "confirm"
    /\ Goto(p, "answer")
    /\ org' = [org EXCEPT ![p] = entity[p].org]
    /\ UNCHANGED <<tables, handler, purpose, subject, name, entity, dirty, jobs, history>>

Confirm(p) ==
    /\ step[p] = "confirm"
    /\ IF Live(entity[p].org) /\ Row(p).exists /\ <<subject[p], entity[p].org>> \in members
       THEN /\ Goto(p, "answer")
            /\ org' = [org EXCEPT ![p] = entity[p].org]
            /\ UNCHANGED <<handler, purpose, subject, name, entity, dirty>>
       ELSE Return(p)
    /\ UNCHANGED <<tables, jobs, history>>

CreateOrg(p) ==
    /\ step[p] = "createOrg"
    /\ ~NameTaken(name[p])
    /\ \E o \in Orgs \ founded :
          /\ orgs' = [orgs EXCEPT ![o] = name[p]]
          /\ founded' = founded \cup {o}
          /\ founder' = [founder EXCEPT ![o] = subject[p]]
          /\ org' = [org EXCEPT ![p] = o]
    /\ Goto(p, "roles")
    /\ UNCHANGED <<users, members, invite, account, handler, purpose, subject, name, entity, dirty,
                   jobs, placed, answered, overlapped, died>>

CreateRefused(p) ==
    /\ step[p] = "createOrg"
    /\ NameTaken(name[p])
    /\ Return(p)
    /\ UNCHANGED <<tables, jobs, history>>

ResolveRole(p) ==
    /\ step[p] = "roles"
    /\ Goto(p, "readLink")
    /\ UNCHANGED <<tables, handler, purpose, subject, name, org, entity, dirty, jobs, history>>

\* A user deleted by now would be inserted with no email, which is refused.
ReadLink(p) ==
    /\ step[p] = "readLink"
    /\ purpose' = [purpose EXCEPT ![p] = "link"]
    /\ entity' = [entity EXCEPT ![p] = [Current(p) EXCEPT !.org = org[p]]]
    /\ Goto(p, IF Row(p).exists THEN "diff" ELSE "deleteOrg")
    /\ UNCHANGED <<tables, handler, subject, name, org, dirty, jobs, history>>

CreateMembership(p) ==
    /\ step[p] = "join"
    /\ Live(org[p]) /\ Row(p).exists
    /\ <<subject[p], org[p]>> \notin members
    /\ members' = members \cup {<<subject[p], org[p]>>}
    /\ Goto(p, "answer")
    /\ UNCHANGED <<users, orgs, invite, account, handler, purpose, subject, name, org, entity, dirty,
                   jobs, history>>

Answer(p) ==
    /\ step[p] = "answer"
    /\ answered' = answered \cup {<<subject[p], org[p]>>}
    /\ Return(p)
    /\ UNCHANGED <<tables, jobs, founded, founder, placed, overlapped, died>>

-----------------------------------------------------------------------------
(* Taking a failed founding back.                                          *)

\* A statement fails, or is refused, after the organization was created.
Fault(p) ==
    /\ \/ step[p] \in {"roles", "readLink", "join", "readUnlink"}
       \/ step[p] \in {"diff", "save"} /\ purpose[p] = "link"
    /\ Goto(p, IF step[p] = "join" THEN "readUnlink" ELSE "deleteOrg")
    /\ UNCHANGED <<tables, handler, purpose, subject, name, org, entity, dirty, jobs, history>>

ReadUnlink(p) ==
    /\ step[p] = "readUnlink"
    /\ purpose' = [purpose EXCEPT ![p] = "unlink"]
    /\ entity' = [entity EXCEPT ![p] = [Current(p) EXCEPT !.org = None]]
    /\ Goto(p, IF Row(p).exists THEN "diff" ELSE "deleteOrg")
    /\ UNCHANGED <<tables, handler, subject, name, org, dirty, jobs, history>>

\* Mutant: the organization is not taken back.
DeleteOrgForgotten(p) ==
    /\ step[p] = "deleteOrg"
    /\ Return(p)
    /\ UNCHANGED <<tables, jobs, history>>

\* Whoever refers to the organization by now keeps it: the compensation fails.
DeleteOrg(p) ==
    /\ step[p] = "deleteOrg"
    /\ orgs' = IF Referenced(org[p]) THEN orgs ELSE [orgs EXCEPT ![org[p]] = None]
    /\ died' = IF Referenced(org[p]) THEN died \cup {subject[p]} ELSE died
    /\ Return(p)
    /\ UNCHANGED <<users, members, invite, account, jobs, founded, founder, placed, answered, overlapped>>

\* Ban and unban read the row after Clerk has answered.
ReadActive(p) ==
    LET row == users[subject[p]] IN
    /\ step[p] = "readActive"
    /\ IF row.exists /\ row.clerk = entity[p].clerk
       THEN /\ entity' = [entity EXCEPT ![p] = [row EXCEPT !.active = entity[p].active]]
            /\ purpose' = [purpose EXCEPT ![p] = "setActive"]
            /\ Goto(p, "diff")
            /\ UNCHANGED <<handler, subject, name, org, dirty>>
       ELSE Return(p)
    /\ UNCHANGED <<tables, jobs, history>>

\* The process dies, or a statement fails that nothing compensates for.
Crash(p) ==
    /\ step[p] # "idle"
    /\ died' = died \cup ({subject[p]} \cap Users)
    /\ Return(p)
    /\ UNCHANGED <<tables, jobs, founded, founder, placed, answered, overlapped>>

SignIn(p) ==
    \/ FindUser(p) \/ EmailTaken(p) \/ ReadInvite(p) \/ ApplyInvite(p)
    \/ DiffUser(p) \/ SaveUser(p) \/ SaveFails(p)

Founding(p) ==
    \/ ReadUser(p) \/ Confirm(p) \/ CreateOrg(p) \/ CreateRefused(p) \/ ResolveRole(p)
    \/ ReadLink(p) \/ CreateMembership(p) \/ Answer(p)
    \/ Fault(p) \/ ReadUnlink(p) \/ DeleteOrg(p)

Work(p) == SignIn(p) \/ Founding(p) \/ ReadActive(p) \/ DiffOrg(p) \/ SaveOrg(p) \/ Crash(p)

Request(p, u) ==
    \/ Sync(p, u)
    \/ \E o \in Orgs : Register(p, u, o)
    \/ \E n \in Names : Onboard(p, u, n)
    \/ \E b \in BOOLEAN : SetActive(p, u, b)

Rename(p) == \E o \in Orgs, n \in Names : UpdateOrganization(p, o, n)

Administer ==
    \/ \E u \in Users :
          \/ RevokeInvitation(u) \/ DeleteUser(u)
          \/ \E o \in Orgs : InviteUser(u, o) \/ (\E b \in BOOLEAN : CreateUser(u, o, b))
    \/ \E o \in Orgs : DeleteOrganization(o) \/ (\E n \in Names : CreateOrganization(o, n))

Next ==
    \/ \E p \in Workers : (\E u \in Users : Request(p, u)) \/ Rename(p) \/ Work(p)
    \/ Administer

Spec == Init /\ [][Next]_vars
-----------------------------------------------------------------------------
(* Properties.                                                             *)

\* Every table and every handler's memory has the type the code gives it.
TypeOK ==
    /\ users \in [Users -> UserRow]
    /\ orgs \in [Orgs -> Names \cup {None}]
    /\ members \in SUBSET (Users \X Orgs)
    /\ invite \in [Users -> Orgs \cup {None}]
    /\ account \in [Users -> Nat \ {0}]
    /\ handler \in [Workers -> Handlers]
    /\ step \in [Workers -> Steps]
    /\ purpose \in [Workers -> Purposes]
    /\ subject \in [Workers -> Users \cup {None}]
    /\ name \in [Workers -> Names \cup {None}]
    /\ org \in [Workers -> Orgs \cup {None}]
    /\ entity \in [Workers -> UserRow]
    /\ dirty \in [Workers -> SUBSET Columns]
    /\ jobs \in Nat
    /\ founded \in SUBSET Orgs /\ founder \in [Orgs -> Users \cup {None}]
    /\ placed \in SUBSET (Users \X Orgs) /\ answered \in SUBSET (Users \X Orgs)
    /\ overlapped \in SUBSET Users /\ died \in SUBSET Users
    /\ \A p \in Workers :
          /\ step[p] \notin {"idle", "diffOrg", "saveOrg"} => subject[p] \in Users
          /\ step[p] = "idle" => handler[p] = "none" /\ purpose[p] = "none"
          /\ step[p] = "invite" => purpose[p] = "upsert"
          /\ step[p] = "find" \/ purpose[p] = "upsert"
                => handler[p] \in {"sync", "register", "onboard"}
          /\ step[p] \in {"read", "createOrg"} => handler[p] = "onboard"
          /\ step[p] \in {"diffOrg", "saveOrg"} \/ handler[p] = "onboard" => name[p] \in Names
          /\ handler[p] = "register" \/ purpose[p] \in {"link", "unlink"} => org[p] \in Orgs
          /\ step[p] \in {"diffOrg", "saveOrg", "apply", "roles", "readLink", "join", "answer",
                          "readUnlink", "deleteOrg"} => org[p] \in Orgs
          /\ step[p] = "confirm" => entity[p].org \in Orgs

\* Whoever onboarding answered with an organization is a member of it, and it
\* exists, for ever after: whatever other onboardings compensate for, banned or
\* synced users are saved stale, or handlers die
\* (onboard-organization.command-handler.ts:38-48, 76-98).
SuccessStands == \A m \in answered : m \in members /\ Live(m[2])

\* A user whose requests do not overlap belongs to one organization at most, even
\* if handlers died or their compensation failed half-way.
OneOrganization ==
    \A u \in Users \ overlapped : Cardinality({o \in Orgs : <<u, o>> \in members}) <= 1

\* For a user whose requests did not overlap, and none of which was cut short, a
\* link to an organization comes with membership of it, unless the row was created
\* with that link by POST /users, which makes no member of anybody
\* (create-user.command-handler.ts:19); and no organization is left over from an
\* onboarding that failed.
OnboardingWhole ==
    \A u \in Users \ (overlapped \cup died) : ~Busy(u) =>
        /\ users[u].org # None => <<u, users[u].org>> \in members \cup placed
        /\ \A o \in Orgs : Live(o) /\ founder[o] = u => <<u, o>> \in members

\* What onboarding promises: the abstract founding and joining of organizations,
\* of which every commit and compensation here is one step or none.
Promises == INSTANCE Memberships WITH
    Users <- Users, Organizations <- Orgs,
    open <- {o \in Orgs : Live(o)}, members <- members, promised <- answered

\* Nobody leaves, no organization with members is removed, and only members are
\* answered.
MembershipsKept == Promises!Spec
=============================================================================
