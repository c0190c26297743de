-------------------------- MODULE OnboardingProofs --------------------------
(***************************************************************************)
(* Theorems about Onboarding for any users, organizations and handlers:    *)
(* type correctness, that an answered onboarding stands, that onboarding   *)
(* implements the abstract memberships, that a user whose requests do not  *)
(* overlap belongs to one organization at most, and that nothing is left   *)
(* of an onboarding that failed.                                           *)
(***************************************************************************)
EXTENDS Onboarding, FiniteSetTheorems, TLAPS

-----------------------------------------------------------------------------
(* Type correctness.                                                       *)

LEMMA RowType == NoRow \in UserRow /\ \A u \in Users : TypeOK => users[u] \in UserRow
  BY DEF NoRow, UserRow, TypeOK

\* What a handler finds of its row: the user's row as it is, or none.
LEMMA RowFound ==
    ASSUME TypeOK, NEW p \in Workers, subject[p] \in Users
    PROVE  /\ Row(p) \in UserRow /\ Row(p) \in {users[subject[p]], NoRow}
           /\ Row(p).exists => Row(p) = users[subject[p]]
           /\ Current(p) \in UserRow
           /\ Current(p).exists = Row(p).exists /\ Current(p).org = Row(p).org
  <1>1. Row(p) \in UserRow /\ Row(p) \in {users[subject[p]], NoRow} /\ ~NoRow.exists
    BY RowType DEF Row, NoRow
  <1>2. entity[p].id \in Nat
    BY DEF TypeOK, UserRow
  <1> QED
    BY <1>1, <1>2 DEF Current, UserRow

\* What a save leaves in the table.
LEMMA RowSaved ==
    ASSUME TypeOK, NEW p \in Workers, subject[p] \in Users
    PROVE  /\ Identity(p) \in Nat /\ Saved(p) \in UserRow
           /\ Saved(p).exists =
                 IF "exists" \in dirty[p] THEN entity[p].exists ELSE users[subject[p]].exists
           /\ Saved(p).org = IF "org" \in dirty[p] THEN entity[p].org ELSE users[subject[p]].org
  <1>1. entity[p] \in UserRow /\ users[subject[p]] \in UserRow /\ account[subject[p]] \in Nat
    BY DEF TypeOK
  <1>2. Identity(p) \in Nat
    BY <1>1 DEF Identity, UserRow
  <1>3. Saved(p) = [id |-> Identity(p),
                    exists |-> IF "exists" \in dirty[p] THEN entity[p].exists ELSE users[subject[p]].exists,
                    clerk |-> IF "clerk" \in dirty[p] THEN entity[p].clerk ELSE users[subject[p]].clerk,
                    org |-> IF "org" \in dirty[p] THEN entity[p].org ELSE users[subject[p]].org,
                    active |-> IF "active" \in dirty[p] THEN entity[p].active ELSE users[subject[p]].active]
    BY DEF Saved, Columns
  <1> QED
    BY <1>1, <1>2, <1>3 DEF UserRow

LEMMA ReturnType ==
    ASSUME TypeOK, NEW p \in Workers, Return(p), jobs' = jobs,
           users' \in [Users -> UserRow], orgs' \in [Orgs -> Names \cup {None}],
           members' \in SUBSET (Users \X Orgs), invite' \in [Users -> Orgs \cup {None}],
           account' \in [Users -> Nat \ {0}], placed' \in SUBSET (Users \X Orgs),
           founded' \in SUBSET Orgs, founder' \in [Orgs -> Users \cup {None}],
           answered' \in SUBSET (Users \X Orgs),
           overlapped' \in SUBSET Users, died' \in SUBSET Users
    PROVE  TypeOK'
  BY RowType DEF TypeOK, Return, Handlers, Steps, Purposes

LEMMA StartType ==
    ASSUME TypeOK, NEW p \in Workers, NEW h \in Handlers, NEW u \in Users,
           NEW n \in Names \cup {None}, NEW o \in Orgs \cup {None}, NEW e \in UserRow,
           NEW first \in {"find", "read", "readActive"}, Start(p, h, u, n, o, e, first),
           first = "find" => h \in {"sync", "register", "onboard"},
           first = "read" => h = "onboard",
           h = "onboard" => n \in Names, h = "register" => o \in Orgs
    PROVE  TypeOK'
  BY DEF TypeOK, Start, Overlap, tables, Steps

LEMMA RequestType ==
    ASSUME TypeOK, NEW p \in Workers, NEW u \in Users, Request(p, u)
    PROVE  TypeOK'
  <1>1. ASSUME NEW k \in Nat PROVE ByAccount(k) \in UserRow
    BY DEF ByAccount, NoRow, UserRow
  <1>2. account[u] \in Nat /\ 1..account[u] \subseteq Nat
    BY DEF TypeOK
  <1>3. CASE Sync(p, u)
    BY <1>1, <1>2, <1>3, StartType DEF Sync, Handlers
  <1>4. ASSUME NEW o \in Orgs, Register(p, u, o) PROVE TypeOK'
    BY <1>1, <1>2, <1>4, StartType DEF Register, Handlers
  <1>5. ASSUME NEW n \in Names, Onboard(p, u, n) PROVE TypeOK'
    BY <1>1, <1>2, <1>5, StartType, RowType DEF Onboard, Handlers
  <1>6. ASSUME NEW b \in BOOLEAN, SetActive(p, u, b) PROVE TypeOK'
    <2>1. [ByAccount(account[u]) EXCEPT !.active = b] \in UserRow
      BY <1>1, <1>2 DEF UserRow
    <2> QED
      BY <1>6, <2>1, StartType DEF SetActive, Handlers
  <1> QED
    BY <1>3, <1>4, <1>5, <1>6 DEF Request

LEMMA AdministerType ==
    ASSUME TypeOK, Administer
    PROVE  TypeOK'
  <1>1. ASSUME NEW u \in Users, RevokeInvitation(u) PROVE TypeOK'
    BY <1>1 DEF RevokeInvitation, TypeOK, worker, history
  <1>2. ASSUME NEW u \in Users, DeleteUser(u) PROVE TypeOK'
    BY <1>2, RowType DEF DeleteUser, TypeOK, worker, history
  <1>3. ASSUME NEW u \in Users, NEW o \in Orgs, InviteUser(u, o) PROVE TypeOK'
    BY <1>3 DEF InviteUser, TypeOK, worker, history
  <1>4. ASSUME NEW o \in Orgs, DeleteOrganization(o) PROVE TypeOK'
    BY <1>4 DEF DeleteOrganization, TypeOK, worker, history
  <1>5. ASSUME NEW o \in Orgs, NEW n \in Names, CreateOrganization(o, n) PROVE TypeOK'
    BY <1>5 DEF CreateOrganization, TypeOK, worker
  <1>6. ASSUME NEW u \in Users, NEW o \in Orgs, NEW b \in BOOLEAN, CreateUser(u, o, b) PROVE TypeOK'
    <2>1. users' \in [Users -> UserRow]
      BY <1>6 DEF CreateUser, TypeOK, UserRow
    <2> QED
      BY <1>6, <2>1 DEF CreateUser, Overlap, TypeOK, worker
  <1> QED
    BY <1>1, <1>2, <1>3, <1>4, <1>5, <1>6 DEF Administer

LEMMA OrgRowType ==
    ASSUME TypeOK, NEW p \in Workers, Rename(p) \/ DiffOrg(p) \/ SaveOrg(p)
    PROVE  TypeOK'
  <1>1. CASE Rename(p)
    <2>1. PICK o \in Orgs, n \in Names : UpdateOrganization(p, o, n)
      BY <1>1 DEF Rename
    <2> QED
      BY <2>1 DEF UpdateOrganization, Goto, TypeOK, tables, Handlers, Steps
  <1>2. CASE DiffOrg(p)
    BY <1>2 DEF DiffOrg, Goto, TypeOK, tables, history, Steps, Columns
  <1>3. CASE SaveOrg(p)
    <2>1. orgs' \in [Orgs -> Names \cup {None}]
      BY <1>3 DEF SaveOrg, TypeOK
    <2> QED
      BY <1>3, <2>1, ReturnType DEF SaveOrg, history, TypeOK
  <1> QED
    BY <1>1, <1>2, <1>3

LEMMA SaveType ==
    ASSUME TypeOK, NEW p \in Workers, DiffUser(p) \/ SaveUser(p) \/ SaveFails(p)
    PROVE  TypeOK'
  <1>1. CASE DiffUser(p)
    BY <1>1 DEF DiffUser, Goto, TypeOK, tables, history, Steps
  <1>2. CASE SaveUser(p)
    <2>1. subject[p] \in Users /\ entity[p] \in UserRow
      BY <1>2 DEF SaveUser, TypeOK
    <2>2. users' \in [Users -> UserRow]
      BY <1>2, <2>1, RowSaved DEF SaveUser, TypeOK
    <2>3. CASE AfterSave(p) = "idle"
      BY <1>2, <2>2, <2>3, ReturnType DEF SaveUser, history, TypeOK
    <2>5. /\ [entity EXCEPT ![p].id = Identity(p)] \in [Workers -> UserRow]
          /\ [entity EXCEPT ![p].id = Identity(p)][p].org = entity[p].org
      BY <2>1, RowSaved DEF TypeOK, UserRow
    <2>4. CASE AfterSave(p) # "idle"
      <3>1. AfterSave(p) \in {"invite", "read", "join", "deleteOrg"}
        BY <2>4 DEF AfterSave
      <3>2. AfterSave(p) \in {"join", "deleteOrg"} => purpose[p] \in {"link", "unlink"}
        BY DEF AfterSave
      <3>3. /\ AfterSave(p) = "invite" => purpose[p] = "upsert"
            /\ AfterSave(p) = "read" => handler[p] = "onboard"
        BY DEF AfterSave
      <3> QED
        BY <1>2, <2>1, <2>2, <2>4, <2>5, <3>1, <3>2, <3>3 DEF SaveUser, Goto, history, TypeOK, Steps
    <2> QED
      BY <2>3, <2>4
  <1>3. CASE SaveFails(p)
    BY <1>3, ReturnType DEF SaveFails, Goto, tables, TypeOK, Steps
  <1> QED
    BY <1>1, <1>2, <1>3

LEMMA SignInType ==
    ASSUME TypeOK, NEW p \in Workers, FindUser(p) \/ EmailTaken(p) \/ ReadInvite(p) \/ ApplyInvite(p)
    PROVE  TypeOK'
  <1>1. CASE FindUser(p)
    <2>1. subject[p] \in Users
      BY <1>1 DEF FindUser, TypeOK
    <2>2. [users[subject[p]] EXCEPT !.exists = TRUE, !.active = TRUE, !.clerk = entity[p].clerk]
             \in UserRow
      BY <2>1, RowType DEF TypeOK, UserRow
    <2> QED
      BY <1>1, <2>1, <2>2 DEF FindUser, Goto, tables, history, TypeOK, Steps, Purposes, Columns
  <1>2. CASE ReadInvite(p)
    <2>1. subject[p] \in Users /\ invite[subject[p]] \in Orgs \cup {None}
      BY <1>2 DEF ReadInvite, TypeOK
    <2> DEFINE o == IF handler[p] = "register" THEN org[p] ELSE invite[subject[p]]
    <2>2. CASE Return(p)
      BY <1>2, <2>2, ReturnType DEF ReadInvite, tables, history, TypeOK
    <2>3. CASE ~Return(p)
      <3>1. o \in Orgs \cup {None} /\ (o = None => handler[p] = "onboard")
        BY <1>2, <2>1, <2>3, NoneAssumption DEF ReadInvite, TypeOK
      <3>2. Goto(p, IF o = None THEN "read" ELSE "apply") /\ org' = [org EXCEPT ![p] = o]
        BY <1>2, <2>3 DEF ReadInvite
      <3>3. UNCHANGED <<handler, purpose, subject, name, entity, dirty, tables, jobs, history>>
        BY <1>2, <2>3 DEF ReadInvite
      <3>4. o \in Orgs \/ (o = None /\ handler[p] = "onboard" /\ purpose[p] \notin {"link", "unlink"})
        BY <1>2, <3>1 DEF ReadInvite, TypeOK
      <3>5. step[p] = "invite" /\ purpose[p] = "upsert"
        BY <1>2 DEF ReadInvite, TypeOK
      <3>6. CASE o = None
        BY <1>2, <2>1, <3>1, <3>2, <3>3, <3>5, <3>6 DEF Goto, tables, history, TypeOK, Steps
      <3>7. CASE o # None
        <4>1. o \in Orgs
          BY <3>1, <3>7
        <4>2. step' = [step EXCEPT ![p] = "apply"] /\ org' = [org EXCEPT ![p] = o]
          BY <3>2, <3>7 DEF Goto
        <4> HIDE DEF o
        <4> QED
          BY <2>1, <3>3, <3>5, <4>1, <4>2 DEF tables, history, TypeOK, Steps
      <3> QED
        BY <3>6, <3>7
    <2> QED
      BY <2>2, <2>3
  <1>3. CASE ApplyInvite(p)
    <2>1. subject[p] \in Users /\ org[p] \in Orgs
      BY <1>3 DEF ApplyInvite, TypeOK
    <2>2. users' \in [Users -> UserRow] /\ members' \in SUBSET (Users \X Orgs)
      <3>1. [users EXCEPT ![subject[p]].org = org[p]] \in [Users -> UserRow]
        <4>1. [users[subject[p]] EXCEPT !.org = org[p]] \in UserRow
          BY <2>1, RowType DEF UserRow
        <4>2. users \in [Users -> UserRow]
          BY DEF TypeOK
        <4> QED
          BY <2>1, <4>1, <4>2
      <3>2. members \cup {<<subject[p], org[p]>>} \in SUBSET (Users \X Orgs)
        BY <2>1 DEF TypeOK
      <3>3. /\ users' \in {users, [users EXCEPT ![subject[p]].org = org[p]]}
            /\ members' \in {members, members \cup {<<subject[p], org[p]>>}}
        BY <1>3 DEF ApplyInvite
      <3> QED
        BY <3>1, <3>2, <3>3 DEF TypeOK
    <2>3. CASE handler[p] = "onboard"
      BY <1>3, <2>1, <2>2, <2>3 DEF ApplyInvite, Goto, history, TypeOK, Steps
    <2>4. CASE handler[p] # "onboard"
      BY <1>3, <2>2, <2>4, ReturnType DEF ApplyInvite, history, TypeOK
    <2> QED
      BY <2>3, <2>4
  <1>4. CASE EmailTaken(p)
    BY <1>4, ReturnType DEF EmailTaken, tables, history, TypeOK
  <1> QED
    BY <1>1, <1>2, <1>3, <1>4

LEMMA FoundingType ==
    ASSUME TypeOK, NEW p \in Workers, Founding(p)
    PROVE  TypeOK'
  <1>1. CASE ReadUser(p)
    <2>1. subject[p] \in Users /\ Current(p) \in UserRow /\ Current(p).org = Row(p).org
      BY <1>1, RowFound DEF ReadUser, TypeOK
    <2> QED
      BY <1>1, <2>1 DEF ReadUser, Goto, tables, history, TypeOK, Steps, UserRow
  <1>2. CASE Confirm(p)
    BY <1>2, ReturnType DEF Confirm, Goto, tables, history, TypeOK, Steps
  <1>3. CASE CreateOrg(p)
    <2>1. PICK o \in Orgs : /\ orgs' = [orgs EXCEPT ![o] = name[p]]
                            /\ founded' = founded \cup {o}
                            /\ founder' = [founder EXCEPT ![o] = subject[p]]
                            /\ org' = [org EXCEPT ![p] = o]
      BY <1>3 DEF CreateOrg
    <2>2. name[p] \in Names /\ subject[p] \in Users
      BY <1>3 DEF CreateOrg, TypeOK
    <2> QED
      BY <1>3, <2>1, <2>2 DEF CreateOrg, Goto, TypeOK, Steps
  <1>4. CASE CreateRefused(p)
    BY <1>4, ReturnType DEF CreateRefused, tables, history, TypeOK
  <1>5. CASE ResolveRole(p)
    BY <1>5 DEF ResolveRole, Goto, tables, history, TypeOK, Steps
  <1>6. CASE ReadLink(p) \/ ReadUnlink(p)
    <2>1. subject[p] \in Users /\ org[p] \in Orgs
      BY <1>6 DEF ReadLink, ReadUnlink, TypeOK
    <2>2. /\ [Current(p) EXCEPT !.org = org[p]] \in UserRow
          /\ [Current(p) EXCEPT !.org = None] \in UserRow
      BY <2>1, RowFound DEF UserRow
    <2>3. entity' \in [Workers -> UserRow]
      BY <1>6, <2>2 DEF ReadLink, ReadUnlink, TypeOK
    <2> QED
      BY <1>6, <2>1, <2>3 DEF ReadLink, ReadUnlink, Goto, tables, history, TypeOK, Steps, Purposes
  <1>7. CASE CreateMembership(p)
    <2>1. <<subject[p], org[p]>> \in Users \X Orgs
      BY <1>7 DEF CreateMembership, TypeOK
    <2> QED
      BY <1>7, <2>1 DEF CreateMembership, Goto, history, TypeOK, Steps
  <1>8. CASE Answer(p)
    <2>1. <<subject[p], org[p]>> \in Users \X Orgs
      BY <1>8 DEF Answer, TypeOK
    <2> QED
      BY <1>8, <2>1, ReturnType DEF Answer, tables, TypeOK
  <1>9. CASE Fault(p)
    <2>1. subject[p] \in Users /\ org[p] \in Orgs
      BY <1>9 DEF Fault, TypeOK
    <2> QED
      BY <1>9, <2>1 DEF Fault, Goto, tables, history, TypeOK, Steps
  <1>10. CASE DeleteOrg(p)
    <2>1. subject[p] \in Users /\ org[p] \in Orgs
      BY <1>10 DEF DeleteOrg, TypeOK
    <2>2. orgs' \in [Orgs -> Names \cup {None}] /\ died' \in SUBSET Users
      BY <1>10, <2>1 DEF DeleteOrg, TypeOK
    <2> QED
      BY <1>10, <2>2, ReturnType DEF DeleteOrg, TypeOK
  <1> QED
    BY <1>1, <1>2, <1>3, <1>4, <1>5, <1>6, <1>7, <1>8, <1>9, <1>10 DEF Founding

LEMMA TypeStep == TypeOK /\ [Next]_vars => TypeOK'
  <1> SUFFICES ASSUME TypeOK, [Next]_vars PROVE TypeOK'
    OBVIOUS
  <1>1. ASSUME NEW p \in Workers, ReadActive(p) PROVE TypeOK'
    <2>1. subject[p] \in Users
      BY <1>1 DEF ReadActive, TypeOK
    <2>2. CASE Return(p)
      BY <1>1, <2>2, ReturnType DEF ReadActive, tables, history, TypeOK
    <2>3. CASE ~Return(p)
      <3>1. [users[subject[p]] EXCEPT !.active = entity[p].active] \in UserRow
        BY <2>1, RowType DEF UserRow, TypeOK
      <3> QED
        BY <1>1, <2>1, <2>3, <3>1 DEF ReadActive, Goto, tables, history, TypeOK, Steps, Purposes
    <2> QED
      BY <2>2, <2>3
  <1>2. ASSUME NEW p \in Workers, Crash(p) PROVE TypeOK'
    BY <1>2, ReturnType DEF Crash, tables, TypeOK
  <1>3. CASE UNCHANGED vars
    BY <1>3 DEF vars, tables, worker, history, TypeOK
  <1>4. ASSUME NEW p \in Workers, Work(p) PROVE TypeOK'
    BY <1>1, <1>2, <1>4, OrgRowType, SignInType, SaveType, FoundingType DEF Work, SignIn
  <1> QED
    BY <1>3, <1>4, RequestType, AdministerType, OrgRowType DEF Next

LEMMA TypeInit == Init => TypeOK
  BY RowType DEF Init, TypeOK, Handlers, Steps, Purposes

\* Every table and every handler's memory keeps its type.
THEOREM TypeCorrect == Spec => []TypeOK
  BY TypeInit, TypeStep, PTL DEF Spec

-----------------------------------------------------------------------------
(* An answered onboarding stands.  SuccessStands alone is not inductive:   *)
(* an answer repeats what a handler saw, so what it saw must last.         *)

Standing ==
    /\ \A m \in members : Live(m[2])
    /\ answered \subseteq members
    /\ \A p \in Workers : step[p] = "answer" => <<subject[p], org[p]>> \in members

\* A step that nobody's membership, answer or organization depends on.
Quiet ==
    /\ UNCHANGED <<orgs, members, answered>>
    /\ \A p \in Workers : step'[p] = "answer" =>
          step[p] = "answer" /\ subject'[p] = subject[p] /\ org'[p] = org[p]

LEMMA QuietReturn ==
    ASSUME TypeOK, NEW p \in Workers, Return(p), UNCHANGED <<orgs, members, answered>>
    PROVE  Quiet
  BY DEF TypeOK, Return, Quiet

LEMMA QuietGoto ==
    ASSUME TypeOK, NEW p \in Workers, NEW s, Goto(p, s), s # "answer",
           UNCHANGED <<orgs, members, answered, subject>>,
           \A q \in Workers \ {p} : org'[q] = org[q]
    PROVE  Quiet
  BY DEF TypeOK, Goto, Quiet

LEMMA QuietRequest ==
    ASSUME TypeOK, NEW p \in Workers, NEW u \in Users, Request(p, u)
    PROVE  Quiet
  <1>1. ASSUME NEW h, NEW n, NEW o, NEW e, NEW first, first # "answer",
               Start(p, h, u, n, o, e, first)
        PROVE  Quiet
    BY <1>1 DEF Start, tables, TypeOK, Quiet
  <1> QED
    BY <1>1 DEF Request, Sync, Register, Onboard, SetActive

LEMMA QuietSave ==
    ASSUME TypeOK, NEW p \in Workers,
           DiffUser(p) \/ SaveUser(p) \/ SaveFails(p) \/ DiffOrg(p) \/ Rename(p) \/ ReadActive(p) \/ Crash(p)
    PROVE  Quiet
  <1>1. CASE DiffUser(p)
    BY <1>1, QuietGoto DEF DiffUser, tables, history
  <1>2. CASE SaveUser(p)
    <2>1. AfterSave(p) # "answer"
      BY DEF AfterSave
    <2> QED
      BY <1>2, <2>1, QuietGoto, QuietReturn DEF SaveUser, history
  <1>3. CASE SaveFails(p)
    BY <1>3, QuietGoto, QuietReturn DEF SaveFails, tables
  <1>4. CASE DiffOrg(p)
    BY <1>4, QuietGoto DEF DiffOrg, tables, history
  <1>5. CASE Rename(p)
    BY <1>5, QuietGoto DEF Rename, UpdateOrganization, tables, TypeOK
  <1>6. CASE ReadActive(p)
    BY <1>6, QuietGoto, QuietReturn DEF ReadActive, tables, history
  <1>7. CASE Crash(p)
    BY <1>7, QuietReturn DEF Crash, tables
  <1> QED
    BY <1>1, <1>2, <1>3, <1>4, <1>5, <1>6, <1>7

LEMMA QuietSignIn ==
    ASSUME TypeOK, NEW p \in Workers, FindUser(p) \/ EmailTaken(p) \/ ReadInvite(p)
    PROVE  Quiet
  <1>1. CASE FindUser(p)
    BY <1>1, QuietGoto DEF FindUser, tables, history
  <1>2. CASE ReadInvite(p)
    BY <1>2, QuietGoto, QuietReturn DEF ReadInvite, tables, history, TypeOK
  <1>3. CASE EmailTaken(p)
    BY <1>3, QuietReturn DEF EmailTaken, tables, history
  <1> QED
    BY <1>1, <1>2, <1>3

LEMMA QuietFounding ==
    ASSUME TypeOK, NEW p \in Workers,
           ReadUser(p) \/ CreateRefused(p) \/ ResolveRole(p) \/ ReadLink(p) \/ Fault(p) \/ ReadUnlink(p)
    PROVE  Quiet
  <1>1. CASE CreateRefused(p)
    BY <1>1, QuietReturn DEF CreateRefused, tables, history
  <1>2. CASE ReadUser(p) \/ ResolveRole(p) \/ ReadLink(p) \/ Fault(p) \/ ReadUnlink(p)
    BY <1>2, QuietGoto DEF ReadUser, ResolveRole, ReadLink, Fault, ReadUnlink, tables, history
  <1> QED
    BY <1>1, <1>2

LEMMA QuietKeepsStanding ==
    ASSUME Standing, Quiet
    PROVE  Standing'
  BY DEF Standing, Quiet, Live

\* What a step does to organizations and members is one abstract step or none.
Allowed == [Promises!Next]_(Promises!vars)

LEMMA QuietAllowed ==
    ASSUME Quiet
    PROVE  Allowed
  BY DEF Quiet, Allowed, Promises!vars, Live

LEMMA OrgChange ==
    ASSUME TypeOK, Standing, UNCHANGED <<members, answered>>, NEW o \in Orgs, NEW n \in Names \cup {None},
           orgs' = [orgs EXCEPT ![o] = n], n = None => ~Referenced(o),
           \A p \in Workers : step'[p] = "answer" =>
              step[p] = "answer" /\ subject'[p] = subject[p] /\ org'[p] = org[p]
    PROVE  Standing' /\ Allowed
  <1>1. CASE n = None
    <2>1. Standing'
      <3>1. ASSUME NEW m \in members PROVE m[2] # o /\ m[2] \in Orgs
        <4>1. PICK u \in Users, q \in Orgs : m = <<u, q>>
          BY DEF TypeOK
        <4> QED
          BY <1>1, <4>1 DEF Referenced
      <3>2. \A m \in members' : Live(m[2])'
        BY <1>1, <3>1 DEF Standing, TypeOK, Live
      <3> QED
        BY <3>2 DEF Standing
    <2>2. {q \in Orgs : Live(q)}' = {q \in Orgs : Live(q)} \ {o}
      BY <1>1 DEF TypeOK, Live
    <2>3. CASE Live(o)
      <3>1. Promises!Close(o)
        BY <1>1, <2>2, <2>3 DEF Promises!Close, Referenced
      <3> QED
        BY <2>1, <3>1 DEF Allowed, Promises!Next
    <2>4. CASE ~Live(o)
      <3>1. {q \in Orgs : Live(q)}' = {q \in Orgs : Live(q)}
        BY <2>2, <2>4
      <3> QED
        BY <2>1, <3>1 DEF Allowed, Promises!vars
    <2> QED
      BY <2>3, <2>4
  <1>2. CASE n # None
    <2>1. Standing'
      BY <1>2 DEF Standing, TypeOK, Live
    <2>2. {q \in Orgs : Live(q)}' = {q \in Orgs : Live(q)} \cup {o}
      BY <1>2 DEF TypeOK, Live
    <2>3. Promises!Found(o)
      BY <2>2 DEF Promises!Found
    <2> QED
      BY <2>1, <2>3 DEF Allowed, Promises!Next
  <1> QED
    BY <1>1, <1>2

LEMMA MemberJoins ==
    ASSUME TypeOK, Standing, NEW p \in Workers, subject[p] \in Users, org[p] \in Orgs, Live(org[p]),
           members' = members \cup {<<subject[p], org[p]>>}, UNCHANGED <<orgs, answered>>,
           \A q \in Workers : step'[q] = "answer" =>
              /\ subject'[q] = subject[q] /\ org'[q] = org[q]
              /\ step[q] = "answer" \/ q = p
    PROVE  Standing' /\ Allowed
  <1>1. Standing'
    BY DEF Standing, Live
  <1>2. {q \in Orgs : Live(q)}' = {q \in Orgs : Live(q)}
    BY DEF Live
  <1>3. Promises!Join(subject[p], org[p])
    BY <1>2 DEF Promises!Join
  <1> QED
    BY <1>1, <1>3 DEF Allowed, Promises!Next

LEMMA LoudStep ==
    ASSUME TypeOK, Standing, NEW p \in Workers,
           SaveOrg(p) \/ ApplyInvite(p) \/ Confirm(p) \/ CreateOrg(p) \/ CreateMembership(p)
             \/ Answer(p) \/ DeleteOrg(p)
    PROVE  Standing' /\ Allowed
  <1>1. CASE SaveOrg(p)
    <2>1. org[p] \in Orgs /\ name[p] \in Names
      BY <1>1 DEF SaveOrg, TypeOK
    <2>2. CASE orgs' = [orgs EXCEPT ![org[p]] = name[p]]
      BY <1>1, <2>1, <2>2, OrgChange, NoneAssumption DEF SaveOrg, Return, history, TypeOK
    <2>3. CASE orgs' = orgs
      BY <1>1, <2>3, QuietReturn, QuietKeepsStanding, QuietAllowed DEF SaveOrg, history
    <2> QED
      BY <1>1, <2>2, <2>3 DEF SaveOrg
  <1>2. CASE ApplyInvite(p)
    <2>1. subject[p] \in Users /\ org[p] \in Orgs
      BY <1>2 DEF ApplyInvite, TypeOK
    <2>2. \A q \in Workers : step'[q] = "answer" =>
             step[q] = "answer" /\ subject'[q] = subject[q] /\ org'[q] = org[q]
      BY <1>2 DEF ApplyInvite, Goto, Return, TypeOK
    <2>3. CASE members' = members
      BY <1>2, <2>2, <2>3, QuietKeepsStanding, QuietAllowed DEF ApplyInvite, history, Quiet
    <2>4. CASE members' # members
      <3>1. Live(org[p]) /\ members' = members \cup {<<subject[p], org[p]>>}
        BY <1>2, <2>4 DEF ApplyInvite, InviteRefused
      <3> QED
        BY <1>2, <2>1, <2>2, <3>1, MemberJoins DEF ApplyInvite, history
    <2> QED
      BY <2>3, <2>4
  <1>3. CASE Confirm(p)
    <2>1. Standing'
      BY <1>3 DEF Confirm, Goto, Return, tables, history, TypeOK, Standing, Live
    <2>2. {q \in Orgs : Live(q)}' = {q \in Orgs : Live(q)} /\ UNCHANGED <<members, answered>>
      BY <1>3 DEF Confirm, tables, history, Live
    <2> QED
      BY <2>1, <2>2 DEF Allowed, Promises!vars
  <1>4. CASE CreateOrg(p)
    <2>1. PICK o \in Orgs : orgs' = [orgs EXCEPT ![o] = name[p]] /\ org' = [org EXCEPT ![p] = o]
      BY <1>4 DEF CreateOrg
    <2>2. name[p] \in Names
      BY <1>4 DEF CreateOrg, TypeOK
    <2> QED
      BY <1>4, <2>1, <2>2, OrgChange, NoneAssumption DEF CreateOrg, Goto, TypeOK
  <1>5. CASE CreateMembership(p)
    <2>1. subject[p] \in Users /\ org[p] \in Orgs
      BY <1>5 DEF CreateMembership, TypeOK
    <2> QED
      BY <1>5, <2>1, MemberJoins DEF CreateMembership, Goto, history, TypeOK
  <1>6. CASE Answer(p)
    <2>1. /\ subject[p] \in Users /\ org[p] \in Orgs /\ <<subject[p], org[p]>> \in members
          /\ answered' = answered \cup {<<subject[p], org[p]>>}
          /\ UNCHANGED <<orgs, members>>
      BY <1>6 DEF Answer, TypeOK, Standing, tables
    <2>2. Standing'
      BY <1>6, <2>1 DEF Answer, Return, TypeOK, Standing, Live
    <2>3. Promises!Promise(subject[p], org[p])
      BY <2>1 DEF Promises!Promise, Live
    <2> QED
      BY <2>1, <2>2, <2>3 DEF Allowed, Promises!Next
  <1>7. CASE DeleteOrg(p)
    <2>1. org[p] \in Orgs
      BY <1>7 DEF DeleteOrg, TypeOK
    <2>2. CASE Referenced(org[p])
      BY <1>7, <2>2, QuietReturn, QuietKeepsStanding, QuietAllowed DEF DeleteOrg
    <2>3. CASE ~Referenced(org[p])
      BY <1>7, <2>1, <2>3, OrgChange DEF DeleteOrg, Return, TypeOK
    <2> QED
      BY <2>2, <2>3
  <1> QED
    BY <1>1, <1>2, <1>3, <1>4, <1>5, <1>6, <1>7

LEMMA AdministerStep ==
    ASSUME TypeOK, Standing, Administer
    PROVE  Standing' /\ Allowed
  <1>1. ASSUME NEW u \in Users,
               RevokeInvitation(u) \/ DeleteUser(u)
                 \/ \E o \in Orgs : InviteUser(u, o) \/ (\E b \in BOOLEAN : CreateUser(u, o, b))
        PROVE  Standing' /\ Allowed
    BY <1>1, QuietKeepsStanding, QuietAllowed
       DEF RevokeInvitation, DeleteUser, InviteUser, CreateUser, worker, history, Quiet
  <1>2. ASSUME NEW o \in Orgs, DeleteOrganization(o) PROVE Standing' /\ Allowed
    BY <1>2, OrgChange DEF DeleteOrganization, worker, history
  <1>3. ASSUME NEW o \in Orgs, NEW n \in Names, CreateOrganization(o, n) PROVE Standing' /\ Allowed
    BY <1>3, OrgChange, NoneAssumption DEF CreateOrganization, worker
  <1> QED
    BY <1>1, <1>2, <1>3 DEF Administer

LEMMA StandingStep == TypeOK /\ Standing /\ [Next]_vars => Standing' /\ Allowed
  <1> SUFFICES ASSUME TypeOK, Standing, [Next]_vars PROVE Standing' /\ Allowed
    OBVIOUS
  <1>1. ASSUME NEW p \in Workers, (\E u \in Users : Request(p, u)) \/ Rename(p) \/ Work(p)
        PROVE  Quiet \/ (Standing' /\ Allowed)
    BY <1>1, QuietRequest, QuietSave, QuietSignIn, QuietFounding, LoudStep DEF Work, SignIn, Founding
  <1>2. CASE UNCHANGED vars
    <2>1. UNCHANGED <<orgs, members, answered, step, subject, org>>
      BY <1>2 DEF vars, tables, worker, history
    <2>2. Quiet
      BY <2>1 DEF Quiet
    <2> QED
      BY <2>2, QuietKeepsStanding, QuietAllowed
  <1> QED
    BY <1>1, <1>2, AdministerStep, QuietKeepsStanding, QuietAllowed DEF Next

\* Whoever onboarding answered with an organization is a member of it for ever after.
THEOREM OnboardingStands == Spec => []SuccessStands
  <1>1. Init => Standing
    BY DEF Init, Standing
  <1>2. TypeOK /\ Standing => SuccessStands
    BY DEF Standing, SuccessStands
  <1> QED
    BY <1>1, <1>2, TypeInit, TypeStep, StandingStep, PTL DEF Spec

\* Onboarding implements the abstract founding and joining of organizations.
THEOREM KeepsMemberships == Spec => MembershipsKept
  <1>1. Init => Promises!Init
    BY DEF Init, Promises!Init, Live
  <1>2. Init => Standing
    BY DEF Init, Standing
  <1> QED
    BY <1>1, <1>2, TypeInit, TypeStep, StandingStep, PTL
       DEF Spec, MembershipsKept, Promises!Spec, Allowed

-----------------------------------------------------------------------------
(* One organization at most.  The handler that creates a membership does   *)
(* not look for another one: it relies on what it saw in the user's row,   *)
(* and that on every membership being in the organization the row names.   *)

Founds(p) ==
    \/ step[p] \in {"createOrg", "roles", "readLink", "join", "readUnlink", "deleteOrg"}
    \/ step[p] \in {"diff", "save"} /\ purpose[p] \in {"link", "unlink"}

\* What a handler that is alone with its user can rely on: also that the row it has
\* read, or made, is still the user's.
Relies(p) ==
    LET u == subject[p] IN
    /\ step[p] \notin {"idle", "find", "readActive", "diffOrg", "saveOrg"} => Row(p) = users[u]
    /\ Founds(p) => \A o \in Orgs : <<u, o>> \notin members
    /\ step[p] \in {"diff", "save"} =>
          /\ purpose[p] # "link" => \A o \in Orgs : <<u, o>> \in members => entity[p].org = o
          /\ purpose[p] = "link" => entity[p].org = org[p]
    /\ step[p] = "save" /\ purpose[p] = "link" =>
          /\ "exists" \in dirty[p] => "org" \in dirty[p]
          /\ users[u].exists /\ "org" \notin dirty[p] => users[u].org = org[p]
    /\ step[p] = "join" /\ users[u].exists => users[u].org = org[p]

RowTrue(u) ==
    /\ ~users[u].exists => users[u] = NoRow
    /\ u \notin overlapped => \A o \in Orgs : <<u, o>> \in members => users[u].org = o

Serial ==
    /\ \A p, q \in Workers :
          subject[p] = subject[q] /\ subject[p] \in Users \ overlapped => p = q
    /\ \A u \in Users : RowTrue(u)
    /\ \A p \in Workers : step[p] \in {"diff", "save"} => entity[p].exists
    /\ \A p \in Workers : subject[p] \in Users \ overlapped => Relies(p)

LEMMA NoRowNoOrg ==
    ASSUME NEW u \in Users, RowTrue(u), ~users[u].exists
    PROVE  users[u].org = None
  BY DEF RowTrue, NoRow

\* One handler moves, and touches no user but its own.
LEMMA OwnUserOnly ==
    ASSUME TypeOK, Serial, NEW p \in Workers,
           UNCHANGED <<users, members>>
             \/ \E u \in Users :
                   /\ subject[p] = u /\ RowTrue(u)'
                   /\ \A v \in Users \ {u} :
                         /\ users'[v] = users[v]
                         /\ \A o \in Orgs : <<v, o>> \in members' <=> <<v, o>> \in members,
           \A q \in Workers \ {p} :
              UNCHANGED <<step[q], purpose[q], subject[q], org[q], entity[q], dirty[q]>>,
           subject'[p] = subject[p] \/ subject'[p] = None,
           overlapped' = overlapped,
           step'[p] \in {"diff", "save"} => entity'[p].exists,
           subject'[p] \in Users \ overlapped => Relies(p)'
    PROVE  Serial'
  <1>1. \A v, w \in Workers :
          subject'[v] = subject'[w] /\ subject'[v] \in Users \ overlapped' => v = w
    BY NoneAssumption DEF Serial
  <1>2. ASSUME NEW u \in Users PROVE RowTrue(u)'
    <2>1. CASE users'[u] = users[u] /\ \A o \in Orgs : <<u, o>> \in members' <=> <<u, o>> \in members
      BY <2>1 DEF Serial, RowTrue
    <2>2. CASE \E v \in Users : /\ RowTrue(v)'
                               /\ u # v => /\ users'[u] = users[u]
                                           /\ \A o \in Orgs : <<u, o>> \in members' <=> <<u, o>> \in members
      BY <2>1, <2>2
    <2> QED
      BY <2>1, <2>2
  <1>3. ASSUME NEW q \in Workers \ {p}, subject'[q] \in Users \ overlapped'
        PROVE  Relies(q)'
    <2>1. Relies(q) /\ subject'[q] = subject[q] /\ subject[q] # subject[p] /\ subject[q] \in Users
      BY <1>3 DEF Serial
    <2>2. /\ users'[subject[q]] = users[subject[q]]
          /\ \A o \in Orgs : <<subject[q], o>> \in members' <=> <<subject[q], o>> \in members
      BY <2>1
    <2>3. UNCHANGED <<step[q], purpose[q], subject[q], org[q], entity[q], dirty[q]>>
      OBVIOUS
    <2> QED
      BY <2>1, <2>2, <2>3 DEF Relies, Founds, Row
  <1>4. \A q \in Workers : step'[q] \in {"diff", "save"} => entity'[q].exists
    BY DEF Serial
  <1> QED
    BY <1>1, <1>2, <1>3, <1>4 DEF Serial

LEMMA SerialReturn ==
    ASSUME TypeOK, Serial, NEW p \in Workers, Return(p), UNCHANGED <<users, members, overlapped>>
    PROVE  Serial'
  <1>1. step'[p] = "idle" /\ subject'[p] = None
    BY DEF Return, TypeOK
  <1>2. \A q \in Workers \ {p} :
          UNCHANGED <<step[q], purpose[q], subject[q], org[q], entity[q], dirty[q]>>
    BY DEF Return, TypeOK
  <1> QED
    BY <1>1, <1>2, NoneAssumption, OwnUserOnly

LEMMA SerialRequest ==
    ASSUME TypeOK, Serial, NEW p \in Workers, NEW u \in Users, Request(p, u)
    PROVE  Serial'
  <1>1. ASSUME NEW h, NEW n, NEW o, NEW e, NEW first \in {"find", "read", "readActive"},
               Start(p, h, u, n, o, e, first), first = "read" => e = users[u]
        PROVE  Serial'
    <2>1. /\ UNCHANGED <<users, members, purpose, dirty>>
          /\ overlapped' = IF Busy(u) THEN overlapped \cup {u} ELSE overlapped
          /\ step' = [step EXCEPT ![p] = first]
          /\ subject' = [subject EXCEPT ![p] = u]
          /\ \A q \in Workers \ {p} : UNCHANGED <<org[q], entity[q]>>
          /\ entity'[p] = e
      BY <1>1 DEF Start, Overlap, tables, TypeOK
    <2>2. \A v, w \in Workers :
            subject'[v] = subject'[w] /\ subject'[v] \in Users \ overlapped' => v = w
      BY <2>1 DEF TypeOK, Serial, Busy
    <2>3. \A v \in Users : RowTrue(v)'
      BY <2>1 DEF Serial, RowTrue
    <2>4. \A q \in Workers : step'[q] \in {"diff", "save"} => entity'[q].exists
      BY <2>1 DEF Serial, TypeOK
    <2>5. ASSUME NEW q \in Workers, subject'[q] \in Users \ overlapped' PROVE Relies(q)'
      <3>1. CASE q = p
        BY <1>1, <2>1, <3>1 DEF Relies, Founds, Row, TypeOK
      <3>2. CASE q # p
        <4>1. Relies(q) /\ UNCHANGED <<step[q], purpose[q], subject[q], org[q], entity[q], dirty[q]>>
          BY <2>1, <2>5, <3>2 DEF Serial, TypeOK
        <4> QED
          BY <2>1, <4>1 DEF Relies, Founds, Row
      <3> QED
        BY <3>1, <3>2
    <2> QED
      BY <2>2, <2>3, <2>4, <2>5 DEF Serial
  <1> QED
    BY <1>1 DEF Request, Sync, Register, Onboard, SetActive

LEMMA SerialSave ==
    ASSUME TypeOK, Serial, NEW p \in Workers, DiffUser(p) \/ SaveUser(p) \/ SaveFails(p)
    PROVE  Serial'
  <1>1. /\ subject[p] \in Users /\ entity[p].exists /\ entity[p].org \in Orgs \cup {None}
        /\ purpose[p] = "link" => org[p] \in Orgs
    BY DEF DiffUser, SaveUser, SaveFails, TypeOK, Serial, UserRow
  <1>2. CASE DiffUser(p)
    <2>1. /\ step' = [step EXCEPT ![p] = "save"]
          /\ dirty' = [dirty EXCEPT ![p] = {c \in Columns : entity[p][c] # Row(p)[c]}]
          /\ UNCHANGED <<users, members, overlapped, purpose, subject, org, entity>>
      BY <1>2 DEF DiffUser, Goto, tables, history
    <2>2. /\ "exists" \in dirty'[p] <=> ~Row(p).exists
          /\ "org" \in dirty'[p] <=> entity[p].org # Row(p).org
      <3>1. dirty'[p] = {c \in Columns : entity[p][c] # Row(p)[c]}
        BY <2>1 DEF TypeOK
      <3>2. entity[p].exists = TRUE /\ Row(p).exists \in BOOLEAN
        BY <1>1, RowFound DEF TypeOK, UserRow
      <3> QED
        BY <3>1, <3>2 DEF Columns
    <2>3. ASSUME subject[p] \in Users \ overlapped PROVE Relies(p)'
      <3>1. Relies(p) /\ Row(p) = users[subject[p]] /\ RowTrue(subject[p]) /\ step[p] = "diff"
        BY <1>2, <2>3 DEF Serial, Relies, DiffUser
      <3>2. Row(p)' = users'[subject[p]]
        BY <2>1, <3>1 DEF Row
      <3>3. Row(p).exists \/ users[subject[p]].org = None
        BY <1>1, <3>1, NoRowNoOrg
      <3> QED
        BY <1>1, <2>1, <2>2, <3>1, <3>2, <3>3, NoneAssumption DEF Relies, Founds, TypeOK
    <2> QED
      BY <1>1, <2>1, <2>3, OwnUserOnly DEF TypeOK
  <1>3. CASE SaveUser(p)
    <2>1. \A q \in Workers \ {p} :
            UNCHANGED <<step[q], purpose[q], subject[q], org[q], entity[q], dirty[q]>>
      BY <1>3 DEF SaveUser, Goto, Return, TypeOK
    <2>2. UNCHANGED <<members, overlapped>>
      BY <1>3 DEF SaveUser, history
    <2>3. \A v \in Users \ {subject[p]} : users'[v] = users[v]
      BY <1>3 DEF SaveUser, TypeOK
    <2>4. \/ users' = users /\ ~Row(p).exists /\ "exists" \notin dirty[p]
          \/ /\ users'[subject[p]] = Saved(p) /\ users'[subject[p]].exists
             /\ users'[subject[p]].org =
                   IF "org" \in dirty[p] THEN entity[p].org ELSE users[subject[p]].org
      BY <1>1, <1>3, RowSaved, RowFound DEF SaveUser, TypeOK
    <2>5. ASSUME NEW u \in Users, u = subject[p] PROVE RowTrue(u)'
      <3>1. RowTrue(u) /\ (u \notin overlapped => Relies(p)) /\ step[p] = "save"
        BY <1>3, <2>5 DEF Serial, SaveUser
      <3>2. \/ users'[u] = users[u]
            \/ /\ users'[u].exists
               /\ users'[u].org = IF "org" \in dirty[p] THEN entity[p].org ELSE users[u].org
        BY <2>4, <2>5
      <3>3. ASSUME NEW o \in Orgs, u \notin overlapped, <<u, o>> \in members PROVE entity[p].org = o
        <4>1. purpose[p] # "link"
          BY <2>5, <3>1, <3>3 DEF Relies, Founds
        <4> QED
          BY <2>5, <3>1, <3>3, <4>1 DEF Relies
      <3> QED
        BY <2>2, <3>1, <3>2, <3>3 DEF RowTrue
    <2>6. \/ step'[p] = "idle" /\ subject'[p] = None
          \/ step'[p] = AfterSave(p) /\ AfterSave(p) # "idle"
                /\ UNCHANGED <<purpose[p], subject[p], org[p], dirty[p]>>
                /\ entity'[p].id = Identity(p)
      BY <1>3 DEF SaveUser, Goto, Return, TypeOK, UserRow
    <2>7. step'[p] \notin {"diff", "save"}
      BY <2>6 DEF AfterSave
    <2>8. ASSUME subject'[p] \in Users \ overlapped PROVE Relies(p)'
      <3>1. Relies(p) /\ step[p] = "save" /\ UNCHANGED <<purpose[p], subject[p], org[p]>>
            /\ step'[p] = AfterSave(p) /\ entity'[p].id = Identity(p) /\ Row(p) = users[subject[p]]
        BY <1>3, <2>6, <2>8, NoneAssumption DEF SaveUser, Serial, Relies
      <3>4. Row(p)' = users'[subject'[p]]
        <4>1. CASE users' = users /\ "exists" \notin dirty[p]
          BY <3>1, <4>1 DEF Row, Identity
        <4>2. CASE users'[subject[p]] = Saved(p)
          <5>1. Saved(p).id = Identity(p)
            BY DEF Saved, Columns
          <5> QED
            BY <3>1, <4>2, <5>1 DEF Row
        <4> QED
          BY <2>4, <4>1, <4>2
      <3>2. CASE purpose[p] = "link"
        <4>1. step'[p] = "join"
          BY <3>1, <3>2 DEF AfterSave
        <4>2. users'[subject[p]].exists => users'[subject[p]].org = org[p]
          BY <1>1, <1>3, <2>4, <3>1, <3>2, RowFound DEF Relies, SaveUser
        <4> QED
          BY <2>2, <3>1, <3>2, <3>4, <4>1, <4>2 DEF Relies, Founds
      <3>3. CASE purpose[p] # "link"
        <4>1. step'[p] \notin {"createOrg", "roles", "readLink", "join", "readUnlink"}
          BY <3>1, <3>3 DEF AfterSave
        <4>2. step'[p] = "deleteOrg" => purpose[p] = "unlink"
          BY <3>1, <3>3 DEF AfterSave
        <4> QED
          BY <2>2, <2>7, <3>1, <3>4, <4>1, <4>2 DEF Relies, Founds
      <3> QED
        BY <3>2, <3>3
    <2> QED
      BY <1>1, <2>1, <2>2, <2>3, <2>5, <2>6, <2>7, <2>8, OwnUserOnly
  <1>4. CASE SaveFails(p)
    <2>1. CASE purpose[p] = "link"
      <3>1. /\ step' = [step EXCEPT ![p] = "deleteOrg"]
            /\ UNCHANGED <<users, members, overlapped, purpose, subject, org, entity, dirty>>
            /\ step[p] = "save"
        BY <1>4, <2>1 DEF SaveFails, Goto, tables
      <3>2. subject[p] \in Users \ overlapped => Relies(p)'
        BY <2>1, <3>1 DEF Relies, Founds, Row, Serial, TypeOK
      <3> QED
        BY <3>1, <3>2, OwnUserOnly DEF TypeOK
    <2>2. CASE purpose[p] # "link"
      BY <1>4, <2>2, SerialReturn DEF SaveFails, tables
    <2> QED
      BY <2>1, <2>2
  <1> QED
    BY <1>2, <1>3, <1>4

LEMMA SerialSignIn ==
    ASSUME TypeOK, Serial, NEW p \in Workers,
           FindUser(p) \/ EmailTaken(p) \/ ReadInvite(p) \/ ReadActive(p)
    PROVE  Serial'
  <1>1. subject[p] \in Users
    BY DEF FindUser, EmailTaken, ReadInvite, ReadActive, TypeOK
  <1>2. CASE FindUser(p)
    <2>1. /\ UNCHANGED <<users, members, overlapped, subject, org>>
          /\ \A q \in Workers \ {p} : UNCHANGED <<step[q], purpose[q], entity[q], dirty[q]>>
          /\ purpose'[p] = "upsert" /\ step'[p] \in {"diff", "save"}
          /\ entity'[p].exists /\ entity'[p].org = users[subject[p]].org
          /\ entity'[p].id = users[subject[p]].id
      BY <1>1, <1>2 DEF FindUser, Goto, tables, history, TypeOK, UserRow
    <2>2. subject[p] \in Users \ overlapped => Relies(p)'
      BY <1>1, <2>1 DEF Relies, Founds, Row, Serial, RowTrue
    <2> QED
      BY <2>1, <2>2, OwnUserOnly
  <1>3. CASE ReadInvite(p)
    <2>1. CASE Return(p)
      BY <1>3, <2>1, SerialReturn DEF ReadInvite, tables, history
    <2>2. CASE ~Return(p)
      <3>1. /\ UNCHANGED <<users, members, overlapped, subject, purpose, entity, dirty>>
            /\ \A q \in Workers \ {p} : UNCHANGED <<step[q], org[q]>>
            /\ step'[p] \in {"read", "apply"} /\ step[p] = "invite"
        BY <1>3, <2>2 DEF ReadInvite, Goto, tables, history, TypeOK
      <3>2. subject'[p] \in Users \ overlapped => Relies(p)'
        BY <3>1 DEF Relies, Founds, Row, Serial
      <3> QED
        BY <3>1, <3>2, OwnUserOnly
    <2> QED
      BY <2>1, <2>2
  <1>4. CASE ReadActive(p)
    <2>1. CASE Return(p)
      BY <1>4, <2>1, SerialReturn DEF ReadActive, tables, history
    <2>2. CASE ~Return(p)
      <3>1. /\ UNCHANGED <<users, members, overlapped, subject, org, dirty>>
            /\ \A q \in Workers \ {p} : UNCHANGED <<step[q], purpose[q], entity[q]>>
            /\ purpose'[p] = "setActive" /\ step'[p] = "diff"
            /\ entity'[p].exists /\ entity'[p].org = users[subject[p]].org
            /\ entity'[p].id = users[subject[p]].id
        BY <1>1, <1>4, <2>2 DEF ReadActive, Goto, tables, history, TypeOK, UserRow
      <3>2. subject[p] \in Users \ overlapped => Relies(p)'
        BY <1>1, <3>1 DEF Relies, Founds, Row, Serial, RowTrue
      <3> QED
        BY <3>1, <3>2, OwnUserOnly
    <2> QED
      BY <2>1, <2>2
  <1>5. CASE EmailTaken(p)
    BY <1>5, SerialReturn DEF EmailTaken, tables, history
  <1> QED
    BY <1>2, <1>3, <1>4, <1>5

LEMMA SerialApply ==
    ASSUME TypeOK, Serial, NEW p \in Workers, ApplyInvite(p)
    PROVE  Serial'
  <1> DEFINE u == subject[p]
  <1>1. u \in Users /\ org[p] \in Orgs
    BY DEF ApplyInvite, TypeOK
  <1>2. /\ overlapped' = overlapped
        /\ \A q \in Workers \ {p} :
              UNCHANGED <<step[q], purpose[q], subject[q], org[q], entity[q], dirty[q]>>
        /\ \/ step'[p] = "read" /\ subject'[p] = u
           \/ step'[p] = "idle" /\ subject'[p] = None
    BY DEF ApplyInvite, Goto, Return, history, TypeOK
  <1>3. ASSUME subject'[p] \in Users \ overlapped PROVE Relies(p)'
    <2>1. /\ Row(p) = users[u] /\ entity'[p].id = entity[p].id /\ step'[p] = "read"
          /\ subject'[p] = u
      BY <1>2, <1>3, NoneAssumption DEF Serial, Relies, ApplyInvite, Return, TypeOK
    <2>2. Row(p)' = users'[subject'[p]]
      <3>1. CASE users' = users
        BY <2>1, <3>1 DEF Row
      <3>2. CASE users' # users
        <4>1. Row(p).exists /\ users' = [users EXCEPT ![u].org = org[p]]
          BY <3>2 DEF ApplyInvite
        <4>2. users[u].id = entity[p].id
          BY <4>1 DEF Row, NoRow
        <4>3. users'[u].id = users[u].id
          BY <1>1, <4>1 DEF TypeOK, UserRow
        <4> QED
          BY <2>1, <4>2, <4>3 DEF Row
      <3> QED
        BY <3>1, <3>2
    <2> QED
      BY <2>1, <2>2 DEF Relies, Founds
  <1>4. CASE UNCHANGED <<users, members>>
    BY <1>2, <1>3, <1>4, OwnUserOnly
  <1>5. CASE ~UNCHANGED <<users, members>>
    <2>1. /\ users[u].exists /\ users[u].org = None
          /\ users' = [users EXCEPT ![u].org = org[p]]
          /\ members' = members \cup {<<u, org[p]>>}
      BY <1>1, <1>5, RowFound DEF ApplyInvite
    <2>2. /\ users'[u].exists /\ users'[u].org = org[p]
          /\ \A v \in Users \ {u} : users'[v] = users[v]
      BY <1>1, <2>1 DEF TypeOK, UserRow
    <2>3. ASSUME NEW v \in Users, v = u PROVE RowTrue(v)'
      <3>1. v \notin overlapped => \A o \in Orgs : <<v, o>> \notin members
        BY <2>1, <2>3, NoneAssumption DEF Serial, RowTrue
      <3> QED
        BY <1>2, <2>1, <2>2, <2>3, <3>1 DEF RowTrue
    <2>4. \A v \in Users \ {u} :
            /\ users'[v] = users[v]
            /\ \A o \in Orgs : <<v, o>> \in members' <=> <<v, o>> \in members
      BY <2>1, <2>2
    <2> QED
      BY <1>1, <1>2, <1>3, <2>3, <2>4, OwnUserOnly
  <1> QED
    BY <1>4, <1>5

LEMMA SerialJoin ==
    ASSUME TypeOK, Serial, NEW p \in Workers, CreateMembership(p)
    PROVE  Serial'
  <1> DEFINE u == subject[p]
  <1>1. /\ u \in Users /\ org[p] \in Orgs /\ Row(p).exists /\ step[p] = "join"
        /\ members' = members \cup {<<u, org[p]>>}
        /\ UNCHANGED <<users, overlapped, purpose, subject, org, entity, dirty>>
        /\ step' = [step EXCEPT ![p] = "answer"]
    BY DEF CreateMembership, Goto, history, TypeOK
  <1>5. users[u].exists
    BY <1>1, RowFound
  <1>2. u \notin overlapped => Relies(p)'
    BY <1>1 DEF Relies, Founds, Row, Serial, TypeOK
  <1>3. ASSUME NEW v \in Users, v = u PROVE RowTrue(v)'
    <2>1. v \notin overlapped => users[v].org = org[p] /\ \A o \in Orgs : <<v, o>> \notin members
      BY <1>1, <1>3, <1>5 DEF Serial, Relies, Founds
    <2> QED
      BY <1>1, <1>3, <1>5, <2>1 DEF RowTrue, Serial
  <1>4. \A v \in Users \ {u} :
          /\ users'[v] = users[v]
          /\ \A o \in Orgs : <<v, o>> \in members' <=> <<v, o>> \in members
    BY <1>1
  <1> QED
    BY <1>1, <1>2, <1>3, <1>4, OwnUserOnly DEF TypeOK

LEMMA SerialFounding ==
    ASSUME TypeOK, Serial, NEW p \in Workers, Founding(p)
    PROVE  Serial'
  <1>1. ASSUME UNCHANGED <<users, members, overlapped, subject, purpose, dirty>>,
               \A q \in Workers \ {p} : UNCHANGED <<step[q], org[q], entity[q]>>,
               step'[p] \notin {"diff", "save", "join"},
               step[p] \notin {"idle", "find", "readActive", "diffOrg", "saveOrg"},
               entity'[p].id = entity[p].id,
               Founds(p)' => Founds(p) \/ Row(p).org = None,
               subject[p] \in Users
        PROVE  Serial'
    <2>1. subject[p] \in Users \ overlapped => Relies(p)'
      BY <1>1, NoneAssumption DEF Relies, Row, Serial, RowTrue
    <2> QED
      BY <1>1, <2>1, OwnUserOnly
  <1>2. CASE ReadUser(p)
    <2>1. subject[p] \in Users /\ entity' = [entity EXCEPT ![p] = Current(p)]
      BY <1>2 DEF ReadUser, TypeOK
    <2>2. Row(p) \in UserRow /\ Current(p) = [Row(p) EXCEPT !.id = entity[p].id]
      BY <2>1, RowFound DEF Current
    <2>3. entity'[p].id = entity[p].id /\ \A q \in Workers \ {p} : entity'[q] = entity[q]
      BY <2>1, <2>2 DEF TypeOK, UserRow
    <2> QED
      BY <1>1, <1>2, <2>1, <2>3 DEF ReadUser, Goto, tables, history, TypeOK, Founds
  <1>3. CASE Confirm(p)
    <2>1. CASE Return(p)
      BY <1>3, <2>1, SerialReturn DEF Confirm, tables, history
    <2>2. CASE ~Return(p)
      BY <1>1, <1>3, <2>2 DEF Confirm, Goto, tables, history, TypeOK, Founds
    <2> QED
      BY <2>1, <2>2
  <1>4. CASE CreateOrg(p)
    <2>1. PICK o \in Orgs : org' = [org EXCEPT ![p] = o]
      BY <1>4 DEF CreateOrg
    <2> QED
      BY <1>1, <1>4, <2>1 DEF CreateOrg, Goto, TypeOK, Founds
  <1>5. CASE CreateRefused(p) \/ Answer(p) \/ DeleteOrg(p)
    BY <1>5, SerialReturn DEF CreateRefused, Answer, DeleteOrg, tables, history
  <1>6. CASE ResolveRole(p)
    BY <1>1, <1>6 DEF ResolveRole, Goto, tables, history, TypeOK, Founds
  <1>7. CASE Fault(p)
    BY <1>1, <1>7 DEF Fault, Goto, tables, history, TypeOK, Founds
  <1>8. CASE CreateMembership(p)
    BY <1>8, SerialJoin
  <1>9. CASE ReadLink(p) \/ ReadUnlink(p)
    <2>1. /\ subject[p] \in Users /\ Founds(p) /\ org[p] \in Orgs
          /\ UNCHANGED <<users, members, overlapped, subject, org, dirty>>
          /\ \A q \in Workers \ {p} : UNCHANGED <<step[q], purpose[q], entity[q]>>
      BY <1>9 DEF ReadLink, ReadUnlink, Goto, tables, history, TypeOK, Founds
    <2>4. Current(p) \in UserRow /\ Current(p).exists = Row(p).exists /\ Current(p).id = entity[p].id
      <3>1. Row(p) \in UserRow
        BY <2>1, RowFound
      <3> QED
        BY <2>1, <3>1, RowFound DEF Current, UserRow
    <2>2. /\ step'[p] = IF Row(p).exists THEN "diff" ELSE "deleteOrg"
          /\ purpose'[p] \in {"link", "unlink"}
          /\ purpose'[p] = "link" => entity'[p].org = org[p]
          /\ entity'[p].exists = Row(p).exists /\ entity'[p].id = entity[p].id
      BY <1>9, <2>1, <2>4 DEF ReadLink, ReadUnlink, Goto, TypeOK, UserRow
    <2>3. subject[p] \in Users \ overlapped => Relies(p)'
      BY <2>1, <2>2 DEF Relies, Founds, Row, Serial
    <2> QED
      BY <2>1, <2>2, <2>3, OwnUserOnly
  <1> QED
    BY <1>2, <1>3, <1>4, <1>5, <1>6, <1>7, <1>8, <1>9 DEF Founding

LEMMA SerialAdminister ==
    ASSUME TypeOK, Serial, Administer
    PROVE  Serial'
  <1>1. ASSUME UNCHANGED <<users, members, overlapped, worker>> PROVE Serial'
    BY <1>1 DEF Serial, RowTrue, Relies, Founds, Row, worker
  <1>2. ASSUME NEW u \in Users, DeleteUser(u), users' # users PROVE Serial'
    <2>1. /\ UNCHANGED <<members, overlapped, step, purpose, subject, org, entity, dirty>>
          /\ ~users'[u].exists /\ users'[u].org = None /\ users'[u] = NoRow
          /\ \A o \in Orgs : <<u, o>> \notin members
          /\ \A v \in Users \ {u} : users'[v] = users[v]
      <3>1. /\ users' = [users EXCEPT ![u] = NoRow] /\ \A o \in Orgs : <<u, o>> \notin members
            /\ UNCHANGED <<members, worker, history>>
        BY <1>2 DEF DeleteUser
      <3> QED
        BY <3>1 DEF worker, history, TypeOK, NoRow
    <2>2. ASSUME NEW v \in Users PROVE RowTrue(v)'
      BY <2>1 DEF Serial, RowTrue
    <2>3. ASSUME NEW q \in Workers, subject[q] \in Users \ overlapped PROVE Relies(q)'
      BY <2>1, <2>3 DEF Serial, Relies, Founds, Row
    <2> QED
      BY <2>1, <2>2, <2>3 DEF Serial
  <1>5. ASSUME NEW u \in Users, DeleteUser(u), users' = users PROVE Serial'
    BY <1>1, <1>5 DEF DeleteUser, history
  <1>6. ASSUME NEW u \in Users, NEW o \in Orgs, NEW b \in BOOLEAN, CreateUser(u, o, b) PROVE Serial'
    <2>1. /\ UNCHANGED <<members, step, purpose, subject, org, entity, dirty>>
          /\ overlapped' = IF Busy(u) THEN overlapped \cup {u} ELSE overlapped
          /\ users'[u].exists /\ ~users[u].exists
          /\ \A v \in Users \ {u} : users'[v] = users[v]
      BY <1>6 DEF CreateUser, Overlap, worker, TypeOK
    <2>2. ASSUME NEW v \in Users PROVE RowTrue(v)'
      <3>1. v = u /\ u \notin overlapped => \A q \in Orgs : <<u, q>> \notin members
        BY <2>1, NoRowNoOrg, NoneAssumption DEF Serial, RowTrue
      <3> QED
        BY <2>1, <3>1 DEF Serial, RowTrue
    <2>3. ASSUME NEW q \in Workers, subject[q] \in Users \ overlapped' PROVE Relies(q)'
      BY <2>1, <2>3 DEF Serial, Relies, Founds, Row, Busy
    <2> QED
      BY <2>1, <2>2, <2>3 DEF Serial
  <1>3. ASSUME NEW u \in Users, RevokeInvitation(u) \/ (\E o \in Orgs : InviteUser(u, o))
        PROVE  Serial'
    BY <1>1, <1>3 DEF RevokeInvitation, InviteUser, history
  <1>4. ASSUME NEW o \in Orgs, DeleteOrganization(o) \/ (\E n \in Names : CreateOrganization(o, n))
        PROVE  Serial'
    BY <1>1, <1>4 DEF DeleteOrganization, CreateOrganization, history
  <1> QED
    BY <1>2, <1>3, <1>4, <1>5, <1>6 DEF Administer

LEMMA SerialOrgRow ==
    ASSUME TypeOK, Serial, NEW p \in Workers, Rename(p) \/ DiffOrg(p) \/ SaveOrg(p) \/ Crash(p)
    PROVE  Serial'
  <1>1. CASE Rename(p)
    <2>1. /\ UNCHANGED <<users, members, purpose, subject, entity, dirty>>
          /\ overlapped \subseteq overlapped'
          /\ step' = [step EXCEPT ![p] = "diffOrg"]
          /\ \A q \in Workers \ {p} : org'[q] = org[q]
      BY <1>1 DEF Rename, UpdateOrganization, Goto, tables, TypeOK
    <2>2. ASSUME NEW q \in Workers, subject[q] \in Users \ overlapped' PROVE Relies(q)'
      <3>1. CASE q = p
        BY <2>1, <3>1 DEF Relies, Founds, TypeOK
      <3>2. CASE q # p
        <4>1. Relies(q) /\ step'[q] = step[q] /\ org'[q] = org[q]
          BY <2>1, <2>2, <3>2 DEF Serial, TypeOK
        <4> QED
          BY <2>1, <4>1 DEF Relies, Founds, Row
      <3> QED
        BY <3>1, <3>2
    <2>3. \A v \in Users : RowTrue(v)'
      BY <2>1 DEF Serial, RowTrue
    <2> QED
      BY <2>1, <2>2, <2>3 DEF Serial, TypeOK
  <1>2. CASE DiffOrg(p)
    <2>1. /\ UNCHANGED <<users, members, overlapped, purpose, subject, org, entity>>
          /\ step' = [step EXCEPT ![p] = "saveOrg"]
          /\ \A q \in Workers \ {p} : dirty'[q] = dirty[q]
      BY <1>2 DEF DiffOrg, Goto, tables, history, TypeOK
    <2>2. Relies(p)'
      BY <2>1 DEF Relies, Founds, TypeOK
    <2> QED
      BY <2>1, <2>2, OwnUserOnly DEF TypeOK
  <1>3. CASE SaveOrg(p) \/ Crash(p)
    BY <1>3, SerialReturn DEF SaveOrg, Crash, tables, history
  <1> QED
    BY <1>1, <1>2, <1>3

LEMMA SerialStep == TypeOK /\ Serial /\ [Next]_vars => Serial'
  <1> SUFFICES ASSUME TypeOK, Serial, [Next]_vars PROVE Serial'
    OBVIOUS
  <1>1. CASE UNCHANGED vars
    BY <1>1 DEF vars, tables, worker, history, Serial, RowTrue, Relies, Founds, Row
  <1>2. ASSUME NEW p \in Workers, Work(p) PROVE Serial'
    BY <1>2, SerialSave, SerialSignIn, SerialApply, SerialFounding, SerialOrgRow DEF Work, SignIn
  <1> QED
    BY <1>1, <1>2, SerialRequest, SerialOrgRow, SerialAdminister DEF Next

LEMMA SerialInit == Init => Serial
  BY NoneAssumption DEF Init, Serial, RowTrue, Relies, NoRow

\* A user whose requests do not overlap belongs to one organization at most,
\* whatever dies or fails in between.
THEOREM OneOrganizationEach == Spec => []OneOrganization
  <1>1. TypeOK /\ Serial => OneOrganization
    <2> SUFFICES ASSUME TypeOK, Serial, NEW u \in Users \ overlapped
                 PROVE  Cardinality({o \in Orgs : <<u, o>> \in members}) <= 1
      BY DEF OneOrganization
    <2>1. {o \in Orgs : <<u, o>> \in members} \subseteq {users[u].org}
      BY DEF Serial, RowTrue
    <2>2. IsFiniteSet({users[u].org}) /\ Cardinality({users[u].org}) = 1
      BY FS_Singleton
    <2>3. Cardinality({o \in Orgs : <<u, o>> \in members}) <= Cardinality({users[u].org})
      BY <2>1, <2>2, FS_Subset
    <2> QED
      BY <2>2, <2>3
  <1> QED
    BY <1>1, TypeInit, TypeStep, SerialInit, SerialStep, PTL DEF Spec
-----------------------------------------------------------------------------
(* Onboarding whole.  While a founding is under way its organization and   *)
(* its user's link to it have no membership yet; what keeps them from      *)
(* being left over is the handler that made them (Linked, Pending), which  *)
(* either makes the membership or takes back both.                         *)

\* A handler that may have linked its user to the organization it created.
Linked(p) ==
    \/ step[p] \in {"join", "readUnlink", "deleteOrg"}
    \/ step[p] \in {"diff", "save"} /\ purpose[p] = "unlink"

\* A handler that has created its organization, and has yet to finish or delete it.
Pending(p) ==
    \/ step[p] \in {"roles", "readLink"} \/ Linked(p)
    \/ step[p] \in {"diff", "save"} /\ purpose[p] = "link"

\* What it saves is the organization of a membership, the one its row was created
\* with, or none.
Holds(p) ==
    LET u == subject[p] IN
    step[p] \in {"diff", "save"} =>
        /\ purpose[p] \notin {"link", "unlink"} /\ entity[p].org # None =>
              <<u, entity[p].org>> \in members \cup placed
        /\ purpose[p] = "unlink" => entity[p].org = None
        /\ purpose[p] = "unlink" /\ step[p] = "save" /\ "org" \notin dirty[p] =>
              users[u].org = None

Whole(u) ==
    /\ users[u].org # None =>
          \/ <<u, users[u].org>> \in members \cup placed
          \/ \E p \in Workers : subject[p] = u /\ Linked(p) /\ org[p] = users[u].org
    /\ \A o \in Orgs : Live(o) /\ founder[o] = u =>
          \/ <<u, o>> \in members
          \/ \E p \in Workers : subject[p] = u /\ Pending(p) /\ org[p] = o
    /\ \A p \in Workers : subject[p] = u => Holds(p)

Careful == Users \ (overlapped \cup died)

\* An organization that is being renamed is not one its founder may take back.
Records ==
    /\ \A o \in Orgs : Live(o) \/ founder[o] # None => o \in founded
    /\ \A p \in Workers : step[p] \in {"diffOrg", "saveOrg"} =>
          /\ org[p] \in founded
          /\ founder[org[p]] \in Careful => <<founder[org[p]], org[p]>> \in members

Wholly == Records /\ \A u \in Careful : Whole(u)

\* One handler moves; what it does to a user v that is still careful.
Others(p) ==
    \A q \in Workers \ {p} :
       UNCHANGED <<step[q], purpose[q], subject[q], org[q], entity[q], dirty[q]>>

Grows ==
    /\ members \subseteq members' /\ placed \subseteq placed'
    /\ overlapped \subseteq overlapped' /\ died \subseteq died'

\* v gets no organization of its own, but for one that it is a member of.
NoNewOrg(v) ==
    \A o \in Orgs : orgs'[o] # None /\ founder'[o] = v =>
       (Live(o) /\ founder[o] = v) \/ <<v, o>> \in members'

LEMMA Bystander ==
    ASSUME TypeOK, Wholly, NEW p \in Workers, NEW v \in Careful', Others(p), Grows,
           users'[v] = users[v], NoNewOrg(v),
           subject[p] # v \/ ~Pending(p),
           subject'[p] = v => Holds(p)'
    PROVE  Whole(v)'
  <1>1. v \in Careful /\ Whole(v)
    BY DEF Wholly, Careful, Grows
  <1>2. ASSUME NEW q \in Workers \ {p}, subject'[q] = v PROVE Holds(q)'
    BY <1>1, <1>2 DEF Whole, Holds, Others, Grows
  <1>3. ASSUME NEW q \in Workers, subject[q] = v, Pending(q)
        PROVE  /\ subject'[q] = v /\ Pending(q)' /\ org'[q] = org[q]
               /\ Linked(q) => Linked(q)'
    BY <1>3 DEF Pending, Linked, Others
  <1>4. users'[v].org # None =>
          \/ <<v, users'[v].org>> \in members' \cup placed'
          \/ \E q \in Workers : subject'[q] = v /\ Linked(q)' /\ org'[q] = users'[v].org
    BY <1>1, <1>3 DEF Whole, Grows, Pending
  <1>5. ASSUME NEW o \in Orgs, orgs'[o] # None, founder'[o] = v
        PROVE  \/ <<v, o>> \in members'
               \/ \E q \in Workers : subject'[q] = v /\ Pending(q)' /\ org'[q] = o
    BY <1>1, <1>3, <1>5 DEF Whole, Grows, NoNewOrg
  <1> QED
    BY <1>2, <1>4, <1>5 DEF Whole, Live

LEMMA OwnUser ==
    ASSUME TypeOK, Serial, Wholly, NEW p \in Workers, NEW v \in Careful', Others(p), Grows,
           subject[p] = v, subject'[p] = v \/ subject'[p] = None,
           \/ users'[v].org = None
           \/ <<v, users'[v].org>> \in members' \cup placed'
           \/ subject'[p] = v /\ Linked(p)' /\ org'[p] = users'[v].org
           \/ /\ users'[v].org = users[v].org
              /\ Linked(p) => subject'[p] = v /\ Linked(p)' /\ org'[p] = org[p],
           \A o \in Orgs : orgs'[o] # None /\ founder'[o] = v =>
             \/ <<v, o>> \in members'
             \/ subject'[p] = v /\ Pending(p)' /\ org'[p] = o
             \/ /\ Live(o) /\ founder[o] = v
                /\ Pending(p) /\ org[p] = o =>
                      subject'[p] = v /\ Pending(p)' /\ org'[p] = org[p],
           subject'[p] = v => Holds(p)'
    PROVE  Whole(v)'
  <1>1. v \in Careful /\ Whole(v) /\ v \in Users
    BY DEF Wholly, Careful, Grows
  <1>2. \A q \in Workers \ {p} : subject[q] # v /\ subject'[q] # v
    BY <1>1 DEF Careful, Serial, Others
  <1>3. \A q \in Workers : subject'[q] = v => Holds(q)'
    BY <1>2
  <1>4. users[v].org # None =>
          \/ <<v, users[v].org>> \in members' \cup placed'
          \/ Linked(p) /\ org[p] = users[v].org
    BY <1>1, <1>2 DEF Whole, Grows
  <1>5. users'[v].org # None =>
          \/ <<v, users'[v].org>> \in members' \cup placed'
          \/ \E q \in Workers : subject'[q] = v /\ Linked(q)' /\ org'[q] = users'[v].org
    BY <1>4
  <1>6. ASSUME NEW o \in Orgs, orgs'[o] # None, founder'[o] = v
        PROVE  \/ <<v, o>> \in members'
               \/ \E q \in Workers : subject'[q] = v /\ Pending(q)' /\ org'[q] = o
    <2>1. Live(o) /\ founder[o] = v => <<v, o>> \in members' \/ (Pending(p) /\ org[p] = o)
      BY <1>1, <1>2 DEF Whole, Grows
    <2> QED
      BY <1>6, <2>1
  <1> QED
    BY <1>3, <1>5, <1>6 DEF Whole, Live

\* A step that renames nothing leaves the record of organizations as it is.
LEMMA RecordsKept ==
    ASSUME TypeOK, Wholly, NEW p \in Workers, Others(p), Grows,
           founded \subseteq founded',
           \A o \in founded : founder'[o] = founder[o],
           \A o \in Orgs : orgs'[o] # None \/ founder'[o] # None => o \in founded',
           step'[p] \notin {"diffOrg", "saveOrg"}
    PROVE  Records'
  <1>1. ASSUME NEW q \in Workers, step'[q] \in {"diffOrg", "saveOrg"}
        PROVE  /\ org'[q] \in founded'
               /\ founder'[org'[q]] \in Careful' =>
                     <<founder'[org'[q]], org'[q]>> \in members'
    <2>1. step[q] = step'[q] /\ org'[q] = org[q]
      BY <1>1 DEF Others
    <2>2. org[q] \in founded /\ (founder[org[q]] \in Careful => <<founder[org[q]], org[q]>> \in members)
      BY <1>1, <2>1 DEF Wholly, Records
    <2> QED
      BY <2>1, <2>2 DEF Careful, Grows
  <1> QED
    BY <1>1 DEF Records, Live

LEMMA WholeReturn ==
    ASSUME TypeOK, Wholly, NEW p \in Workers, Return(p), Grows,
           UNCHANGED <<users, orgs, founder, founded>>,
           Pending(p) => subject[p] \in died'
    PROVE  Wholly'
  <1>1. Others(p) /\ step'[p] = "idle" /\ subject'[p] = None
    BY DEF Return, Others, TypeOK
  <1>2. Records'
    BY <1>1, RecordsKept DEF Wholly, Records, Live
  <1>3. ASSUME NEW v \in Careful' PROVE Whole(v)'
    BY <1>1, <1>3, Bystander, NoneAssumption DEF NoNewOrg, Live, Careful
  <1> QED
    BY <1>2, <1>3 DEF Wholly

\* A handler goes on, and keeps what it has to take back.
LEMMA WholeMove ==
    ASSUME TypeOK, Serial, Wholly, NEW p \in Workers, Others(p),
           UNCHANGED <<users, members, placed, orgs, founder, founded, overlapped, died, subject>>,
           step'[p] \notin {"diffOrg", "saveOrg"},
           Pending(p) => Pending(p)' /\ org'[p] = org[p], Linked(p) => Linked(p)',
           subject[p] \in Careful => Holds(p)'
    PROVE  Wholly'
  <1>1. Grows /\ Careful' = Careful
    BY DEF Grows, Careful
  <1>2. Records'
    BY <1>1, RecordsKept DEF Wholly, Records, Live
  <1>3. ASSUME NEW v \in Careful, subject[p] # v PROVE Whole(v)'
    BY <1>1, <1>3, Bystander DEF NoNewOrg, Live
  <1>4. ASSUME NEW v \in Careful, subject[p] = v PROVE Whole(v)'
    BY <1>1, <1>4, OwnUser DEF Live, Pending
  <1> QED
    BY <1>1, <1>2, <1>3, <1>4 DEF Wholly

LEMMA WholeSave ==
    ASSUME TypeOK, Serial, Wholly, NEW p \in Workers, DiffUser(p) \/ SaveFails(p)
    PROVE  Wholly'
  <1>1. subject[p] \in Users
    BY DEF DiffUser, SaveFails, TypeOK
  <1>2. CASE DiffUser(p)
    <2>1. /\ Others(p) /\ step'[p] = "save" /\ step[p] = "diff"
          /\ UNCHANGED <<users, members, placed, orgs, founder, founded, overlapped, died, subject>>
          /\ UNCHANGED <<org, purpose, entity>>
          /\ dirty'[p] = {c \in Columns : entity[p][c] # Row(p)[c]}
      BY <1>2 DEF DiffUser, Goto, Others, tables, history, TypeOK
    <2>2. "org" \notin dirty'[p] => entity[p].org = Row(p).org
      BY <2>1 DEF Columns
    <2>3. ASSUME subject[p] \in Careful PROVE Holds(p)'
      <3>1. Holds(p) /\ Row(p) = users[subject[p]]
        BY <1>1, <2>1, <2>3, NoneAssumption DEF Wholly, Whole, Serial, Relies, Careful
      <3> QED
        BY <2>1, <2>2, <3>1 DEF Holds, Pending, Linked
    <2> QED
      BY <2>1, <2>3, WholeMove DEF Pending, Linked
  <1>3. CASE SaveFails(p) /\ purpose[p] = "link"
    <2>1. /\ Others(p) /\ step'[p] = "deleteOrg"
          /\ UNCHANGED <<users, members, placed, orgs, founder, founded, overlapped, died, subject, org>>
      BY <1>3 DEF SaveFails, Goto, Others, tables, TypeOK
    <2> QED
      BY <2>1, WholeMove DEF Pending, Linked, Holds
  <1>4. CASE SaveFails(p) /\ purpose[p] # "link"
    BY <1>4, WholeReturn DEF SaveFails, Grows, tables
  <1> QED
    BY <1>2, <1>3, <1>4

\* A handler with no organization of its own that reads its user's row reads the
\* organization of a membership, or the one the row was created with.
LEMMA RowIsMembership ==
    ASSUME TypeOK, Serial, Wholly, NEW p \in Workers, subject[p] \in Careful, ~Linked(p),
           users[subject[p]].org # None
    PROVE  <<subject[p], users[subject[p]].org>> \in members \cup placed
  BY DEF Wholly, Whole, Careful, Serial

LEMMA WholeSignIn ==
    ASSUME TypeOK, Serial, Wholly, NEW p \in Workers, FindUser(p) \/ EmailTaken(p) \/ ReadInvite(p) \/ ReadActive(p)
    PROVE  Wholly'
  <1>1. subject[p] \in Users /\ ~Pending(p)
    BY DEF FindUser, EmailTaken, ReadInvite, ReadActive, TypeOK, Pending, Linked
  <1>2. CASE Return(p)
    BY <1>1, <1>2, WholeReturn DEF FindUser, EmailTaken, ReadInvite, ReadActive, Return, Goto, Grows, tables, history
  <1>3. CASE ReadInvite(p) /\ ~Return(p)
    <2>1. /\ Others(p) /\ step'[p] \in {"read", "apply"}
          /\ UNCHANGED <<users, members, placed, orgs, founder, founded, overlapped, died, subject>>
      BY <1>3 DEF ReadInvite, Goto, Others, tables, history, TypeOK
    <2> QED
      BY <1>1, <2>1, WholeMove DEF Pending, Holds
  <1>4. CASE (FindUser(p) \/ ReadActive(p)) /\ ~Return(p)
    <2>1. /\ Others(p) /\ step'[p] \in {"diff", "save"}
          /\ UNCHANGED <<users, members, placed, orgs, founder, founded, overlapped, died, subject>>
          /\ purpose'[p] \notin {"link", "unlink"}
          /\ entity'[p].org = users[subject[p]].org
      <3>1. CASE FindUser(p)
        BY <1>1, <3>1 DEF FindUser, Goto, Others, tables, history, TypeOK, UserRow
      <3>2. CASE ReadActive(p) /\ ~Return(p)
        BY <1>1, <3>2 DEF ReadActive, Goto, Others, tables, history, TypeOK, UserRow
      <3> QED
        BY <1>4, <3>1, <3>2
    <2>2. subject[p] \in Careful => Holds(p)'
      BY <1>1, <2>1, RowIsMembership DEF Pending, Holds
    <2> QED
      BY <1>1, <2>1, <2>2, WholeMove DEF Pending
  <1> QED
    BY <1>2, <1>3, <1>4 DEF EmailTaken

\* An invitation is applied to a user who has no organization: both at once.
LEMMA WholeApply ==
    ASSUME TypeOK, Serial, Wholly, NEW p \in Workers, ApplyInvite(p)
    PROVE  Wholly'
  <1>1. PICK u \in Users : u = subject[p]
    BY DEF ApplyInvite, TypeOK
  <1>2. /\ Others(p) /\ ~Pending(p) /\ org[p] \in Orgs
        /\ UNCHANGED <<orgs, placed, founder, founded, overlapped, died>>
        /\ members \subseteq members'
        /\ \/ step'[p] = "read" /\ subject'[p] = u
           \/ step'[p] = "idle" /\ subject'[p] = None
    BY <1>1 DEF ApplyInvite, Goto, Return, Others, history, TypeOK, Pending, Linked
  <1>3. Grows /\ Careful' = Careful
    BY <1>2 DEF Grows, Careful
  <1>4. Records'
    BY <1>2, <1>3, RecordsKept DEF Wholly, Records, Live
  <1>5. \A v \in Users \ {u} : users'[v] = users[v]
    BY <1>1 DEF ApplyInvite, TypeOK
  <1>6. \/ users'[u].org = users[u].org
        \/ <<u, users'[u].org>> \in members'
    BY <1>1, <1>2 DEF ApplyInvite, TypeOK, UserRow
  <1>7. ASSUME NEW v \in Careful, v # u PROVE Whole(v)'
    BY <1>1, <1>2, <1>3, <1>5, <1>7, Bystander, NoneAssumption DEF NoNewOrg, Live, Careful
  <1>8. ASSUME NEW v \in Careful, v = u PROVE Whole(v)'
    <2>1. subject'[p] = v => Holds(p)'
      BY <1>2 DEF Holds
    <2> QED
      BY <1>1, <1>2, <1>3, <1>6, <1>8, <2>1, OwnUser DEF Live, Pending
  <1> QED
    BY <1>3, <1>4, <1>7, <1>8 DEF Wholly

\* A save writes a membership's organization, a link that is to be made good, or none.
LEMMA WholeSaveUser ==
    ASSUME TypeOK, Serial, Wholly, NEW p \in Workers, SaveUser(p)
    PROVE  Wholly'
  <1>1. PICK u \in Users : u = subject[p]
    BY DEF SaveUser, TypeOK
  <1>2. /\ Others(p) /\ step[p] = "save"
        /\ UNCHANGED <<members, placed, orgs, founder, founded, overlapped, died>>
        /\ \/ step'[p] = AfterSave(p) /\ AfterSave(p) # "idle"
                 /\ subject'[p] = u /\ org'[p] = org[p]
           \/ step'[p] = "idle" /\ AfterSave(p) = "idle" /\ subject'[p] = None
    BY <1>1 DEF SaveUser, Goto, Return, Others, history, TypeOK
  <1>3. Grows /\ Careful' = Careful
    BY <1>2 DEF Grows, Careful
  <1>4. step'[p] \in {"idle", "invite", "read", "join", "deleteOrg"}
    BY <1>2 DEF AfterSave
  <1>5. Records'
    BY <1>2, <1>3, <1>4, RecordsKept DEF Wholly, Records, Live
  <1>6. \A v \in Users \ {u} : users'[v] = users[v]
    BY <1>1 DEF SaveUser, TypeOK
  <1>7. entity[p] \in UserRow
    BY DEF TypeOK
  <1>8. \/ users' = users /\ ~Row(p).exists
        \/ users'[u].org = IF "org" \in dirty[p] THEN entity[p].org ELSE users[u].org
    BY <1>1, <1>7, RowSaved DEF SaveUser, TypeOK
  <1>9. ~users[u].exists => users[u].org = None
    BY NoRowNoOrg DEF Serial
  <1>10. ASSUME NEW v \in Careful, v # u PROVE Whole(v)'
    BY <1>1, <1>2, <1>3, <1>4, <1>6, <1>10, Bystander DEF NoNewOrg, Live, Careful, Holds
  <1>11. ASSUME u \in Careful PROVE Whole(u)'
    <2>1. Holds(p)' /\ Holds(p) /\ Relies(p)
      BY <1>1, <1>4, <1>11 DEF Wholly, Whole, Serial, Careful, Holds
    <2>2. CASE purpose[p] = "link"
      <3>1. step'[p] = "join" /\ subject'[p] = u /\ org'[p] = org[p] /\ ~Linked(p)
        BY <1>2, <2>2 DEF AfterSave, Linked
      <3>2. users'[u].org \in {None, org[p], users[u].org}
        BY <1>1, <1>2, <1>8, <1>9, <2>1, <2>2 DEF Relies
      <3> QED
        BY <1>1, <1>2, <1>3, <1>11, <2>1, <3>1, <3>2, OwnUser DEF Live, Pending, Linked
    <2>3. CASE purpose[p] = "unlink"
      <3>1. step'[p] = "deleteOrg" /\ subject'[p] = u /\ org'[p] = org[p]
        BY <1>2, <2>3 DEF AfterSave
      <3>2. users'[u].org = None
        BY <1>1, <1>2, <1>8, <1>9, <2>1, <2>3 DEF Holds, Relies
      <3> QED
        BY <1>1, <1>2, <1>3, <1>11, <2>1, <3>1, <3>2, OwnUser DEF Live, Pending, Linked
    <2>4. CASE purpose[p] \notin {"link", "unlink"}
      <3>1. ~Pending(p) /\ ~Linked(p)
        BY <1>2, <2>4 DEF Pending, Linked
      <3>2. \/ users'[u].org \in {None, users[u].org}
            \/ <<u, users'[u].org>> \in members \cup placed
        BY <1>1, <1>2, <1>8, <1>9, <2>1, <2>4 DEF Holds
      <3> QED
        BY <1>1, <1>2, <1>3, <1>11, <2>1, <3>1, <3>2, OwnUser DEF Live
    <2> QED
      BY <2>2, <2>3, <2>4
  <1> QED
    BY <1>3, <1>5, <1>10, <1>11 DEF Wholly

LEMMA WholeCreateOrg ==
    ASSUME TypeOK, Serial, Wholly, NEW p \in Workers, CreateOrg(p)
    PROVE  Wholly'
  <1>1. PICK u \in Users : u = subject[p]
    BY DEF CreateOrg, TypeOK
  <1>2. PICK o \in Orgs \ founded : /\ orgs' = [orgs EXCEPT ![o] = name[p]]
                                    /\ founded' = founded \cup {o}
                                    /\ founder' = [founder EXCEPT ![o] = u]
                                    /\ org' = [org EXCEPT ![p] = o]
    BY <1>1 DEF CreateOrg
  <1>3. /\ Others(p) /\ step[p] = "createOrg" /\ step'[p] = "roles"
        /\ UNCHANGED <<users, members, placed, overlapped, died, subject>>
    BY <1>2 DEF CreateOrg, Goto, Others, TypeOK
  <1>4. Grows /\ Careful' = Careful
    BY <1>3 DEF Grows, Careful
  <1>5. \A q \in Orgs \ {o} : orgs'[q] = orgs[q] /\ founder'[q] = founder[q]
    BY <1>2 DEF TypeOK
  <1>6. orgs'[o] # None => founder'[o] = u
    BY <1>2 DEF TypeOK
  <1>7. Records'
    <2>1. \A q \in Orgs : orgs'[q] # None \/ founder'[q] # None => q \in founded'
      BY <1>2, <1>5 DEF Wholly, Records, Live
    <2>2. \A q \in founded : founder'[q] = founder[q]
      BY <1>2, <1>5 DEF TypeOK
    <2> QED
      BY <1>2, <1>3, <1>4, <2>1, <2>2, RecordsKept
  <1>8. ASSUME NEW v \in Careful, v # u PROVE Whole(v)'
    <2>1. NoNewOrg(v)
      BY <1>2, <1>5, <1>6, <1>8 DEF NoNewOrg, Live, TypeOK
    <2> QED
      BY <1>1, <1>3, <1>4, <1>8, <2>1, Bystander
  <1>9. ASSUME NEW v \in Careful, v = u PROVE Whole(v)'
    <2>1. ~Pending(p) /\ ~Linked(p) /\ Pending(p)' /\ Holds(p)' /\ org'[p] = o
      BY <1>2, <1>3 DEF Pending, Linked, Holds, TypeOK
    <2>2. \A q \in Orgs : orgs'[q] # None /\ founder'[q] = v =>
            q = o \/ (Live(q) /\ founder[q] = v)
      BY <1>5 DEF Live
    <2> QED
      BY <1>1, <1>3, <1>4, <1>9, <2>1, <2>2, OwnUser
  <1> QED
    BY <1>4, <1>7, <1>8, <1>9 DEF Wholly

LEMMA WholeJoin ==
    ASSUME TypeOK, Serial, Wholly, NEW p \in Workers, CreateMembership(p)
    PROVE  Wholly'
  <1>1. PICK u \in Users : u = subject[p]
    BY DEF CreateMembership, TypeOK
  <1>2. /\ Others(p) /\ step[p] = "join" /\ step'[p] = "answer"
        /\ UNCHANGED <<users, placed, orgs, founder, founded, overlapped, died, subject>>
        /\ members' = members \cup {<<u, org[p]>>}
    BY <1>1 DEF CreateMembership, Goto, Others, history, TypeOK
  <1>3. Grows /\ Careful' = Careful
    BY <1>2 DEF Grows, Careful
  <1>4. Records'
    BY <1>2, <1>3, RecordsKept DEF Wholly, Records, Live
  <1>5. ASSUME NEW v \in Careful, v # u PROVE Whole(v)'
    BY <1>1, <1>2, <1>3, <1>5, Bystander DEF NoNewOrg, Live
  <1>6. ASSUME NEW v \in Careful, v = u PROVE Whole(v)'
    <2>1. users[u].exists /\ users[u].org = org[p]
      BY <1>1, <1>2, <1>6, RowFound DEF CreateMembership, Serial, Careful, Relies
    <2>2. Holds(p)'
      BY <1>2 DEF Holds
    <2> QED
      BY <1>1, <1>2, <1>3, <1>6, <2>1, <2>2, OwnUser DEF Live
  <1> QED
    BY <1>3, <1>4, <1>5, <1>6 DEF Wholly

\* The organization is taken back, or somebody refers to it and the user is
\* counted among those whose compensation failed.
LEMMA WholeDeleteOrg ==
    ASSUME TypeOK, Serial, Wholly, NEW p \in Workers, DeleteOrg(p)
    PROVE  Wholly'
  <1>1. PICK u \in Users : u = subject[p]
    BY DEF DeleteOrg, TypeOK
  <1>2. CASE Referenced(org[p])
    BY <1>1, <1>2, WholeReturn DEF DeleteOrg, Grows
  <1>3. CASE ~Referenced(org[p])
    <2>1. /\ Others(p) /\ step[p] = "deleteOrg" /\ step'[p] = "idle" /\ subject'[p] = None
          /\ UNCHANGED <<users, members, placed, founder, founded, overlapped, died>>
          /\ orgs' = [orgs EXCEPT ![org[p]] = None] /\ org[p] \in Orgs
      BY <1>1, <1>3 DEF DeleteOrg, Return, Others, TypeOK
    <2>2. Grows /\ Careful' = Careful
      BY <2>1 DEF Grows, Careful
    <2>3. orgs'[org[p]] = None /\ \A o \in Orgs \ {org[p]} : orgs'[o] = orgs[o]
      BY <2>1 DEF TypeOK
    <2>4. Records'
      BY <2>1, <2>2, <2>3, RecordsKept DEF Wholly, Records, Live
    <2>5. ASSUME NEW v \in Careful, v # u PROVE Whole(v)'
      BY <1>1, <2>1, <2>2, <2>3, <2>5, Bystander, NoneAssumption DEF NoNewOrg, Live, Careful
    <2>6. ASSUME NEW v \in Careful, v = u PROVE Whole(v)'
      <3>1. users[v].org # org[p]
        BY <1>3, <2>6 DEF Referenced, Careful
      <3>2. users[v].org = None \/ <<v, users[v].org>> \in members \cup placed
        BY <1>1, <2>6, <3>1 DEF Wholly, Whole, Serial, Careful
      <3> QED
        BY <1>1, <2>1, <2>2, <2>3, <2>6, <3>2, OwnUser, NoneAssumption DEF Live, Careful
    <2> QED
      BY <2>2, <2>4, <2>5, <2>6 DEF Wholly
  <1> QED
    BY <1>2, <1>3

LEMMA WholeFounding ==
    ASSUME TypeOK, Serial, Wholly, NEW p \in Workers, Founding(p)
    PROVE  Wholly'
  <1>1. CASE CreateRefused(p) \/ Answer(p) \/ (Confirm(p) /\ Return(p))
    <2>1. ~Pending(p) /\ Return(p)
      BY <1>1 DEF CreateRefused, Answer, Confirm, Pending, Linked
    <2> QED
      BY <1>1, <2>1, WholeReturn DEF CreateRefused, Answer, Confirm, tables, history, Grows
  <1>2. CASE ReadUser(p) \/ (Confirm(p) /\ ~Return(p))
    <2>1. /\ Others(p) /\ ~Pending(p) /\ ~Linked(p)
          /\ step'[p] \in {"confirm", "createOrg", "answer"}
          /\ UNCHANGED <<users, members, placed, orgs, founder, founded, overlapped, died, subject>>
      BY <1>2 DEF ReadUser, Confirm, Goto, Others, tables, history, TypeOK, Pending, Linked
    <2> QED
      BY <2>1, WholeMove DEF Holds
  <1>3. CASE ResolveRole(p) \/ Fault(p)
    <2>1. /\ Others(p) /\ step'[p] \in {"readLink", "readUnlink", "deleteOrg"}
          /\ Linked(p) => step'[p] \in {"readUnlink", "deleteOrg"}
          /\ UNCHANGED <<users, members, placed, orgs, founder, founded, overlapped, died, subject, org>>
      BY <1>3 DEF ResolveRole, Fault, Goto, Others, tables, history, TypeOK, Linked
    <2> QED
      BY <2>1, WholeMove DEF Holds, Pending, Linked
  <1>4. CASE ReadLink(p)
    <2>1. /\ Others(p) /\ step[p] = "readLink" /\ step'[p] \in {"diff", "deleteOrg"}
          /\ purpose'[p] = "link"
          /\ UNCHANGED <<users, members, placed, orgs, founder, founded, overlapped, died, subject, org>>
      BY <1>4 DEF ReadLink, Goto, Others, tables, history, TypeOK
    <2> QED
      BY <2>1, WholeMove DEF Holds, Pending, Linked
  <1>5. CASE ReadUnlink(p)
    <2>1. /\ Others(p) /\ step[p] = "readUnlink" /\ step'[p] \in {"diff", "deleteOrg"}
          /\ purpose'[p] = "unlink" /\ entity'[p].org = None
          /\ UNCHANGED <<users, members, placed, orgs, founder, founded, overlapped, died, subject, org>>
      BY <1>5 DEF ReadUnlink, Goto, Others, tables, history, TypeOK, UserRow
    <2> QED
      BY <2>1, WholeMove DEF Holds, Pending, Linked
  <1> QED
    BY <1>1, <1>2, <1>3, <1>4, <1>5, WholeCreateOrg, WholeJoin, WholeDeleteOrg DEF Founding

LEMMA WholeRequest ==
    ASSUME TypeOK, Wholly, NEW p \in Workers, NEW u \in Users, Request(p, u)
    PROVE  Wholly'
  <1>1. ASSUME NEW h, NEW n, NEW o, NEW e, NEW first \in {"find", "read", "readActive"},
               Start(p, h, u, n, o, e, first)
        PROVE  Wholly'
    <2>1. /\ Others(p) /\ Grows /\ step[p] = "idle" /\ step'[p] = first
          /\ UNCHANGED <<users, members, orgs, founder, founded>>
      BY <1>1 DEF Start, Overlap, Others, Grows, tables, TypeOK
    <2>2. ~Pending(p) /\ Holds(p)'
      BY <2>1 DEF Pending, Linked, Holds
    <2>3. Records'
      BY <2>1, RecordsKept DEF Wholly, Records, Live
    <2>4. ASSUME NEW v \in Careful' PROVE Whole(v)'
      BY <2>1, <2>2, <2>4, Bystander DEF NoNewOrg, Live, Careful
    <2> QED
      BY <2>3, <2>4 DEF Wholly
  <1> QED
    BY <1>1 DEF Request, Sync, Register, Onboard, SetActive

LEMMA WholeOrgRow ==
    ASSUME TypeOK, Wholly, NEW p \in Workers, Rename(p) \/ DiffOrg(p) \/ SaveOrg(p)
    PROVE  Wholly'
  <1>1. ASSUME Others(p), Grows, ~Pending(p), step'[p] \notin {"diff", "save"},
               UNCHANGED <<users, members, founder>>, \A v \in Careful' : NoNewOrg(v),
               Records'
        PROVE  Wholly'
    <2>1. ASSUME NEW v \in Careful' PROVE Whole(v)'
      BY <1>1, <2>1, Bystander DEF Holds, Careful
    <2> QED
      BY <1>1, <2>1 DEF Wholly
  <1>2. CASE Rename(p)
    <2>1. PICK o \in Orgs, n \in Names : UpdateOrganization(p, o, n)
      BY <1>2 DEF Rename
    <2>2. /\ Others(p) /\ Grows /\ step[p] = "idle" /\ step'[p] = "diffOrg" /\ org'[p] = o
          /\ UNCHANGED <<users, members, orgs, founder, founded>> /\ Live(o)
          /\ founder[o] \in Users /\ Busy(founder[o]) => founder[o] \in overlapped'
      BY <2>1 DEF UpdateOrganization, Goto, Others, Grows, tables, TypeOK
    <2>3. Careful' \subseteq Careful
      BY <2>2 DEF Careful, Grows
    <2>4. ASSUME NEW v \in Careful', v = founder[o] PROVE <<v, o>> \in members
      <3>1. Whole(v) /\ \A q \in Workers : subject[q] # v
        BY <2>2, <2>3, <2>4 DEF Careful, Busy, Wholly
      <3> QED
        BY <2>2, <2>4, <3>1 DEF Whole
    <2>5. ASSUME NEW q \in Workers, step'[q] \in {"diffOrg", "saveOrg"}
          PROVE  /\ org'[q] \in founded
                 /\ founder[org'[q]] \in Careful' => <<founder[org'[q]], org'[q]>> \in members
      BY <2>2, <2>3, <2>4, <2>5 DEF Wholly, Records, Others
    <2>6. Records'
      BY <2>2, <2>5 DEF Wholly, Records, Live
    <2> QED
      BY <1>1, <2>2, <2>6 DEF NoNewOrg, Live, Pending, Linked
  <1>3. CASE DiffOrg(p)
    <2>1. /\ Others(p) /\ Grows /\ step[p] = "diffOrg" /\ step'[p] = "saveOrg"
          /\ UNCHANGED <<users, members, placed, orgs, founder, founded, org, overlapped, died>>
      BY <1>3 DEF DiffOrg, Goto, Others, Grows, tables, history, TypeOK
    <2>2. Records'
      BY <2>1 DEF Wholly, Records, Others, Live, Careful
    <2> QED
      BY <1>1, <2>1, <2>2 DEF NoNewOrg, Live, Pending, Linked
  <1>4. CASE SaveOrg(p)
    <2>1. /\ Others(p) /\ Grows /\ step[p] = "saveOrg" /\ step'[p] = "idle" /\ org[p] \in Orgs
          /\ UNCHANGED <<users, members, placed, founder, founded, overlapped, died>>
          /\ \A o \in Orgs \ {org[p]} : orgs'[o] = orgs[o]
      BY <1>4 DEF SaveOrg, Return, Others, Grows, history, TypeOK
    <2>2. /\ org[p] \in founded
          /\ founder[org[p]] \in Careful => <<founder[org[p]], org[p]>> \in members
      BY <2>1 DEF Wholly, Records
    <2>3. Records'
      BY <2>1, <2>2, RecordsKept DEF Wholly, Records, Live
    <2>4. \A v \in Careful' : NoNewOrg(v)
      BY <2>1, <2>2 DEF NoNewOrg, Live, Careful
    <2> QED
      BY <1>1, <2>1, <2>3, <2>4 DEF Pending, Linked
  <1> QED
    BY <1>2, <1>3, <1>4

\* Requests of one statement, which leave every handler as it is.
LEMMA WholeAdminister ==
    ASSUME TypeOK, Wholly, Administer
    PROVE  Wholly'
  <1>1. ASSUME UNCHANGED <<members, founder, died, worker>>, founded \subseteq founded',
               placed \subseteq placed', overlapped \subseteq overlapped',
               \A v \in Users : \/ users'[v].org \in {None, users[v].org}
                                \/ ~Busy(v) /\ <<v, users'[v].org>> \in placed'
                                \/ v \in overlapped',
               \A o \in Orgs : orgs'[o] # None => Live(o) \/ (o \in founded' /\ founder[o] = None)
        PROVE  Wholly'
    <2>1. UNCHANGED <<step, purpose, subject, org, entity, dirty>>
      BY <1>1 DEF worker
    <2>2. Records'
      BY <1>1, <2>1 DEF Wholly, Records, Live, Careful
    <2>3. ASSUME NEW v \in Careful' PROVE Whole(v)'
      <3>1. Whole(v) /\ v # None /\ v \in Users /\ v \notin overlapped'
        BY <1>1, NoneAssumption DEF Wholly, Careful
      <3>2. \A p \in Workers : (Linked(p) <=> Linked(p)') /\ (Pending(p) <=> Pending(p)')
        BY <2>1 DEF Linked, Pending
      <3>3. \A p \in Workers : subject[p] = v /\ Holds(p) => Holds(p)'
        BY <1>1, <2>1, <3>1 DEF Holds, Busy
      <3>4. \A o \in Orgs : orgs'[o] # None /\ founder[o] = v => Live(o)
        BY <1>1, <3>1
      <3> QED
        BY <1>1, <2>1, <3>1, <3>2, <3>3, <3>4 DEF Whole, Live
    <2> QED
      BY <1>1, <2>2, <2>3 DEF Wholly, Careful
  <1>2. ASSUME NEW u \in Users,
               RevokeInvitation(u) \/ DeleteUser(u) \/ (\E o \in Orgs : InviteUser(u, o))
        PROVE  Wholly'
    BY <1>1, <1>2 DEF RevokeInvitation, DeleteUser, InviteUser, history, TypeOK, NoRow, Live
  <1>3. ASSUME NEW o \in Orgs, DeleteOrganization(o) PROVE Wholly'
    BY <1>1, <1>3 DEF DeleteOrganization, history, TypeOK, Live
  <1>4. ASSUME NEW o \in Orgs, NEW n \in Names, CreateOrganization(o, n) PROVE Wholly'
    <2>1. founder[o] = None
      BY <1>4 DEF CreateOrganization, Wholly, Records
    <2> QED
      BY <1>1, <1>4, <2>1 DEF CreateOrganization, TypeOK, Live
  <1>5. ASSUME NEW u \in Users, NEW o \in Orgs, NEW b \in BOOLEAN, CreateUser(u, o, b) PROVE Wholly'
    <2>1. /\ UNCHANGED <<orgs, members, founded, founder, died, worker>>
          /\ placed' = placed \cup {<<u, o>>} /\ users'[u].org = o
          /\ overlapped' = IF Busy(u) THEN overlapped \cup {u} ELSE overlapped
          /\ \A v \in Users \ {u} : users'[v] = users[v]
      BY <1>5 DEF CreateUser, Overlap, TypeOK
    <2> QED
      BY <1>1, <2>1 DEF Live
  <1> QED
    BY <1>2, <1>3, <1>4, <1>5 DEF Administer

LEMMA WhollyStep == TypeOK /\ Serial /\ Wholly /\ [Next]_vars => Wholly'
  <1> SUFFICES ASSUME TypeOK, Serial, Wholly, [Next]_vars PROVE Wholly'
    OBVIOUS
  <1>1. CASE UNCHANGED vars
    BY <1>1 DEF vars, tables, worker, history, Wholly, Records, Whole, Holds, Pending, Linked,
                Live, Careful
  <1>2. ASSUME NEW p \in Workers, Crash(p) PROVE Wholly'
    <2>1. Pending(p) => subject[p] \in died'
      BY <1>2 DEF Crash, Pending, Linked, TypeOK
    <2> QED
      BY <1>2, <2>1, WholeReturn DEF Crash, tables, Grows
  <1>3. ASSUME NEW p \in Workers, Work(p) PROVE Wholly'
    BY <1>2, <1>3, WholeSignIn, WholeApply, WholeSave, WholeSaveUser, WholeFounding, WholeOrgRow
       DEF Work, SignIn
  <1> QED
    BY <1>1, <1>3, WholeRequest, WholeOrgRow, WholeAdminister DEF Next

LEMMA WhollyInit == Init => Wholly
  BY DEF Init, Wholly, Records, Whole, Holds, Live, Careful, NoRow

\* For a user whose requests did not overlap and were not cut short, a link comes
\* with membership, unless POST /users created the row with that link and made no
\* member of anybody, and no organization is left over from a failed onboarding
\* (create-user.command-handler.ts:19, onboard-organization.command-handler.ts:76-98).
THEOREM OnboardingIsWhole == Spec => []OnboardingWhole
  <1>1. TypeOK /\ Wholly => OnboardingWhole
    BY DEF Wholly, Whole, Careful, OnboardingWhole, Busy
  <1> QED
    BY <1>1, TypeInit, TypeStep, SerialInit, SerialStep, WhollyInit, WhollyStep, PTL DEF Spec
=============================================================================
