---------------------------- MODULE PanelProofs ----------------------------
(***************************************************************************)
(* Theorems about the parts of Panel, for any number of users, groups,     *)
(* requests, rules and codes, and any values that requests may give.       *)
(*                                                                         *)
(* AccountsInv says what a request that has read an account still knows of *)
(* it when it saves its copy: that an account to be created is not there,  *)
(* and that the mark of a verified address in a copy is of the address in  *)
(* the copy.                                                               *)
(* RuleDeskInv says what a request at the desk still knows of what it      *)
(* checked, and which entries of the firewall a request under way owes.    *)
(* SignInInv relates the wrong passwords of a name, from the last one      *)
(* back, to the failures that its limiter holds.  LogInv says which rows   *)
(* are stored and what a change of the list owes; a page is shown to be a  *)
(* piece of the merged rows by the least counterexample.  MigrationInv     *)
(* and ShapeInv are about each record and the rule by itself.              *)
(***************************************************************************)
EXTENDS Panel, Integers, FiniteSetTheorems, SequenceTheorems, WellFoundedInduction, TLAPS

-----------------------------------------------------------------------------
(* Accounts: the invariant *)

\* Accounts whose mark is of the address they have.
Proved == {a \in Account : a.verified \in {None, a.email}}

JobRecords ==
  {NoJob}
  \cup [at : {"issue"}, who : Users, copy : {None}, revokes : {FALSE}]
  \cup [at : {"email", "bind", "check", "save", "create"}, who : Users, copy : Proved,
        revokes : BOOLEAN]
  \cup [at : {"revoke"}, who : Users, copy : Proved \cup {None}, revokes : BOOLEAN]
  \cup [at : {"find"}, who : Emails, copy : {None}, revokes : {FALSE}]
  \cup [at : {"saveGroup"}, who : Groups, revokes : {FALSE},
        copy : [mark : {"plain", "default"}, cfg : Groups \cup {None}]]
  \cup [at : {"saveChosen"}, who : Groups \cup {None}, revokes : {FALSE},
        copy : {None} \cup [mark : {"plain", "default"}, cfg : Groups \cup {None}]]

\* An account that is to be created is not there, never was, and is created by one request.
CreatedOnce ==
  \A r \in Requests : jobs[r].at = "create" =>
    /\ users[jobs[r].who] = None /\ jobs[r].who \notin gone
    /\ \A q \in Requests : jobs[q].at = "create" /\ jobs[q].who = jobs[r].who => q = r

\* Only a session that is somebody's can have outlived anything.
FreeTokensAreFresh == \A t \in Tokens : sessions[t].who = None => ~sessions[t].stale

AccountsInv ==
  /\ AccountsTypeOK
  /\ jobs \in [Requests -> JobRecords]
  /\ CreatedOnce /\ FreeTokensAreFresh
  /\ OldSessionsEnd /\ DeletedStayDeleted /\ VerifiedWasProved /\ OneDefault

\* What requests save is proved again.
LEMMA AccountsAreProved ==
  ASSUME AccountsInv, NEW u \in Users, Exists(u)
  PROVE  users[u] \in Proved
BY DEF AccountsInv, AccountsTypeOK, VerifiedWasProved, Exists, Proved

LEMMA JobsAreAt == \A k \in JobRecords : k.at \in Steps
<1> SUFFICES ASSUME NEW k \in JobRecords PROVE k.at \in Steps
  OBVIOUS
<1>1. CASE k = NoJob
  BY <1>1 DEF NoJob, Steps
<1>2. CASE k # NoJob
  BY <1>2 DEF JobRecords, Steps
<1>3. QED
  BY <1>1, <1>2

\* A request that takes a step and changes nothing but its job and the codes sent.
LEMMA JobStep ==
  ASSUME AccountsInv, NEW r \in Requests, NEW j \in JobRecords,
         jobs[r].at # "revoke", jobs' = [jobs EXCEPT ![r] = j],
         j.at = "create" =>
           /\ users[j.who] = None /\ j.who \notin gone
           /\ \A q \in Requests : jobs[q].at = "create" => jobs[q].who # j.who,
         mail' \subseteq Purposes \X Emails,
         UNCHANGED <<users, gone, groups, chosen, sessions, work>>
  PROVE  AccountsInv'
<1>1. jobs' \in [Requests -> JobRecords]
  BY DEF AccountsInv
<1>2. \A q \in Requests : jobs'[q] = IF q = r THEN j ELSE jobs[q]
  BY DEF AccountsInv
<1>3. AccountsTypeOK'
  BY <1>1, JobsAreAt DEF AccountsInv, AccountsTypeOK
<1>4. CreatedOnce'
  BY <1>2 DEF AccountsInv, CreatedOnce
<1>5. OldSessionsEnd'
  BY <1>2 DEF AccountsInv, OldSessionsEnd
<1>6. QED
  BY <1>1, <1>3, <1>4, <1>5
  DEF AccountsInv, FreeTokensAreFresh, DeletedStayDeleted, VerifiedWasProved, Exists, OneDefault

-----------------------------------------------------------------------------
(* Accounts: requests that begin *)

\* A request that begins with a job that creates nothing.
LEMMA Begins ==
  ASSUME AccountsInv, NEW r \in Requests, NEW j \in JobRecords, j.at # "create", Goes(r, j),
         mail' \subseteq Purposes \X Emails,
         UNCHANGED <<users, gone, groups, chosen, sessions, work>>
  PROVE  AccountsInv'
<1>1. jobs' = [jobs EXCEPT ![r] = j] /\ jobs[r].at # "revoke"
  BY DEF Goes, NoJob
<1>2. QED
  BY <1>1, JobStep

LEMMA LoginStep ==
  ASSUME AccountsInv, NEW r \in Requests, NEW u \in Users, Login(r, u)
  PROVE  AccountsInv'
<1> DEFINE j == Job("issue", u, None, FALSE)
<1>1. j \in JobRecords /\ j.at # "create"
  BY DEF Job, JobRecords
<1>2. mail' \subseteq Purposes \X Emails
  BY DEF Login, AccountsInv, AccountsTypeOK
<1>3. Goes(r, j) /\ UNCHANGED <<users, gone, groups, chosen, sessions, work>>
  BY DEF Login
<1>4. QED
  BY <1>1, <1>2, <1>3, Begins

\* A request that has read an account, and will save a copy whose mark is of its address.
LEMMA Copies ==
  ASSUME AccountsInv, NEW r \in Requests, NEW u \in Users, NEW copy \in Proved,
         NEW at \in {"email", "bind", "check", "save"}, NEW revokes \in BOOLEAN,
         Goes(r, Job(at, u, copy, revokes)), mail' \subseteq Purposes \X Emails,
         UNCHANGED <<users, gone, groups, chosen, sessions, work>>
  PROVE  AccountsInv'
<1>1. Job(at, u, copy, revokes) \in JobRecords /\ Job(at, u, copy, revokes).at # "create"
  BY DEF Job, JobRecords
<1>2. QED
  BY <1>1, Begins

LEMMA PasswordStep ==
  ASSUME AccountsInv, NEW r \in Requests, NEW u \in Users,
         ChangeOwnPassword(r, u) \/ UpdatePassword(r, u)
  PROVE  AccountsInv'
<1>1. Exists(u) /\ Goes(r, Job("save", u, users[u], TRUE))
  BY DEF ChangeOwnPassword, UpdatePassword, SignedIn
<1>2. mail' \subseteq Purposes \X Emails /\ UNCHANGED <<users, gone, groups, chosen, sessions, work>>
  BY DEF ChangeOwnPassword, UpdatePassword, AccountsInv, AccountsTypeOK
<1>3. users[u] \in Proved
  BY <1>1, AccountsAreProved
<1>4. QED
  BY <1>1, <1>2, <1>3, Copies

\* Whatever the mark becomes, it is of the address that comes with it.
LEMMA MarksAreProved ==
  ASSUME NEW a \in Proved, NEW e \in Emails \cup {None}, NEW mark \in {"kept", "set", "taken"}
  PROVE  [a EXCEPT !.email = e, !.verified = Mark(a, e, mark)] \in Proved
<1>1. Mark(a, e, mark) \in {None, e}
  BY DEF Mark, Proved, Account
<1>2. QED
  BY <1>1 DEF Proved, Account

LEMMA UpdateEmailStep ==
  ASSUME AccountsInv, NEW r \in Requests, NEW u \in Users, UpdateEmail(r, u)
  PROVE  AccountsInv'
<1>1. PICK e \in Emails \cup {None}, mark \in {"kept", "set", "taken"} :
        Goes(r, Job("email", u, [users[u] EXCEPT !.email = e, !.verified = Mark(users[u], e, mark)],
                    FALSE))
  BY DEF UpdateEmail
<1>2. [users[u] EXCEPT !.email = e, !.verified = Mark(users[u], e, mark)] \in Proved
  <2>1. users[u] \in Proved
    BY AccountsAreProved DEF UpdateEmail
  <2>2. QED
    BY <2>1, MarksAreProved
<1>3. mail' \subseteq Purposes \X Emails /\ UNCHANGED <<users, gone, groups, chosen, sessions, work>>
  BY DEF UpdateEmail, AccountsInv, AccountsTypeOK
<1> HIDE DEF Mark
<1>4. QED
  BY <1>1, <1>2, <1>3, Copies

LEMMA UpdateStandingStep ==
  ASSUME AccountsInv, NEW r \in Requests, NEW u \in Users, UpdateStanding(r, u)
  PROVE  AccountsInv'
<1>1. PICK role \in {"admin", "user"}, disabled \in BOOLEAN :
        LET copy == [users[u] EXCEPT !.role = role, !.disabled = disabled]
        IN Goes(r, Job(IF ActiveAdmin(users[u]) /\ ~ActiveAdmin(copy) THEN "check" ELSE "save",
                       u, copy, disabled /\ ~users[u].disabled))
  BY DEF UpdateStanding
<1> DEFINE copy == [users[u] EXCEPT !.role = role, !.disabled = disabled]
           at == IF ActiveAdmin(users[u]) /\ ~ActiveAdmin(copy) THEN "check" ELSE "save"
           revokes == disabled /\ ~users[u].disabled
<1>2. users[u] \in Proved
  BY AccountsAreProved DEF UpdateStanding
<1>3. copy \in Proved
  BY <1>2 DEF Proved, Account
<1>4. at \in {"email", "bind", "check", "save"} /\ revokes \in BOOLEAN
  BY <1>2 DEF Proved, Account
<1>5. mail' \subseteq Purposes \X Emails /\ UNCHANGED <<users, gone, groups, chosen, sessions, work>>
  BY DEF UpdateStanding, AccountsInv, AccountsTypeOK
<1>6. Goes(r, Job(at, u, copy, revokes))
  BY <1>1
<1> HIDE DEF copy, at, revokes
<1>7. QED
  BY <1>3, <1>4, <1>5, <1>6, Copies

LEMMA UpdateGroupOfStep ==
  ASSUME AccountsInv, NEW r \in Requests, NEW u \in Users, UpdateGroupOf(r, u)
  PROVE  AccountsInv'
<1>1. PICK g \in Present \cup {None} : Goes(r, Job("save", u, [users[u] EXCEPT !.group = g], FALSE))
  BY DEF UpdateGroupOf
<1>2. [users[u] EXCEPT !.group = g] \in Proved
  <2>1. users[u] \in Proved
    BY AccountsAreProved DEF UpdateGroupOf
  <2>2. QED
    BY <2>1 DEF Proved, Account, Present
<1>3. mail' \subseteq Purposes \X Emails /\ UNCHANGED <<users, gone, groups, chosen, sessions, work>>
  BY DEF UpdateGroupOf, AccountsInv, AccountsTypeOK
<1>4. QED
  BY <1>1, <1>2, <1>3, Copies

LEMMA BindOwnEmailStep ==
  ASSUME AccountsInv, NEW r \in Requests, NEW u \in Users, BindOwnEmail(r, u)
  PROVE  AccountsInv'
<1>1. PICK e \in Emails : /\ mail' = mail \ {<<"bind", e>>}
                          /\ Goes(r, Job("bind", u, [users[u] EXCEPT !.email = e, !.verified = e], FALSE))
  BY DEF BindOwnEmail
<1>2. [users[u] EXCEPT !.email = e, !.verified = e] \in Proved
  <2>1. users[u] \in Proved
    BY AccountsAreProved DEF BindOwnEmail, SignedIn
  <2>2. QED
    BY <2>1 DEF Proved, Account
<1>3. mail' \subseteq Purposes \X Emails /\ UNCHANGED <<users, gone, groups, chosen, sessions, work>>
  BY <1>1 DEF BindOwnEmail, AccountsInv, AccountsTypeOK
<1>4. QED
  BY <1>1, <1>2, <1>3, Copies

LEMMA ResetPasswordStep ==
  ASSUME AccountsInv, NEW r \in Requests, NEW e \in Emails, ResetPassword(r, e)
  PROVE  AccountsInv'
<1>1. Job("find", e, None, FALSE) \in JobRecords /\ Job("find", e, None, FALSE).at # "create"
  BY DEF Job, JobRecords
<1>2. mail' \subseteq Purposes \X Emails /\ UNCHANGED <<users, gone, groups, chosen, sessions, work>>
  BY DEF ResetPassword, AccountsInv, AccountsTypeOK
<1>3. QED
  BY <1>1, <1>2, Begins DEF ResetPassword

LEMMA EditGroupStep ==
  ASSUME AccountsInv, NEW r \in Requests, NEW g \in Groups, EditGroup(r, g)
  PROVE  AccountsInv'
<1>1. PICK mark \in {"plain", "default"} :
        Goes(r, Job("saveGroup", g, [mark |-> mark, cfg |-> chosen], FALSE))
  BY DEF EditGroup
<1> DEFINE j == Job("saveGroup", g, [mark |-> mark, cfg |-> chosen], FALSE)
<1>2. j \in JobRecords /\ j.at # "create"
  BY DEF Job, JobRecords, AccountsInv, AccountsTypeOK
<1>3. mail' \subseteq Purposes \X Emails /\ UNCHANGED <<users, gone, groups, chosen, sessions, work>>
  BY DEF EditGroup, AccountsInv, AccountsTypeOK
<1>4. QED
  BY <1>1, <1>2, <1>3, Begins

LEMMA UpdateSettingsStep ==
  ASSUME AccountsInv, NEW r \in Requests, UpdateSettings(r)
  PROVE  AccountsInv'
<1>1. PICK g \in Present \cup {None, chosen} : Goes(r, Job("saveChosen", g, None, FALSE))
  BY DEF UpdateSettings
<1> DEFINE j == Job("saveChosen", g, None, FALSE)
<1>2. j \in JobRecords /\ j.at # "create"
  BY DEF Job, JobRecords, AccountsInv, AccountsTypeOK, Present
<1>3. mail' \subseteq Purposes \X Emails /\ UNCHANGED <<users, gone, groups, chosen, sessions, work>>
  BY DEF UpdateSettings, AccountsInv, AccountsTypeOK
<1>4. QED
  BY <1>1, <1>2, <1>3, Begins

\* A request that will create an account under a fresh id.
LEMMA Creates ==
  ASSUME AccountsInv, NEW r \in Requests, NEW u \in Users, NEW copy \in Proved, Fresh(u),
         Goes(r, Job("create", u, copy, FALSE)), mail' \subseteq Purposes \X Emails,
         UNCHANGED <<users, gone, groups, chosen, sessions, work>>
  PROVE  AccountsInv'
<1> DEFINE j == Job("create", u, copy, FALSE)
<1>1. j \in JobRecords
  BY DEF Job, JobRecords
<1>2. users[j.who] = None /\ j.who \notin gone
  BY DEF Job, Fresh
<1>3. \A q \in Requests : jobs[q].at = "create" => jobs[q].who # j.who
  BY DEF Job, Fresh
<1>4. jobs' = [jobs EXCEPT ![r] = j] /\ jobs[r].at # "revoke"
  BY DEF Goes, NoJob
<1> HIDE DEF j
<1>5. QED
  BY <1>1, <1>2, <1>3, <1>4, JobStep

LEMMA CreateUserStep ==
  ASSUME AccountsInv, NEW r \in Requests, NEW u \in Users, CreateUser(r, u)
  PROVE  AccountsInv'
<1>1. PICK role \in {"admin", "user"}, g \in Present \cup {None} :
        Goes(r, Job("create", u, Plain(role, g), FALSE))
  BY DEF CreateUser
<1>2. Plain(role, g) \in Proved
  BY DEF Plain, Proved, Account, Present
<1>3. mail' \subseteq Purposes \X Emails /\ UNCHANGED <<users, gone, groups, chosen, sessions, work>>
  BY DEF CreateUser, AccountsInv, AccountsTypeOK
<1>4. QED
  BY <1>1, <1>2, <1>3, Creates DEF CreateUser

LEMMA RegisterStep ==
  ASSUME AccountsInv, NEW r \in Requests, NEW u \in Users, Register(r, u)
  PROVE  AccountsInv'
<1>1. PICK e \in Emails \cup {None} :
        /\ mail' = mail \ {<<"register", e>>}
        /\ Goes(r, Job("create", u, [Plain("user", chosen) EXCEPT !.email = e, !.verified = e], FALSE))
  BY DEF Register
<1>2. [Plain("user", chosen) EXCEPT !.email = e, !.verified = e] \in Proved
  BY DEF Plain, Proved, Account, AccountsInv, AccountsTypeOK
<1>3. mail' \subseteq Purposes \X Emails /\ UNCHANGED <<users, gone, groups, chosen, sessions, work>>
  BY <1>1 DEF Register, AccountsInv, AccountsTypeOK
<1>4. QED
  BY <1>1, <1>2, <1>3, Creates DEF Register

-----------------------------------------------------------------------------
(* Accounts: requests that go on *)

\* The jobs of requests under way, by where they are.
LEMMA JobsAreKnown ==
  ASSUME AccountsInv, NEW r \in Requests
  PROVE  /\ jobs[r].at \in {"email", "bind", "check", "save", "create"} =>
              /\ jobs[r] \in [at : {"email", "bind", "check", "save", "create"}, who : Users,
                              copy : Proved, revokes : BOOLEAN]
         /\ jobs[r].at \in {"issue", "revoke"} => jobs[r].who \in Users
         /\ jobs[r].at = "saveGroup" =>
              jobs[r] \in [at : {"saveGroup"}, who : Groups, revokes : {FALSE},
                           copy : [mark : {"plain", "default"}, cfg : Groups \cup {None}]]
         /\ jobs[r].at = "saveChosen" => jobs[r].who \in Groups \cup {None}
<1>1. jobs[r] \in JobRecords
  BY DEF AccountsInv
<1>2. CASE jobs[r] = NoJob
  BY <1>2 DEF NoJob
<1>3. CASE jobs[r] # NoJob
  BY <1>1, <1>3 DEF JobRecords
<1>4. QED
  BY <1>2, <1>3

LEMMA NoJobIsOne == NoJob \in JobRecords /\ NoJob.at = "none"
BY DEF NoJob, JobRecords

LEMMA CheckStep ==
  ASSUME AccountsInv, NEW r \in Requests, EnsureAnotherAdmin(r)
  PROVE  AccountsInv'
<1>1. PICK j \in JobRecords : jobs' = [jobs EXCEPT ![r] = j] /\ j.at # "create"
  <2>1. CASE Ends(r)
    BY <2>1, NoJobIsOne DEF Ends
  <2>2. CASE Continues(r, "save")
    <3> DEFINE j == [jobs[r] EXCEPT !.at = "save"]
    <3>1. j \in JobRecords /\ j.at # "create"
      BY JobsAreKnown DEF EnsureAnotherAdmin, JobRecords
    <3>2. jobs' = [jobs EXCEPT ![r] = j]
      BY <2>2 DEF Continues, AccountsInv
    <3>3. QED
      BY <3>1, <3>2
  <2>3. QED
    BY <2>1, <2>2 DEF EnsureAnotherAdmin
<1>2. mail' \subseteq Purposes \X Emails /\ UNCHANGED <<users, gone, groups, chosen, sessions, work>>
  BY DEF EnsureAnotherAdmin, AccountsInv, AccountsTypeOK
<1>3. jobs[r].at # "revoke"
  BY DEF EnsureAnotherAdmin
<1>4. QED
  BY <1>1, <1>2, <1>3, JobStep

LEMMA FindByEmailStep ==
  ASSUME AccountsInv, NEW r \in Requests, FindByEmail(r)
  PROVE  AccountsInv'
<1>1. PICK j \in JobRecords : jobs' = [jobs EXCEPT ![r] = j] /\ j.at # "create"
  <2>1. CASE Ends(r)
    BY <2>1, NoJobIsOne DEF Ends
  <2>2. ASSUME NEW u \in Users, Exists(u), jobs' = [jobs EXCEPT ![r] = Job("save", u, users[u], TRUE)]
        PROVE  \E j \in JobRecords : jobs' = [jobs EXCEPT ![r] = j] /\ j.at # "create"
    <3>1. users[u] \in Proved
      BY <2>2, AccountsAreProved
    <3>2. Job("save", u, users[u], TRUE) \in JobRecords /\ Job("save", u, users[u], TRUE).at # "create"
      BY <3>1 DEF Job, JobRecords
    <3>3. QED
      BY <2>2, <3>2
  <2>3. QED
    BY <2>1, <2>2 DEF FindByEmail
<1>2. mail' \subseteq Purposes \X Emails /\ UNCHANGED <<users, gone, groups, chosen, sessions, work>>
  BY DEF FindByEmail, AccountsInv, AccountsTypeOK
<1>3. jobs[r].at # "revoke"
  BY DEF FindByEmail
<1>4. QED
  BY <1>1, <1>2, <1>3, JobStep

\* Sessions that have ended, or were opened in time.
LEMMA IssueStep ==
  ASSUME AccountsInv, NEW r \in Requests, Issue(r)
  PROVE  AccountsInv'
<1>1. PICK t \in Tokens : sessions[t].who = None /\ sessions' = [sessions EXCEPT ![t].who = jobs[r].who]
  BY DEF Issue
<1>2. ~sessions[t].stale /\ jobs[r].who \in Users
  BY <1>1, JobsAreKnown DEF Issue, AccountsInv, FreeTokensAreFresh
<1>3. sessions \in [Tokens -> [who : Users \cup {None}, stale : BOOLEAN]]
  BY DEF AccountsInv, AccountsTypeOK
<1>4. /\ sessions' \in [Tokens -> [who : Users \cup {None}, stale : BOOLEAN]]
      /\ \A s \in Tokens : IF s = t THEN sessions'[s].who = jobs[r].who /\ ~sessions'[s].stale
                           ELSE sessions'[s] = sessions[s]
  BY <1>1, <1>2, <1>3
<1>5. /\ jobs' \in [Requests -> JobRecords]
      /\ \A q \in Requests : jobs'[q] = IF q = r THEN NoJob ELSE jobs[q]
  BY NoJobIsOne DEF Issue, Ends, AccountsInv
<1>6. AccountsTypeOK'
  BY <1>4, <1>5, JobsAreAt DEF AccountsInv, AccountsTypeOK, Issue
<1>7. CreatedOnce'
  BY <1>5, NoJobIsOne DEF AccountsInv, CreatedOnce, Issue
<1>8. FreeTokensAreFresh'
  BY <1>4 DEF AccountsInv, FreeTokensAreFresh
<1>9. OldSessionsEnd'
  BY <1>4, <1>5 DEF AccountsInv, OldSessionsEnd, Issue
<1>10. QED
  BY <1>5, <1>6, <1>7, <1>8, <1>9
  DEF AccountsInv, Issue, DeletedStayDeleted, VerifiedWasProved, Exists, OneDefault

LEMMA SessionEndsStep ==
  ASSUME AccountsInv, NEW t \in Tokens, SessionEnds(t)
  PROVE  AccountsInv'
<1>1. sessions' = [sessions EXCEPT ![t] = NoSession]
  BY DEF SessionEnds
<1>2. /\ sessions' \in [Tokens -> [who : Users \cup {None}, stale : BOOLEAN]]
      /\ \A s \in Tokens : sessions'[s] = IF s = t THEN NoSession ELSE sessions[s]
  BY <1>1 DEF AccountsInv, AccountsTypeOK, NoSession
<1>3. AccountsTypeOK'
  BY <1>2 DEF AccountsInv, AccountsTypeOK, SessionEnds
<1>4. FreeTokensAreFresh' /\ OldSessionsEnd'
  BY <1>2 DEF AccountsInv, FreeTokensAreFresh, OldSessionsEnd, NoSession, SessionEnds
<1>5. QED
  BY <1>3, <1>4
  DEF AccountsInv, SessionEnds, CreatedOnce, DeletedStayDeleted, VerifiedWasProved, Exists, OneDefault

LEMMA RevokeStep ==
  ASSUME AccountsInv, NEW r \in Requests, Revoke(r)
  PROVE  AccountsInv'
<1>1. /\ sessions' \in [Tokens -> [who : Users \cup {None}, stale : BOOLEAN]]
      /\ \A s \in Tokens :
           sessions'[s] = IF sessions[s].who = jobs[r].who THEN NoSession ELSE sessions[s]
  BY DEF Revoke, AccountsInv, AccountsTypeOK, NoSession
<1>2. /\ jobs' \in [Requests -> JobRecords]
      /\ \A q \in Requests : jobs'[q] = IF q = r THEN NoJob ELSE jobs[q]
  BY NoJobIsOne DEF Revoke, Ends, AccountsInv
<1>3. AccountsTypeOK'
  BY <1>1, <1>2, JobsAreAt DEF AccountsInv, AccountsTypeOK, Revoke
<1>4. CreatedOnce'
  BY <1>2, NoJobIsOne DEF AccountsInv, CreatedOnce, Revoke
<1>5. FreeTokensAreFresh' /\ OldSessionsEnd'
  BY <1>1, <1>2 DEF AccountsInv, FreeTokensAreFresh, OldSessionsEnd, NoSession
<1>6. QED
  BY <1>2, <1>3, <1>4, <1>5
  DEF AccountsInv, Revoke, DeletedStayDeleted, VerifiedWasProved, Exists, OneDefault

-----------------------------------------------------------------------------
(* Accounts: requests that save *)

\* What a request that saved an account leaves when sessions and groups are as they were.
LEMMA UserStep ==
  ASSUME AccountsInv, NEW r \in Requests, NEW j \in JobRecords, jobs[r].at # "revoke",
         jobs' = [jobs EXCEPT ![r] = j], j.at # "create",
         NEW v \in Users, NEW copy \in Proved \cup {None}, users' = [users EXCEPT ![v] = copy],
         copy # None => users[v] # None \/ (jobs[r].at = "create" /\ jobs[r].who = v),
         UNCHANGED <<gone, groups, chosen, sessions, mail, work>>
  PROVE  AccountsInv'
<1>1. /\ users' \in [Users -> Account \cup {None}]
      /\ \A u \in Users : users'[u] = IF u = v THEN copy ELSE users[u]
  BY DEF AccountsInv, AccountsTypeOK, Proved
<1>2. /\ jobs' \in [Requests -> JobRecords]
      /\ \A q \in Requests : jobs'[q] = IF q = r THEN j ELSE jobs[q]
  BY DEF AccountsInv
<1>3. AccountsTypeOK'
  BY <1>1, <1>2, JobsAreAt DEF AccountsInv, AccountsTypeOK
<1>4. CreatedOnce'
  <2> SUFFICES ASSUME NEW q \in Requests, jobs'[q].at = "create"
               PROVE  /\ users'[jobs'[q].who] = None /\ jobs'[q].who \notin gone'
                      /\ \A p \in Requests :
                           jobs'[p].at = "create" /\ jobs'[p].who = jobs'[q].who => p = q
    BY DEF CreatedOnce
  <2>1. q # r /\ jobs'[q] = jobs[q] /\ jobs[q].at = "create"
    BY <1>2
  <2>2. /\ users[jobs[q].who] = None /\ jobs[q].who \notin gone /\ jobs[q].who \in Users
        /\ \A p \in Requests : jobs[p].at = "create" /\ jobs[p].who = jobs[q].who => p = q
    BY <2>1, JobsAreKnown DEF AccountsInv, CreatedOnce
  <2>3. jobs[q].who = v => copy = None
    BY <2>1, <2>2
  <2>4. QED
    BY <1>1, <1>2, <2>1, <2>2, <2>3
<1>5. OldSessionsEnd'
  BY <1>2 DEF AccountsInv, OldSessionsEnd
<1>6. DeletedStayDeleted'
  <2> SUFFICES ASSUME NEW u \in gone PROVE users'[u] = None
    BY DEF DeletedStayDeleted
  <2>1. u \in Users /\ users[u] = None
    BY DEF AccountsInv, AccountsTypeOK, DeletedStayDeleted
  <2>2. jobs[r].at = "create" => jobs[r].who # u
    BY DEF AccountsInv, CreatedOnce
  <2>3. QED
    BY <1>1, <2>1, <2>2
<1>7. VerifiedWasProved'
  BY <1>1 DEF AccountsInv, VerifiedWasProved, Exists, Proved
<1>8. QED
  BY <1>2, <1>3, <1>4, <1>5, <1>6, <1>7 DEF AccountsInv, FreeTokensAreFresh, OneDefault

LEMMA SetUserEmailStep ==
  ASSUME AccountsInv, NEW r \in Requests, SetUserEmail(r)
  PROVE  AccountsInv'
<1> DEFINE u == jobs[r].who
           e == jobs[r].copy.email
           mark == jobs[r].copy.verified
           set == Exists(u) /\ ~Taken(u, e)
<1>1. jobs[r] \in [at : {"email", "bind", "check", "save", "create"}, who : Users, copy : Proved,
                   revokes : BOOLEAN]
  BY JobsAreKnown DEF SetUserEmail
<1>2. u \in Users /\ e \in Emails \cup {None} /\ mark \in {None, e}
  BY <1>1 DEF Proved, Account
<1>3. PICK j \in JobRecords : jobs' = [jobs EXCEPT ![r] = j] /\ j.at # "create"
  <2>1. CASE Ends(r)
    BY <2>1, NoJobIsOne DEF Ends
  <2>2. CASE Continues(r, "save")
    <3> DEFINE j == [jobs[r] EXCEPT !.at = "save"]
    <3>1. j \in JobRecords /\ j.at # "create"
      BY <1>1 DEF JobRecords
    <3>2. jobs' = [jobs EXCEPT ![r] = j]
      BY <2>2 DEF Continues, AccountsInv
    <3>3. QED
      BY <3>1, <3>2
  <2>3. QED
    BY <2>1, <2>2 DEF SetUserEmail
<1>4. jobs[r].at # "revoke" /\ UNCHANGED <<gone, groups, chosen, sessions, mail, work>>
  BY DEF SetUserEmail
<1>5. CASE set
  <2> DEFINE copy == [users[u] EXCEPT !.email = e, !.verified = IF e = None THEN None ELSE mark]
  <2>1. users[u] \in Proved /\ users[u] # None
    BY <1>5, <1>2, AccountsAreProved DEF Exists
  <2>2. copy \in Proved
    BY <1>2, <2>1 DEF Proved, Account
  <2>3. users' = [users EXCEPT ![u] = copy]
    <3>1. EmailSet(u, e, mark)
      BY <1>5 DEF SetUserEmail
    <3>2. QED
      BY <1>2, <3>1 DEF EmailSet, AccountsInv, AccountsTypeOK
  <2>4. u \in Users /\ copy \in Proved \cup {None} /\ users[u] # None
    BY <1>2, <2>1, <2>2
  <2> HIDE DEF copy, u, e, mark, set
  <2>5. QED
    BY <1>3, <1>4, <2>3, <2>4, UserStep
<1>6. CASE ~set
  <2>1. UNCHANGED users
    BY <1>6 DEF SetUserEmail
  <2>2. mail' \subseteq Purposes \X Emails
    BY <1>4 DEF AccountsInv, AccountsTypeOK
  <2>3. QED
    BY <1>3, <1>4, <2>1, <2>2, JobStep
<1>7. QED
  BY <1>5, <1>6

LEMMA CreateStep ==
  ASSUME AccountsInv, NEW r \in Requests, Create(r)
  PROVE  AccountsInv'
<1>1. jobs[r] \in [at : {"email", "bind", "check", "save", "create"}, who : Users, copy : Proved,
                   revokes : BOOLEAN]
  BY JobsAreKnown DEF Create
<1>2. jobs[r].at = "create" /\ UNCHANGED <<gone, groups, chosen, sessions, mail, work>>
  BY DEF Create
<1>3. jobs' = [jobs EXCEPT ![r] = NoJob]
  BY DEF Create, Ends
<1>4. CASE users' = users
  <2>1. mail' \subseteq Purposes \X Emails
    BY <1>2 DEF AccountsInv, AccountsTypeOK
  <2>2. QED
    BY <1>2, <1>3, <1>4, <2>1, NoJobIsOne, JobStep
<1>5. CASE users' = [users EXCEPT ![jobs[r].who] = jobs[r].copy]
  <2> DEFINE u == jobs[r].who
             copy == jobs[r].copy
  <2>1. u \in Users /\ copy \in Proved
    BY <1>1
  <2>2. users' = [users EXCEPT ![u] = copy] /\ jobs[r].who = u
    BY <1>5
  <2> HIDE DEF u, copy
  <2>3. QED
    BY <1>2, <1>3, <2>1, <2>2, NoJobIsOne, UserStep
<1>6. QED
  BY <1>4, <1>5 DEF Create

\* The sessions of an account that are to end, and the request that will end them.
LEMMA StaleStep ==
  ASSUME AccountsInv, NEW r \in Requests, NEW j \in JobRecords, jobs[r].at # "revoke",
         NEW v \in Users, j.at = "revoke", j.who = v, jobs' = [jobs EXCEPT ![r] = j],
         sessions' = Stale(v)
  PROVE  /\ sessions' \in [Tokens -> [who : Users \cup {None}, stale : BOOLEAN]]
         /\ FreeTokensAreFresh' /\ OldSessionsEnd'
<1>1. \A t \in Tokens : sessions[t] \in [who : Users \cup {None}, stale : BOOLEAN]
  BY DEF AccountsInv, AccountsTypeOK
<1>2. /\ sessions' \in [Tokens -> [who : Users \cup {None}, stale : BOOLEAN]]
      /\ \A t \in Tokens : /\ sessions'[t].who = sessions[t].who
                           /\ sessions'[t].stale <=> sessions[t].stale \/ sessions[t].who = v
  BY <1>1 DEF Stale
<1>3. FreeTokensAreFresh'
  BY <1>2, PanelAssumption DEF AccountsAssumption, AccountsInv, FreeTokensAreFresh
<1>4. \A q \in Requests : jobs'[q] = IF q = r THEN j ELSE jobs[q]
  BY DEF AccountsInv
<1>5. OldSessionsEnd'
  <2> SUFFICES ASSUME NEW t \in Tokens, sessions'[t].stale
               PROVE  \E q \in Requests : jobs'[q].at = "revoke" /\ jobs'[q].who = sessions'[t].who
    BY DEF OldSessionsEnd
  <2>1. CASE sessions[t].who = v
    BY <1>2, <1>4, <2>1
  <2>2. CASE sessions[t].who # v
    <3>1. sessions[t].stale
      BY <1>2, <2>2
    <3>2. PICK q \in Requests : jobs[q].at = "revoke" /\ jobs[q].who = sessions[t].who
      BY <3>1 DEF AccountsInv, OldSessionsEnd
    <3>3. QED
      BY <1>2, <1>4, <3>2
  <2>3. QED
    BY <2>1, <2>2
<1>6. QED
  BY <1>2, <1>3, <1>5

LEMMA SaveUserStep ==
  ASSUME AccountsInv, NEW r \in Requests, SaveUser(r)
  PROVE  AccountsInv'
<1> DEFINE u == jobs[r].who
           copy == IF users[u] = None THEN None ELSE jobs[r].copy
<1>1. jobs[r] \in [at : {"email", "bind", "check", "save", "create"}, who : Users, copy : Proved,
                   revokes : BOOLEAN]
  BY JobsAreKnown DEF SaveUser
<1>2. u \in Users /\ copy \in Proved \cup {None} /\ (copy # None => users[u] # None)
  BY <1>1
<1>3. users' = [users EXCEPT ![u] = copy]
  BY <1>2 DEF SaveUser, Saved, AccountsInv, AccountsTypeOK
<1>4. jobs[r].at = "save" /\ UNCHANGED <<gone, groups, chosen, mail, work>>
  BY DEF SaveUser
<1>5. CASE UNCHANGED sessions /\ Ends(r)
  <2>1. jobs' = [jobs EXCEPT ![r] = NoJob] /\ UNCHANGED sessions
    BY <1>5 DEF Ends
  <2> HIDE DEF copy, u
  <2>2. QED
    BY <1>2, <1>3, <1>4, <2>1, NoJobIsOne, UserStep
<1>6. CASE sessions' = Stale(u) /\ Continues(r, "revoke")
  <2> DEFINE j == [jobs[r] EXCEPT !.at = "revoke"]
  <2>1. j \in JobRecords /\ j.at = "revoke" /\ j.who = u
    BY <1>1 DEF JobRecords
  <2>2. jobs' = [jobs EXCEPT ![r] = j]
    BY <1>6 DEF Continues, AccountsInv
  <2>3. /\ jobs' \in [Requests -> JobRecords]
        /\ \A q \in Requests : jobs'[q] = IF q = r THEN j ELSE jobs[q]
    BY <2>1, <2>2 DEF AccountsInv
  <2>4. /\ users' \in [Users -> Account \cup {None}]
        /\ \A v \in Users : users'[v] = IF v = u THEN copy ELSE users[v]
    BY <1>2, <1>3 DEF AccountsInv, AccountsTypeOK, Proved
  <2>5. /\ sessions' \in [Tokens -> [who : Users \cup {None}, stale : BOOLEAN]]
        /\ FreeTokensAreFresh' /\ OldSessionsEnd'
    <3>1. jobs[r].at # "revoke" /\ sessions' = Stale(u) /\ u \in Users
      BY <1>2, <1>4, <1>6
    <3> HIDE DEF j, u
    <3>2. QED
      BY <2>1, <2>2, <3>1, StaleStep
  <2>6. AccountsTypeOK'
    BY <1>4, <2>3, <2>4, <2>5, JobsAreAt DEF AccountsInv, AccountsTypeOK
  <2> HIDE DEF copy
  <2>7. CreatedOnce' /\ DeletedStayDeleted'
    <3>1. \A q \in Requests : jobs[q].at = "create" => jobs[q].who \in Users
      BY JobsAreKnown
    <3>2. gone \subseteq Users
      BY DEF AccountsInv, AccountsTypeOK
    <3>3. \A v \in Users : users[v] = None => users'[v] = None
      BY <1>2, <2>4
    <3>4. DeletedStayDeleted'
      BY <1>4, <3>2, <3>3 DEF AccountsInv, DeletedStayDeleted
    <3>5. \A q \in Requests : jobs'[q].at = "create" => jobs'[q] = jobs[q]
      BY <2>1, <2>3
    <3> HIDE DEF j
    <3>6. CreatedOnce'
      BY <1>4, <3>1, <3>3, <3>5 DEF AccountsInv, CreatedOnce
    <3>7. QED
      BY <3>4, <3>6
  <2>8. VerifiedWasProved'
    BY <1>2, <2>4 DEF AccountsInv, VerifiedWasProved, Exists, Proved
  <2>9. QED
    BY <1>4, <2>3, <2>5, <2>6, <2>7, <2>8 DEF AccountsInv, OneDefault
<1>7. QED
  BY <1>5, <1>6 DEF SaveUser

LEMMA DeleteUserStep ==
  ASSUME AccountsInv, NEW r \in Requests, NEW u \in Users, DeleteUser(r, u)
  PROVE  AccountsInv'
<1> DEFINE j == Job("revoke", u, None, FALSE)
<1>1. j \in JobRecords /\ j.at = "revoke" /\ j.who = u
  BY DEF Job, JobRecords
<1>2. /\ jobs[r] = NoJob /\ jobs' = [jobs EXCEPT ![r] = j] /\ sessions' = Stale(u)
      /\ users' = [users EXCEPT ![u] = None] /\ gone' = gone \cup {u}
      /\ UNCHANGED <<groups, chosen, mail, work>>
  BY DEF DeleteUser, Goes
<1>3. Exists(u)
  BY DEF DeleteUser
<1>4. /\ jobs' \in [Requests -> JobRecords]
      /\ \A q \in Requests : jobs'[q] = IF q = r THEN j ELSE jobs[q]
  BY <1>1, <1>2 DEF AccountsInv
<1> HIDE DEF j
<1>5. /\ users' \in [Users -> Account \cup {None}]
      /\ \A v \in Users : users'[v] = IF v = u THEN None ELSE users[v]
  BY <1>2 DEF AccountsInv, AccountsTypeOK
<1>6. /\ sessions' \in [Tokens -> [who : Users \cup {None}, stale : BOOLEAN]]
      /\ FreeTokensAreFresh' /\ OldSessionsEnd'
  BY <1>1, <1>2, NoJobIsOne, StaleStep
<1>7. AccountsTypeOK'
  BY <1>2, <1>4, <1>5, <1>6, JobsAreAt DEF AccountsInv, AccountsTypeOK
<1>8. CreatedOnce'
  <2> SUFFICES ASSUME NEW q \in Requests, jobs'[q].at = "create"
               PROVE  /\ users'[jobs'[q].who] = None /\ jobs'[q].who \notin gone'
                      /\ \A p \in Requests :
                           jobs'[p].at = "create" /\ jobs'[p].who = jobs'[q].who => p = q
    BY DEF CreatedOnce
  <2>1. q # r /\ jobs'[q] = jobs[q] /\ jobs[q].at = "create"
    BY <1>1, <1>4
  <2>2. /\ users[jobs[q].who] = None /\ jobs[q].who \notin gone /\ jobs[q].who \in Users
        /\ \A p \in Requests : jobs[p].at = "create" /\ jobs[p].who = jobs[q].who => p = q
    BY <2>1, JobsAreKnown DEF AccountsInv, CreatedOnce
  <2>3. jobs[q].who # u
    BY <1>3, <2>2 DEF Exists
  <2>4. QED
    BY <1>1, <1>2, <1>4, <1>5, <2>1, <2>2, <2>3
<1>9. DeletedStayDeleted'
  <2>1. gone \subseteq Users
    BY DEF AccountsInv, AccountsTypeOK
  <2>2. QED
    BY <1>2, <1>5, <2>1 DEF AccountsInv, DeletedStayDeleted
<1>10. VerifiedWasProved'
  BY <1>5 DEF AccountsInv, VerifiedWasProved, Exists
<1>11. QED
  BY <1>2, <1>4, <1>6, <1>7, <1>8, <1>9, <1>10 DEF AccountsInv, OneDefault

-----------------------------------------------------------------------------
(* Accounts: codes, groups and restarts *)

LEMMA CodesStep ==
  ASSUME AccountsInv, (\E p \in Purposes, e \in Emails : SendCode(p, e)) \/ (\E c \in mail : CodeLapses(c))
  PROVE  AccountsInv'
<1>1. mail' \subseteq Purposes \X Emails /\ UNCHANGED <<users, gone, groups, chosen, sessions, jobs, work>>
  BY DEF SendCode, CodeLapses, AccountsInv, AccountsTypeOK
<1>2. QED
  BY <1>1 DEF AccountsInv, AccountsTypeOK, CreatedOnce, FreeTokensAreFresh, OldSessionsEnd,
     DeletedStayDeleted, VerifiedWasProved, Exists, OneDefault

\* Saving a group leaves one default group at most.
LEMMA MarkedKeepsOne ==
  ASSUME AccountsInv, NEW g \in Groups, NEW mark \in {"plain", "default"}, groups' = Marked(g, mark)
  PROVE  groups' \in [Groups -> {"none", "plain", "default"}] /\ OneDefault'
<1>1. groups' \in [Groups -> {"none", "plain", "default"}]
  BY DEF Marked, AccountsInv, AccountsTypeOK
<1>2. OneDefault'
  BY DEF Marked, AccountsInv, AccountsTypeOK, OneDefault
<1>3. QED
  BY <1>1, <1>2

\* A step of groups and the settings, of a request or of none.
LEMMA GroupsStep ==
  ASSUME AccountsInv, NEW r \in Requests, NEW j \in JobRecords, jobs[r].at # "revoke",
         j.at # "create", jobs' = [jobs EXCEPT ![r] = j],
         groups' \in [Groups -> {"none", "plain", "default"}], OneDefault',
         chosen' \in Groups \cup {None},
         UNCHANGED <<users, gone, sessions, mail, work>>
  PROVE  AccountsInv'
<1>1. /\ jobs' \in [Requests -> JobRecords]
      /\ \A q \in Requests : jobs'[q] = IF q = r THEN j ELSE jobs[q]
  BY DEF AccountsInv
<1>2. AccountsTypeOK'
  BY <1>1, JobsAreAt DEF AccountsInv, AccountsTypeOK
<1>3. CreatedOnce' /\ OldSessionsEnd'
  BY <1>1 DEF AccountsInv, CreatedOnce, OldSessionsEnd
<1>4. QED
  BY <1>1, <1>2, <1>3
  DEF AccountsInv, FreeTokensAreFresh, DeletedStayDeleted, VerifiedWasProved, Exists

LEMMA SaveGroupStep ==
  ASSUME AccountsInv, NEW r \in Requests, SaveGroup(r)
  PROVE  AccountsInv'
<1>1. jobs[r] \in [at : {"saveGroup"}, who : Groups, revokes : {FALSE},
                   copy : [mark : {"plain", "default"}, cfg : Groups \cup {None}]]
  BY JobsAreKnown DEF SaveGroup
<1>2. PICK j \in JobRecords : jobs' = [jobs EXCEPT ![r] = j] /\ j.at # "create"
  <2>1. CASE Ends(r)
    BY <2>1, NoJobIsOne DEF Ends
  <2>2. CASE Continues(r, "saveChosen")
    <3> DEFINE j == [jobs[r] EXCEPT !.at = "saveChosen"]
    <3>1. j \in JobRecords /\ j.at # "create"
      BY <1>1 DEF JobRecords
    <3>2. jobs' = [jobs EXCEPT ![r] = j]
      BY <2>2 DEF Continues, AccountsInv
    <3>3. QED
      BY <3>1, <3>2
  <2>3. QED
    BY <2>1, <2>2 DEF SaveGroup
<1>3. groups' \in [Groups -> {"none", "plain", "default"}] /\ OneDefault'
  <2>1. groups' = Marked(jobs[r].who, jobs[r].copy.mark)
    BY DEF SaveGroup
  <2>2. QED
    BY <1>1, <2>1, MarkedKeepsOne
<1>4. chosen' \in Groups \cup {None} /\ jobs[r].at # "revoke" /\ UNCHANGED <<users, gone, sessions, mail, work>>
  BY DEF SaveGroup, AccountsInv, AccountsTypeOK
<1>5. QED
  BY <1>2, <1>3, <1>4, GroupsStep

LEMMA SaveSettingsStep ==
  ASSUME AccountsInv, NEW r \in Requests, SaveSettings(r)
  PROVE  AccountsInv'
<1>1. chosen' \in Groups \cup {None}
  BY JobsAreKnown DEF SaveSettings
<1>2. jobs' = [jobs EXCEPT ![r] = NoJob] /\ jobs[r].at # "revoke"
  BY DEF SaveSettings, Ends
<1>3. /\ groups' \in [Groups -> {"none", "plain", "default"}] /\ OneDefault'
      /\ UNCHANGED <<users, gone, sessions, mail, work>>
  BY DEF SaveSettings, AccountsInv, AccountsTypeOK, OneDefault
<1>4. QED
  BY <1>1, <1>2, <1>3, NoJobIsOne, GroupsStep

LEMMA DeleteGroupStep ==
  ASSUME AccountsInv, NEW g \in Groups, DeleteGroup(g)
  PROVE  AccountsInv'
<1>1. groups' \in [Groups -> {"none", "plain", "default"}] /\ OneDefault'
  BY DEF DeleteGroup, AccountsInv, AccountsTypeOK, OneDefault
<1>2. UNCHANGED <<users, gone, chosen, sessions, mail, jobs, work>>
  BY DEF DeleteGroup
<1>3. QED
  BY <1>1, <1>2 DEF AccountsInv, AccountsTypeOK, CreatedOnce, FreeTokensAreFresh, OldSessionsEnd,
     DeletedStayDeleted, VerifiedWasProved, Exists

LEMMA RestartStep ==
  ASSUME AccountsInv, Restart
  PROVE  AccountsInv'
<1>1. groups' \in [Groups -> {"none", "plain", "default"}] /\ OneDefault' /\ chosen' \in Groups \cup {None}
  <2>1. CASE UNCHANGED groups
    BY <2>1 DEF Restart, AccountsInv, AccountsTypeOK, OneDefault, Present
  <2>2. ASSUME NEW g \in Groups, groups' = Marked(g, "default"), chosen' = g
        PROVE  groups' \in [Groups -> {"none", "plain", "default"}] /\ OneDefault' /\ chosen' \in Groups \cup {None}
    BY <2>2, MarkedKeepsOne
  <2>3. QED
    BY <2>1, <2>2 DEF Restart
<1>2. /\ jobs' \in [Requests -> JobRecords] /\ \A r \in Requests : jobs'[r] = NoJob
      /\ sessions' \in [Tokens -> [who : Users \cup {None}, stale : BOOLEAN]]
      /\ \A t \in Tokens : ~sessions'[t].stale
      /\ mail' = {} /\ UNCHANGED <<users, gone, work>>
  BY NoJobIsOne DEF Restart, NoSession
<1>3. AccountsTypeOK'
  BY <1>1, <1>2, JobsAreAt DEF AccountsInv, AccountsTypeOK
<1>4. CreatedOnce' /\ OldSessionsEnd' /\ FreeTokensAreFresh'
  BY <1>2, NoJobIsOne DEF CreatedOnce, OldSessionsEnd, FreeTokensAreFresh
<1>5. QED
  BY <1>1, <1>2, <1>3, <1>4 DEF AccountsInv, DeletedStayDeleted, VerifiedWasProved, Exists

-----------------------------------------------------------------------------
(* Accounts: the invariant holds *)

LEMMA AccountsStart == AccountsInit => AccountsInv
<1> SUFFICES ASSUME AccountsInit PROVE AccountsInv
  OBVIOUS
<1>1. AccountsAssumption
  BY PanelAssumption
<1>2. \A u \in Users : users[u] = IF u = FirstAdmin THEN Plain("admin", None) ELSE None
  BY DEF AccountsInit
<1>3. users \in [Users -> Account \cup {None}]
  BY DEF AccountsInit, Plain, Account
<1>4. jobs \in [Requests -> JobRecords] /\ \A r \in Requests : jobs[r] = NoJob
  BY NoJobIsOne DEF AccountsInit
<1>5. /\ sessions \in [Tokens -> [who : Users \cup {None}, stale : BOOLEAN]]
      /\ \A t \in Tokens : ~sessions[t].stale
  BY DEF AccountsInit, NoSession
<1>6. AccountsTypeOK
  BY <1>1, <1>3, <1>4, <1>5, JobsAreAt DEF AccountsInit, AccountsTypeOK, AccountsAssumption
<1>7. CreatedOnce /\ FreeTokensAreFresh /\ OldSessionsEnd
  BY <1>4, <1>5, NoJobIsOne DEF CreatedOnce, FreeTokensAreFresh, OldSessionsEnd
<1>8. VerifiedWasProved
  BY <1>2 DEF VerifiedWasProved, Exists, Plain
<1>9. DeletedStayDeleted /\ OneDefault
  BY DEF AccountsInit, DeletedStayDeleted, OneDefault
<1>10. QED
  BY <1>4, <1>6, <1>7, <1>8, <1>9 DEF AccountsInv

LEMMA AccountsStep == AccountsInv /\ (AccountsNext \/ UNCHANGED accountVars) => AccountsInv'
<1> SUFFICES ASSUME AccountsInv, AccountsNext \/ UNCHANGED accountVars PROVE AccountsInv'
  OBVIOUS
<1>1. ASSUME NEW r \in Requests, NEW u \in Users,
             \/ Login(r, u) \/ ChangeOwnPassword(r, u) \/ UpdateEmail(r, u) \/ UpdatePassword(r, u)
             \/ UpdateStanding(r, u) \/ UpdateGroupOf(r, u) \/ DeleteUser(r, u)
             \/ CreateUser(r, u) \/ Register(r, u) \/ BindOwnEmail(r, u)
      PROVE  AccountsInv'
  BY <1>1, LoginStep, PasswordStep, UpdateEmailStep, UpdateStandingStep, UpdateGroupOfStep,
     DeleteUserStep, CreateUserStep, RegisterStep, BindOwnEmailStep
<1>2. ASSUME NEW r \in Requests,
             \/ Issue(r) \/ Revoke(r) \/ SetUserEmail(r) \/ EnsureAnotherAdmin(r) \/ SaveUser(r)
             \/ Create(r) \/ FindByEmail(r) \/ SaveGroup(r) \/ UpdateSettings(r) \/ SaveSettings(r)
      PROVE  AccountsInv'
  BY <1>2, IssueStep, RevokeStep, SetUserEmailStep, CheckStep, SaveUserStep, CreateStep,
     FindByEmailStep, SaveGroupStep, UpdateSettingsStep, SaveSettingsStep
<1>3. CASE UNCHANGED accountVars
  BY <1>3 DEF accountVars, AccountsInv, AccountsTypeOK, CreatedOnce, FreeTokensAreFresh,
     OldSessionsEnd, DeletedStayDeleted, VerifiedWasProved, Exists, OneDefault
<1>4. QED
  BY <1>1, <1>2, <1>3, ResetPasswordStep, EditGroupStep, SessionEndsStep, CodesStep,
     DeleteGroupStep, RestartStep DEF AccountsNext

-----------------------------------------------------------------------------
(* The store: what a migration makes of an old database *)

LimitRecord(g) == g = [from |-> g.from, to |-> g.to, rules |-> g.rules]

\* The fields of a database, and that those of many are functions.
Formed(d) ==
  /\ d = [version |-> d.version, settings |-> d.settings, users |-> d.users, codes |-> d.codes,
          groups |-> d.groups, default |-> d.default, oldLogs |-> d.oldLogs]
  /\ d.users = [p \in People |-> d.users[p]] /\ d.codes = [p \in People |-> d.codes[p]]
  /\ d.groups = [g \in DOMAIN d.groups |-> d.groups[g]]
  /\ \A g \in DOMAIN d.groups : LimitRecord(d.groups[g])

\* A database of schema 1, or an empty one, also once its default group has been made; and
\* one of schema 2.
FirstSchema(d) ==
  /\ Formed(d) /\ d.version \in {0, 1}
  /\ DOMAIN d.groups \subseteq {Store!Default} /\ d.default \in {Store!NoGroup, Store!Default}
  /\ \A p \in People : d.users[p] = None \/ \E u \in OldUsers : d.users[p] = Store!OldUser(u)
  /\ \A p \in People : d.codes[p] = None
SecondSchema(d) ==
  /\ Formed(d) /\ d.version = 2 /\ d.default = Store!Default
  /\ DOMAIN d.groups = {Store!Default, Store!Paid}
  /\ \A g \in DOMAIN d.groups : d.groups[g] \in [from : Int, to : Int, rules : Int]
  /\ \A p \in People : \E g \in DOMAIN d.groups :
       d.users[p] = Store!NewUser([admin |-> FALSE], g)

LEMMA EmptyIsFormed == Formed(Store!Empty) /\ FirstSchema(Store!Empty)
<1>1. Formed(Store!Empty)
  BY DEF Formed, LimitRecord, Store!Empty
<1>2. QED
  BY <1>1 DEF FirstSchema, Store!Empty

LEMMA OldDatabases ==
  ASSUME NEW v \in Shapes, NEW d \in Store!Databases(v)
  PROVE  (d.version = 0 /\ FirstSchema(d)) \/ SecondSchema(d)
<1>1. v \in {0, 1, 2} /\ OldGroups \subseteq [from : Int, to : Int, rules : Int]
  BY PanelAssumption DEF Store!MigrationAssumption
<1>2. CASE v = 0
  <2>1. d = Store!Empty
    BY <1>2 DEF Store!Databases
  <2>2. QED
    BY <2>1, EmptyIsFormed DEF Store!Empty
<1>3. CASE v = 1
  <2>1. PICK us \in Store!OldPeople : d = Store!OfSchema1(us)
    BY <1>3 DEF Store!Databases
  <2>2. /\ d.version = 0 /\ d.default = Store!NoGroup /\ DOMAIN d.groups = {}
        /\ \A p \in People : d.codes[p] = None
        /\ \A p \in People : d.users[p] = IF us[p] = None THEN None ELSE Store!OldUser(us[p])
    BY <2>1 DEF Store!OfSchema1, Store!Empty
  <2>3. Formed(d)
    BY <2>1 DEF Formed, LimitRecord, Store!OfSchema1, Store!Empty
  <2>4. us \in [People -> OldUsers \cup {None}]
    BY DEF Store!OldPeople
  <2>5. QED
    BY <2>2, <2>3, <2>4 DEF FirstSchema
<1>4. CASE v = 2
  <2>1. PICK paid \in OldGroups, home \in [People -> {Store!Paid, Store!Default}] :
          d = Store!OfSchema2(paid, home)
    BY <1>4 DEF Store!Databases
  <2>2. /\ d.version = 2 /\ d.default = Store!Default /\ DOMAIN d.groups = {Store!Default, Store!Paid}
        /\ \A p \in People : d.users[p] = Store!NewUser([admin |-> FALSE], home[p])
        /\ \A g \in DOMAIN d.groups : d.groups[g] \in [from : Int, to : Int, rules : Int]
    BY <1>1, <2>1 DEF Store!OfSchema2, Store!Empty, Store!NoLimits
  <2>3. \A g \in DOMAIN d.groups : LimitRecord(d.groups[g])
    BY <2>2 DEF LimitRecord
  <2>4. Formed(d)
    BY <2>1, <2>3 DEF Formed, Store!OfSchema2, Store!Empty
  <2>5. QED
    BY <2>2, <2>4 DEF SecondSchema
<1>5. QED
  BY <1>1, <1>2, <1>3, <1>4

\* The default group is made once, and the database is otherwise left as it was.
LEMMA DefaultIsEnsured ==
  ASSUME NEW d, Formed(d), d.default \in {Store!NoGroup, Store!Default}
  PROVE  LET e == Store!EnsureDefaultGroup(d) IN
         /\ Formed(e) /\ e.default = Store!Default
         /\ DOMAIN e.groups = DOMAIN d.groups \cup {Store!Default}
         /\ e.version = d.version /\ e.settings = d.settings /\ e.users = d.users
         /\ e.codes = d.codes
<1> DEFINE e == Store!EnsureDefaultGroup(d)
           groups2 == IF Store!Default \in DOMAIN d.groups THEN d.groups
                      ELSE [g \in DOMAIN d.groups \cup {Store!Default} |->
                              IF g = Store!Default THEN Store!NoLimits ELSE d.groups[g]]
<1>1. e = [d EXCEPT !.groups = groups2, !.default = Store!Default]
  BY DEF Store!EnsureDefaultGroup
<1>2. /\ DOMAIN groups2 = DOMAIN d.groups \cup {Store!Default}
      /\ groups2 = [g \in DOMAIN groups2 |-> groups2[g]]
      /\ \A g \in DOMAIN groups2 : LimitRecord(groups2[g])
  BY DEF Formed, LimitRecord, Store!NoLimits
<1> HIDE DEF e, groups2
<1>3. /\ e.groups = groups2 /\ e.default = Store!Default /\ e.version = d.version
      /\ e.settings = d.settings /\ e.users = d.users /\ e.codes = d.codes
      /\ e = [version |-> e.version, settings |-> e.settings, users |-> e.users, codes |-> e.codes,
              groups |-> e.groups, default |-> e.default, oldLogs |-> e.oldLogs]
  BY <1>1 DEF Formed
<1>4. Formed(e)
  BY <1>2, <1>3 DEF Formed
<1>5. QED
  BY <1>2, <1>3, <1>4 DEF e

\* Schema 2 of a database of schema 1: a group for each combination of limits.
LEMMA SecondOfFirst ==
  ASSUME NEW d, FirstSchema(d)
  PROVE  LET m == Store!V1ToV2(d) IN
         /\ Formed(m) /\ m.version = 2 /\ m.default = Store!Default
         /\ Store!Default \in DOMAIN m.groups
         /\ \A p \in People :
              /\ m.users[p] = IF d.users[p] = None THEN None
                              ELSE Store!NewUser(d.users[p], Store!Home(d.users[p]))
              /\ m.codes[p] = IF d.users[p] = None THEN None ELSE d.users[p].key
         /\ \A p \in People : d.users[p] # None /\ Store!HasQuota(d.users[p]) =>
              LET u == d.users[p] IN
              /\ Store!Quota(u) \in DOMAIN m.groups
              /\ m.groups[Store!Quota(u)] = [from |-> u.from, to |-> u.to, rules |-> u.rules]
<1> DEFINE e == Store!EnsureDefaultGroup(d)
           quotas == {Store!Quota(u) : u \in {u \in {d.users[p] : p \in Store!Members(d)} : Store!HasQuota(u)}}
           groups2 == [g \in DOMAIN e.groups \cup quotas |->
                         IF g \in quotas THEN [from |-> g[1], to |-> g[2], rules |-> g[3]] ELSE e.groups[g]]
           users2 == [p \in People |-> IF e.users[p] = None THEN None
                                       ELSE Store!NewUser(e.users[p], Store!Home(e.users[p]))]
           codes2 == Store!CodesFromUsers(d)
           m == Store!V1ToV2(d)
<1>1. /\ Formed(e) /\ e.default = Store!Default /\ Store!Default \in DOMAIN e.groups
      /\ e.users = d.users
  BY DefaultIsEnsured DEF FirstSchema
<1>2. m = [e EXCEPT !.version = 2, !.settings = Store!Widened(d), !.groups = groups2,
                    !.codes = codes2, !.users = users2]
  BY DEF Store!V1ToV2
<1>3. /\ DOMAIN groups2 = DOMAIN e.groups \cup quotas
      /\ groups2 = [g \in DOMAIN groups2 |-> groups2[g]]
      /\ \A g \in DOMAIN groups2 : LimitRecord(groups2[g])
  BY <1>1 DEF Formed, LimitRecord
<1>4. /\ codes2 = [p \in People |-> codes2[p]]
      /\ \A p \in People : codes2[p] = IF d.users[p] = None THEN None ELSE d.users[p].key
  BY DEF Store!CodesFromUsers, FirstSchema
<1>5. /\ users2 = [p \in People |-> users2[p]]
      /\ \A p \in People : users2[p] = IF d.users[p] = None THEN None
                                       ELSE Store!NewUser(d.users[p], Store!Home(d.users[p]))
  BY <1>1
<1>6. \A p \in People : d.users[p] # None /\ Store!HasQuota(d.users[p]) =>
        LET u == d.users[p] IN
        /\ Store!Quota(u) \in quotas
        /\ groups2[Store!Quota(u)] = [from |-> u.from, to |-> u.to, rules |-> u.rules]
  <2> SUFFICES ASSUME NEW p \in People, d.users[p] # None, Store!HasQuota(d.users[p])
               PROVE  LET u == d.users[p] IN
                      /\ Store!Quota(u) \in quotas
                      /\ groups2[Store!Quota(u)] = [from |-> u.from, to |-> u.to, rules |-> u.rules]
    OBVIOUS
  <2>1. Store!Quota(d.users[p]) \in quotas
    BY DEF Store!Members
  <2>2. groups2[Store!Quota(d.users[p])] =
          [from |-> Store!Quota(d.users[p])[1], to |-> Store!Quota(d.users[p])[2],
           rules |-> Store!Quota(d.users[p])[3]]
    BY <2>1
  <2>3. QED
    BY <2>1, <2>2 DEF Store!Quota
<1> HIDE DEF e, quotas, groups2, users2, codes2, m
<1>7. /\ m.version = 2 /\ m.default = Store!Default /\ m.groups = groups2 /\ m.users = users2
      /\ m.codes = codes2
      /\ m = [version |-> m.version, settings |-> m.settings, users |-> m.users, codes |-> m.codes,
              groups |-> m.groups, default |-> m.default, oldLogs |-> m.oldLogs]
  BY <1>1, <1>2 DEF Formed
<1>8. Formed(m)
  BY <1>3, <1>4, <1>5, <1>7 DEF Formed
<1>9. QED
  BY <1>1, <1>3, <1>4, <1>5, <1>6, <1>7, <1>8 DEF m

\* Schema 3 of a database of schema 2: no group has the limit 0.
LEMMA ThirdOfSecond ==
  ASSUME NEW d, Formed(d)
  PROVE  LET m == Store!V2ToV3(d) IN
         /\ Formed(m) /\ m.version = 3 /\ m.default = d.default /\ m.settings = d.settings
         /\ m.users = d.users /\ m.codes = d.codes /\ DOMAIN m.groups = DOMAIN d.groups
         /\ \A g \in DOMAIN d.groups :
              m.groups[g] = Store!Meant(d.groups[g])
<1> DEFINE groups2 == [g \in DOMAIN d.groups |-> Store!Meant(d.groups[g])]
           m == Store!V2ToV3(d)
<1>1. m = [d EXCEPT !.version = 3, !.groups = groups2]
  BY DEF Store!V2ToV3
<1>2. \A g \in DOMAIN d.groups : LimitRecord(groups2[g])
  BY DEF Formed, LimitRecord, Store!Meant
<1>3. /\ DOMAIN groups2 = DOMAIN d.groups
      /\ \A g \in DOMAIN d.groups :
           groups2[g] = Store!Meant(d.groups[g])
      /\ groups2 = [g \in DOMAIN groups2 |-> groups2[g]]
  OBVIOUS
<1> HIDE DEF m, groups2
<1>4. /\ m.version = 3 /\ m.groups = groups2 /\ m.default = d.default /\ m.settings = d.settings
      /\ m.users = d.users /\ m.codes = d.codes
      /\ m = [version |-> m.version, settings |-> m.settings, users |-> m.users, codes |-> m.codes,
              groups |-> m.groups, default |-> m.default, oldLogs |-> m.oldLogs]
  BY <1>1 DEF Formed
<1>5. Formed(m)
  BY <1>2, <1>3, <1>4 DEF Formed
<1>6. QED
  BY <1>3, <1>4, <1>5 DEF m

\* What the migrated database keeps of the old one.
Renewed(b, m) ==
  /\ Formed(m) /\ m.version = 3 /\ m.default = Store!Default
  /\ Store!Default \in DOMAIN m.groups /\ \A g \in DOMAIN m.groups : m.groups[g].rules # 0
  /\ \A p \in People \ Store!Members(b) : m.users[p] = None
  /\ \A p \in Store!Members(b) :
       /\ m.users[p] # None /\ (m.users[p].admin \/ m.users[p].group \in DOMAIN m.groups)
       /\ m.codes[p] = IF b.users[p].key # None THEN b.users[p].key ELSE b.codes[p]
       /\ Store!CouldUse(b, p) \in {{}, Store!MayUse(m, p)}
       /\ \/ Store!CouldHave(b, p) = Store!MayHave(m, p)
          \/ b.version = 0 /\ Store!CouldHave(b, p) = 0

\* A user of schema 1, with limits of his own or not, or an administrator.
LEMMA FirstRights ==
  ASSUME NEW b, b.version = 0, NEW d, FirstSchema(d), d.users = b.users,
         NEW p \in People, b.users[p] # None
  PROVE  LET m == Store!V2ToV3(Store!V1ToV2(d)) IN
         /\ m.users[p] # None /\ (m.users[p].admin \/ m.users[p].group \in DOMAIN m.groups)
         /\ Store!CouldUse(b, p) \in {{}, Store!MayUse(m, p)}
         /\ \/ Store!CouldHave(b, p) = Store!MayHave(m, p)
            \/ b.version = 0 /\ Store!CouldHave(b, p) = 0
<1> DEFINE n == Store!V1ToV2(d)
           m == Store!V2ToV3(n)
           w == b.users[p]
<1>1. PICK u \in OldUsers : w = Store!OldUser(u)
  BY DEF FirstSchema
<1>2. /\ u.admin \in BOOLEAN /\ u.from \in Nat /\ u.to \in Nat /\ u.rules \in Nat
      /\ Store!NewUser(u, Store!Home(u)) # None
  BY PanelAssumption DEF Store!MigrationAssumption
<1>3. /\ w.admin = u.admin /\ w.from = u.from /\ w.to = u.to /\ w.rules = u.rules
  BY <1>1 DEF Store!OldUser
<1>4. /\ Formed(n) /\ Store!Default \in DOMAIN n.groups
      /\ n.users[p] = Store!NewUser(w, Store!Home(w))
      /\ Store!HasQuota(w) => /\ Store!Quota(w) \in DOMAIN n.groups
                              /\ n.groups[Store!Quota(w)] = [from |-> w.from, to |-> w.to, rules |-> w.rules]
  BY SecondOfFirst
<1> HIDE DEF n
<1>5. /\ m.users = n.users /\ DOMAIN m.groups = DOMAIN n.groups
      /\ \A g \in DOMAIN n.groups : m.groups[g] = Store!Meant(n.groups[g])
  BY <1>4, ThirdOfSecond
<1> HIDE DEF m
<1>6. m.users[p] = [admin |-> u.admin, group |-> Store!Home(w), key |-> None, from |-> 0, to |-> 0, rules |-> 0]
  BY <1>3, <1>4, <1>5 DEF Store!NewUser
<1>7. m.users[p] # None
  BY <1>2, <1>3, <1>6 DEF Store!NewUser, Store!Home, Store!HasQuota, Store!Quota
<1>8. CASE u.admin
  BY <1>3, <1>6, <1>7, <1>8 DEF Store!CouldUse, Store!CouldHave, Store!MayUse, Store!MayHave, m, n
<1>9. CASE ~u.admin /\ Store!HasQuota(w)
  <2>1. Store!Home(w) = Store!Quota(w)
    BY <1>3, <1>9 DEF Store!Home
  <2>2. m.users[p].group \in DOMAIN m.groups
    BY <1>4, <1>5, <1>6, <1>9, <2>1
  <2>3. Store!Limits(m, p) = Store!Meant([from |-> u.from, to |-> u.to, rules |-> u.rules])
    BY <1>3, <1>4, <1>5, <1>6, <1>9, <2>1 DEF Store!Limits
  <2>4. Store!Limits(m, p) = [from |-> u.from, to |-> u.to, rules |-> IF u.rules = 0 THEN -1 ELSE u.rules]
    BY <2>3 DEF Store!Meant
  <2>5. Store!CouldUse(b, p) \in {{}, Store!MayUse(m, p)}
    BY <1>2, <1>3, <1>6, <1>9, <2>4 DEF Store!CouldUse, Store!MayUse, Store!Ports
  <2>6. \/ Store!CouldHave(b, p) = Store!MayHave(m, p)
        \/ b.version = 0 /\ Store!CouldHave(b, p) = 0
    BY <1>2, <1>3, <1>6, <1>9, <2>4 DEF Store!CouldHave, Store!MayHave, Store!Rules
  <2>7. QED
    BY <1>7, <2>2, <2>5, <2>6 DEF m, n
<1>10. CASE ~u.admin /\ ~Store!HasQuota(w)
  <2>1. u.from = 0 /\ u.to = 0 /\ u.rules = 0
    BY <1>2, <1>3, <1>10 DEF Store!HasQuota
  <2>2. m.users[p].group \in DOMAIN m.groups
    BY <1>3, <1>4, <1>5, <1>6, <1>10 DEF Store!Home
  <2>3. Store!CouldUse(b, p) = {} /\ Store!CouldHave(b, p) = 0
    BY <1>3, <1>10, <2>1 DEF Store!CouldUse, Store!CouldHave
  <2>4. QED
    BY <1>7, <2>2, <2>3 DEF m, n
<1>11. QED
  BY <1>2, <1>8, <1>9, <1>10

\* A user of schema 2.
LEMMA SecondRights ==
  ASSUME NEW b, SecondSchema(b), NEW p \in People
  PROVE  LET m == Store!V2ToV3(b) IN
         /\ m.users[p] # None /\ m.users[p].group \in DOMAIN m.groups
         /\ b.users[p].key = None
         /\ Store!CouldUse(b, p) = Store!MayUse(m, p)
         /\ Store!CouldHave(b, p) = Store!MayHave(m, p)
<1> DEFINE m == Store!V2ToV3(b)
<1>1. PICK g \in DOMAIN b.groups : b.users[p] = Store!NewUser([admin |-> FALSE], g)
  BY DEF SecondSchema
<1>2. /\ m.users = b.users /\ DOMAIN m.groups = DOMAIN b.groups
      /\ m.groups[g] = Store!Meant(b.groups[g]) /\ m.settings = b.settings
  BY ThirdOfSecond DEF SecondSchema
<1> HIDE DEF m
<1>3. b.users[p] # None
  BY <1>1, PanelAssumption DEF Store!MigrationAssumption, SecondSchema
<1>4. b.users[p].admin = FALSE /\ b.users[p].group = g /\ b.users[p].key = None
  BY <1>1 DEF Store!NewUser
<1>5. Store!Limits(b, p) = b.groups[g] /\ Store!Limits(m, p) = Store!Meant(b.groups[g])
  BY <1>2, <1>4 DEF Store!Limits
<1>6. Store!CouldUse(b, p) = Store!MayUse(m, p)
  BY <1>2, <1>4, <1>5 DEF SecondSchema, Store!CouldUse, Store!MayUse
<1>7. Store!CouldHave(b, p) = Store!MayHave(m, p)
  BY <1>2, <1>4, <1>5 DEF SecondSchema, Store!CouldHave, Store!MayHave
<1>8. QED
  BY <1>2, <1>3, <1>4, <1>6, <1>7 DEF m

LEMMA MigrationRenews ==
  ASSUME NEW v \in Shapes, NEW b \in Store!Databases(v)
  PROVE  Renewed(b, Store!Migrated(b)) /\ Store!Members(b) \subseteq People /\ b.version # 3
<1> DEFINE m == Store!Migrated(b)
<1>1. CASE b.version = 0 /\ FirstSchema(b)
  <2> DEFINE d == IF Store!VersionOf(b) < 1 THEN Store!Fresh(b) ELSE b
  <2>1. FirstSchema(d) /\ d.users = b.users /\ Store!VersionOf(d) = 1
    <3>1. CASE Store!Members(b) = {}
      <4> DEFINE s == [b EXCEPT !.settings = Defaults]
                 e == Store!EnsureDefaultGroup(s)
      <4>1. d = [e EXCEPT !.version = 1]
        BY <1>1, <3>1 DEF Store!VersionOf, Store!Fresh
      <4>2. /\ Formed(s) /\ s.default = b.default /\ s.groups = b.groups /\ s.users = b.users
            /\ s.codes = b.codes
        BY <1>1 DEF FirstSchema, Formed
      <4> HIDE DEF s
      <4>3. /\ Formed(e) /\ e.default = Store!Default /\ e.users = b.users /\ e.codes = b.codes
            /\ DOMAIN e.groups = DOMAIN b.groups \cup {Store!Default}
        BY <1>1, <4>2, DefaultIsEnsured DEF FirstSchema
      <4> HIDE DEF e, d
      <4>4. /\ Formed(d) /\ d.version = 1 /\ d.default = Store!Default /\ d.users = b.users
            /\ d.codes = b.codes /\ d.groups = e.groups
        BY <4>1, <4>3 DEF Formed
      <4>5. QED
        BY <1>1, <4>3, <4>4 DEF FirstSchema, Store!VersionOf
    <3>2. CASE Store!Members(b) # {}
      BY <1>1, <3>2 DEF Store!VersionOf
    <3>3. QED
      BY <3>1, <3>2
  <2>2. m = Store!V2ToV3(Store!V1ToV2(d))
    <3>1. Store!VersionOf(b) \in {0, 1}
      BY <1>1 DEF Store!VersionOf
    <3>2. QED
      BY <2>1, <3>1 DEF Store!Migrated, Store!SchemaVersion
  <2> HIDE DEF d, m
  <2>3. /\ Formed(Store!V1ToV2(d)) /\ Store!V1ToV2(d).default = Store!Default
        /\ Store!Default \in DOMAIN Store!V1ToV2(d).groups
        /\ \A p \in People :
             /\ b.users[p] = None => Store!V1ToV2(d).users[p] = None
             /\ Store!V1ToV2(d).codes[p] = IF b.users[p] = None THEN None ELSE b.users[p].key
    BY <2>1, SecondOfFirst
  <2> DEFINE n == Store!V1ToV2(d)
  <2>4. /\ Formed(m) /\ m.version = 3 /\ m.default = n.default /\ m.users = n.users
        /\ m.codes = n.codes /\ DOMAIN m.groups = DOMAIN n.groups
        /\ \A g \in DOMAIN n.groups : m.groups[g] = Store!Meant(n.groups[g])
    BY <2>2, <2>3, ThirdOfSecond
  <2>5. \A g \in DOMAIN m.groups : m.groups[g].rules # 0
    <3>1. \A g \in DOMAIN n.groups : LimitRecord(n.groups[g])
      BY <2>3 DEF Formed
    <3> HIDE DEF n
    <3>2. \A g \in DOMAIN n.groups : Store!Meant(n.groups[g]).rules # 0
      BY <3>1 DEF LimitRecord, Store!Meant
    <3>3. QED
      BY <2>4, <3>2
  <2>6. \A p \in People : b.users[p] # None =>
          /\ m.users[p] # None /\ (m.users[p].admin \/ m.users[p].group \in DOMAIN m.groups)
          /\ Store!CouldUse(b, p) \in {{}, Store!MayUse(m, p)}
          /\ \/ Store!CouldHave(b, p) = Store!MayHave(m, p)
             \/ b.version = 0 /\ Store!CouldHave(b, p) = 0
    BY <1>1, <2>1, <2>2, FirstRights
  <2>7. \A p \in People : b.codes[p] = None
    BY <1>1 DEF FirstSchema
  <2>8. QED
    BY <1>1, <2>3, <2>4, <2>5, <2>6, <2>7 DEF Renewed, Store!Members, m
<1>2. CASE SecondSchema(b)
  <2>1. m = Store!V2ToV3(b)
    BY <1>2 DEF Store!Migrated, Store!VersionOf, Store!SchemaVersion, SecondSchema
  <2> HIDE DEF m
  <2>2. /\ Formed(m) /\ m.version = 3 /\ m.default = b.default /\ m.users = b.users
        /\ m.codes = b.codes /\ DOMAIN m.groups = DOMAIN b.groups
        /\ \A g \in DOMAIN b.groups : m.groups[g] = Store!Meant(b.groups[g])
    BY <1>2, <2>1, ThirdOfSecond DEF SecondSchema
  <2>3. \A g \in DOMAIN m.groups : m.groups[g].rules # 0
    BY <1>2, <2>2 DEF SecondSchema, Formed, LimitRecord, Store!Meant
  <2>4. \A p \in People :
          /\ m.users[p] # None /\ m.users[p].group \in DOMAIN m.groups
          /\ b.users[p].key = None
          /\ Store!CouldUse(b, p) = Store!MayUse(m, p)
          /\ Store!CouldHave(b, p) = Store!MayHave(m, p)
    BY <1>2, <2>1, SecondRights
  <2>5. QED
    BY <1>2, <2>2, <2>3, <2>4 DEF Renewed, SecondSchema, Store!Members, m
<1>3. QED
  BY <1>1, <1>2, OldDatabases

-----------------------------------------------------------------------------
(* The store: opened again and again *)

\* A database as it was migrated, but for what the administrator has changed since.
Follows ==
  LET m == Store!Migrated(before) IN
  /\ Formed(db) /\ db.version = 3 /\ db.default = Store!Default /\ db.settings = m.settings
  /\ DOMAIN db.groups = DOMAIN m.groups
  /\ \A g \in DOMAIN m.groups :
       db.groups[g] = IF <<"group", g>> \in touched THEN [m.groups[g] EXCEPT !.rules = 0]
                      ELSE m.groups[g]
  /\ \A p \in Store!Members(before) :
       /\ db.users[p] = m.users[p]
       /\ db.codes[p] = IF <<"code", p>> \in touched THEN None ELSE m.codes[p]
       /\ <<"group", db.users[p].group>> \in touched => <<"limits", p>> \in touched
  /\ \A p \in People : db.users[p] # None => db.users[p].admin \/ db.users[p].group \in DOMAIN db.groups

\* The database is the old one until it is migrated.
MigrationInv ==
  /\ \E v \in Shapes : before \in Store!Databases(v)
  /\ \/ db = before /\ touched = {} /\ phase \in {"closed", "buckets"}
     \/ Follows

LEMMA MigrateStep ==
  ASSUME MigrationInv, Store!Migrate
  PROVE  MigrationInv'
<1>1. CASE db = before /\ touched = {}
  <2>1. db' = Store!Migrated(before) /\ before' = before /\ touched' = {}
    BY <1>1 DEF Store!Migrate
  <2>2. Renewed(before, db') /\ Store!Members(before) \subseteq People
    BY <2>1, MigrationRenews DEF MigrationInv
  <2>3. \A p \in People : db'.users[p] # None => p \in Store!Members(before)
    BY <2>2 DEF Renewed
  <2>4. Follows'
    BY <2>1, <2>2, <2>3 DEF Follows, Renewed
  <2>5. QED
    BY <2>1, <2>4 DEF MigrationInv
<1>2. CASE Follows
  <2>1. db' = db /\ before' = before /\ touched' = touched
    <3>1. Store!VersionOf(db) = 3
      BY <1>2 DEF Follows, Store!VersionOf
    <3>2. QED
      BY <3>1 DEF Store!Migrate, Store!Migrated, Store!SchemaVersion
  <2>2. QED
    BY <1>2, <2>1 DEF MigrationInv, Follows
<1>3. QED
  BY <1>1, <1>2 DEF MigrationInv

\* The other steps while nothing is migrated.
LEMMA OpenStep ==
  ASSUME MigrationInv, Store!CreateBuckets \/ Store!Crash \/ UNCHANGED storeVars
  PROVE  MigrationInv'
<1>1. db' = db /\ before' = before /\ touched' = touched /\ (phase' \in {"closed", "buckets"} \/ phase' = phase)
  BY DEF Store!CreateBuckets, Store!Crash, storeVars
<1>2. QED
  BY <1>1 DEF MigrationInv, Follows

\* A database keeps its form when one of its fields is another function of the same.
LEMMA DropLogsStep ==
  ASSUME MigrationInv, Store!DropLegacyConnLogs
  PROVE  MigrationInv'
<1>1. Follows /\ db' = [db EXCEPT !.oldLogs = 0] /\ before' = before /\ touched' = touched
  BY DEF MigrationInv, Store!DropLegacyConnLogs
<1>2. Formed(db)
  BY <1>1 DEF Follows
<1>3. /\ Formed(db') /\ db'.version = db.version /\ db'.settings = db.settings /\ db'.users = db.users
      /\ db'.codes = db.codes /\ db'.groups = db.groups /\ db'.default = db.default
  BY <1>1, <1>2 DEF Formed
<1>4. Follows'
  BY <1>1, <1>3 DEF Follows
<1>5. QED
  BY <1>1, <1>4 DEF MigrationInv

LEMMA AddUserStep ==
  ASSUME MigrationInv, NEW p \in People, Store!AddUser(p)
  PROVE  MigrationInv'
<1> DEFINE u == Store!NewUser([admin |-> FALSE], db.default)
<1>1. Follows /\ db' = [db EXCEPT !.users[p] = u] /\ before' = before /\ touched' = touched
  BY DEF MigrationInv, Store!AddUser
<1>2. Formed(db) /\ db.default = Store!Default
  BY <1>1 DEF Follows
<1>3. u.group = Store!Default
  BY <1>2 DEF Store!NewUser
<1> HIDE DEF u
<1>4. /\ Formed(db') /\ db'.version = db.version /\ db'.settings = db.settings
      /\ db'.codes = db.codes /\ db'.groups = db.groups /\ db'.default = db.default
      /\ \A q \in People : db'.users[q] = IF q = p THEN u ELSE db.users[q]
  BY <1>1, <1>2 DEF Formed
<1>5. PICK v \in Shapes : before \in Store!Databases(v)
  BY DEF MigrationInv
<1>6. Renewed(before, Store!Migrated(before)) /\ Store!Members(before) \subseteq People
  BY <1>5, MigrationRenews
<1>7. p \notin Store!Members(before)
  <2>1. db.users[p] = None
    BY DEF Store!AddUser, Store!Members
  <2>2. QED
    BY <1>1, <1>6, <2>1 DEF Follows, Renewed
<1>8. Store!Default \in DOMAIN db.groups
  BY <1>1, <1>6 DEF Follows, Renewed
<1>9. Follows'
  BY <1>1, <1>3, <1>4, <1>6, <1>7, <1>8 DEF Follows
<1>10. QED
  BY <1>1, <1>5, <1>9 DEF MigrationInv

LEMMA CloseGroupStep ==
  ASSUME MigrationInv, NEW g \in DOMAIN db.groups, Store!CloseGroup(g)
  PROVE  MigrationInv'
<1> DEFINE new == {<<"limits", p>> : p \in {p \in Store!Members(db) : db.users[p].group = g}}
<1>1. /\ Follows /\ db' = [db EXCEPT !.groups[g].rules = 0] /\ before' = before
      /\ touched' = (touched \cup {<<"group", g>>}) \cup new
  BY DEF MigrationInv, Store!CloseGroup
<1>2. Formed(db)
  BY <1>1 DEF Follows
<1>3. /\ Formed(db') /\ db'.version = db.version /\ db'.settings = db.settings /\ db'.users = db.users
      /\ db'.codes = db.codes /\ db'.default = db.default /\ DOMAIN db'.groups = DOMAIN db.groups
      /\ \A h \in DOMAIN db.groups :
           db'.groups[h] = IF h = g THEN [db.groups[h] EXCEPT !.rules = 0] ELSE db.groups[h]
  BY <1>1, <1>2 DEF Formed, LimitRecord
<1>4. /\ \A h : <<"group", h>> \in touched' <=> <<"group", h>> \in touched \/ h = g
      /\ \A p : <<"code", p>> \in touched' <=> <<"code", p>> \in touched
      /\ \A p : <<"limits", p>> \in touched' <=>
                  <<"limits", p>> \in touched \/ (p \in Store!Members(db) /\ db.users[p].group = g)
  BY <1>1
<1> HIDE DEF new
<1>5. PICK v \in Shapes : before \in Store!Databases(v)
  BY DEF MigrationInv
<1>6. Renewed(before, Store!Migrated(before)) /\ Store!Members(before) \subseteq People
  BY <1>5, MigrationRenews
<1>7. Store!Members(before) \subseteq Store!Members(db)
  BY <1>1, <1>6 DEF Follows, Renewed, Store!Members
<1> DEFINE m == Store!Migrated(before)
<1>8. /\ DOMAIN db.groups = DOMAIN m.groups
      /\ \A h \in DOMAIN m.groups :
           db'.groups[h] = IF <<"group", h>> \in touched' THEN [m.groups[h] EXCEPT !.rules = 0]
                           ELSE m.groups[h]
  <2>1. DOMAIN db.groups = DOMAIN m.groups
    BY <1>1 DEF Follows
  <2>2. \A h \in DOMAIN m.groups :
          db.groups[h] = IF <<"group", h>> \in touched THEN [m.groups[h] EXCEPT !.rules = 0]
                         ELSE m.groups[h]
    BY <1>1 DEF Follows
  <2>3. \A h \in DOMAIN m.groups : LimitRecord(m.groups[h])
    BY <1>6 DEF Renewed, Formed
  <2> HIDE DEF m
  <2>4. QED
    BY <1>3, <1>4, <2>1, <2>2, <2>3 DEF LimitRecord
<1>9. Follows'
  <2>1. /\ Formed(db') /\ db'.version = 3 /\ db'.default = Store!Default
        /\ db'.settings = m.settings /\ DOMAIN db'.groups = DOMAIN m.groups
    BY <1>1, <1>3 DEF Follows
  <2>2. \A p \in Store!Members(before) :
          /\ db'.users[p] = m.users[p]
          /\ db'.codes[p] = IF <<"code", p>> \in touched' THEN None ELSE m.codes[p]
          /\ <<"group", db'.users[p].group>> \in touched' => <<"limits", p>> \in touched'
    BY <1>1, <1>3, <1>4, <1>7 DEF Follows
  <2>3. \A p \in People : db'.users[p] # None =>
                            db'.users[p].admin \/ db'.users[p].group \in DOMAIN db'.groups
    BY <1>1, <1>3 DEF Follows
  <2>4. before' = before
    BY <1>1
  <2>5. QED
    BY <1>8, <2>1, <2>2, <2>3, <2>4 DEF Follows
<1>10. QED
  BY <1>1, <1>5, <1>9 DEF MigrationInv

LEMMA DropCodeStep ==
  ASSUME MigrationInv, NEW p \in People, Store!DropCode(p)
  PROVE  MigrationInv'
<1>1. /\ Follows /\ db' = [db EXCEPT !.codes[p] = None] /\ before' = before
      /\ touched' = touched \cup {<<"code", p>>}
  BY DEF MigrationInv, Store!DropCode
<1>2. Formed(db)
  BY <1>1 DEF Follows
<1>3. /\ Formed(db') /\ db'.version = db.version /\ db'.settings = db.settings /\ db'.users = db.users
      /\ db'.groups = db.groups /\ db'.default = db.default
      /\ \A q \in People : db'.codes[q] = IF q = p THEN None ELSE db.codes[q]
  BY <1>1, <1>2 DEF Formed
<1>4. /\ \A g : <<"group", g>> \in touched' <=> <<"group", g>> \in touched
      /\ \A q : <<"code", q>> \in touched' <=> <<"code", q>> \in touched \/ q = p
      /\ \A q : <<"limits", q>> \in touched' <=> <<"limits", q>> \in touched
  BY <1>1
<1>5. PICK v \in Shapes : before \in Store!Databases(v)
  BY DEF MigrationInv
<1>6. Store!Members(before) \subseteq People
  BY <1>5, MigrationRenews
<1>7. Follows'
  BY <1>1, <1>3, <1>4, <1>6 DEF Follows
<1>8. QED
  BY <1>1, <1>5, <1>7 DEF MigrationInv

LEMMA MigrationStarts == Store!MigInit => MigrationInv
BY DEF Store!MigInit, MigrationInv

LEMMA MigrationStep == MigrationInv /\ (Store!MigNext \/ UNCHANGED storeVars) => MigrationInv'
BY MigrateStep, OpenStep, DropLogsStep, AddUserStep, CloseGroupStep, DropCodeStep DEF Store!MigNext

\* What the invariant says of users, codes and groups.
LEMMA MigrationIsKept ==
  ASSUME MigrationInv
  PROVE  Store!RightsKept /\ Store!KeysKept /\ Store!ZeroIsMeant
<1> SUFFICES ASSUME phase \in {"migrated", "open"}
             PROVE  Store!RightsKept /\ Store!KeysKept /\ Store!ZeroIsMeant
  BY DEF Store!RightsKept, Store!KeysKept, Store!ZeroIsMeant
<1> DEFINE m == Store!Migrated(before)
<1>1. Follows
  BY DEF MigrationInv
<1>2. PICK v \in Shapes : before \in Store!Databases(v)
  BY DEF MigrationInv
<1>3. Renewed(before, m) /\ Store!Members(before) \subseteq People
  BY <1>2, MigrationRenews
<1>4. Store!RightsKept
  <2> SUFFICES ASSUME NEW p \in Store!Members(before), <<"limits", p>> \notin touched
               PROVE  /\ Store!CouldUse(before, p) \in {{}, Store!MayUse(db, p)}
                      /\ \/ Store!CouldHave(before, p) = Store!MayHave(db, p)
                         \/ before.version = 0 /\ Store!CouldHave(before, p) = 0
    BY DEF Store!RightsKept
  <2>1. db.users[p] = m.users[p] /\ <<"group", m.users[p].group>> \notin touched /\ db.settings = m.settings
    BY <1>1 DEF Follows
  <2>2. Store!Limits(db, p) = Store!Limits(m, p)
    BY <1>1, <2>1 DEF Follows, Store!Limits
  <2>3. Store!MayUse(db, p) = Store!MayUse(m, p) /\ Store!MayHave(db, p) = Store!MayHave(m, p)
    BY <2>1, <2>2 DEF Store!MayUse, Store!MayHave
  <2>4. QED
    BY <1>3, <2>3 DEF Renewed
<1>5. Store!KeysKept
  BY <1>1, <1>3 DEF Follows, Renewed, Store!KeysKept
<1>6. Store!ZeroIsMeant
  <2>1. \A g \in DOMAIN m.groups : m.groups[g].rules # 0 /\ LimitRecord(m.groups[g])
    BY <1>3 DEF Renewed, Formed
  <2>2. \A g \in DOMAIN db.groups : db.groups[g].rules = 0 <=> <<"group", g>> \in touched
    BY <1>1, <2>1 DEF Follows, LimitRecord
  <2>3. QED
    BY <1>1, <2>2 DEF Follows, Store!ZeroIsMeant, Store!Members
<1>7. QED
  BY <1>4, <1>5, <1>6

-----------------------------------------------------------------------------
(* The shape of a rule *)

\* A request sets some fields of a rule to values of their types.
LEMMA SetKeepsType ==
  ASSUME NEW r \in Shape!Records \cup {Shape!Plain}, NEW f \in Shape!Fields, NEW g \in Shape!Fields,
         NEW v \in Values[f], NEW w \in Values[g]
  PROVE  Shape!Set(r, f, v, g, w) \in Shape!Records
<1>1. Shape!ShapeAssumption
  BY PanelAssumption
<1>2. ASSUME NEW h \in Shape!Fields, NEW x \in Values[h], NEW s \in Shape!Records
      PROVE  [s EXCEPT ![h] = x] \in Shape!Records
  <2>1. [Shape!Plain EXCEPT ![h] = x] \in Shape!Records
    BY <1>1, <1>2 DEF Shape!ShapeAssumption
  <2>2. h \in {"name", "listen", "proto", "target", "lport", "tport", "proxy", "transparent",
               "nethernet", "enabled", "tls"}
    BY <1>1 DEF Shape!ShapeAssumption, Shape!Plain
  <2> DEFINE all == {"name", "listen", "proto", "target", "lport", "tport", "proxy", "transparent",
                     "nethernet", "enabled", "tls"}
             texts == Shape!Text(Shape!Words)
             type == [i \in all |->
                        IF i \in {"name", "listen", "proto", "target"} THEN texts
                        ELSE IF i \in {"lport", "tport"} THEN Int
                        ELSE IF i = "tls" THEN {None} \cup Shape!TlsConfig ELSE BOOLEAN]
  <2>3. \A z : z \in Shape!Records
                <=> z = [i \in all |-> z[i]] /\ \A i \in all : z[i] \in type[i]
    BY DEF Shape!Records
  <2>4. Shape!Plain = [i \in all |-> Shape!Plain[i]]
    BY DEF Shape!Plain
  <2> HIDE DEF all, type
  <2>5. h \in all
    BY <2>2 DEF all
  <2>6. x \in type[h]
    <3>1. [Shape!Plain EXCEPT ![h] = x][h] = x
      BY <2>4, <2>5
    <3>2. QED
      BY <2>1, <2>3, <2>5, <3>1
  <2>7. s = [i \in all |-> s[i]] /\ \A i \in all : s[i] \in type[i]
    BY <1>2, <2>3
  <2> DEFINE z == [s EXCEPT ![h] = x]
  <2>8. z = [i \in all |-> z[i]] /\ \A i \in all : z[i] = IF i = h THEN x ELSE s[i]
    BY <2>5, <2>7
  <2> HIDE DEF z
  <2>9. z \in Shape!Records
    BY <2>3, <2>6, <2>7, <2>8
  <2>10. QED
    BY <2>9 DEF z
<1>3. [r EXCEPT ![f] = v] \in Shape!Records
  <2>1. [Shape!Plain EXCEPT ![f] = v] \in Shape!Records
    BY <1>1 DEF Shape!ShapeAssumption
  <2>2. QED
    BY <1>2, <2>1
<1>4. QED
  BY <1>2, <1>3 DEF Shape!Set

\* Normalising twice is normalising once.
LEMMA TextsAreTrimmed ==
  ASSUME NEW t \in Shape!Text(Shape!Words)
  PROVE  /\ t = <<t[1], t[2]>> /\ t[1] \in Shape!Words
         /\ Shape!Trim(t) \in Shape!Text(Shape!Words) /\ Shape!Trim(t)[1] = t[1]
         /\ Shape!Trim(Shape!Trim(t)) = Shape!Trim(t)
         /\ Shape!NormalizeListenAddr(t) \in Shape!Text(Shape!Words)
         /\ Shape!NormalizeListenAddr(t)[1] # ""
         /\ Shape!Trim(Shape!NormalizeListenAddr(t)) = Shape!NormalizeListenAddr(t)
         /\ Shape!NormalizeListenAddr(Shape!NormalizeListenAddr(t)) = Shape!NormalizeListenAddr(t)
<1>1. t = <<t[1], t[2]>> /\ t[1] \in Shape!Words
  BY DEF Shape!Text
<1>2. \A s \in Shape!Words : /\ <<s, FALSE>> \in Shape!Text(Shape!Words) /\ <<s, FALSE>>[1] = s
                         /\ Shape!Trim(<<s, FALSE>>) = <<s, FALSE>>
  BY DEF Shape!Text, Shape!Trim
<1>3. "0.0.0.0" # "" /\ "0.0.0.0" \in Shape!Words
  BY DEF Shape!Words
<1>4. Shape!Trim(t) = <<t[1], FALSE>>
  BY DEF Shape!Trim
<1>5. PICK s \in Shape!Words : s # "" /\ Shape!NormalizeListenAddr(t) = <<s, FALSE>>
  BY <1>1, <1>3, <1>4 DEF Shape!NormalizeListenAddr
<1>6. Shape!NormalizeListenAddr(<<s, FALSE>>) = <<s, FALSE>>
  BY <1>2, <1>5 DEF Shape!NormalizeListenAddr
<1>7. /\ Shape!Trim(t) \in Shape!Text(Shape!Words) /\ Shape!Trim(t)[1] = t[1]
      /\ Shape!Trim(Shape!Trim(t)) = Shape!Trim(t)
  <2> DEFINE w == t[1]
             u == <<w, FALSE>>
  <2>1. w \in Shape!Words
    BY <1>1
  <2>2. u \in Shape!Text(Shape!Words) /\ u[1] = w /\ Shape!Trim(u) = u
    BY <1>2, <2>1
  <2>3. Shape!Trim(t) = u
    BY <1>4
  <2> HIDE DEF u
  <2>4. QED
    BY <2>2, <2>3
<1>8. /\ Shape!NormalizeListenAddr(t) \in Shape!Text(Shape!Words)
      /\ Shape!NormalizeListenAddr(t)[1] # ""
      /\ Shape!Trim(Shape!NormalizeListenAddr(t)) = Shape!NormalizeListenAddr(t)
  BY <1>2, <1>5
<1>9. Shape!NormalizeListenAddr(Shape!NormalizeListenAddr(t)) = Shape!NormalizeListenAddr(t)
  BY <1>5, <1>6
<1>10. QED
  BY <1>1, <1>7, <1>8, <1>9

LEMMA TlsIsNormalized ==
  ASSUME NEW t \in {None} \cup Shape!TlsConfig
  PROVE  /\ Shape!NormalizeTls(t) \in {None} \cup Shape!TlsConfig
         /\ Shape!NormalizeTls(Shape!NormalizeTls(t)) = Shape!NormalizeTls(t)
         /\ Shape!ValidTls(t) => Shape!ValidTls(Shape!NormalizeTls(t))
<1>1. CASE t = None
  BY <1>1 DEF Shape!NormalizeTls
<1>2. CASE t # None
  <2> DEFINE n == [t EXCEPT !.blanks = FALSE]
  <2>1. t \in Shape!TlsConfig /\ Shape!NormalizeTls(t) = n
    BY <1>2 DEF Shape!NormalizeTls
  <2>2. n \in Shape!TlsConfig /\ n.on = t.on /\ n.cert = t.cert /\ n.data = t.data
        /\ [n EXCEPT !.blanks = FALSE] = n
    BY <2>1 DEF Shape!TlsConfig
  <2> HIDE DEF n
  <2>3. Shape!NormalizeTls(n) = n
    BY <2>2 DEF Shape!NormalizeTls
  <2>4. Shape!ValidTls(t) => Shape!ValidTls(n)
    BY <1>2, <2>2 DEF Shape!ValidTls
  <2>5. QED
    BY <2>1, <2>2, <2>3, <2>4
<1>3. QED
  BY <1>1, <1>2

\* A record whose texts and TLS configuration are normal is left alone by either normalisation.
LEMMA NormalIsKept ==
  ASSUME NEW n \in Shape!Records,
         Shape!Trim(n.name) = n.name, Shape!Trim(n.target) = n.target,
         Shape!NormalizeListenAddr(n.listen) = n.listen,
         n.proto[1] # "", Shape!Trim(n.proto) = n.proto,
         Shape!NormalizeTls(n.tls) = n.tls
  PROVE  Shape!NormalRequest(n) = n
<1>1. n = [name |-> n.name, listen |-> n.listen, proto |-> n.proto, target |-> n.target,
           lport |-> n.lport, tport |-> n.tport, proxy |-> n.proxy, transparent |-> n.transparent,
           nethernet |-> n.nethernet, enabled |-> n.enabled, tls |-> n.tls]
  BY DEF Shape!Records
<1>2. Shape!NormalRequest(n) =
        [n EXCEPT !.name = n.name, !.target = n.target, !.listen = n.listen, !.proto = n.proto,
                  !.tls = n.tls]
  <2>1. Shape!NormalRequest(n) =
          [n EXCEPT !.name = Shape!Trim(n.name), !.target = Shape!Trim(n.target),
                    !.listen = Shape!NormalizeListenAddr(n.listen),
                    !.proto = IF n.proto[1] = "" THEN <<"tcp", FALSE>> ELSE Shape!Trim(n.proto),
                    !.tls = Shape!NormalizeTls(n.tls)]
    BY DEF Shape!NormalRequest, Shape!Records
  <2>2. QED
    BY <2>1
<1>3. QED
  BY <1>1, <1>2 DEF Shape!Records

\* What both validations ask of a record in its normal form.
Sound(n) ==
  /\ Shape!ValidName(n.name) /\ n.target[1] # ""
  /\ Shape!ValidPort(n.lport) /\ Shape!ValidPort(n.tport)
  /\ n.proto[1] \in {"tcp", "udp", "both"}
  /\ ~(n.transparent /\ n.proxy)
  /\ n.transparent => n.proto[1] = "udp"
  /\ n.nethernet => /\ n.transparent
                    /\ n.proto[1] = "udp"
                    /\ Shape!NetherNetPorts(n.lport, n.tls).data <= Shape!MaxPort

LEMMA ValidIsSound ==
  ASSUME NEW q
  PROVE  /\ Shape!ValidRequest(q)
              <=> /\ Sound(Shape!NormalRequest(q)) /\ Shape!ValidTls(q.tls)
                  /\ Shape!CertRef(Shape!NormalRequest(q))
         /\ Shape!ValidRule(q)
              <=> /\ Sound(Shape!NormalRule(q)) /\ Shape!ValidTls(Shape!NormalRule(q).tls)
                  /\ Shape!CertRef(Shape!NormalRule(q))
<1>1. Shape!ValidRequest(q)
        <=> /\ Sound(Shape!NormalRequest(q)) /\ Shape!ValidTls(q.tls)
            /\ Shape!CertRef(Shape!NormalRequest(q))
  BY DEF Shape!ValidRequest, Sound
<1>2. Shape!ValidRule(q)
        <=> /\ Sound(Shape!NormalRule(q)) /\ Shape!ValidTls(Shape!NormalRule(q).tls)
            /\ Shape!CertRef(Shape!NormalRule(q))
  BY DEF Shape!ValidRule, Sound
<1>3. QED
  BY <1>1, <1>2

\* Normalising twice is normalising once.
LEMMA RequestIsNormal ==
  ASSUME NEW q \in Shape!Records
  PROVE  LET n == Shape!NormalRequest(q) IN
         /\ n \in Shape!Records /\ Shape!NormalRequest(n) = n
         /\ Shape!ValidRequest(q) => Shape!ValidRequest(n)
<1> DEFINE proto == IF q.proto[1] = "" THEN <<"tcp", FALSE>> ELSE Shape!Trim(q.proto)
           n == [q EXCEPT !.name = Shape!Trim(q.name), !.target = Shape!Trim(q.target),
                          !.listen = Shape!NormalizeListenAddr(q.listen), !.proto = proto,
                          !.tls = Shape!NormalizeTls(q.tls)]
<1>1. n = Shape!NormalRequest(q)
  BY DEF Shape!NormalRequest, Shape!Records
<1>2. /\ q.name \in Shape!Text(Shape!Words) /\ q.target \in Shape!Text(Shape!Words)
      /\ q.listen \in Shape!Text(Shape!Words) /\ q.proto \in Shape!Text(Shape!Words)
      /\ q.tls \in {None} \cup Shape!TlsConfig
  BY DEF Shape!Records
<1>3. proto \in Shape!Text(Shape!Words) /\ proto[1] # "" /\ Shape!Trim(proto) = proto
  <2>1. CASE q.proto[1] = ""
    BY <2>1 DEF Shape!Text, Shape!Trim, Shape!Words
  <2>2. CASE q.proto[1] # ""
    BY <1>2, <2>2, TextsAreTrimmed
  <2>3. QED
    BY <2>1, <2>2
<1>4. /\ Shape!Trim(q.name) \in Shape!Text(Shape!Words) /\ Shape!Trim(q.target) \in Shape!Text(Shape!Words)
      /\ Shape!NormalizeListenAddr(q.listen) \in Shape!Text(Shape!Words)
      /\ Shape!NormalizeTls(q.tls) \in {None} \cup Shape!TlsConfig
  BY <1>2, TextsAreTrimmed, TlsIsNormalized
<1> HIDE DEF proto
<1>5. /\ n \in Shape!Records
      /\ n.name = Shape!Trim(q.name) /\ n.target = Shape!Trim(q.target)
      /\ n.listen = Shape!NormalizeListenAddr(q.listen) /\ n.proto = proto
      /\ n.tls = Shape!NormalizeTls(q.tls)
  BY <1>3, <1>4 DEF Shape!Records
<1> HIDE DEF n
<1>6. /\ Shape!Trim(n.name) = n.name /\ Shape!Trim(n.target) = n.target
      /\ Shape!NormalizeListenAddr(n.listen) = n.listen
  BY <1>2, <1>5, TextsAreTrimmed
<1>7. Shape!NormalRequest(n) = n
  BY <1>2, <1>3, <1>5, <1>6, TlsIsNormalized, NormalIsKept
<1>8. Shape!ValidTls(q.tls) => Shape!ValidTls(n.tls)
  BY <1>2, <1>5, TlsIsNormalized
<1>9. Shape!ValidRequest(q) => Shape!ValidRequest(n)
  BY <1>1, <1>7, <1>8, ValidIsSound
<1>10. QED
  BY <1>1, <1>5, <1>7, <1>9

LEMMA RuleIsNormal ==
  ASSUME NEW r \in Shape!Records, Shape!ValidRule(r)
  PROVE  LET n == Shape!NormalRule(r) IN
         /\ n \in Shape!Records /\ Shape!NormalRequest(n) = n /\ Shape!ValidRequest(n)
<1> DEFINE n == [r EXCEPT !.name = Shape!Trim(r.name), !.target = Shape!Trim(r.target),
                          !.listen = Shape!NormalizeListenAddr(r.listen),
                          !.proto = Shape!Trim(r.proto), !.tls = Shape!NormalizeTls(r.tls)]
<1>1. n = Shape!NormalRule(r)
  BY DEF Shape!NormalRule, Shape!Records
<1>2. /\ r.name \in Shape!Text(Shape!Words) /\ r.target \in Shape!Text(Shape!Words)
      /\ r.listen \in Shape!Text(Shape!Words) /\ r.proto \in Shape!Text(Shape!Words)
      /\ r.tls \in {None} \cup Shape!TlsConfig
  BY DEF Shape!Records
<1>3. /\ Shape!Trim(r.name) \in Shape!Text(Shape!Words) /\ Shape!Trim(r.target) \in Shape!Text(Shape!Words)
      /\ Shape!NormalizeListenAddr(r.listen) \in Shape!Text(Shape!Words)
      /\ Shape!Trim(r.proto) \in Shape!Text(Shape!Words)
      /\ Shape!NormalizeTls(r.tls) \in {None} \cup Shape!TlsConfig
  BY <1>2, TextsAreTrimmed, TlsIsNormalized
<1>4. /\ n \in Shape!Records
      /\ n.name = Shape!Trim(r.name) /\ n.target = Shape!Trim(r.target)
      /\ n.listen = Shape!NormalizeListenAddr(r.listen) /\ n.proto = Shape!Trim(r.proto)
      /\ n.tls = Shape!NormalizeTls(r.tls)
  BY <1>3 DEF Shape!Records
<1> HIDE DEF n
<1>5. n.proto[1] \in {"tcp", "udp", "both"}
  BY <1>1 DEF Shape!ValidRule
<1>6. /\ Shape!Trim(n.name) = n.name /\ Shape!Trim(n.target) = n.target
      /\ Shape!NormalizeListenAddr(n.listen) = n.listen
      /\ n.proto[1] # "" /\ Shape!Trim(n.proto) = n.proto
  BY <1>2, <1>4, <1>5, TextsAreTrimmed
<1>7. Shape!NormalRequest(n) = n
  BY <1>2, <1>4, <1>6, TlsIsNormalized, NormalIsKept
<1>8. Shape!ValidRequest(n)
  BY <1>1, <1>7, ValidIsSound
<1>9. QED
  BY <1>1, <1>4, <1>7, <1>8

ShapeInv ==
  /\ rule # None => rule \in Shape!Records
  /\ Shape!StoredIsCreatable /\ Shape!RunsWhatIsStored

\* For rules as they are stored, the comparison finds out exactly what the forwarders read.
LEMMA RestartIsExact ==
  ASSUME NEW a \in Shape!Records, NEW b \in Shape!Records,
         Shape!NormalRequest(a) = a, Shape!NormalRequest(b) = b
  PROVE  Shape!RequiresRestart(a, b) <=> a.enabled # b.enabled \/ Shape!Config(a) # Shape!Config(b)
<1>1. /\ Shape!NormalizeListenAddr(a.listen) = a.listen /\ Shape!NormalizeListenAddr(b.listen) = b.listen
      /\ Shape!Trim(a.proto) = a.proto /\ Shape!Trim(b.proto) = b.proto
  <2>1. ASSUME NEW r \in Shape!Records, Shape!NormalRequest(r) = r
        PROVE  Shape!NormalizeListenAddr(r.listen) = r.listen /\ Shape!Trim(r.proto) = r.proto
    <3>1. /\ r.listen = Shape!NormalizeListenAddr(r.listen)
          /\ r.proto = IF r.proto[1] = "" THEN <<"tcp", FALSE>> ELSE Shape!Trim(r.proto)
      <4> DEFINE n == Shape!NormalRequest(r)
      <4>1. /\ n.listen = Shape!NormalizeListenAddr(r.listen)
            /\ n.proto = IF r.proto[1] = "" THEN <<"tcp", FALSE>> ELSE Shape!Trim(r.proto)
        BY DEF Shape!NormalRequest, Shape!Records
      <4>2. n = r
        BY <2>1
      <4> HIDE DEF n
      <4>3. QED
        BY <4>1, <4>2
    <3>2. r.listen \in Shape!Text(Shape!Words) /\ r.proto \in Shape!Text(Shape!Words)
      BY <2>1 DEF Shape!Records
    <3>3. CASE r.proto[1] = ""
      BY <3>1, <3>2, <3>3, TextsAreTrimmed DEF Shape!Trim
    <3>4. CASE r.proto[1] # ""
      BY <3>1, <3>2, <3>4, TextsAreTrimmed
    <3>5. QED
      BY <3>3, <3>4
  <2>2. QED
    BY <2>1
<1>2. Shape!SameTls(a.tls, b.tls) <=> a.tls = b.tls
  BY DEF Shape!SameTls, Shape!Records, Shape!TlsConfig
<1>3. Shape!Fields = {"name", "listen", "proto", "target", "lport", "tport", "proxy", "transparent",
                      "nethernet", "enabled", "tls"}
  BY PanelAssumption DEF Shape!ShapeAssumption, Shape!Plain
<1>4. Shape!Config(a) = Shape!Config(b) <=>
        /\ a.listen = b.listen /\ a.proto = b.proto /\ a.target = b.target /\ a.lport = b.lport
        /\ a.tport = b.tport /\ a.proxy = b.proxy /\ a.transparent = b.transparent
        /\ a.nethernet = b.nethernet /\ a.tls = b.tls
  <2> DEFINE fields == Shape!Fields \ {"name", "enabled"}
  <2>1. Shape!Config(a) = [f \in fields |-> a[f]] /\ Shape!Config(b) = [f \in fields |-> b[f]]
    BY DEF Shape!Config
  <2>2. Shape!Config(a) = Shape!Config(b) <=> \A f \in fields : a[f] = b[f]
    BY <2>1
  <2>3. fields = {"listen", "proto", "target", "lport", "tport", "proxy", "transparent",
                  "nethernet", "tls"}
    BY <1>3
  <2> HIDE DEF fields
  <2>4. QED
    BY <2>2, <2>3
<1>5. QED
  BY <1>1, <1>2, <1>4 DEF Shape!RequiresRestart

LEMMA AddRuleStep ==
  ASSUME ShapeInv, Shape!AddRule
  PROVE  ShapeInv'
<1>0. PICK f \in Shape!Fields, g \in Shape!Fields : \E v \in Values[f], w \in Values[g] :
        /\ Shape!ValidRequest(Shape!Set(Shape!Plain, f, v, g, w))
        /\ rule' = Shape!NormalRequest(Shape!Set(Shape!Plain, f, v, g, w))
  BY DEF Shape!AddRule
<1>1. PICK v \in Values[f], w \in Values[g] :
        /\ Shape!ValidRequest(Shape!Set(Shape!Plain, f, v, g, w))
        /\ rule' = Shape!NormalRequest(Shape!Set(Shape!Plain, f, v, g, w))
  BY <1>0
<1> DEFINE q == Shape!Set(Shape!Plain, f, v, g, w)
<1>2. q \in Shape!Records
  BY SetKeepsType
<1> HIDE DEF q
<1>3. rule' \in Shape!Records /\ Shape!ValidRequest(rule') /\ Shape!NormalRequest(rule') = rule'
  BY <1>1, <1>2, RequestIsNormal DEF q
<1>4. runs' \in {None, Shape!Config(rule')}
  BY DEF Shape!AddRule, Shape!StartForwarders
<1>5. QED
  BY <1>3, <1>4 DEF ShapeInv, Shape!StoredIsCreatable, Shape!RunsWhatIsStored

\* A changed rule is normal and valid as the old one, and its forwarders are started anew
\* exactly if something that they read is another.
LEMMA ChangedRule ==
  ASSUME ShapeInv, Shape!UpdateRule
  PROVE  /\ rule \in Shape!Records /\ rule' \in Shape!Records
         /\ Shape!ValidRequest(rule') /\ Shape!NormalRequest(rule') = rule'
         /\ IF rule.enabled # rule'.enabled \/ Shape!Config(rule) # Shape!Config(rule')
            THEN runs' \in {None, Shape!Config(rule')} ELSE runs' = runs /\ starts' = starts
<1>1. rule # None /\ rule \in Shape!Records /\ Shape!NormalRequest(rule) = rule
  BY DEF Shape!UpdateRule, ShapeInv, Shape!StoredIsCreatable
<1>0. PICK f \in Shape!Fields, g \in Shape!Fields : \E v \in Values[f], w \in Values[g] :
        /\ Shape!ValidRule(Shape!Set(rule, f, v, g, w))
        /\ rule' = Shape!NormalRule(Shape!Set(rule, f, v, g, w))
  BY DEF Shape!UpdateRule
<1>2. PICK v \in Values[f], w \in Values[g] :
        /\ Shape!ValidRule(Shape!Set(rule, f, v, g, w))
        /\ rule' = Shape!NormalRule(Shape!Set(rule, f, v, g, w))
  BY <1>0
<1> DEFINE next == Shape!Set(rule, f, v, g, w)
<1>3. next \in Shape!Records
  BY <1>1, SetKeepsType
<1> HIDE DEF next
<1>4. rule' \in Shape!Records /\ Shape!ValidRequest(rule') /\ Shape!NormalRequest(rule') = rule'
  BY <1>2, <1>3, RuleIsNormal DEF next
<1>5. Shape!RequiresRestart(rule, rule') <=>
        rule.enabled # rule'.enabled \/ Shape!Config(rule) # Shape!Config(rule')
  BY <1>1, <1>4, RestartIsExact
<1>6. IF Shape!RequiresRestart(rule, rule') THEN runs' \in {None, Shape!Config(rule')}
      ELSE runs' = runs /\ starts' = starts
  BY DEF Shape!UpdateRule, Shape!StartForwarders
<1>7. QED
  BY <1>1, <1>4, <1>5, <1>6

LEMMA ShapeStarts == Shape!Init => ShapeInv
BY DEF Shape!Init, ShapeInv, Shape!StoredIsCreatable, Shape!RunsWhatIsStored

LEMMA ShapeStep == ShapeInv /\ (Shape!Next \/ UNCHANGED shapeVars) => ShapeInv'
<1>1. ASSUME ShapeInv, Shape!UpdateRule PROVE ShapeInv'
  BY <1>1, ChangedRule DEF ShapeInv, Shape!StoredIsCreatable, Shape!RunsWhatIsStored
<1>2. ASSUME ShapeInv, UNCHANGED shapeVars PROVE ShapeInv'
  BY <1>2 DEF shapeVars, ShapeInv, Shape!StoredIsCreatable, Shape!RunsWhatIsStored
<1>3. QED
  BY <1>1, <1>2, AddRuleStep DEF Shape!Next

LEMMA ShapeChanges ==
  ASSUME ShapeInv, Shape!Next \/ UNCHANGED shapeVars
  PROVE  Shape!OnlyChangesRestart
<1>1. CASE Shape!AddRule
  BY <1>1 DEF Shape!AddRule, Shape!OnlyChangesRestart
<1>2. CASE Shape!UpdateRule
  BY <1>2, ChangedRule DEF Shape!OnlyChangesRestart
<1>3. CASE UNCHANGED shapeVars
  BY <1>3 DEF shapeVars, Shape!OnlyChangesRestart
<1>4. QED
  BY <1>1, <1>2, <1>3 DEF Shape!Next

-----------------------------------------------------------------------------
(* The desk: which requests run, and what they have a stake in             *)

JobOfRule(k) ==
  /\ k = Desk!Job(k.at, k.what, k.id, k.old, k.new, k.limit)
  /\ k.what \in {"add", "edit", "toggle", "drop"} /\ k.at \in {"manager", "clean", "open"}
  /\ k.id \in DeskRules
  /\ k.old \in IF k.what = "add" THEN {None} ELSE Desk!Rule
  /\ k.new \in IF k.what = "drop" THEN {None} ELSE Desk!Rule

JobOfCode(k) ==
  /\ k = Desk!Job(k.at, k.what, k.id, k.old, k.new, k.limit)
  /\ k.what \in {"code", "switch", "uncode"} /\ k.at = "store" /\ k.id \in Codes
  /\ k.what = "code" => k.old = None /\ k.new \in Desk!Code /\ k.limit \in Int
  /\ k.what = "switch" => /\ k.old \in Desk!Code /\ k.new \in Desk!Code
                          /\ k.new.owner = k.old.owner /\ k.new.ip = k.old.ip
  /\ k.what = "uncode" => k.old \in Desk!Code /\ k.new = None

JobOfUser(k) ==
  /\ k = Desk!Job(k.at, k.what, k.id, k.old, k.new, k.limit)
  /\ k.what = "leave" /\ k.at \in {"store", "purge"} /\ k.id \in DeskUsers
  /\ k.old = None /\ k.new = None

Concerns(k, e) ==
  \/ (k.old # None /\ e = Desk!Entry(k.old))
  \/ (k.new # None /\ e = Desk!Entry(k.new))

LEMMA DeskIsAssumed ==
  /\ IsFiniteSet(DeskRules) /\ IsFiniteSet(Codes) /\ MaxStarted \in Nat
  /\ Addresses \subseteq Nat /\ 1 \in Addresses
  /\ Shared \notin DeskUsers /\ Public \notin Addresses /\ None \notin Desk!Rule
  /\ None \notin Desk!Code
  /\ \A w \in DeskWorks :
       /\ w.rules \subseteq Desk!Rule
       /\ \A p \in w.policies : /\ p.groupRules \in Int /\ p.rules \in Int
                                /\ p.groupCodes \in Int /\ p.codes \in Int
<1>1. \A S : Desk!IsFiniteSet(S) <=> IsFiniteSet(S)
  BY DEF Desk!IsFiniteSet, IsFiniteSet
<1>2. Desk!DeskAssumption
  BY PanelAssumption
<1>3. QED
  BY <1>1, <1>2 DEF Desk!DeskAssumption

LEMMA DeskCounts == \A S : Desk!Cardinality(S) = Cardinality(S)
BY DEF Desk!Cardinality, Cardinality

LEMMA StakesOfRuleJob ==
  ASSUME NEW k, JobOfRule(k)
  PROVE  /\ Desk!IsRuleJob(k)
         /\ \A x : x \in Desk!Stakes(k)[1] <=> x = k.id \/ Concerns(k, x)
         /\ \A x : x \in Desk!Stakes(k)[2] <=>
              x # Shared /\ ((k.old # None /\ x = k.old.owner) \/ (k.new # None /\ x = k.new.owner))
         /\ \A x : x \in Desk!Stakes(k)[3] <=>
              x # Public /\ ((k.old # None /\ x = k.old.target) \/ (k.new # None /\ x = k.new.target))
<1>1. Desk!IsRuleJob(k)
  BY DEF JobOfRule, Desk!IsRuleJob
<1>2. Desk!Stakes(k)[1] = {k.id} \cup {Desk!Entry(x) : x \in {k.old, k.new} \ {None}}
  BY <1>1 DEF Desk!Stakes, Desk!Of
<1>3. Desk!Stakes(k)[2] = {x.owner : x \in {k.old, k.new} \ {None}} \ {Shared}
  BY <1>1 DEF Desk!Stakes, Desk!Of
<1>4. Desk!Stakes(k)[3] = {x.target : x \in {k.old, k.new} \ {None}} \ {Public}
  BY <1>1 DEF Desk!Stakes, Desk!Of
<1>5. QED
  BY <1>1, <1>2, <1>3, <1>4 DEF Concerns

LEMMA StakesOfOtherJob ==
  ASSUME NEW k, JobOfCode(k) \/ JobOfUser(k)
  PROVE  /\ ~Desk!IsRuleJob(k)
         /\ \A x : x \notin Desk!Stakes(k)[1]
         /\ \A x : x \in Desk!Stakes(k)[2] <=> x = k.id /\ x \in DeskUsers
         /\ \A x : x \in Desk!Stakes(k)[3] <=>
              \/ (k.old # None /\ x = k.old.ip)
              \/ (k.new # None /\ x = k.new.ip)
<1>1. ~Desk!IsRuleJob(k)
  BY DEF JobOfCode, JobOfUser, Desk!IsRuleJob
<1>2. Desk!Stakes(k)[1] = {} /\ Desk!Stakes(k)[2] = {k.id} \cap DeskUsers
  BY <1>1 DEF Desk!Stakes
<1>3. Desk!Stakes(k)[3] = {x.ip : x \in {k.old, k.new} \ {None}}
  BY <1>1 DEF Desk!Stakes, Desk!Of
<1>4. QED
  BY <1>1, <1>2, <1>3

\* A job of one kind is none of the others.
LEMMA JobsAreOfAKind ==
  /\ ~JobOfRule(Desk!NoJob) /\ ~JobOfCode(Desk!NoJob) /\ ~JobOfUser(Desk!NoJob)
  /\ \A k : JobOfRule(k) => ~JobOfCode(k) /\ ~JobOfUser(k)
  /\ \A k : JobOfCode(k) => ~JobOfUser(k)
BY DEF JobOfRule, JobOfCode, JobOfUser, Desk!NoJob

-----------------------------------------------------------------------------
(* The desk: what holds between the steps of requests                      *)

Early(k) == k.at \in {"manager", "store", "purge"}

\* Two requests that run have nothing in common but what is known to be in doubt.
Apart ==
  \A q, p \in Requests : q # p /\ asked[q] # Desk!NoJob /\ asked[p] # Desk!NoJob =>
    /\ \A x \in Desk!Stakes(asked[q])[1] : x \in Desk!Stakes(asked[p])[1] => x \in blurred[1]
    /\ JobOfRule(asked[q]) /\ JobOfRule(asked[p]) /\ asked[q].id = asked[p].id
         => Desk!Stakes(asked[q])[1] \subseteq blurred[1]
    /\ Early(asked[q]) /\ Early(asked[p]) =>
         \A d \in {2, 3} : \A x \in Desk!Stakes(asked[q])[d] :
            x \in Desk!Stakes(asked[p])[d] => x \in blurred[d]

HasCode(u, a) == \E c \in Codes : codes[c] # None /\ codes[c].owner = u /\ codes[c].ip = a
Room(u) == most.rules = -1 \/ Cardinality(Desk!Owned(u)) < most.rules
Within(n, m) == m = -1 \/ (n # -1 /\ n <= m)

\* What a request on a rule knows until the manager has it.
RuleKnown(q) ==
  LET k == asked[q] IN
  JobOfRule(k) /\ k.at = "manager" =>
    /\ \/ rules[k.id] = k.old
       \/ /\ Desk!Stakes(k)[1] \subseteq blurred[1]
          /\ rules[k.id] # None => Desk!Entry(rules[k.id]) \in blurred[1]
    /\ k.what # "add" /\ rules[k.id] # None =>
         rules[k.id].owner \in {k.old.owner, Shared} \cup blurred[2]
    /\ k.what = "add" =>
         /\ rules[k.id] = None
         /\ \A p \in Requests \ {q} : JobOfRule(asked[p]) => asked[p].id # k.id
    /\ k.what \in {"edit", "toggle"} => k.new.owner \in {k.old.owner, Shared} \cup blurred[2]
    /\ k.new # None /\ k.new.owner \notin {Shared} \cup blurred[2]
         /\ k.new.target \notin {Public} \cup blurred[3]
         => HasCode(k.new.owner, k.new.target)
    /\ k.what = "add" /\ k.new.owner \notin {Shared} \cup blurred[2]
         => k.new.owner \in people /\ Room(k.new.owner)

\* What a request on a code knows.
CodeKnown(q) ==
  LET k == asked[q] IN
  JobOfCode(k) =>
    /\ k.what = "code" =>
         /\ codes[k.id] = None /\ Within(k.limit, most.codes)
         /\ \A p \in Requests \ {q} : JobOfCode(asked[p]) => asked[p].id # k.id
    /\ k.what # "code" /\ codes[k.id] # None =>
         codes[k.id].owner = k.old.owner /\ codes[k.id].ip = k.old.ip
    /\ k.what = "uncode" /\ k.old.ip \notin blurred[3] =>
         \A r \in DeskRules : rules[r] # None => rules[r].target # k.old.ip

\* What a request that deletes a user knows.
UserKnown(q) ==
  JobOfUser(asked[q]) /\ asked[q].id \notin blurred[2] =>
    \A r \in DeskRules : rules[r] # None => rules[r].owner # asked[q].id

OneRuleAnEntry ==
  \A r, s \in DeskRules :
    /\ rules[r] # None /\ rules[s] # None
    /\ Desk!Entry(rules[r]) = Desk!Entry(rules[s]) /\ Desk!Entry(rules[r]) \notin blurred[1]
    => r = s

Has(e) ==
  \E r \in DeskRules : rules[r] # None /\ Desk!Managed(rules[r]) /\ Desk!Entry(rules[r]) = e
Late(k) == JobOfRule(k) /\ k.at \in {"clean", "open"}

\* The firewall is what it was before a rule was saved, until the request has been there.
WallIsAhead(e) ==
  /\ (\A q \in Requests : Late(asked[q]) => ~Concerns(asked[q], e))
       => wall[e] = IF Has(e) THEN 1 ELSE 0
  /\ \A q \in Requests : Late(asked[q]) /\ Concerns(asked[q], e) =>
       /\ rules[asked[q].id] = asked[q].new
       /\ \A s \in DeskRules : rules[s] # None /\ Desk!Entry(rules[s]) = e => s = asked[q].id
       /\ wall[e] = IF e \in Desk!Kept(asked[q].old)
                         /\ (asked[q].at = "clean" \/ e \in Desk!Kept(asked[q].new))
                    THEN 1 ELSE 0

\* Owners exist, and their rules lead to tunnels of theirs.
OwnersExist ==
  \A r \in DeskRules : rules[r] # None /\ rules[r].owner \in DeskUsers \ blurred[2] =>
    /\ rules[r].owner \in people
    /\ rules[r].target \notin {Public} \cup blurred[3] => HasCode(rules[r].owner, rules[r].target)

CodesDiffer ==
  \A c, d \in Codes : codes[c] # None /\ codes[d] # None /\ codes[c].ip = codes[d].ip => c = d

DeskTypes ==
  /\ Desk!DeskTypeOK /\ desk \in DeskWorks
  /\ asked = [q \in Requests |-> asked[q]]
  /\ \A q \in Requests :
       asked[q] = Desk!NoJob \/ JobOfRule(asked[q]) \/ JobOfCode(asked[q]) \/ JobOfUser(asked[q])
  /\ most \in [rules : Int, codes : Int]

RuleDeskInv ==
  /\ DeskTypes /\ Apart
  /\ \A q \in Requests : RuleKnown(q) /\ CodeKnown(q) /\ UserKnown(q)
  /\ OneRuleAnEntry /\ \A e \in Desk!Entries \ blurred[1] : WallIsAhead(e)
  /\ OwnersExist /\ CodesDiffer
  /\ Desk!LimitsHold /\ Within(Desk!MaxRules, most.rules) /\ Within(Desk!MaxCodes, most.codes)

-----------------------------------------------------------------------------
(* The desk: a request starts                                              *)

LEMMA GoesFacts ==
  ASSUME DeskTypes, NEW q \in Requests, NEW me, NEW job, Desk!Goes(q, me, job)
  PROVE  /\ asked[q] = Desk!NoJob /\ started < MaxStarted /\ started' = started + 1
         /\ asked' = [r \in Requests |-> IF r = q THEN job ELSE asked[r]]
         /\ \A d \in 1 .. 3 : blurred[d] \subseteq blurred'[d]
         /\ \A p \in Requests : asked[p] # Desk!NoJob =>
              \A d \in 1 .. 3 : \A x \in Desk!Stakes(job)[d] : x \in Desk!Stakes(asked[p])[d] =>
                 Desk!Stakes(job)[d] \subseteq blurred'[d] /\ Desk!Stakes(asked[p])[d] \subseteq blurred'[d]
         /\ me = Admin /\ Desk!IsRuleJob(job) /\ job.new # None =>
              \A d \in {2, 3} : Desk!Stakes(job)[d] \subseteq blurred'[d]
<1>1. asked[q] = Desk!NoJob /\ started < MaxStarted /\ started' = started + 1
      /\ asked' = [asked EXCEPT ![q] = job]
  BY DEF Desk!Goes
<1>2. \A d \in 1 .. 3 :
        blurred'[d] = blurred[d] \cup (Desk!Overlaps(job, d) \cup Desk!Given(me, job, d))
  BY DEF Desk!Goes, Desk!Blur
<1>3. asked' = [r \in Requests |-> IF r = q THEN job ELSE asked[r]]
  BY <1>1 DEF DeskTypes
<1>4. ASSUME NEW p \in Requests, asked[p] # Desk!NoJob, NEW d \in 1 .. 3,
             NEW x \in Desk!Stakes(job)[d], x \in Desk!Stakes(asked[p])[d]
      PROVE  Desk!Stakes(job)[d] \subseteq blurred'[d] /\ Desk!Stakes(asked[p])[d] \subseteq blurred'[d]
  <2>1. asked[p] \in Desk!Running
    BY <1>4 DEF Desk!Running
  <2>2. Desk!Stakes(job)[d] \cup Desk!Stakes(asked[p])[d] \subseteq Desk!Overlaps(job, d)
    BY <1>4, <2>1 DEF Desk!Overlaps
  <2>3. QED
    BY <1>2, <2>2
<1>5. ASSUME me = Admin, Desk!IsRuleJob(job), job.new # None, NEW d \in {2, 3}
      PROVE  Desk!Stakes(job)[d] \subseteq blurred'[d]
  <2>1. Desk!Given(me, job, d) = Desk!Stakes(job)[d]
    BY <1>5 DEF Desk!Given
  <2>2. QED
    BY <1>2, <2>1
<1>6. QED
  BY <1>1, <1>2, <1>3, <1>4, <1>5

\* The parts of what a rule request knows, one by one.
LEMMA KnownFromParts ==
  ASSUME NEW p \in Requests, NEW k, asked'[p] = k,
         \/ rules'[k.id] = k.old
         \/ /\ Desk!Stakes(k)[1] \subseteq blurred'[1]
            /\ rules'[k.id] # None => Desk!Entry(rules'[k.id]) \in blurred'[1],
         k.what # "add" /\ rules'[k.id] # None =>
           rules'[k.id].owner \in {k.old.owner, Shared} \cup blurred'[2],
         k.what = "add" =>
            /\ rules'[k.id] = None
            /\ \A r \in Requests \ {p} : JobOfRule(asked'[r]) => asked'[r].id # k.id,
         k.what \in {"edit", "toggle"} => k.new.owner \in {k.old.owner, Shared} \cup blurred'[2],
         k.new # None /\ k.new.owner \notin {Shared} \cup blurred'[2]
           /\ k.new.target \notin {Public} \cup blurred'[3]
           => HasCode(k.new.owner, k.new.target)',
         k.what = "add" /\ k.new.owner \notin {Shared} \cup blurred'[2]
           => k.new.owner \in people' /\ Room(k.new.owner)'
  PROVE  RuleKnown(p)'
BY DEF RuleKnown

LEMMA LimitsStay ==
  ASSUME UNCHANGED <<rules, most>>
  PROVE  /\ \A u : Room(u) => Room(u)'
         /\ \A n : Within(n, most.codes) => Within(n, most.codes)'
<1>1. \A u : Desk!Owned(u)' = Desk!Owned(u)
  BY DEF Desk!Owned
<1>2. QED
  BY <1>1 DEF Room, Within

\* What a rule request knows stays known while rules, codes and users stay.
LEMMA RuleStaysKnown ==
  ASSUME NEW p \in Requests, RuleKnown(p), asked'[p] = asked[p],
         UNCHANGED <<people, rules, codes>>, \A u : Room(u) => Room(u)',
         \A d \in 1 .. 3 : blurred[d] \subseteq blurred'[d],
         \A r \in Requests \ {p} : JobOfRule(asked'[r]) =>
            \/ JobOfRule(asked[r]) /\ asked'[r].id = asked[r].id
            \/ ~(JobOfRule(asked[p]) /\ asked[p].what = "add" /\ asked[p].at = "manager")
            \/ asked'[r].id # asked[p].id
  PROVE  RuleKnown(p)'
<1> SUFFICES ASSUME JobOfRule(asked[p]), asked[p].at = "manager"
             PROVE  RuleKnown(p)'
  BY DEF RuleKnown
<1>2. \A u, a : /\ HasCode(u, a) => HasCode(u, a)'
                /\ Room(u) => Room(u)'
  BY DEF HasCode
<1>0. PICK k : k = asked[p] /\ JobOfRule(k) /\ k.at = "manager"
  OBVIOUS
<1>3. \/ rules'[k.id] = k.old
      \/ /\ Desk!Stakes(k)[1] \subseteq blurred'[1]
         /\ rules'[k.id] # None => Desk!Entry(rules'[k.id]) \in blurred'[1]
  BY <1>0 DEF RuleKnown
<1>4. k.what # "add" /\ rules'[k.id] # None =>
        rules'[k.id].owner \in {k.old.owner, Shared} \cup blurred'[2]
  BY <1>0 DEF RuleKnown
<1>5. k.what = "add" =>
         /\ rules'[k.id] = None
         /\ \A r \in Requests \ {p} : JobOfRule(asked'[r]) => asked'[r].id # k.id
  BY <1>0 DEF RuleKnown
<1>6. k.what \in {"edit", "toggle"} => k.new.owner \in {k.old.owner, Shared} \cup blurred'[2]
  BY <1>0 DEF RuleKnown
<1>7. k.new # None /\ k.new.owner \notin {Shared} \cup blurred'[2]
        /\ k.new.target \notin {Public} \cup blurred'[3]
        => HasCode(k.new.owner, k.new.target)'
  BY <1>0, <1>2 DEF RuleKnown
<1>8. k.what = "add" /\ k.new.owner \notin {Shared} \cup blurred'[2]
        => k.new.owner \in people' /\ Room(k.new.owner)'
  BY <1>0, <1>2 DEF RuleKnown
<1>9. asked'[p] = k
  BY <1>0
<1>10. QED
  BY <1>3, <1>4, <1>5, <1>6, <1>7, <1>8, <1>9, KnownFromParts

LEMMA CodeStaysKnown ==
  ASSUME NEW p \in Requests, CodeKnown(p), UserKnown(p), asked'[p] = asked[p],
         UNCHANGED <<rules, codes>>,
         \A n : Within(n, most.codes) => Within(n, most.codes)',
         \A d \in 1 .. 3 : blurred[d] \subseteq blurred'[d],
         \A r \in Requests \ {p} : JobOfCode(asked'[r]) =>
            \/ JobOfCode(asked[r]) /\ asked'[r].id = asked[r].id
            \/ ~(JobOfCode(asked[p]) /\ asked[p].what = "code")
            \/ asked'[r].id # asked[p].id
  PROVE  CodeKnown(p)' /\ UserKnown(p)'
<1>1. CodeKnown(p)'
  <2>1. PICK k : k = asked[p] /\ asked'[p] = k
    OBVIOUS
  <2>2. Within(k.limit, most.codes) => Within(k.limit, most.codes)'
    OBVIOUS
  <2>3. QED
    BY <2>1, <2>2 DEF CodeKnown
<1>2. UserKnown(p)'
  BY DEF UserKnown
<1>3. QED
  BY <1>1, <1>2

\* Of the wall: jobs that are not late do not count.
LEMMA WallStays ==
  ASSUME NEW e \in Desk!Entries, WallIsAhead(e), UNCHANGED <<rules, wall>>,
         \A p \in Requests : /\ Late(asked'[p]) <=> Late(asked[p])
                             /\ Late(asked[p]) => asked'[p] = asked[p]
  PROVE  WallIsAhead(e)'
<1>1. Has(e)' = Has(e)
  BY DEF Has
<1>2. ASSUME \A p \in Requests : Late(asked'[p]) => ~Concerns(asked'[p], e)
      PROVE  wall'[e] = IF Has(e)' THEN 1 ELSE 0
  BY <1>1, <1>2 DEF WallIsAhead
<1>3. ASSUME NEW p \in Requests, Late(asked'[p]), Concerns(asked'[p], e)
      PROVE  /\ rules'[asked'[p].id] = asked'[p].new
             /\ \A s \in DeskRules : rules'[s] # None /\ Desk!Entry(rules'[s]) = e => s = asked'[p].id
             /\ wall'[e] = IF e \in Desk!Kept(asked'[p].old)
                               /\ (asked'[p].at = "clean" \/ e \in Desk!Kept(asked'[p].new))
                          THEN 1 ELSE 0
  <2>1. PICK k : k = asked[p] /\ asked'[p] = k /\ Late(k) /\ Concerns(k, e)
    BY <1>3
  <2>2. /\ rules[k.id] = k.new
        /\ \A s \in DeskRules : rules[s] # None /\ Desk!Entry(rules[s]) = e => s = k.id
        /\ wall[e] = IF e \in Desk!Kept(k.old) /\ (k.at = "clean" \/ e \in Desk!Kept(k.new))
                     THEN 1 ELSE 0
    BY <2>1 DEF WallIsAhead
  <2>3. /\ rules'[k.id] = k.new
        /\ \A s \in DeskRules : rules'[s] # None /\ Desk!Entry(rules'[s]) = e => s = k.id
        /\ wall'[e] = IF e \in Desk!Kept(k.old) /\ (k.at = "clean" \/ e \in Desk!Kept(k.new))
                      THEN 1 ELSE 0
    BY <2>2
  <2>4. QED
    BY <2>1, <2>3
<1>4. QED
  BY <1>2, <1>3 DEF WallIsAhead

LEMMA JobsHaveStakes ==
  ASSUME NEW k, JobOfRule(k) \/ JobOfCode(k) \/ JobOfUser(k)
  PROVE  /\ k # Desk!NoJob
         /\ ((JobOfRule(k) \/ JobOfCode(k)) <=> ~JobOfUser(k))
         /\ ~JobOfRule(k) => Desk!Stakes(k)[1] = {} /\ Early(k)
         /\ JobOfRule(k) => (Early(k) <=> k.at = "manager") /\ (Late(k) <=> k.at # "manager")
         /\ JobOfRule(k) => k.id \in Desk!Stakes(k)[1]
<1>1. k # Desk!NoJob /\ ((JobOfRule(k) \/ JobOfCode(k)) <=> ~JobOfUser(k))
  BY JobsAreOfAKind
<1>2. ~JobOfRule(k) => Desk!Stakes(k)[1] = {}
  BY StakesOfOtherJob
<1>3. ~JobOfRule(k) => Early(k)
  BY DEF JobOfCode, JobOfUser, Early
<1>4. JobOfRule(k) => (Early(k) <=> k.at = "manager") /\ (Late(k) <=> k.at # "manager")
  BY DEF JobOfRule, Early, Late
<1>5. JobOfRule(k) => k.id \in Desk!Stakes(k)[1]
  BY StakesOfRuleJob
<1>6. QED
  BY <1>1, <1>2, <1>3, <1>4, <1>5

\* A request that starts where nobody changes what it has read keeps the invariant.
LEMMA RequestStarts ==
  ASSUME RuleDeskInv, NEW q \in Requests, NEW me, NEW job, Desk!Goes(q, me, job), Early(job),
         UNCHANGED <<people, rules, codes, policy, wall, desk, most>>,
         JobOfRule(job) \/ JobOfCode(job) \/ JobOfUser(job),
         JobOfRule(job) /\ job.what # "add" => rules[job.id] # None,
         JobOfCode(job) /\ job.what # "code" => codes[job.id] # None,
         RuleKnown(q)', CodeKnown(q)', UserKnown(q)'
  PROVE  RuleDeskInv'
<1>1. DeskTypes
  BY DEF RuleDeskInv
<1>2. /\ asked[q] = Desk!NoJob /\ started < MaxStarted /\ started' = started + 1
      /\ asked' = [r \in Requests |-> IF r = q THEN job ELSE asked[r]]
      /\ \A d \in 1 .. 3 : blurred[d] \subseteq blurred'[d]
  BY <1>1, GoesFacts
<1>3. \A p \in Requests : asked[p] # Desk!NoJob =>
        \A d \in 1 .. 3 : \A x \in Desk!Stakes(job)[d] : x \in Desk!Stakes(asked[p])[d] =>
           Desk!Stakes(job)[d] \subseteq blurred'[d] /\ Desk!Stakes(asked[p])[d] \subseteq blurred'[d]
  BY <1>1, GoesFacts
<1>4. asked'[q] = job /\ \A p \in Requests \ {q} : asked'[p] = asked[p]
  BY <1>2
<1>5. job # Desk!NoJob /\ (JobOfRule(job) => job.id \in Desk!Stakes(job)[1])
  BY JobsHaveStakes
<1>6. DeskTypes'
  <2>1. Desk!DeskTypeOK'
    <3>1. started' \in 0 .. MaxStarted
      BY <1>1, <1>2, DeskIsAssumed DEF DeskTypes, Desk!DeskTypeOK
    <3>2. QED
      BY <1>1, <3>1 DEF DeskTypes, Desk!DeskTypeOK, Desk!Entries
  <2>2. asked' = [p \in Requests |-> asked'[p]]
    BY <1>2
  <2>3. QED
    BY <1>1, <1>2, <2>1, <2>2 DEF DeskTypes
<1>7. Apart'
  <2> SUFFICES ASSUME NEW r \in Requests, NEW p \in Requests, r # p,
                      asked'[r] # Desk!NoJob, asked'[p] # Desk!NoJob
               PROVE  /\ \A x \in Desk!Stakes(asked'[r])[1] :
                           x \in Desk!Stakes(asked'[p])[1] => x \in blurred'[1]
                      /\ JobOfRule(asked'[r]) /\ JobOfRule(asked'[p]) /\ asked'[r].id = asked'[p].id
                           => Desk!Stakes(asked'[r])[1] \subseteq blurred'[1]
                      /\ Early(asked'[r]) /\ Early(asked'[p]) =>
                           \A d \in {2, 3} : \A x \in Desk!Stakes(asked'[r])[d] :
                              x \in Desk!Stakes(asked'[p])[d] => x \in blurred'[d]
    BY DEF Apart
  <2>1. CASE r # q /\ p # q
    <3>1. asked'[r] = asked[r] /\ asked'[p] = asked[p]
      BY <1>4, <2>1
    <3>2. /\ \A x \in Desk!Stakes(asked[r])[1] :
               x \in Desk!Stakes(asked[p])[1] => x \in blurred[1]
          /\ JobOfRule(asked[r]) /\ JobOfRule(asked[p]) /\ asked[r].id = asked[p].id
               => Desk!Stakes(asked[r])[1] \subseteq blurred[1]
          /\ Early(asked[r]) /\ Early(asked[p]) =>
               \A d \in {2, 3} : \A x \in Desk!Stakes(asked[r])[d] :
                  x \in Desk!Stakes(asked[p])[d] => x \in blurred[d]
      BY <3>1 DEF RuleDeskInv, Apart
    <3>3. QED
      BY <1>2, <3>1, <3>2
  <2>2. CASE r = q
    <3>1. asked'[r] = job /\ asked'[p] = asked[p] /\ asked[p] # Desk!NoJob
      BY <1>4, <2>2
    <3>2. JobOfRule(asked[p]) => asked[p].id \in Desk!Stakes(asked[p])[1]
      BY JobsHaveStakes
    <3>3. QED
      BY <1>3, <1>5, <3>1, <3>2
  <2>3. CASE p = q
    <3>1. asked'[p] = job /\ asked'[r] = asked[r] /\ asked[r] # Desk!NoJob
      BY <1>4, <2>3
    <3>2. JobOfRule(asked[r]) => asked[r].id \in Desk!Stakes(asked[r])[1]
      BY JobsHaveStakes
    <3>3. QED
      BY <1>3, <1>5, <3>1, <3>2
  <2>4. QED
    BY <2>1, <2>2, <2>3
<1>8. ASSUME NEW p \in Requests PROVE RuleKnown(p)' /\ CodeKnown(p)' /\ UserKnown(p)'
  <2>1. CASE p = q
    BY <2>1
  <2>2. CASE p # q
    <3>1. asked'[p] = asked[p] /\ RuleKnown(p) /\ CodeKnown(p) /\ UserKnown(p)
      BY <1>4, <2>2 DEF RuleDeskInv
    <3>2. ASSUME NEW r \in Requests \ {p}, JobOfRule(asked'[r]),
                 JobOfRule(asked[p]), asked[p].what = "add", asked[p].at = "manager"
          PROVE  \/ JobOfRule(asked[r]) /\ asked'[r].id = asked[r].id
                 \/ asked'[r].id # asked[p].id
      <4>1. CASE r # q
        BY <1>4, <3>2, <4>1
      <4>2. CASE r = q
        <5>1. rules[asked[p].id] = None
          BY <3>1, <3>2 DEF RuleKnown
        <5>2. CASE job.what # "add"
          BY <1>4, <3>2, <4>2, <5>1, <5>2
        <5>3. CASE job.what = "add"
          <6>1. JobOfRule(job) /\ (job.at = "manager")
            BY <1>4, <3>2, <4>2, JobsHaveStakes
          <6>2. \A s \in Requests \ {q} : JobOfRule(asked'[s]) => asked'[s].id # job.id
            BY <1>4, <5>3, <6>1 DEF RuleKnown
          <6>3. asked'[p].id # job.id
            BY <2>2, <3>1, <3>2, <6>2
          <6>4. QED
            BY <1>4, <3>1, <4>2, <6>3
        <5>4. QED
          BY <5>2, <5>3
      <4>3. QED
        BY <4>1, <4>2
    <3>3. ASSUME NEW r \in Requests \ {p}, JobOfCode(asked'[r]),
                 JobOfCode(asked[p]), asked[p].what = "code"
          PROVE  \/ JobOfCode(asked[r]) /\ asked'[r].id = asked[r].id
                 \/ asked'[r].id # asked[p].id
      <4>1. CASE r # q
        BY <1>4, <3>3, <4>1
      <4>2. CASE r = q
        <5>1. codes[asked[p].id] = None
          BY <3>1, <3>3 DEF CodeKnown
        <5>2. CASE job.what # "code"
          BY <1>4, <3>3, <4>2, <5>1, <5>2
        <5>3. CASE job.what = "code"
          <6>2. \A s \in Requests \ {q} : JobOfCode(asked'[s]) => asked'[s].id # job.id
            BY <1>4, <3>3, <4>2, <5>3 DEF CodeKnown
          <6>3. asked'[p].id # job.id
            BY <2>2, <3>1, <3>3, <6>2
          <6>4. QED
            BY <1>4, <3>1, <4>2, <6>3
        <5>4. QED
          BY <5>2, <5>3
      <4>3. QED
        BY <4>1, <4>2
    <3>4. RuleKnown(p)'
      BY <1>2, <3>1, <3>2, RuleStaysKnown, LimitsStay
    <3>5. CodeKnown(p)' /\ UserKnown(p)'
      BY <1>2, <3>1, <3>3, CodeStaysKnown, LimitsStay
    <3>6. QED
      BY <3>4, <3>5
  <2>3. QED
    BY <2>1, <2>2
<1>9. OneRuleAnEntry'
  BY <1>2 DEF RuleDeskInv, OneRuleAnEntry
<1>10. ASSUME NEW e \in Desk!Entries \ blurred'[1] PROVE WallIsAhead(e)'
  <2>1. WallIsAhead(e)
    BY <1>2 DEF RuleDeskInv
  <2>2. ~Late(job) /\ ~Late(asked[q])
    BY <1>2, JobsAreOfAKind DEF Early, Late
  <2>3. \A p \in Requests : /\ Late(asked'[p]) <=> Late(asked[p])
                            /\ Late(asked[p]) => asked'[p] = asked[p]
    BY <1>4, <2>2
  <2>4. QED
    BY <2>1, <2>3, WallStays
<1>11. OwnersExist' /\ CodesDiffer'
  BY <1>2 DEF RuleDeskInv, OwnersExist, CodesDiffer, HasCode
<1>12. /\ Desk!LimitsHold'
       /\ Within(Desk!MaxRules, most.rules)' /\ Within(Desk!MaxCodes, most.codes)'
  <2>1. \A u : Desk!CodesOf(u)' = Desk!CodesOf(u) /\ Desk!Owned(u)' = Desk!Owned(u)
    BY DEF Desk!CodesOf, Desk!Owned
  <2>2. Desk!LimitsHold'
    BY <1>2, <2>1 DEF RuleDeskInv, Desk!LimitsHold
  <2>3. Within(Desk!MaxRules, most.rules)' /\ Within(Desk!MaxCodes, most.codes)'
    BY DEF RuleDeskInv, Within, Desk!MaxRules, Desk!MaxCodes
  <2>4. QED
    BY <2>2, <2>3
<1>13. Desk!Entries' = Desk!Entries
  OBVIOUS
<1>14. QED
  BY <1>6, <1>7, <1>8, <1>9, <1>10, <1>11, <1>12 DEF RuleDeskInv

-----------------------------------------------------------------------------
(* The desk: requests end                                                  *)

Opens(k) == [k EXCEPT !.at = "open"]

LEMMA OpensIsTheSame ==
  ASSUME NEW k, JobOfRule(k), k.at = "clean"
  PROVE  /\ JobOfRule(Opens(k)) /\ Late(Opens(k)) /\ Late(k) /\ Opens(k) # Desk!NoJob
         /\ Opens(k).id = k.id /\ Opens(k).old = k.old /\ Opens(k).new = k.new /\ Opens(k).what = k.what
         /\ Opens(k).at = "open"
         /\ \A d \in 1 .. 3 : \A x : x \in Desk!Stakes(Opens(k))[d] <=> x \in Desk!Stakes(k)[d]
<1> DEFINE o == Opens(k)
<1>1. k = Desk!Job(k.at, k.what, k.id, k.old, k.new, k.limit)
  BY DEF JobOfRule
<1>2. o = Desk!Job("open", k.what, k.id, k.old, k.new, k.limit)
  BY <1>1 DEF Desk!Job, Opens
<1>3. /\ o.id = k.id /\ o.old = k.old /\ o.new = k.new /\ o.what = k.what /\ o.at = "open"
      /\ o.limit = k.limit
  BY <1>2 DEF Desk!Job
<1> HIDE DEF o
<1>4. JobOfRule(o)
  BY <1>2, <1>3 DEF JobOfRule
<1>5. Late(o) /\ Late(k)
  BY <1>3, <1>4 DEF Late
<1>6. \A x : Concerns(o, x) <=> Concerns(k, x)
  BY <1>3 DEF Concerns
<1>7. \A d \in 1 .. 3 : \A x : x \in Desk!Stakes(o)[d] <=> x \in Desk!Stakes(k)[d]
  <2>1. \A x : x \in Desk!Stakes(o)[1] <=> x \in Desk!Stakes(k)[1]
    BY <1>3, <1>4, <1>6, StakesOfRuleJob
  <2>2. \A x : x \in Desk!Stakes(o)[2] <=> x \in Desk!Stakes(k)[2]
    BY <1>3, <1>4, StakesOfRuleJob
  <2>3. \A x : x \in Desk!Stakes(o)[3] <=> x \in Desk!Stakes(k)[3]
    BY <1>3, <1>4, StakesOfRuleJob
  <2>4. QED
    BY <2>1, <2>2, <2>3
<1>8. QED
  BY <1>3, <1>4, <1>5, <1>7, JobsAreOfAKind DEF o

\* Requests that end, or go from closing to opening, keep the invariant if the wall is right.
LEMMA RequestsEnd ==
  ASSUME RuleDeskInv, UNCHANGED <<people, rules, codes, policy, desk, started, most>>,
         asked' = [q \in Requests |-> asked'[q]],
         \A q \in Requests :
           \/ asked'[q] \in {asked[q], Desk!NoJob}
           \/ JobOfRule(asked[q]) /\ asked[q].at = "clean" /\ asked'[q] = Opens(asked[q]),
         \A d \in 1 .. 3 : blurred[d] \subseteq blurred'[d],
         wall' \in [Desk!Entries -> Nat],
         \A e \in Desk!Entries \ blurred'[1] : WallIsAhead(e)'
  PROVE  RuleDeskInv'
<1>1. DeskTypes
  BY DEF RuleDeskInv
<1>2. \A q \in Requests : asked'[q] # Desk!NoJob =>
        /\ asked[q] # Desk!NoJob
        /\ asked'[q].id = asked[q].id
        /\ JobOfRule(asked'[q]) <=> JobOfRule(asked[q])
        /\ JobOfCode(asked'[q]) <=> JobOfCode(asked[q])
        /\ JobOfUser(asked'[q]) <=> JobOfUser(asked[q])
        /\ Early(asked'[q]) => Early(asked[q])
        /\ asked'[q] # asked[q] => ~Early(asked'[q]) /\ JobOfRule(asked'[q]) /\ asked'[q].at = "open"
        /\ \A d \in 1 .. 3 : \A x : x \in Desk!Stakes(asked'[q])[d] <=> x \in Desk!Stakes(asked[q])[d]
  <2> SUFFICES ASSUME NEW q \in Requests, asked'[q] # Desk!NoJob,
                      JobOfRule(asked[q]) /\ asked[q].at = "clean" /\ asked'[q] = Opens(asked[q])
               PROVE  /\ asked[q] # Desk!NoJob
                      /\ asked'[q].id = asked[q].id
                      /\ JobOfRule(asked'[q]) /\ ~JobOfCode(asked[q]) /\ ~JobOfUser(asked[q])
                      /\ ~JobOfCode(asked'[q]) /\ ~JobOfUser(asked'[q])
                      /\ ~Early(asked'[q]) /\ asked'[q].at = "open"
                      /\ \A d \in 1 .. 3 : \A x :
                           x \in Desk!Stakes(asked'[q])[d] <=> x \in Desk!Stakes(asked[q])[d]
    OBVIOUS
  <2>1. PICK k : k = asked[q] /\ JobOfRule(k) /\ k.at = "clean" /\ asked'[q] = Opens(k)
    OBVIOUS
  <2>2. ~Early(Opens(k))
    BY <2>1, OpensIsTheSame DEF Early
  <2>3. QED
    BY <2>1, <2>2, OpensIsTheSame, JobsAreOfAKind
<1>3. DeskTypes'
  <2>1. Desk!DeskTypeOK'
    BY <1>1 DEF DeskTypes, Desk!DeskTypeOK, Desk!Entries
  <2>2. QED
    BY <1>1, <1>2, <2>1 DEF DeskTypes
<1>4. Apart'
  <2> SUFFICES ASSUME NEW r \in Requests, NEW p \in Requests, r # p,
                      asked'[r] # Desk!NoJob, asked'[p] # Desk!NoJob
               PROVE  /\ \A x \in Desk!Stakes(asked'[r])[1] :
                           x \in Desk!Stakes(asked'[p])[1] => x \in blurred'[1]
                      /\ JobOfRule(asked'[r]) /\ JobOfRule(asked'[p]) /\ asked'[r].id = asked'[p].id
                           => Desk!Stakes(asked'[r])[1] \subseteq blurred'[1]
                      /\ Early(asked'[r]) /\ Early(asked'[p]) =>
                           \A d \in {2, 3} : \A x \in Desk!Stakes(asked'[r])[d] :
                              x \in Desk!Stakes(asked'[p])[d] => x \in blurred'[d]
    BY DEF Apart
  <2>1. /\ \A x \in Desk!Stakes(asked[r])[1] :
             x \in Desk!Stakes(asked[p])[1] => x \in blurred[1]
        /\ JobOfRule(asked[r]) /\ JobOfRule(asked[p]) /\ asked[r].id = asked[p].id
             => Desk!Stakes(asked[r])[1] \subseteq blurred[1]
        /\ Early(asked[r]) /\ Early(asked[p]) =>
             \A d \in {2, 3} : \A x \in Desk!Stakes(asked[r])[d] :
                x \in Desk!Stakes(asked[p])[d] => x \in blurred[d]
    BY <1>2 DEF RuleDeskInv, Apart
  <2>2. \A d \in 1 .. 3 : \A x : x \in Desk!Stakes(asked'[r])[d] <=> x \in Desk!Stakes(asked[r])[d]
    BY <1>2
  <2>3. \A d \in 1 .. 3 : \A x : x \in Desk!Stakes(asked'[p])[d] <=> x \in Desk!Stakes(asked[p])[d]
    BY <1>2
  <2>4. \A x \in Desk!Stakes(asked'[r])[1] : x \in Desk!Stakes(asked'[p])[1] => x \in blurred'[1]
    BY <2>1, <2>2, <2>3
  <2>5. JobOfRule(asked'[r]) /\ JobOfRule(asked'[p]) /\ asked'[r].id = asked'[p].id
          => Desk!Stakes(asked'[r])[1] \subseteq blurred'[1]
    BY <1>2, <2>1, <2>2
  <2>6. Early(asked'[r]) /\ Early(asked'[p]) =>
          \A d \in {2, 3} : \A x \in Desk!Stakes(asked'[r])[d] :
             x \in Desk!Stakes(asked'[p])[d] => x \in blurred'[d]
    BY <1>2, <2>1, <2>2, <2>3
  <2>7. QED
    BY <2>4, <2>5, <2>6
<1>5. ASSUME NEW p \in Requests PROVE RuleKnown(p)' /\ CodeKnown(p)' /\ UserKnown(p)'
  <2>1. CASE asked'[p] = Desk!NoJob
    BY <2>1, JobsAreOfAKind DEF RuleKnown, CodeKnown, UserKnown
  <2>2. CASE asked'[p] # Desk!NoJob /\ asked'[p] # asked[p]
    <3>1. JobOfRule(asked'[p]) /\ asked'[p].at = "open" /\ ~JobOfCode(asked'[p]) /\ ~JobOfUser(asked'[p])
      BY <1>2, <2>2, JobsAreOfAKind
    <3>2. QED
      BY <3>1 DEF RuleKnown, CodeKnown, UserKnown
  <2>3. CASE asked'[p] # Desk!NoJob /\ asked'[p] = asked[p]
    <3>1. RuleKnown(p) /\ CodeKnown(p) /\ UserKnown(p)
      BY DEF RuleDeskInv
    <3>2. \A r \in Requests : JobOfRule(asked'[r]) => JobOfRule(asked[r]) /\ asked'[r].id = asked[r].id
      BY <1>2, JobsAreOfAKind
    <3>3. \A r \in Requests : JobOfCode(asked'[r]) => JobOfCode(asked[r]) /\ asked'[r].id = asked[r].id
      BY <1>2, JobsAreOfAKind
    <3>4. RuleKnown(p)'
      BY <2>3, <3>1, <3>2, RuleStaysKnown, LimitsStay
    <3>5. CodeKnown(p)' /\ UserKnown(p)'
      BY <2>3, <3>1, <3>3, CodeStaysKnown, LimitsStay
    <3>6. QED
      BY <3>4, <3>5
  <2>4. QED
    BY <2>1, <2>2, <2>3
<1>6. OneRuleAnEntry'
  BY DEF RuleDeskInv, OneRuleAnEntry
<1>7. OwnersExist' /\ CodesDiffer'
  BY DEF RuleDeskInv, OwnersExist, CodesDiffer, HasCode
<1>8. /\ Desk!LimitsHold'
      /\ Within(Desk!MaxRules, most.rules)' /\ Within(Desk!MaxCodes, most.codes)'
  <2>1. \A u : Desk!CodesOf(u)' = Desk!CodesOf(u) /\ Desk!Owned(u)' = Desk!Owned(u)
    BY DEF Desk!CodesOf, Desk!Owned
  <2>2. Desk!LimitsHold'
    BY <2>1 DEF RuleDeskInv, Desk!LimitsHold
  <2>3. Within(Desk!MaxRules, most.rules)' /\ Within(Desk!MaxCodes, most.codes)'
    BY DEF RuleDeskInv, Within, Desk!MaxRules, Desk!MaxCodes
  <2>4. QED
    BY <2>2, <2>3
<1>9. QED
  BY <1>3, <1>4, <1>5, <1>6, <1>7, <1>8 DEF RuleDeskInv

LEMMA OneRequestConcerns ==
  ASSUME RuleDeskInv, NEW e, e \notin blurred[1], NEW q \in Requests, NEW p \in Requests,
         JobOfRule(asked[q]), JobOfRule(asked[p]), Concerns(asked[q], e), Concerns(asked[p], e)
  PROVE  q = p
<1>1. e \in Desk!Stakes(asked[q])[1] /\ e \in Desk!Stakes(asked[p])[1]
  BY StakesOfRuleJob
<1>2. asked[q] # Desk!NoJob /\ asked[p] # Desk!NoJob
  BY JobsHaveStakes
<1>3. QED
  BY <1>1, <1>2 DEF RuleDeskInv, Apart

\* What a request closes and opens in the firewall are entries of its own.
LEMMA EntriesOfRequest ==
  ASSUME NEW k, JobOfRule(k)
  PROVE  /\ \A e : e \in Desk!Kept(k.old) \cup Desk!Kept(k.new) \cup Desk!Marked(k.old) => Concerns(k, e)
         /\ \A e \in Desk!Kept(k.old) : e \in Desk!Marked(k.old)
         /\ \A e : e \in Desk!Closed(k) <=>
              IF Desk!Kept(k.new) = {} THEN e \in Desk!Marked(k.old)
              ELSE e \in Desk!Kept(k.old) /\ e \notin Desk!Kept(k.new)
         /\ \A e : e \in Desk!Opened(k) <=> e \in Desk!Kept(k.new) /\ e \notin Desk!Kept(k.old)
<1>1. \A e : e \in Desk!Kept(k.old) \cup Desk!Kept(k.new) \cup Desk!Marked(k.old) => Concerns(k, e)
  BY DEF Concerns, Desk!Kept, Desk!Marked
<1>2. \A e \in Desk!Kept(k.old) : e \in Desk!Marked(k.old)
  BY DEF Desk!Kept, Desk!Marked, Desk!Managed
<1>3. \A e : e \in Desk!Closed(k) <=>
        IF Desk!Kept(k.new) = {} THEN e \in Desk!Marked(k.old)
        ELSE e \in Desk!Kept(k.old) /\ e \notin Desk!Kept(k.new)
  BY DEF Desk!Closed
<1>4. \A e : e \in Desk!Opened(k) <=> e \in Desk!Kept(k.new) /\ e \notin Desk!Kept(k.old)
  BY DEF Desk!Opened
<1>5. QED
  BY <1>1, <1>2, <1>3, <1>4

\* What the wall has of an entry that a late request concerns.
LEMMA WallOfRequest ==
  ASSUME RuleDeskInv, NEW q \in Requests, Late(asked[q]),
         NEW e \in Desk!Entries \ blurred[1], Concerns(asked[q], e)
  PROVE  /\ rules[asked[q].id] = asked[q].new
         /\ \A s \in DeskRules : rules[s] # None /\ Desk!Entry(rules[s]) = e => s = asked[q].id
         /\ wall[e] = IF e \in Desk!Kept(asked[q].old)
                         /\ (asked[q].at = "clean" \/ e \in Desk!Kept(asked[q].new))
                      THEN 1 ELSE 0
         /\ Has(e) <=> e \in Desk!Kept(asked[q].new)
<1>1. /\ rules[asked[q].id] = asked[q].new
      /\ \A s \in DeskRules : rules[s] # None /\ Desk!Entry(rules[s]) = e => s = asked[q].id
      /\ wall[e] = IF e \in Desk!Kept(asked[q].old)
                      /\ (asked[q].at = "clean" \/ e \in Desk!Kept(asked[q].new))
                   THEN 1 ELSE 0
  BY DEF RuleDeskInv, WallIsAhead
<1>2. asked[q].id \in DeskRules
  BY DEF Late, JobOfRule
<1>3. Has(e) <=> e \in Desk!Kept(asked[q].new)
  BY <1>1, <1>2 DEF Has, Desk!Kept
<1>4. QED
  BY <1>1, <1>3

\* A late request that leaves an entry alone leaves the wall right there.
LEMMA WallElsewhere ==
  ASSUME RuleDeskInv, NEW q \in Requests, NEW e \in Desk!Entries \ blurred[1],
         Late(asked[q]), ~Concerns(asked[q], e), UNCHANGED rules, wall'[e] = wall[e],
         \A p \in Requests \ {q} : asked'[p] = asked[p],
         Late(asked'[q]) => ~Concerns(asked'[q], e)
  PROVE  WallIsAhead(e)'
<1>1. Has(e)' = Has(e)
  BY DEF Has
<1>2. WallIsAhead(e)
  BY DEF RuleDeskInv
<1>3. ASSUME \A p \in Requests : Late(asked'[p]) => ~Concerns(asked'[p], e)
      PROVE  wall'[e] = IF Has(e)' THEN 1 ELSE 0
  <2>1. \A p \in Requests : Late(asked[p]) => ~Concerns(asked[p], e)
    BY <1>3
  <2>2. QED
    BY <1>1, <1>2, <2>1 DEF WallIsAhead
<1>4. ASSUME NEW p \in Requests, Late(asked'[p]), Concerns(asked'[p], e)
      PROVE  /\ rules'[asked'[p].id] = asked'[p].new
             /\ \A s \in DeskRules : rules'[s] # None /\ Desk!Entry(rules'[s]) = e => s = asked'[p].id
             /\ wall'[e] = IF e \in Desk!Kept(asked'[p].old)
                              /\ (asked'[p].at = "clean" \/ e \in Desk!Kept(asked'[p].new))
                           THEN 1 ELSE 0
  <2>1. PICK k : k = asked[p] /\ asked'[p] = k /\ Late(k) /\ Concerns(k, e)
    BY <1>4
  <2>2. /\ rules[k.id] = k.new
        /\ \A s \in DeskRules : rules[s] # None /\ Desk!Entry(rules[s]) = e => s = k.id
        /\ wall[e] = IF e \in Desk!Kept(k.old) /\ (k.at = "clean" \/ e \in Desk!Kept(k.new))
                     THEN 1 ELSE 0
    BY <1>2, <2>1 DEF WallIsAhead
  <2>3. /\ rules'[k.id] = k.new
        /\ \A s \in DeskRules : rules'[s] # None /\ Desk!Entry(rules'[s]) = e => s = k.id
        /\ wall'[e] = IF e \in Desk!Kept(k.old) /\ (k.at = "clean" \/ e \in Desk!Kept(k.new))
                      THEN 1 ELSE 0
    BY <2>2
  <2>4. QED
    BY <2>1, <2>3
<1>5. QED
  BY <1>3, <1>4 DEF WallIsAhead

LEMMA LateIsOfRule ==
  ASSUME RuleDeskInv, NEW q \in Requests
  PROVE  /\ asked[q].at \in {"clean", "open"} => Late(asked[q])
         /\ asked[q].at = "manager" => JobOfRule(asked[q])
         /\ asked[q].at \in {"store", "purge"} => JobOfCode(asked[q]) \/ JobOfUser(asked[q])
<1>1. asked[q] = Desk!NoJob \/ JobOfRule(asked[q]) \/ JobOfCode(asked[q]) \/ JobOfUser(asked[q])
  BY DEF RuleDeskInv, DeskTypes
<1>2. QED
  BY <1>1 DEF Desk!NoJob, JobOfRule, JobOfCode, JobOfUser, Late

LEMMA CleanWallStep ==
  ASSUME RuleDeskInv, NEW q \in Requests, Desk!CleanWall(q)
  PROVE  RuleDeskInv'
<1>1. PICK k : k = asked[q] /\ JobOfRule(k) /\ k.at = "clean" /\ Late(k)
  <2>1. Late(asked[q])
    BY LateIsOfRule DEF Desk!CleanWall
  <2>2. QED
    BY <2>1 DEF Desk!CleanWall, Late
<1>2. asked' = [p \in Requests |-> IF p = q THEN Opens(k) ELSE asked[p]]
  BY <1>1 DEF Desk!CleanWall, RuleDeskInv, DeskTypes, Opens
<1>3. wall' = [e \in Desk!Entries |-> IF e \in Desk!Closed(k) /\ wall[e] > 0 THEN wall[e] - 1 ELSE wall[e]]
      /\ UNCHANGED <<people, rules, codes, policy, desk, started, blurred, most>>
  BY <1>1 DEF Desk!CleanWall
<1>4. wall \in [Desk!Entries -> Nat]
  BY DEF RuleDeskInv, DeskTypes, Desk!DeskTypeOK
<1>5. ASSUME NEW e \in Desk!Entries \ blurred[1]
      PROVE  WallIsAhead(e)'
  <2>1. CASE ~Concerns(k, e)
    <3>1. e \notin Desk!Closed(k)
      BY <1>1, <2>1, EntriesOfRequest
    <3>2. wall'[e] = wall[e] /\ ~Concerns(Opens(k), e)
      BY <1>1, <1>3, <2>1, <3>1, OpensIsTheSame DEF Concerns
    <3>3. QED
      BY <1>1, <1>2, <1>3, <2>1, <3>2, WallElsewhere
  <2>2. CASE Concerns(k, e)
    <3>1. /\ rules[k.id] = k.new
          /\ \A s \in DeskRules : rules[s] # None /\ Desk!Entry(rules[s]) = e => s = k.id
          /\ wall[e] = IF e \in Desk!Kept(k.old) THEN 1 ELSE 0
      BY <1>1, <2>2, WallOfRequest
    <3>2. wall'[e] = IF e \in Desk!Kept(k.old) /\ e \in Desk!Kept(k.new) THEN 1 ELSE 0
      BY <1>1, <1>3, <1>4, <3>1, EntriesOfRequest
    <3>3. asked'[q] = Opens(k) /\ Late(Opens(k)) /\ Concerns(Opens(k), e)
      BY <1>1, <1>2, <2>2, OpensIsTheSame DEF Concerns
    <3>4. ASSUME NEW p \in Requests, Late(asked'[p]), Concerns(asked'[p], e)
          PROVE  p = q
      <4>1. CASE p # q
        <5>1. asked'[p] = asked[p] /\ JobOfRule(asked[p]) /\ Concerns(asked[p], e)
          BY <1>2, <3>4, <4>1 DEF Late
        <5>2. QED
          BY <1>1, <2>2, <5>1, OneRequestConcerns
      <4>2. QED
        BY <4>1
    <3>5. PICK o : o = Opens(k) /\ asked'[q] = o /\ o.at = "open" /\ o.id = k.id /\ o.old = k.old
                   /\ o.new = k.new
      BY <1>1, <3>3, OpensIsTheSame
    <3>6. /\ rules'[o.id] = o.new
          /\ \A s \in DeskRules : rules'[s] # None /\ Desk!Entry(rules'[s]) = e => s = o.id
          /\ wall'[e] = IF e \in Desk!Kept(o.old) /\ (o.at = "clean" \/ e \in Desk!Kept(o.new))
                        THEN 1 ELSE 0
      BY <1>3, <3>1, <3>2, <3>5
    <3>7. QED
      BY <3>3, <3>4, <3>5, <3>6 DEF WallIsAhead
  <2>3. QED
    BY <2>1, <2>2
<1>6. wall' \in [Desk!Entries -> Nat]
  BY <1>3, <1>4
<1>7. \A p \in Requests :
        \/ asked'[p] \in {asked[p], Desk!NoJob}
        \/ JobOfRule(asked[p]) /\ asked[p].at = "clean" /\ asked'[p] = Opens(asked[p])
  BY <1>1, <1>2
<1>8. asked' = [p \in Requests |-> asked'[p]]
  BY <1>2
<1>9. QED
  BY <1>3, <1>5, <1>6, <1>7, <1>8, RequestsEnd

\* The entry of a request that is through.
LEMMA EntryIsSettled ==
  ASSUME RuleDeskInv, NEW q \in Requests, NEW e \in Desk!Entries \ blurred[1],
         Late(asked[q]), Concerns(asked[q], e), UNCHANGED rules,
         asked' = [p \in Requests |-> IF p = q THEN Desk!NoJob ELSE asked[p]],
         wall'[e] = IF e \in Desk!Kept(asked[q].new) THEN 1 ELSE 0
  PROVE  WallIsAhead(e)'
<1>1. \A p \in Requests : Late(asked'[p]) => ~Concerns(asked'[p], e)
  <2> SUFFICES ASSUME NEW p \in Requests, Late(asked'[p]), Concerns(asked'[p], e)
               PROVE  FALSE
    OBVIOUS
  <2>1. p # q
    BY JobsAreOfAKind DEF Late
  <2>2. JobOfRule(asked[p]) /\ Concerns(asked[p], e)
    BY <2>1 DEF Late
  <2>3. QED
    BY <2>1, <2>2, OneRequestConcerns DEF Late
<1>2. Has(e) <=> e \in Desk!Kept(asked[q].new)
  BY WallOfRequest
<1>3. Has(e)' <=> Has(e)
  BY DEF Has
<1>4. QED
  BY <1>1, <1>2, <1>3 DEF WallIsAhead

LEMMA OpenWallStep ==
  ASSUME RuleDeskInv, NEW q \in Requests, Desk!OpenWall(q)
  PROVE  RuleDeskInv'
<1>1. PICK k : k = asked[q] /\ JobOfRule(k) /\ k.at = "open" /\ Late(k)
  <2>1. asked[q].at = "open"
    BY DEF Desk!OpenWall
  <2>2. Late(asked[q])
    BY <2>1, LateIsOfRule
  <2>3. QED
    BY <2>1, <2>2 DEF Late
<1>2. asked' = [p \in Requests |-> IF p = q THEN Desk!NoJob ELSE asked[p]]
  BY DEF Desk!OpenWall, Desk!Ends, RuleDeskInv, DeskTypes
<1>3. UNCHANGED <<people, rules, codes, policy, desk, started, most>>
  BY DEF Desk!OpenWall
<1>4. wall \in [Desk!Entries -> Nat]
  BY DEF RuleDeskInv, DeskTypes, Desk!DeskTypeOK
<1>5. \/ /\ wall' = [e \in Desk!Entries |-> IF e \in Desk!Opened(k) THEN wall[e] + 1 ELSE wall[e]]
         /\ UNCHANGED blurred
      \/ /\ \A d \in 1 .. 3 : blurred[d] \subseteq blurred'[d]
         /\ Desk!Opened(k) \subseteq blurred'[1] /\ UNCHANGED wall
  BY <1>1 DEF Desk!OpenWall, Desk!Blur
<1>6. \A d \in 1 .. 3 : blurred[d] \subseteq blurred'[d]
  BY <1>5
<1>7. ASSUME NEW e \in Desk!Entries \ blurred'[1]
      PROVE  WallIsAhead(e)'
  <2>1. e \notin blurred[1]
    BY <1>6, <1>7
  <2>2. CASE ~Concerns(k, e)
    <3>1. e \notin Desk!Opened(k)
      BY <1>1, <2>2, EntriesOfRequest
    <3>2. wall'[e] = wall[e]
      BY <1>5, <3>1
    <3>3. ~Late(asked'[q])
      BY <1>2, JobsAreOfAKind DEF Late
    <3>4. QED
      BY <1>1, <1>2, <1>3, <2>1, <2>2, <3>2, <3>3, WallElsewhere
  <2>3. CASE Concerns(k, e)
    <3>1. wall[e] = IF e \in Desk!Kept(k.old) /\ e \in Desk!Kept(k.new) THEN 1 ELSE 0
      BY <1>1, <2>1, <2>3, WallOfRequest
    <3>2. wall'[e] = IF e \in Desk!Kept(k.new) THEN 1 ELSE 0
      BY <1>1, <1>5, <1>7, <3>1, EntriesOfRequest
    <3>3. QED
      BY <1>1, <1>2, <1>3, <2>1, <2>3, <3>2, EntryIsSettled
  <2>4. QED
    BY <2>2, <2>3
<1>8. \A p \in Requests : asked'[p] \in {asked[p], Desk!NoJob}
  BY <1>2
<1>9. asked' = [p \in Requests |-> asked'[p]]
  BY <1>2
<1>10. wall' \in [Desk!Entries -> Nat]
  BY <1>4, <1>5
<1>11. QED
  BY <1>3, <1>6, <1>7, <1>8, <1>9, <1>10, RequestsEnd

\* A request that the manager or the store turns down.
LEMMA IdleEnd ==
  ASSUME RuleDeskInv, NEW q \in Requests, ~Late(asked[q]),
         Desk!Ends(q), UNCHANGED <<people, rules, codes, policy, wall, desk, started, blurred, most>>
  PROVE  RuleDeskInv'
<1>1. asked' = [p \in Requests |-> IF p = q THEN Desk!NoJob ELSE asked[p]]
  BY DEF Desk!Ends, RuleDeskInv, DeskTypes
<1>2. \A p \in Requests : /\ Late(asked'[p]) <=> Late(asked[p])
                          /\ Late(asked[p]) => asked'[p] = asked[p]
  BY <1>1, JobsAreOfAKind DEF Late
<1>3. \A e \in Desk!Entries \ blurred'[1] : WallIsAhead(e)'
  BY <1>2, WallStays DEF RuleDeskInv
<1>4. wall' \in [Desk!Entries -> Nat]
  BY DEF RuleDeskInv, DeskTypes, Desk!DeskTypeOK
<1>5. \A p \in Requests : asked'[p] \in {asked[p], Desk!NoJob}
  BY <1>1
<1>6. asked' = [p \in Requests |-> asked'[p]]
  BY <1>1
<1>7. QED
  BY <1>3, <1>4, <1>5, <1>6, RequestsEnd

LEMMA CrashStep ==
  ASSUME RuleDeskInv, Desk!Crash
  PROVE  RuleDeskInv'
<1>1. asked' = [q \in Requests |-> Desk!NoJob]
      /\ UNCHANGED <<people, rules, codes, policy, wall, desk, started, most>>
  BY DEF Desk!Crash
<1>2. \A d \in 1 .. 3 :
        blurred'[d] = blurred[d] \cup UNION {Desk!Stakes(k)[d] : k \in Desk!Running}
  BY DEF Desk!Crash, Desk!Blur
<1>3. ASSUME NEW e \in Desk!Entries \ blurred'[1]
      PROVE  WallIsAhead(e)'
  <2>1. \A q \in Requests : Late(asked[q]) => ~Concerns(asked[q], e)
    <3> SUFFICES ASSUME NEW q \in Requests, Late(asked[q]), Concerns(asked[q], e)
                 PROVE  FALSE
      OBVIOUS
    <3>1. e \in Desk!Stakes(asked[q])[1]
      BY StakesOfRuleJob DEF Late
    <3>2. asked[q] \in Desk!Running
      BY JobsAreOfAKind DEF Late, Desk!Running
    <3>3. QED
      BY <1>2, <1>3, <3>1, <3>2
  <2>2. WallIsAhead(e)
    BY <1>2, <1>3 DEF RuleDeskInv
  <2>3. wall'[e] = IF Has(e)' THEN 1 ELSE 0
    BY <1>1, <2>1, <2>2 DEF WallIsAhead, Has
  <2>4. \A q \in Requests : ~Late(asked'[q])
    BY <1>1, JobsAreOfAKind DEF Late
  <2>5. QED
    BY <2>3, <2>4 DEF WallIsAhead
<1>4. wall' \in [Desk!Entries -> Nat]
  BY <1>1 DEF RuleDeskInv, DeskTypes, Desk!DeskTypeOK
<1>5. \A p \in Requests : asked'[p] \in {asked[p], Desk!NoJob}
  BY <1>1
<1>6. asked' = [p \in Requests |-> asked'[p]]
  BY <1>1
<1>7. \A d \in 1 .. 3 : blurred[d] \subseteq blurred'[d]
  BY <1>2
<1>8. QED
  BY <1>1, <1>3, <1>4, <1>5, <1>6, <1>7, RequestsEnd

LEMMA LimitsStep ==
  ASSUME RuleDeskInv, NEW p \in desk.policies, Desk!ChangeLimits(p)
  PROVE  RuleDeskInv'
<1>1. /\ policy' = p /\ UNCHANGED <<people, rules, codes, wall, asked, desk, started, blurred>>
      /\ most' = [rules |-> Desk!Wider(most.rules, Desk!Picked(p.groupRules, p.rules)),
                  codes |-> Desk!Wider(most.codes, Desk!Picked(p.groupCodes, p.codes))]
  BY DEF Desk!ChangeLimits
<1>2. most.rules \in Int /\ most.codes \in Int
  BY DEF RuleDeskInv, DeskTypes
<1>3. p.groupRules \in Int /\ p.rules \in Int /\ p.groupCodes \in Int /\ p.codes \in Int
  BY DeskIsAssumed DEF RuleDeskInv, DeskTypes
<1>4. /\ Desk!MaxRules' = Desk!Picked(p.groupRules, p.rules) /\ Desk!MaxRules' \in Int
      /\ Desk!MaxCodes' = Desk!Picked(p.groupCodes, p.codes) /\ Desk!MaxCodes' \in Int
  BY <1>1, <1>3 DEF Desk!MaxRules, Desk!MaxCodes, Desk!Picked
<1>5. /\ most'.rules = Desk!Wider(most.rules, Desk!MaxRules') /\ most'.rules \in Int
      /\ most'.codes = Desk!Wider(most.codes, Desk!MaxCodes') /\ most'.codes \in Int
      /\ most' \in [rules : Int, codes : Int]
  BY <1>1, <1>2, <1>4 DEF Desk!Wider
<1>6. \A m \in Int, x \in Int :
        /\ Within(x, Desk!Wider(m, x))
        /\ m = -1 => Desk!Wider(m, x) = -1
        /\ Desk!Wider(m, x) = -1 \/ m <= Desk!Wider(m, x)
  BY DEF Within, Desk!Wider
<1>7. /\ Within(Desk!MaxRules, most.rules)' /\ Within(Desk!MaxCodes, most.codes)'
      /\ most'.rules = -1 \/ (most.rules # -1 /\ most.rules <= most'.rules)
      /\ most'.codes = -1 \/ (most.codes # -1 /\ most.codes <= most'.codes)
  BY <1>2, <1>4, <1>5, <1>6
<1>8. \A u : /\ Desk!Owned(u)' = Desk!Owned(u) /\ Cardinality(Desk!Owned(u)) \in Nat
             /\ Desk!CodesOf(u)' = Desk!CodesOf(u) /\ Cardinality(Desk!CodesOf(u)) \in Nat
  <2> TAKE u
  <2>1. Desk!Owned(u) \subseteq DeskRules /\ Desk!CodesOf(u) \subseteq Codes
    BY DEF Desk!Owned, Desk!CodesOf
  <2>2. Cardinality(Desk!Owned(u)) \in Nat /\ Cardinality(Desk!CodesOf(u)) \in Nat
    BY <2>1, DeskIsAssumed, FS_Subset, FS_CardinalityType
  <2>3. QED
    BY <1>1, <2>2 DEF Desk!Owned, Desk!CodesOf
<1>9. \A u : Room(u) => Room(u)'
  BY <1>2, <1>5, <1>7, <1>8 DEF Room
<1>10. Desk!LimitsHold'
  <2>1. \A u \in DeskUsers :
          /\ most.codes = -1 \/ Cardinality(Desk!CodesOf(u)) <= most.codes
          /\ u \in blurred[2] \/ most.rules = -1 \/ Cardinality(Desk!Owned(u)) <= most.rules
    BY DeskCounts DEF RuleDeskInv, Desk!LimitsHold
  <2>2. \A u \in DeskUsers :
          /\ most'.codes = -1 \/ Cardinality(Desk!CodesOf(u)) <= most'.codes
          /\ u \in blurred[2] \/ most'.rules = -1 \/ Cardinality(Desk!Owned(u)) <= most'.rules
    BY <1>2, <1>5, <1>7, <1>8, <2>1
  <2>3. QED
    BY <1>1, <1>8, <2>2, DeskCounts DEF Desk!LimitsHold
<1>11. ASSUME NEW q \in Requests PROVE RuleKnown(q)' /\ CodeKnown(q)' /\ UserKnown(q)'
  <2>1. RuleKnown(q)'
    BY <1>1, <1>9, RuleStaysKnown DEF RuleDeskInv
  <2>2. CodeKnown(q)' /\ UserKnown(q)'
    <3>1. PICK k : k = asked[q] /\ asked'[q] = k
      BY <1>1
    <3>2. JobOfCode(k) /\ k.what = "code" => Within(k.limit, most.codes)'
      <4>1. JobOfCode(k) /\ k.what = "code" => k.limit \in Int /\ Within(k.limit, most.codes)
        BY <3>1 DEF RuleDeskInv, CodeKnown, JobOfCode
      <4>2. QED
        BY <1>2, <1>5, <1>7, <4>1 DEF Within
    <3>3. CodeKnown(q)'
      BY <1>1, <3>1, <3>2 DEF RuleDeskInv, CodeKnown
    <3>4. UserKnown(q)'
      BY <1>1 DEF RuleDeskInv, UserKnown
    <3>5. QED
      BY <3>3, <3>4
  <2>3. QED
    BY <2>1, <2>2
<1>12. DeskTypes'
  <2>1. Desk!DeskTypeOK'
    BY <1>1 DEF RuleDeskInv, DeskTypes, Desk!DeskTypeOK, Desk!Entries
  <2>2. QED
    BY <1>1, <1>5, <2>1 DEF RuleDeskInv, DeskTypes
<1>13. Apart' /\ OneRuleAnEntry' /\ OwnersExist' /\ CodesDiffer'
  <2>1. Apart'
    BY <1>1 DEF RuleDeskInv, Apart
  <2>2. OneRuleAnEntry' /\ OwnersExist' /\ CodesDiffer'
    BY <1>1 DEF RuleDeskInv, OneRuleAnEntry, OwnersExist, CodesDiffer, HasCode
  <2>3. QED
    BY <2>1, <2>2
<1>14. \A e \in Desk!Entries \ blurred'[1] : WallIsAhead(e)'
  BY <1>1, WallStays DEF RuleDeskInv
<1>15. QED
  BY <1>7, <1>10, <1>11, <1>12, <1>13, <1>14 DEF RuleDeskInv

-----------------------------------------------------------------------------
(* The desk: the manager saves, or drops, a rule                           *)

SavedAs(k, n) == Desk!Job("clean", k.what, k.id, k.old, n, k.limit)

LEMMA StakesOfSaved ==
  ASSUME NEW k, JobOfRule(k), NEW n \in Desk!Rule \cup {None}, k.what = "drop" <=> n = None
  PROVE  /\ JobOfRule(SavedAs(k, n)) /\ Late(SavedAs(k, n)) /\ ~Early(SavedAs(k, n))
         /\ SavedAs(k, n).id = k.id /\ SavedAs(k, n).old = k.old /\ SavedAs(k, n).new = n
         /\ SavedAs(k, n).at = "clean" /\ SavedAs(k, n).what = k.what
         /\ \A x : Concerns(SavedAs(k, n), x)
                     => Concerns(k, x) \/ (n # None /\ x = Desk!Entry(n))
         /\ n = k.new => \A x : Concerns(SavedAs(k, n), x) <=> Concerns(k, x)
         /\ \A x : n # None /\ x = Desk!Entry(n) => Concerns(SavedAs(k, n), x)
<1> DEFINE s == SavedAs(k, n)
<1>1. s = Desk!Job("clean", k.what, k.id, k.old, n, k.limit)
  BY DEF SavedAs
<1>2. /\ s.at = "clean" /\ s.what = k.what /\ s.id = k.id /\ s.old = k.old /\ s.new = n
      /\ s.limit = k.limit
  BY <1>1 DEF Desk!Job
<1> HIDE DEF s
<1>3. JobOfRule(s)
  <2>1. s.new \in IF s.what = "drop" THEN {None} ELSE Desk!Rule
    BY <1>2
  <2>2. QED
    BY <1>1, <1>2, <2>1 DEF JobOfRule
<1>4. Late(s) /\ ~Early(s)
  BY <1>2, <1>3 DEF Late, Early
<1>5. /\ \A x : Concerns(s, x) => Concerns(k, x) \/ (n # None /\ x = Desk!Entry(n))
      /\ n = k.new => \A x : Concerns(s, x) <=> Concerns(k, x)
      /\ \A x : n # None /\ x = Desk!Entry(n) => Concerns(s, x)
  BY <1>2 DEF Concerns
<1>6. QED
  BY <1>2, <1>3, <1>4, <1>5 DEF s

\* What is assumed of a step in which the manager puts n in the place of a rule.
Puts(q, n) ==
  LET k == asked[q] IN
  /\ JobOfRule(k) /\ k.at = "manager"
  /\ n \in Desk!Rule \cup {None} /\ (k.what = "drop" <=> n = None)
  /\ rules' = [rules EXCEPT ![k.id] = n]
  /\ asked' = [p \in Requests |-> IF p = q THEN SavedAs(k, n) ELSE asked[p]]
  /\ blurred[1] \subseteq blurred'[1] /\ blurred'[2] = blurred[2] /\ blurred'[3] = blurred[3]
  /\ UNCHANGED <<people, codes, policy, wall, desk, started, most>>
  /\ rules[k.id] = k.old \/ k.what \in {"add", "drop"} => n = k.new
  /\ n # None =>
       /\ (\E s \in DeskRules \ {k.id} : rules[s] # None /\ Desk!Entry(rules[s]) = Desk!Entry(n))
            => Desk!Entry(n) \in blurred'[1]
       /\ rules[k.id] # k.old => Desk!Entry(n) \in blurred'[1]
  /\ k.what \in {"edit", "toggle"} =>
       /\ rules[k.id] # None
       /\ n.owner = IF k.old.owner # k.new.owner THEN k.new.owner ELSE rules[k.id].owner
       /\ n.target = IF k.old.target # k.new.target THEN k.new.target ELSE rules[k.id].target

\* What the entries of the request are, once it has saved.
LEMMA PutEntries ==
  ASSUME RuleDeskInv, NEW q \in Requests, NEW n, Puts(q, n), NEW k, k = asked[q]
  PROVE  /\ \/ n = k.new /\ rules[k.id] = k.old
            \/ \A x : x = k.id \/ Concerns(SavedAs(k, n), x) \/ Concerns(k, x) => x \in blurred'[1]
         /\ n # k.new => \A x : x = k.id \/ Concerns(SavedAs(k, n), x) => x \in blurred'[1]
         /\ rules[k.id] # None /\ Desk!Entry(rules[k.id]) \notin blurred[1] => rules[k.id] = k.old
<1>1. /\ JobOfRule(k) /\ k.at = "manager" /\ n \in Desk!Rule \cup {None}
      /\ k.what = "drop" <=> n = None
  BY DEF Puts
<1>2. /\ rules[k.id] = k.old => n = k.new
      /\ n # None /\ rules[k.id] # k.old => Desk!Entry(n) \in blurred'[1]
      /\ blurred[1] \subseteq blurred'[1]
  BY DEF Puts
<1>3. \/ rules[k.id] = k.old
      \/ /\ Desk!Stakes(k)[1] \subseteq blurred[1]
         /\ rules[k.id] # None => Desk!Entry(rules[k.id]) \in blurred[1]
  BY <1>1 DEF RuleDeskInv, RuleKnown
<1>4. \A x : x = k.id \/ Concerns(k, x) => x \in Desk!Stakes(k)[1]
  BY <1>1, StakesOfRuleJob
<1>5. \A x : Concerns(SavedAs(k, n), x) => Concerns(k, x) \/ (n # None /\ x = Desk!Entry(n))
  BY <1>1, StakesOfSaved
<1>6. CASE rules[k.id] = k.old
  BY <1>2, <1>6
<1>7. CASE rules[k.id] # k.old
  <2>1. \A x : x = k.id \/ Concerns(k, x) => x \in blurred'[1]
    BY <1>2, <1>3, <1>4, <1>7
  <2>2. \A x : Concerns(SavedAs(k, n), x) => x \in blurred'[1]
    BY <1>2, <1>5, <1>7, <2>1
  <2>3. QED
    BY <1>3, <1>7, <2>1, <2>2
<1>8. QED
  BY <1>6, <1>7

\* A put rule has another owner, or leads elsewhere, only as its request says.
LEMMA PutOwners ==
  ASSUME RuleDeskInv, NEW q \in Requests, NEW n, Puts(q, n), NEW k, k = asked[q], n # None
  PROVE  /\ \/ rules[k.id] # None /\ n.owner = rules[k.id].owner /\ k.what # "add"
               /\ k.old.owner = k.new.owner
            \/ n.owner = k.new.owner /\ k.new # None
               /\ (k.what = "add" \/ n.owner \in {Shared} \cup blurred[2])
         /\ \/ rules[k.id] # None /\ n.target = rules[k.id].target /\ k.what # "add"
            \/ n.target = k.new.target /\ k.new # None
         /\ k.what = "add" => n = k.new /\ rules[k.id] = None
<1>1. /\ JobOfRule(k) /\ k.at = "manager" /\ (k.what = "drop" <=> n = None)
      /\ k.what = "add" => n = k.new
      /\ k.what \in {"edit", "toggle"} =>
           /\ rules[k.id] # None
           /\ n.owner = IF k.old.owner # k.new.owner THEN k.new.owner ELSE rules[k.id].owner
           /\ n.target = IF k.old.target # k.new.target THEN k.new.target ELSE rules[k.id].target
  BY DEF Puts
<1>2. /\ k.what \in {"edit", "toggle"} => k.new.owner \in {k.old.owner, Shared} \cup blurred[2]
      /\ k.what = "add" => rules[k.id] = None
  BY <1>1 DEF RuleDeskInv, RuleKnown
<1>3. k.what \in {"add", "edit", "toggle"} /\ k.new # None
  BY <1>1, DeskIsAssumed DEF JobOfRule
<1>4. QED
  BY <1>1, <1>2, <1>3

\* Nobody's rules become more but those of the user for whom a rule is added.
LEMMA PutOwned ==
  ASSUME RuleDeskInv, NEW q \in Requests, NEW n, Puts(q, n), NEW k, k = asked[q], NEW u,
         u \notin {Shared} \cup blurred[2]
  PROVE  /\ Desk!Owned(u)' \subseteq Desk!Owned(u) \cup {k.id}
         /\ ~(n # None /\ k.what = "add" /\ n.owner = u) => Desk!Owned(u)' \subseteq Desk!Owned(u)
<1>1. k.id \in DeskRules /\ rules' = [rules EXCEPT ![k.id] = n] /\ rules \in [DeskRules -> Desk!Rule \cup {None}]
  BY DEF Puts, JobOfRule, RuleDeskInv, DeskTypes, Desk!DeskTypeOK
<1>2. \A r \in DeskRules : rules'[r] = IF r = k.id THEN n ELSE rules[r]
  BY <1>1
<1>3. Desk!Owned(u)' = {r \in DeskRules : rules'[r] # None /\ rules'[r].owner = u}
  BY DEF Desk!Owned
<1>4. Desk!Owned(u)' \subseteq Desk!Owned(u) \cup {k.id}
  BY <1>2, <1>3 DEF Desk!Owned
<1>5. ASSUME ~(n # None /\ k.what = "add" /\ n.owner = u), n # None, n.owner = u
      PROVE  rules[k.id] # None /\ rules[k.id].owner = u
  BY <1>5, PutOwners
<1>6. ASSUME ~(n # None /\ k.what = "add" /\ n.owner = u)
      PROVE  Desk!Owned(u)' \subseteq Desk!Owned(u)
  <2>1. ASSUME NEW r \in DeskRules, rules'[r] # None, rules'[r].owner = u
        PROVE  rules[r] # None /\ rules[r].owner = u
    BY <1>2, <1>5, <1>6, <2>1
  <2>2. QED
    BY <1>3, <2>1 DEF Desk!Owned
<1>7. QED
  BY <1>4, <1>6

LEMMA PutTypes ==
  ASSUME RuleDeskInv, NEW q \in Requests, NEW n, Puts(q, n)
  PROVE  DeskTypes'
<1>1. DeskTypes
  BY DEF RuleDeskInv
<1>2. PICK k : k = asked[q]
  OBVIOUS
<1>3. /\ JobOfRule(k) /\ n \in Desk!Rule \cup {None} /\ (k.what = "drop" <=> n = None)
      /\ rules' = [rules EXCEPT ![k.id] = n]
      /\ asked' = [p \in Requests |-> IF p = q THEN SavedAs(k, n) ELSE asked[p]]
      /\ UNCHANGED <<people, codes, policy, wall, desk, started, most>>
  BY <1>2 DEF Puts
<1>4. rules' \in [DeskRules -> Desk!Rule \cup {None}]
  BY <1>1, <1>3 DEF DeskTypes, Desk!DeskTypeOK
<1>5. Desk!DeskTypeOK'
  BY <1>1, <1>3, <1>4 DEF DeskTypes, Desk!DeskTypeOK, Desk!Entries
<1>6. JobOfRule(SavedAs(k, n))
  BY <1>3, StakesOfSaved
<1>7. \A p \in Requests :
        asked'[p] = Desk!NoJob \/ JobOfRule(asked'[p]) \/ JobOfCode(asked'[p]) \/ JobOfUser(asked'[p])
  BY <1>1, <1>3, <1>6 DEF DeskTypes
<1>8. asked' = [p \in Requests |-> asked'[p]]
  BY <1>3
<1>9. QED
  BY <1>1, <1>3, <1>5, <1>7, <1>8 DEF DeskTypes

LEMMA PutApart ==
  ASSUME RuleDeskInv, NEW q \in Requests, NEW n, Puts(q, n)
  PROVE  Apart'
<1>1. PICK k : k = asked[q] /\ JobOfRule(k)
  BY DEF Puts
<1>2. /\ n \in Desk!Rule \cup {None} /\ (k.what = "drop" <=> n = None)
      /\ asked' = [p \in Requests |-> IF p = q THEN SavedAs(k, n) ELSE asked[p]]
      /\ blurred[1] \subseteq blurred'[1] /\ blurred'[2] = blurred[2] /\ blurred'[3] = blurred[3]
  BY <1>1 DEF Puts
<1>3. PICK s : s = SavedAs(k, n) /\ asked'[q] = s
  BY <1>2
<1>4. JobOfRule(s) /\ ~Early(s) /\ s.id = k.id
  BY <1>1, <1>2, <1>3, StakesOfSaved
<1>5. \/ \A x : x \in Desk!Stakes(s)[1] <=> x \in Desk!Stakes(k)[1]
      \/ \A x : x \in Desk!Stakes(s)[1] => x \in blurred'[1]
  <2>1. CASE n = k.new
    <3>1. \A x : Concerns(s, x) <=> Concerns(k, x)
      BY <1>1, <1>2, <1>3, <2>1, StakesOfSaved
    <3>2. QED
      BY <1>1, <1>4, <3>1, StakesOfRuleJob
  <2>2. CASE n # k.new
    <3>1. \A x : x = k.id \/ Concerns(s, x) => x \in blurred'[1]
      BY <1>1, <1>3, <2>2, PutEntries
    <3>2. QED
      BY <1>4, <3>1, StakesOfRuleJob
  <2>3. QED
    BY <2>1, <2>2
<1>6. \A r, p \in Requests : r # p /\ asked[r] # Desk!NoJob /\ asked[p] # Desk!NoJob =>
        /\ \A x \in Desk!Stakes(asked[r])[1] : x \in Desk!Stakes(asked[p])[1] => x \in blurred'[1]
        /\ JobOfRule(asked[r]) /\ JobOfRule(asked[p]) /\ asked[r].id = asked[p].id
             => Desk!Stakes(asked[r])[1] \subseteq blurred'[1]
        /\ Early(asked[r]) /\ Early(asked[p]) =>
             \A d \in {2, 3} : \A x \in Desk!Stakes(asked[r])[d] :
                x \in Desk!Stakes(asked[p])[d] => x \in blurred'[d]
  BY <1>2 DEF RuleDeskInv, Apart
<1>7. asked[q] # Desk!NoJob
  BY <1>1, JobsAreOfAKind
<1> SUFFICES ASSUME NEW r \in Requests, NEW p \in Requests, r # p,
                    asked'[r] # Desk!NoJob, asked'[p] # Desk!NoJob
             PROVE  /\ \A x \in Desk!Stakes(asked'[r])[1] :
                         x \in Desk!Stakes(asked'[p])[1] => x \in blurred'[1]
                    /\ JobOfRule(asked'[r]) /\ JobOfRule(asked'[p]) /\ asked'[r].id = asked'[p].id
                         => Desk!Stakes(asked'[r])[1] \subseteq blurred'[1]
                    /\ Early(asked'[r]) /\ Early(asked'[p]) =>
                         \A d \in {2, 3} : \A x \in Desk!Stakes(asked'[r])[d] :
                            x \in Desk!Stakes(asked'[p])[d] => x \in blurred'[d]
  BY DEF Apart
<1>8. CASE r # q /\ p # q
  <2>1. asked'[r] = asked[r] /\ asked'[p] = asked[p]
    BY <1>2, <1>8
  <2>2. QED
    BY <1>6, <2>1
<1>9. CASE r = q
  <2>1. asked'[r] = s /\ asked'[p] = asked[p] /\ asked[p] # Desk!NoJob
    BY <1>2, <1>3, <1>9
  <2>2. /\ \A x \in Desk!Stakes(k)[1] : x \in Desk!Stakes(asked[p])[1] => x \in blurred'[1]
        /\ JobOfRule(asked[p]) /\ k.id = asked[p].id => Desk!Stakes(k)[1] \subseteq blurred'[1]
    BY <1>1, <1>6, <1>7, <1>9, <2>1
  <2>3. QED
    BY <1>4, <1>5, <2>1, <2>2
<1>10. CASE p = q
  <2>1. asked'[p] = s /\ asked'[r] = asked[r] /\ asked[r] # Desk!NoJob
    BY <1>2, <1>3, <1>10
  <2>2. /\ \A x \in Desk!Stakes(asked[r])[1] : x \in Desk!Stakes(k)[1] => x \in blurred'[1]
        /\ JobOfRule(asked[r]) /\ k.id = asked[r].id => Desk!Stakes(asked[r])[1] \subseteq blurred'[1]
    BY <1>1, <1>6, <1>7, <1>10, <2>1
  <2>3. QED
    BY <1>4, <1>5, <2>1, <2>2
<1>11. QED
  BY <1>8, <1>9, <1>10

\* Two early requests with a stake in one user, or in one address, are in doubt about it.
LEMMA EarlyApart ==
  ASSUME RuleDeskInv, NEW q \in Requests, NEW p \in Requests, q # p,
         asked[q] # Desk!NoJob, asked[p] # Desk!NoJob, Early(asked[q]), Early(asked[p]),
         NEW d \in {2, 3}, NEW x \in Desk!Stakes(asked[q])[d], x \in Desk!Stakes(asked[p])[d]
  PROVE  x \in blurred[d]
BY DEF RuleDeskInv, Apart

LEMMA PutRuleKnown ==
  ASSUME RuleDeskInv, NEW q \in Requests, NEW n, Puts(q, n), NEW p \in Requests
  PROVE  RuleKnown(p)'
<1>1. PICK k : k = asked[q] /\ JobOfRule(k) /\ k.at = "manager"
  BY DEF Puts
<1>2. /\ n \in Desk!Rule \cup {None} /\ (k.what = "drop" <=> n = None)
      /\ rules' = [rules EXCEPT ![k.id] = n]
      /\ asked' = [r \in Requests |-> IF r = q THEN SavedAs(k, n) ELSE asked[r]]
      /\ blurred[1] \subseteq blurred'[1] /\ blurred'[2] = blurred[2] /\ blurred'[3] = blurred[3]
      /\ UNCHANGED <<people, codes, most>>
  BY <1>1 DEF Puts
<1>3. PICK s : s = SavedAs(k, n) /\ asked'[q] = s
  BY <1>2
<1>4. JobOfRule(s) /\ s.at = "clean" /\ s.id = k.id
  BY <1>1, <1>2, <1>3, StakesOfSaved
<1>5. CASE p = q
  BY <1>3, <1>4, <1>5 DEF RuleKnown
<1>6. CASE p # q
  <2> SUFFICES ASSUME JobOfRule(asked'[p]), asked'[p].at = "manager"
               PROVE  RuleKnown(p)'
    BY DEF RuleKnown
  <2>1. PICK j : j = asked[p] /\ asked'[p] = j /\ JobOfRule(j) /\ j.at = "manager"
    BY <1>2, <1>6
  <2>2. RuleKnown(p) /\ RuleKnown(q)
    BY DEF RuleDeskInv
  <2>3. \A r \in DeskRules : rules'[r] = IF r = k.id THEN n ELSE rules[r]
    BY <1>2 DEF RuleDeskInv, DeskTypes, Desk!DeskTypeOK
  <2>4. j.id \in DeskRules /\ Early(j) /\ Early(k) /\ k # Desk!NoJob /\ j # Desk!NoJob
    BY <1>1, <2>1, JobsAreOfAKind DEF JobOfRule, Early
  <2>5. j.id = k.id => /\ Desk!Stakes(j)[1] \subseteq blurred[1] /\ Desk!Stakes(k)[1] \subseteq blurred[1]
                       /\ k.what # "add" /\ j.what # "add"
    <3>1. j.id = k.id => Desk!Stakes(j)[1] \subseteq blurred[1] /\ Desk!Stakes(k)[1] \subseteq blurred[1]
      BY <1>1, <1>6, <2>1, <2>4 DEF RuleDeskInv, Apart
    <3>2. k.what = "add" => j.id # k.id
      BY <1>1, <1>6, <2>1, <2>2 DEF RuleKnown
    <3>3. j.what = "add" => j.id # k.id
      BY <1>1, <1>6, <2>1, <2>2 DEF RuleKnown
    <3>4. QED
      BY <3>1, <3>2, <3>3
  <2>6. \/ rules'[j.id] = j.old
        \/ /\ Desk!Stakes(j)[1] \subseteq blurred'[1]
           /\ rules'[j.id] # None => Desk!Entry(rules'[j.id]) \in blurred'[1]
    <3>1. CASE j.id # k.id
      <4>1. rules'[j.id] = rules[j.id]
        BY <2>3, <2>4, <3>1
      <4>2. \/ rules[j.id] = j.old
            \/ /\ Desk!Stakes(j)[1] \subseteq blurred[1]
               /\ rules[j.id] # None => Desk!Entry(rules[j.id]) \in blurred[1]
        BY <2>1, <2>2 DEF RuleKnown
      <4>3. QED
        BY <1>2, <4>1, <4>2
    <3>2. CASE j.id = k.id
      <4>1. rules'[j.id] = n
        BY <2>3, <2>4, <3>2
      <4>2. n # None => Desk!Entry(n) \in blurred'[1]
        <5>1. CASE n = k.new
          <6>1. n # None => Concerns(k, Desk!Entry(n))
            BY <5>1 DEF Concerns
          <6>2. QED
            BY <1>1, <1>2, <2>5, <3>2, <6>1, StakesOfRuleJob
        <5>2. CASE n # k.new
          BY <1>1, <1>2, <5>2, PutEntries, StakesOfSaved
        <5>3. QED
          BY <5>1, <5>2
      <4>3. QED
        BY <1>2, <2>5, <3>2, <4>1, <4>2
    <3>3. QED
      BY <3>1, <3>2
  <2>7. j.what # "add" /\ rules'[j.id] # None =>
          rules'[j.id].owner \in {j.old.owner, Shared} \cup blurred'[2]
    <3> SUFFICES ASSUME j.what # "add", rules'[j.id] # None
                 PROVE  rules'[j.id].owner \in {j.old.owner, Shared} \cup blurred'[2]
      OBVIOUS
    <3>1. rules[j.id] # None => rules[j.id].owner \in {j.old.owner, Shared} \cup blurred[2]
      BY <2>1, <2>2 DEF RuleKnown
    <3>2. CASE j.id # k.id
      BY <1>2, <2>3, <2>4, <3>1, <3>2
    <3>3. CASE j.id = k.id
      <4>1. rules'[j.id] = n /\ n # None
        BY <2>3, <2>4, <3>3
      <4>2. \/ rules[k.id] # None /\ n.owner = rules[k.id].owner
            \/ n.owner \in {Shared} \cup blurred[2]
        BY <1>1, <2>5, <3>3, <4>1, PutOwners
      <4>3. QED
        BY <1>2, <3>1, <3>3, <4>1, <4>2
    <3>4. QED
      BY <3>2, <3>3
  <2>8. j.what = "add" =>
          /\ rules'[j.id] = None
          /\ \A r \in Requests \ {p} : JobOfRule(asked'[r]) => asked'[r].id # j.id
    <3> SUFFICES ASSUME j.what = "add"
                 PROVE  /\ rules'[j.id] = None
                        /\ \A r \in Requests \ {p} : JobOfRule(asked'[r]) => asked'[r].id # j.id
      OBVIOUS
    <3>1. /\ rules[j.id] = None
          /\ \A r \in Requests \ {p} : JobOfRule(asked[r]) => asked[r].id # j.id
      BY <2>1, <2>2 DEF RuleKnown
    <3>2. k.id # j.id
      BY <2>5
    <3>3. QED
      BY <1>2, <1>3, <1>4, <2>3, <2>4, <3>1, <3>2
  <2>9. j.what \in {"edit", "toggle"} => j.new.owner \in {j.old.owner, Shared} \cup blurred'[2]
    BY <1>2, <2>1, <2>2 DEF RuleKnown
  <2>10. j.new # None /\ j.new.owner \notin {Shared} \cup blurred'[2]
           /\ j.new.target \notin {Public} \cup blurred'[3]
           => HasCode(j.new.owner, j.new.target)'
    <3>1. HasCode(j.new.owner, j.new.target)' <=> HasCode(j.new.owner, j.new.target)
      BY <1>2 DEF HasCode
    <3>2. QED
      BY <1>2, <2>1, <2>2, <3>1 DEF RuleKnown
  <2>11. j.what = "add" /\ j.new.owner \notin {Shared} \cup blurred'[2]
           => j.new.owner \in people' /\ Room(j.new.owner)'
    <3> SUFFICES ASSUME j.what = "add", j.new.owner \notin {Shared} \cup blurred[2]
                 PROVE  j.new.owner \in people /\ Room(j.new.owner)'
      BY <1>2
    <3> DEFINE u == j.new.owner
    <3>1. u \in people /\ Room(u)
      BY <2>1, <2>2 DEF RuleKnown
    <3>2. u \in Desk!Stakes(j)[2]
      <4>1. j.new # None
        BY <2>1, DeskIsAssumed DEF JobOfRule
      <4>2. QED
        BY <2>1, <4>1, StakesOfRuleJob
    <3>3. ~(n # None /\ k.what = "add" /\ n.owner = u)
      <4> SUFFICES ASSUME n # None, k.what = "add", n.owner = u PROVE FALSE
        OBVIOUS
      <4>1. n = k.new
        BY <1>1, PutOwners
      <4>2. u \in Desk!Stakes(k)[2]
        BY <1>1, <4>1, StakesOfRuleJob
      <4>3. QED
        BY <1>1, <1>6, <2>1, <2>4, <3>2, <4>2, EarlyApart
    <3>4. Desk!Owned(u)' \subseteq Desk!Owned(u)
      BY <1>1, <3>3, PutOwned
    <3>5. IsFiniteSet(Desk!Owned(u))
      BY DeskIsAssumed, FS_Subset DEF Desk!Owned
    <3>6. /\ Cardinality(Desk!Owned(u)) \in Nat /\ Cardinality(Desk!Owned(u)') \in Nat
          /\ Cardinality(Desk!Owned(u)') <= Cardinality(Desk!Owned(u))
      BY <3>4, <3>5, FS_Subset, FS_CardinalityType
    <3>7. most' = most /\ (most.rules \in Int)
      BY <1>2 DEF RuleDeskInv, DeskTypes
    <3>8. Room(u)'
      BY <3>1, <3>6, <3>7 DEF Room
    <3>9. QED
      BY <3>1, <3>8
  <2>12. QED
    BY <2>1, <2>6, <2>7, <2>8, <2>9, <2>10, <2>11, KnownFromParts
<1>7. QED
  BY <1>5, <1>6

\* What the step changes, said once.
LEMMA PutFacts ==
  ASSUME RuleDeskInv, NEW q \in Requests, NEW n, Puts(q, n), NEW k, k = asked[q]
  PROVE  /\ JobOfRule(k) /\ k.at = "manager" /\ Early(k) /\ ~Late(k) /\ k # Desk!NoJob /\ k.id \in DeskRules
         /\ n \in Desk!Rule \cup {None} /\ (k.what = "drop" <=> n = None)
         /\ \A r \in DeskRules : rules'[r] = IF r = k.id THEN n ELSE rules[r]
         /\ asked'[q] = SavedAs(k, n) /\ JobOfRule(SavedAs(k, n))
         /\ \A p \in Requests \ {q} : asked'[p] = asked[p]
         /\ blurred[1] \subseteq blurred'[1] /\ blurred'[2] = blurred[2] /\ blurred'[3] = blurred[3]
         /\ UNCHANGED <<people, codes, policy, wall, desk, started, most>>
<1>1. /\ JobOfRule(k) /\ k.at = "manager" /\ n \in Desk!Rule \cup {None} /\ (k.what = "drop" <=> n = None)
      /\ rules' = [rules EXCEPT ![k.id] = n]
      /\ asked' = [p \in Requests |-> IF p = q THEN SavedAs(k, n) ELSE asked[p]]
      /\ blurred[1] \subseteq blurred'[1] /\ blurred'[2] = blurred[2] /\ blurred'[3] = blurred[3]
      /\ UNCHANGED <<people, codes, policy, wall, desk, started, most>>
  BY DEF Puts
<1>2. Early(k) /\ ~Late(k) /\ k # Desk!NoJob /\ k.id \in DeskRules
  BY <1>1, JobsAreOfAKind DEF Early, Late, JobOfRule
<1>3. \A r \in DeskRules : rules'[r] = IF r = k.id THEN n ELSE rules[r]
  BY <1>1 DEF RuleDeskInv, DeskTypes, Desk!DeskTypeOK
<1>4. JobOfRule(SavedAs(k, n))
  BY <1>1, StakesOfSaved
<1>5. QED
  BY <1>1, <1>2, <1>3, <1>4

LEMMA PutCodeKnown ==
  ASSUME RuleDeskInv, NEW q \in Requests, NEW n, Puts(q, n), NEW p \in Requests
  PROVE  CodeKnown(p)' /\ UserKnown(p)'
<1>1. PICK k : k = asked[q]
  OBVIOUS
<1>2. /\ JobOfRule(k) /\ Early(k) /\ k # Desk!NoJob /\ k.id \in DeskRules
      /\ \A r \in DeskRules : rules'[r] = IF r = k.id THEN n ELSE rules[r]
      /\ asked'[q] = SavedAs(k, n) /\ JobOfRule(SavedAs(k, n))
      /\ \A r \in Requests \ {q} : asked'[r] = asked[r]
      /\ blurred'[2] = blurred[2] /\ blurred'[3] = blurred[3]
      /\ UNCHANGED <<codes, most>>
  BY <1>1, PutFacts
<1>3. CASE p = q
  <2>1. ~JobOfCode(asked'[p]) /\ ~JobOfUser(asked'[p])
    BY <1>2, <1>3, JobsAreOfAKind
  <2>2. QED
    BY <2>1 DEF CodeKnown, UserKnown
<1>4. CASE p # q
  <2>1. PICK j : j = asked[p] /\ asked'[p] = j
    BY <1>2, <1>4
  <2>2. CodeKnown(p) /\ UserKnown(p)
    BY DEF RuleDeskInv
  <2>3. ASSUME JobOfCode(j), j.what = "uncode", j.old.ip \notin blurred[3],
               NEW r \in DeskRules, rules'[r] # None
        PROVE  rules'[r].target # j.old.ip
    <3>1. \A s \in DeskRules : rules[s] # None => rules[s].target # j.old.ip
      BY <2>1, <2>2, <2>3 DEF CodeKnown
    <3>2. CASE r # k.id
      BY <1>2, <2>3, <3>1, <3>2
    <3>3. CASE r = k.id
      <4>1. rules'[r] = n /\ n # None
        BY <1>2, <2>3, <3>3
      <4>2. CASE rules[k.id] # None /\ n.target = rules[k.id].target
        BY <1>2, <3>1, <4>1, <4>2
      <4>3. CASE n.target = k.new.target /\ k.new # None
        <5>1. j.old \in Desk!Code /\ j.old # None /\ j.old.ip # Public
          BY <2>3, DeskIsAssumed DEF JobOfCode, Desk!Code
        <5>2. j.old.ip \in Desk!Stakes(j)[3] /\ Early(j) /\ j # Desk!NoJob
          BY <2>3, <5>1, StakesOfOtherJob, JobsAreOfAKind DEF Early, JobOfCode
        <5>3. k.new.target = j.old.ip => j.old.ip \in Desk!Stakes(k)[3]
          BY <1>2, <4>3, <5>1, StakesOfRuleJob
        <5>4. k.new.target = j.old.ip => j.old.ip \in blurred[3]
          BY <1>1, <1>2, <1>4, <2>1, <5>2, <5>3, EarlyApart
        <5>5. QED
          BY <2>3, <4>1, <4>3, <5>4
      <4>4. QED
        BY <1>1, <4>1, <4>2, <4>3, PutOwners
    <3>4. QED
      BY <3>2, <3>3
  <2>4. ASSUME JobOfUser(j), j.id \notin blurred[2], NEW r \in DeskRules, rules'[r] # None
        PROVE  rules'[r].owner # j.id
    <3>1. \A s \in DeskRules : rules[s] # None => rules[s].owner # j.id
      BY <2>1, <2>2, <2>4 DEF UserKnown
    <3>2. CASE r # k.id
      BY <1>2, <2>4, <3>1, <3>2
    <3>3. CASE r = k.id
      <4>1. rules'[r] = n /\ n # None
        BY <1>2, <2>4, <3>3
      <4>2. CASE rules[k.id] # None /\ n.owner = rules[k.id].owner
        BY <1>2, <3>1, <4>1, <4>2
      <4>3. CASE n.owner = k.new.owner /\ k.new # None
        <5>1. j.id \in DeskUsers /\ j.id # Shared
          BY <2>4, DeskIsAssumed DEF JobOfUser
        <5>2. j.id \in Desk!Stakes(j)[2] /\ Early(j) /\ j # Desk!NoJob
          BY <2>4, <5>1, StakesOfOtherJob, JobsAreOfAKind DEF Early, JobOfUser
        <5>3. k.new.owner = j.id => j.id \in Desk!Stakes(k)[2]
          BY <1>2, <4>3, <5>1, StakesOfRuleJob
        <5>4. k.new.owner = j.id => j.id \in blurred[2]
          BY <1>1, <1>2, <1>4, <2>1, <5>2, <5>3, EarlyApart
        <5>5. QED
          BY <2>4, <4>1, <4>3, <5>4
      <4>4. QED
        BY <1>1, <4>1, <4>2, <4>3, PutOwners
    <3>4. QED
      BY <3>2, <3>3
  <2>5. \A r \in Requests : JobOfCode(asked'[r]) => JobOfCode(asked[r]) /\ asked'[r] = asked[r]
    BY <1>2, JobsAreOfAKind
  <2>6. CodeKnown(p)'
    <3>1. JobOfCode(j) /\ j.what = "code" =>
            /\ codes'[j.id] = None /\ Within(j.limit, most.codes)'
            /\ \A r \in Requests \ {p} : JobOfCode(asked'[r]) => asked'[r].id # j.id
      <4>1. JobOfCode(j) /\ j.what = "code" =>
              /\ codes[j.id] = None /\ Within(j.limit, most.codes)
              /\ \A r \in Requests \ {p} : JobOfCode(asked[r]) => asked[r].id # j.id
        BY <2>1, <2>2 DEF CodeKnown
      <4>2. Within(j.limit, most.codes)' <=> Within(j.limit, most.codes)
        BY <1>2 DEF Within
      <4>3. QED
        BY <1>2, <2>5, <4>1, <4>2
    <3>2. JobOfCode(j) /\ j.what # "code" /\ codes'[j.id] # None =>
            codes'[j.id].owner = j.old.owner /\ codes'[j.id].ip = j.old.ip
      BY <1>2, <2>1, <2>2 DEF CodeKnown
    <3>3. JobOfCode(j) /\ j.what = "uncode" /\ j.old.ip \notin blurred'[3] =>
            \A r \in DeskRules : rules'[r] # None => rules'[r].target # j.old.ip
      BY <1>2, <2>3
    <3>4. QED
      BY <2>1, <3>1, <3>2, <3>3 DEF CodeKnown
  <2>7. UserKnown(p)'
    BY <1>2, <2>1, <2>4 DEF UserKnown
  <2>8. QED
    BY <2>6, <2>7
<1>5. QED
  BY <1>3, <1>4

\* Another rule has the entry of the rule that is put only where that is known.
LEMMA PutIsAlone ==
  ASSUME RuleDeskInv, NEW q \in Requests, NEW n, Puts(q, n), NEW k, k = asked[q], n # None,
         Desk!Entry(n) \notin blurred'[1], NEW r \in DeskRules, rules[r] # None,
         Desk!Entry(rules[r]) = Desk!Entry(n)
  PROVE  r = k.id
BY DEF Puts

LEMMA PutOneRule ==
  ASSUME RuleDeskInv, NEW q \in Requests, NEW n, Puts(q, n)
  PROVE  OneRuleAnEntry'
<1>1. PICK k : k = asked[q]
  OBVIOUS
<1>2. /\ \A r \in DeskRules : rules'[r] = IF r = k.id THEN n ELSE rules[r]
      /\ blurred[1] \subseteq blurred'[1] /\ k.id \in DeskRules
  BY <1>1, PutFacts
<1> SUFFICES ASSUME NEW r \in DeskRules, NEW s \in DeskRules, rules'[r] # None, rules'[s] # None,
                    Desk!Entry(rules'[r]) = Desk!Entry(rules'[s]),
                    Desk!Entry(rules'[r]) \notin blurred'[1], r # s
             PROVE  FALSE
  BY DEF OneRuleAnEntry
<1>3. CASE r # k.id /\ s # k.id
  <2>1. rules'[r] = rules[r] /\ rules'[s] = rules[s]
    BY <1>2, <1>3
  <2>2. QED
    BY <1>2, <2>1 DEF RuleDeskInv, OneRuleAnEntry
<1>4. CASE r = k.id
  <2>1. rules'[r] = n /\ rules'[s] = rules[s]
    BY <1>2, <1>4
  <2>2. QED
    BY <1>1, <1>4, <2>1, PutIsAlone
<1>5. CASE s = k.id
  <2>1. rules'[s] = n /\ rules'[r] = rules[r]
    BY <1>2, <1>5
  <2>2. QED
    BY <1>1, <1>5, <2>1, PutIsAlone
<1>6. QED
  BY <1>3, <1>4, <1>5

LEMMA PutWall ==
  ASSUME RuleDeskInv, NEW q \in Requests, NEW n, Puts(q, n), NEW e \in Desk!Entries \ blurred'[1]
  PROVE  WallIsAhead(e)'
<1>1. PICK k : k = asked[q]
  OBVIOUS
<1>2. /\ JobOfRule(k) /\ ~Late(k) /\ k # Desk!NoJob /\ k.id \in DeskRules
      /\ n \in Desk!Rule \cup {None} /\ (k.what = "drop" <=> n = None)
      /\ \A r \in DeskRules : rules'[r] = IF r = k.id THEN n ELSE rules[r]
      /\ \A p \in Requests \ {q} : asked'[p] = asked[p]
      /\ blurred[1] \subseteq blurred'[1]
      /\ UNCHANGED wall
  BY <1>1, PutFacts
<1>3. PICK s : s = SavedAs(k, n) /\ asked'[q] = s
  BY <1>1, PutFacts
<1>4. /\ JobOfRule(s) /\ Late(s) /\ s.at = "clean" /\ s.id = k.id /\ s.old = k.old /\ s.new = n
  BY <1>2, <1>3, StakesOfSaved
<1>5. e \notin blurred[1] /\ WallIsAhead(e)
  BY <1>2 DEF RuleDeskInv
<1>6. /\ \/ n = k.new /\ rules[k.id] = k.old
         \/ \A x : x = k.id \/ Concerns(s, x) \/ Concerns(k, x) => x \in blurred'[1]
      /\ n # k.new => \A x : x = k.id \/ Concerns(s, x) => x \in blurred'[1]
      /\ rules[k.id] # None /\ Desk!Entry(rules[k.id]) \notin blurred[1] => rules[k.id] = k.old
  BY <1>1, <1>3, PutEntries
<1>7. CASE Concerns(s, e)
  <2>1. n = k.new /\ rules[k.id] = k.old
    BY <1>6, <1>7
  <2>2. Concerns(k, e)
    BY <1>2, <1>3, <1>7, <2>1, StakesOfSaved
  <2>3. ASSUME NEW p \in Requests, JobOfRule(asked[p]), Concerns(asked[p], e)
        PROVE  p = q
    BY <1>1, <1>2, <1>5, <2>2, <2>3, OneRequestConcerns
  <2>4. \A p \in Requests : Late(asked[p]) => ~Concerns(asked[p], e)
    BY <1>1, <1>2, <2>3 DEF Late
  <2>5. wall[e] = IF Has(e) THEN 1 ELSE 0
    BY <1>5, <2>4 DEF WallIsAhead
  <2>6. ASSUME NEW r \in DeskRules, rules[r] # None, Desk!Entry(rules[r]) = e
        PROVE  r = k.id
    <3>1. CASE k.old # None /\ e = Desk!Entry(k.old)
      BY <1>2, <1>5, <2>1, <2>6, <3>1 DEF RuleDeskInv, OneRuleAnEntry
    <3>2. CASE n # None /\ e = Desk!Entry(n)
      BY <1>1, <2>6, <3>2, PutIsAlone
    <3>3. QED
      BY <2>1, <2>2, <3>1, <3>2 DEF Concerns
  <2>7. Has(e) <=> e \in Desk!Kept(k.old)
    BY <1>2, <2>1, <2>6 DEF Has, Desk!Kept
  <2>8. \A p \in Requests : Late(asked'[p]) /\ Concerns(asked'[p], e) => p = q
    BY <1>2, <2>3 DEF Late
  <2>9. /\ rules'[s.id] = s.new
        /\ \A r \in DeskRules : rules'[r] # None /\ Desk!Entry(rules'[r]) = e => r = s.id
        /\ wall'[e] = IF e \in Desk!Kept(s.old) /\ (s.at = "clean" \/ e \in Desk!Kept(s.new))
                      THEN 1 ELSE 0
    BY <1>2, <1>4, <2>5, <2>6, <2>7
  <2>10. QED
    BY <1>3, <1>4, <1>7, <2>8, <2>9 DEF WallIsAhead
<1>8. CASE ~Concerns(s, e)
  <2>1. ~Concerns(k, e)
    <3>1. CASE n = k.new /\ rules[k.id] = k.old
      BY <1>2, <1>3, <1>8, <3>1, StakesOfSaved
    <3>2. QED
      BY <1>6, <3>1
  <2>2. rules[k.id] # None => Desk!Entry(rules[k.id]) # e
    BY <1>5, <1>6, <2>1 DEF Concerns
  <2>3. n # None => Desk!Entry(n) # e
    BY <1>4, <1>8 DEF Concerns
  <2>4. Has(e)' <=> Has(e)
    <3>1. Has(e)' <=> \E r \in DeskRules : /\ rules'[r] # None /\ Desk!Managed(rules'[r])
                                           /\ Desk!Entry(rules'[r]) = e
      BY DEF Has
    <3>2. QED
      BY <1>2, <2>2, <2>3, <3>1 DEF Has
  <2>5. ASSUME \A p \in Requests : Late(asked'[p]) => ~Concerns(asked'[p], e)
        PROVE  wall'[e] = IF Has(e)' THEN 1 ELSE 0
    <3>1. \A p \in Requests : Late(asked[p]) => ~Concerns(asked[p], e)
      BY <1>1, <1>2, <2>5
    <3>2. QED
      BY <1>2, <1>5, <2>4, <3>1 DEF WallIsAhead
  <2>6. ASSUME NEW p \in Requests, Late(asked'[p]), Concerns(asked'[p], e)
        PROVE  /\ rules'[asked'[p].id] = asked'[p].new
               /\ \A r \in DeskRules : rules'[r] # None /\ Desk!Entry(rules'[r]) = e => r = asked'[p].id
               /\ wall'[e] = IF e \in Desk!Kept(asked'[p].old)
                                /\ (asked'[p].at = "clean" \/ e \in Desk!Kept(asked'[p].new))
                             THEN 1 ELSE 0
    <3>1. p # q
      BY <1>3, <1>8, <2>6
    <3>2. PICK j : j = asked[p] /\ asked'[p] = j /\ Late(j) /\ Concerns(j, e)
      BY <1>2, <2>6, <3>1
    <3>3. /\ rules[j.id] = j.new
          /\ \A r \in DeskRules : rules[r] # None /\ Desk!Entry(rules[r]) = e => r = j.id
          /\ wall[e] = IF e \in Desk!Kept(j.old) /\ (j.at = "clean" \/ e \in Desk!Kept(j.new))
                       THEN 1 ELSE 0
      BY <1>5, <3>2 DEF WallIsAhead
    <3>4. JobOfRule(j) /\ j # Desk!NoJob /\ j.id \in DeskRules /\ e \in Desk!Stakes(j)[1]
      BY <3>2, StakesOfRuleJob, JobsAreOfAKind DEF Late, JobOfRule
    <3>5. j.id # k.id
      BY <1>1, <1>2, <1>5, <3>1, <3>2, <3>4 DEF RuleDeskInv, Apart
    <3>6. /\ rules'[j.id] = j.new
          /\ \A r \in DeskRules : rules'[r] # None /\ Desk!Entry(rules'[r]) = e => r = j.id
          /\ wall'[e] = IF e \in Desk!Kept(j.old) /\ (j.at = "clean" \/ e \in Desk!Kept(j.new))
                        THEN 1 ELSE 0
      BY <1>2, <2>3, <3>3, <3>4, <3>5
    <3>7. QED
      BY <3>2, <3>6
  <2>7. QED
    BY <2>5, <2>6 DEF WallIsAhead
<1>9. QED
  BY <1>7, <1>8

LEMMA PutOwnersExist ==
  ASSUME RuleDeskInv, NEW q \in Requests, NEW n, Puts(q, n)
  PROVE  OwnersExist'
<1>1. PICK k : k = asked[q]
  OBVIOUS
<1>2. /\ JobOfRule(k) /\ k.at = "manager" /\ k.id \in DeskRules
      /\ \A r \in DeskRules : rules'[r] = IF r = k.id THEN n ELSE rules[r]
      /\ blurred'[2] = blurred[2] /\ blurred'[3] = blurred[3]
      /\ UNCHANGED <<people, codes>>
  BY <1>1, PutFacts
<1>3. ASSUME NEW r \in DeskRules, rules[r] # None, rules[r].owner \in DeskUsers \ blurred[2]
      PROVE  /\ rules[r].owner \in people
             /\ rules[r].target \notin {Public} \cup blurred[3] => HasCode(rules[r].owner, rules[r].target)
  BY <1>3 DEF RuleDeskInv, OwnersExist
<1>4. ASSUME n # None, n.owner \in DeskUsers \ blurred[2]
      PROVE  /\ n.owner \in people
             /\ n.target \notin {Public} \cup blurred[3] => HasCode(n.owner, n.target)
  <2>1. n.owner # Shared
    BY <1>4, DeskIsAssumed
  <2>2. /\ k.what # "add" /\ rules[k.id] # None =>
             rules[k.id].owner \in {k.old.owner, Shared} \cup blurred[2]
        /\ k.new # None /\ k.new.owner \notin {Shared} \cup blurred[2]
             /\ k.new.target \notin {Public} \cup blurred[3]
             => HasCode(k.new.owner, k.new.target)
        /\ k.what = "add" /\ k.new.owner \notin {Shared} \cup blurred[2] => k.new.owner \in people
    BY <1>1, <1>2 DEF RuleDeskInv, RuleKnown
  <2>3. /\ \/ rules[k.id] # None /\ n.owner = rules[k.id].owner /\ k.what # "add"
              /\ k.old.owner = k.new.owner
           \/ n.owner = k.new.owner /\ k.new # None /\ (k.what = "add" \/ n.owner \in {Shared} \cup blurred[2])
        /\ \/ rules[k.id] # None /\ n.target = rules[k.id].target /\ k.what # "add"
           \/ n.target = k.new.target /\ k.new # None
        /\ k.what = "add" => n = k.new /\ rules[k.id] = None
    BY <1>1, <1>4, PutOwners
  <2>4. CASE k.what = "add"
    BY <1>4, <2>1, <2>2, <2>3, <2>4
  <2>5. CASE k.what # "add"
    <3>1. rules[k.id] # None /\ n.owner = rules[k.id].owner /\ n.owner = k.new.owner
      BY <1>4, <2>1, <2>2, <2>3, <2>5
    <3>2. /\ n.owner \in people
          /\ rules[k.id].target \notin {Public} \cup blurred[3] => HasCode(n.owner, rules[k.id].target)
      BY <1>2, <1>3, <1>4, <3>1
    <3>3. QED
      BY <1>4, <2>1, <2>2, <2>3, <2>5, <3>1, <3>2
  <2>6. QED
    BY <2>4, <2>5
<1>5. ASSUME NEW r \in DeskRules, rules'[r] # None, rules'[r].owner \in DeskUsers \ blurred'[2]
      PROVE  /\ rules'[r].owner \in people'
             /\ rules'[r].target \notin {Public} \cup blurred'[3] =>
                  \E c \in Codes : codes'[c] # None /\ codes'[c].owner = rules'[r].owner
                                   /\ codes'[c].ip = rules'[r].target
  <2>1. CASE r # k.id
    <3>1. rules'[r] = rules[r]
      BY <1>2, <2>1
    <3>2. QED
      BY <1>2, <1>3, <1>5, <3>1 DEF HasCode
  <2>2. CASE r = k.id
    <3>1. rules'[r] = n
      BY <1>2, <2>2
    <3>2. QED
      BY <1>2, <1>4, <1>5, <3>1 DEF HasCode
  <2>3. QED
    BY <2>1, <2>2
<1>6. QED
  BY <1>5 DEF OwnersExist, HasCode

LEMMA PutLimits ==
  ASSUME RuleDeskInv, NEW q \in Requests, NEW n, Puts(q, n)
  PROVE  Desk!LimitsHold'
<1>1. PICK k : k = asked[q]
  OBVIOUS
<1>2. /\ JobOfRule(k) /\ k.at = "manager" /\ k.id \in DeskRules
      /\ blurred'[2] = blurred[2] /\ UNCHANGED <<codes, most>> /\ most.rules \in Int
  BY <1>1, PutFacts DEF RuleDeskInv, DeskTypes
<1>3. \A u \in DeskUsers :
        /\ most.codes = -1 \/ Cardinality(Desk!CodesOf(u)) <= most.codes
        /\ u \in blurred[2] \/ most.rules = -1 \/ Cardinality(Desk!Owned(u)) <= most.rules
  BY DeskCounts DEF RuleDeskInv, Desk!LimitsHold
<1>4. \A u : Desk!CodesOf(u)' = Desk!CodesOf(u)
  BY <1>2 DEF Desk!CodesOf
<1>5. ASSUME NEW u \in DeskUsers, u \notin blurred[2], most.rules # -1
      PROVE  Cardinality(Desk!Owned(u)') <= most.rules
  <2>1. u # Shared
    BY DeskIsAssumed
  <2>2. IsFiniteSet(Desk!Owned(u)) /\ Cardinality(Desk!Owned(u)) \in Nat
    BY DeskIsAssumed, FS_Subset, FS_CardinalityType DEF Desk!Owned
  <2>3. CASE ~(n # None /\ k.what = "add" /\ n.owner = u)
    <3>1. Desk!Owned(u)' \subseteq Desk!Owned(u)
      BY <1>1, <1>5, <2>1, <2>3, PutOwned
    <3>2. Cardinality(Desk!Owned(u)') <= Cardinality(Desk!Owned(u)) /\ Cardinality(Desk!Owned(u)') \in Nat
      BY <2>2, <3>1, FS_Subset, FS_CardinalityType
    <3>3. QED
      BY <1>2, <1>3, <1>5, <2>2, <3>2
  <2>4. CASE n # None /\ k.what = "add" /\ n.owner = u
    <3>1. n = k.new
      BY <1>1, <2>4, PutOwners
    <3>2. Cardinality(Desk!Owned(u)) < most.rules
      BY <1>1, <1>2, <1>5, <2>1, <2>4, <3>1 DEF RuleDeskInv, RuleKnown, Room
    <3>3. Desk!Owned(u)' \subseteq Desk!Owned(u) \cup {k.id}
      BY <1>1, <1>5, <2>1, PutOwned
    <3>4. /\ IsFiniteSet(Desk!Owned(u) \cup {k.id})
          /\ Cardinality(Desk!Owned(u) \cup {k.id}) \in Nat
          /\ Cardinality(Desk!Owned(u) \cup {k.id}) <= Cardinality(Desk!Owned(u)) + 1
      <4> DEFINE S == Desk!Owned(u)
      <4>1. IsFiniteSet(S) /\ Cardinality(S) \in Nat
        BY <2>2
      <4> HIDE DEF S
      <4>2. /\ IsFiniteSet(S \cup {k.id})
            /\ Cardinality(S \cup {k.id}) = IF k.id \in S THEN Cardinality(S) ELSE Cardinality(S) + 1
        BY <4>1, FS_AddElement
      <4>3. /\ IsFiniteSet(S \cup {k.id}) /\ Cardinality(S \cup {k.id}) \in Nat
            /\ Cardinality(S \cup {k.id}) <= Cardinality(S) + 1
        BY <4>1, <4>2
      <4>4. QED
        BY <4>3 DEF S
    <3>5. /\ Cardinality(Desk!Owned(u)') \in Nat
          /\ Cardinality(Desk!Owned(u)') <= Cardinality(Desk!Owned(u) \cup {k.id})
      BY <3>3, <3>4, FS_Subset, FS_CardinalityType
    <3>6. QED
      BY <1>2, <2>2, <3>2, <3>4, <3>5
  <2>5. QED
    BY <2>3, <2>4
<1>6. QED
  BY <1>2, <1>3, <1>4, <1>5, DeskCounts DEF Desk!LimitsHold

LEMMA PutStep ==
  ASSUME RuleDeskInv, NEW q \in Requests, NEW n, Puts(q, n)
  PROVE  RuleDeskInv'
<1>1. CodesDiffer' /\ Within(Desk!MaxRules, most.rules)' /\ Within(Desk!MaxCodes, most.codes)'
  BY DEF RuleDeskInv, CodesDiffer, Puts, Within, Desk!MaxRules, Desk!MaxCodes
<1>2. \A p \in Requests : RuleKnown(p)' /\ CodeKnown(p)' /\ UserKnown(p)'
  BY PutRuleKnown, PutCodeKnown
<1>3. \A e \in Desk!Entries \ blurred'[1] : WallIsAhead(e)'
  BY PutWall
<1>4. QED
  BY <1>1, <1>2, <1>3, PutTypes, PutApart, PutOneRule, PutOwnersExist, PutLimits DEF RuleDeskInv

\* What applyUpdate makes of the rule: the request's, where nobody has changed it since.
LEMMA AppliedIs ==
  ASSUME RuleDeskInv, NEW q \in Requests, NEW k, k = asked[q], JobOfRule(k), k.at = "manager",
         k.what \in {"add", "edit", "toggle"}, ~Desk!Lost(k)
  PROVE  /\ Desk!Applied(k) \in Desk!Rule
         /\ rules[k.id] = k.old \/ k.what = "add" => Desk!Applied(k) = k.new
         /\ k.what # "add" =>
              /\ rules[k.id] # None
              /\ Desk!Applied(k).owner
                   = IF k.old.owner # k.new.owner THEN k.new.owner ELSE rules[k.id].owner
              /\ Desk!Applied(k).target
                   = IF k.old.target # k.new.target THEN k.new.target ELSE rules[k.id].target
<1>1. CASE k.what = "add"
  BY <1>1 DEF Desk!Applied, JobOfRule
<1>2. CASE k.what # "add"
  <2>1. PICK old, new, now : /\ old = k.old /\ new = k.new /\ now = rules[k.id]
                             /\ old \in Desk!Rule /\ new \in Desk!Rule /\ now \in Desk!Rule /\ now # None
    BY <1>2 DEF JobOfRule, Desk!Lost, RuleDeskInv, DeskTypes, Desk!DeskTypeOK
  <2>2. PICK n : n = Desk!Applied(k)
    OBVIOUS
  <2>3. n = [f \in DOMAIN new |->
               IF old[f] # new[f] \/ (k.what = "toggle" /\ f = "on") THEN new[f] ELSE now[f]]
    BY <1>2, <2>1, <2>2 DEF Desk!Applied
  <2>4. DOMAIN new = {"owner", "name", "at", "target", "on", "fw"}
    BY <2>1 DEF Desk!Rule
  <2>5. /\ n.owner = IF old.owner # new.owner THEN new.owner ELSE now.owner
        /\ n.name = IF old.name # new.name THEN new.name ELSE now.name
        /\ n.at = IF old.at # new.at THEN new.at ELSE now.at
        /\ n.target = IF old.target # new.target THEN new.target ELSE now.target
        /\ n.on = IF old.on # new.on \/ k.what = "toggle" THEN new.on ELSE now.on
        /\ n.fw = IF old.fw # new.fw THEN new.fw ELSE now.fw
    BY <2>3, <2>4
  <2>6. n = [owner |-> n.owner, name |-> n.name, at |-> n.at, target |-> n.target, on |-> n.on, fw |-> n.fw]
    BY <2>3, <2>4
  <2>7. n \in Desk!Rule
    BY <2>1, <2>5, <2>6 DEF Desk!Rule
  <2>8. now = old => n = new
    <3>1. ASSUME now = old, NEW f \in DOMAIN new PROVE n[f] = new[f]
      BY <2>3, <3>1
    <3>2. new = [f \in DOMAIN new |-> new[f]]
      BY <2>1 DEF Desk!Rule
    <3>3. n = [f \in DOMAIN new |-> n[f]]
      BY <2>3
    <3>4. QED
      BY <3>1, <3>2, <3>3
  <2>9. QED
    BY <1>2, <2>1, <2>2, <2>5, <2>7, <2>8
<1>3. QED
  BY <1>1, <1>2

LEMMA SaveRuleStep ==
  ASSUME RuleDeskInv, NEW q \in Requests, Desk!SaveRule(q)
  PROVE  RuleDeskInv'
<1>1. PICK k : k = asked[q] /\ JobOfRule(k) /\ k.at = "manager" /\ k.what \in {"add", "edit", "toggle"}
  BY LateIsOfRule DEF Desk!SaveRule
<1>2. UNCHANGED <<people, codes, policy, wall, desk, started, most>>
  BY DEF Desk!SaveRule
<1>3. CASE Desk!Ends(q) /\ UNCHANGED <<rules, blurred>>
  BY <1>1, <1>2, <1>3, IdleEnd DEF Late
<1>4. CASE /\ ~Desk!Lost(k)
           /\ rules' = [rules EXCEPT ![k.id] = Desk!Applied(k)]
           /\ asked' = [asked EXCEPT ![q] =
                          Desk!Job("clean", k.what, k.id, k.old, Desk!Applied(k), k.limit)]
           /\ Desk!Blur(<<Desk!Doubtful(k, Desk!Applied(k)), {}, {}>>)
  <2>1. PICK n : n = Desk!Applied(k)
    OBVIOUS
  <2>2. /\ n \in Desk!Rule /\ n # None
        /\ rules[k.id] = k.old \/ k.what = "add" => n = k.new
        /\ k.what # "add" =>
             /\ rules[k.id] # None
             /\ n.owner = IF k.old.owner # k.new.owner THEN k.new.owner ELSE rules[k.id].owner
             /\ n.target = IF k.old.target # k.new.target THEN k.new.target ELSE rules[k.id].target
    BY <1>1, <1>4, <2>1, AppliedIs, DeskIsAssumed
  <2>3. asked' = [p \in Requests |-> IF p = q THEN SavedAs(k, n) ELSE asked[p]]
    BY <1>4, <2>1 DEF SavedAs, RuleDeskInv, DeskTypes
  <2>4. /\ blurred'[1] = blurred[1] \cup Desk!Doubtful(k, n)
        /\ blurred'[2] = blurred[2] /\ blurred'[3] = blurred[3]
    BY <1>4, <2>1 DEF Desk!Blur
  <2>5. /\ (\E s \in DeskRules \ {k.id} : rules[s] # None /\ Desk!Entry(rules[s]) = Desk!Entry(n))
             => Desk!Entry(n) \in Desk!Doubtful(k, n)
        /\ rules[k.id] # k.old => Desk!Entry(n) \in Desk!Doubtful(k, n)
    BY DEF Desk!Doubtful
  <2>6. k.what # "drop"
    BY <1>1
  <2>7. Puts(q, n)
    BY <1>1, <1>2, <1>4, <2>1, <2>2, <2>3, <2>4, <2>5, <2>6 DEF Puts
  <2>8. QED
    BY <2>7, PutStep
<1>5. QED
  BY <1>1, <1>3, <1>4 DEF Desk!SaveRule

LEMMA DropRuleStep ==
  ASSUME RuleDeskInv, NEW q \in Requests, Desk!DropRule(q)
  PROVE  RuleDeskInv'
<1>1. PICK k : k = asked[q] /\ JobOfRule(k) /\ k.at = "manager" /\ k.what = "drop" /\ k.new = None
  BY LateIsOfRule DEF Desk!DropRule, JobOfRule
<1>2. /\ UNCHANGED <<people, codes, policy, wall, desk, started, blurred, most>>
      /\ rules' = [rules EXCEPT ![k.id] = None]
      /\ IF rules[k.id] = None THEN Desk!Ends(q) ELSE asked' = [asked EXCEPT ![q].at = "clean"]
  BY <1>1 DEF Desk!DropRule
<1>3. CASE rules[k.id] = None
  <2>1. UNCHANGED rules
    BY <1>2, <1>3 DEF RuleDeskInv, DeskTypes, Desk!DeskTypeOK
  <2>2. QED
    BY <1>1, <1>2, <1>3, <2>1, IdleEnd DEF Late
<1>4. CASE rules[k.id] # None
  <2>1. k = Desk!Job(k.at, k.what, k.id, k.old, k.new, k.limit)
    BY <1>1 DEF JobOfRule
  <2>2. [k EXCEPT !.at = "clean"] = SavedAs(k, None)
    BY <1>1, <2>1 DEF SavedAs, Desk!Job
  <2>3. asked' = [p \in Requests |-> IF p = q THEN SavedAs(k, None) ELSE asked[p]]
    BY <1>1, <1>2, <1>4, <2>2 DEF RuleDeskInv, DeskTypes
  <2>4. Puts(q, None)
    BY <1>1, <1>2, <2>3 DEF Puts
  <2>5. QED
    BY <2>4, PutStep
<1>5. QED
  BY <1>3, <1>4

-----------------------------------------------------------------------------
(* The desk: the store saves and deletes codes and accounts                *)

LEMMA LowestIsThere ==
  ASSUME NEW S, S \subseteq Nat, S # {}
  PROVE  Desk!Min(S) \in S
<1>1. PICK k \in S : \A j \in S : ~(<<j, k>> \in OpToRel(<, Nat))
  BY NatLessThanWellFounded, WFMin, Zenon
<1>2. \A j \in S : k <= j
  <2> SUFFICES ASSUME NEW j \in S
               PROVE  k <= j
    OBVIOUS
  <2>1. j \in Nat /\ k \in Nat /\ ~(j < k)
    BY <1>1, Zenon DEF OpToRel
  <2> QED
    BY <2>1
<1> QED
  BY <1>2 DEF Desk!Min

\* Codes come and go as long as nobody's rule, and no rule on its way, loses its tunnel.
LEMMA CodesChange ==
  ASSUME RuleDeskInv, NEW q \in Requests, JobOfCode(asked[q]) \/ JobOfUser(asked[q]), Desk!Ends(q),
         UNCHANGED <<people, rules, policy, wall, desk, started, blurred, most>>,
         codes' \in [Codes -> Desk!Code \cup {None}],
         \A c \in Codes : codes[c] # None /\ codes'[c] # None =>
            codes'[c].owner = codes[c].owner /\ codes'[c].ip = codes[c].ip,
         \A c \in Codes : codes[c] = None /\ codes'[c] # None =>
            JobOfCode(asked[q]) /\ asked[q].what = "code" /\ asked[q].id = c,
         \A u, a : u \notin {Shared} \cup blurred[2] /\ a \notin {Public} \cup blurred[3] /\ HasCode(u, a)
            /\ (\/ \E r \in DeskRules : rules[r] # None /\ rules[r].owner = u /\ rules[r].target = a
                \/ \E p \in Requests \ {q} :
                     JobOfRule(asked[p]) /\ asked[p].at = "manager" /\ asked[p].new # None
                     /\ asked[p].new.owner = u /\ asked[p].new.target = a)
            => \E c \in Codes : codes'[c] # None /\ codes'[c].owner = u /\ codes'[c].ip = a,
         CodesDiffer',
         \A u \in DeskUsers : most.codes = -1 \/ Cardinality(Desk!CodesOf(u)') <= most.codes
  PROVE  RuleDeskInv'
<1>1. DeskTypes
  BY DEF RuleDeskInv
<1>2. /\ asked'[q] = Desk!NoJob /\ \A p \in Requests \ {q} : asked'[p] = asked[p]
      /\ asked' = [p \in Requests |-> IF p = q THEN Desk!NoJob ELSE asked[p]]
  BY <1>1 DEF Desk!Ends, DeskTypes
<1>3. DeskTypes'
  <2>1. Desk!DeskTypeOK'
    BY <1>1 DEF DeskTypes, Desk!DeskTypeOK, Desk!Entries
  <2>2. asked' = [p \in Requests |-> asked'[p]]
    BY <1>2
  <2>3. QED
    BY <1>1, <1>2, <2>1, <2>2 DEF DeskTypes
<1>4. Apart'
  <2> SUFFICES ASSUME NEW r \in Requests, NEW p \in Requests, r # p,
                      asked'[r] # Desk!NoJob, asked'[p] # Desk!NoJob
               PROVE  /\ \A x \in Desk!Stakes(asked'[r])[1] :
                           x \in Desk!Stakes(asked'[p])[1] => x \in blurred'[1]
                      /\ JobOfRule(asked'[r]) /\ JobOfRule(asked'[p]) /\ asked'[r].id = asked'[p].id
                           => Desk!Stakes(asked'[r])[1] \subseteq blurred'[1]
                      /\ Early(asked'[r]) /\ Early(asked'[p]) =>
                           \A d \in {2, 3} : \A x \in Desk!Stakes(asked'[r])[d] :
                              x \in Desk!Stakes(asked'[p])[d] => x \in blurred'[d]
    BY DEF Apart
  <2>1. asked'[r] = asked[r] /\ asked'[p] = asked[p]
    BY <1>2
  <2>2. /\ \A x \in Desk!Stakes(asked[r])[1] : x \in Desk!Stakes(asked[p])[1] => x \in blurred[1]
        /\ JobOfRule(asked[r]) /\ JobOfRule(asked[p]) /\ asked[r].id = asked[p].id
             => Desk!Stakes(asked[r])[1] \subseteq blurred[1]
        /\ Early(asked[r]) /\ Early(asked[p]) =>
             \A d \in {2, 3} : \A x \in Desk!Stakes(asked[r])[d] :
                x \in Desk!Stakes(asked[p])[d] => x \in blurred[d]
    BY <2>1 DEF RuleDeskInv, Apart
  <2>3. QED
    BY <2>1, <2>2
<1>5. ASSUME NEW p \in Requests
      PROVE  RuleKnown(p)' /\ CodeKnown(p)' /\ UserKnown(p)'
  <2>1. CASE p = q
    BY <1>2, <2>1, JobsAreOfAKind DEF RuleKnown, CodeKnown, UserKnown
  <2>2. CASE p # q
    <3>1. PICK j : j = asked[p] /\ asked'[p] = j
      BY <1>2, <2>2
    <3>2. RuleKnown(p) /\ CodeKnown(p) /\ UserKnown(p)
      BY DEF RuleDeskInv
    <3>3. \A r \in Requests : /\ JobOfRule(asked'[r]) => JobOfRule(asked[r]) /\ asked'[r] = asked[r]
                              /\ JobOfCode(asked'[r]) => JobOfCode(asked[r]) /\ asked'[r] = asked[r]
      BY <1>2, JobsAreOfAKind
    <3>4. RuleKnown(p)'
      <4> SUFFICES ASSUME JobOfRule(asked'[p]), asked'[p].at = "manager"
                   PROVE  RuleKnown(p)'
        BY DEF RuleKnown
      <4>1. JobOfRule(j) /\ j.at = "manager"
        BY <3>1
      <4>2. \/ rules'[j.id] = j.old
            \/ /\ Desk!Stakes(j)[1] \subseteq blurred'[1]
               /\ rules'[j.id] # None => Desk!Entry(rules'[j.id]) \in blurred'[1]
        BY <3>1, <3>2, <4>1 DEF RuleKnown
      <4>3. j.what # "add" /\ rules'[j.id] # None =>
              rules'[j.id].owner \in {j.old.owner, Shared} \cup blurred'[2]
        BY <3>1, <3>2, <4>1 DEF RuleKnown
      <4>4. j.what = "add" =>
               /\ rules'[j.id] = None
               /\ \A r \in Requests \ {p} : JobOfRule(asked'[r]) => asked'[r].id # j.id
        BY <3>1, <3>2, <3>3, <4>1 DEF RuleKnown
      <4>5. j.what \in {"edit", "toggle"} => j.new.owner \in {j.old.owner, Shared} \cup blurred'[2]
        BY <3>1, <3>2, <4>1 DEF RuleKnown
      <4>6. j.new # None /\ j.new.owner \notin {Shared} \cup blurred'[2]
              /\ j.new.target \notin {Public} \cup blurred'[3]
              => HasCode(j.new.owner, j.new.target)'
        <5> SUFFICES ASSUME j.new # None, j.new.owner \notin {Shared} \cup blurred[2],
                            j.new.target \notin {Public} \cup blurred[3]
                     PROVE  HasCode(j.new.owner, j.new.target)'
          OBVIOUS
        <5>1. HasCode(j.new.owner, j.new.target)
          BY <3>1, <3>2, <4>1 DEF RuleKnown
        <5>2. \E c \in Codes : codes'[c] # None /\ codes'[c].owner = j.new.owner
                               /\ codes'[c].ip = j.new.target
          BY <2>2, <3>1, <4>1, <5>1
        <5>3. QED
          BY <5>2 DEF HasCode
      <4>7. j.what = "add" /\ j.new.owner \notin {Shared} \cup blurred'[2]
              => j.new.owner \in people' /\ Room(j.new.owner)'
        <5>1. Room(j.new.owner) => Room(j.new.owner)'
          BY LimitsStay
        <5>2. QED
          BY <3>1, <3>2, <4>1, <5>1 DEF RuleKnown
      <4>8. QED
        BY <3>1, <4>2, <4>3, <4>4, <4>5, <4>6, <4>7, KnownFromParts
    <3>5. CodeKnown(p)'
      <4> SUFFICES ASSUME JobOfCode(j)
                   PROVE  CodeKnown(p)'
        BY <3>1 DEF CodeKnown
      <4>1. j.what = "code" =>
              /\ codes'[j.id] = None /\ Within(j.limit, most.codes)'
              /\ \A r \in Requests \ {p} : JobOfCode(asked'[r]) => asked'[r].id # j.id
        <5>1. j.what = "code" =>
                /\ codes[j.id] = None /\ Within(j.limit, most.codes) /\ j.id \in Codes
                /\ \A r \in Requests \ {p} : JobOfCode(asked[r]) => asked[r].id # j.id
          BY <3>1, <3>2 DEF CodeKnown, JobOfCode
        <5>2. Within(j.limit, most.codes)' <=> Within(j.limit, most.codes)
          BY DEF Within
        <5>3. QED
          BY <2>2, <3>3, <5>1, <5>2
      <4>2. j.what # "code" /\ codes'[j.id] # None =>
              codes'[j.id].owner = j.old.owner /\ codes'[j.id].ip = j.old.ip
        <5> SUFFICES ASSUME j.what # "code", codes'[j.id] # None
                     PROVE  codes'[j.id].owner = j.old.owner /\ codes'[j.id].ip = j.old.ip
          OBVIOUS
        <5>1. j.id \in Codes
          BY DEF JobOfCode
        <5>2. CASE codes[j.id] # None
          BY <3>1, <3>2, <5>1, <5>2 DEF CodeKnown
        <5>3. CASE codes[j.id] = None
          <6>1. JobOfCode(asked[q]) /\ asked[q].what = "code" /\ asked[q].id = j.id
            BY <5>1, <5>3
          <6>2. \A r \in Requests \ {q} : JobOfCode(asked[r]) => asked[r].id # asked[q].id
            BY <6>1 DEF RuleDeskInv, CodeKnown
          <6>3. QED
            BY <2>2, <3>1, <6>1, <6>2
        <5>4. QED
          BY <5>2, <5>3
      <4>3. j.what = "uncode" /\ j.old.ip \notin blurred'[3] =>
              \A r \in DeskRules : rules'[r] # None => rules'[r].target # j.old.ip
        BY <3>1, <3>2 DEF CodeKnown
      <4>4. QED
        BY <3>1, <4>1, <4>2, <4>3 DEF CodeKnown
    <3>6. UserKnown(p)'
      BY <3>1, <3>2 DEF UserKnown
    <3>7. QED
      BY <3>4, <3>5, <3>6
  <2>3. QED
    BY <2>1, <2>2
<1>6. OneRuleAnEntry'
  BY DEF RuleDeskInv, OneRuleAnEntry
<1>7. ASSUME NEW e \in Desk!Entries \ blurred'[1] PROVE WallIsAhead(e)'
  <2>1. ~Late(asked[q]) /\ ~Late(asked'[q])
    BY <1>2, JobsAreOfAKind DEF Late
  <2>2. \A p \in Requests : /\ Late(asked'[p]) <=> Late(asked[p])
                            /\ Late(asked[p]) => asked'[p] = asked[p]
    BY <1>2, <2>1
  <2>3. WallIsAhead(e)
    BY DEF RuleDeskInv
  <2>4. QED
    BY <2>2, <2>3, WallStays
<1>8. OwnersExist'
  <2>1. ASSUME NEW r \in DeskRules, rules[r] # None, rules[r].owner \in DeskUsers \ blurred[2]
        PROVE  /\ rules[r].owner \in people
               /\ rules[r].target \notin {Public} \cup blurred[3] =>
                    \E c \in Codes : codes'[c] # None /\ codes'[c].owner = rules[r].owner
                                     /\ codes'[c].ip = rules[r].target
    <3>1. /\ rules[r].owner \in people /\ rules[r].owner # Shared
          /\ rules[r].target \notin {Public} \cup blurred[3] => HasCode(rules[r].owner, rules[r].target)
      BY <2>1, DeskIsAssumed DEF RuleDeskInv, OwnersExist
    <3>2. QED
      BY <2>1, <3>1
  <2>2. QED
    BY <2>1 DEF OwnersExist, HasCode
<1>9. Desk!LimitsHold' /\ Within(Desk!MaxRules, most.rules)' /\ Within(Desk!MaxCodes, most.codes)'
  <2>1. \A u : Desk!Owned(u)' = Desk!Owned(u)
    BY DEF Desk!Owned
  <2>2. Desk!LimitsHold'
    BY <2>1, DeskCounts DEF RuleDeskInv, Desk!LimitsHold
  <2>3. Within(Desk!MaxRules, most.rules)' /\ Within(Desk!MaxCodes, most.codes)'
    BY DEF RuleDeskInv, Within, Desk!MaxRules, Desk!MaxCodes
  <2>4. QED
    BY <2>2, <2>3
<1>10. QED
  BY <1>3, <1>4, <1>5, <1>6, <1>7, <1>8, <1>9 DEF RuleDeskInv

\* The codes of a user, when each is one that was there.
LEMMA NoMoreCodes ==
  ASSUME RuleDeskInv, codes' \in [Codes -> Desk!Code \cup {None}], UNCHANGED most,
         \A c \in Codes : codes'[c] # None => codes[c] # None /\ codes'[c].owner = codes[c].owner
  PROVE  \A u \in DeskUsers : most.codes = -1 \/ Cardinality(Desk!CodesOf(u)') <= most.codes
<1> TAKE u \in DeskUsers
<1>1. Desk!CodesOf(u)' \subseteq Desk!CodesOf(u)
  BY DEF Desk!CodesOf
<1>2. IsFiniteSet(Desk!CodesOf(u))
  BY DeskIsAssumed, FS_Subset DEF Desk!CodesOf
<1>3. /\ Cardinality(Desk!CodesOf(u)) \in Nat /\ Cardinality(Desk!CodesOf(u)') \in Nat
      /\ Cardinality(Desk!CodesOf(u)') <= Cardinality(Desk!CodesOf(u))
  BY <1>1, <1>2, FS_Subset, FS_CardinalityType
<1>4. most.codes \in Int /\ (most.codes = -1 \/ Cardinality(Desk!CodesOf(u)) <= most.codes)
  BY DeskCounts DEF RuleDeskInv, DeskTypes, Desk!LimitsHold
<1>5. QED
  BY <1>3, <1>4

LEMMA StoreCodeStep ==
  ASSUME RuleDeskInv, NEW q \in Requests, Desk!StoreCode(q)
  PROVE  RuleDeskInv'
<1>1. PICK k : /\ k = asked[q] /\ JobOfCode(k) /\ k.what = "code" /\ ~Late(k)
               /\ k.id \in Codes /\ k.new \in Desk!Code /\ k.limit \in Int
  BY LateIsOfRule, JobsAreOfAKind DEF Desk!StoreCode, JobOfUser, JobOfCode, Late
<1>2. Desk!Ends(q) /\ UNCHANGED <<people, rules, policy, wall, desk, started, blurred, most>>
  BY DEF Desk!StoreCode
<1>3. CASE UNCHANGED codes
  BY <1>1, <1>2, <1>3, IdleEnd
<1>4. CASE /\ Addresses \ Desk!Used # {}
           /\ k.limit = -1 \/ Desk!Cardinality(Desk!CodesOf(k.new.owner)) < k.limit
           /\ codes' = [codes EXCEPT ![k.id] = [k.new EXCEPT !.ip = Desk!Min(Addresses \ Desk!Used)]]
  <2>1. PICK a : a = Desk!Min(Addresses \ Desk!Used) /\ a \in Addresses /\ a \notin Desk!Used
    <3>1. Desk!Min(Addresses \ Desk!Used) \in Addresses \ Desk!Used
      BY <1>4, DeskIsAssumed, LowestIsThere
    <3>2. QED
      BY <3>1
  <2>2. PICK v : /\ v = [k.new EXCEPT !.ip = a] /\ v \in Desk!Code
                 /\ v.owner = k.new.owner /\ v.ip = a /\ v # None
    <3>1. PICK w : w = k.new /\ w \in Desk!Code
      BY <1>1
    <3>2. PICK v : v = [w EXCEPT !.ip = a]
      OBVIOUS
    <3>3. v \in Desk!Code /\ v.owner = w.owner /\ v.ip = a
      BY <2>1, <3>1, <3>2 DEF Desk!Code
    <3>4. QED
      BY <3>1, <3>2, <3>3, DeskIsAssumed
  <2>3. codes \in [Codes -> Desk!Code \cup {None}]
    BY DEF RuleDeskInv, DeskTypes, Desk!DeskTypeOK
  <2>4. /\ codes[k.id] = None /\ Within(k.limit, most.codes) /\ most.codes \in Int
    BY <1>1 DEF RuleDeskInv, DeskTypes, CodeKnown
  <2>5. /\ codes' \in [Codes -> Desk!Code \cup {None}]
        /\ \A c \in Codes : codes'[c] = IF c = k.id THEN v ELSE codes[c]
    BY <1>1, <1>4, <2>1, <2>2, <2>3
  <2>6. \A c \in Codes : codes[c] # None => codes'[c] = codes[c]
    BY <2>4, <2>5
  <2>7. \A c \in Codes : codes[c] = None /\ codes'[c] # None => c = k.id
    BY <2>5
  <2>8. CodesDiffer'
    <3>1. \A c \in Codes : codes[c] # None => codes[c].ip # a
      BY <2>1 DEF Desk!Used
    <3>2. \A c, d \in Codes : codes[c] # None /\ codes[d] # None /\ codes[c].ip = codes[d].ip => c = d
      BY DEF RuleDeskInv, CodesDiffer
    <3>3. \A c, d \in Codes : codes'[c] # None /\ codes'[d] # None /\ codes'[c].ip = codes'[d].ip => c = d
      <4> SUFFICES ASSUME NEW c \in Codes, NEW d \in Codes, codes'[c] # None, codes'[d] # None,
                          codes'[c].ip = codes'[d].ip, c # d
                   PROVE  FALSE
        OBVIOUS
      <4>1. CASE c = k.id
        <5>1. codes'[c].ip = a /\ codes'[d] = codes[d]
          BY <2>2, <2>5, <4>1
        <5>2. QED
          BY <3>1, <5>1
      <4>2. CASE d = k.id
        <5>1. codes'[d].ip = a /\ codes'[c] = codes[c]
          BY <2>2, <2>5, <4>2
        <5>2. QED
          BY <3>1, <5>1
      <4>3. CASE c # k.id /\ d # k.id
        BY <2>5, <3>2, <4>3
      <4>4. QED
        BY <4>1, <4>2, <4>3
    <3>4. QED
      BY <3>3 DEF CodesDiffer
  <2>9. ASSUME NEW u \in DeskUsers, most.codes # -1
        PROVE  Cardinality(Desk!CodesOf(u)') <= most.codes
    <3>1. PICK S : /\ S = Desk!CodesOf(u) /\ IsFiniteSet(S)
      BY DeskIsAssumed, FS_Subset DEF Desk!CodesOf
    <3>2. PICK T : T = Desk!CodesOf(u)'
      OBVIOUS
    <3>3. \A c \in Codes : c \in T <=> codes'[c] # None /\ codes'[c].owner = u
      BY <3>2 DEF Desk!CodesOf
    <3>4. T \subseteq Codes /\ \A c \in Codes : c \in S <=> codes[c] # None /\ codes[c].owner = u
      BY <3>1, <3>2 DEF Desk!CodesOf
    <3>5. /\ Cardinality(S) \in Nat /\ IsFiniteSet(S \cup {k.id})
          /\ Cardinality(S \cup {k.id}) = IF k.id \in S THEN Cardinality(S) ELSE Cardinality(S) + 1
      BY <3>1, FS_AddElement, FS_CardinalityType
    <3>6. Cardinality(S) <= most.codes
      BY <2>9, <3>1, DeskCounts DEF RuleDeskInv, Desk!LimitsHold
    <3>7. CASE u # k.new.owner
      <4>1. T \subseteq S
        BY <2>2, <2>5, <3>3, <3>4, <3>7
      <4>2. Cardinality(T) \in Nat /\ Cardinality(T) <= Cardinality(S)
        BY <3>1, <4>1, FS_Subset, FS_CardinalityType
      <4>3. QED
        BY <2>4, <3>2, <3>5, <3>6, <4>2
    <3>8. CASE u = k.new.owner
      <4>1. T \subseteq S \cup {k.id}
        BY <2>5, <3>3, <3>4
      <4>2. Cardinality(T) \in Nat /\ Cardinality(T) <= Cardinality(S \cup {k.id})
        BY <3>5, <4>1, FS_Subset, FS_CardinalityType
      <4>3. Cardinality(S) < k.limit /\ k.limit <= most.codes
        BY <1>4, <2>4, <2>9, <3>1, <3>8, DeskCounts DEF Within
      <4>4. QED
        BY <1>1, <2>4, <3>2, <3>5, <4>2, <4>3
    <3>9. QED
      BY <3>7, <3>8
  <2>10. \A u, a2 : HasCode(u, a2) =>
           \E c \in Codes : codes'[c] # None /\ codes'[c].owner = u /\ codes'[c].ip = a2
    BY <2>6 DEF HasCode
  <2>11. QED
    BY <1>1, <1>2, <2>5, <2>6, <2>7, <2>8, <2>9, <2>10, CodesChange
<1>5. QED
  BY <1>1, <1>3, <1>4 DEF Desk!StoreCode

LEMMA SaveCodeStep ==
  ASSUME RuleDeskInv, NEW q \in Requests, Desk!SaveCode(q)
  PROVE  RuleDeskInv'
<1>1. PICK k : /\ k = asked[q] /\ JobOfCode(k) /\ k.what = "switch" /\ k.id \in Codes
               /\ k.old \in Desk!Code /\ k.new \in Desk!Code /\ k.new # None
               /\ k.new.owner = k.old.owner /\ k.new.ip = k.old.ip
  BY LateIsOfRule, DeskIsAssumed DEF Desk!SaveCode, JobOfUser, JobOfCode
<1>2. Desk!Ends(q) /\ UNCHANGED <<people, rules, policy, wall, desk, started, blurred, most>>
      /\ codes' = [codes EXCEPT ![k.id] = IF codes[k.id] = None THEN None ELSE k.new]
  BY <1>1 DEF Desk!SaveCode
<1>3. codes \in [Codes -> Desk!Code \cup {None}]
  BY DEF RuleDeskInv, DeskTypes, Desk!DeskTypeOK
<1>4. codes[k.id] # None => codes[k.id].owner = k.old.owner /\ codes[k.id].ip = k.old.ip
  BY <1>1 DEF RuleDeskInv, CodeKnown
<1>5. /\ codes' \in [Codes -> Desk!Code \cup {None}]
      /\ \A c \in Codes : /\ codes'[c] # None <=> codes[c] # None
                          /\ codes[c] # None => codes'[c].owner = codes[c].owner /\ codes'[c].ip = codes[c].ip
  <2>1. codes' \in [Codes -> Desk!Code \cup {None}]
    BY <1>1, <1>2, <1>3
  <2>2. \A c \in Codes : codes'[c] = IF c # k.id THEN codes[c]
                                     ELSE IF codes[k.id] = None THEN None ELSE k.new
    BY <1>1, <1>2, <1>3
  <2>3. QED
    BY <1>1, <1>4, <2>1, <2>2
<1>6. CodesDiffer'
  BY <1>5 DEF RuleDeskInv, CodesDiffer
<1>7. \A u, a : HasCode(u, a) =>
        \E c \in Codes : codes'[c] # None /\ codes'[c].owner = u /\ codes'[c].ip = a
  BY <1>5 DEF HasCode
<1>8. \A u \in DeskUsers : most.codes = -1 \/ Cardinality(Desk!CodesOf(u)') <= most.codes
  BY <1>2, <1>5, NoMoreCodes
<1>9. QED
  BY <1>1, <1>2, <1>5, <1>6, <1>7, <1>8, CodesChange

\* Codes that go: those of which no rule, and no rule on its way, needs the address.
LEMMA CodesGo ==
  ASSUME RuleDeskInv, NEW q \in Requests, JobOfCode(asked[q]) \/ JobOfUser(asked[q]), Desk!Ends(q),
         UNCHANGED <<people, rules, policy, wall, desk, started, blurred, most>>,
         codes' \in [Codes -> Desk!Code \cup {None}],
         \A c \in Codes : codes'[c] \in {codes[c], None},
         \A c \in Codes : codes[c] # None /\ codes'[c] = None =>
           \/ \E a : /\ codes[c].ip = a /\ a \in Desk!Stakes(asked[q])[3] /\ a # Public
                     /\ a \notin blurred[3] => \A r \in DeskRules : rules[r] # None => rules[r].target # a
           \/ \E u : /\ codes[c].owner = u /\ u \in Desk!Stakes(asked[q])[2] /\ u # Shared
                     /\ u \notin blurred[2] => \A r \in DeskRules : rules[r] # None => rules[r].owner # u
  PROVE  RuleDeskInv'
<1>1. asked[q] # Desk!NoJob /\ Early(asked[q])
  BY JobsAreOfAKind DEF JobOfCode, JobOfUser, Early
<1>2. ASSUME NEW u, NEW a, u \notin {Shared} \cup blurred[2], a \notin {Public} \cup blurred[3], HasCode(u, a),
             \/ \E r \in DeskRules : rules[r] # None /\ rules[r].owner = u /\ rules[r].target = a
             \/ \E p \in Requests \ {q} :
                  JobOfRule(asked[p]) /\ asked[p].at = "manager" /\ asked[p].new # None
                  /\ asked[p].new.owner = u /\ asked[p].new.target = a
      PROVE  \E c \in Codes : codes'[c] # None /\ codes'[c].owner = u /\ codes'[c].ip = a
  <2>1. PICK c \in Codes : codes[c] # None /\ codes[c].owner = u /\ codes[c].ip = a
    BY <1>2 DEF HasCode
  <2>2. CASE codes'[c] = codes[c]
    BY <2>1, <2>2
  <2>3. CASE codes'[c] = None
    <3>1. \/ /\ a \in Desk!Stakes(asked[q])[3]
             /\ \A r \in DeskRules : rules[r] # None => rules[r].target # a
          \/ /\ u \in Desk!Stakes(asked[q])[2]
             /\ \A r \in DeskRules : rules[r] # None => rules[r].owner # u
      BY <1>2, <2>1, <2>3
    <3>2. PICK p \in Requests \ {q} :
             JobOfRule(asked[p]) /\ asked[p].at = "manager" /\ asked[p].new # None
             /\ asked[p].new.owner = u /\ asked[p].new.target = a
      BY <1>2, <3>1
    <3>3. /\ u \in Desk!Stakes(asked[p])[2] /\ a \in Desk!Stakes(asked[p])[3]
          /\ asked[p] # Desk!NoJob /\ Early(asked[p])
      BY <1>2, <3>2, StakesOfRuleJob, JobsAreOfAKind DEF Early
    <3>4. a \in Desk!Stakes(asked[q])[3] => a \in blurred[3]
      BY <1>1, <3>2, <3>3, EarlyApart
    <3>5. u \in Desk!Stakes(asked[q])[2] => u \in blurred[2]
      BY <1>1, <3>2, <3>3, EarlyApart
    <3>6. QED
      BY <1>2, <3>1, <3>4, <3>5
  <2>4. QED
    BY <2>2, <2>3
<1>3. CodesDiffer'
  BY DEF RuleDeskInv, CodesDiffer
<1>4. \A u \in DeskUsers : most.codes = -1 \/ Cardinality(Desk!CodesOf(u)') <= most.codes
  BY NoMoreCodes
<1>5. QED
  BY <1>2, <1>3, <1>4, CodesChange

LEMMA EraseCodeStep ==
  ASSUME RuleDeskInv, NEW q \in Requests, Desk!EraseCode(q)
  PROVE  RuleDeskInv'
<1>1. PICK k : /\ k = asked[q] /\ JobOfCode(k) /\ k.what = "uncode" /\ k.id \in Codes
               /\ k.old \in Desk!Code /\ k.old # None
  BY LateIsOfRule, DeskIsAssumed DEF Desk!EraseCode, JobOfUser, JobOfCode
<1>2. Desk!Ends(q) /\ UNCHANGED <<people, rules, policy, wall, desk, started, blurred, most>>
      /\ codes' = [codes EXCEPT ![k.id] = None]
  BY <1>1 DEF Desk!EraseCode
<1>3. codes \in [Codes -> Desk!Code \cup {None}]
  BY DEF RuleDeskInv, DeskTypes, Desk!DeskTypeOK
<1>4. /\ codes[k.id] # None => codes[k.id].ip = k.old.ip
      /\ k.old.ip \notin blurred[3] => \A r \in DeskRules : rules[r] # None => rules[r].target # k.old.ip
  BY <1>1 DEF RuleDeskInv, CodeKnown
<1>5. k.old.ip \in Desk!Stakes(k)[3] /\ k.old.ip # Public
  BY <1>1, StakesOfOtherJob, DeskIsAssumed DEF Desk!Code
<1>6. codes' \in [Codes -> Desk!Code \cup {None}]
      /\ \A c \in Codes : codes'[c] = IF c = k.id THEN None ELSE codes[c]
  BY <1>1, <1>2, <1>3
<1>7. QED
  BY <1>1, <1>2, <1>4, <1>5, <1>6, CodesGo

LEMMA PurgeCodesStep ==
  ASSUME RuleDeskInv, NEW q \in Requests, Desk!PurgeCodes(q)
  PROVE  RuleDeskInv'
<1>1. PICK k : k = asked[q] /\ JobOfUser(k) /\ k.id \in DeskUsers /\ k.id # Shared
  BY LateIsOfRule, DeskIsAssumed DEF Desk!PurgeCodes, JobOfUser, JobOfCode
<1>2. Desk!Ends(q) /\ UNCHANGED <<people, rules, policy, wall, desk, started, blurred, most>>
      /\ codes' = [c \in Codes |-> IF c \in Desk!CodesOf(k.id) THEN None ELSE codes[c]]
  BY <1>1 DEF Desk!PurgeCodes
<1>3. codes \in [Codes -> Desk!Code \cup {None}]
  BY DEF RuleDeskInv, DeskTypes, Desk!DeskTypeOK
<1>4. k.id \notin blurred[2] => \A r \in DeskRules : rules[r] # None => rules[r].owner # k.id
  BY <1>1 DEF RuleDeskInv, UserKnown
<1>5. k.id \in Desk!Stakes(k)[2]
  BY <1>1, StakesOfOtherJob
<1>6. codes' \in [Codes -> Desk!Code \cup {None}]
      /\ \A c \in Codes : codes'[c] \in {codes[c], None}
                          /\ (codes[c] # None /\ codes'[c] = None => codes[c].owner = k.id)
  BY <1>2, <1>3 DEF Desk!CodesOf
<1>7. QED
  BY <1>1, <1>2, <1>4, <1>5, <1>6, CodesGo

LEMMA EraseUserStep ==
  ASSUME RuleDeskInv, NEW q \in Requests, Desk!EraseUser(q)
  PROVE  RuleDeskInv'
<1>1. PICK k : k = asked[q] /\ JobOfUser(k) /\ k.at = "store" /\ k.id \in DeskUsers /\ k.id # Shared
  BY LateIsOfRule, DeskIsAssumed DEF Desk!EraseUser, JobOfUser, JobOfCode
<1>2. PICK x : x = [k EXCEPT !.at = "purge"]
  OBVIOUS
<1>3. /\ people' = people \ {k.id} /\ asked' = [p \in Requests |-> IF p = q THEN x ELSE asked[p]]
      /\ UNCHANGED <<rules, codes, policy, wall, desk, started, blurred, most>>
  BY <1>1, <1>2 DEF Desk!EraseUser, RuleDeskInv, DeskTypes
<1>4. x = Desk!Job("purge", k.what, k.id, k.old, k.new, k.limit)
  BY <1>1, <1>2 DEF JobOfUser, Desk!Job
<1>5. /\ x.at = "purge" /\ x.what = k.what /\ x.id = k.id /\ x.old = k.old /\ x.new = k.new
      /\ x.limit = k.limit
  BY <1>4 DEF Desk!Job
<1>6. JobOfUser(x) /\ Early(x) /\ Early(k) /\ ~Late(x) /\ ~Late(k) /\ x # Desk!NoJob /\ k # Desk!NoJob
      /\ ~JobOfRule(x) /\ ~JobOfCode(x) /\ ~JobOfRule(k) /\ ~JobOfCode(k)
  BY <1>1, <1>4, <1>5, JobsAreOfAKind DEF JobOfUser, Early, Late
<1>7. \A d \in 1 .. 3 : \A y : y \in Desk!Stakes(x)[d] <=> y \in Desk!Stakes(k)[d]
  <2>1. \A y : y \in Desk!Stakes(x)[1] <=> y \in Desk!Stakes(k)[1]
    BY <1>1, <1>6, StakesOfOtherJob
  <2>2. \A y : y \in Desk!Stakes(x)[2] <=> y \in Desk!Stakes(k)[2]
    BY <1>1, <1>5, <1>6, StakesOfOtherJob
  <2>3. \A y : y \in Desk!Stakes(x)[3] <=> y \in Desk!Stakes(k)[3]
    BY <1>1, <1>5, <1>6, StakesOfOtherJob
  <2>4. QED
    BY <2>1, <2>2, <2>3
<1>8. asked'[q] = x /\ \A p \in Requests \ {q} : asked'[p] = asked[p]
  BY <1>3
<1>9. k.id \notin blurred[2] => \A r \in DeskRules : rules[r] # None => rules[r].owner # k.id
  BY <1>1 DEF RuleDeskInv, UserKnown
<1>10. DeskTypes'
  <2>1. Desk!DeskTypeOK'
    BY <1>3 DEF RuleDeskInv, DeskTypes, Desk!DeskTypeOK, Desk!Entries
  <2>2. asked' = [p \in Requests |-> asked'[p]]
    BY <1>3
  <2>3. QED
    BY <1>3, <1>6, <2>1, <2>2 DEF RuleDeskInv, DeskTypes
<1>11. Apart'
  <2> SUFFICES ASSUME NEW r \in Requests, NEW p \in Requests, r # p,
                      asked'[r] # Desk!NoJob, asked'[p] # Desk!NoJob
               PROVE  /\ \A y \in Desk!Stakes(asked'[r])[1] :
                           y \in Desk!Stakes(asked'[p])[1] => y \in blurred'[1]
                      /\ JobOfRule(asked'[r]) /\ JobOfRule(asked'[p]) /\ asked'[r].id = asked'[p].id
                           => Desk!Stakes(asked'[r])[1] \subseteq blurred'[1]
                      /\ Early(asked'[r]) /\ Early(asked'[p]) =>
                           \A d \in {2, 3} : \A y \in Desk!Stakes(asked'[r])[d] :
                              y \in Desk!Stakes(asked'[p])[d] => y \in blurred'[d]
    BY DEF Apart
  <2>1. \A p2 \in Requests : asked'[p2] # Desk!NoJob =>
           /\ asked[p2] # Desk!NoJob
           /\ Early(asked'[p2]) => Early(asked[p2])
           /\ JobOfRule(asked'[p2]) => asked'[p2] = asked[p2]
           /\ \A d \in 1 .. 3 : \A y : y \in Desk!Stakes(asked'[p2])[d] <=> y \in Desk!Stakes(asked[p2])[d]
    BY <1>1, <1>6, <1>7, <1>8
  <2>2. /\ \A y \in Desk!Stakes(asked[r])[1] : y \in Desk!Stakes(asked[p])[1] => y \in blurred[1]
        /\ JobOfRule(asked[r]) /\ JobOfRule(asked[p]) /\ asked[r].id = asked[p].id
             => Desk!Stakes(asked[r])[1] \subseteq blurred[1]
        /\ Early(asked[r]) /\ Early(asked[p]) =>
             \A d \in {2, 3} : \A y \in Desk!Stakes(asked[r])[d] :
                y \in Desk!Stakes(asked[p])[d] => y \in blurred[d]
    BY <2>1 DEF RuleDeskInv, Apart
  <2>3. \A y \in Desk!Stakes(asked'[r])[1] : y \in Desk!Stakes(asked'[p])[1] => y \in blurred'[1]
    BY <1>3, <2>1, <2>2
  <2>4. JobOfRule(asked'[r]) /\ JobOfRule(asked'[p]) /\ asked'[r].id = asked'[p].id
          => Desk!Stakes(asked'[r])[1] \subseteq blurred'[1]
    BY <1>3, <2>1, <2>2
  <2>5. Early(asked'[r]) /\ Early(asked'[p]) =>
          \A d \in {2, 3} : \A y \in Desk!Stakes(asked'[r])[d] :
             y \in Desk!Stakes(asked'[p])[d] => y \in blurred'[d]
    BY <1>3, <2>1, <2>2
  <2>6. QED
    BY <2>3, <2>4, <2>5
<1>12. ASSUME NEW p \in Requests
       PROVE  RuleKnown(p)' /\ CodeKnown(p)' /\ UserKnown(p)'
  <2>1. CASE p = q
    <3>1. RuleKnown(p)' /\ CodeKnown(p)'
      BY <1>6, <1>8, <2>1 DEF RuleKnown, CodeKnown
    <3>2. UserKnown(p)'
      BY <1>3, <1>5, <1>8, <1>9, <2>1 DEF UserKnown
    <3>3. QED
      BY <3>1, <3>2
  <2>2. CASE p # q
    <3>1. PICK j : j = asked[p] /\ asked'[p] = j
      BY <1>8, <2>2
    <3>2. RuleKnown(p) /\ CodeKnown(p) /\ UserKnown(p)
      BY DEF RuleDeskInv
    <3>3. \A r \in Requests : /\ JobOfRule(asked'[r]) => JobOfRule(asked[r]) /\ asked'[r] = asked[r]
                              /\ JobOfCode(asked'[r]) => JobOfCode(asked[r]) /\ asked'[r] = asked[r]
      BY <1>6, <1>8
    <3>4. RuleKnown(p)'
      <4> SUFFICES ASSUME JobOfRule(asked'[p]), asked'[p].at = "manager"
                   PROVE  RuleKnown(p)'
        BY DEF RuleKnown
      <4>1. JobOfRule(j) /\ j.at = "manager"
        BY <3>1
      <4>2. \/ rules'[j.id] = j.old
            \/ /\ Desk!Stakes(j)[1] \subseteq blurred'[1]
               /\ rules'[j.id] # None => Desk!Entry(rules'[j.id]) \in blurred'[1]
        BY <1>3, <3>1, <3>2, <4>1 DEF RuleKnown
      <4>3. j.what # "add" /\ rules'[j.id] # None =>
              rules'[j.id].owner \in {j.old.owner, Shared} \cup blurred'[2]
        BY <1>3, <3>1, <3>2, <4>1 DEF RuleKnown
      <4>4. j.what = "add" =>
               /\ rules'[j.id] = None
               /\ \A r \in Requests \ {p} : JobOfRule(asked'[r]) => asked'[r].id # j.id
        BY <1>3, <3>1, <3>2, <3>3, <4>1 DEF RuleKnown
      <4>5. j.what \in {"edit", "toggle"} => j.new.owner \in {j.old.owner, Shared} \cup blurred'[2]
        BY <1>3, <3>1, <3>2, <4>1 DEF RuleKnown
      <4>6. j.new # None /\ j.new.owner \notin {Shared} \cup blurred'[2]
              /\ j.new.target \notin {Public} \cup blurred'[3]
              => HasCode(j.new.owner, j.new.target)'
        <5>1. HasCode(j.new.owner, j.new.target) => HasCode(j.new.owner, j.new.target)'
          BY <1>3 DEF HasCode
        <5>2. QED
          BY <1>3, <3>1, <3>2, <4>1, <5>1 DEF RuleKnown
      <4>7. j.what = "add" /\ j.new.owner \notin {Shared} \cup blurred'[2]
              => j.new.owner \in people' /\ Room(j.new.owner)'
        <5>1. Room(j.new.owner) => Room(j.new.owner)'
          BY <1>3, LimitsStay
        <5>2. ASSUME j.what = "add", j.new.owner = k.id PROVE k.id \in blurred[2]
          <6>1. j.new # None
            BY <4>1, <5>2, DeskIsAssumed DEF JobOfRule
          <6>2. k.id \in Desk!Stakes(j)[2] /\ Early(j) /\ j # Desk!NoJob
            BY <1>1, <4>1, <5>2, <6>1, StakesOfRuleJob, JobsAreOfAKind DEF Early
          <6>3. k.id \in Desk!Stakes(k)[2]
            BY <1>1, StakesOfOtherJob
          <6>4. QED
            BY <1>1, <1>6, <2>2, <3>1, <6>2, <6>3, EarlyApart
        <5>3. QED
          BY <1>3, <3>1, <3>2, <4>1, <5>1, <5>2 DEF RuleKnown
      <4>8. QED
        BY <3>1, <4>2, <4>3, <4>4, <4>5, <4>6, <4>7, KnownFromParts
    <3>5. CodeKnown(p)' /\ UserKnown(p)'
      <4>1. \A m : Within(m, most.codes) => Within(m, most.codes)'
        BY <1>3, LimitsStay
      <4>2. QED
        BY <1>3, <3>1, <3>2, <3>3, <4>1, CodeStaysKnown
    <3>6. QED
      BY <3>4, <3>5
  <2>3. QED
    BY <2>1, <2>2
<1>13. OneRuleAnEntry' /\ CodesDiffer'
  BY <1>3 DEF RuleDeskInv, OneRuleAnEntry, CodesDiffer
<1>14. OwnersExist'
  <2>1. ASSUME NEW r \in DeskRules, rules[r] # None, rules[r].owner \in DeskUsers \ blurred[2]
        PROVE  /\ rules[r].owner \in people'
               /\ rules[r].target \notin {Public} \cup blurred[3] => HasCode(rules[r].owner, rules[r].target)
    BY <1>3, <1>9, <2>1 DEF RuleDeskInv, OwnersExist
  <2>2. QED
    BY <1>3, <2>1 DEF OwnersExist, HasCode
<1>15. \A e \in Desk!Entries \ blurred'[1] : WallIsAhead(e)'
  BY <1>1, <1>3, <1>6, <1>8, WallStays DEF RuleDeskInv
<1>16. Desk!LimitsHold' /\ Within(Desk!MaxRules, most.rules)' /\ Within(Desk!MaxCodes, most.codes)'
  <2>1. \A u : Desk!CodesOf(u)' = Desk!CodesOf(u) /\ Desk!Owned(u)' = Desk!Owned(u)
    BY <1>3 DEF Desk!CodesOf, Desk!Owned
  <2>2. Desk!LimitsHold'
    BY <1>3, <2>1 DEF RuleDeskInv, Desk!LimitsHold
  <2>3. Within(Desk!MaxRules, most.rules)' /\ Within(Desk!MaxCodes, most.codes)'
    BY <1>3 DEF RuleDeskInv, Within, Desk!MaxRules, Desk!MaxCodes
  <2>4. QED
    BY <2>2, <2>3
<1>17. QED
  BY <1>10, <1>11, <1>12, <1>13, <1>14, <1>15, <1>16 DEF RuleDeskInv

-----------------------------------------------------------------------------
(* The desk: requests read and check                                       *)

\* A request on a rule that the administrator makes, or whose user has the tunnel and room.
LEMMA RuleRequestStarts ==
  ASSUME RuleDeskInv, NEW q \in Requests, NEW me, NEW job, Desk!Goes(q, me, job),
         UNCHANGED <<people, rules, codes, policy, wall, desk, most>>,
         JobOfRule(job), job.at = "manager", rules[job.id] = job.old,
         job.what = "add" => \A p \in Requests : JobOfRule(asked[p]) => asked[p].id # job.id,
         job.what \in {"edit", "toggle"} => me = Admin \/ job.new.owner = job.old.owner,
         job.new # None /\ me # Admin /\ job.new.owner \notin {Shared} \cup blurred[2]
           /\ job.new.target \notin {Public} \cup blurred[3] => HasCode(job.new.owner, job.new.target),
         job.what = "add" /\ me # Admin => job.new.owner \in people /\ Room(job.new.owner)
  PROVE  RuleDeskInv'
<1>1. DeskTypes
  BY DEF RuleDeskInv
<1>2. /\ asked' = [r \in Requests |-> IF r = q THEN job ELSE asked[r]]
      /\ \A d \in 1 .. 3 : blurred[d] \subseteq blurred'[d]
      /\ me = Admin /\ job.new # None => \A d \in {2, 3} : Desk!Stakes(job)[d] \subseteq blurred'[d]
  BY <1>1, GoesFacts, StakesOfRuleJob
<1>3. asked'[q] = job /\ \A p \in Requests \ {q} : asked'[p] = asked[p]
  BY <1>2
<1>4. me = Admin /\ job.new # None => job.new.owner \in {Shared} \cup blurred'[2]
  BY <1>2, StakesOfRuleJob
<1>5. job.what # "drop" => job.new # None
  BY DeskIsAssumed DEF JobOfRule
<1>6. job.what # "add" => job.old # None
  BY DeskIsAssumed DEF JobOfRule
<1>7. RuleKnown(q)'
  <2>1. rules'[job.id] = job.old
    OBVIOUS
  <2>2. job.what # "add" /\ rules'[job.id] # None =>
          rules'[job.id].owner \in {job.old.owner, Shared} \cup blurred'[2]
    BY <2>1
  <2>3. job.what = "add" =>
           /\ rules'[job.id] = None
           /\ \A r \in Requests \ {q} : JobOfRule(asked'[r]) => asked'[r].id # job.id
    BY <1>3, <2>1 DEF JobOfRule
  <2>4. job.what \in {"edit", "toggle"} => job.new.owner \in {job.old.owner, Shared} \cup blurred'[2]
    BY <1>4, <1>5
  <2>5. job.new # None /\ job.new.owner \notin {Shared} \cup blurred'[2]
          /\ job.new.target \notin {Public} \cup blurred'[3]
          => HasCode(job.new.owner, job.new.target)'
    <3>1. HasCode(job.new.owner, job.new.target) => HasCode(job.new.owner, job.new.target)'
      BY DEF HasCode
    <3>2. QED
      BY <1>2, <1>4, <3>1
  <2>6. job.what = "add" /\ job.new.owner \notin {Shared} \cup blurred'[2]
          => job.new.owner \in people' /\ Room(job.new.owner)'
    <3>1. Room(job.new.owner) => Room(job.new.owner)'
      BY LimitsStay
    <3>2. QED
      BY <1>4, <1>5, <3>1
  <2>7. QED
    BY <1>3, <2>1, <2>2, <2>3, <2>4, <2>5, <2>6, KnownFromParts
<1>8. CodeKnown(q)' /\ UserKnown(q)'
  BY <1>3, JobsAreOfAKind DEF CodeKnown, UserKnown
<1>9. Early(job) /\ ~JobOfCode(job)
  BY JobsAreOfAKind DEF Early
<1>10. QED
  BY <1>6, <1>7, <1>8, <1>9, RequestStarts

LEMMA JobIs ==
  ASSUME NEW at, NEW what, NEW id, NEW old, NEW new, NEW room
  PROVE  LET j == Desk!Job(at, what, id, old, new, room) IN
         /\ j.at = at /\ j.what = what /\ j.id = id /\ j.old = old /\ j.new = new /\ j.limit = room
         /\ j = Desk!Job(j.at, j.what, j.id, j.old, j.new, j.limit)
BY DEF Desk!Job

\* A user that may take a target has a code with that address.
LEMMA TargetIsOnes ==
  ASSUME NEW me, NEW given, Desk!MayTarget(me, given), given.target # Public
  PROVE  HasCode(me, given.target)
BY DEF Desk!MayTarget, Desk!TunIPsOf, Desk!CodesOf, HasCode

\* What is free and no request's, is: the CHOOSE of the model.
LEMMA FreeIdIs ==
  ASSUME NEW S, NEW f, \E r \in S : f[r] = None /\ \A k \in Desk!Running : k.id # r
  PROVE  LET id == CHOOSE r \in S : f[r] = None /\ \A k \in Desk!Running : k.id # r IN
         /\ id \in S /\ f[id] = None
         /\ \A p \in Requests : asked[p] # Desk!NoJob => asked[p].id # id
BY DEF Desk!Running

LEMMA CreateRuleStep ==
  ASSUME RuleDeskInv, NEW q \in Requests, NEW me \in people \cup {Admin}, Desk!CreateRule(q, me)
  PROVE  RuleDeskInv'
<1>1. PICK given \in desk.rules, id \in DeskRules :
        /\ rules[id] = None /\ \A p \in Requests : asked[p] # Desk!NoJob => asked[p].id # id
        /\ me # Admin => given.owner = me
        /\ Desk!Guarded(me, given) /\ Desk!QuotaLeft(me)
        /\ Desk!Goes(q, me, Desk!Job("manager", "add", id, None, given, -1))
        /\ UNCHANGED <<people, rules, codes, policy, wall, desk, most>>
  <2>1. PICK given \in desk.rules :
          LET id == CHOOSE r \in DeskRules : rules[r] = None /\ \A k \in Desk!Running : k.id # r
          IN /\ \E r \in DeskRules : rules[r] = None /\ \A k \in Desk!Running : k.id # r
             /\ me # Admin => given.owner = me
             /\ Desk!Guarded(me, given) /\ Desk!QuotaLeft(me)
             /\ Desk!Goes(q, me, Desk!Job("manager", "add", id, None, given, -1))
             /\ UNCHANGED <<people, rules, codes, policy, wall, desk, most>>
    BY DEF Desk!CreateRule
  <2>2. PICK id : id = CHOOSE r \in DeskRules : rules[r] = None /\ \A k \in Desk!Running : k.id # r
    OBVIOUS
  <2>3. /\ id \in DeskRules /\ rules[id] = None
        /\ \A p \in Requests : asked[p] # Desk!NoJob => asked[p].id # id
    BY <2>1, <2>2, FreeIdIs
  <2>4. QED
    BY <2>1, <2>2, <2>3
<1>2. given \in Desk!Rule
  BY DeskIsAssumed DEF RuleDeskInv, DeskTypes
<1>3. PICK job : job = Desk!Job("manager", "add", id, None, given, -1)
  OBVIOUS
<1>4. /\ job.at = "manager" /\ job.what = "add" /\ job.id = id /\ job.old = None /\ job.new = given
      /\ job = Desk!Job(job.at, job.what, job.id, job.old, job.new, job.limit)
  BY <1>3, JobIs
<1>5. JobOfRule(job)
  BY <1>2, <1>4 DEF JobOfRule
<1>6. ASSUME me # Admin
      PROVE  /\ given.owner \in people /\ Room(given.owner)
             /\ given.target # Public => HasCode(given.owner, given.target)
  <2>1. given.owner = me /\ me \in people /\ Desk!MayTarget(me, given)
    BY <1>1, <1>6 DEF Desk!Guarded
  <2>2. Desk!MaxRules = -1 \/ Cardinality(Desk!Owned(me)) < Desk!MaxRules
    BY <1>1, <1>6, DeskCounts DEF Desk!QuotaLeft
  <2>3. Desk!MaxRules \in Int /\ most.rules \in Int /\ Within(Desk!MaxRules, most.rules)
    BY DeskIsAssumed DEF RuleDeskInv, DeskTypes, Desk!DeskTypeOK, Desk!MaxRules, Desk!Picked
  <2>4. Cardinality(Desk!Owned(me)) \in Nat
    BY DeskIsAssumed, FS_Subset, FS_CardinalityType DEF Desk!Owned
  <2>5. Room(me)
    BY <2>2, <2>3, <2>4 DEF Room, Within
  <2>6. QED
    BY <2>1, <2>5, TargetIsOnes
<1>7. \A p \in Requests : JobOfRule(asked[p]) => asked[p].id # id
  BY <1>1, JobsAreOfAKind
<1>8. QED
  BY <1>1, <1>3, <1>4, <1>5, <1>6, <1>7, RuleRequestStarts

LEMMA ChangeRuleStep ==
  ASSUME RuleDeskInv, NEW q \in Requests, NEW me \in people \cup {Admin}, NEW r \in DeskRules,
         Desk!UpdateRule(q, me, r) \/ Desk!ToggleRule(q, me, r) \/ Desk!DeleteRule(q, me, r)
  PROVE  RuleDeskInv'
<1>1. /\ rules[r] # None /\ Desk!CanTouch(me, rules[r]) /\ rules[r] \in Desk!Rule
      /\ UNCHANGED <<people, rules, codes, policy, wall, desk, most>>
  BY DEF Desk!UpdateRule, Desk!ToggleRule, Desk!DeleteRule, RuleDeskInv, DeskTypes, Desk!DeskTypeOK
<1>2. PICK old : old = rules[r] /\ old \in Desk!Rule /\ old # None
  BY <1>1
<1>3. CASE Desk!UpdateRule(q, me, r)
  <2>1. PICK new \in desk.rules :
          /\ Desk!Guarded(me, new)
          /\ me # Admin => new.owner = me
          /\ Desk!Goes(q, me, Desk!Job("manager", "edit", r, old, new, -1))
    BY <1>2, <1>3 DEF Desk!UpdateRule
  <2>2. new \in Desk!Rule
    BY DeskIsAssumed DEF RuleDeskInv, DeskTypes
  <2>3. PICK job : job = Desk!Job("manager", "edit", r, old, new, -1)
    OBVIOUS
  <2>4. /\ job.at = "manager" /\ job.what = "edit" /\ job.id = r /\ job.old = old /\ job.new = new
        /\ job = Desk!Job(job.at, job.what, job.id, job.old, job.new, job.limit)
    BY <2>3, JobIs
  <2>5. JobOfRule(job)
    BY <1>2, <2>2, <2>4 DEF JobOfRule
  <2>6. me # Admin => /\ new.owner = old.owner /\ Desk!MayTarget(me, new) /\ new.owner = me
    <3>1. me # Admin => old.owner = me
      BY <1>1, <1>2 DEF Desk!CanTouch
    <3>2. me # Admin => Desk!MayTarget(me, new)
      BY <2>1 DEF Desk!Guarded
    <3>3. QED
      BY <2>1, <3>1, <3>2
  <2>7. me # Admin /\ new.target # Public => HasCode(new.owner, new.target)
    BY <2>6, TargetIsOnes
  <2>8. QED
    BY <1>1, <1>2, <2>1, <2>3, <2>4, <2>5, <2>6, <2>7, RuleRequestStarts
<1>4. CASE Desk!ToggleRule(q, me, r)
  <2>1. PICK on \in BOOLEAN :
          Desk!Goes(q, me, Desk!Job("manager", "toggle", r, old, [old EXCEPT !.on = on], -1))
    BY <1>2, <1>4 DEF Desk!ToggleRule
  <2>2. PICK new : new = [old EXCEPT !.on = on]
    OBVIOUS
  <2>3. new \in Desk!Rule /\ new.owner = old.owner /\ new.target = old.target
    BY <1>2, <2>2 DEF Desk!Rule
  <2>4. PICK job : job = Desk!Job("manager", "toggle", r, old, new, -1)
    OBVIOUS
  <2>5. /\ job.at = "manager" /\ job.what = "toggle" /\ job.id = r /\ job.old = old /\ job.new = new
        /\ job = Desk!Job(job.at, job.what, job.id, job.old, job.new, job.limit)
    BY <2>4, JobIs
  <2>6. JobOfRule(job)
    BY <1>2, <2>3, <2>5 DEF JobOfRule
  <2>7. new.owner \notin {Shared} \cup blurred[2] /\ new.target \notin {Public} \cup blurred[3]
          => HasCode(new.owner, new.target)
    <3>1. old.owner \in DeskUsers \cup {Shared}
      BY <1>2 DEF Desk!Rule
    <3>2. QED
      BY <1>2, <2>3, <3>1 DEF RuleDeskInv, OwnersExist
  <2>8. QED
    BY <1>1, <1>2, <2>1, <2>2, <2>3, <2>4, <2>5, <2>6, <2>7, RuleRequestStarts
<1>5. CASE Desk!DeleteRule(q, me, r)
  <2>1. PICK job : job = Desk!Job("manager", "drop", r, old, None, -1)
    OBVIOUS
  <2>2. /\ job.at = "manager" /\ job.what = "drop" /\ job.id = r /\ job.old = old /\ job.new = None
        /\ job = Desk!Job(job.at, job.what, job.id, job.old, job.new, job.limit)
    BY <2>1, JobIs
  <2>3. JobOfRule(job)
    BY <1>2, <2>2 DEF JobOfRule
  <2>4. Desk!Goes(q, me, job)
    BY <1>2, <1>5, <2>1 DEF Desk!DeleteRule
  <2>5. QED
    BY <1>1, <1>2, <2>2, <2>3, <2>4, RuleRequestStarts
<1>6. QED
  BY <1>3, <1>4, <1>5

LEMMA CodeRequestStarts ==
  ASSUME RuleDeskInv, NEW q \in Requests, NEW me, NEW job, Desk!Goes(q, me, job),
         UNCHANGED <<people, rules, codes, policy, wall, desk, most>>,
         JobOfCode(job),
         job.what = "code" =>
           /\ codes[job.id] = None /\ Within(job.limit, most.codes)
           /\ \A p \in Requests : JobOfCode(asked[p]) => asked[p].id # job.id,
         job.what # "code" => codes[job.id] = job.old,
         job.what = "uncode" =>
           \A r \in DeskRules : rules[r] # None => rules[r].target # job.old.ip
  PROVE  RuleDeskInv'
<1>1. asked' = [r \in Requests |-> IF r = q THEN job ELSE asked[r]]
  BY GoesFacts DEF RuleDeskInv
<1>2. asked'[q] = job /\ \A p \in Requests \ {q} : asked'[p] = asked[p]
  BY <1>1
<1>3. CodeKnown(q)'
  <2>1. Within(job.limit, most.codes) => Within(job.limit, most.codes)'
    BY LimitsStay
  <2>2. QED
    BY <1>2, <2>1 DEF CodeKnown
<1>4. RuleKnown(q)' /\ UserKnown(q)'
  BY <1>2, JobsAreOfAKind DEF RuleKnown, UserKnown
<1>5. Early(job) /\ ~JobOfRule(job) /\ (job.what # "code" => codes[job.id] # None)
  BY JobsAreOfAKind, DeskIsAssumed DEF Early, JobOfCode
<1>6. QED
  BY <1>3, <1>4, <1>5, RequestStarts

LEMMA CodeRequestStep ==
  ASSUME RuleDeskInv, NEW q \in Requests, NEW me,
         \/ \E u \in DeskUsers : Desk!CreateCode(q, me, u)
         \/ \E c \in Codes : Desk!UpdateCode(q, me, c) \/ Desk!DeleteCode(q, me, c)
  PROVE  RuleDeskInv'
<1>1. CASE \E u \in DeskUsers : Desk!CreateCode(q, me, u)
  <2>1. PICK u \in DeskUsers : Desk!CreateCode(q, me, u)
    BY <1>1
  <2>2. PICK id : id = CHOOSE c \in Codes : codes[c] = None /\ \A k \in Desk!Running : k.id # c
    OBVIOUS
  <2>3. /\ \E c \in Codes : codes[c] = None /\ \A k \in Desk!Running : k.id # c
        /\ Desk!Goes(q, me, Desk!Job("store", "code", id, None,
                                     [owner |-> u, ip |-> 1, on |-> TRUE], Desk!MaxCodes))
        /\ UNCHANGED <<people, rules, codes, policy, wall, desk, most>>
    BY <2>1, <2>2 DEF Desk!CreateCode
  <2>4. /\ id \in Codes /\ codes[id] = None
        /\ \A p \in Requests : asked[p] # Desk!NoJob => asked[p].id # id
    BY <2>2, <2>3, FreeIdIs
  <2>5. PICK new : new = [owner |-> u, ip |-> 1, on |-> TRUE] /\ new \in Desk!Code
    <3>1. [owner |-> u, ip |-> 1, on |-> TRUE] \in Desk!Code
      <4>1. u \in DeskUsers /\ 1 \in Addresses
        BY DeskIsAssumed
      <4>2. QED
        BY <4>1 DEF Desk!Code
    <3>2. QED
      BY <3>1
  <2>6. PICK job : job = Desk!Job("store", "code", id, None, new, Desk!MaxCodes)
    OBVIOUS
  <2>7. /\ job.at = "store" /\ job.what = "code" /\ job.id = id /\ job.old = None /\ job.new = new
        /\ job.limit = Desk!MaxCodes
        /\ job = Desk!Job(job.at, job.what, job.id, job.old, job.new, job.limit)
    BY <2>6, JobIs
  <2>8. Desk!MaxCodes \in Int /\ Within(Desk!MaxCodes, most.codes)
    BY DeskIsAssumed DEF RuleDeskInv, DeskTypes, Desk!DeskTypeOK, Desk!MaxCodes, Desk!Picked
  <2>9. JobOfCode(job)
    BY <2>4, <2>5, <2>7, <2>8 DEF JobOfCode
  <2>10. \A p \in Requests : JobOfCode(asked[p]) => asked[p].id # id
    BY <2>4, JobsAreOfAKind
  <2>11. QED
    BY <2>3, <2>4, <2>5, <2>6, <2>7, <2>8, <2>9, <2>10, CodeRequestStarts
<1>2. CASE \E c \in Codes : Desk!UpdateCode(q, me, c)
  <2>1. PICK c \in Codes : Desk!UpdateCode(q, me, c)
    BY <1>2
  <2>2. PICK old : old = codes[c] /\ old # None /\ old \in Desk!Code
    BY <2>1 DEF Desk!UpdateCode, RuleDeskInv, DeskTypes, Desk!DeskTypeOK
  <2>3. PICK new : new = [old EXCEPT !.on = ~old.on]
    OBVIOUS
  <2>4. new \in Desk!Code /\ new.owner = old.owner /\ new.ip = old.ip
    BY <2>2, <2>3 DEF Desk!Code
  <2>5. PICK job : job = Desk!Job("store", "switch", c, old, new, -1)
    OBVIOUS
  <2>6. /\ job.at = "store" /\ job.what = "switch" /\ job.id = c /\ job.old = old /\ job.new = new
        /\ job = Desk!Job(job.at, job.what, job.id, job.old, job.new, job.limit)
    BY <2>5, JobIs
  <2>7. JobOfCode(job)
    BY <2>2, <2>4, <2>6 DEF JobOfCode
  <2>8. Desk!Goes(q, me, job) /\ UNCHANGED <<people, rules, codes, policy, wall, desk, most>>
    BY <2>1, <2>2, <2>3, <2>5 DEF Desk!UpdateCode
  <2>9. QED
    BY <2>2, <2>6, <2>7, <2>8, CodeRequestStarts
<1>3. CASE \E c \in Codes : Desk!DeleteCode(q, me, c)
  <2>1. PICK c \in Codes : Desk!DeleteCode(q, me, c)
    BY <1>3
  <2>2. PICK old : old = codes[c] /\ old # None /\ old \in Desk!Code
    BY <2>1 DEF Desk!DeleteCode, RuleDeskInv, DeskTypes, Desk!DeskTypeOK
  <2>3. PICK job : job = Desk!Job("store", "uncode", c, old, None, -1)
    OBVIOUS
  <2>4. /\ job.at = "store" /\ job.what = "uncode" /\ job.id = c /\ job.old = old /\ job.new = None
        /\ job = Desk!Job(job.at, job.what, job.id, job.old, job.new, job.limit)
    BY <2>3, JobIs
  <2>5. JobOfCode(job)
    BY <2>2, <2>4 DEF JobOfCode
  <2>6. Desk!Goes(q, me, job) /\ UNCHANGED <<people, rules, codes, policy, wall, desk, most>>
    BY <2>1, <2>2, <2>3 DEF Desk!DeleteCode
  <2>7. \A r \in DeskRules : rules[r] # None => rules[r].target # old.ip
    BY <2>1, <2>2 DEF Desk!DeleteCode, Desk!Referenced, Desk!Pointing
  <2>8. QED
    BY <2>2, <2>4, <2>5, <2>6, <2>7, CodeRequestStarts
<1>4. QED
  BY <1>1, <1>2, <1>3

LEMMA DeleteOwnerStep ==
  ASSUME RuleDeskInv, NEW q \in Requests, NEW u \in DeskUsers, Desk!DeleteUser(q, u)
  PROVE  RuleDeskInv'
<1>1. PICK job : job = Desk!Job("store", "leave", u, None, None, -1)
  OBVIOUS
<1>2. /\ job.at = "store" /\ job.what = "leave" /\ job.id = u /\ job.old = None /\ job.new = None
      /\ job = Desk!Job(job.at, job.what, job.id, job.old, job.new, job.limit)
  BY <1>1, JobIs
<1>3. JobOfUser(job) /\ Early(job) /\ ~JobOfRule(job) /\ ~JobOfCode(job)
  BY <1>2, JobsAreOfAKind DEF JobOfUser, Early
<1>4. Desk!Goes(q, Admin, job) /\ UNCHANGED <<people, rules, codes, policy, wall, desk, most>>
  BY <1>1 DEF Desk!DeleteUser
<1>5. \A r \in DeskRules : rules[r] # None => rules[r].owner # u
  BY DEF Desk!DeleteUser, Desk!Owned
<1>6. asked' = [r \in Requests |-> IF r = q THEN job ELSE asked[r]]
  BY <1>4, GoesFacts DEF RuleDeskInv
<1>7. asked'[q] = job
  BY <1>6
<1>8. RuleKnown(q)' /\ CodeKnown(q)' /\ UserKnown(q)'
  BY <1>2, <1>3, <1>4, <1>5, <1>7 DEF RuleKnown, CodeKnown, UserKnown
<1>9. QED
  BY <1>3, <1>4, <1>8, RequestStarts

-----------------------------------------------------------------------------
(* The desk: the invariant holds, and what follows from it                 *)

LEMMA DeskStarts ==
  ASSUME Desk!DeskInit
  PROVE  RuleDeskInv
<1>1. /\ people = DeskUsers /\ rules = [r \in DeskRules |-> None] /\ codes = [c \in Codes |-> None]
      /\ desk \in DeskWorks /\ policy \in desk.policies
      /\ most = [rules |-> Desk!MaxRules, codes |-> Desk!MaxCodes]
      /\ wall = [e \in Desk!Entries |-> 0] /\ asked = [q \in Requests |-> Desk!NoJob] /\ started = 0
  BY DEF Desk!DeskInit
<1>2. Desk!MaxRules \in Int /\ Desk!MaxCodes \in Int
  BY <1>1, DeskIsAssumed DEF Desk!MaxRules, Desk!MaxCodes, Desk!Picked
<1>3. DeskTypes
  <2>1. Desk!DeskTypeOK
    BY <1>1, DeskIsAssumed DEF Desk!DeskTypeOK
  <2>2. QED
    BY <1>1, <1>2, <2>1 DEF DeskTypes
<1>4. \A q \in Requests : asked[q] = Desk!NoJob
  BY <1>1
<1>5. Apart /\ \A q \in Requests : RuleKnown(q) /\ CodeKnown(q) /\ UserKnown(q)
  BY <1>4, JobsAreOfAKind DEF Apart, RuleKnown, CodeKnown, UserKnown
<1>6. OneRuleAnEntry /\ OwnersExist /\ CodesDiffer
  BY <1>1 DEF OneRuleAnEntry, OwnersExist, CodesDiffer
<1>7. \A e \in Desk!Entries \ blurred[1] : WallIsAhead(e)
  BY <1>1, <1>4, JobsAreOfAKind DEF WallIsAhead, Has, Late
<1>8. Desk!LimitsHold
  <2>1. \A u : Desk!Owned(u) = {} /\ Desk!CodesOf(u) = {}
    BY <1>1 DEF Desk!Owned, Desk!CodesOf
  <2>2. Cardinality({}) = 0
    BY FS_EmptySet
  <2>3. (most.rules = -1 \/ 0 <= most.rules) /\ (most.codes = -1 \/ 0 <= most.codes)
    BY <1>1, DeskIsAssumed DEF Desk!MaxRules, Desk!MaxCodes, Desk!Picked
  <2>4. QED
    BY <2>1, <2>2, <2>3, DeskCounts DEF Desk!LimitsHold
<1>9. Within(Desk!MaxRules, most.rules) /\ Within(Desk!MaxCodes, most.codes)
  BY <1>1, <1>2 DEF Within
<1>10. QED
  BY <1>3, <1>5, <1>6, <1>7, <1>8, <1>9 DEF RuleDeskInv

LEMMA DeskRests ==
  ASSUME RuleDeskInv,
         UNCHANGED <<people, rules, codes, policy, wall, asked, desk, started, blurred, most>>
  PROVE  RuleDeskInv'
<1>1. /\ asked' = [q \in Requests |-> asked'[q]]
      /\ wall' \in [Desk!Entries -> Nat]
  BY DEF RuleDeskInv, DeskTypes, Desk!DeskTypeOK
<1>2. \A e \in Desk!Entries \ blurred'[1] : WallIsAhead(e)'
  BY WallStays DEF RuleDeskInv
<1>3. QED
  BY <1>1, <1>2, RequestsEnd

LEMMA DeskStep ==
  ASSUME RuleDeskInv, Desk!DeskNext
  PROVE  RuleDeskInv'
<1>1. CASE \E q \in Requests, me \in people \cup {Admin} : Desk!CreateRule(q, me)
  BY <1>1, CreateRuleStep
<1>2. CASE \E q \in Requests, me \in people \cup {Admin}, r \in DeskRules :
             Desk!UpdateRule(q, me, r) \/ Desk!ToggleRule(q, me, r) \/ Desk!DeleteRule(q, me, r)
  BY <1>2, ChangeRuleStep
<1>3. CASE \E q \in Requests, me \in people \cup {Admin} :
             \/ \E u \in DeskUsers : Desk!CreateCode(q, me, u)
             \/ \E c \in Codes : Desk!UpdateCode(q, me, c) \/ Desk!DeleteCode(q, me, c)
  <2>1. PICK q \in Requests, me \in people \cup {Admin} :
             \/ \E u \in DeskUsers : Desk!CreateCode(q, me, u)
             \/ \E c \in Codes : Desk!UpdateCode(q, me, c) \/ Desk!DeleteCode(q, me, c)
    BY <1>3
  <2>2. QED
    BY <2>1, CodeRequestStep
<1>4. CASE \E q \in Requests, u \in DeskUsers : Desk!DeleteUser(q, u)
  BY <1>4, DeleteOwnerStep
<1>5. CASE \E q \in Requests : Desk!RuleStep(q)
  BY <1>5, SaveRuleStep, DropRuleStep, CleanWallStep, OpenWallStep DEF Desk!RuleStep
<1>6. CASE \E q \in Requests : Desk!CodeStep(q)
  BY <1>6, StoreCodeStep, SaveCodeStep, EraseCodeStep, EraseUserStep, PurgeCodesStep DEF Desk!CodeStep
<1>7. CASE \E p \in desk.policies : Desk!ChangeLimits(p)
  BY <1>7, LimitsStep
<1>8. CASE Desk!Crash
  BY <1>8, CrashStep
<1>9. QED
  BY <1>1, <1>2, <1>3, <1>4, <1>5, <1>6, <1>7, <1>8 DEF Desk!DeskNext

\* What is unsettled: what requests that run have a stake in, and what is in doubt.
LEMMA SettledIsNobodys ==
  ASSUME NEW d \in 1 .. 3, NEW x, x \notin Desk!Unsettled(d)
  PROVE  /\ x \notin blurred[d]
         /\ \A q \in Requests : asked[q] # Desk!NoJob => x \notin Desk!Stakes(asked[q])[d]
<1>1. \A q \in Requests : asked[q] # Desk!NoJob => asked[q] \in Desk!Running
  BY DEF Desk!Running
<1>2. QED
  BY <1>1 DEF Desk!Unsettled

LEMMA WallFollowsRules ==
  ASSUME RuleDeskInv
  PROVE  Desk!FirewallFollows
<1> SUFFICES ASSUME NEW e \in Desk!Entries, e \notin Desk!Unsettled(1)
             PROVE  wall[e] = Desk!Cardinality(
                      {r \in DeskRules : rules[r] # None /\ Desk!Managed(rules[r]) /\ Desk!Entry(rules[r]) = e})
  BY DEF Desk!FirewallFollows
<1> DEFINE S == {r \in DeskRules : rules[r] # None /\ Desk!Managed(rules[r]) /\ Desk!Entry(rules[r]) = e}
<1>1. e \notin blurred[1] /\ \A q \in Requests : asked[q] # Desk!NoJob => e \notin Desk!Stakes(asked[q])[1]
  BY SettledIsNobodys
<1>2. \A q \in Requests : Late(asked[q]) => ~Concerns(asked[q], e)
  BY <1>1, StakesOfRuleJob, JobsAreOfAKind DEF Late
<1>3. wall[e] = IF Has(e) THEN 1 ELSE 0
  BY <1>1, <1>2 DEF RuleDeskInv, WallIsAhead
<1>4. CASE ~Has(e)
  <2>1. S = {}
    BY <1>4 DEF Has
  <2>2. QED
    BY <1>3, <1>4, <2>1, FS_EmptySet, DeskCounts
<1>5. CASE Has(e)
  <2>1. PICK r \in DeskRules : rules[r] # None /\ Desk!Managed(rules[r]) /\ Desk!Entry(rules[r]) = e
    BY <1>5 DEF Has
  <2>2. S = {r}
    BY <1>1, <2>1 DEF RuleDeskInv, OneRuleAnEntry
  <2>3. Cardinality({r}) = 1
    BY FS_Singleton
  <2>4. QED
    BY <1>3, <1>5, <2>2, <2>3, DeskCounts
<1>6. QED
  BY <1>4, <1>5

LEMMA RulesStayHome ==
  ASSUME RuleDeskInv
  PROVE  Desk!RulesLeadHome
<1>1. \A c, d \in {c \in Codes : codes[c] # None} : codes[c].ip = codes[d].ip => c = d
  BY DEF RuleDeskInv, CodesDiffer
<1>2. ASSUME NEW r \in DeskRules, rules[r] # None, rules[r].owner \in DeskUsers \ Desk!Unsettled(2)
      PROVE  /\ rules[r].owner \in people
             /\ rules[r].target \in {Public} \cup Desk!Unsettled(3)
                  \cup {codes[c].ip : c \in Desk!CodesOf(rules[r].owner)}
  <2>1. rules[r].owner \in people
        /\ (rules[r].target \notin {Public} \cup blurred[3] => HasCode(rules[r].owner, rules[r].target))
    BY <1>2, SettledIsNobodys DEF RuleDeskInv, OwnersExist
  <2>2. blurred[3] \subseteq Desk!Unsettled(3)
    BY DEF Desk!Unsettled
  <2>3. HasCode(rules[r].owner, rules[r].target) =>
          rules[r].target \in {codes[c].ip : c \in Desk!CodesOf(rules[r].owner)}
    BY DEF HasCode, Desk!CodesOf
  <2>4. QED
    BY <2>1, <2>2, <2>3
<1>3. QED
  BY <1>1, <1>2 DEF Desk!RulesLeadHome

LEMMA DeskLimitsHold ==
  ASSUME RuleDeskInv
  PROVE  Desk!LimitsHold
BY DEF RuleDeskInv

-----------------------------------------------------------------------------
(* The access list and the log: the invariant *)

Owners == Log!LogUsers

LogTypes ==
  /\ Log!TypeOK
  /\ queue \in Seq(LogRules) /\ time \in Nat /\ mixed \in BOOLEAN
  /\ changing \in [Requests -> {<<>>, <<"stored">>} \cup ({"read"} \X SUBSET Log!Entry)]
  /\ cut \in [Owners -> Nat]
  /\ owed \in [restarts : Nat, limit : Nat]

\* While changes have not overlapped one at most is under way, and what it has read is the list.
GuardKnown ==
  ~mixed =>
    /\ (\A q \in Requests : changing[q] = <<>>) => guard = Log!Listed
    /\ \A p, q \in Requests : changing[p] # <<>> /\ changing[q] # <<>> => p = q
    /\ \A q \in Requests : Len(changing[q]) = 2 => changing[q][2] = Log!Listed

\* A time is that of one row; rows are newer than what was cut, and there are no more of them
\* than the last trim left, each life of the logger since has added, and this one.
MostRows(atTrim, lives, since) == atTrim + lives * (TrimEvery - 1) + since

RowsBounded ==
  /\ \A u, v \in Owners : u # v => rows[u] \cap rows[v] = {}
  /\ \A u \in Owners :
       /\ cut[u] <= time
       /\ \A t \in rows[u] : cut[u] < t
       /\ Cardinality(rows[u]) <= MostRows(owed.limit, owed.restarts, appends % TrimEvery)

LogInv == LogTypes /\ GuardKnown /\ RowsBounded

-----------------------------------------------------------------------------
LEMMA LogConstants ==
  /\ Queued \in Nat /\ MaxEvents \in Nat /\ MaxRestarts \in Nat
  /\ LogLimits \subseteq Nat /\ PageSizes \subseteq Nat
  /\ TrimEvery \in Nat /\ TrimEvery > 0
  /\ MaxChanges \in [{"list", "log"} -> Nat]
  /\ ListEntries \subseteq Log!Entry
BY PanelAssumption DEF PanelAssumption, Log!LogAssumption

LEMMA LogCounts == \A S : Log!Cardinality(S) = Cardinality(S)
BY DEF Log!Cardinality, Cardinality

LEMMA NewestIsThere ==
  ASSUME NEW n \in Nat, NEW S, S \subseteq 0..n, S # {}
  PROVE  /\ Log!Max(S) \in S
         /\ \A x \in S : x <= Log!Max(S)
<1> DEFINE T == {y \in Nat : n - y \in S}
<1>1. T \subseteq Nat /\ T # {}
  <2>1. PICK x \in S : TRUE
    OBVIOUS
  <2>2. n - x \in T
    BY <2>1
  <2>3. QED
    BY <2>2
<1>2. PICK k \in T : \A j \in T : ~(<<j, k>> \in OpToRel(<, Nat))
  BY <1>1, NatLessThanWellFounded, WFMin, Zenon
<1>3. \A j \in T : k <= j
  <2> SUFFICES ASSUME NEW j \in T
               PROVE  k <= j
    OBVIOUS
  <2>1. j \in Nat /\ k \in Nat
    BY <1>1
  <2>2. ~(j < k)
    BY <1>2, <2>1, Zenon DEF OpToRel
  <2> QED
    BY <2>1, <2>2
<1>4. PICK m \in S : m = n - k
  BY <1>2
<1>5. ASSUME NEW x \in S PROVE m >= x
  <2>1. x \in Nat /\ k \in Nat /\ n - (n - x) = x /\ n - x \in Nat
    BY <1>1
  <2>2. n - x \in T
    BY <2>1
  <2>3. k <= n - x
    BY <1>3, <2>2
  <2>4. QED
    BY <1>4, <2>1, <2>3
<1>6. QED
  BY <1>5 DEF Log!Max

LEMMA FewRows ==
  ASSUME NEW n \in Nat, NEW S, S \subseteq 0..n
  PROVE  IsFiniteSet(S) /\ Cardinality(S) \in Nat
<1>1. IsFiniteSet(0..n)
  BY FS_Interval
<1>2. IsFiniteSet(S)
  BY <1>1, FS_Subset
<1>3. QED
  BY <1>2, FS_CardinalityType

Newer(B, t) == {s \in B : s > t}

\* What trimming keeps of a bucket is no more than the limit, and newer than the rest.
LEMMA KeptIsNewest ==
  ASSUME NEW n \in Nat, NEW B, B \subseteq 0..n, limit \in Nat
  PROVE  /\ Log!Kept(B) \subseteq B
         /\ Cardinality(Log!Kept(B)) <= limit
         /\ \A t \in Log!Kept(B), s \in B \ Log!Kept(B) : s < t
<1> DEFINE K == Log!Kept(B)
<1>0. K = {t \in B : Cardinality(Newer(B, t)) < limit}
  BY LogCounts DEF Log!Kept, Newer
<1> HIDE DEF K
<1>1. K \subseteq B /\ \A t \in B : Newer(B, t) \subseteq 0..n
  BY <1>0 DEF Newer
<1>i. \A x \in B : x \in Nat
  OBVIOUS
<1>2. ASSUME NEW t \in K, NEW s \in B \ K PROVE s < t
  <2> SUFFICES ASSUME ~(s < t)
               PROVE  FALSE
    OBVIOUS
  <2>0. s \in Nat /\ t \in Nat /\ s >= t
    BY <1>1, <1>i
  <2>1. Newer(B, s) \subseteq Newer(B, t)
    <3> SUFFICES ASSUME NEW x \in B, x > s
                 PROVE  x > t
      BY DEF Newer
    <3>1. x \in Nat
      BY <1>i
    <3>2. QED
      BY <2>0, <3>1
  <2>2. Cardinality(Newer(B, s)) <= Cardinality(Newer(B, t))
    BY <1>1, <2>1, FewRows, FS_Subset
  <2>3. Cardinality(Newer(B, s)) \in Nat /\ Cardinality(Newer(B, t)) \in Nat
    BY <1>1, FewRows
  <2>4. Cardinality(Newer(B, t)) < limit /\ ~(Cardinality(Newer(B, s)) < limit)
    BY <1>0
  <2>5. QED
    BY <2>2, <2>3, <2>4
<1>3. Cardinality(K) <= limit
  <2>1. CASE K = {}
    BY <2>1, FS_EmptySet
  <2>2. CASE K # {}
    <3>1. K \subseteq Nat
      BY <1>1, <1>i
    <3>2. PICK m \in K : \A j \in K : ~(<<j, m>> \in OpToRel(<, Nat))
      BY <2>2, <3>1, NatLessThanWellFounded, WFMin, Zenon
    <3>3. \A j \in K : m <= j
      <4> SUFFICES ASSUME NEW j \in K
                   PROVE  m <= j
        OBVIOUS
      <4>1. j \in Nat /\ m \in Nat
        BY <3>1
      <4>2. ~(j < m)
        BY <3>2, <4>1, Zenon DEF OpToRel
      <4> QED
        BY <4>1, <4>2
    <3>4. K \ {m} \subseteq Newer(B, m)
      <4> SUFFICES ASSUME NEW x \in K, x # m
                   PROVE  x \in Newer(B, m)
        OBVIOUS
      <4>1. x \in B /\ x \in Nat /\ m \in Nat /\ m <= x
        BY <1>1, <3>1, <3>3
      <4>2. QED
        BY <4>1 DEF Newer
    <3>5. IsFiniteSet(Newer(B, m)) /\ Cardinality(Newer(B, m)) \in Nat /\ IsFiniteSet(K)
            /\ Cardinality(K) \in Nat
      BY <1>1, FewRows
    <3>6. Cardinality(K \ {m}) <= Cardinality(Newer(B, m))
      BY <3>4, <3>5, FS_Subset
    <3>7. Cardinality(K \ {m}) = Cardinality(K) - 1
      BY <3>5, FS_RemoveElement
    <3>8. Cardinality(Newer(B, m)) < limit
      BY <1>0
    <3>9. QED
      BY <3>5, <3>6, <3>7, <3>8
  <2>3. QED
    BY <2>1, <2>2
<1>4. QED
  BY <1>1, <1>2, <1>3 DEF K

-----------------------------------------------------------------------------
LEMMA GuardRests ==
  ASSUME GuardKnown, UNCHANGED <<list, guard, changing, mixed>>
  PROVE  GuardKnown'
BY DEF GuardKnown, Log!Listed

LEMMA RowsRest ==
  ASSUME RowsBounded, UNCHANGED <<rows, cut, owed, appends, time>>
  PROVE  RowsBounded'
BY DEF RowsBounded

LEMMA LogStarts ==
  ASSUME Log!Init
  PROVE  LogInv
<1>1. LogTypes
  <2>1. /\ logPart \in {"list", "log"} /\ MaxChanges[logPart] \in Nat
        /\ changes \in 0..MaxChanges[logPart] /\ restarts \in 0..MaxRestarts
    BY LogConstants DEF Log!Init
  <2>2. list \in [Ids -> Log!Entry \cup {None}] /\ guard \in SUBSET Log!Entry
    BY DEF Log!Init
  <2>3. queue \in Seq(LogRules) /\ Len(queue) <= Queued /\ \A i \in DOMAIN queue : queue[i] \in LogRules
    BY LogConstants DEF Log!Init
  <2>4. rows \in [Log!LogUsers -> SUBSET (1..time)] /\ appends \in Nat /\ limit \in LogLimits
    BY DEF Log!Init
  <2>5. changing \in [Requests -> {<<>>, <<"stored">>} \cup ({"read"} \X SUBSET Log!Entry)]
    BY DEF Log!Init
  <2>6. /\ cut \in [Owners -> Nat] /\ owed \in [restarts : Nat, limit : Nat]
        /\ time \in Nat /\ mixed \in BOOLEAN
    BY DEF Log!Init, Owners
  <2>7. QED
    BY <2>1, <2>2, <2>3, <2>4, <2>5, <2>6 DEF LogTypes, Log!TypeOK
<1>2. GuardKnown
  BY DEF Log!Init, GuardKnown, Log!Listed
<1>3. RowsBounded
  <2>1. \A u \in Owners : rows[u] = {} /\ cut[u] = 0
    BY DEF Log!Init, Owners
  <2>2. 0 % TrimEvery = 0 /\ 0 * (TrimEvery - 1) = 0
    BY LogConstants
  <2>3. Cardinality({}) = 0
    BY FS_EmptySet
  <2>4. MostRows(owed.limit, owed.restarts, appends % TrimEvery) = 0
    BY <2>2 DEF Log!Init, MostRows
  <2>5. time = 0
    BY DEF Log!Init
  <2>6. QED
    <3>1. ASSUME NEW u \in Owners
          PROVE  /\ cut[u] <= time
                 /\ \A t \in rows[u] : cut[u] < t
                 /\ Cardinality(rows[u]) <= MostRows(owed.limit, owed.restarts, appends % TrimEvery)
      <4>1. cut[u] <= time /\ \A t \in rows[u] : cut[u] < t
        BY <2>1, <2>5
      <4>2. Cardinality(rows[u]) = 0
        BY <2>1, <2>3
      <4>3. QED
        BY <2>4, <4>1, <4>2
    <3>2. \A u, v \in Owners : u # v => rows[u] \cap rows[v] = {}
      BY <2>1
    <3>3. QED
      BY <3>1, <3>2 DEF RowsBounded
<1>4. QED
  BY <1>1, <1>2, <1>3 DEF LogInv

LEMMA StoresStep ==
  ASSUME LogInv, NEW q \in Requests, NEW i \in Ids, NEW e \in ListEntries \cup {None},
         Log!Stores(q, i, e)
  PROVE  LogInv'
<1>1. LogTypes'
  <2>1. list' \in [Ids -> Log!Entry \cup {None}]
    BY LogConstants DEF LogInv, LogTypes, Log!TypeOK, Log!Stores
  <2>2. changes' \in 0..MaxChanges[logPart]
    <3>1. MaxChanges[logPart] \in Nat
      BY LogConstants DEF LogInv, LogTypes, Log!TypeOK
    <3>2. QED
      BY <3>1 DEF LogInv, LogTypes, Log!TypeOK, Log!Stores
  <2>3. mixed' \in BOOLEAN
    BY DEF Log!Stores
  <2>4. changing' \in [Requests -> {<<>>, <<"stored">>} \cup ({"read"} \X SUBSET Log!Entry)]
    BY DEF LogInv, LogTypes, Log!Stores
  <2>5. UNCHANGED <<logPart, guard, queue, rows, appends, limit, time, cut, owed, restarts>>
    BY DEF Log!Stores, Log!logVars
  <2>6. QED
    BY <2>1, <2>2, <2>3, <2>4, <2>5 DEF LogInv, LogTypes, Log!TypeOK
<1>2. GuardKnown'
  <2> SUFFICES ASSUME ~mixed'
               PROVE  /\ (\A p \in Requests : changing'[p] = <<>>) => guard' = Log!Listed'
                      /\ \A p, r \in Requests : changing'[p] # <<>> /\ changing'[r] # <<>> => p = r
                      /\ \A p \in Requests : Len(changing'[p]) = 2 => changing'[p][2] = Log!Listed'
    BY DEF GuardKnown
  <2>1. \A p \in Requests : changing[p] = <<>>
    BY DEF Log!Stores, Log!Changing, LogInv, LogTypes
  <2>2. changing'[q] = <<"stored">> /\ \A p \in Requests : p # q => changing'[p] = <<>>
    BY <2>1 DEF Log!Stores, LogInv, LogTypes
  <2>3. <<"stored">> # <<>> /\ Len(<<"stored">>) # 2 /\ Len(<<>>) # 2
    OBVIOUS
  <2>4. QED
    BY <2>2, <2>3
<1>3. RowsBounded'
  BY RowsRest DEF LogInv, Log!Stores, Log!logVars
<1>4. QED
  BY <1>1, <1>2, <1>3 DEF LogInv

LEMMA ReadListStep ==
  ASSUME LogInv, NEW q \in Requests, Log!ReadList(q)
  PROVE  LogInv'
<1>1. Log!Listed \in SUBSET Log!Entry
  BY DEF LogInv, LogTypes, Log!TypeOK, Log!Listed
<1>2. /\ changing' = [changing EXCEPT ![q] = <<"read", Log!Listed>>]
      /\ UNCHANGED <<logPart, list, guard, mixed, queue, rows, appends, limit, time, cut, owed,
                     changes, restarts>>
  BY DEF Log!ReadList, Log!logVars
<1>3. changing' \in [Requests -> {<<>>, <<"stored">>} \cup ({"read"} \X SUBSET Log!Entry)]
  BY <1>1, <1>2 DEF LogInv, LogTypes
<1>4. LogTypes'
  BY <1>2, <1>3 DEF LogInv, LogTypes, Log!TypeOK
<1>5. GuardKnown'
  <2> SUFFICES ASSUME ~mixed'
               PROVE  /\ (\A p \in Requests : changing'[p] = <<>>) => guard' = Log!Listed'
                      /\ \A p, r \in Requests : changing'[p] # <<>> /\ changing'[r] # <<>> => p = r
                      /\ \A p \in Requests : Len(changing'[p]) = 2 => changing'[p][2] = Log!Listed'
    BY DEF GuardKnown
  <2>1. changing[q] # <<>> /\ Log!Listed' = Log!Listed
    BY <1>2 DEF Log!ReadList, Log!Listed
  <2>2. \A p \in Requests : p # q => changing[p] = <<>>
    BY <1>2, <2>1 DEF LogInv, GuardKnown
  <2>3. changing'[q] = <<"read", Log!Listed>> /\ \A p \in Requests : p # q => changing'[p] = <<>>
    BY <1>2, <2>2 DEF LogInv, LogTypes
  <2>4. /\ <<"read", Log!Listed>> # <<>> /\ <<"read", Log!Listed>>[2] = Log!Listed
        /\ Len(<<>>) # 2
    OBVIOUS
  <2>5. QED
    BY <2>1, <2>3, <2>4
<1>6. RowsBounded'
  BY <1>2, RowsRest DEF LogInv
<1>7. QED
  BY <1>4, <1>5, <1>6 DEF LogInv

LEMMA ReloadStep ==
  ASSUME LogInv, NEW q \in Requests, Log!Reload(q)
  PROVE  LogInv'
<1>1. /\ Len(changing[q]) = 2 /\ guard' = changing[q][2]
      /\ changing' = [changing EXCEPT ![q] = <<>>]
      /\ mixed' = (mixed /\ (Log!Changing # {q} \/ changing[q][2] # Log!Listed))
      /\ UNCHANGED <<logPart, list, queue, rows, appends, limit, time, cut, owed, changes, restarts>>
  BY DEF Log!Reload, Log!logVars
<1>2. changing[q] \in {"read"} \X SUBSET Log!Entry
  <2>1. changing[q] \in {<<>>, <<"stored">>} \cup ({"read"} \X SUBSET Log!Entry)
    BY DEF LogInv, LogTypes
  <2>2. Len(<<>>) # 2 /\ Len(<<"stored">>) # 2
    OBVIOUS
  <2>3. QED
    BY <1>1, <2>1, <2>2
<1>3. LogTypes'
  <2>1. guard' \in SUBSET Log!Entry
    BY <1>1, <1>2
  <2>2. changing' \in [Requests -> {<<>>, <<"stored">>} \cup ({"read"} \X SUBSET Log!Entry)]
    BY <1>1 DEF LogInv, LogTypes
  <2>3. mixed' \in BOOLEAN
    BY <1>1 DEF LogInv, LogTypes
  <2>4. QED
    BY <1>1, <2>1, <2>2, <2>3 DEF LogInv, LogTypes, Log!TypeOK
<1>4. GuardKnown'
  <2> SUFFICES ASSUME ~mixed'
               PROVE  /\ (\A p \in Requests : changing'[p] = <<>>) => guard' = Log!Listed'
                      /\ \A p, r \in Requests : changing'[p] # <<>> /\ changing'[r] # <<>> => p = r
                      /\ \A p \in Requests : Len(changing'[p]) = 2 => changing'[p][2] = Log!Listed'
    BY DEF GuardKnown
  <2>1. Log!Listed' = Log!Listed /\ Len(<<>>) # 2 /\ changing[q] # <<>>
    BY <1>1 DEF Log!Listed
  <2>2. changing[q][2] = Log!Listed /\ \A p \in Requests : p # q => changing[p] = <<>>
    <3>1. CASE mixed
      <4>1. Log!Changing = {q} /\ changing[q][2] = Log!Listed
        BY <1>1, <3>1
      <4>2. QED
        BY <4>1 DEF Log!Changing
    <3>2. CASE ~mixed
      BY <1>1, <2>1, <3>2 DEF LogInv, GuardKnown
    <3>3. QED
      BY <3>1, <3>2
  <2>3. \A p \in Requests : changing'[p] = <<>>
    BY <1>1, <2>2 DEF LogInv, LogTypes
  <2>4. QED
    BY <1>1, <2>1, <2>2, <2>3
<1>5. RowsBounded'
  BY <1>1, RowsRest DEF LogInv
<1>6. QED
  BY <1>3, <1>4, <1>5 DEF LogInv

LEMMA EventStep ==
  ASSUME LogInv, NEW r \in LogRules, Log!Log(r)
  PROVE  LogInv'
<1>1. /\ queue' = IF Len(queue) < Queued THEN Append(queue, r) ELSE queue
      /\ UNCHANGED <<logPart, list, guard, changing, mixed, rows, appends, limit, time, cut, owed,
                     changes, restarts>>
  BY DEF Log!Log, Log!listVars
<1>2. queue \in Seq(LogRules) /\ Len(queue) <= Queued
  BY DEF LogInv, LogTypes, Log!TypeOK
<1>3. queue' \in Seq(LogRules) /\ Len(queue') <= Queued
  <2>1. CASE Len(queue) < Queued
    <3>1. queue' = Append(queue, r)
      BY <1>1, <2>1
    <3>2. Append(queue, r) \in Seq(LogRules) /\ Len(Append(queue, r)) = Len(queue) + 1
      BY <1>2
    <3>3. Len(queue) \in Nat
      BY <1>2
    <3>4. QED
      BY <2>1, <3>1, <3>2, <3>3, LogConstants
  <2>2. CASE ~(Len(queue) < Queued)
    BY <1>1, <1>2, <2>2
  <2>3. QED
    BY <2>1, <2>2
<1>4. \A i \in DOMAIN queue' : queue'[i] \in LogRules
  BY <1>3
<1>5. LogTypes'
  BY <1>1, <1>3, <1>4 DEF LogInv, LogTypes, Log!TypeOK
<1>6. QED
  BY <1>1, <1>5, GuardRests, RowsRest DEF LogInv

LEMMA RestOf ==
  ASSUME NEW w \in Nat \ {0}, NEW b \in Nat, NEW q \in Int, NEW r \in 0..w - 1, b = w * q + r
  PROVE  b % w = r
<1>1. PICK p \in Int, s \in 0..w - 1 : b = w * p + s /\ b % w = s
  <2>1. b = w * (b \div w) + (b % w) /\ b \div w \in Int /\ b % w \in 0..w - 1
    OBVIOUS
  <2>2. QED
    BY <2>1
<1>2. w * (q - p) = s - r
  BY <1>1
<1>3. s - r < w /\ s - r > -w
  BY <1>1
<1>4. ~(q - p >= 1)
  <2> SUFFICES ASSUME q - p >= 1
               PROVE  FALSE
    OBVIOUS
  <2>1. w * (q - p) >= w
    BY SMTT(30)
  <2>2. QED
    BY <1>1, <1>2, <1>3, <2>1
<1>5. ~(q - p <= -1)
  <2> SUFFICES ASSUME q - p <= -1
               PROVE  FALSE
    OBVIOUS
  <2>1. w * (q - p) <= -w
    BY SMTT(30)
  <2>2. QED
    BY <1>1, <1>2, <1>3, <2>1
<1>6. q = p
  BY <1>4, <1>5
<1>7. QED
  BY <1>1, <1>6

\* What lies between two trims: one more event stored is counted, or brings the next trim.
LEMMA NextAppend ==
  ASSUME NEW a \in Nat
  PROVE  /\ a % TrimEvery \in Nat /\ a % TrimEvery <= TrimEvery - 1
         /\ (a + 1) % TrimEvery # 0 => (a + 1) % TrimEvery = (a % TrimEvery) + 1
<1> DEFINE T == TrimEvery
           q == a \div T
           m == a % T
<1>0. T \in Nat /\ T > 0
  BY LogConstants
<1> HIDE DEF T
<1>1. q \in Int /\ m \in 0..T - 1 /\ a = T * q + m
  BY <1>0
<1>2. CASE m + 1 = T
  <2>1. a + 1 = T * (q + 1)
    BY <1>0, <1>1, <1>2
  <2>2. (a + 1) % T = 0
    <3>1. a + 1 = T * (q + 1) + 0 /\ a + 1 \in Nat /\ q + 1 \in Int /\ 0 \in 0..T - 1 /\ T \in Nat \ {0}
      BY <1>0, <1>1, <2>1
    <3> HIDE DEF q, m
    <3>2. QED
      BY <3>1, RestOf
  <2>3. QED
    BY <1>0, <1>1, <2>2 DEF T
<1>3. CASE m + 1 < T
  <2>1. a + 1 = T * q + (m + 1) /\ m + 1 \in 0..T - 1
    BY <1>0, <1>1, <1>3
  <2>2. (a + 1) % T = m + 1
    <3>1. a + 1 \in Nat /\ T \in Nat \ {0}
      BY <1>0
    <3> HIDE DEF q, m
    <3>2. QED
      BY <1>1, <2>1, <3>1, RestOf
  <2>3. QED
    BY <1>0, <1>1, <2>2 DEF T
<1>4. QED
  BY <1>0, <1>1, <1>2, <1>3

LEMMA RoomGrows ==
  ASSUME NEW l \in Nat, NEW r \in Nat
  PROVE  /\ MostRows(l, 0, 0) = l
         /\ MostRows(l, r + 1, 0) = MostRows(l, r, TrimEvery - 1)
         /\ \A m \in Nat : /\ MostRows(l, r, m) \in Nat
                           /\ MostRows(l, r, m + 1) = MostRows(l, r, m) + 1
                           /\ m <= TrimEvery - 1 => MostRows(l, r, m) <= MostRows(l, r, TrimEvery - 1)
<1>1. PICK k \in Nat : k = TrimEvery - 1
  BY LogConstants
<1>2. 0 * k = 0 /\ (r + 1) * k = r * k + k /\ r * k \in Nat
  BY <1>1
<1>3. PICK p \in Nat : p = r * k
  BY <1>2
<1>4. MostRows(l, 0, 0) = l /\ MostRows(l, r + 1, 0) = l + (p + k) + 0
  BY <1>1, <1>2, <1>3 DEF MostRows
<1>5. \A m \in Nat : MostRows(l, r, m) = l + p + m
  BY <1>1, <1>3 DEF MostRows
<1>6. QED
  BY <1>1, <1>4, <1>5

\* The log after a row of u: before a trim ...
LEMMA RowAdded ==
  ASSUME LogTypes, RowsBounded, NEW u \in Owners, NEW b, b = Log!AppendConnLog(u)
  PROVE  /\ b \in [Owners -> SUBSET (1..time + 1)]
         /\ \A v \in Owners : v # u => b[v] = rows[v]
         /\ b[u] = rows[u] \cup {time + 1}
         /\ \A v, w \in Owners : v # w => b[v] \cap b[w] = {}
         /\ \A v \in Owners : \A t \in b[v] : cut[v] < t
         /\ \A v \in Owners : Cardinality(b[v]) <= Cardinality(rows[v]) + 1
<1>1. rows \in [Owners -> SUBSET (1..time)] /\ time \in Nat
  BY DEF LogTypes, Log!TypeOK, Owners
<1>2. b = [rows EXCEPT ![u] = @ \cup {time + 1}]
  BY DEF Log!AppendConnLog
<1>3. b[u] = rows[u] \cup {time + 1} /\ \A v \in Owners : v # u => b[v] = rows[v]
  BY <1>1, <1>2
<1>4. \A v \in Owners : rows[v] \subseteq 1..time /\ 1..time \subseteq 1..time + 1 /\ time + 1 \notin rows[v]
  BY <1>1
<1>5. b \in [Owners -> SUBSET (1..time + 1)]
  <2>1. \A v \in Owners : b[v] \subseteq 1..time + 1
    <3> SUFFICES ASSUME NEW v \in Owners
                 PROVE  b[v] \subseteq 1..time + 1
      OBVIOUS
    <3>1. time + 1 \in 1..time + 1
      BY <1>1
    <3>2. CASE v = u
      BY <1>3, <1>4, <3>1, <3>2
    <3>3. CASE v # u
      BY <1>3, <1>4, <3>3
    <3>4. QED
      BY <3>2, <3>3
  <2>2. QED
    BY <1>1, <1>2, <2>1
<1>6. \A v, w \in Owners : v # w => b[v] \cap b[w] = {}
  BY <1>3, <1>4 DEF RowsBounded
<1>7. ASSUME NEW v \in Owners, NEW t \in b[v] PROVE cut[v] < t
  <2>1. cut[v] \in Nat /\ cut[v] <= time
    BY DEF LogTypes, RowsBounded
  <2>2. CASE t \in rows[v]
    BY <2>2 DEF RowsBounded
  <2>3. CASE t = time + 1
    BY <1>1, <2>1, <2>3
  <2>4. QED
    BY <1>3, <2>2, <2>3
<1>8. ASSUME NEW v \in Owners PROVE Cardinality(b[v]) <= Cardinality(rows[v]) + 1
  <2>1. IsFiniteSet(rows[v]) /\ Cardinality(rows[v]) \in Nat
    <3>1. rows[v] \subseteq 0..time
      BY <1>1
    <3>2. QED
      BY <1>1, <3>1, FewRows
  <2>2. CASE v = u
    <3>1. Cardinality(rows[u] \cup {time + 1}) = Cardinality(rows[u]) + 1
      BY <1>4, <2>1, <2>2, FS_AddElement
    <3>2. QED
      BY <1>3, <2>1, <2>2, <3>1
  <2>3. CASE v # u
    BY <1>3, <2>1, <2>3
  <2>4. QED
    BY <2>2, <2>3
<1>9. QED
  BY <1>3, <1>5, <1>6, <1>7, <1>8

LEMMA StoreStep ==
  ASSUME LogInv, Log!Store
  PROVE  LogInv'
<1>1. /\ queue # <<>> /\ queue' = Tail(queue)
      /\ UNCHANGED <<logPart, list, guard, changing, mixed, limit, changes, restarts>>
  BY DEF Log!Store, Log!listVars
<1>2. queue \in Seq(LogRules) /\ Len(queue) <= Queued
  BY DEF LogInv, LogTypes, Log!TypeOK
<1>3. /\ queue' \in Seq(LogRules) /\ Len(queue') <= Queued
      /\ \A i \in DOMAIN queue' : queue'[i] \in LogRules
  <2>1. Tail(queue) \in Seq(LogRules) /\ Len(Tail(queue)) = Len(queue) - 1 /\ Len(queue) \in Nat
    BY <1>1, <1>2
  <2>2. QED
    BY <1>1, <1>2, <2>1, LogConstants
<1>4. GuardKnown'
  BY <1>1, GuardRests DEF LogInv
<1> DEFINE u == Owner[Head(queue)]
<1>5. CASE UNCHANGED <<rows, appends, time, cut, owed>>
  <2>1. LogTypes'
    BY <1>1, <1>3, <1>5 DEF LogInv, LogTypes, Log!TypeOK
  <2>2. QED
    BY <1>4, <1>5, <2>1, RowsRest DEF LogInv
<1>6. CASE u # Nobody /\ ~UNCHANGED <<rows, appends, time, cut, owed>>
  <2>1. u \in Owners
    <3>1. Head(queue) \in LogRules
      BY <1>1, <1>2
    <3>2. QED
      BY <1>6, <3>1 DEF Owners, Log!LogUsers
  <2> DEFINE b == Log!AppendConnLog(u)
             c == [v \in Owners |-> Log!Kept(b[v])]
  <2>2. /\ time' = time + 1 /\ appends' = appends + 1
        /\ IF Log!TrimDue(appends + 1)
           THEN /\ rows' = c
                /\ cut' = [v \in Owners |-> Log!Max({cut[v]} \cup (b[v] \ c[v]))]
                /\ owed' = [restarts |-> 0, limit |-> limit]
           ELSE rows' = b /\ UNCHANGED <<cut, owed>>
    BY <1>6 DEF Log!Store, Owners
  <2> HIDE DEF b, c, u
  <2>3. /\ b \in [Owners -> SUBSET (1..time + 1)]
        /\ \A v, w \in Owners : v # w => b[v] \cap b[w] = {}
        /\ \A v \in Owners : \A t \in b[v] : cut[v] < t
        /\ \A v \in Owners : Cardinality(b[v]) <= Cardinality(rows[v]) + 1
    <3>1. b = Log!AppendConnLog(u)
      BY DEF b
    <3>2. QED
      BY <2>1, <3>1, RowAdded DEF LogInv
  <2>4. /\ time \in Nat /\ time' \in Nat /\ appends \in Nat /\ appends' \in Nat
        /\ limit \in Nat /\ limit \in LogLimits /\ TrimEvery \in Nat /\ TrimEvery > 0
        /\ cut \in [Owners -> Nat] /\ owed \in [restarts : Nat, limit : Nat]
        /\ owed.restarts \in Nat /\ owed.limit \in Nat
    BY <2>2, LogConstants DEF LogInv, LogTypes, Log!TypeOK
  <2>5. \A v \in Owners : /\ IsFiniteSet(b[v]) /\ Cardinality(b[v]) \in Nat
                          /\ IsFiniteSet(rows[v]) /\ Cardinality(rows[v]) \in Nat
                          /\ cut[v] <= time /\ b[v] \subseteq 0..time + 1
    <3> SUFFICES ASSUME NEW v \in Owners
                 PROVE  /\ IsFiniteSet(b[v]) /\ Cardinality(b[v]) \in Nat
                        /\ IsFiniteSet(rows[v]) /\ Cardinality(rows[v]) \in Nat
                        /\ cut[v] <= time /\ b[v] \subseteq 0..time + 1
      OBVIOUS
    <3>1. b[v] \subseteq 0..time + 1 /\ time + 1 \in Nat
      BY <2>3, <2>4
    <3>2. rows[v] \subseteq 0..time
      BY <2>4 DEF LogInv, LogTypes, Log!TypeOK, Owners
    <3>3. QED
      BY <2>4, <3>1, <3>2, FewRows DEF LogInv, RowsBounded
  <2>6. CASE ~Log!TrimDue(appends + 1)
    <3>1. rows' = b /\ UNCHANGED <<cut, owed>>
      BY <2>2, <2>6
    <3>2. LogTypes'
      BY <1>1, <1>3, <2>2, <2>3, <2>4, <3>1 DEF LogInv, LogTypes, Log!TypeOK, Owners
    <3>3. (appends + 1) % TrimEvery = (appends % TrimEvery) + 1 /\ appends % TrimEvery \in Nat
      BY <2>4, <2>6, NextAppend DEF Log!TrimDue
    <3>4. ASSUME NEW v \in Owners
          PROVE  Cardinality(b[v]) <= MostRows(owed.limit, owed.restarts, (appends + 1) % TrimEvery)
      <4>1. Cardinality(rows[v]) <= MostRows(owed.limit, owed.restarts, appends % TrimEvery)
        BY DEF LogInv, RowsBounded
      <4>2. /\ MostRows(owed.limit, owed.restarts, appends % TrimEvery) \in Nat
            /\ MostRows(owed.limit, owed.restarts, (appends % TrimEvery) + 1)
                 = MostRows(owed.limit, owed.restarts, appends % TrimEvery) + 1
        <5>1. PICK l \in Nat, r \in Nat, m \in Nat :
                l = owed.limit /\ r = owed.restarts /\ m = appends % TrimEvery
          BY <2>4, <3>3
        <5>2. MostRows(l, r, m) \in Nat /\ MostRows(l, r, m + 1) = MostRows(l, r, m) + 1
          BY RoomGrows
        <5>3. QED
          BY <5>1, <5>2
      <4>3. QED
        BY <2>3, <2>5, <3>3, <4>1, <4>2
    <3>5. ASSUME NEW v \in Owners PROVE cut'[v] <= time'
      BY <2>2, <2>4, <2>5, <3>1
    <3>6. RowsBounded'
      BY <2>2, <2>3, <3>1, <3>4, <3>5 DEF RowsBounded
    <3>7. QED
      BY <1>4, <3>2, <3>6 DEF LogInv
  <2>7. CASE Log!TrimDue(appends + 1)
    <3>1. /\ rows' = c /\ owed' = [restarts |-> 0, limit |-> limit]
          /\ cut' = [v \in Owners |-> Log!Max({cut[v]} \cup (b[v] \ c[v]))]
      BY <2>2, <2>7
    <3>2. ASSUME NEW v \in Owners
          PROVE  /\ c[v] = Log!Kept(b[v]) /\ c[v] \subseteq b[v] /\ Cardinality(c[v]) <= limit
                 /\ \A t \in c[v], s \in b[v] \ c[v] : s < t
      <4>1. c[v] = Log!Kept(b[v])
        BY DEF c
      <4>2. time + 1 \in Nat /\ b[v] \subseteq 0..time + 1
        BY <2>4, <2>5
      <4>3. QED
        BY <2>4, <4>1, <4>2, KeptIsNewest
    <3>3. ASSUME NEW v \in Owners
          PROVE  cut'[v] \in Nat /\ cut'[v] <= time' /\ \A t \in c[v] : cut'[v] < t
      <4> DEFINE M == {cut[v]} \cup (b[v] \ c[v])
      <4>1. M \subseteq 0..time + 1 /\ M # {} /\ time + 1 \in Nat
        BY <2>4, <2>5
      <4>2. Log!Max(M) \in M
        BY <4>1, NewestIsThere
      <4>3. cut'[v] = Log!Max(M)
        BY <3>1
      <4>4. \A t \in c[v] : t \in 0..time + 1 /\ cut[v] < t
        BY <2>3, <2>5, <3>2
      <4>5. \A t \in c[v] : \A m \in M : m < t
        BY <3>2, <4>4
      <4>6. Log!Max(M) \in 0..time + 1 /\ \A t \in c[v] : Log!Max(M) < t
        BY <4>1, <4>2, <4>5
      <4>7. Log!Max(M) \in Nat /\ Log!Max(M) <= time + 1
        BY <2>4, <4>6
      <4>8. QED
        BY <2>2, <4>3, <4>6, <4>7
    <3>4. LogTypes'
      <4>1. rows' \in [Owners -> SUBSET (1..time + 1)]
        BY <2>3, <3>1, <3>2 DEF c
      <4>2. cut' \in [Owners -> Nat]
        BY <3>1, <3>3
      <4>3. owed' \in [restarts : Nat, limit : Nat]
        BY <2>4, <3>1
      <4>4. QED
        BY <1>1, <1>3, <2>2, <2>4, <4>1, <4>2, <4>3 DEF LogInv, LogTypes, Log!TypeOK, Owners
    <3>5. ASSUME NEW v \in Owners
          PROVE  Cardinality(rows'[v]) <= MostRows(owed'.limit, owed'.restarts, appends' % TrimEvery)
      <4>1. appends' % TrimEvery = 0
        BY <2>2, <2>7 DEF Log!TrimDue
      <4>2. owed'.limit = limit /\ owed'.restarts = 0
        BY <3>1
      <4>3. Cardinality(rows'[v]) <= limit
        BY <3>1, <3>2
      <4>4. MostRows(limit, 0, 0) = limit
        BY <2>4, RoomGrows
      <4>5. QED
        BY <4>1, <4>2, <4>3, <4>4
    <3>6. \A v, w \in Owners : v # w => rows'[v] \cap rows'[w] = {}
      BY <2>3, <3>1, <3>2
    <3>7. RowsBounded'
      BY <3>1, <3>3, <3>5, <3>6 DEF RowsBounded
    <3>8. QED
      BY <1>4, <3>4, <3>7 DEF LogInv
  <2>8. QED
    BY <2>6, <2>7
<1>7. QED
  BY <1>5, <1>6 DEF Log!Store

\* Rows that are deleted leave the bounds as they are.
LEMMA RowsFewer ==
  ASSUME LogInv, NEW b \in [Owners -> SUBSET (1..time)], \A v \in Owners : b[v] \subseteq rows[v],
         rows' = b, logPart = "log", changes < MaxChanges[logPart], changes' = changes + 1,
         UNCHANGED <<logPart, list, guard, changing, mixed, queue, appends, limit, time, cut, owed,
                     restarts>>
  PROVE  LogInv'
<1>1. LogTypes'
  <2>1. MaxChanges[logPart] \in Nat
    BY LogConstants
  <2>2. changes' \in 0..MaxChanges[logPart]
    BY <2>1 DEF LogInv, LogTypes, Log!TypeOK
  <2>3. QED
    BY <2>2 DEF LogInv, LogTypes, Log!TypeOK, Owners
<1>2. ASSUME NEW v \in Owners
      PROVE  Cardinality(b[v]) <= MostRows(owed.limit, owed.restarts, appends % TrimEvery)
  <2>1. rows[v] \subseteq 0..time /\ time \in Nat
    BY DEF LogInv, LogTypes, Log!TypeOK, Owners
  <2>2. IsFiniteSet(rows[v]) /\ Cardinality(rows[v]) \in Nat
    BY <2>1, FewRows
  <2>3. Cardinality(b[v]) <= Cardinality(rows[v]) /\ Cardinality(b[v]) \in Nat
    BY <2>2, FS_Subset, FS_CardinalityType
  <2>4. MostRows(owed.limit, owed.restarts, appends % TrimEvery) \in Nat
    <3>1. owed.limit \in Nat /\ owed.restarts \in Nat /\ appends % TrimEvery \in Nat
      BY NextAppend DEF LogInv, LogTypes, Log!TypeOK
    <3>2. \A m \in Nat : MostRows(owed.limit, owed.restarts, m) \in Nat
      BY <3>1, RoomGrows
    <3>3. QED
      BY <3>1, <3>2
  <2>5. Cardinality(rows[v]) <= MostRows(owed.limit, owed.restarts, appends % TrimEvery)
    BY DEF LogInv, RowsBounded
  <2>6. QED
    BY <2>2, <2>3, <2>4, <2>5
<1>3. RowsBounded'
  BY <1>2 DEF LogInv, RowsBounded
<1>4. QED
  BY <1>1, <1>3, GuardRests DEF LogInv

LEMMA DeleteLogsStep ==
  ASSUME LogInv, NEW who \in Owners \cup {Nobody}, Log!DeleteLogs(who)
  PROVE  LogInv'
<1>1. PICK u \in Log!Scope(who) : \E t \in rows[u] : rows' = [rows EXCEPT ![u] = @ \ {t}]
  BY DEF Log!DeleteLogs
<1>2. rows' \in [Owners -> SUBSET (1..time)] /\ \A v \in Owners : rows'[v] \subseteq rows[v]
  <2>1. PICK t : rows' = [rows EXCEPT ![u] = rows[u] \ {t}]
    BY <1>1
  <2>2. rows \in [Owners -> SUBSET (1..time)]
    BY DEF LogInv, LogTypes, Log!TypeOK, Owners
  <2>3. QED
    BY <2>1, <2>2
<1>3. /\ logPart = "log" /\ changes < MaxChanges[logPart] /\ changes' = changes + 1
      /\ UNCHANGED <<logPart, list, guard, changing, mixed, queue, appends, limit, time, cut, owed,
                     restarts>>
  BY DEF Log!DeleteLogs, Log!listVars
<1>4. PICK b : b = rows'
  OBVIOUS
<1>5. QED
  BY <1>2, <1>3, <1>4, RowsFewer

LEMMA ClearLogsStep ==
  ASSUME LogInv, NEW who \in Owners \cup {Nobody}, Log!ClearLogs(who)
  PROVE  LogInv'
<1>1. rows' = [u \in Owners |-> IF u \in Log!Scope(who) THEN {} ELSE rows[u]]
  BY DEF Log!ClearLogs, Owners
<1>2. rows' \in [Owners -> SUBSET (1..time)] /\ \A v \in Owners : rows'[v] \subseteq rows[v]
  BY <1>1 DEF LogInv, LogTypes, Log!TypeOK, Owners
<1>3. /\ logPart = "log" /\ changes < MaxChanges[logPart] /\ changes' = changes + 1
      /\ UNCHANGED <<logPart, list, guard, changing, mixed, queue, appends, limit, time, cut, owed,
                     restarts>>
  BY DEF Log!ClearLogs, Log!listVars
<1>4. PICK b : b = rows'
  OBVIOUS
<1>5. QED
  BY <1>2, <1>3, <1>4, RowsFewer

LEMMA SetLimitStep ==
  ASSUME LogInv, NEW n \in LogLimits, Log!SetLimit(n)
  PROVE  LogInv'
<1>1. /\ logPart = "log" /\ changes < MaxChanges[logPart] /\ changes' = changes + 1 /\ limit' = n
      /\ UNCHANGED <<logPart, list, guard, changing, mixed, queue, rows, appends, time, cut, owed,
                     restarts>>
  BY DEF Log!SetLimit, Log!listVars
<1>2. MaxChanges[logPart] \in Nat
  BY <1>1, LogConstants
<1>3. changes' \in 0..MaxChanges[logPart]
  BY <1>1, <1>2 DEF LogInv, LogTypes, Log!TypeOK
<1>4. LogTypes'
  BY <1>1, <1>3 DEF LogInv, LogTypes, Log!TypeOK
<1>5. QED
  BY <1>1, <1>4, GuardRests, RowsRest DEF LogInv

LEMMA LoggerRestartStep ==
  ASSUME LogInv, Log!Restart
  PROVE  LogInv'
<1>1. /\ restarts < MaxRestarts /\ restarts' = restarts + 1
      /\ guard' = Log!Listed /\ mixed' = FALSE /\ changing' = [q \in Requests |-> <<>>]
      /\ queue' = <<>> /\ appends' = 0
      /\ owed' = [owed EXCEPT !.restarts = @ + 1]
      /\ UNCHANGED <<logPart, list, rows, limit, time, changes, cut>>
  BY DEF Log!Restart
<1>2. Log!Listed \in SUBSET Log!Entry /\ Log!Listed' = Log!Listed
  BY <1>1 DEF LogInv, LogTypes, Log!TypeOK, Log!Listed
<1>3. LogTypes'
  <2>1. restarts' \in 0..MaxRestarts
    BY <1>1, LogConstants DEF LogInv, LogTypes, Log!TypeOK
  <2>2. changing' \in [Requests -> {<<>>, <<"stored">>} \cup ({"read"} \X SUBSET Log!Entry)]
    BY <1>1
  <2>3. owed' \in [restarts : Nat, limit : Nat]
    BY <1>1 DEF LogInv, LogTypes
  <2>4. /\ queue' \in Seq(LogRules) /\ Len(queue') <= Queued
        /\ \A i \in DOMAIN queue' : queue'[i] \in LogRules
    BY <1>1, LogConstants
  <2>5. QED
    BY <1>1, <1>2, <2>1, <2>2, <2>3, <2>4 DEF LogInv, LogTypes, Log!TypeOK
<1>4. GuardKnown'
  <2>1. /\ \A q \in Requests : changing'[q] = <<>>
        /\ guard' = Log!Listed' /\ Len(<<>>) # 2
    BY <1>1, <1>2
  <2>2. QED
    BY <2>1 DEF GuardKnown
<1>5. RowsBounded'
  <2>1. /\ owed.limit \in Nat /\ owed.restarts \in Nat /\ appends % TrimEvery \in Nat
        /\ appends % TrimEvery <= TrimEvery - 1 /\ appends' = 0
        /\ owed'.limit = owed.limit /\ owed'.restarts = owed.restarts + 1
    BY <1>1, NextAppend DEF LogInv, LogTypes, Log!TypeOK
  <2>2. 0 % TrimEvery = 0
    BY LogConstants
  <2>3. MostRows(owed'.limit, owed'.restarts, appends' % TrimEvery)
          = MostRows(owed.limit, owed.restarts, TrimEvery - 1)
    BY <2>1, <2>2, RoomGrows
  <2>4. \A m \in Nat :
          /\ MostRows(owed.limit, owed.restarts, m) \in Nat
          /\ m <= TrimEvery - 1 => MostRows(owed.limit, owed.restarts, m)
                                     <= MostRows(owed.limit, owed.restarts, TrimEvery - 1)
    BY <2>1, RoomGrows
  <2>5. PICK a \in Nat, z \in Nat :
          /\ a = MostRows(owed.limit, owed.restarts, appends % TrimEvery)
          /\ z = MostRows(owed.limit, owed.restarts, TrimEvery - 1) /\ a <= z
    <3>1. TrimEvery - 1 \in Nat
      BY LogConstants
    <3>2. QED
      BY <2>1, <2>4, <3>1
  <2>6. ASSUME NEW u \in Owners PROVE Cardinality(rows[u]) <= z
    <3>1. rows[u] \subseteq 0..time /\ time \in Nat
      BY DEF LogInv, LogTypes, Log!TypeOK, Owners
    <3>2. Cardinality(rows[u]) \in Nat
      BY <3>1, FewRows
    <3>3. Cardinality(rows[u]) <= a
      BY <2>5 DEF LogInv, RowsBounded
    <3>4. QED
      BY <2>5, <3>2, <3>3
  <2>7. QED
    BY <1>1, <2>3, <2>5, <2>6 DEF LogInv, RowsBounded
<1>6. QED
  BY <1>3, <1>4, <1>5 DEF LogInv

LEMMA LogRests ==
  ASSUME LogInv, UNCHANGED logVars
  PROVE  LogInv'
<1>1. UNCHANGED <<logPart, list, guard, changing, mixed, queue, rows, appends, limit, time, changes,
                  restarts, cut, owed>>
  BY DEF logVars
<1>2. LogTypes'
  BY <1>1 DEF LogInv, LogTypes, Log!TypeOK
<1>3. QED
  BY <1>1, <1>2, GuardRests, RowsRest DEF LogInv

LEMMA LogSteps ==
  ASSUME LogInv, Log!Next
  PROVE  LogInv'
<1>1. ASSUME NEW q \in Requests, Log!AddACLEntry(q) PROVE LogInv'
  <2>1. PICK i \in Ids, e \in ListEntries : Log!Stores(q, i, e)
    BY <1>1 DEF Log!AddACLEntry
  <2>2. QED
    BY <2>1, StoresStep
<1>2. ASSUME NEW q \in Requests, Log!DeleteACLEntry(q) PROVE LogInv'
  <2>1. PICK i \in Ids : Log!Stores(q, i, None)
    BY <1>2 DEF Log!DeleteACLEntry
  <2>2. QED
    BY <2>1, StoresStep
<1>3. QED
  BY <1>1, <1>2, ReadListStep, ReloadStep, EventStep, StoreStep, DeleteLogsStep, ClearLogsStep,
     SetLimitStep, LoggerRestartStep DEF Log!Next, Owners

LEMMA GuardIsTheList ==
  ASSUME LogInv
  PROVE  Log!GuardFollowsList
<1> SUFFICES ASSUME Log!Changing = {}, ~mixed, NEW r \in LogRules
             PROVE  LET nets(deny) == {e.net : e \in {e \in Log!Listed :
                                                        e.rule \in {r, Every} /\ e.deny = deny}}
                        opened == IF nets(FALSE) = {} THEN Sources ELSE UNION nets(FALSE)
                    IN {s \in Sources : Log!Allowed(guard, r, s)} = opened \ UNION nets(TRUE)
  BY DEF Log!GuardFollowsList
<1> DEFINE scoped(deny) == {e \in Log!Listed : e.rule \in {r, Every} /\ e.deny = deny}
           nets(deny) == {e.net : e \in scoped(deny)}
           opened == IF nets(FALSE) = {} THEN Sources ELSE UNION nets(FALSE)
<1>1. guard = Log!Listed
  BY DEF LogInv, GuardKnown, Log!Changing
<1>2. \A e \in Log!Listed : e.net \subseteq Sources
  BY DEF LogInv, LogTypes, Log!TypeOK, Log!Listed, Log!Entry
<1>3. \A s : Log!Allowed(guard, r, s) <=>
               /\ \A e \in scoped(TRUE) : s \notin e.net
               /\ scoped(FALSE) = {} \/ \E e \in scoped(FALSE) : s \in e.net
  BY <1>1 DEF Log!Allowed
<1>4. \A deny \in BOOLEAN : \A s : s \in UNION nets(deny) <=> \E e \in scoped(deny) : s \in e.net
  OBVIOUS
<1>5. nets(FALSE) = {} <=> scoped(FALSE) = {}
  OBVIOUS
<1>6. \A s \in UNION nets(FALSE) : s \in Sources
  BY <1>2, <1>4
<1> HIDE DEF scoped, nets
<1>7. ASSUME NEW s PROVE s \in {x \in Sources : Log!Allowed(guard, r, x)} <=> s \in opened \ UNION nets(TRUE)
  <2>1. s \in UNION nets(TRUE) <=> \E e \in scoped(TRUE) : s \in e.net
    BY <1>4
  <2>2. s \in UNION nets(FALSE) <=> \E e \in scoped(FALSE) : s \in e.net
    BY <1>4
  <2>3. CASE scoped(FALSE) = {}
    BY <1>3, <1>5, <2>1, <2>3
  <2>4. CASE scoped(FALSE) # {}
    BY <1>3, <1>5, <1>6, <2>1, <2>2, <2>4
  <2>5. QED
    BY <2>3, <2>4
<1>8. {x \in Sources : Log!Allowed(guard, r, x)} = opened \ UNION nets(TRUE)
  BY <1>7
<1>9. QED
  BY <1>8 DEF scoped, nets

LEMMA LogIsBounded ==
  ASSUME LogInv
  PROVE  Log!LogsAreTrimmed
<1> SUFFICES ASSUME NEW u \in Owners
             PROVE  /\ \A t \in rows[u] : t > cut[u]
                    /\ Cardinality(rows[u]) <= owed.limit + (owed.restarts + 1) * (TrimEvery - 1)
  BY LogCounts DEF Log!LogsAreTrimmed, Owners
<1>1. PICK l \in Nat, r \in Nat, m \in Nat, k \in Nat :
        /\ l = owed.limit /\ r = owed.restarts /\ m = appends % TrimEvery
        /\ k = TrimEvery - 1 /\ m <= k
  BY NextAppend, LogConstants DEF LogInv, LogTypes, Log!TypeOK
<1>2. MostRows(l, r, m) \in Nat /\ MostRows(l, r, k) \in Nat /\ MostRows(l, r, m) <= MostRows(l, r, k)
  BY <1>1, RoomGrows
<1>3. MostRows(l, r, k) = l + (r + 1) * k
  <2>1. MostRows(l, r, k) = MostRows(l, r + 1, 0)
    BY <1>1, RoomGrows
  <2>2. MostRows(l, r + 1, 0) = l + (r + 1) * k + 0
    BY <1>1 DEF MostRows
  <2>3. (r + 1) * k \in Nat
    BY <1>1
  <2>4. QED
    BY <1>1, <2>1, <2>2, <2>3
<1>4. rows[u] \subseteq 0..time /\ time \in Nat
  BY DEF LogInv, LogTypes, Log!TypeOK, Owners
<1>5. Cardinality(rows[u]) \in Nat
  BY <1>4, FewRows
<1>6. Cardinality(rows[u]) <= MostRows(l, r, m)
  BY <1>1 DEF LogInv, RowsBounded
<1>7. Cardinality(rows[u]) <= l + (r + 1) * k
  BY <1>2, <1>3, <1>5, <1>6
<1>8. \A t \in rows[u] : t > cut[u]
  <2>1. \A t \in rows[u] : t \in Nat
    BY <1>4
  <2>2. cut[u] \in Nat
    BY DEF LogInv, LogTypes
  <2>3. QED
    BY <2>1, <2>2 DEF LogInv, RowsBounded
<1>9. QED
  BY <1>1, <1>7, <1>8

-----------------------------------------------------------------------------
(* The pages of the log *)

Seen(who) == UNION {rows[u] : u \in Log!Scope(who)}

\* Round k of the merge, given round k - 1 of every place of the cursors.
Round(who, k, rest) ==
  [heads \in [Log!Scope(who) -> 0..time] |->
     IF k = 0 \/ \A u \in Log!Scope(who) : heads[u] = 0 THEN <<>> ELSE Log!Taken(heads, rest)]

Rounds(who, n, f) == f = [k \in 0..n |-> Round(who, k, f[k - 1])]

LEMMA MergeHasRounds ==
  ASSUME NEW who, NEW n \in Nat, \E f : Rounds(who, n, f)
  PROVE  \E f : Rounds(who, n, f) /\ Log!Merge(who, n) = f[n][Log!HeadsBefore(who, time + 1)]
<1> DEFINE g == CHOOSE f : f = [k \in 0..n |->
         [heads \in [Log!Scope(who) -> 0..time] |->
           IF k = 0 \/ \A u \in Log!Scope(who) : heads[u] = 0 THEN <<>>
           ELSE Log!Taken(heads, f[k - 1])]]
<1>1. Log!Merge(who, n) = g[n][Log!HeadsBefore(who, time + 1)]
  BY DEF Log!Merge
<1>2. Rounds(who, n, g)
  BY DEF Rounds, Round
<1>3. QED
  BY <1>1, <1>2

LEMMA RoundsExist ==
  ASSUME NEW who
  PROVE  \A n \in Nat : \E f : Rounds(who, n, f)
<1> DEFINE Bad == {n \in Nat : ~\E f : Rounds(who, n, f)}
<1> SUFFICES ASSUME Bad # {}
             PROVE  FALSE
  OBVIOUS
<1>1. PICK n \in Bad : \A j \in Bad : ~(<<j, n>> \in OpToRel(<, Nat))
  <2>1. Bad \subseteq Nat
    OBVIOUS
  <2> HIDE DEF Bad
  <2>2. QED
    BY <2>1, NatLessThanWellFounded, WFMin, Zenon
<1>2. \A x, y : Round(who, 0, x) = Round(who, 0, y)
  BY DEF Round
<1>3. CASE n = 0
  <2> DEFINE f == [k \in 0..0 |-> Round(who, 0, <<>>)]
  <2>1. \A k \in 0..0 : Round(who, k, f[k - 1]) = Round(who, 0, <<>>)
    <3>1. \A k \in 0..0 : k = 0
      OBVIOUS
    <3> HIDE DEF f
    <3>2. QED
      BY <1>2, <3>1
  <2>2. f = [k \in 0..0 |-> Round(who, k, f[k - 1])]
    <3>1. \A k \in 0..0 : f[k] = Round(who, k, f[k - 1])
      BY <2>1
    <3>2. QED
      BY <3>1
  <2>3. Rounds(who, 0, f)
    BY <2>2 DEF Rounds
  <2>4. QED
    BY <1>3, <2>3
<1>4. CASE n # 0
  <2>1. n \in Nat /\ n - 1 \in Nat /\ n - 1 < n
    BY <1>4
  <2>2. <<n - 1, n>> \in OpToRel(<, Nat)
    BY <2>1, Zenon DEF OpToRel
  <2>3. PICK f : Rounds(who, n - 1, f)
    BY <1>1, <2>1, <2>2
  <2> DEFINE g == [k \in 0..n |-> IF k = n THEN Round(who, n, f[n - 1]) ELSE f[k]]
  <2>4. \A k \in 0..n - 1 : f[k] = Round(who, k, f[k - 1])
    BY <2>3 DEF Rounds
  <2>5. ASSUME NEW k \in 0..n PROVE g[k] = Round(who, k, g[k - 1])
    <3>1. CASE k = n
      <4>1. n - 1 \in 0..n /\ n - 1 # n /\ n \in 0..n
        BY <2>1
      <4>2. g[n - 1] = f[n - 1] /\ g[n] = Round(who, n, f[n - 1])
        BY <4>1
      <4>3. QED
        BY <3>1, <4>2
    <3>2. CASE k # n /\ k # 0
      <4>1. k - 1 \in 0..n /\ k - 1 # n /\ k \in 0..n - 1
        BY <2>1, <3>2
      <4>2. g[k - 1] = f[k - 1] /\ g[k] = f[k]
        BY <3>2, <4>1
      <4>3. QED
        BY <2>4, <4>1, <4>2
    <3>3. CASE k # n /\ k = 0
      <4>1. k \in 0..n - 1
        BY <2>1, <3>3
      <4>2. g[k] = f[k]
        BY <3>3
      <4>3. f[k] = Round(who, k, f[k - 1])
        BY <2>4, <4>1
      <4>4. Round(who, k, f[k - 1]) = Round(who, k, g[k - 1])
        BY <1>2, <3>3
      <4>5. QED
        BY <4>2, <4>3, <4>4
    <3>4. QED
      BY <3>1, <3>2, <3>3
  <2>6. g = [k \in 0..n |-> Round(who, k, g[k - 1])]
    <3>1. DOMAIN g = 0..n
      OBVIOUS
    <3>2. g = [k \in 0..n |-> g[k]]
      BY <3>1
    <3> HIDE DEF g
    <3>3. QED
      BY <2>5, <3>2
  <2>7. Rounds(who, n, g)
    BY <2>6 DEF Rounds
  <2>8. QED
    BY <2>1, <2>7
<1>5. QED
  BY <1>3, <1>4

\* The newest rows of a set, at most n of them.
Merged(s, S, n) ==
  /\ s \in Seq(Nat)
  /\ Len(s) = IF n <= Cardinality(S) THEN n ELSE Cardinality(S)
  /\ \A i \in 1..Len(s) : s[i] \in S /\ Cardinality(Newer(S, s[i])) = i - 1

LEMMA NewestFirst ==
  ASSUME NEW m \in Nat, NEW S, S \subseteq 0..m, NEW top \in S, \A x \in S : x <= top,
         NEW n \in Nat, NEW s, Merged(s, S \ {top}, n)
  PROVE  Merged(<<top>> \o s, S, n + 1)
<1> DEFINE R == S \ {top}
           z == <<top>> \o s
<1>1. s \in Seq(Nat) /\ Len(s) \in Nat /\ top \in Nat
  BY DEF Merged
<1>2. /\ z \in Seq(Nat) /\ Len(z) = Len(s) + 1 /\ z[1] = top
      /\ \A i \in 1..Len(s) : z[i + 1] = s[i]
  BY <1>1
<1>3. /\ IsFiniteSet(S) /\ Cardinality(S) \in Nat /\ Cardinality(R) = Cardinality(S) - 1
      /\ Cardinality(R) \in Nat
  <2>1. IsFiniteSet(S) /\ Cardinality(S) \in Nat
    BY FewRows
  <2>2. Cardinality(R) = Cardinality(S) - 1
    BY <2>1, FS_RemoveElement
  <2>3. R \subseteq 0..m
    OBVIOUS
  <2>4. QED
    BY <2>1, <2>2, <2>3, FewRows
<1>4. Len(s) = IF n <= Cardinality(R) THEN n ELSE Cardinality(R)
  BY DEF Merged
<1>5. Len(z) = IF n + 1 <= Cardinality(S) THEN n + 1 ELSE Cardinality(S)
  <2> HIDE DEF z, R
  <2>1. QED
    BY <1>1, <1>2, <1>3, <1>4
<1>6. Cardinality(Newer(S, top)) = 0
  <2>1. \A x \in S : x \in Nat /\ ~(x > top)
    BY <1>1
  <2>2. Newer(S, top) = {}
    BY <2>1 DEF Newer
  <2>3. QED
    BY <2>2, FS_EmptySet
<1>7. ASSUME NEW i \in 1..Len(s)
      PROVE  s[i] \in S /\ Cardinality(Newer(S, s[i])) = i
  <2>1. s[i] \in R /\ Cardinality(Newer(R, s[i])) = i - 1
    BY DEF Merged
  <2>2. Newer(S, s[i]) = Newer(R, s[i]) \cup {top}
    <3>1. s[i] \in Nat /\ s[i] <= top /\ s[i] # top
      BY <1>1, <2>1
    <3>2. top > s[i]
      BY <1>1, <3>1
    <3>3. QED
      BY <3>2 DEF Newer
  <2>3. IsFiniteSet(Newer(R, s[i])) /\ top \notin Newer(R, s[i])
    <3>1. Newer(R, s[i]) \subseteq 0..m
      BY DEF Newer
    <3>2. QED
      BY <3>1, FewRows DEF Newer
  <2>4. Cardinality(Newer(S, s[i])) = (i - 1) + 1
    BY <2>1, <2>2, <2>3, FS_AddElement
  <2>5. QED
    BY <2>1, <2>4
<1>8. ASSUME NEW i \in 1..Len(z)
      PROVE  z[i] \in S /\ Cardinality(Newer(S, z[i])) = i - 1
  <2> HIDE DEF z
  <2>1. CASE i = 1
    BY <1>2, <1>6, <2>1
  <2>2. CASE i # 1
    <3>1. PICK j \in 1..Len(s) : i = j + 1
      <4>1. i - 1 \in 1..Len(s) /\ i = (i - 1) + 1
        BY <1>1, <1>2, <2>2
      <4>2. QED
        BY <4>1
    <3>2. z[i] = s[j] /\ i - 1 = j
      BY <1>2, <3>1
    <3>3. QED
      BY <1>7, <3>2
  <2>3. QED
    BY <2>1, <2>2
<1>9. QED
  BY <1>2, <1>5, <1>8 DEF Merged

\* The rows that a reader may see, older than t.
Older(who, t) == {x \in Seen(who) : x < t}

LEMMA HeadIsNewest ==
  ASSUME LogTypes, NEW u \in Owners, NEW t \in Nat
  PROVE  /\ Log!Before(u, t) \in 0..time
         /\ Log!Before(u, t) # 0 => Log!Before(u, t) \in rows[u] /\ Log!Before(u, t) < t
         /\ \A x \in rows[u] : x < t => x <= Log!Before(u, t)
<1> DEFINE S == {0} \cup {s \in rows[u] : s < t}
<1>1. rows[u] \subseteq 1..time /\ time \in Nat
  BY DEF LogTypes, Log!TypeOK, Owners
<1>2. S \subseteq 0..time /\ S # {}
  <2>1. 0 \in 0..time /\ 1..time \subseteq 0..time
    BY <1>1
  <2>2. QED
    BY <1>1, <2>1
<1>3. Log!Before(u, t) = Log!Max(S)
  BY DEF Log!Before
<1> HIDE DEF S
<1>4. Log!Max(S) \in S /\ \A x \in S : x <= Log!Max(S)
  BY <1>1, <1>2, NewestIsThere
<1>5. QED
  BY <1>2, <1>3, <1>4 DEF S

LEMMA HeadsAreHeads ==
  ASSUME LogTypes, NEW who \in Owners \cup {Nobody}, NEW t \in Nat
  PROVE  /\ Log!HeadsBefore(who, t) \in [Log!Scope(who) -> 0..time]
         /\ DOMAIN Log!HeadsBefore(who, t) = Log!Scope(who)
         /\ \A u \in Log!Scope(who) : u \in Owners /\ Log!HeadsBefore(who, t)[u] = Log!Before(u, t)
<1>1. Log!Scope(who) \subseteq Owners
  BY DEF Log!Scope, Owners
<1>2. \A u \in Log!Scope(who) : Log!Before(u, t) \in 0..time
  BY <1>1, HeadIsNewest
<1>3. QED
  BY <1>1, <1>2 DEF Log!HeadsBefore

\* A round takes the newest of the rows that are left, and leaves the cursors before it.
LEMMA RoundTakesNewest ==
  ASSUME LogInv, NEW who \in Owners \cup {Nobody}, NEW t \in Nat, Older(who, t) # {}, NEW rest
  PROVE  \E top \in Older(who, t) :
           /\ \A x \in Older(who, t) : x <= top
           /\ Older(who, top) = Older(who, t) \ {top}
           /\ Log!Taken(Log!HeadsBefore(who, t), rest)
                = <<top>> \o rest[Log!HeadsBefore(who, top)]
           /\ \E u \in Log!Scope(who) : Log!HeadsBefore(who, t)[u] # 0
<1> DEFINE C == Log!Scope(who)
           h == Log!HeadsBefore(who, t)
           top == Log!Newest(h)
<1>1. LogTypes /\ time \in Nat
  BY DEF LogInv, LogTypes
<1>2. /\ h \in [C -> 0..time] /\ DOMAIN h = C
      /\ \A u \in C : u \in Owners /\ h[u] = Log!Before(u, t)
  BY <1>1, HeadsAreHeads
<1>3. \A u \in C : rows[u] \subseteq 1..time
  BY <1>2 DEF LogInv, LogTypes, Log!TypeOK, Owners
<1>4. \A u \in C : /\ h[u] \in 0..time
                   /\ h[u] # 0 => h[u] \in rows[u] /\ h[u] < t
                   /\ \A x \in rows[u] : x < t => x <= h[u]
  BY <1>1, <1>2, HeadIsNewest
<1>5. PICK v \in C : \E y \in rows[v] : y < t
  BY DEF Older, Seen
<1> HIDE DEF C, h
<1>6. h[v] # 0
  <2>1. PICK y : y \in 1..time /\ y <= h[v]
    BY <1>3, <1>4, <1>5
  <2>2. QED
    BY <1>1, <1>4, <2>1
<1>7. top \in {h[u] : u \in C} /\ \A u \in C : h[u] <= top
  <2>1. {h[u] : u \in C} \subseteq 0..time /\ {h[u] : u \in C} # {}
    BY <1>4, <1>5
  <2>2. top = Log!Max({h[u] : u \in C})
    BY <1>2 DEF Log!Newest
  <2>3. Log!Max({h[u] : u \in C}) \in {h[u] : u \in C}
          /\ \A x \in {h[u] : u \in C} : x <= Log!Max({h[u] : u \in C})
    BY <1>1, <2>1, NewestIsThere
  <2>4. QED
    BY <2>2, <2>3
<1> HIDE DEF top
<1>8. PICK w : w = CHOOSE u \in C : h[u] = top
  OBVIOUS
<1>9. w \in C /\ h[w] = top
  BY <1>7, <1>8
<1>10. top # 0 /\ top \in rows[w] /\ top < t /\ top \in Nat
  <2>1. h[v] \in 0..time /\ h[v] # 0 /\ h[v] <= top /\ top \in 0..time
    BY <1>4, <1>5, <1>6, <1>7
  <2>2. top # 0 /\ top \in Nat
    BY <1>1, <2>1
  <2>3. QED
    BY <1>4, <1>9, <2>2
<1>11. top \in Older(who, t)
  BY <1>9, <1>10 DEF Older, Seen, C
<1>12. \A x \in Older(who, t) : x \in Nat /\ x <= top
  <2> SUFFICES ASSUME NEW x \in Older(who, t)
               PROVE  x \in Nat /\ x <= top
    OBVIOUS
  <2>1. PICK u \in C : x \in rows[u] /\ x < t
    BY DEF Older, Seen, C
  <2>2. x \in 1..time /\ x <= h[u] /\ h[u] <= top /\ h[u] \in 0..time /\ top \in Nat
    BY <1>3, <1>4, <1>7, <1>10, <2>1
  <2>3. QED
    BY <1>1, <2>2
<1>13. Older(who, top) = Older(who, t) \ {top}
  <2>1. \A x \in Older(who, t) \ {top} : x < top
    BY <1>10, <1>12
  <2>2. \A x \in Older(who, top) : x \in Older(who, t) /\ x # top
    <3> SUFFICES ASSUME NEW x \in Older(who, top)
                 PROVE  x \in Older(who, t) /\ x # top
      OBVIOUS
    <3>1. x \in Seen(who) /\ x < top
      BY DEF Older
    <3>2. PICK u \in C : x \in rows[u]
      BY <3>1 DEF Seen, C
    <3>3. x \in 1..time
      BY <1>3, <3>2
    <3>4. x < t /\ x # top
      BY <1>1, <1>10, <3>1, <3>3
    <3>5. QED
      BY <3>1, <3>4 DEF Older
  <2>3. \A x \in Older(who, t) : x \in Seen(who)
    BY DEF Older
  <2>4. \A x : x \in Older(who, top) <=> x \in Older(who, t) \ {top}
    BY <2>1, <2>2, <2>3 DEF Older
  <2>5. QED
    BY <2>4
<1>14. [h EXCEPT ![w] = Log!Before(w, top)] = Log!HeadsBefore(who, top)
  <2>1. /\ Log!HeadsBefore(who, top) \in [C -> 0..time]
        /\ \A u \in C : u \in Owners /\ Log!HeadsBefore(who, top)[u] = Log!Before(u, top)
    BY <1>1, <1>10, HeadsAreHeads DEF C
  <2>2. ASSUME NEW u \in C, u # w PROVE h[u] = Log!Before(u, top)
    <3> DEFINE a == h[u]
               b == Log!Before(u, top)
    <3>1. /\ a \in 0..time /\ (a # 0 => a \in rows[u] /\ a < t)
          /\ \A x \in rows[u] : x < t => x <= a
      BY <1>4
    <3>2. /\ b \in 0..time /\ (b # 0 => b \in rows[u] /\ b < top)
          /\ \A x \in rows[u] : x < top => x <= b
      BY <1>1, <1>10, <2>1, HeadIsNewest
    <3>3. a <= top
      BY <1>7
    <3>4. a = top => FALSE
      <4>1. a = top => a \in rows[u] /\ a \in rows[w]
        BY <1>10, <3>1
      <4>2. rows[u] \cap rows[w] = {}
        BY <1>2, <1>9, <2>2 DEF LogInv, RowsBounded
      <4>3. QED
        BY <4>1, <4>2
    <3> HIDE DEF a, b
    <3>5. a < top /\ a \in Nat /\ b \in Nat
      BY <1>1, <1>10, <3>1, <3>2, <3>3, <3>4
    <3>6. a <= b
      <4>1. CASE a = 0
        BY <3>5, <4>1
      <4>2. CASE a # 0
        BY <3>1, <3>2, <3>5, <4>2
      <4>3. QED
        BY <4>1, <4>2
    <3>7. b <= a
      <4>1. CASE b = 0
        BY <3>5, <4>1
      <4>2. CASE b # 0
        <5>1. b \in rows[u] /\ b < top
          BY <3>2, <4>2
        <5>2. b < t /\ t \in Nat
          BY <1>10, <3>5, <5>1
        <5>3. QED
          BY <3>1, <5>1, <5>2
      <4>3. QED
        BY <4>1, <4>2
    <3>8. a = b
      BY <3>5, <3>6, <3>7
    <3>9. QED
      BY <3>8 DEF a, b
  <2>3. QED
    BY <1>2, <1>9, <2>1, <2>2
<1>15. Log!Taken(h, rest) = <<top>> \o rest[Log!HeadsBefore(who, top)]
  <2>1. Log!Taken(h, rest) = <<top>> \o rest[[h EXCEPT ![w] = Log!Before(w, top)]]
    BY <1>2, <1>8 DEF Log!Taken, top
  <2>2. QED
    BY <1>14, <2>1
<1>16. QED
  BY <1>5, <1>6, <1>11, <1>12, <1>13, <1>15 DEF C, h

\* Nothing is left where all cursors are at the end, and nothing else.
LEMMA EndsAtTheEnd ==
  ASSUME LogInv, NEW who \in Owners \cup {Nobody}, NEW t \in Nat, Older(who, t) = {}
  PROVE  \A u \in Log!Scope(who) : Log!HeadsBefore(who, t)[u] = 0
<1>1. LogTypes
  BY DEF LogInv
<1>2. ASSUME NEW u \in Log!Scope(who), Log!HeadsBefore(who, t)[u] # 0
      PROVE  FALSE
  <2>1. u \in Owners /\ Log!Before(u, t) # 0
    BY <1>1, <1>2, HeadsAreHeads
  <2>2. Log!Before(u, t) \in rows[u] /\ Log!Before(u, t) < t
    BY <1>1, <2>1, HeadIsNewest
  <2>3. Log!Before(u, t) \in Older(who, t)
    BY <2>2 DEF Older, Seen
  <2>4. QED
    BY <2>3
<1>3. QED
  BY <1>2

LEMMA SeenIsFinite ==
  ASSUME LogInv, NEW who \in Owners \cup {Nobody}
  PROVE  /\ time \in Nat /\ Seen(who) \subseteq 1..time /\ Seen(who) \subseteq 0..time
         /\ IsFiniteSet(Seen(who)) /\ Cardinality(Seen(who)) \in Nat
         /\ \A t \in Nat : Older(who, t) \subseteq 0..time
<1>1. time \in Nat
  BY DEF LogInv, LogTypes
<1>2. Seen(who) \subseteq 1..time
  <2>1. Log!Scope(who) \subseteq Owners
    BY DEF Log!Scope, Owners
  <2>2. \A u \in Owners : rows[u] \subseteq 1..time
    BY DEF LogInv, LogTypes, Log!TypeOK, Owners
  <2>3. QED
    BY <2>1, <2>2 DEF Seen
<1>3. Seen(who) \subseteq 0..time
  BY <1>1, <1>2
<1>4. QED
  BY <1>1, <1>2, <1>3, FewRows DEF Older

\* Round k gives, from wherever the cursors have come to, the newest k of the rows left.
LEMMA RoundsMerge ==
  ASSUME LogInv, NEW who \in Owners \cup {Nobody}, NEW n \in Nat, NEW f, Rounds(who, n, f)
  PROVE  \A k \in 0..n : \A t \in Nat : Merged(f[k][Log!HeadsBefore(who, t)], Older(who, t), k)
<1> DEFINE Good(k) == \A t \in Nat : Merged(f[k][Log!HeadsBefore(who, t)], Older(who, t), k)
           Bad == {k \in 0..n : ~Good(k)}
<1> SUFFICES ASSUME Bad # {}
             PROVE  FALSE
  OBVIOUS
<1>1. PICK k \in Bad : \A j \in Bad : ~(<<j, k>> \in OpToRel(<, Nat))
  <2>1. Bad \subseteq Nat
    OBVIOUS
  <2> HIDE DEF Bad
  <2>2. QED
    BY <2>1, NatLessThanWellFounded, WFMin, Zenon
<1>2. k \in 0..n /\ k \in Nat /\ ~Good(k)
  OBVIOUS
<1>3. PICK t \in Nat : ~Merged(f[k][Log!HeadsBefore(who, t)], Older(who, t), k)
  BY <1>2
<1> DEFINE h == Log!HeadsBefore(who, t)
<1>4. f[k] = Round(who, k, f[k - 1])
  BY <1>2 DEF Rounds
<1>5. h \in [Log!Scope(who) -> 0..time]
  BY HeadsAreHeads DEF LogInv
<1>6. f[k][h] = IF k = 0 \/ \A u \in Log!Scope(who) : h[u] = 0 THEN <<>>
                ELSE Log!Taken(h, f[k - 1])
  <2> HIDE DEF h
  <2>1. QED
    BY <1>4, <1>5 DEF Round
<1>7. Older(who, t) \subseteq 0..time /\ time \in Nat
  BY SeenIsFinite
<1>8. IsFiniteSet(Older(who, t)) /\ Cardinality(Older(who, t)) \in Nat
  BY <1>7, FewRows
<1>9. CASE k = 0 \/ Older(who, t) = {}
  <2>1. f[k][h] = <<>>
    <3>1. CASE k = 0
      BY <1>6, <3>1
    <3>2. CASE Older(who, t) = {}
      BY <1>6, <3>2, EndsAtTheEnd
    <3>3. QED
      BY <1>9, <3>1, <3>2
  <2>2. (IF k <= Cardinality(Older(who, t)) THEN k ELSE Cardinality(Older(who, t))) = 0
    <3>1. Older(who, t) = {} => Cardinality(Older(who, t)) = 0
      BY FS_EmptySet
    <3>2. QED
      BY <1>2, <1>8, <1>9, <3>1
  <2>3. Merged(<<>>, Older(who, t), k)
    BY <2>2 DEF Merged
  <2>4. QED
    BY <1>3, <2>1, <2>3
<1>10. CASE k # 0 /\ Older(who, t) # {}
  <2>1. PICK top \in Older(who, t) :
           /\ \A x \in Older(who, t) : x <= top
           /\ Older(who, top) = Older(who, t) \ {top}
           /\ Log!Taken(h, f[k - 1]) = <<top>> \o f[k - 1][Log!HeadsBefore(who, top)]
           /\ \E u \in Log!Scope(who) : h[u] # 0
    BY <1>10, RoundTakesNewest
  <2>2. k - 1 \in Nat /\ k - 1 \in 0..n /\ k - 1 < k /\ (k - 1) + 1 = k
    BY <1>2, <1>10
  <2>3. Good(k - 1)
    <3>1. <<k - 1, k>> \in OpToRel(<, Nat)
      BY <1>2, <2>2, Zenon DEF OpToRel
    <3>2. k - 1 \notin Bad
      BY <1>1, <3>1
    <3>3. QED
      BY <2>2, <3>2
  <2>4. top \in Nat
    BY <1>7
  <2>5. Merged(f[k - 1][Log!HeadsBefore(who, top)], Older(who, t) \ {top}, k - 1)
    BY <2>1, <2>3, <2>4
  <2>6. Merged(<<top>> \o f[k - 1][Log!HeadsBefore(who, top)], Older(who, t), (k - 1) + 1)
    BY <1>7, <2>1, <2>2, <2>5, NewestFirst
  <2>7. f[k][h] = <<top>> \o f[k - 1][Log!HeadsBefore(who, top)]
    BY <1>6, <1>10, <2>1
  <2>8. QED
    BY <1>3, <2>2, <2>6, <2>7
<1>11. QED
  BY <1>9, <1>10

LEMMA MergeIsNewest ==
  ASSUME LogInv, NEW who \in Owners \cup {Nobody}, NEW n \in Nat
  PROVE  Merged(Log!Merge(who, n), Seen(who), n)
<1>1. PICK f : Rounds(who, n, f) /\ Log!Merge(who, n) = f[n][Log!HeadsBefore(who, time + 1)]
  BY RoundsExist, MergeHasRounds
<1>2. time + 1 \in Nat /\ n \in 0..n
  BY SeenIsFinite
<1>3. Merged(Log!Merge(who, n), Older(who, time + 1), n)
  BY <1>1, <1>2, RoundsMerge
<1>4. Older(who, time + 1) = Seen(who)
  BY SeenIsFinite DEF Older
<1>5. QED
  BY <1>3, <1>4

Place(S, t) == Cardinality({s \in S : s >= t})

LEMMA PlacesDiffer ==
  ASSUME NEW m \in Nat, NEW S, S \subseteq 0..m
  PROVE  /\ \A t \in S : /\ Place(S, t) \in 1..Cardinality(S)
                         /\ Place(S, t) = Cardinality(Newer(S, t)) + 1
         /\ \A t, u \in S : Place(S, t) = Place(S, u) => t = u
<1>1. \A t \in S : t \in Nat
  OBVIOUS
<1>2. IsFiniteSet(S) /\ Cardinality(S) \in Nat
  BY FewRows
<1>3. ASSUME NEW t \in S
      PROVE  /\ Place(S, t) \in 1..Cardinality(S)
             /\ Place(S, t) = Cardinality(Newer(S, t)) + 1
  <2>1. {s \in S : s >= t} = Newer(S, t) \cup {t} /\ t \notin Newer(S, t)
    <3>1. \A s \in S : s >= t <=> s > t \/ s = t
      BY <1>1
    <3>2. ~(t > t)
      BY <1>1
    <3>3. QED
      BY <3>1, <3>2 DEF Newer
  <2>2. IsFiniteSet(Newer(S, t)) /\ Cardinality(Newer(S, t)) \in Nat
    <3>1. Newer(S, t) \subseteq 0..m
      BY DEF Newer
    <3>2. QED
      BY <3>1, FewRows
  <2>3. Place(S, t) = Cardinality(Newer(S, t)) + 1
    BY <2>1, <2>2, FS_AddElement DEF Place
  <2>4. Place(S, t) <= Cardinality(S)
    <3>1. {s \in S : s >= t} \subseteq S
      OBVIOUS
    <3>2. QED
      BY <1>2, <3>1, FS_Subset DEF Place
  <2>5. QED
    BY <1>2, <2>2, <2>3, <2>4
<1>4. ASSUME NEW t \in S, NEW u \in S, t < u PROVE Place(S, u) < Place(S, t)
  <2>1. {s \in S : s >= u} \subseteq Newer(S, t)
    <3> SUFFICES ASSUME NEW s \in S, s >= u
                 PROVE  s > t
      BY DEF Newer
    <3>1. QED
      BY <1>1, <1>4
  <2>2. IsFiniteSet(Newer(S, t)) /\ Cardinality(Newer(S, t)) \in Nat
    <3>1. Newer(S, t) \subseteq 0..m
      BY DEF Newer
    <3>2. QED
      BY <3>1, FewRows
  <2>3. Place(S, u) <= Cardinality(Newer(S, t))
    BY <2>1, <2>2, FS_Subset DEF Place
  <2>4. Place(S, u) \in 1..Cardinality(S) /\ Place(S, t) = Cardinality(Newer(S, t)) + 1
    BY <1>3
  <2>5. QED
    BY <1>2, <2>2, <2>3, <2>4
<1>5. ASSUME NEW t \in S, NEW u \in S, Place(S, t) = Place(S, u) PROVE t = u
  <2>1. t \in Nat /\ u \in Nat /\ Place(S, t) \in 1..Cardinality(S)
    BY <1>1, <1>3
  <2>2. ~(Place(S, t) < Place(S, u)) /\ ~(Place(S, u) < Place(S, t))
    BY <1>2, <1>5, <2>1
  <2>3. ~(t < u) /\ ~(u < t)
    BY <1>4, <2>2
  <2>4. QED
    BY <2>1, <2>3
<1>6. QED
  BY <1>3, <1>5

\* A page is a stretch of the merge: from after the first o rows, at most n of them.
LEMMA PageOfMerge ==
  ASSUME LogInv, NEW who \in Owners \cup {Nobody}, NEW o \in Nat, NEW n \in Nat,
         NEW p, p = Log!ListConnLogs(who, o, n)
  PROVE  /\ Log!ToSet(p) = {t \in Seen(who) : Place(Seen(who), t) \in o + 1..o + n}
         /\ \A i \in DOMAIN p : Place(Seen(who), p[i]) = o + i
<1> DEFINE S == Seen(who)
           c == Cardinality(S)
<1>1. time \in Nat /\ S \subseteq 0..time /\ c \in Nat
  BY SeenIsFinite
<1>2. PICK first : first = Log!Merge(who, o + n)
  OBVIOUS
<1>3. Merged(first, S, o + n)
  <2>1. o + n \in Nat
    OBVIOUS
  <2>2. QED
    BY <1>2, <2>1, MergeIsNewest
<1> HIDE DEF S
<1>4. /\ first \in Seq(Nat) /\ Len(first) \in Nat
      /\ Len(first) = IF o + n <= c THEN o + n ELSE c
      /\ \A j \in 1..Len(first) : first[j] \in S /\ Cardinality(Newer(S, first[j])) = j - 1
  BY <1>3 DEF Merged
<1> HIDE DEF c
<1>5. ASSUME NEW j \in 1..Len(first) PROVE first[j] \in S /\ Place(S, first[j]) = j
  <2>1. first[j] \in S /\ Cardinality(Newer(S, first[j])) = j - 1
    BY <1>4
  <2>2. Place(S, first[j]) = (j - 1) + 1
    <3>1. \A t \in S : Place(S, t) = Cardinality(Newer(S, t)) + 1
      BY <1>1, PlacesDiffer
    <3>2. QED
      BY <2>1, <3>1
  <2>3. QED
    BY <1>4, <2>1, <2>2
<1>6. p = SubSeq(first, o + 1, Len(first))
  BY <1>2 DEF Log!ListConnLogs
<1>7. /\ DOMAIN p = 1..(Len(first) - o)
      /\ \A i \in 1..(Len(first) - o) : p[i] = first[o + i] /\ o + i \in 1..Len(first)
  <2>1. PICK l \in Nat : l = Len(first)
    BY <1>4
  <2>2. /\ DOMAIN SubSeq(first, o + 1, l) = 1..(l - o)
        /\ \A i \in 1..(l - o) : SubSeq(first, o + 1, l)[i] = first[o + i]
    <3>1. CASE o <= l
      <4>1. o + 1 \in Int /\ l \in Int /\ \A i \in o + 1..l : first[i] \in Nat
        BY <1>4, <2>1, <3>1
      <4>2. /\ SubSeq(first, o + 1, l) \in Seq(Nat)
            /\ Len(SubSeq(first, o + 1, l)) = (IF o + 1 <= l THEN l - (o + 1) + 1 ELSE 0)
            /\ \A i \in 1..l - (o + 1) + 1 : SubSeq(first, o + 1, l)[i] = first[(o + 1) + i - 1]
        BY <4>1, SubSeqProperties
      <4>3. l - (o + 1) + 1 = l - o /\ \A i \in 1..(l - o) : (o + 1) + i - 1 = o + i
        OBVIOUS
      <4>4. (IF o + 1 <= l THEN l - (o + 1) + 1 ELSE 0) = l - o
        BY <3>1
      <4>5. QED
        BY <4>2, <4>3, <4>4
    <3>2. CASE ~(o <= l)
      <4>1. SubSeq(first, o + 1, l) = <<>>
        BY <1>4, <2>1, <3>2
      <4>2. 1..(l - o) = {}
        BY <3>2
      <4>3. QED
        BY <4>1, <4>2
    <3>3. QED
      BY <3>1, <3>2
  <2>3. \A i \in 1..(l - o) : o + i \in 1..l
    OBVIOUS
  <2>4. QED
    BY <1>6, <2>1, <2>2, <2>3
<1>8. \A i \in DOMAIN p : p[i] \in S /\ Place(S, p[i]) = o + i
  BY <1>5, <1>7
<1>9. \A i \in DOMAIN p : o + i \in o + 1..o + n
  BY <1>4, <1>7
<1>10. ASSUME NEW t \in S, Place(S, t) \in o + 1..o + n PROVE \E i \in DOMAIN p : p[i] = t
  <2>1. Place(S, t) \in 1..c
    BY <1>1, PlacesDiffer DEF c
  <2>2. PICK j \in Nat : j = Place(S, t)
    BY <2>1
  <2>3. j \in 1..Len(first) /\ j - o \in 1..(Len(first) - o) /\ o + (j - o) = j
    BY <1>1, <1>4, <1>10, <2>1, <2>2
  <2>4. first[j] \in S /\ Place(S, first[j]) = j
    BY <1>5, <2>3
  <2>5. first[j] = t
    BY <1>1, <2>2, <2>4, PlacesDiffer
  <2>6. QED
    BY <1>7, <2>3, <2>5
<1>11. Log!ToSet(p) = {p[i] : i \in DOMAIN p}
  BY DEF Log!ToSet
<1>12. Log!ToSet(p) = {t \in S : Place(S, t) \in o + 1..o + n}
  BY <1>8, <1>9, <1>10, <1>11
<1>13. QED
  BY <1>8, <1>12 DEF S

LEMMA PagesHold ==
  ASSUME LogInv
  PROVE  Log!PagesAreNewestFirst
<1>1. ASSUME NEW who \in Owners \cup {Nobody}, NEW size \in PageSizes,
             NEW k \in 1..Cardinality(Seen(who)) + 1,
             NEW p, p = Log!ListConnLogs(who, (k - 1) * size, size)
      PROVE  /\ Log!ToSet(p) = {t \in Seen(who) :
                                  Place(Seen(who), t) \in (k - 1) * size + 1..k * size}
             /\ \A i \in DOMAIN p : Place(Seen(who), p[i]) = (k - 1) * size + i
  <2>1. size \in Nat /\ k - 1 \in Nat /\ k \in Nat
    BY LogConstants, SeenIsFinite
  <2>2. PICK o \in Nat : o = (k - 1) * size
    BY <2>1
  <2>3. o + size = k * size
    BY <2>1, <2>2
  <2>4. /\ Log!ToSet(p) = {t \in Seen(who) : Place(Seen(who), t) \in o + 1..o + size}
        /\ \A i \in DOMAIN p : Place(Seen(who), p[i]) = o + i
    BY <1>1, <2>1, <2>2, PageOfMerge
  <2>5. QED
    BY <2>2, <2>3, <2>4, Zenon
<1>2. \A who : Seen(who) = UNION {rows[u] : u \in Log!Scope(who)}
  BY DEF Seen
<1>3. \A S, t : Place(S, t) = Log!Cardinality({s \in S : s >= t})
  BY LogCounts DEF Place
<1>4. \A S : Cardinality(S) = Log!Cardinality(S)
  BY LogCounts
<1>5. ASSUME NEW who \in Owners \cup {Nobody}, NEW size \in PageSizes,
             NEW k \in 1..Cardinality(Seen(who)) + 1
      PROVE  LET page == Log!ListConnLogs(who, (k - 1) * size, size)
             IN /\ Log!ToSet(page) = {t \in Seen(who) :
                                       Place(Seen(who), t) \in (k - 1) * size + 1..k * size}
                /\ \A i \in DOMAIN page : Place(Seen(who), page[i]) = (k - 1) * size + i
  BY <1>1
<1>6. QED
  BY <1>5, LogCounts DEF Log!PagesAreNewestFirst, Owners, Place, Seen

-----------------------------------------------------------------------------
(* Signing in: windows                                                     *)

\* The times of a limiter's key: in order, and none after now.
Past(s, now) ==
  /\ s \in Seq(Nat)
  /\ \A i, j \in 1..Len(s) : i <= j => s[i] <= s[j]
  /\ \A i \in 1..Len(s) : s[i] <= now

\* The first q of s have left the window, the others are in it.
Splits(s, now, q) ==
  /\ q \in 0..Len(s)
  /\ \A i \in 1..q : now - s[i] >= Window
  /\ \A i \in q + 1..Len(s) : now - s[i] < Window

\* What is left of the first n of s without the first q.
Part(s, q, n) == [i \in 1..n - q |-> s[q + i]]

LEMMA WindowIs == Limit \in Nat /\ Window \in Nat /\ Window > 0
BY PanelAssumption DEF PanelAssumption, SignIn!LimitsAssumption

LEMMA SplitExists ==
  ASSUME NEW now \in Nat, NEW s, Past(s, now)
  PROVE  \E q : Splits(s, now, q)
<1> DEFINE D == {n \in 0..Len(s) : \A i \in n + 1..Len(s) : now - s[i] < Window}
<1>0. Len(s) \in Nat /\ \A i \in 1..Len(s) : s[i] \in Nat
  BY DEF Past
<1>1. D \subseteq Nat /\ Len(s) \in D
  BY <1>0
<1>2. PICK q \in D : \A j \in D : ~(<<j, q>> \in OpToRel(<, Nat))
  <2> HIDE DEF D
  <2> QED
    BY <1>1, NatLessThanWellFounded, WFMin, Zenon
<1>3. \A j \in D : j \in Nat /\ q \in Nat /\ ~(j < q)
  <2> SUFFICES ASSUME NEW j \in D
               PROVE  j \in Nat /\ q \in Nat /\ ~(j < q)
    OBVIOUS
  <2>1. j \in Nat /\ q \in Nat
    BY <1>1
  <2> QED
    BY <1>2, <2>1, Zenon DEF OpToRel
<1>4. q \in 0..Len(s) /\ \A i \in q + 1..Len(s) : now - s[i] < Window
  OBVIOUS
<1>5. ASSUME q > 0 PROVE now - s[q] >= Window
  <2> SUFFICES ASSUME now - s[q] < Window
               PROVE  FALSE
    BY <1>0, <1>4, <1>5, WindowIs
  <2>1. q - 1 \in D
    <3>1. \A i \in q - 1 + 1..Len(s) : i = q \/ i \in q + 1..Len(s)
      BY <1>4
    <3> QED
      BY <1>0, <1>4, <1>5, <3>1
  <2> HIDE DEF D
  <2> QED
    BY <1>3, <2>1
<1>6. ASSUME NEW i \in 1..q PROVE now - s[i] >= Window
  <2>1. i \in 1..Len(s) /\ q \in 1..Len(s) /\ i <= q
    BY <1>0, <1>4
  <2>2. s[i] <= s[q] /\ s[i] \in Nat /\ s[q] \in Nat
    BY <1>0, <2>1 DEF Past
  <2> QED
    BY <1>5, <2>1, <2>2, WindowIs
<1> QED
  BY <1>4, <1>6 DEF Splits

LEMMA PartIs ==
  ASSUME NEW s \in Seq(Nat), NEW q \in 0..Len(s), NEW n \in q..Len(s)
  PROVE  /\ Part(s, q, n) \in Seq(Nat) /\ Len(Part(s, q, n)) = n - q
         /\ \A i \in 1..n - q : Part(s, q, n)[i] = s[q + i]
         /\ n = q => Part(s, q, n) = << >>
         /\ n < Len(s) => Append(Part(s, q, n), s[n + 1]) = Part(s, q, n + 1)
<1>1. n - q \in Nat /\ \A i \in 1..n - q : s[q + i] \in Nat
  OBVIOUS
<1>2. Part(s, q, n) \in Seq(Nat) /\ Len(Part(s, q, n)) = n - q
      /\ \A i \in 1..n - q : Part(s, q, n)[i] = s[q + i]
  BY <1>1 DEF Part
<1>3. n = q => Part(s, q, n) = << >>
  BY <1>2
<1>4. ASSUME n < Len(s) PROVE Append(Part(s, q, n), s[n + 1]) = Part(s, q, n + 1)
  <2> DEFINE t == Append(Part(s, q, n), s[n + 1])
             u == Part(s, q, n + 1)
  <2>1. s[n + 1] \in Nat /\ n + 1 - q \in Nat /\ \A i \in 1..n + 1 - q : s[q + i] \in Nat
    BY <1>4
  <2>2. t \in Seq(Nat) /\ Len(t) = n + 1 - q /\ t[n + 1 - q] = s[n + 1]
        /\ \A i \in 1..n - q : t[i] = s[q + i]
    BY <1>1, <1>2, <2>1
  <2>3. u \in Seq(Nat) /\ Len(u) = n + 1 - q /\ \A i \in 1..n + 1 - q : u[i] = s[q + i]
    BY <2>1 DEF Part
  <2>4. \A i \in 1..n + 1 - q : t[i] = u[i]
    <3>1. \A i \in 1..n + 1 - q : i \in 1..n - q \/ i = n + 1 - q
      BY <1>1
    <3>2. q + (n + 1 - q) = n + 1
      OBVIOUS
    <3> QED
      BY <2>2, <2>3, <3>1, <3>2
  <2> HIDE DEF t, u
  <2>5. t = u
    BY <2>2, <2>3, <2>4
  <2> QED
    BY <2>5 DEF t, u
<1> QED
  BY <1>2, <1>3, <1>4

\* What trimLocked leaves.
LEMMA FreshIs ==
  ASSUME NEW now \in Nat, NEW s, Past(s, now), NEW q, Splits(s, now, q)
  PROVE  SignIn!Fresh(s, now) = Part(s, q, Len(s))
<1> DEFINE N == Len(s)
<1>0. s \in Seq(Nat) /\ N \in Nat /\ q \in 0..N /\ \A i \in 1..N : s[i] \in Nat
  BY DEF Past, Splits
<1> DEFINE Eq(k) == k = [n \in 0..N |->
                IF n = 0 THEN << >>
                ELSE IF now - s[n] < Window THEN Append(k[n - 1], s[n]) ELSE k[n - 1]]
<1> DEFINE w == [n \in 0..N |-> IF n <= q THEN << >> ELSE Part(s, q, n)]
<1>1. Eq(w)
  <2>1. ASSUME NEW n \in 0..N
        PROVE  w[n] = IF n = 0 THEN << >>
                      ELSE IF now - s[n] < Window THEN Append(w[n - 1], s[n]) ELSE w[n - 1]
    <3>1. CASE n = 0
      BY <1>0, <3>1
    <3>2. CASE n # 0 /\ n <= q
      <4>1. n \in 1..q /\ n - 1 \in 0..N /\ n - 1 <= q /\ ~(now - s[n] < Window)
        <5>1. n \in 1..q /\ n - 1 \in 0..N /\ n - 1 <= q
          BY <1>0, <3>2
        <5>2. now - s[n] >= Window /\ s[n] \in Nat
          BY <1>0, <5>1 DEF Splits
        <5> QED
          BY <5>1, <5>2, WindowIs
      <4>2. w[n] = << >> /\ w[n - 1] = << >>
        BY <3>2, <4>1
      <4> QED
        BY <3>2, <4>1, <4>2
    <3>3. CASE ~(n <= q)
      <4>1. n \in q + 1..N /\ n - 1 \in q..N /\ n - 1 < N /\ n - 1 \in 0..N /\ n # 0 /\ (n - 1) + 1 = n
        BY <1>0, <3>3
      <4>2. now - s[n] < Window
        BY <4>1 DEF Splits
      <4>3. w[n - 1] = Part(s, q, n - 1)
        <5>1. CASE n - 1 <= q
          <6>1. n - 1 = q
            BY <1>0, <4>1, <5>1
          <6>2. w[n - 1] = << >>
            BY <4>1, <5>1
          <6> QED
            BY <1>0, <4>1, <6>1, <6>2, PartIs
        <5>2. CASE ~(n - 1 <= q)
          BY <4>1, <5>2
        <5> QED
          BY <5>1, <5>2
      <4>4. Append(Part(s, q, n - 1), s[n]) = Part(s, q, n)
        <5>1. PICK m \in q..N : n = m + 1 /\ m < N /\ m = n - 1
          BY <4>1
        <5>2. Append(Part(s, q, m), s[m + 1]) = Part(s, q, m + 1)
          BY <1>0, <5>1, PartIs
        <5> QED
          BY <5>1, <5>2
      <4>5. w[n] = Part(s, q, n)
        BY <3>3
      <4> HIDE DEF w
      <4> QED
        BY <4>1, <4>2, <4>3, <4>4, <4>5
    <3> QED
      BY <3>1, <3>2, <3>3
  <2>2. w = [n \in 0..N |-> w[n]]
    OBVIOUS
  <2> HIDE DEF w
  <2>3. [n \in 0..N |-> w[n]]
        = [n \in 0..N |-> IF n = 0 THEN << >>
             ELSE IF now - s[n] < Window THEN Append(w[n - 1], s[n]) ELSE w[n - 1]]
    BY <2>1
  <2> QED
    BY <2>2, <2>3
<1> DEFINE k == CHOOSE k : Eq(k)
<1>2. Eq(k)
  <2> HIDE DEF Eq, w
  <2> QED
    BY <1>1
<1>3. SignIn!Fresh(s, now) = k[N]
  BY DEF SignIn!Fresh
<1> HIDE DEF k
<1> DEFINE Bad == {n \in 0..N : k[n] # w[n]}
<1>4. Bad = {}
  <2> SUFFICES ASSUME Bad # {}
               PROVE  FALSE
    OBVIOUS
  <2>1. Bad \subseteq Nat
    BY <1>0
  <2>2. PICK n \in Bad : \A j \in Bad : ~(<<j, n>> \in OpToRel(<, Nat))
    <3> HIDE DEF Bad
    <3> QED
      BY <2>1, NatLessThanWellFounded, WFMin, Zenon
  <2>3. \A j \in Bad : j \in Nat /\ n \in Nat /\ ~(j < n)
    <3> SUFFICES ASSUME NEW j \in Bad
                 PROVE  j \in Nat /\ n \in Nat /\ ~(j < n)
      OBVIOUS
    <3>1. j \in Nat /\ n \in Nat
      BY <2>1
    <3> HIDE DEF Bad
    <3> QED
      BY <2>2, <3>1, Zenon DEF OpToRel
  <2> HIDE DEF w
  <2>4. n \in 0..N /\ k[n] # w[n]
    OBVIOUS
  <2>5. n # 0 => k[n - 1] = w[n - 1]
    <3>1. n # 0 => n - 1 \in 0..N /\ n - 1 < n
      BY <1>0, <2>4
    <3>2. n # 0 => n - 1 \notin Bad
      BY <2>3, <3>1
    <3> QED
      BY <3>1, <3>2
  <2>6. k[n] = IF n = 0 THEN << >> ELSE IF now - s[n] < Window THEN Append(k[n - 1], s[n]) ELSE k[n - 1]
    BY <1>2, <2>4
  <2>7. w[n] = IF n = 0 THEN << >> ELSE IF now - s[n] < Window THEN Append(w[n - 1], s[n]) ELSE w[n - 1]
    BY <1>1, <2>4
  <2> QED
    BY <2>4, <2>5, <2>6, <2>7
<1>5. k[N] = w[N]
  <2> HIDE DEF w
  <2> QED
    BY <1>0, <1>4
<1>6. w[N] = Part(s, q, N)
  BY <1>0, PartIs
<1> QED
  BY <1>3, <1>5, <1>6

LEMMA FreshPast ==
  ASSUME NEW now \in Nat, NEW s, Past(s, now)
  PROVE  /\ Past(SignIn!Fresh(s, now), now) /\ Splits(SignIn!Fresh(s, now), now, 0)
         /\ \E q : /\ Splits(s, now, q) /\ Len(SignIn!Fresh(s, now)) = Len(s) - q
                   /\ \A i \in 1..Len(s) - q : SignIn!Fresh(s, now)[i] = s[q + i]
<1> DEFINE t == SignIn!Fresh(s, now)
<1>1. PICK q : Splits(s, now, q)
  BY SplitExists
<1>2. s \in Seq(Nat) /\ Len(s) \in Nat /\ q \in 0..Len(s) /\ \A i \in 1..Len(s) : s[i] \in Nat
  BY <1>1 DEF Past, Splits
<1>3. t = Part(s, q, Len(s))
  BY <1>1, FreshIs
<1> HIDE DEF t
<1>4. t \in Seq(Nat) /\ Len(t) = Len(s) - q /\ \A i \in 1..Len(s) - q : t[i] = s[q + i]
  <2>1. Len(s) \in q..Len(s)
    BY <1>2
  <2>2. /\ Part(s, q, Len(s)) \in Seq(Nat) /\ Len(Part(s, q, Len(s))) = Len(s) - q
        /\ \A i \in 1..Len(s) - q : Part(s, q, Len(s))[i] = s[q + i]
    BY <1>2, <2>1, PartIs
  <2> QED
    BY <1>3, <2>2
<1>5. \A i \in 1..Len(t) : q + i \in q + 1..Len(s) /\ q + i \in 1..Len(s) /\ t[i] = s[q + i]
  BY <1>2, <1>4
<1>6. Past(t, now)
  <2>1. \A i, j \in 1..Len(t) : i <= j => t[i] <= t[j]
    <3> SUFFICES ASSUME NEW i \in 1..Len(t), NEW j \in 1..Len(t), i <= j
                 PROVE  t[i] <= t[j]
      OBVIOUS
    <3>1. q + i \in 1..Len(s) /\ q + j \in 1..Len(s) /\ q + i <= q + j
      BY <1>2, <1>5
    <3>2. s[q + i] <= s[q + j]
      BY <3>1 DEF Past
    <3> QED
      BY <1>5, <3>2
  <2>2. \A i \in 1..Len(t) : t[i] <= now
    BY <1>5 DEF Past
  <2> QED
    BY <1>4, <2>1, <2>2 DEF Past
<1>7. Splits(t, now, 0)
  <2>1. \A i \in q + 1..Len(s) : now - s[i] < Window
    BY <1>1 DEF Splits
  <2>2. \A i \in 0 + 1..Len(t) : now - t[i] < Window
    BY <1>5, <2>1
  <2>3. Len(t) \in Nat
    BY <1>4
  <2> QED
    BY <2>2, <2>3 DEF Splits
<1> QED
  BY <1>1, <1>4, <1>6, <1>7 DEF t

LEMMA SameSeq ==
  ASSUME NEW s \in Seq(Nat), NEW t \in Seq(Nat), Len(s) = Len(t), \A i \in 1..Len(s) : s[i] = t[i]
  PROVE  s = t
OBVIOUS

\* Nothing goes that is in the window, and nothing stays if nothing is.
LEMMA FreshAll ==
  ASSUME NEW now \in Nat, NEW s, Past(s, now)
  PROVE  /\ Splits(s, now, 0) => SignIn!Fresh(s, now) = s
         /\ Splits(s, now, Len(s)) => SignIn!Fresh(s, now) = << >>
<1>0. s \in Seq(Nat) /\ Len(s) \in Nat
  BY DEF Past
<1>1. ASSUME Splits(s, now, 0) PROVE SignIn!Fresh(s, now) = s
  <2>1. SignIn!Fresh(s, now) = Part(s, 0, Len(s))
    BY <1>1, FreshIs
  <2>2. /\ Part(s, 0, Len(s)) \in Seq(Nat) /\ Len(Part(s, 0, Len(s))) = Len(s)
        /\ \A i \in 1..Len(s) : Part(s, 0, Len(s))[i] = s[i]
    BY <1>0, PartIs
  <2>3. Part(s, 0, Len(s)) = s
    BY <1>0, <2>2, SameSeq
  <2> QED
    BY <2>1, <2>3
<1>2. ASSUME Splits(s, now, Len(s)) PROVE SignIn!Fresh(s, now) = << >>
  BY <1>0, <1>2, FreshIs, PartIs
<1> QED
  BY <1>1, <1>2

LEMMA FreshNothing ==
  ASSUME NEW now \in Nat
  PROVE  Past(<< >>, now) /\ SignIn!Fresh(<< >>, now) = << >>
<1>1. Past(<< >>, now) /\ Splits(<< >>, now, 0)
  BY DEF Past, Splits
<1> QED
  BY <1>1, FreshAll

\* What left the window earlier is out of it later.
LEMMA SplitsLater ==
  ASSUME NEW now \in Nat, NEW s, Past(s, now), NEW p, Splits(s, now, p),
         NEW q, Splits(s, now + 1, q)
  PROVE  p <= q
<1>1. p \in 0..Len(s) /\ q \in 0..Len(s) /\ Len(s) \in Nat /\ \A i \in 1..Len(s) : s[i] \in Nat
  BY DEF Splits, Past
<1> SUFFICES ASSUME ~(p <= q)
             PROVE  FALSE
  OBVIOUS
<1>2. p \in 1..p /\ p \in q + 1..Len(s) /\ p \in 1..Len(s)
  BY <1>1
<1>3. now - s[p] >= Window /\ (now + 1) - s[p] < Window
  BY <1>2 DEF Splits
<1> QED
  BY <1>1, <1>2, <1>3, WindowIs

LEMMA PastLater ==
  ASSUME NEW now \in Nat, NEW s, Past(s, now)
  PROVE  Past(s, now + 1)
<1>1. \A i \in 1..Len(s) : s[i] \in Nat /\ s[i] <= now
  BY DEF Past
<1> QED
  BY <1>1 DEF Past

LEMMA FreshAgain ==
  ASSUME NEW now \in Nat, NEW s, Past(s, now)
  PROVE  SignIn!Fresh(SignIn!Fresh(s, now), now + 1) = SignIn!Fresh(s, now + 1)
<1> DEFINE t == SignIn!Fresh(s, now)
<1>1. PICK p : Splits(s, now, p) /\ Len(t) = Len(s) - p /\ \A i \in 1..Len(s) - p : t[i] = s[p + i]
  BY FreshPast
<1>2. Past(t, now)
  BY FreshPast
<1> HIDE DEF t
<1>3. Past(s, now + 1) /\ Past(t, now + 1) /\ now + 1 \in Nat
  BY <1>2, PastLater
<1>4. PICK q : Splits(s, now + 1, q)
  BY <1>3, SplitExists
<1>5. /\ p \in 0..Len(s) /\ q \in 0..Len(s) /\ p <= q /\ q - p \in 0..Len(t)
      /\ s \in Seq(Nat) /\ t \in Seq(Nat) /\ Len(s) \in Nat
  <2>1. p \in 0..Len(s) /\ q \in 0..Len(s) /\ s \in Seq(Nat) /\ t \in Seq(Nat) /\ Len(s) \in Nat
    BY <1>1, <1>2, <1>4 DEF Splits, Past
  <2>2. p <= q
    BY <1>1, <1>4, SplitsLater
  <2> QED
    BY <1>1, <2>1, <2>2
<1>6. Splits(t, now + 1, q - p)
  <2>1. ASSUME NEW i \in 1..q - p PROVE (now + 1) - t[i] >= Window
    <3>1. p + i \in 1..q /\ i \in 1..Len(s) - p
      BY <1>5
    <3> QED
      BY <1>1, <1>4, <3>1 DEF Splits
  <2>2. ASSUME NEW i \in q - p + 1..Len(t) PROVE (now + 1) - t[i] < Window
    <3>1. i \in Int /\ i >= q - p + 1 /\ i <= Len(s) - p /\ p \in Int /\ q \in Int /\ p <= q
      BY <1>1, <1>5
    <3>2. p + i \in q + 1..Len(s) /\ i \in 1..Len(s) - p
      BY <1>5, <3>1
    <3> QED
      BY <1>1, <1>4, <3>2 DEF Splits
  <2> QED
    BY <1>5, <2>1, <2>2 DEF Splits
<1>7. SignIn!Fresh(t, now + 1) = Part(t, q - p, Len(t)) /\ SignIn!Fresh(s, now + 1) = Part(s, q, Len(s))
  BY <1>3, <1>4, <1>6, FreshIs
<1>8. /\ Part(t, q - p, Len(t)) \in Seq(Nat) /\ Len(Part(t, q - p, Len(t))) = Len(t) - (q - p)
      /\ \A i \in 1..Len(t) - (q - p) : Part(t, q - p, Len(t))[i] = t[(q - p) + i]
  <2>1. q - p \in 0..Len(t) /\ Len(t) \in (q - p)..Len(t) /\ t \in Seq(Nat)
    BY <1>1, <1>5
  <2> QED
    BY <2>1, PartIs
<1>9. /\ Part(s, q, Len(s)) \in Seq(Nat) /\ Len(Part(s, q, Len(s))) = Len(s) - q
      /\ \A i \in 1..Len(s) - q : Part(s, q, Len(s))[i] = s[q + i]
  BY <1>5, PartIs
<1>10. Len(t) - (q - p) = Len(s) - q
  BY <1>1, <1>5
<1>11. \A i \in 1..Len(s) - q : t[(q - p) + i] = s[q + i]
  <2> SUFFICES ASSUME NEW i \in 1..Len(s) - q
               PROVE  t[(q - p) + i] = s[q + i]
    OBVIOUS
  <2>1. (q - p) + i \in 1..Len(s) - p /\ p + ((q - p) + i) = q + i
    BY <1>5
  <2> QED
    BY <1>1, <2>1
<1>12. Part(t, q - p, Len(t)) = Part(s, q, Len(s))
  BY <1>8, <1>9, <1>10, <1>11, SameSeq
<1> QED
  BY <1>7, <1>12 DEF t

-----------------------------------------------------------------------------
(* Signing in: limiters                                                    *)

LimiterOK(ev) == ev = [k \in DOMAIN ev |-> ev[k]] /\ \A k \in DOMAIN ev : Past(ev[k], clock)

LEMMA TimesAre ==
  ASSUME clock \in Nat, NEW ev, LimiterOK(ev), NEW k
  PROVE  /\ Past(SignIn!Times(ev, k), clock)
         /\ SignIn!Recent(SignIn!Times(ev, k)) = SignIn!Times(ev, k)
         /\ Splits(SignIn!Times(ev, k), clock, 0)
<1>1. CASE k \in DOMAIN ev
  <2>1. Past(ev[k], clock) /\ SignIn!Times(ev, k) = SignIn!Fresh(ev[k], clock)
    BY <1>1 DEF LimiterOK, SignIn!Times, SignIn!Recent
  <2> QED
    BY <2>1, FreshPast, FreshAll DEF SignIn!Recent
<1>2. CASE k \notin DOMAIN ev
  <2>1. SignIn!Times(ev, k) = << >>
    BY <1>2 DEF SignIn!Times
  <2>2. Splits(<< >>, clock, 0)
    BY DEF Splits
  <2> QED
    BY <2>1, <2>2, FreshNothing DEF SignIn!Recent
<1> QED
  BY <1>1, <1>2

LEMMA PutIs ==
  ASSUME clock \in Nat, NEW ev, LimiterOK(ev), NEW k, NEW times, Past(times, clock)
  PROVE  /\ LimiterOK(SignIn!Put(ev, k, times))
         /\ SignIn!Times(SignIn!Put(ev, k, times), k) = SignIn!Recent(times)
         /\ \A j : j # k => SignIn!Times(SignIn!Put(ev, k, times), j) = SignIn!Times(ev, j)
<1> DEFINE new == SignIn!Put(ev, k, times)
<1>1. new = [j \in DOMAIN ev \cup {k} |-> IF j = k THEN times ELSE ev[j]]
  BY DEF SignIn!Put
<1> HIDE DEF new
<1>2. DOMAIN new = DOMAIN ev \cup {k} /\ new[k] = times /\ \A j \in DOMAIN ev : j # k => new[j] = ev[j]
  BY <1>1
<1>3. new = [j \in DOMAIN new |-> new[j]]
  BY <1>1
<1>4. LimiterOK(new)
  BY <1>2, <1>3 DEF LimiterOK
<1>5. SignIn!Times(new, k) = SignIn!Recent(times)
  BY <1>2 DEF SignIn!Times
<1>6. \A j : j # k => SignIn!Times(new, j) = SignIn!Times(ev, j)
  BY <1>2 DEF SignIn!Times
<1> QED
  BY <1>4, <1>5, <1>6 DEF new

LEMMA RestrictIs ==
  ASSUME clock \in Nat, NEW ev, LimiterOK(ev), NEW S, S \subseteq DOMAIN ev
  PROVE  /\ LimiterOK(SignIn!Restrict(ev, S))
         /\ \A k : SignIn!Times(SignIn!Restrict(ev, S), k) =
                     IF k \in S THEN SignIn!Times(ev, k) ELSE << >>
<1> DEFINE new == SignIn!Restrict(ev, S)
<1>1. new = [k \in S |-> ev[k]]
  BY DEF SignIn!Restrict
<1> HIDE DEF new
<1>2. DOMAIN new = S /\ \A k \in S : new[k] = ev[k]
  BY <1>1
<1>3. LimiterOK(new)
  BY <1>1, <1>2 DEF LimiterOK
<1>4. \A k : SignIn!Times(new, k) = IF k \in S THEN SignIn!Times(ev, k) ELSE << >>
  BY <1>2 DEF SignIn!Times
<1> QED
  BY <1>3, <1>4 DEF new

\* A key that pruning removes has no record in the window.
LEMMA PrunedIs ==
  ASSUME clock \in Nat, NEW ev, LimiterOK(ev)
  PROVE  LimiterOK(SignIn!Pruned(ev)) /\ \A k : SignIn!Times(SignIn!Pruned(ev), k) = SignIn!Times(ev, k)
<1> DEFINE S == {k \in DOMAIN ev : ev[k] # << >> /\ clock - SignIn!Last(ev[k]) < Window}
<1>1. ASSUME NEW k \in DOMAIN ev \ S PROVE SignIn!Times(ev, k) = << >>
  <2>1. Past(ev[k], clock) /\ SignIn!Times(ev, k) = SignIn!Fresh(ev[k], clock)
    BY DEF LimiterOK, SignIn!Times, SignIn!Recent
  <2>2. CASE ev[k] = << >>
    BY <2>1, <2>2, FreshNothing
  <2>3. CASE ev[k] # << >>
    <3> DEFINE s == ev[k]
               n == Len(s)
    <3>1. s \in Seq(Nat) /\ n \in Nat /\ n > 0 /\ \A i \in 1..n : s[i] \in Nat /\ s[i] <= s[n]
      <4>1. s \in Seq(Nat)
        BY <2>1 DEF Past
      <4>2. n \in Nat /\ n > 0
        BY <2>3, <4>1
      <4>3. \A i \in 1..n : i <= n /\ n \in 1..n
        BY <4>2
      <4> QED
        BY <2>1, <4>1, <4>2, <4>3 DEF Past
    <3>2. ~(clock - s[n] < Window)
      BY <1>1, <2>3 DEF SignIn!Last
    <3> HIDE DEF s
    <3>3. \A i \in 1..n : clock - s[i] >= Window
      <4> SUFFICES ASSUME NEW i \in 1..n
                   PROVE  clock - s[i] >= Window
        OBVIOUS
      <4>1. s[i] \in Nat /\ s[n] \in Nat /\ s[i] <= s[n]
        BY <3>1
      <4> QED
        BY <3>2, <4>1, WindowIs
    <3>4. Splits(s, clock, n)
      BY <3>1, <3>3 DEF Splits
    <3> QED
      BY <2>1, <3>4, FreshAll DEF s
  <2> QED
    BY <2>2, <2>3
<1>2. SignIn!Pruned(ev) = ev \/ SignIn!Pruned(ev) = SignIn!Restrict(ev, S)
  BY DEF SignIn!Pruned
<1>3. S \subseteq DOMAIN ev
  OBVIOUS
<1> HIDE DEF S
<1>4. \A k : k \notin DOMAIN ev => SignIn!Times(ev, k) = << >>
  BY DEF SignIn!Times
<1> QED
  BY <1>1, <1>2, <1>3, <1>4, RestrictIs

\* Looking changes nothing that is in the window.
LEMMA LookedIs ==
  ASSUME clock \in Nat, NEW ev, LimiterOK(ev), NEW k
  PROVE  /\ LimiterOK(SignIn!Looked(ev, k))
         /\ \A j : SignIn!Times(SignIn!Looked(ev, k), j) = SignIn!Times(ev, j)
         /\ SignIn!Free(ev, k) <=> Len(SignIn!Times(ev, k)) < Limit
<1>1. /\ LimiterOK(SignIn!Pruned(ev))
      /\ \A j : SignIn!Times(SignIn!Pruned(ev), j) = SignIn!Times(ev, j)
  BY PrunedIs
<1>2. Past(SignIn!Times(ev, k), clock) /\ SignIn!Recent(SignIn!Times(ev, k)) = SignIn!Times(ev, k)
  BY TimesAre
<1>3. SignIn!Looked(ev, k) = SignIn!Put(SignIn!Pruned(ev), k, SignIn!Times(ev, k))
  BY <1>1 DEF SignIn!Looked
<1>4. SignIn!Free(ev, k) <=> Len(SignIn!Times(ev, k)) < Limit
  BY <1>1 DEF SignIn!Free
<1> QED
  BY <1>1, <1>2, <1>3, <1>4, PutIs

LEMMA AppendPast ==
  ASSUME NEW now \in Nat, NEW s, Past(s, now)
  PROVE  Past(Append(s, now), now) /\ (Splits(s, now, 0) => Splits(Append(s, now), now, 0))
<1> DEFINE t == Append(s, now)
<1>1. /\ s \in Seq(Nat) /\ t \in Seq(Nat) /\ Len(s) \in Nat /\ Len(t) = Len(s) + 1
      /\ t[Len(s) + 1] = now /\ \A i \in 1..Len(s) : t[i] = s[i] /\ s[i] \in Nat /\ s[i] <= now
  BY DEF Past
<1> HIDE DEF t
<1>2. \A i \in 1..Len(t) : i \in Nat /\ i <= Len(s) + 1 /\ (i \in 1..Len(s) \/ i = Len(s) + 1)
  BY <1>1
<1>3. \A i, j \in 1..Len(t) : i <= j => t[i] <= t[j]
  <2> SUFFICES ASSUME NEW i \in 1..Len(t), NEW j \in 1..Len(t), i <= j
               PROVE  t[i] <= t[j]
    OBVIOUS
  <2>1. CASE j \in 1..Len(s)
    <3>1. i \in 1..Len(s)
      BY <1>1, <1>2, <2>1
    <3>2. s[i] <= s[j]
      BY <2>1, <3>1 DEF Past
    <3> QED
      BY <1>1, <2>1, <3>1, <3>2
  <2>2. CASE j = Len(s) + 1
    <3>1. t[j] = now
      BY <1>1, <2>2
    <3>2. t[i] <= now
      <4>1. CASE i \in 1..Len(s)
        BY <1>1, <4>1
      <4>2. CASE i = Len(s) + 1
        BY <1>1, <4>2
      <4> QED
        BY <1>2, <4>1, <4>2
    <3> QED
      BY <3>1, <3>2
  <2> QED
    BY <1>2, <2>1, <2>2
<1>4. Past(t, now)
  <2>1. \A i \in 1..Len(t) : t[i] <= now
    BY <1>1, <1>2
  <2> QED
    BY <1>1, <1>3, <2>1 DEF Past
<1>5. ASSUME Splits(s, now, 0) PROVE Splits(t, now, 0)
  <2>1. \A i \in 0 + 1..Len(s) : now - s[i] < Window
    BY <1>5 DEF Splits
  <2>2. \A i \in 0 + 1..Len(t) : now - t[i] < Window
    <3>1. \A i \in 1..Len(s) : now - t[i] < Window
      BY <1>1, <2>1
    <3>2. now - t[Len(s) + 1] < Window
      BY <1>1, WindowIs
    <3> QED
      BY <1>2, <3>1, <3>2
  <2> QED
    BY <1>1, <2>2 DEF Splits
<1> QED
  BY <1>4, <1>5 DEF t

\* Counting adds a record where there is room.
LEMMA CountedIs ==
  ASSUME clock \in Nat, NEW ev, LimiterOK(ev), NEW k
  PROVE  /\ LimiterOK(SignIn!Counted(ev, k))
         /\ \A j : j # k => SignIn!Times(SignIn!Counted(ev, k), j) = SignIn!Times(ev, j)
         /\ SignIn!Times(SignIn!Counted(ev, k), k) =
              IF Len(SignIn!Times(ev, k)) < Limit THEN Append(SignIn!Times(ev, k), clock)
              ELSE SignIn!Times(ev, k)
<1> DEFINE t == SignIn!Times(ev, k)
<1>1. /\ LimiterOK(SignIn!Pruned(ev))
      /\ \A j : SignIn!Times(SignIn!Pruned(ev), j) = SignIn!Times(ev, j)
  BY PrunedIs
<1>2. SignIn!Free(ev, k) <=> Len(t) < Limit
  BY LookedIs
<1>3. Past(t, clock) /\ Splits(t, clock, 0)
  BY TimesAre
<1>4. CASE Len(t) < Limit
  <2>1. SignIn!Counted(ev, k) = SignIn!Put(SignIn!Pruned(ev), k, Append(t, clock))
    BY <1>1, <1>2, <1>4 DEF SignIn!Counted
  <2> HIDE DEF t
  <2>2. Past(Append(t, clock), clock) /\ Splits(Append(t, clock), clock, 0)
    BY <1>3, AppendPast
  <2>3. SignIn!Recent(Append(t, clock)) = Append(t, clock)
    BY <2>2, FreshAll DEF SignIn!Recent
  <2> QED
    BY <1>1, <1>4, <2>1, <2>2, <2>3, PutIs DEF t
<1>5. CASE ~(Len(t) < Limit)
  <2>1. SignIn!Counted(ev, k) = SignIn!Looked(ev, k)
    BY <1>2, <1>5 DEF SignIn!Counted
  <2> QED
    BY <1>5, <2>1, LookedIs
<1> QED
  BY <1>4, <1>5

LEMMA ResetIs ==
  ASSUME clock \in Nat, NEW ev, LimiterOK(ev), NEW k
  PROVE  /\ LimiterOK(SignIn!Reset(ev, k)) /\ SignIn!Times(SignIn!Reset(ev, k), k) = << >>
         /\ \A j : j # k => SignIn!Times(SignIn!Reset(ev, k), j) = SignIn!Times(ev, j)
<1>1. SignIn!Reset(ev, k) = SignIn!Restrict(ev, DOMAIN ev \ {k})
  BY DEF SignIn!Reset
<1>2. \A j : j \notin DOMAIN ev => SignIn!Times(ev, j) = << >>
  BY DEF SignIn!Times
<1> QED
  BY <1>1, <1>2, RestrictIs

\* The clock goes on.
LEMMA TimesLater ==
  ASSUME clock \in Nat, clock' = clock + 1, NEW ev, LimiterOK(ev)
  PROVE  /\ ev = [k \in DOMAIN ev |-> ev[k]] /\ \A k \in DOMAIN ev : Past(ev[k], clock')
         /\ \A k : /\ k \in DOMAIN ev => SignIn!Fresh(ev[k], clock') = SignIn!Fresh(SignIn!Times(ev, k), clock')
                   /\ k \notin DOMAIN ev => SignIn!Fresh(SignIn!Times(ev, k), clock') = << >>
<1>1. ASSUME NEW k \in DOMAIN ev
      PROVE  Past(ev[k], clock') /\ SignIn!Fresh(ev[k], clock') = SignIn!Fresh(SignIn!Times(ev, k), clock')
  <2>1. Past(ev[k], clock) /\ SignIn!Times(ev, k) = SignIn!Fresh(ev[k], clock)
    BY DEF LimiterOK, SignIn!Times, SignIn!Recent
  <2> QED
    BY <2>1, PastLater, FreshAgain
<1>2. ASSUME NEW k, k \notin DOMAIN ev PROVE SignIn!Fresh(SignIn!Times(ev, k), clock') = << >>
  BY <1>2, FreshNothing DEF SignIn!Times
<1> QED
  BY <1>1, <1>2 DEF LimiterOK

-----------------------------------------------------------------------------
(* Signing in: wrong passwords against those that were counted             *)

LEMMA SignInCounts ==
  /\ IsFiniteSet(Requests) /\ Cardinality(Requests) \in Nat /\ Cardinality(Requests) > 0
  /\ SignIn!Cardinality(Requests) = Cardinality(Requests)
<1>1. SignIn!IsFiniteSet(Requests) <=> IsFiniteSet(Requests)
  BY DEF SignIn!IsFiniteSet, IsFiniteSet
<1>2. IsFiniteSet(Requests) /\ Requests # {}
  BY <1>1, PanelAssumption DEF PanelAssumption, SignIn!LimitsAssumption
<1>3. SignIn!Cardinality(Requests) = Cardinality(Requests)
  BY DEF SignIn!Cardinality, Cardinality
<1> QED
  BY <1>2, <1>3, FS_CardinalityType, FS_EmptySet

\* Room for b wrong passwords and, for each of j counted ones, for one of every request.
Space(j, b) == Cardinality(Requests) * j + b

LEMMA RoomIs ==
  ASSUME NEW j \in Nat, NEW b \in Nat
  PROVE  /\ Space(j, b) \in Nat /\ Space(0, b) = b
         /\ Space(j + 1, b) = Space(j, b) + Cardinality(Requests)
         /\ \A c \in Nat : Space(j, b + c) = Space(j, b) + c
         /\ \A i \in Nat : j <= i => Space(j, b) <= Space(i, b)
<1> DEFINE R == Cardinality(Requests)
<1>1. R \in Nat
  BY SignInCounts
<1> HIDE DEF R
<1>2. R * j \in Nat /\ R * 0 = 0 /\ R * (j + 1) = R * j + R
  BY <1>1
<1>3. ASSUME NEW i \in Nat, j <= i PROVE R * j <= R * i
  <2>1. i - j \in Nat /\ R * (i - j) >= 0
    BY <1>1, <1>3
  <2>2. R * i = R * j + R * (i - j)
    BY <1>1, <2>1
  <2>3. R * i \in Nat /\ R * (i - j) \in Nat
    BY <1>1, <2>1
  <2> QED
    BY <1>2, <2>1, <2>2, <2>3
<1>4. \A c : Space(j, c) = R * j + c /\ Space(0, c) = R * 0 + c /\ Space(j + 1, c) = R * (j + 1) + c
  BY DEF Space, R
<1>5. \A i : Space(i, b) = R * i + b
  BY DEF Space, R
<1>6. \A i \in Nat : R * i \in Nat
  BY <1>1
<1>7. Space(j, b) \in Nat /\ Space(0, b) = b /\ Space(j + 1, b) = Space(j, b) + R
  BY <1>1, <1>2, <1>4
<1>8. \A c \in Nat : Space(j, b + c) = Space(j, b) + c
  BY <1>2, <1>4
<1>9. \A i \in Nat : j <= i => Space(j, b) <= Space(i, b)
  BY <1>2, <1>3, <1>5, <1>6
<1> QED
  BY <1>7, <1>8, <1>9 DEF R

\* The wrong passwords g and the counted ones f, both from the last one back: a wrong one that is
\* further back than there is room for is no later than the counted one that it belongs to.
Matches(f, g, b) ==
  \A j \in 0..Len(f) :
    Len(g) > Space(j, b) => j < Len(f) /\ g[Len(g) - Space(j, b)] <= f[Len(f) - j]

\* One more is wrong.
LEMMA WrongFollows ==
  ASSUME NEW now \in Nat, NEW f, NEW g, Past(f, now), Past(g, now), NEW b \in Nat, Matches(f, g, b)
  PROVE  Matches(f, Append(g, now), b + 1)
<1> DEFINE h == Append(g, now)
<1>1. Len(g) \in Nat /\ Len(h) = Len(g) + 1 /\ \A i \in 1..Len(g) : h[i] = g[i]
  BY DEF Past
<1>2. Len(f) \in Nat
  BY DEF Past
<1> HIDE DEF h
<1>3. ASSUME NEW j \in 0..Len(f), Len(h) > Space(j, b + 1)
      PROVE  j < Len(f) /\ h[Len(h) - Space(j, b + 1)] <= f[Len(f) - j]
  <2>1. j \in Nat /\ Space(j, b) \in Nat /\ Space(j, b + 1) = Space(j, b) + 1
    BY <1>2, RoomIs
  <2>2. Len(g) > Space(j, b) /\ Len(h) - Space(j, b + 1) = Len(g) - Space(j, b)
        /\ Len(g) - Space(j, b) \in 1..Len(g)
    BY <1>1, <1>3, <2>1
  <2>3. j < Len(f) /\ g[Len(g) - Space(j, b)] <= f[Len(f) - j]
    BY <2>2 DEF Matches
  <2> QED
    BY <1>1, <2>2, <2>3
<1> QED
  BY <1>3 DEF Matches, h

\* There is more room.
LEMMA RoomFollows ==
  ASSUME NEW now \in Nat, NEW f, NEW g, Past(f, now), Past(g, now),
         NEW b \in Nat, NEW c \in Nat, b <= c, Matches(f, g, b)
  PROVE  Matches(f, g, c)
<1>1. Len(g) \in Nat /\ Len(f) \in Nat /\ (\A i \in 1..Len(g) : g[i] \in Nat)
      /\ (\A i \in 1..Len(f) : f[i] \in Nat)
  BY DEF Past
<1>2. ASSUME NEW j \in 0..Len(f), Len(g) > Space(j, c)
      PROVE  j < Len(f) /\ g[Len(g) - Space(j, c)] <= f[Len(f) - j]
  <2>1. j \in Nat /\ Space(j, b) \in Nat /\ Space(j, c) \in Nat /\ Space(j, b) <= Space(j, c)
    <3>1. j \in Nat /\ c - b \in Nat /\ c = b + (c - b)
      BY <1>1
    <3>2. PICK d \in Nat : d = c - b
      BY <3>1
    <3>3. Space(j, b + d) = Space(j, b) + d /\ Space(j, b) \in Nat
      BY <3>1, <3>2, RoomIs
    <3>4. Space(j, c) \in Nat
      BY <3>1, RoomIs
    <3>5. b + d = c
      BY <3>1, <3>2
    <3> QED
      BY <3>1, <3>3, <3>4, <3>5
  <2>2. Len(g) > Space(j, b) /\ Len(g) - Space(j, b) \in 1..Len(g) /\ Len(g) - Space(j, c) \in 1..Len(g)
        /\ Len(g) - Space(j, c) <= Len(g) - Space(j, b)
    BY <1>1, <1>2, <2>1
  <2>3. j < Len(f) /\ g[Len(g) - Space(j, b)] <= f[Len(f) - j]
    BY <2>2 DEF Matches
  <2>4. g[Len(g) - Space(j, c)] <= g[Len(g) - Space(j, b)]
    BY <2>2 DEF Past
  <2>5. Len(f) - j \in 1..Len(f)
    BY <1>1, <2>1, <2>3
  <2>6. g[Len(g) - Space(j, c)] \in Nat /\ g[Len(g) - Space(j, b)] \in Nat /\ f[Len(f) - j] \in Nat
    BY <1>1, <2>2, <2>5
  <2> QED
    BY <2>3, <2>4, <2>6
<1> QED
  BY <1>2 DEF Matches

\* One more is counted: it is worth one wrong password of every request.
LEMMA CountedFollows ==
  ASSUME NEW now \in Nat, NEW f, NEW g, Past(f, now), Past(g, now),
         NEW b \in Nat, NEW c \in Nat, b <= c + Cardinality(Requests), Matches(f, g, b)
  PROVE  Matches(Append(f, now), g, c)
<1> DEFINE e == Append(f, now)
           R == Cardinality(Requests)
<1>1. Len(f) \in Nat /\ Len(e) = Len(f) + 1 /\ e[Len(f) + 1] = now
      /\ \A i \in 1..Len(f) : e[i] = f[i]
  BY DEF Past
<1>2. Len(g) \in Nat /\ \A i \in 1..Len(g) : g[i] \in Nat /\ g[i] <= now
  BY DEF Past
<1>3. R \in Nat
  BY SignInCounts
<1> HIDE DEF e, R
<1>4. Matches(f, g, c + R)
  BY <1>3, RoomFollows DEF R
<1>5. ASSUME NEW j \in 0..Len(e), Len(g) > Space(j, c)
      PROVE  j < Len(e) /\ g[Len(g) - Space(j, c)] <= e[Len(e) - j]
  <2>1. CASE j = 0
    <3>1. Space(0, c) = c
      BY RoomIs
    <3>2. Len(g) - c \in 1..Len(g) /\ Len(e) - 0 = Len(f) + 1 /\ 0 < Len(e)
      BY <1>1, <1>2, <1>5, <2>1, <3>1
    <3>3. g[Len(g) - c] <= now
      BY <1>2, <3>2
    <3> QED
      BY <1>1, <2>1, <3>1, <3>2, <3>3
  <2>2. CASE j # 0
    <3>1. j - 1 \in Nat /\ j - 1 \in 0..Len(f) /\ (j - 1) + 1 = j
      BY <1>1, <2>2
    <3>2. /\ Space((j - 1) + 1, c) = Space(j - 1, c) + R
          /\ Space(j - 1, c + R) = Space(j - 1, c) + R
      BY <1>3, <3>1, RoomIs DEF R
    <3>3. Space(j, c) = Space(j - 1, c + R)
      BY <3>1, <3>2
    <3>4. j - 1 < Len(f) /\ g[Len(g) - Space(j - 1, c + R)] <= f[Len(f) - (j - 1)]
      BY <1>4, <1>5, <3>1, <3>3 DEF Matches
    <3>5. Len(e) - j = Len(f) - (j - 1) /\ Len(f) - (j - 1) \in 1..Len(f) /\ j < Len(e)
      BY <1>1, <3>1, <3>4
    <3>6. e[Len(e) - j] = f[Len(f) - (j - 1)]
      BY <1>1, <3>5
    <3> QED
      BY <3>3, <3>4, <3>5, <3>6
  <2> QED
    BY <2>1, <2>2
<1> QED
  BY <1>5 DEF Matches, e

\* The window goes on: the wrong one is not thrown away after the counted one that it belongs to.
LEMMA FreshFollows ==
  ASSUME NEW now \in Nat, NEW f, NEW g, Past(f, now), Past(g, now), NEW b \in Nat, Matches(f, g, b)
  PROVE  Matches(SignIn!Fresh(f, now), SignIn!Fresh(g, now), b)
<1> DEFINE e == SignIn!Fresh(f, now)
           h == SignIn!Fresh(g, now)
<1>0. \E q : Splits(g, now, q) /\ Len(h) = Len(g) - q /\ \A i \in 1..Len(g) - q : h[i] = g[q + i]
  <2>1. now \in Nat /\ Past(g, now)
    OBVIOUS
  <2> HIDE DEF e
  <2> QED
    BY ONLY <2>1, FreshPast DEF h
<1>1. PICK p : Splits(f, now, p) /\ Len(e) = Len(f) - p /\ \A i \in 1..Len(f) - p : e[i] = f[p + i]
  BY FreshPast
<1>2. PICK q : Splits(g, now, q) /\ Len(h) = Len(g) - q /\ \A i \in 1..Len(g) - q : h[i] = g[q + i]
  BY <1>0
<1> HIDE DEF e, h
<1>3. /\ Len(f) \in Nat /\ p \in 0..Len(f) /\ Len(g) \in Nat /\ q \in 0..Len(g)
      /\ \A i \in 1..Len(f) : f[i] \in Nat
      /\ \A i \in 1..Len(g) : g[i] \in Nat
  BY <1>1, <1>2 DEF Past, Splits
<1>4. ASSUME NEW j \in 0..Len(e), Len(h) > Space(j, b)
      PROVE  j < Len(e) /\ h[Len(h) - Space(j, b)] <= e[Len(e) - j]
  <2>0. j \in Nat /\ j \in 0..Len(f)
    BY <1>1, <1>3
  <2>1. j \in Nat /\ Space(j, b) \in Nat /\ j \in 0..Len(f)
    BY <2>0, RoomIs
  <2> DEFINE k == Len(g) - Space(j, b)
  <2>2. Len(g) > Space(j, b) /\ k \in q + 1..Len(g) /\ k \in 1..Len(g) /\ Len(h) - Space(j, b) = k - q
        /\ k - q \in 1..Len(g) - q /\ q + (k - q) = k
    BY <1>2, <1>3, <1>4, <2>1
  <2> HIDE DEF k
  <2>3. j < Len(f) /\ g[k] <= f[Len(f) - j]
    BY <2>1, <2>2 DEF Matches, k
  <2>4. Len(f) - j \in 1..Len(f)
    BY <1>3, <2>1, <2>3
  <2>5. now - g[k] < Window
    BY <1>2, <2>2 DEF Splits
  <2>6. now - f[Len(f) - j] < Window
    <3>1. PICK x \in Nat : x = g[k]
      BY <1>3, <2>2
    <3>2. PICK y \in Nat : y = f[Len(f) - j]
      BY <1>3, <2>4
    <3> QED
      BY <2>3, <2>5, <3>1, <3>2, WindowIs
  <2>7. ~(Len(f) - j <= p)
    <3>1. ASSUME Len(f) - j <= p PROVE FALSE
      <4>1. Len(f) - j \in 1..p
        BY <1>3, <2>4, <3>1
      <4>2. now - f[Len(f) - j] >= Window
        BY <1>1, <4>1 DEF Splits
      <4> QED
        BY <1>3, <2>4, <2>6, <4>2, WindowIs
    <3> QED
      BY <3>1
  <2>8. j < Len(e) /\ Len(e) - j \in 1..Len(f) - p /\ p + (Len(e) - j) = Len(f) - j
    BY <1>1, <1>3, <2>1, <2>4, <2>7
  <2>9. e[Len(e) - j] = f[Len(f) - j] /\ h[k - q] = g[k]
    BY <1>1, <1>2, <2>2, <2>8
  <2> QED
    BY <2>2, <2>3, <2>8, <2>9
<1> QED
  BY <1>4 DEF Matches, e, h

\* After all that is counted there is room for.
LEMMA FollowsBounds ==
  ASSUME NEW now \in Nat, NEW f, NEW g, Past(f, now), Past(g, now), NEW b \in Nat, Matches(f, g, b)
  PROVE  Len(g) <= Space(Len(f), b)
<1>1. Len(f) \in Nat /\ Len(f) \in 0..Len(f) /\ Len(g) \in Nat
  BY DEF Past
<1>2. Space(Len(f), b) \in Nat
  BY <1>1, RoomIs
<1>3. ~(Len(g) > Space(Len(f), b))
  BY <1>1 DEF Matches
<1> QED
  BY <1>1, <1>2, <1>3

LEMMA NothingFollows ==
  ASSUME NEW b \in Nat
  PROVE  Matches(<< >>, << >>, b)
<1>1. \A j \in 0..0 : Space(j, b) \in Nat
  BY RoomIs
<1> QED
  BY <1>1 DEF Matches

-----------------------------------------------------------------------------
(* Signing in: the invariant                                               *)

SignInTypes ==
  /\ clock \in Nat
  /\ LimiterOK(sends) /\ LimiterOK(nameFails)
  /\ mailed = [i \in Ips |-> mailed[i]]
  /\ guessed = [n \in SignInNames |-> guessed[n]]
  /\ \A n \in SignInNames : Past(guessed[n], clock)
  /\ req \in [Requests -> {SignIn!Idle} \cup [at : {"name", "verify", "count ip", "count name"},
                                              ip : Ips, name : SignInNames]]

\* Sign-ins of a name that were let through: those that may still find a wrong password out, and
\* those that are not counted yet.
Trying(n) == {r \in Requests : req[r].at = "verify" /\ req[r].name = n}
Uncounted(n) == {r \in Requests : req[r].at \in {"verify", "count ip", "count name"} /\ req[r].name = n}

\* How many wrong passwords may still be found out besides those that the counted ones leave room
\* for: when the name is locked, nobody is let through any more.
Slack(n) ==
  Cardinality(Requests) - 1 - Cardinality(Trying(n))
    + IF Len(SignIn!Times(nameFails, n)) < Limit THEN Cardinality(Uncounted(n)) ELSE 0

CodesInv ==
  \A i \in Ips : mailed[i] = SignIn!Times(sends, i) /\ Len(SignIn!Times(sends, i)) <= Limit

GuessesInv ==
  \A n \in SignInNames :
    /\ Len(SignIn!Times(nameFails, n)) <= Limit
    /\ Slack(n) \in Nat
    /\ Matches(SignIn!Times(nameFails, n), guessed[n], Slack(n))

SignInInv == SignInTypes /\ CodesInv /\ GuessesInv

\* How many there are.
LEMMA TryingIs ==
  \A n : /\ Trying(n) \subseteq Uncounted(n) /\ Uncounted(n) \subseteq Requests
         /\ IsFiniteSet(Trying(n)) /\ IsFiniteSet(Uncounted(n))
         /\ Cardinality(Trying(n)) \in Nat /\ Cardinality(Uncounted(n)) \in Nat
         /\ Cardinality(Trying(n)) <= Cardinality(Uncounted(n))
         /\ Cardinality(Uncounted(n)) <= Cardinality(Requests)
<1> SUFFICES ASSUME NEW n
             PROVE  /\ Trying(n) \subseteq Uncounted(n) /\ Uncounted(n) \subseteq Requests
                    /\ IsFiniteSet(Trying(n)) /\ IsFiniteSet(Uncounted(n))
                    /\ Cardinality(Trying(n)) \in Nat /\ Cardinality(Uncounted(n)) \in Nat
                    /\ Cardinality(Trying(n)) <= Cardinality(Uncounted(n))
                    /\ Cardinality(Uncounted(n)) <= Cardinality(Requests)
  OBVIOUS
<1>1. Trying(n) \subseteq Uncounted(n) /\ Uncounted(n) \subseteq Requests
  BY DEF Trying, Uncounted
<1>2. IsFiniteSet(Uncounted(n)) /\ Cardinality(Uncounted(n)) <= Cardinality(Requests)
  BY <1>1, SignInCounts, FS_Subset
<1>3. IsFiniteSet(Trying(n)) /\ Cardinality(Trying(n)) <= Cardinality(Uncounted(n))
  BY <1>1, <1>2, FS_Subset
<1> QED
  BY <1>1, <1>2, <1>3, FS_CardinalityType

LEMMA SignInIsLimited == SignInInv => SignIn!CodesAreLimited /\ SignIn!GuessesAreLimited
<1> SUFFICES ASSUME SignInInv
             PROVE  SignIn!CodesAreLimited /\ SignIn!GuessesAreLimited
  OBVIOUS
<1>1. SignIn!CodesAreLimited
  BY DEF SignInInv, CodesInv, SignIn!CodesAreLimited
<1> DEFINE R == Cardinality(Requests)
<1>2. R \in Nat /\ R > 0 /\ SignIn!Cardinality(Requests) = R
  BY SignInCounts
<1>3. ASSUME NEW n \in SignInNames PROVE Len(guessed[n]) <= (Limit + 1) * R - 1
  <2> DEFINE f == SignIn!Times(nameFails, n)
             g == guessed[n]
             b == Slack(n)
             v == Cardinality(Trying(n))
             u == Cardinality(Uncounted(n))
  <2>1. Past(f, clock) /\ Past(g, clock) /\ clock \in Nat
    BY TimesAre DEF SignInInv, SignInTypes
  <2>2. Len(f) \in Nat /\ Len(f) <= Limit /\ b \in Nat /\ Matches(f, g, b) /\ Len(g) \in Nat
    BY <2>1 DEF SignInInv, GuessesInv, Past
  <2>3. b = R - 1 - v + IF Len(f) < Limit THEN u ELSE 0
    BY DEF Slack
  <2>4. v \in Nat /\ u \in Nat /\ u <= R
    BY TryingIs
  <2> HIDE DEF f, g, b, v, u
  <2>5. Len(g) <= Space(Len(f), b)
    BY <2>1, <2>2, FollowsBounds
  <2>6. Limit \in Nat /\ Space(Limit, 0) \in Nat /\ Space(Limit + 1, 0) = Space(Limit, 0) + R
        /\ Space(Limit + 1, 0) \in Nat
    <3>1. Limit \in Nat /\ 0 \in Nat
      BY WindowIs
    <3>2. Space(Limit, 0) \in Nat /\ Space(Limit + 1, 0) = Space(Limit, 0) + R
      BY <3>1, RoomIs
    <3> QED
      BY <1>2, <3>1, <3>2
  <2>7. Space(Limit + 1, 0) = (Limit + 1) * R
    BY <1>2, <2>6 DEF Space
  <2>8. Space(Len(f), 0) \in Nat /\ Space(Len(f), 0 + b) = Space(Len(f), 0) + b
    BY <2>2, RoomIs
  <2>9. Space(Len(f), b) <= Space(Limit, 0) + R - 1
    <3> HIDE DEF R
    <3>1. CASE Len(f) < Limit
      <4>1. Len(f) + 1 \in Nat /\ Len(f) + 1 <= Limit
        BY <2>2, <2>6, <3>1
      <4>2. Space(Len(f) + 1, 0) <= Space(Limit, 0) /\ Space(Len(f) + 1, 0) = Space(Len(f), 0) + R
        BY <2>2, <2>6, <4>1, RoomIs DEF R
      <4>3. b = R - 1 - v + u
        BY <2>3, <3>1
      <4> QED
        BY <1>2, <2>2, <2>4, <2>6, <2>8, <4>2, <4>3
    <3>2. CASE ~(Len(f) < Limit)
      <4>1. Len(f) = Limit /\ b = R - 1 - v
        BY <2>2, <2>3, <2>4, <2>6, <3>2, <1>2
      <4> QED
        BY <1>2, <2>2, <2>4, <2>6, <2>8, <4>1
    <3> QED
      BY <3>1, <3>2
  <2>10. Space(Len(f), b) \in Nat
    BY <2>2, RoomIs
  <2> HIDE DEF R
  <2>11. Len(g) <= Space(Limit + 1, 0) - 1
    BY <1>2, <2>2, <2>5, <2>6, <2>9, <2>10
  <2> QED
    BY <2>7, <2>11 DEF g
<1> QED
  BY <1>1, <1>2, <1>3 DEF SignIn!GuessesAreLimited

LEMMA SignInStarts == SignIn!Init => SignInInv
<1> SUFFICES ASSUME SignIn!Init
             PROVE  SignInInv
  OBVIOUS
<1>1. \A ev, k : ev = << >> => SignIn!Times(ev, k) = << >>
  BY DEF SignIn!Times
<1>2. Past(<< >>, clock) /\ clock \in Nat
  BY FreshNothing DEF SignIn!Init
<1>3. LimiterOK(<< >>)
  BY DEF LimiterOK
<1>4. SignInTypes
  <2>1. req \in [Requests -> {SignIn!Idle}]
    BY DEF SignIn!Init
  <2> QED
    BY <1>2, <1>3, <2>1 DEF SignIn!Init, SignInTypes
<1>5. CodesInv
  <2>1. sends = << >> /\ \A i \in Ips : mailed[i] = << >>
    BY DEF SignIn!Init
  <2>2. \A i : SignIn!Times(sends, i) = << >>
    BY <1>1, <2>1
  <2>3. Len(<< >>) <= Limit
    BY WindowIs
  <2> QED
    BY <2>1, <2>2, <2>3, Zenon DEF CodesInv
<1>6. ASSUME NEW n \in SignInNames
      PROVE  /\ Len(SignIn!Times(nameFails, n)) <= Limit /\ Slack(n) \in Nat
             /\ Matches(SignIn!Times(nameFails, n), guessed[n], Slack(n))
  <2>1. SignIn!Times(nameFails, n) = << >> /\ guessed[n] = << >>
    BY <1>1 DEF SignIn!Init
  <2>2. Trying(n) = {} /\ Uncounted(n) = {}
    BY DEF SignIn!Init, SignIn!Idle, Trying, Uncounted
  <2>3. Slack(n) \in Nat
    BY <2>2, SignInCounts, FS_EmptySet DEF Slack
  <2> QED
    BY <2>1, <2>3, NothingFollows, WindowIs
<1> QED
  BY <1>4, <1>5, <1>6 DEF SignInInv, GuessesInv

\* Of the next state, in terms of this one's clock.
LEMMA TimesNext ==
  ASSUME clock' = clock
  PROVE  /\ \A k : SignIn!Times(sends, k)' = SignIn!Times(sends', k)
         /\ \A k : SignIn!Times(nameFails, k)' = SignIn!Times(nameFails', k)
         /\ LimiterOK(sends)' <=> LimiterOK(sends')
         /\ LimiterOK(nameFails)' <=> LimiterOK(nameFails')
         /\ \A s : Past(s, clock') <=> Past(s, clock)
BY DEF SignIn!Times, SignIn!Recent, LimiterOK

\* What one sign-in becomes changes who is trying and who is uncounted.
LEMMA SignInsNext ==
  ASSUME SignInTypes, NEW r \in Requests, NEW v, req' = [req EXCEPT ![r] = v]
  PROVE  \A n : /\ Trying(n)' = IF v.at = "verify" /\ v.name = n
                                THEN Trying(n) \cup {r} ELSE Trying(n) \ {r}
               /\ Uncounted(n)' = IF v.at \in {"verify", "count ip", "count name"} /\ v.name = n
                                  THEN Uncounted(n) \cup {r} ELSE Uncounted(n) \ {r}
<1>1. \A q \in Requests : req'[q] = IF q = r THEN v ELSE req[q]
  BY DEF SignInTypes
<1> SUFFICES ASSUME NEW n
             PROVE  /\ Trying(n)' = IF v.at = "verify" /\ v.name = n
                                    THEN Trying(n) \cup {r} ELSE Trying(n) \ {r}
                    /\ Uncounted(n)' = IF v.at \in {"verify", "count ip", "count name"} /\ v.name = n
                                       THEN Uncounted(n) \cup {r} ELSE Uncounted(n) \ {r}
  OBVIOUS
<1>2. Trying(n)' = {q \in Requests : req'[q].at = "verify" /\ req'[q].name = n}
  BY DEF Trying
<1>3. Uncounted(n)' = {q \in Requests : req'[q].at \in {"verify", "count ip", "count name"}
                                        /\ req'[q].name = n}
  BY DEF Uncounted
<1>4. Trying(n) \subseteq Requests /\ Uncounted(n) \subseteq Requests
  BY DEF Trying, Uncounted
<1>5. Trying(n)' = IF v.at = "verify" /\ v.name = n THEN Trying(n) \cup {r} ELSE Trying(n) \ {r}
  BY <1>1, <1>2, <1>4 DEF Trying
<1>6. Uncounted(n)' = IF v.at \in {"verify", "count ip", "count name"} /\ v.name = n
                      THEN Uncounted(n) \cup {r} ELSE Uncounted(n) \ {r}
  BY <1>1, <1>3, <1>4 DEF Uncounted
<1> QED
  BY <1>5, <1>6

\* A name that a step does not touch.
LEMMA NameRests ==
  ASSUME SignInTypes, GuessesInv, NEW n \in SignInNames,
         SignIn!Times(nameFails, n)' = SignIn!Times(nameFails, n), guessed'[n] = guessed[n],
         Trying(n)' = Trying(n), Uncounted(n)' = Uncounted(n)
  PROVE  /\ Len(SignIn!Times(nameFails, n))' <= Limit /\ Slack(n)' \in Nat
         /\ Matches(SignIn!Times(nameFails, n)', guessed'[n], Slack(n)')
<1>1. Slack(n)' = Slack(n)
  <2>1. Slack(n)' = Cardinality(Requests) - 1 - Cardinality(Trying(n)')
          + IF Len(SignIn!Times(nameFails, n)') < Limit THEN Cardinality(Uncounted(n)') ELSE 0
    BY DEF Slack
  <2> QED
    BY <2>1 DEF Slack
<1> QED
  BY <1>1 DEF GuessesInv

LEMMA GuessesNext ==
  (\A n \in SignInNames :
     /\ Len(SignIn!Times(nameFails, n))' <= Limit /\ Slack(n)' \in Nat
     /\ Matches(SignIn!Times(nameFails, n)', guessed'[n], Slack(n)')) => GuessesInv'
<1>1. \A n : Matches(SignIn!Times(nameFails, n), guessed[n], Slack(n))' <=>
             Matches(SignIn!Times(nameFails, n)', guessed'[n], Slack(n)')
  BY DEF Matches, Space
<1> QED
  BY <1>1 DEF GuessesInv

\* The numbers of a name.
LEMMA NameIs ==
  ASSUME SignInTypes, GuessesInv, NEW n \in SignInNames
  PROVE  /\ clock \in Nat
         /\ Past(SignIn!Times(nameFails, n), clock) /\ Past(guessed[n], clock)
         /\ Len(SignIn!Times(nameFails, n)) \in Nat /\ Len(SignIn!Times(nameFails, n)) <= Limit
         /\ Slack(n) \in Nat /\ Matches(SignIn!Times(nameFails, n), guessed[n], Slack(n))
<1>1. Past(SignIn!Times(nameFails, n), clock) /\ Past(guessed[n], clock) /\ clock \in Nat
  BY TimesAre DEF SignInTypes
<1> QED
  BY <1>1 DEF GuessesInv, Past

\* The slack of the next state, from its numbers.
LEMMA SlackNext ==
  \A n : Slack(n)' = Cardinality(Requests) - 1 - Cardinality(Trying(n)')
           + IF Len(SignIn!Times(nameFails, n)') < Limit THEN Cardinality(Uncounted(n)') ELSE 0
BY DEF Slack

LEMMA SignInTicks == SignInInv /\ SignIn!Tick => SignInInv'
<1> SUFFICES ASSUME SignInInv, SignIn!Tick
             PROVE  SignInInv'
  OBVIOUS
<1>0. SignInTypes /\ CodesInv /\ GuessesInv
  BY DEF SignInInv
<1>1. /\ clock \in Nat /\ clock' = clock + 1 /\ clock' \in Nat
      /\ sends' = sends /\ nameFails' = nameFails /\ req' = req
      /\ mailed' = [i \in Ips |-> SignIn!Fresh(mailed[i], clock + 1)]
      /\ guessed' = [n \in SignInNames |-> SignIn!Fresh(guessed[n], clock + 1)]
  <2>1. clock \in Nat /\ clock' = clock + 1
    BY <1>0 DEF SignInTypes, SignIn!Tick
  <2>2. sends' = sends /\ nameFails' = nameFails /\ req' = req
    BY DEF SignIn!Tick
  <2>3. /\ mailed' = [i \in Ips |-> SignIn!Fresh(mailed[i], clock + 1)]
        /\ guessed' = [n \in SignInNames |-> SignIn!Fresh(guessed[n], clock + 1)]
    BY Zenon DEF SignIn!Tick
  <2>4. clock + 1 \in Nat
    BY <2>1
  <2> QED
    BY <2>1, <2>2, <2>3, <2>4
<1>2. LimiterOK(sends) /\ LimiterOK(nameFails)
  BY DEF SignInInv, SignInTypes
<1>3. LimiterOK(sends)' /\ LimiterOK(nameFails)'
  <2>1. LimiterOK(sends)'
    BY <1>1, <1>2, TimesLater DEF LimiterOK
  <2>2. LimiterOK(nameFails)'
    BY <1>1, <1>2, TimesLater DEF LimiterOK
  <2> QED
    BY <2>1, <2>2
<1>4. \A k : SignIn!Times(sends, k)' = SignIn!Fresh(SignIn!Times(sends, k), clock')
  <2>1. \A k : SignIn!Times(sends, k)' =
                 IF k \in DOMAIN sends THEN SignIn!Fresh(sends[k], clock') ELSE << >>
    BY <1>1 DEF SignIn!Times, SignIn!Recent
  <2> QED
    BY <1>1, <1>2, <2>1, TimesLater
<1>5. \A k : SignIn!Times(nameFails, k)' = SignIn!Fresh(SignIn!Times(nameFails, k), clock')
  <2>1. \A k : SignIn!Times(nameFails, k)' =
                 IF k \in DOMAIN nameFails THEN SignIn!Fresh(nameFails[k], clock') ELSE << >>
    BY <1>1 DEF SignIn!Times, SignIn!Recent
  <2> QED
    BY <1>1, <1>2, <2>1, TimesLater
<1>6. ASSUME NEW s, Past(s, clock)
      PROVE  /\ Past(s, clock') /\ Past(SignIn!Fresh(s, clock'), clock')
             /\ Len(SignIn!Fresh(s, clock')) \in Nat /\ Len(SignIn!Fresh(s, clock')) <= Len(s)
  <2>1. Past(s, clock')
    BY <1>1, <1>6, PastLater
  <2>2. PICK q : /\ Past(SignIn!Fresh(s, clock'), clock') /\ Splits(s, clock', q)
                 /\ Len(SignIn!Fresh(s, clock')) = Len(s) - q
    BY <1>1, <2>1, FreshPast
  <2> QED
    BY <2>1, <2>2 DEF Splits, Past
<1>7. SignInTypes'
  <2>1. \A n \in SignInNames : Past(guessed'[n], clock')
    BY <1>0, <1>1, <1>6 DEF SignInTypes
  <2>2. req' \in [Requests -> {SignIn!Idle} \cup [at : {"name", "verify", "count ip", "count name"},
                                                  ip : Ips, name : SignInNames]]
    BY <1>0, <1>1 DEF SignInTypes
  <2>3. mailed' = [i \in Ips |-> mailed'[i]] /\ guessed' = [n \in SignInNames |-> guessed'[n]]
    BY <1>1
  <2> QED
    BY <1>1, <1>3, <2>1, <2>2, <2>3 DEF SignInTypes, SignIn!Idle
<1>8. CodesInv'
  <2>1. ASSUME NEW i \in Ips
        PROVE  mailed'[i] = SignIn!Times(sends, i)' /\ Len(SignIn!Times(sends, i)') <= Limit
    <3>1. mailed[i] = SignIn!Times(sends, i) /\ Len(SignIn!Times(sends, i)) <= Limit
      BY <1>0 DEF CodesInv
    <3>2. Past(SignIn!Times(sends, i), clock)
      BY <1>1, <1>2, TimesAre
    <3>3. Len(SignIn!Times(sends, i)) \in Nat /\ Limit \in Nat
      BY <3>2, WindowIs DEF Past
    <3> QED
      BY <1>1, <1>4, <1>6, <3>1, <3>2, <3>3
  <2> QED
    BY <2>1 DEF CodesInv
<1>9. ASSUME NEW n \in SignInNames
      PROVE  /\ Len(SignIn!Times(nameFails, n))' <= Limit /\ Slack(n)' \in Nat
             /\ Matches(SignIn!Times(nameFails, n)', guessed'[n], Slack(n)')
  <2> DEFINE f == SignIn!Times(nameFails, n)
             g == guessed[n]
             b == Slack(n)
  <2>1. /\ Past(f, clock) /\ Past(g, clock)
        /\ Len(f) \in Nat /\ Len(f) <= Limit /\ b \in Nat /\ Matches(f, g, b)
    BY <1>0, NameIs
  <2>2. f' = SignIn!Fresh(f, clock') /\ g' = SignIn!Fresh(g, clock')
    BY <1>1, <1>5
  <2>3. b = Cardinality(Requests) - 1 - Cardinality(Trying(n))
            + IF Len(f) < Limit THEN Cardinality(Uncounted(n)) ELSE 0
    BY DEF Slack
  <2>4. b' = Cardinality(Requests) - 1 - Cardinality(Trying(n))
             + IF Len(f') < Limit THEN Cardinality(Uncounted(n)) ELSE 0
    <3>1. Trying(n)' = Trying(n) /\ Uncounted(n)' = Uncounted(n)
      BY <1>1 DEF Trying, Uncounted
    <3> QED
      BY <3>1, SlackNext
  <2> HIDE DEF f, g, b
  <2>5. Past(f, clock') /\ Past(g, clock') /\ Past(f', clock') /\ Past(g', clock')
        /\ Len(f') \in Nat /\ Len(f') <= Len(f)
    BY <1>6, <2>1, <2>2
  <2>6. Matches(f', g', b)
    BY <1>1, <2>1, <2>2, <2>5, FreshFollows
  <2>7. b' \in Nat /\ b <= b'
    BY <2>1, <2>3, <2>4, <2>5, TryingIs, SignInCounts, WindowIs
  <2>8. Matches(f', g', b')
    BY <1>1, <2>1, <2>5, <2>6, <2>7, RoomFollows
  <2>9. Len(f') <= Limit
    BY <2>1, <2>5, WindowIs
  <2> QED
    BY <2>7, <2>8, <2>9 DEF f, g, b
<1>10. GuessesInv'
  BY <1>9, GuessesNext
<1> QED
  BY <1>7, <1>8, <1>10 DEF SignInInv

LEMMA SignInRests == SignInInv /\ UNCHANGED signInVars => SignInInv'
<1> SUFFICES ASSUME SignInInv, UNCHANGED signInVars
             PROVE  SignInInv'
  OBVIOUS
<1>1. /\ clock' = clock /\ sends' = sends /\ nameFails' = nameFails /\ req' = req
      /\ mailed' = mailed /\ guessed' = guessed
  BY DEF signInVars
<1>2. SignInTypes'
  <2>1. LimiterOK(sends)' /\ LimiterOK(nameFails)'
    BY <1>1, TimesNext DEF SignInInv, SignInTypes
  <2>2. \A n \in SignInNames : Past(guessed'[n], clock')
    BY <1>1 DEF SignInInv, SignInTypes
  <2>3. /\ mailed' = [i \in Ips |-> mailed'[i]] /\ guessed' = [n \in SignInNames |-> guessed'[n]]
        /\ clock' \in Nat
    BY <1>1 DEF SignInInv, SignInTypes
  <2>4. req' \in [Requests -> {SignIn!Idle} \cup [at : {"name", "verify", "count ip", "count name"},
                                                  ip : Ips, name : SignInNames]]
    BY <1>1 DEF SignInInv, SignInTypes
  <2> QED
    BY <2>1, <2>2, <2>3, <2>4 DEF SignInTypes, SignIn!Idle
<1>3. /\ \A k : SignIn!Times(sends, k)' = SignIn!Times(sends, k)
      /\ \A k : SignIn!Times(nameFails, k)' = SignIn!Times(nameFails, k)
  BY <1>1, TimesNext
<1>4. CodesInv'
  BY <1>1, <1>3 DEF SignInInv, CodesInv
<1>5. \A n : Trying(n)' = Trying(n) /\ Uncounted(n)' = Uncounted(n)
  BY <1>1 DEF Trying, Uncounted
<1>6. GuessesInv'
  BY <1>1, <1>3, <1>5, NameRests, GuessesNext DEF SignInInv
<1> QED
  BY <1>2, <1>4, <1>6 DEF SignInInv

\* A step of a sign-in: no code is sent.
LEMMA SignInTypesNext ==
  ASSUME SignInInv, clock' = clock, sends' = sends, mailed' = mailed, LimiterOK(nameFails'),
         NEW r \in Requests,
         NEW v \in {SignIn!Idle} \cup [at : {"name", "verify", "count ip", "count name"},
                                       ip : Ips, name : SignInNames],
         req' = [req EXCEPT ![r] = v],
         guessed' = [n \in SignInNames |-> guessed'[n]],
         \A n \in SignInNames : Past(guessed'[n], clock)
  PROVE  SignInTypes' /\ CodesInv'
<1>1. SignInTypes /\ CodesInv
  BY DEF SignInInv
<1>2. LimiterOK(sends)' /\ LimiterOK(nameFails)'
  <2>1. LimiterOK(sends')
    BY <1>1 DEF SignInTypes, LimiterOK
  <2> QED
    BY <2>1, TimesNext
<1>3. req' \in [Requests -> {SignIn!Idle} \cup [at : {"name", "verify", "count ip", "count name"},
                                                ip : Ips, name : SignInNames]]
  BY <1>1 DEF SignInTypes
<1>4. \A n \in SignInNames : Past(guessed'[n], clock')
  BY TimesNext
<1>5. mailed' = [i \in Ips |-> mailed'[i]] /\ clock' \in Nat
  BY <1>1 DEF SignInTypes
<1>6. SignInTypes'
  BY <1>2, <1>3, <1>4, <1>5 DEF SignInTypes, SignIn!Idle
<1>7. \A k : SignIn!Times(sends, k)' = SignIn!Times(sends, k)
  BY TimesNext
<1>8. CodesInv'
  BY <1>1, <1>7 DEF CodesInv
<1> QED
  BY <1>6, <1>8

LEMMA SignInMails == SignInInv /\ (\E i \in Ips : SignIn!EmailCode(i)) => SignInInv'
<1> SUFFICES ASSUME SignInInv, NEW i \in Ips, SignIn!EmailCode(i)
             PROVE  SignInInv'
  OBVIOUS
<1>0. SignInTypes /\ CodesInv /\ GuessesInv /\ clock \in Nat /\ LimiterOK(sends)
  BY DEF SignInInv, SignInTypes
<1>1. /\ clock' = clock /\ nameFails' = nameFails /\ req' = req /\ guessed' = guessed
      /\ sends' = SignIn!Counted(sends, i)
      /\ mailed' = IF SignIn!Free(sends, i) THEN [mailed EXCEPT ![i] = Append(@, clock)] ELSE mailed
  BY DEF SignIn!EmailCode
<1> DEFINE t == SignIn!Times(sends, i)
<1>2. /\ LimiterOK(sends')
      /\ \A j : j # i => SignIn!Times(sends', j) = SignIn!Times(sends, j)
      /\ SignIn!Times(sends', i) = IF Len(t) < Limit THEN Append(t, clock) ELSE t
  BY <1>0, <1>1, CountedIs
<1>3. SignIn!Free(sends, i) <=> Len(t) < Limit
  BY <1>0, LookedIs
<1>4. mailed[i] = t /\ Len(t) <= Limit /\ t \in Seq(Nat)
  BY <1>0, TimesAre DEF CodesInv, Past
<1> HIDE DEF t
<1>5. \A j \in Ips : mailed'[j] = SignIn!Times(sends', j) /\ Len(SignIn!Times(sends', j)) <= Limit
  <2> SUFFICES ASSUME NEW j \in Ips
               PROVE  mailed'[j] = SignIn!Times(sends', j) /\ Len(SignIn!Times(sends', j)) <= Limit
    OBVIOUS
  <2>0. i \in DOMAIN mailed
    BY <1>0 DEF SignInTypes
  <2>1. CASE j # i
    <3>1. mailed'[j] = mailed[j]
      BY <1>1, <2>1, <2>0
    <3> QED
      BY <1>0, <1>2, <2>1, <3>1 DEF CodesInv
  <2>2. CASE j = i /\ Len(t) < Limit
    <3>1. mailed'[i] = Append(t, clock)
      BY <1>1, <1>3, <1>4, <2>0, <2>2
    <3>2. Len(Append(t, clock)) <= Limit
      BY <1>0, <1>4, <2>2, WindowIs
    <3> QED
      BY <1>2, <2>2, <3>1, <3>2
  <2>3. CASE j = i /\ ~(Len(t) < Limit)
    <3>1. mailed'[i] = t
      BY <1>1, <1>3, <1>4, <2>3
    <3> QED
      BY <1>2, <1>4, <2>3, <3>1
  <2> QED
    BY <2>1, <2>2, <2>3
<1>6. mailed' = [j \in Ips |-> mailed'[j]]
  BY <1>0, <1>1 DEF SignInTypes
<1>7. SignInTypes'
  <2>1. LimiterOK(sends)' /\ LimiterOK(nameFails)'
    BY <1>0, <1>1, <1>2, TimesNext DEF SignInTypes
  <2> QED
    BY <1>0, <1>1, <1>6, <2>1, TimesNext DEF SignInTypes, SignIn!Idle
<1>8. CodesInv'
  BY <1>1, <1>5, TimesNext DEF CodesInv
<1>9. GuessesInv'
  <2>1. \A k : SignIn!Times(nameFails, k)' = SignIn!Times(nameFails, k)
    BY <1>1, TimesNext
  <2>2. \A n : Trying(n)' = Trying(n) /\ Uncounted(n)' = Uncounted(n)
    BY <1>1 DEF Trying, Uncounted
  <2> QED
    BY <1>0, <1>1, <2>1, <2>2, NameRests, GuessesNext
<1> QED
  BY <1>7, <1>8, <1>9 DEF SignInInv

LEMMA SignInLogsIn ==
  ASSUME SignInInv, NEW r \in Requests, NEW i \in Ips, NEW n \in SignInNames, SignIn!Login(r, i, n)
  PROVE  SignInInv'
<1>0. SignInTypes /\ CodesInv /\ GuessesInv
  BY DEF SignInInv
<1>1. /\ clock' = clock /\ sends' = sends /\ nameFails' = nameFails
      /\ mailed' = mailed /\ guessed' = guessed /\ req[r].at = "idle"
  BY DEF SignIn!Login, SignIn!At
<1>2. PICK v : /\ v \in {SignIn!Idle, [at |-> "name", ip |-> i, name |-> n]}
               /\ req' = [req EXCEPT ![r] = v]
  BY DEF SignIn!Login
<1>3. v.at \in {"idle", "name"}
  BY <1>2 DEF SignIn!Idle
<1>4. SignInTypes' /\ CodesInv'
  <2>1. LimiterOK(nameFails')
    BY <1>0, <1>1 DEF SignInTypes, LimiterOK
  <2>2. v \in {SignIn!Idle} \cup [at : {"name", "verify", "count ip", "count name"},
                                  ip : Ips, name : SignInNames]
    <3>1. [at |-> "name", ip |-> i, name |-> n] \in
            [at : {"name", "verify", "count ip", "count name"}, ip : Ips, name : SignInNames]
      OBVIOUS
    <3> QED
      BY <1>2, <3>1, Zenon
  <2>3. guessed' = [m \in SignInNames |-> guessed'[m]] /\ \A m \in SignInNames : Past(guessed'[m], clock)
    BY <1>0, <1>1 DEF SignInTypes
  <2> QED
    BY <1>1, <1>2, <2>1, <2>2, <2>3, SignInTypesNext
<1>5. \A m : Trying(m)' = Trying(m) /\ Uncounted(m)' = Uncounted(m)
  <2> SUFFICES ASSUME NEW m
               PROVE  Trying(m)' = Trying(m) /\ Uncounted(m)' = Uncounted(m)
    OBVIOUS
  <2>1. r \notin Trying(m) /\ r \notin Uncounted(m)
    BY <1>1 DEF Trying, Uncounted
  <2>2. /\ Trying(m)' = IF v.at = "verify" /\ v.name = m THEN Trying(m) \cup {r} ELSE Trying(m) \ {r}
        /\ Uncounted(m)' = IF v.at \in {"verify", "count ip", "count name"} /\ v.name = m
                           THEN Uncounted(m) \cup {r} ELSE Uncounted(m) \ {r}
    BY <1>0, <1>2, SignInsNext
  <2> QED
    BY <1>3, <2>1, <2>2
<1>6. GuessesInv'
  <2>1. \A k : SignIn!Times(nameFails, k)' = SignIn!Times(nameFails, k)
    BY <1>1, TimesNext
  <2> QED
    BY <1>0, <1>1, <1>5, <2>1, NameRests, GuessesNext
<1> QED
  BY <1>4, <1>6 DEF SignInInv

LEMMA SignInLooks ==
  ASSUME SignInInv, NEW r \in Requests, SignIn!LookUpName(r)
  PROVE  SignInInv'
<1>0. SignInTypes /\ CodesInv /\ GuessesInv /\ clock \in Nat /\ LimiterOK(nameFails)
  BY DEF SignInInv, SignInTypes
<1> DEFINE name == req[r].name
<1>1. /\ clock' = clock /\ sends' = sends /\ nameFails' = SignIn!Looked(nameFails, name)
      /\ mailed' = mailed /\ guessed' = guessed /\ req[r].at = "name"
  BY DEF SignIn!LookUpName, SignIn!At
<1>2. req[r] \in [at : {"name"}, ip : Ips, name : SignInNames]
  <2>1. \/ req[r] = SignIn!Idle
        \/ req[r] \in [at : {"name", "verify", "count ip", "count name"}, ip : Ips, name : SignInNames]
    BY <1>0 DEF SignInTypes
  <2>2. req[r] # SignIn!Idle
    BY <1>1 DEF SignIn!Idle
  <2> QED
    BY <1>1, <2>1, <2>2
<1> DEFINE v == IF SignIn!Free(nameFails, name) THEN [req[r] EXCEPT !.at = "verify"] ELSE SignIn!Idle
<1>3. req' = [req EXCEPT ![r] = v]
  BY <1>0 DEF SignIn!LookUpName, SignInTypes
<1>4. /\ LimiterOK(nameFails') /\ \A j : SignIn!Times(nameFails', j) = SignIn!Times(nameFails, j)
      /\ SignIn!Free(nameFails, name) <=> Len(SignIn!Times(nameFails, name)) < Limit
  BY <1>0, <1>1, LookedIs
<1>5. v \in {SignIn!Idle} \cup [at : {"verify"}, ip : Ips, name : SignInNames]
  BY <1>2
<1>6. \/ /\ Len(SignIn!Times(nameFails, name)) < Limit /\ v.at = "verify" /\ v.name = name
      \/ ~(Len(SignIn!Times(nameFails, name)) < Limit) /\ v.at = "idle"
  BY <1>2, <1>4 DEF SignIn!Idle
<1>7. name \in SignInNames
  BY <1>2
<1> HIDE DEF v, name
<1>8. SignInTypes' /\ CodesInv'
  <2>1. guessed' = [m \in SignInNames |-> guessed'[m]] /\ \A m \in SignInNames : Past(guessed'[m], clock)
    BY <1>0, <1>1 DEF SignInTypes
  <2>2. v \in {SignIn!Idle} \cup [at : {"name", "verify", "count ip", "count name"},
                                  ip : Ips, name : SignInNames]
    BY <1>5
  <2> QED
    BY <1>1, <1>3, <1>4, <2>1, <2>2, SignInTypesNext
<1>9. \A k : SignIn!Times(nameFails, k)' = SignIn!Times(nameFails, k)
  BY <1>1, <1>4, TimesNext
<1>10. ASSUME NEW m \in SignInNames
       PROVE  /\ Len(SignIn!Times(nameFails, m))' <= Limit /\ Slack(m)' \in Nat
              /\ Matches(SignIn!Times(nameFails, m)', guessed'[m], Slack(m)')
  <2>1. r \notin Trying(m) /\ r \notin Uncounted(m)
    BY <1>1 DEF Trying, Uncounted
  <2>2. /\ Trying(m)' = IF v.at = "verify" /\ v.name = m THEN Trying(m) \cup {r} ELSE Trying(m) \ {r}
        /\ Uncounted(m)' = IF v.at \in {"verify", "count ip", "count name"} /\ v.name = m
                           THEN Uncounted(m) \cup {r} ELSE Uncounted(m) \ {r}
    BY <1>0, <1>3, SignInsNext
  <2>3. CASE v.at = "idle" \/ name # m
    <3>1. Trying(m)' = Trying(m) /\ Uncounted(m)' = Uncounted(m)
      BY <1>6, <2>1, <2>2, <2>3
    <3> QED
      BY <1>0, <1>1, <1>9, <3>1, NameRests
  <2>4. CASE v.at # "idle" /\ name = m
    <3>1. Trying(m)' = Trying(m) \cup {r} /\ Uncounted(m)' = Uncounted(m) \cup {r}
          /\ Len(SignIn!Times(nameFails, m)) < Limit
      BY <1>6, <2>1, <2>2, <2>4
    <3>2. /\ Cardinality(Trying(m)') = Cardinality(Trying(m)) + 1
          /\ Cardinality(Uncounted(m)') = Cardinality(Uncounted(m)) + 1
      BY <2>1, <3>1, TryingIs, FS_AddElement
    <3>3. Slack(m)' = Slack(m)
      <4>1. /\ Slack(m) = Cardinality(Requests) - 1 - Cardinality(Trying(m)) + Cardinality(Uncounted(m))
            /\ Slack(m)' = Cardinality(Requests) - 1 - Cardinality(Trying(m)') + Cardinality(Uncounted(m)')
        BY <1>9, <3>1, SlackNext DEF Slack
      <4> QED
        BY <3>2, <4>1, TryingIs, SignInCounts
    <3> QED
      BY <1>0, <1>1, <1>9, <3>3 DEF GuessesInv
  <2> QED
    BY <2>3, <2>4
<1>11. GuessesInv'
  BY <1>10, GuessesNext
<1> QED
  BY <1>8, <1>11 DEF SignInInv

\* What every step after a sign-in was let through is a step from and to.
LEMMA SignInGoes ==
  ASSUME SignInTypes, NEW r \in Requests, req[r].at \in {"verify", "count ip", "count name"}
  PROVE  /\ req[r] \in [at : {"verify", "count ip", "count name"}, ip : Ips, name : SignInNames]
         /\ \A p : SignIn!Goes(r, p) => req' = [req EXCEPT ![r] = [req[r] EXCEPT !.at = p]]
<1>1. \/ req[r] = SignIn!Idle
      \/ req[r] \in [at : {"name", "verify", "count ip", "count name"}, ip : Ips, name : SignInNames]
  BY DEF SignInTypes
<1>2. req[r] # SignIn!Idle
  <2>1. SignIn!Idle.at = "idle"
    BY DEF SignIn!Idle
  <2> QED
    BY <2>1
<1>3. \A p : SignIn!Goes(r, p) => req' = [req EXCEPT ![r] = [req[r] EXCEPT !.at = p]]
  BY DEF SignIn!Goes, SignInTypes
<1> QED
  BY <1>1, <1>2, <1>3

LEMMA SignInRefuses ==
  ASSUME SignInInv, NEW r \in Requests, SignIn!Refuse(r)
  PROVE  SignInInv'
<1>0. SignInTypes /\ CodesInv /\ GuessesInv /\ clock \in Nat
  BY DEF SignInInv, SignInTypes
<1> DEFINE name == req[r].name
           v == [req[r] EXCEPT !.at = "count ip"]
<1>1. /\ clock' = clock /\ sends' = sends /\ nameFails' = nameFails /\ mailed' = mailed
      /\ req[r].at = "verify" /\ guessed' = [guessed EXCEPT ![name] = Append(@, clock)]
      /\ SignIn!Goes(r, "count ip")
  BY DEF SignIn!Refuse, SignIn!At
<1>2. /\ req[r] \in [at : {"verify", "count ip", "count name"}, ip : Ips, name : SignInNames]
      /\ req' = [req EXCEPT ![r] = v]
  BY <1>0, <1>1, SignInGoes
<1>3. name \in SignInNames /\ v.at = "count ip" /\ v.name = name
      /\ v \in {SignIn!Idle} \cup [at : {"name", "verify", "count ip", "count name"},
                                   ip : Ips, name : SignInNames]
  BY <1>2
<1> HIDE DEF name, v
<1>4. guessed'[name] = Append(guessed[name], clock) /\ \A m \in SignInNames : m # name => guessed'[m] = guessed[m]
  BY <1>0, <1>1, <1>3 DEF SignInTypes
<1>5. SignInTypes' /\ CodesInv'
  <2>1. guessed' = [m \in SignInNames |-> guessed'[m]]
    BY <1>0, <1>1 DEF SignInTypes
  <2>2. \A m \in SignInNames : Past(guessed'[m], clock)
    <3>1. \A m \in SignInNames : Past(guessed[m], clock)
      BY <1>0 DEF SignInTypes
    <3>2. Past(Append(guessed[name], clock), clock)
      BY <1>0, <1>3, <3>1, AppendPast
    <3> QED
      BY <1>4, <3>1, <3>2
  <2>3. LimiterOK(nameFails')
    BY <1>0, <1>1 DEF SignInTypes, LimiterOK
  <2> QED
    BY <1>1, <1>2, <1>3, <2>1, <2>2, <2>3, SignInTypesNext
<1>6. \A k : SignIn!Times(nameFails, k)' = SignIn!Times(nameFails, k)
  BY <1>1, TimesNext
<1>7. ASSUME NEW m \in SignInNames
      PROVE  /\ Len(SignIn!Times(nameFails, m))' <= Limit /\ Slack(m)' \in Nat
             /\ Matches(SignIn!Times(nameFails, m)', guessed'[m], Slack(m)')
  <2>1. /\ Trying(m)' = IF v.at = "verify" /\ v.name = m THEN Trying(m) \cup {r} ELSE Trying(m) \ {r}
        /\ Uncounted(m)' = IF v.at \in {"verify", "count ip", "count name"} /\ v.name = m
                           THEN Uncounted(m) \cup {r} ELSE Uncounted(m) \ {r}
    BY <1>0, <1>2, SignInsNext
  <2>2. CASE m # name
    <3>1. r \notin Trying(m) /\ r \notin Uncounted(m)
      BY <2>2 DEF Trying, Uncounted, name
    <3>2. Trying(m)' = Trying(m) /\ Uncounted(m)' = Uncounted(m)
      BY <1>3, <2>1, <2>2, <3>1
    <3> QED
      BY <1>0, <1>4, <1>6, <2>2, <3>2, NameRests
  <2>3. CASE m = name
    <3>1. r \in Trying(m) /\ r \in Uncounted(m)
      BY <1>1, <2>3 DEF Trying, Uncounted, name
    <3>2. Trying(m)' = Trying(m) \ {r} /\ Uncounted(m)' = Uncounted(m)
      BY <1>3, <2>1, <2>3, <3>1
    <3>3. Cardinality(Trying(m)') = Cardinality(Trying(m)) - 1
      BY <3>1, <3>2, TryingIs, FS_RemoveElement
    <3>4. Slack(m)' = Slack(m) + 1
      BY <1>6, <3>2, <3>3, SlackNext, TryingIs, SignInCounts DEF Slack
    <3>5. Matches(SignIn!Times(nameFails, m), Append(guessed[m], clock), Slack(m) + 1)
      BY <1>0, NameIs, WrongFollows
    <3>6. Slack(m) \in Nat /\ Len(SignIn!Times(nameFails, m)) <= Limit
      BY <1>0, NameIs
    <3> QED
      <4>1. guessed'[m] = Append(guessed[m], clock)
        BY <1>4, <2>3
      <4>2. Slack(m)' \in Nat
        BY <3>4, <3>6
      <4>3. Matches(SignIn!Times(nameFails, m)', guessed'[m], Slack(m)')
        BY <1>6, <3>4, <3>5, <4>1, Zenon
      <4> QED
        BY <1>6, <3>6, <4>2, <4>3
  <2> QED
    BY <2>2, <2>3
<1>8. GuessesInv'
  BY <1>7, GuessesNext
<1> QED
  BY <1>5, <1>8 DEF SignInInv

LEMMA SignInCountsIp ==
  ASSUME SignInInv, NEW r \in Requests, SignIn!CountIp(r)
  PROVE  SignInInv'
<1>0. SignInTypes /\ CodesInv /\ GuessesInv
  BY DEF SignInInv
<1> DEFINE v == [req[r] EXCEPT !.at = "count name"]
<1>1. /\ clock' = clock /\ sends' = sends /\ nameFails' = nameFails /\ mailed' = mailed
      /\ guessed' = guessed /\ req[r].at = "count ip" /\ SignIn!Goes(r, "count name")
  BY DEF SignIn!CountIp, SignIn!At
<1>2. /\ req[r] \in [at : {"verify", "count ip", "count name"}, ip : Ips, name : SignInNames]
      /\ req' = [req EXCEPT ![r] = v]
  BY <1>0, <1>1, SignInGoes
<1>3. v.at = "count name" /\ v.name = req[r].name
      /\ v \in {SignIn!Idle} \cup [at : {"name", "verify", "count ip", "count name"},
                                   ip : Ips, name : SignInNames]
  BY <1>2
<1> HIDE DEF v
<1>4. SignInTypes' /\ CodesInv'
  <2>1. guessed' = [m \in SignInNames |-> guessed'[m]] /\ \A m \in SignInNames : Past(guessed'[m], clock)
    BY <1>0, <1>1 DEF SignInTypes
  <2>2. LimiterOK(nameFails')
    BY <1>0, <1>1 DEF SignInTypes, LimiterOK
  <2> QED
    BY <1>1, <1>2, <1>3, <2>1, <2>2, SignInTypesNext
<1>5. ASSUME NEW m PROVE Trying(m)' = Trying(m) /\ Uncounted(m)' = Uncounted(m)
  <2>1. /\ Trying(m)' = IF v.at = "verify" /\ v.name = m THEN Trying(m) \cup {r} ELSE Trying(m) \ {r}
        /\ Uncounted(m)' = IF v.at \in {"verify", "count ip", "count name"} /\ v.name = m
                           THEN Uncounted(m) \cup {r} ELSE Uncounted(m) \ {r}
    BY <1>0, <1>2, SignInsNext
  <2>2. r \notin Trying(m) /\ (r \in Uncounted(m) <=> req[r].name = m)
    BY <1>1 DEF Trying, Uncounted
  <2> QED
    BY <1>3, <2>1, <2>2
<1>6. GuessesInv'
  <2>1. \A k : SignIn!Times(nameFails, k)' = SignIn!Times(nameFails, k)
    BY <1>1, TimesNext
  <2> QED
    BY <1>0, <1>1, <1>5, <2>1, NameRests, GuessesNext
<1> QED
  BY <1>4, <1>6 DEF SignInInv

LEMMA SignInCountsName ==
  ASSUME SignInInv, NEW r \in Requests, SignIn!CountName(r)
  PROVE  SignInInv'
<1>0. SignInTypes /\ CodesInv /\ GuessesInv /\ clock \in Nat /\ LimiterOK(nameFails)
  BY DEF SignInInv, SignInTypes
<1> DEFINE name == req[r].name
           v == SignIn!Idle
<1>1. /\ clock' = clock /\ sends' = sends /\ nameFails' = SignIn!Counted(nameFails, name)
      /\ mailed' = mailed /\ guessed' = guessed /\ req[r].at = "count name"
      /\ req' = [req EXCEPT ![r] = v]
  BY DEF SignIn!CountName, SignIn!At
<1>2. req[r] \in [at : {"verify", "count ip", "count name"}, ip : Ips, name : SignInNames]
  BY <1>0, <1>1, SignInGoes
<1>3. name \in SignInNames /\ v.at = "idle" /\ v \in {SignIn!Idle} \cup
        [at : {"name", "verify", "count ip", "count name"}, ip : Ips, name : SignInNames]
  BY <1>2 DEF SignIn!Idle
<1> HIDE DEF name, v
<1>4. /\ LimiterOK(nameFails')
      /\ \A j : j # name => SignIn!Times(nameFails', j) = SignIn!Times(nameFails, j)
      /\ SignIn!Times(nameFails', name) =
           IF Len(SignIn!Times(nameFails, name)) < Limit THEN Append(SignIn!Times(nameFails, name), clock)
           ELSE SignIn!Times(nameFails, name)
  BY <1>0, <1>1, CountedIs
<1>5. SignInTypes' /\ CodesInv'
  <2>1. guessed' = [m \in SignInNames |-> guessed'[m]] /\ \A m \in SignInNames : Past(guessed'[m], clock)
    BY <1>0, <1>1 DEF SignInTypes
  <2> QED
    BY <1>1, <1>3, <1>4, <2>1, SignInTypesNext
<1>6. \A k : SignIn!Times(nameFails, k)' = SignIn!Times(nameFails', k)
  BY <1>1, TimesNext
<1>7. ASSUME NEW m \in SignInNames
      PROVE  /\ Len(SignIn!Times(nameFails, m))' <= Limit /\ Slack(m)' \in Nat
             /\ Matches(SignIn!Times(nameFails, m)', guessed'[m], Slack(m)')
  <2>1. Trying(m)' = Trying(m) \ {r} /\ Uncounted(m)' = Uncounted(m) \ {r}
    BY <1>0, <1>1, <1>3, SignInsNext
  <2>2. r \notin Trying(m) /\ (r \in Uncounted(m) <=> m = name)
    BY <1>1 DEF Trying, Uncounted, name
  <2>3. Trying(m)' = Trying(m)
    BY <2>1, <2>2
  <2>4. CASE m # name
    <3>1. Uncounted(m)' = Uncounted(m)
      BY <2>1, <2>2, <2>4
    <3> QED
      BY <1>0, <1>1, <1>4, <1>6, <2>3, <2>4, <3>1, NameRests
  <2>5. CASE m = name
    <3> DEFINE f == SignIn!Times(nameFails, m)
               g == guessed[m]
               b == Slack(m)
               u == Cardinality(Uncounted(m))
               t == Cardinality(Trying(m))
               R == Cardinality(Requests)
    <3>1. /\ Past(f, clock) /\ Past(g, clock) /\ Len(f) \in Nat /\ Len(f) <= Limit
          /\ b \in Nat /\ Matches(f, g, b) /\ g' = g
      BY <1>0, <1>1, NameIs
    <3>2. Cardinality(Uncounted(m)') = u - 1 /\ t < u
      <4>1. r \in Uncounted(m)
        BY <2>2, <2>5
      <4>2. Cardinality(Uncounted(m) \ {r}) = u - 1 /\ IsFiniteSet(Uncounted(m) \ {r})
        BY <4>1, TryingIs, FS_RemoveElement
      <4>3. Trying(m) \subseteq Uncounted(m) \ {r}
        BY <2>2, TryingIs
      <4>4. t <= Cardinality(Uncounted(m) \ {r})
        BY <4>2, <4>3, FS_Subset
      <4> QED
        BY <2>1, <4>2, <4>4, TryingIs
    <3>3. /\ b = R - 1 - t + IF Len(f) < Limit THEN u ELSE 0
          /\ b' = R - 1 - t + IF Len(f') < Limit THEN u - 1 ELSE 0
      BY <2>3, <3>2, SlackNext DEF Slack
    <3>4. t \in Nat /\ u \in Nat /\ u <= R /\ R \in Nat /\ R > 0 /\ Limit \in Nat
      BY TryingIs, SignInCounts, WindowIs
    <3>5. f' = IF Len(f) < Limit THEN Append(f, clock) ELSE f
      BY <1>4, <1>6, <2>5
    <3> HIDE DEF f, g, b, u, t
    <3>6. CASE Len(f) < Limit
      <4>1. f' = Append(f, clock) /\ Len(f') = Len(f) + 1
        BY <3>1, <3>5, <3>6 DEF Past
      <4>2. b' \in Nat /\ b <= b' + R
        <5> HIDE DEF R
        <5> QED
          BY <3>1, <3>2, <3>3, <3>4, <3>6, <4>1
      <4>3. Matches(Append(f, clock), g, b')
        BY <1>0, <3>1, <4>2, CountedFollows
      <4>4. Len(f') <= Limit
        BY <3>1, <3>4, <3>6, <4>1
      <4> QED
        BY <3>1, <4>1, <4>2, <4>3, <4>4 DEF f, g, b
    <3>7. CASE ~(Len(f) < Limit)
      <4>1. f' = f /\ b' = b
        BY <3>3, <3>5, <3>7
      <4> QED
        BY <3>1, <4>1 DEF f, g, b
    <3> QED
      BY <3>6, <3>7
  <2> QED
    BY <2>4, <2>5
<1>8. GuessesInv'
  BY <1>7, GuessesNext
<1> QED
  BY <1>5, <1>8 DEF SignInInv

LEMMA SignInWelcomes ==
  ASSUME SignInInv, NEW r \in Requests, SignIn!Welcome(r)
  PROVE  SignInInv'
<1>0. SignInTypes /\ CodesInv /\ GuessesInv /\ clock \in Nat /\ LimiterOK(nameFails)
  BY DEF SignInInv, SignInTypes
<1> DEFINE name == req[r].name
           v == SignIn!Idle
<1>1. /\ clock' = clock /\ sends' = sends /\ nameFails' = SignIn!Reset(nameFails, name)
      /\ mailed' = mailed /\ guessed' = [guessed EXCEPT ![name] = << >>] /\ req[r].at = "verify"
      /\ req' = [req EXCEPT ![r] = v]
  BY DEF SignIn!Welcome, SignIn!At
<1>2. req[r] \in [at : {"verify", "count ip", "count name"}, ip : Ips, name : SignInNames]
  BY <1>0, <1>1, SignInGoes
<1>3. name \in SignInNames /\ v.at = "idle" /\ v \in {SignIn!Idle} \cup
        [at : {"name", "verify", "count ip", "count name"}, ip : Ips, name : SignInNames]
  BY <1>2 DEF SignIn!Idle
<1> HIDE DEF name, v
<1>4. guessed'[name] = << >> /\ \A m \in SignInNames : m # name => guessed'[m] = guessed[m]
  BY <1>0, <1>1, <1>3 DEF SignInTypes
<1>5. /\ LimiterOK(nameFails') /\ SignIn!Times(nameFails', name) = << >>
      /\ \A j : j # name => SignIn!Times(nameFails', j) = SignIn!Times(nameFails, j)
  BY <1>0, <1>1, ResetIs
<1>6. SignInTypes' /\ CodesInv'
  <2>1. guessed' = [m \in SignInNames |-> guessed'[m]]
    BY <1>0, <1>1 DEF SignInTypes
  <2>2. \A m \in SignInNames : Past(guessed'[m], clock)
    BY <1>0, <1>4, FreshNothing DEF SignInTypes
  <2> QED
    BY <1>1, <1>3, <1>5, <2>1, <2>2, SignInTypesNext
<1>7. \A k : SignIn!Times(nameFails, k)' = SignIn!Times(nameFails', k)
  BY <1>1, TimesNext
<1>8. ASSUME NEW m \in SignInNames
      PROVE  /\ Len(SignIn!Times(nameFails, m))' <= Limit /\ Slack(m)' \in Nat
             /\ Matches(SignIn!Times(nameFails, m)', guessed'[m], Slack(m)')
  <2>1. Trying(m)' = Trying(m) \ {r} /\ Uncounted(m)' = Uncounted(m) \ {r}
    BY <1>0, <1>1, <1>3, SignInsNext
  <2>2. (r \in Trying(m) <=> m = name) /\ (r \in Uncounted(m) <=> m = name)
    BY <1>1 DEF Trying, Uncounted, name
  <2>3. CASE m # name
    <3>1. Trying(m)' = Trying(m) /\ Uncounted(m)' = Uncounted(m)
      BY <2>1, <2>2, <2>3
    <3> QED
      BY <1>0, <1>4, <1>5, <1>7, <2>3, <3>1, NameRests
  <2>4. CASE m = name
    <3>1. SignIn!Times(nameFails, m)' = << >> /\ guessed'[m] = << >>
      BY <1>4, <1>5, <1>7, <2>4
    <3>2. /\ Cardinality(Trying(m)') = Cardinality(Trying(m)) - 1
          /\ Cardinality(Uncounted(m)') = Cardinality(Uncounted(m)) - 1
          /\ Cardinality(Uncounted(m)) > 0
      <4>1. r \in Trying(m) /\ r \in Uncounted(m)
        BY <2>2, <2>4
      <4>2. Cardinality(Trying(m) \ {r}) = Cardinality(Trying(m)) - 1
        BY <4>1, TryingIs, FS_RemoveElement
      <4>3. Cardinality(Uncounted(m) \ {r}) = Cardinality(Uncounted(m)) - 1
        BY <4>1, TryingIs, FS_RemoveElement
      <4>4. Cardinality(Uncounted(m)) # 0
        BY <4>1, TryingIs, FS_EmptySet
      <4> QED
        BY <2>1, <4>2, <4>3, <4>4, TryingIs
    <3>3. Slack(m)' \in Nat
      <4>1. \/ Slack(m)' = Cardinality(Requests) - 1 - Cardinality(Trying(m)') + Cardinality(Uncounted(m)')
            \/ Slack(m)' = Cardinality(Requests) - 1 - Cardinality(Trying(m)') + 0
        BY SlackNext
      <4> QED
        BY <3>2, <4>1, TryingIs, SignInCounts
    <3>4. Len(<< >>) <= Limit
      BY WindowIs
    <3> QED
      BY <3>1, <3>3, <3>4, NothingFollows
  <2> QED
    BY <2>3, <2>4
<1>9. GuessesInv'
  BY <1>8, GuessesNext
<1> QED
  BY <1>6, <1>9 DEF SignInInv

LEMMA SignInSteps == SignInInv /\ SignIn!Next => SignInInv'
<1> SUFFICES ASSUME SignInInv, SignIn!Next
             PROVE  SignInInv'
  OBVIOUS
<1>1. CASE SignIn!Tick
  BY <1>1, SignInTicks
<1>2. CASE \E i \in Ips : SignIn!EmailCode(i)
  BY <1>2, SignInMails
<1>3. ASSUME NEW r \in Requests, NEW i \in Ips, NEW n \in SignInNames, SignIn!Login(r, i, n)
      PROVE  SignInInv'
  BY <1>3, SignInLogsIn
<1>4. ASSUME NEW r \in Requests,
             SignIn!LookUpName(r) \/ SignIn!Refuse(r) \/ SignIn!CountIp(r) \/ SignIn!CountName(r)
               \/ SignIn!Welcome(r)
      PROVE  SignInInv'
  BY <1>4, SignInLooks, SignInRefuses, SignInCountsIp, SignInCountsName, SignInWelcomes
<1> QED
  BY <1>1, <1>2, <1>3, <1>4 DEF SignIn!Next

-----------------------------------------------------------------------------
(* All parts: a behaviour is one of one part                               *)

PanelInv ==
  /\ part = "accounts" => AccountsInv
  /\ part = "desk" => RuleDeskInv
  /\ part = "sign in" => SignInInv
  /\ part = "log" => LogInv
  /\ part = "store" => MigrationInv
  /\ part = "shape" => ShapeInv

LEMMA PanelStarts == PanelInit => PanelInv
<1>1. ASSUME PanelInit, part = "accounts" PROVE AccountsInv
  <2>1. AccountsInit
    BY <1>1 DEF PanelInit
  <2>2. QED
    BY <2>1, AccountsStart
<1>2. ASSUME PanelInit, part = "store" PROVE MigrationInv
  <2>1. Store!MigInit
    BY <1>2 DEF PanelInit
  <2>2. QED
    BY <2>1, MigrationStarts
<1>3. ASSUME PanelInit, part = "shape" PROVE ShapeInv
  <2>1. Shape!Init
    BY <1>3 DEF PanelInit
  <2>2. QED
    BY <2>1, ShapeStarts
<1>4. ASSUME PanelInit, part = "desk" PROVE RuleDeskInv
  <2>1. Desk!DeskInit
    BY <1>4 DEF PanelInit
  <2>2. QED
    BY <2>1, DeskStarts
<1>5. ASSUME PanelInit, part = "log" PROVE LogInv
  <2>1. Log!Init
    BY <1>5 DEF PanelInit
  <2>2. QED
    BY <2>1, LogStarts
<1>6. ASSUME PanelInit, part = "sign in" PROVE SignInInv
  <2>1. SignIn!Init
    BY <1>6 DEF PanelInit
  <2>2. QED
    BY <2>1, SignInStarts
<1>7. QED
  BY <1>1, <1>2, <1>3, <1>4, <1>5, <1>6 DEF PanelInv

LEMMA PanelStep == PanelInv /\ [PanelNext]_panelVars => PanelInv' /\ part' = part
<1> SUFFICES ASSUME PanelInv, [PanelNext]_panelVars
             PROVE  PanelInv' /\ part' = part
  OBVIOUS
<1>1. part' = part
  BY DEF PanelNext, panelVars
<1>2. ASSUME part = "accounts" PROVE AccountsInv'
  <2>1. AccountsInv /\ (AccountsNext \/ UNCHANGED accountVars)
    BY <1>2 DEF PanelInv, PanelNext, panelVars
  <2>2. QED
    BY <2>1, AccountsStep
<1>3. ASSUME part = "store" PROVE MigrationInv'
  <2>1. MigrationInv /\ (Store!MigNext \/ UNCHANGED storeVars)
    BY <1>3 DEF PanelInv, PanelNext, panelVars
  <2>2. QED
    BY <2>1, MigrationStep
<1>4. ASSUME part = "shape" PROVE ShapeInv'
  <2>1. ShapeInv /\ (Shape!Next \/ UNCHANGED shapeVars)
    BY <1>4 DEF PanelInv, PanelNext, panelVars
  <2>2. QED
    BY <2>1, ShapeStep
<1>5. ASSUME part = "desk" PROVE RuleDeskInv'
  <2>1. RuleDeskInv /\ (Desk!DeskNext \/ UNCHANGED deskVars)
    BY <1>5 DEF PanelInv, PanelNext, panelVars
  <2>2. QED
    BY <2>1, DeskStep, DeskRests DEF deskVars
<1>6. ASSUME part = "log" PROVE LogInv'
  <2>1. LogInv /\ (Log!Next \/ UNCHANGED logVars)
    BY <1>6 DEF PanelInv, PanelNext, panelVars
  <2>2. QED
    BY <2>1, LogSteps, LogRests
<1>7. ASSUME part = "sign in" PROVE SignInInv'
  <2>1. SignInInv /\ (SignIn!Next \/ UNCHANGED signInVars)
    BY <1>7 DEF PanelInv, PanelNext, panelVars
  <2>2. QED
    BY <2>1, SignInSteps, SignInRests
<1>8. QED
  BY <1>1, <1>2, <1>3, <1>4, <1>5, <1>6, <1>7 DEF PanelInv

\* The inductive invariant of the whole panel: of the accounts (which requests hold a copy of
\* which user, and for whom a session or a code may still be made), of the desk (what a request has
\* checked still holds, and how far the firewall is behind the rules), of signing in (how far the
\* wrong passwords of a name are ahead of those that were counted), of the log (its rows, and what
\* a change of the list still owes the forwarders), of the store (every record of the database is
\* the old one carried over, until an administrator sets it), and of the shape of a rule.
THEOREM PanelHolds == PanelSpec => []PanelInv
<1>1. PanelInv /\ [PanelNext]_panelVars => PanelInv'
  BY PanelStep
<1>2. QED
  BY <1>1, PanelStarts, PTL DEF PanelSpec

\* However many requests read a user before another one changes or deletes him
\* (users.Service.Update, Delete; auth's sessions): once they are over, no session is left that an
\* old password opened, and a deleted user has not come back.
THEOREM SessionsEndAtLast == PanelSpec => []LoginsEnd
<1>1. PanelInv => LoginsEnd
  BY DEF PanelInv, AccountsInv, LoginsEnd
<1>2. QED
  BY <1>1, PanelHolds, PTL

\* A verified mark is on the address that was proved, and one group at most is the default
\* (users/register.go VerifyEmail, users.Service.Update; group.go SaveGroup, DeleteGroup).
THEOREM VerifiedIsProved == PanelSpec => []DirectoryHolds
<1>1. PanelInv => DirectoryHolds
  BY DEF PanelInv, AccountsInv, DirectoryHolds
<1>2. QED
  BY <1>1, PanelHolds, PTL

\* The firewall has the entry of a rule exactly while an enabled rule asks for it, whatever is
\* created, edited, switched and deleted (web/server.go syncFirewallOnCreate, syncFirewallOnUpdate,
\* syncFirewallOnDelete), while requests on one rule or one entry do not overlap.
THEOREM FirewallFollowsRules == PanelSpec => []FirewallFollows
<1>1. PanelInv => FirewallFollows
  BY WallFollowsRules DEF PanelInv, FirewallFollows, RuleDeskInv, DeskTypes
<1>2. QED
  BY <1>1, PanelHolds, PTL

\* No user gets more rules or codes than the limits ever allowed, and a user's rule leads to the
\* tunnel of a code of his for as long as it exists (web/rule_guard.go guardCreate, guardUpdate,
\* checkRuleQuota; CreateAccessCode and allocTunIP of the store).
THEOREM RulesLeadToTheirOwners == PanelSpec => []RulesStayAllowed
<1>1. PanelInv => RulesStayAllowed
  BY RulesStayHome, DeskLimitsHold DEF PanelInv, RulesStayAllowed
<1>2. QED
  BY <1>1, PanelHolds, PTL

\* However many requests of one name were let through before a failure of one of them locked it
\* (users/register.go, handlers_auth.go): in no window are more wrong passwords of it found out than
\* the limit for each of them and one less, and never are more codes sent to an address than the
\* limit.  A failure that is counted makes room for one wrong password of every request, those
\* that are still uncounted make room for themselves, and a name that is locked lets nobody through.
THEOREM GuessesStayLimited == PanelSpec => []SignInsAreLimited
<1>1. PanelInv => SignInsAreLimited
  BY SignInIsLimited DEF PanelInv, SignInsAreLimited
<1>2. QED
  BY <1>1, PanelHolds, PTL

\* Forwarders let in whom the stored list lets in unless changes overlapped, the log of a user
\* stays bounded however often the program restarts, and the pages show each row once, the newest
\* first, from any number of buckets (forward/acl.go, storage/acl.go).
THEOREM LogStaysInOrder == PanelSpec => []LogsHold
<1>1. PanelInv => LogsHold
  BY GuardIsTheList, LogIsBounded, PagesHold DEF PanelInv, LogsHold, LogInv, LogTypes
<1>2. QED
  BY <1>1, PanelHolds, PTL

\* Whatever database of an older schema is opened (storage/migrate.go migrateV1, migrateV2,
\* migrateV3), and wherever the process dies on the way: what a user could do before he can do
\* afterwards, his code is his, and a limit of 0 in a group is one that an administrator set.
THEOREM MigrationLosesNothing == PanelSpec => []MigrationKeeps
<1>1. PanelInv => MigrationKeeps
  BY MigrationIsKept DEF PanelInv, MigrationKeeps
<1>2. QED
  BY <1>1, PanelHolds, PTL

\* Whatever was changed about a rule, it is one that could be created as it is
\* (models.ValidateForwardRule asks what ValidateCreateRuleRequest asks), its forwarders run what
\* is stored, and only a change of something they read starts them anew
\* (requiresForwarderRestart).
THEOREM RulesKeepTheirShape == PanelSpec => ShapesHold
<1>1. PanelInv => (part = "shape" => Shape!StoredIsCreatable /\ Shape!RunsWhatIsStored)
  BY DEF PanelInv, ShapeInv
<1>2. PanelInv /\ [PanelNext]_panelVars => [part = "shape" => Shape!OnlyChangesRestart]_panelVars
  <2> SUFFICES ASSUME PanelInv, [PanelNext]_panelVars, part = "shape"
               PROVE  Shape!OnlyChangesRestart
    OBVIOUS
  <2>1. ShapeInv /\ (Shape!Next \/ UNCHANGED shapeVars)
    BY DEF PanelInv, PanelNext, panelVars
  <2>2. QED
    BY <2>1, ShapeChanges
<1>3. QED
  BY <1>1, <1>2, PanelHolds, PTL DEF PanelSpec, ShapesHold

=============================================================================
