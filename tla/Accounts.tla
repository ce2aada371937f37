------------------------------ MODULE Accounts ------------------------------
(***************************************************************************)
(* The panel's accounts: users, their groups and the default group         *)
(* (internal/users over internal/storage), login sessions (internal/auth   *)
(* and the web handlers) and the codes mailed to an address                *)
(* (internal/email).                                                       *)
(*                                                                         *)
(* Each request of the panel runs in a goroutine of its own.  Reads and    *)
(* writes of the store are transactions, but a request makes several: it   *)
(* reads a record, changes its copy, and saves the copy whole.  So a       *)
(* request is a job with a copy, and each transaction is an action.  That a *)
(* password is another is all that matters of it here: it is left out of   *)
(* the accounts, and a request gives the right one.  The mark of a         *)
(* verified address is modelled by the address that it was given to.       *)
(***************************************************************************)
EXTENDS Naturals, FiniteSets

CONSTANTS Users, FirstAdmin,   \* ids; the one that Bootstrap creates
          Groups, FirstGroup,  \* ids; the one that ensureDefaultGroup creates
          Emails,
          Requests,            \* at most so many run at once
          Tokens,              \* at most so many sessions exist at once
          Works,               \* each behaviour has the requests of one of these sets
          None

\* Of the constants; assumed where an instance is made.
AccountsAssumption ==
  /\ FirstAdmin \in Users /\ FirstGroup \in Groups
  /\ None \notin Users \cup Groups \cup Emails
  /\ Works \subseteq SUBSET STRING

VARIABLES
  users,    \* id -> account, or None
  gone,     \* ids that were deleted
  groups,   \* id -> "none", "plain" or "default"
  chosen,   \* the settings' DefaultGroupID
  sessions, \* token -> the user it is of, and whether it should have ended
  mail,     \* <<purpose, address>> with a valid code
  jobs,     \* the requests that run
  work      \* the kinds of request of this behaviour

accountVars == <<users, gone, groups, chosen, sessions, mail, jobs, work>>

Purposes == {"register", "bind", "reset"}
Steps == {"none", "issue", "email", "bind", "check", "save", "revoke", "create", "erase", "find",
          "saveGroup", "saveChosen"}

Account == [role : {"admin", "user"}, disabled : BOOLEAN,
            email : Emails \cup {None}, verified : Emails \cup {None}, group : Groups \cup {None}]
Plain(role, g) ==
  [role |-> role, disabled |-> FALSE, email |-> None, verified |-> None, group |-> g]
NoJob == [at |-> "none", who |-> None, copy |-> None, revokes |-> FALSE]
NoSession == [who |-> None, stale |-> FALSE]

Exists(u) == u \in Users /\ users[u] # None
Present == {g \in Groups : groups[g] # "none"}
ActiveAdmin(a) == a.role = "admin" /\ ~a.disabled
ActiveAdmins == {u \in Users : Exists(u) /\ ActiveAdmin(users[u])}

\* Bootstrap and ensureDefaultGroup, over an empty store.
AccountsInit ==
  /\ users = [u \in Users |-> IF u = FirstAdmin THEN Plain("admin", None) ELSE None]
  /\ gone = {} /\ mail = {}
  /\ groups = [g \in Groups |-> IF g = FirstGroup THEN "default" ELSE "none"]
  /\ chosen = FirstGroup
  /\ sessions = [t \in Tokens |-> NoSession]
  /\ jobs = [r \in Requests |-> NoJob]
  /\ work \in Works

-----------------------------------------------------------------------------
(* Requests *)

\* The middleware: a session of an account that exists and is enabled.  What asks for
\* an administrator may always come from the rescue account of the configuration, which
\* is none of the users: no guard of updateUser and deleteUser on oneself applies to it.
SignedIn(u) == Exists(u) /\ ~users[u].disabled /\ \E t \in Tokens : sessions[t].who = u

Job(at, who, copy, revokes) == [at |-> at, who |-> who, copy |-> copy, revokes |-> revokes]
Goes(r, job) == jobs[r] = NoJob /\ jobs' = [jobs EXCEPT ![r] = job]
Continues(r, at) == jobs' = [jobs EXCEPT ![r].at = at]
Ends(r) == jobs' = [jobs EXCEPT ![r] = NoJob]

\* SaveUser: the whole copy, if the account still exists.
Saved(u, copy) == users' = [users EXCEPT ![u] = IF @ = None THEN None ELSE copy]

\* SetUserEmail: only the address and its mark, if no other account has it.
Taken(u, e) == e # None /\ \E v \in Users \ {u} : Exists(v) /\ users[v].email = e
EmailSet(u, e, verified) ==
  users' = [users EXCEPT ![u].email = e, ![u].verified = IF e = None THEN None ELSE verified]

\* The sessions that a change of password, a disabling or a deletion must end.
Stale(u) == [t \in Tokens |-> [sessions[t] EXCEPT !.stale = @ \/ sessions[t].who = u]]

-----------------------------------------------------------------------------
(* Sessions *)

\* login: Authenticate, and then Issue.
Login(r, u) ==
  /\ "login" \in work /\ Exists(u) /\ ~users[u].disabled
  /\ Cardinality({t \in Tokens : sessions[t].who # None}
                 \cup {q \in Requests : jobs[q].at = "issue"}) < Cardinality(Tokens)
  /\ Goes(r, Job("issue", u, None, FALSE))
  /\ UNCHANGED <<users, gone, groups, chosen, sessions, mail, work>>

Issue(r) ==
  /\ jobs[r].at = "issue"
  /\ \E t \in Tokens :
       /\ sessions[t].who = None
       /\ sessions' = [sessions EXCEPT ![t].who = jobs[r].who]
  /\ Ends(r)
  /\ UNCHANGED <<users, gone, groups, chosen, mail, work>>

\* Logout, the time to live, and a request of an account that is gone.
SessionEnds(t) ==
  /\ sessions[t].who # None
  /\ sessions' = [sessions EXCEPT ![t] = NoSession]
  /\ UNCHANGED <<users, gone, groups, chosen, mail, jobs, work>>

\* RevokeUser, the last step of a request.
Revoke(r) ==
  /\ jobs[r].at = "revoke"
  /\ sessions' = [t \in Tokens |-> IF sessions[t].who = jobs[r].who THEN NoSession ELSE sessions[t]]
  /\ Ends(r)
  /\ UNCHANGED <<users, gone, groups, chosen, mail, work>>

-----------------------------------------------------------------------------
(* Accounts *)

\* ChangeOwnPassword, up to the save.
ChangeOwnPassword(r, u) ==
  /\ "password" \in work /\ SignedIn(u)
  /\ Goes(r, Job("save", u, users[u], TRUE))
  /\ UNCHANGED <<users, gone, groups, chosen, sessions, mail, work>>

\* Mutant of Mark: the mark is kept when the address changes.
MarkKept(a, email, mark) ==
  CASE mark = "set" -> email
    [] mark = "kept" -> a.verified
    [] OTHER -> None

\* A new address is not verified, and no address is never verified: the mark is kept,
\* set or taken.
Mark(a, email, mark) ==
  CASE mark = "set" -> email
    [] mark = "kept" /\ email = a.email -> a.verified
    [] OTHER -> None

\* Update, one field at a time: the record is read, and changed in the copy.
UpdateEmail(r, u) ==
  /\ "set email" \in work /\ Exists(u)
  /\ \E e \in Emails \cup {None}, mark \in {"kept", "set", "taken"} :
       Goes(r, Job("email", u, [users[u] EXCEPT !.email = e, !.verified = Mark(users[u], e, mark)],
                   FALSE))
  /\ UNCHANGED <<users, gone, groups, chosen, sessions, mail, work>>

UpdatePassword(r, u) ==
  /\ "set password" \in work /\ Exists(u)
  /\ Goes(r, Job("save", u, users[u], TRUE))
  /\ UNCHANGED <<users, gone, groups, chosen, sessions, mail, work>>

\* The role and the disabled flag; "check" is ensureAnotherAdmin.
UpdateStanding(r, u) ==
  /\ "set standing" \in work /\ Exists(u)
  /\ \E role \in {"admin", "user"}, disabled \in BOOLEAN :
       LET copy == [users[u] EXCEPT !.role = role, !.disabled = disabled]
       IN Goes(r, Job(IF ActiveAdmin(users[u]) /\ ~ActiveAdmin(copy) THEN "check" ELSE "save",
                      u, copy, disabled /\ ~users[u].disabled))
  /\ UNCHANGED <<users, gone, groups, chosen, sessions, mail, work>>

UpdateGroupOf(r, u) ==
  /\ "set group" \in work /\ Exists(u)
  /\ \E g \in Present \cup {None} :
       Goes(r, Job("save", u, [users[u] EXCEPT !.group = g], FALSE))
  /\ UNCHANGED <<users, gone, groups, chosen, sessions, mail, work>>

\* SetUserEmail, in Update and in BindOwnEmail; a refusal ends the request.
SetUserEmail(r) ==
  LET j == jobs[r]
      set == Exists(j.who) /\ ~Taken(j.who, j.copy.email)
  IN /\ j.at \in {"email", "bind"}
     /\ IF set THEN EmailSet(j.who, j.copy.email, j.copy.verified) ELSE UNCHANGED users
     /\ IF set /\ j.at = "email" THEN Continues(r, "save") ELSE Ends(r)
     /\ UNCHANGED <<gone, groups, chosen, sessions, mail, work>>

EnsureAnotherAdmin(r) ==
  /\ jobs[r].at = "check"
  /\ IF ActiveAdmins \ {jobs[r].who} # {} THEN Continues(r, "save") ELSE Ends(r)
  /\ UNCHANGED <<users, gone, groups, chosen, sessions, mail, work>>

\* Mutant of SaveUser: the sessions are left.
SaveUserOnly(r) ==
  LET j == jobs[r]
  IN /\ j.at = "save"
     /\ Saved(j.who, j.copy)
     /\ sessions' = IF Exists(j.who) /\ j.revokes THEN Stale(j.who) ELSE sessions
     /\ Ends(r)
     /\ UNCHANGED <<gone, groups, chosen, mail, work>>

\* SaveUser in Update, ChangeOwnPassword and ResetPasswordWithCode.
SaveUser(r) ==
  LET j == jobs[r]
  IN /\ j.at = "save"
     /\ Saved(j.who, j.copy)
     /\ IF Exists(j.who) /\ j.revokes
          THEN sessions' = Stale(j.who) /\ Continues(r, "revoke")
          ELSE UNCHANGED sessions /\ Ends(r)
     /\ UNCHANGED <<gone, groups, chosen, mail, work>>

\* deleteUser and Delete: the transaction of DeleteUser refuses the last administrator.
DeleteUser(r, u) ==
  /\ "delete" \in work /\ Exists(u)
  /\ users[u].role = "admin" => Cardinality(ActiveAdmins) > 1
  /\ users' = [users EXCEPT ![u] = None]
  /\ gone' = gone \cup {u}
  /\ sessions' = Stale(u)
  /\ Goes(r, Job("revoke", u, None, FALSE))
  /\ UNCHANGED <<groups, chosen, mail, work>>

\* A fresh uuid.
Fresh(u) == u \in Users \ gone /\ users[u] = None /\ \A r \in Requests : jobs[r].who # u

\* createUser and Register, up to CreateUser; without SMTP no address is asked for.
CreateUser(r, u) ==
  /\ "create" \in work /\ Fresh(u)
  /\ \E role \in {"admin", "user"}, g \in Present \cup {None} :
       Goes(r, Job("create", u, Plain(role, g), FALSE))
  /\ UNCHANGED <<users, gone, groups, chosen, sessions, mail, work>>

Register(r, u) ==
  /\ "register" \in work /\ Fresh(u)
  /\ \E e \in Emails \cup {None} :
       /\ e # None => <<"register", e>> \in mail
       /\ mail' = mail \ {<<"register", e>>}
       /\ Goes(r, Job("create", u, [Plain("user", chosen) EXCEPT !.email = e, !.verified = e],
                      FALSE))
  /\ UNCHANGED <<users, gone, groups, chosen, sessions, work>>

\* The transaction of CreateUser; a taken address ends the request.
Create(r) ==
  LET j == jobs[r]
  IN /\ j.at = "create"
     /\ users' = IF Taken(j.who, j.copy.email) THEN users ELSE [users EXCEPT ![j.who] = j.copy]
     /\ Ends(r)
     /\ UNCHANGED <<gone, groups, chosen, sessions, mail, work>>

-----------------------------------------------------------------------------
(* Mailed codes *)

\* SendEmailCode and SendBindEmailCode: none is sent to reset an unknown address.
SendCode(purpose, e) ==
  /\ purpose \in work
  /\ purpose = "reset" => \E u \in Users : Exists(u) /\ users[u].email = e
  /\ mail' = mail \cup {<<purpose, e>>}
  /\ UNCHANGED <<users, gone, groups, chosen, sessions, jobs, work>>

\* Too many wrong attempts, or ten minutes.
CodeLapses(code) ==
  /\ code \in mail /\ mail' = mail \ {code}
  /\ UNCHANGED <<users, gone, groups, chosen, sessions, jobs, work>>

\* BindOwnEmail, up to SetUserEmail: Verify takes the code.
BindOwnEmail(r, u) ==
  /\ "bind" \in work /\ SignedIn(u)
  /\ \E e \in Emails :
       /\ <<"bind", e>> \in mail
       /\ mail' = mail \ {<<"bind", e>>}
       /\ Goes(r, Job("bind", u, [users[u] EXCEPT !.email = e, !.verified = e], FALSE))
  /\ UNCHANGED <<users, gone, groups, chosen, sessions, work>>

\* ResetPasswordWithCode: Verify, and then GetUserByEmail.
ResetPassword(r, e) ==
  /\ "reset" \in work /\ <<"reset", e>> \in mail
  /\ mail' = mail \ {<<"reset", e>>}
  /\ Goes(r, Job("find", e, None, FALSE))
  /\ UNCHANGED <<users, gone, groups, chosen, sessions, work>>

FindByEmail(r) ==
  LET found == {u \in Users : Exists(u) /\ users[u].email = jobs[r].who}
  IN /\ jobs[r].at = "find"
     /\ IF found = {} THEN Ends(r)
          ELSE \E u \in found : jobs' = [jobs EXCEPT ![r] = Job("save", u, users[u], TRUE)]
     /\ UNCHANGED <<users, gone, groups, chosen, sessions, mail, work>>

-----------------------------------------------------------------------------
(* Groups *)

\* The transaction of SaveGroup: a default group takes the mark from the others.
Marked(g, mark) ==
  [h \in Groups |-> IF h = g THEN mark
                    ELSE IF mark = "default" /\ groups[h] = "default" THEN "plain"
                    ELSE groups[h]]

\* CreateGroup and UpdateGroup, up to SaveGroup.  The mark may be set and not taken.
EditGroup(r, g) ==
  /\ "group" \in work
  /\ \E mark \in {"plain", "default"} :
       /\ groups[g] = "default" => mark = "default"
       /\ Goes(r, Job("saveGroup", g, [mark |-> mark, cfg |-> chosen], FALSE))
  /\ UNCHANGED <<users, gone, groups, chosen, sessions, mail, work>>

SaveGroup(r) ==
  LET j == jobs[r]
  IN /\ j.at = "saveGroup"
     /\ groups' = Marked(j.who, j.copy.mark)
     /\ IF j.copy.mark = "default" /\ j.copy.cfg # j.who THEN Continues(r, "saveChosen") ELSE Ends(r)
     /\ UNCHANGED <<users, gone, chosen, sessions, mail, work>>

\* UpdateSettings, up to SaveSettings: a group it names exists, and what it does not
\* change is written back as it was read.
UpdateSettings(r) ==
  /\ "settings" \in work
  /\ \E g \in Present \cup {None, chosen} :
       Goes(r, Job("saveChosen", g, None, FALSE))
  /\ UNCHANGED <<users, gone, groups, chosen, sessions, mail, work>>

SaveSettings(r) ==
  /\ jobs[r].at = "saveChosen"
  /\ chosen' = jobs[r].who
  /\ Ends(r)
  /\ UNCHANGED <<users, gone, groups, sessions, mail, work>>

\* One transaction, that refuses the default group and one with members.
DeleteGroup(g) ==
  /\ "group" \in work /\ groups[g] = "plain"
  /\ \A u \in Users : Exists(u) => users[u].group # g
  /\ groups' = [groups EXCEPT ![g] = "none"]
  /\ UNCHANGED <<users, gone, chosen, sessions, mail, jobs, work>>

-----------------------------------------------------------------------------

\* The process is stopped or dies: requests, sessions and codes are lost, and
\* ensureDefaultGroup repairs the choice of the settings, or makes a group.
Restart ==
  /\ "restart" \in work
  /\ jobs' = [r \in Requests |-> NoJob]
  /\ sessions' = [t \in Tokens |-> NoSession]
  /\ mail' = {}
  /\ \/ chosen \in Present /\ UNCHANGED <<groups, chosen>>
     \/ /\ chosen \notin Present
        /\ \E g \in Groups :
             /\ IF \E h \in Groups : groups[h] = "default"
                  THEN groups[g] = "default" /\ UNCHANGED groups
                  ELSE groups[g] = "none" /\ groups' = Marked(g, "default")
             /\ chosen' = g
  /\ UNCHANGED <<users, gone, work>>

AccountsNext ==
  \/ \E r \in Requests :
       \/ Issue(r) \/ Revoke(r) \/ SetUserEmail(r) \/ EnsureAnotherAdmin(r) \/ SaveUser(r)
       \/ Create(r) \/ FindByEmail(r) \/ SaveGroup(r) \/ UpdateSettings(r) \/ SaveSettings(r)
       \/ \E u \in Users :
            \/ Login(r, u) \/ ChangeOwnPassword(r, u) \/ UpdateEmail(r, u) \/ UpdatePassword(r, u)
            \/ UpdateStanding(r, u) \/ UpdateGroupOf(r, u) \/ DeleteUser(r, u)
            \/ CreateUser(r, u) \/ Register(r, u) \/ BindOwnEmail(r, u)
       \/ \E e \in Emails : ResetPassword(r, e)
       \/ \E g \in Groups : EditGroup(r, g)
  \/ \E t \in Tokens : SessionEnds(t)
  \/ \E p \in Purposes, e \in Emails : SendCode(p, e)
  \/ \E c \in mail : CodeLapses(c)
  \/ \E g \in Groups : DeleteGroup(g)
  \/ Restart

AccountsSpec == AccountsInit /\ [][AccountsNext]_accountVars

-----------------------------------------------------------------------------
(* Properties *)

AccountsTypeOK ==
  /\ users \in [Users -> Account \cup {None}] /\ gone \subseteq Users
  /\ groups \in [Groups -> {"none", "plain", "default"}] /\ chosen \in Groups \cup {None}
  /\ sessions \in [Tokens -> [who : Users \cup {None}, stale : BOOLEAN]]
  /\ mail \subseteq Purposes \X Emails
  /\ \A r \in Requests : jobs[r].at \in Steps
  /\ work \in Works

\* A session from before a change of password, a disabling or a deletion ends with the
\* request that makes it: it is left only while such a request has yet to revoke (RevokeUser).
OldSessionsEnd ==
  \A t \in Tokens : sessions[t].stale =>
    \E r \in Requests : jobs[r].at = "revoke" /\ jobs[r].who = sessions[t].who

\* No request that was under way brings a deleted account back with its copy (SaveUser).
DeletedStayDeleted == \A u \in gone : users[u] = None

\* The mark of a verified address was given to that address, by a code sent to it or by an
\* administrator: whichever copies are saved over each other, it never goes to another.
VerifiedWasProved ==
  \A u \in Users : Exists(u) /\ users[u].verified # None => users[u].verified = users[u].email

\* However requests interleave, two groups never have the default mark (SaveGroup).
OneDefault == \A g, h \in Groups : groups[g] = "default" /\ groups[h] = "default" => g = h

\* There is always an administrator who can sign in: "demoting or disabling the last
\* active one would lock the panel" (Update).
SomeoneAdministers == ActiveAdmins # {}

=============================================================================
