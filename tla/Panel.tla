------------------------------- MODULE Panel -------------------------------
(***************************************************************************)
(* The parts behind the panel: accounts, the desk where rules and codes    *)
(* are made, the shape of one rule, sign-in limits, the access list with   *)
(* the log, and the migration of the store.  They share no state in the    *)
(* models: a behaviour is one of one part, with the variables of its       *)
(* module; those of the others are None.                                   *)
(***************************************************************************)
EXTENDS Accounts

CONSTANTS DeskUsers, DeskRules, Codes, Endpoints, PortOf(_),        \* of RuleDesk
          Names, Addresses, MaxStarted, DeskWorks, Admin, Shared, Public,
          Ips, SignInNames, Limit, Window, MaxKeys, MaxClock,       \* of SignIn
          Ids, ListEntries, LogRules, Sources, Owner, Queued,       \* of AccessLog
          TrimEvery, LogLimits, PageSizes, MaxEvents, MaxChanges, MaxRestarts, Every, Nobody,
          People, LastPort, Defaults, OldUsers, OldGroups,          \* of Migration
          Shapes, Crashes,
          Values                                                    \* of RuleShape

VARIABLES part,
          people, rules, codes, policy, wall, asked, desk, started, blurred, most,
          use, clock, sends, ipFails, nameFails, req, mailed, guessed,
          logPart, list, guard, changing, mixed, queue, rows, appends, limit, time, changes,
          restarts, cut, owed,
          db, phase, crashes, before, touched,
          rule, runs, starts

Desk == INSTANCE RuleDesk WITH Users <- DeskUsers, Rules <- DeskRules, Works <- DeskWorks,
                               jobs <- asked, work <- desk
SignIn == INSTANCE SignIn WITH Names <- SignInNames
Log == INSTANCE AccessLog WITH Rules <- LogRules, Entries <- ListEntries, Limits <- LogLimits,
                               Parts <- {"list", "log"}, part <- logPart,
                               blurred <- mixed, clock <- time
Store == INSTANCE Migration WITH MaxPort <- LastPort
Shape == INSTANCE RuleShape

ASSUME PanelAssumption ==
  /\ AccountsAssumption
  /\ Desk!DeskAssumption
  /\ SignIn!LimitsAssumption
  /\ Log!LogAssumption
  /\ Store!MigrationAssumption
  /\ Shape!ShapeAssumption

deskVars == <<people, rules, codes, policy, wall, asked, desk, started, blurred, most>>
signInVars == <<use, clock, sends, ipFails, nameFails, req, mailed, guessed>>
logVars == <<logPart, list, guard, changing, mixed, queue, rows, appends, limit, time, changes,
             restarts, cut, owed>>
storeVars == <<db, phase, crashes, before, touched>>
shapeVars == <<rule, runs, starts>>
panelVars == <<part, accountVars, deskVars, signInVars, logVars, storeVars, shapeVars>>

AccountsUnused ==
  /\ users = None /\ gone = None /\ groups = None /\ chosen = None /\ sessions = None
  /\ mail = None /\ jobs = None /\ work = None
DeskUnused ==
  /\ people = None /\ rules = None /\ codes = None /\ policy = None /\ wall = None
  /\ asked = None /\ desk = None /\ started = None /\ blurred = None /\ most = None
SignInUnused ==
  /\ use = None /\ clock = None /\ sends = None /\ ipFails = None /\ nameFails = None
  /\ req = None /\ mailed = None /\ guessed = None
LogUnused ==
  /\ logPart = None /\ list = None /\ guard = None /\ changing = None /\ mixed = None
  /\ queue = None /\ rows = None /\ appends = None /\ limit = None /\ time = None
  /\ changes = None /\ restarts = None /\ cut = None /\ owed = None
StoreUnused == db = None /\ phase = None /\ crashes = None /\ before = None /\ touched = None
ShapeUnused == rule = None /\ runs = None /\ starts = None

PanelInit ==
  \/ /\ part = "accounts" /\ AccountsInit
     /\ DeskUnused /\ SignInUnused /\ LogUnused /\ StoreUnused /\ ShapeUnused
  \/ /\ part = "desk" /\ Desk!DeskInit
     /\ AccountsUnused /\ SignInUnused /\ LogUnused /\ StoreUnused /\ ShapeUnused
  \/ /\ part = "sign in" /\ SignIn!Init
     /\ AccountsUnused /\ DeskUnused /\ LogUnused /\ StoreUnused /\ ShapeUnused
  \/ /\ part = "log" /\ Log!Init
     /\ AccountsUnused /\ DeskUnused /\ SignInUnused /\ StoreUnused /\ ShapeUnused
  \/ /\ part = "store" /\ Store!MigInit
     /\ AccountsUnused /\ DeskUnused /\ SignInUnused /\ LogUnused /\ ShapeUnused
  \/ /\ part = "shape" /\ Shape!Init
     /\ AccountsUnused /\ DeskUnused /\ SignInUnused /\ LogUnused /\ StoreUnused

PanelNext ==
  \/ /\ part = "accounts" /\ AccountsNext
     /\ UNCHANGED <<part, deskVars, signInVars, logVars, storeVars, shapeVars>>
  \/ /\ part = "desk" /\ Desk!DeskNext
     /\ UNCHANGED <<part, accountVars, signInVars, logVars, storeVars, shapeVars>>
  \/ /\ part = "sign in" /\ SignIn!Next
     /\ UNCHANGED <<part, accountVars, deskVars, logVars, storeVars, shapeVars>>
  \/ /\ part = "log" /\ Log!Next
     /\ UNCHANGED <<part, accountVars, deskVars, signInVars, storeVars, shapeVars>>
  \/ /\ part = "store" /\ Store!MigNext
     /\ UNCHANGED <<part, accountVars, deskVars, signInVars, logVars, shapeVars>>
  \/ /\ part = "shape" /\ Shape!Next
     /\ UNCHANGED <<part, accountVars, deskVars, signInVars, logVars, storeVars>>

PanelSpec == PanelInit /\ [][PanelNext]_panelVars

-----------------------------------------------------------------------------
(* Properties *)

\* Whichever request reads a user before another one changes him: no session outlives the
\* password it was opened with by more than the requests that were under way, and a deleted
\* user stays deleted (users.Service.Update, Delete, auth's sessions).
LoginsEnd == part = "accounts" => AccountsTypeOK /\ OldSessionsEnd /\ DeletedStayDeleted

\* Whoever is marked as verified has proved the address that he has now, and whatever groups are
\* saved or deleted, never are two the default (users/register.go, group.go).
DirectoryHolds == part = "accounts" => VerifiedWasProved /\ OneDefault

\* The firewall has an entry for exactly the enabled rules that ask for one, once the requests
\* that overlapped are over (web/handlers.go).
FirewallFollows == part = "desk" => Desk!DeskTypeOK /\ Desk!FirewallFollows

\* Limits of users hold after every request that was alone, and a rule of a user leads to a
\* tunnel address of his for as long as it exists (web/rule_guard.go).
RulesStayAllowed == part = "desk" => Desk!LimitsHold /\ Desk!RulesLeadHome

\* What is stored could be created as it is, the forwarders run what is stored, whatever request
\* made or changed the rule, and a change that says nothing else to them cuts nobody off
\* (models.Normalize, requiresForwarderRestart).
ShapesHold ==
  /\ [](part = "shape" => Shape!StoredIsCreatable /\ Shape!RunsWhatIsStored)
  /\ [][part = "shape" => Shape!OnlyChangesRestart]_panelVars

\* In every window an address is sent no more codes than the limit, though the tables are pruned,
\* and the wrong passwords of a name that are found out are no more than the limit and one for
\* each sign-in at once, less one (users/register.go, web/handlers_auth.go).
SignInsAreLimited == part = "sign in" => SignIn!CodesAreLimited /\ SignIn!GuessesAreLimited

\* Forwarders let in whom the stored list lets in, the log stays bounded and loses its oldest
\* rows, and its pages show each row once (forward/acl.go, storage/acl.go).
LogsHold ==
  part = "log" => Log!TypeOK /\ Log!GuardFollowsList /\ Log!LogsAreTrimmed /\ Log!PagesAreNewestFirst

\* Opening a database of an older schema, dying on the way and opening it again: users keep
\* their rights and codes, and a limit of 0 is what an administrator set (storage/migrate.go).
MigrationKeeps == part = "store" => Store!RightsKept /\ Store!KeysKept /\ Store!ZeroIsMeant
=============================================================================
