-------------------------- MODULE IdentityInstall --------------------------
(***************************************************************************)
(* Installing and adopting Pocket ID: IdentityPlanner.plan and apply       *)
(* (src/src/extensions/identity-planner.ts) over what                      *)
(* detectPocketIdRuntime (src/src/runtime/pocket-id-runtime.ts) finds.  An *)
(* application writes one file after the other and then starts the         *)
(* container; it may fail or end at any of its awaits and is asked for     *)
(* again.  What must survive all of it is the encryption key the data is   *)
(* locked with and the issuer that OIDC clients are registered with.       *)
(*                                                                         *)
(* The key of a service is in .env or in a file that it mounts, the user's *)
(* own or LocalLink's, and the user edits files only while no application  *)
(* is in flight.  The data is kept in the volume or outside the container. *)
(***************************************************************************)
EXTENDS Integers

CONSTANTS
  Urls,          \* the private HTTPS URLs the edge may give the service
  Literal,       \* may an existing service have its issuer in docker-compose.yml?
  MaxInstalls,   \* bound: applications begun
  MaxChangesByUser \* bound: edits of the user

ASSUME IdentityAssumption ==
  /\ Literal \in BOOLEAN /\ MaxInstalls \in Nat /\ MaxChangesByUser \in Nat
  /\ Urls \cap {"none", "example", "env"} = {}

VARIABLES
  pocket,      \* the Pocket ID service of docker-compose.yml
  envKey,      \* POCKET_ID_ENCRYPTION_KEY of .env, 0 when there is none
  secret,      \* .locallink/secrets/pocket-id/encryption-key: its key, NoSecret or Short
  appUrl,      \* POCKET_ID_APP_URL of .env: "none", the template's "example" or a URL
  identity,    \* what is enabled, defaulted, selected, recorded and to adopt
  edgeUrl,     \* the URL the edge planner gives the service once it is selected
  dataKey,     \* the key the data volume was created with, 0 before there is data
  pocketRuns,  \* its container: not running, or the key it was started with
  install,     \* how far the application is
  found,       \* what it found when it began
  moved,       \* history: the key was taken away from the data, see KeyOpensData
  installs, changes

filesVars == <<pocket, envKey, secret, appUrl, identity>>
identityVars == <<filesVars, edgeUrl, dataKey, pocketRuns, install, found, moved, installs,
                  changes>>

EnvKeys == {1, 2}
FileKey == 3    \* in the file the user mounts
NoSecret == 0   \* there is no file
Short == -1     \* it holds less than a key

(* ENCRYPTION_KEY_FILE and its mount name no file, the user's or ours.     *)
Absent == [declared |-> FALSE, persistent |-> FALSE, issuer |-> "env", byEnv |-> FALSE, file |-> "none"]
NoNotes == [keyed |-> FALSE, direct |-> FALSE, writes |-> FALSE, issuer |-> "none"]

(* A new workspace, with or without a template's .env; or a Pocket ID of   *)
(* the user's, keyed one way or the other, with its data.                  *)
IdentityInit ==
  /\ secret = NoSecret /\ envKey \in {0, 1}
  /\ \/ pocket = Absent /\ dataKey = 0
        /\ appUrl \in {"none", "example"}
     \/ /\ pocket \in [declared : {TRUE}, persistent : BOOLEAN,
                       issuer : {"env"} \cup IF Literal THEN Urls ELSE {},
                       byEnv : BOOLEAN, file : {"none", "users"}]
        /\ pocket.byEnv = (pocket.file = "none")
        /\ pocket.byEnv => envKey # 0
        /\ appUrl \in IF pocket.issuer = "env" THEN {"none"} \cup Urls ELSE {"none"}
        /\ dataKey = IF pocket.byEnv THEN envKey ELSE FileKey
  /\ identity \in [enabled : {FALSE}, defaults : {FALSE}, selected : BOOLEAN, owned : {FALSE},
                   live : BOOLEAN]
  /\ identity.live \/ identity.selected => pocket.declared
  /\ edgeUrl \in Urls \cup {"none"}
  /\ pocketRuns = IF pocket.declared THEN dataKey ELSE 0
  /\ install = "idle" /\ found = NoNotes /\ moved = FALSE /\ installs = 0 /\ changes = 0

-----------------------------------------------------------------------------
(* encryptionConfiguration: a key from the environment comes before the    *)
(* file, and a file of less than 16 bytes is none.                         *)
InFile ==
  CASE pocket.file = "users" -> FileKey
    [] pocket.file = "ours" /\ secret > 0 -> secret
    [] pocket.file = "none" \/ (pocket.file = "ours" /\ secret <= 0) -> 0

Key == IF pocket.byEnv /\ envKey # 0 THEN envKey ELSE InFile
Keyed == Key # 0

(* The issuer: of the service itself, or of .env. *)
Issuer == IF pocket.issuer = "env" THEN appUrl ELSE pocket.issuer

ValidIssuer(url) == url \in Urls

(* To be started the service needs any https URL, the template's too. *)
ConfiguredAsIssuer(url) == url # "none"

Configured == Keyed /\ ConfiguredAsIssuer(Issuer)

(* The built-in healthcheck can pass only when the key opens the data. *)
Works == pocketRuns # 0 /\ pocketRuns = dataKey

RouteUrl == IF identity.selected THEN edgeUrl ELSE "none"

IssuerMismatch ==
  pocket.declared /\ ValidIssuer(Issuer) /\ ValidIssuer(RouteUrl) /\ RouteUrl # Issuer

(* The steps of the plan that are LocalLink's and pending.  A service      *)
(* without a volume is no step of it.                                      *)
PendingStep(healthy) ==
  \/ ~identity.enabled \/ ~pocket.declared \/ ~Keyed \/ ~identity.defaults \/ ~identity.selected
  \/ ~ValidIssuer(Issuer) /\ ValidIssuer(RouteUrl)
  \/ ~identity.owned /\ identity.live /\ ValidIssuer(Issuer)
  \/ ~healthy /\ Configured

CanInstall(healthy) == PendingStep(healthy) /\ ~IssuerMismatch

-----------------------------------------------------------------------------
Then(step) == install' = step
GivesUp == install' = "idle" /\ found' = NoNotes

BeginInstall ==
  /\ install = "idle" /\ installs < MaxInstalls
  /\ installs' = installs + 1
  /\ \E healthy \in {FALSE, Works} : CanInstall(healthy)
  /\ found' = [keyed |-> Keyed, direct |-> envKey # 0,
               writes |-> ~pocket.declared \/ ~pocket.persistent \/ ~Keyed,
               issuer |-> IF pocket.declared THEN Issuer ELSE "none"]
  /\ Then("secret")
  /\ UNCHANGED <<filesVars, edgeUrl, dataKey, pocketRuns, moved, changes>>

(* A mutant: a key is generated whenever none was detected. *)
SecretAnew == installs + 3

(* ensureEncryptionSecret leaves a file that is there alone. *)
SecretFor == IF secret = NoSecret THEN installs + 3 ELSE secret

(* The write creates the file first: a process that ends, or a disk that   *)
(* is full, leaves it short.                                               *)
EnsureEncryptionSecret ==
  /\ install = "secret"
  /\ \/ /\ ~found.keyed /\ ~found.direct
        /\ \/ secret' = SecretFor /\ Then("compose") /\ UNCHANGED found
           \/ secret = NoSecret /\ secret' = Short /\ GivesUp
     \/ (found.keyed \/ found.direct) /\ Then("compose") /\ UNCHANGED <<secret, found>>
  /\ UNCHANGED <<pocket, envKey, appUrl, identity, edgeUrl, dataKey, pocketRuns, moved,
                 installs, changes>>

(* The patch merges its environment and its volumes into what is there,    *)
(* but ENCRYPTION_KEY_FILE then names LocalLink's file, which is there     *)
(* only when no key was found before.                                      *)
Patched ==
  [declared |-> TRUE, persistent |-> TRUE, issuer |-> "env",
   byEnv |-> pocket.byEnv \/ found.direct, file |-> IF found.direct THEN pocket.file ELSE "ours"]

WriteService ==
  /\ install = "compose"
  /\ pocket' = IF found.writes THEN Patched ELSE pocket
  /\ moved' = (moved \/ (pocket.file = "users" /\ ~pocket.persistent))
  /\ Then("defaults")
  /\ UNCHANGED <<envKey, secret, appUrl, identity, edgeUrl, dataKey, pocketRuns, found, installs,
                 changes>>

WriteDefaults ==
  /\ install = "defaults"
  /\ identity' = [identity EXCEPT !.defaults = TRUE]
  /\ Then("declare")
  /\ UNCHANGED <<pocket, envKey, secret, appUrl, edgeUrl, dataKey, pocketRuns, found, moved,
                 installs, changes>>

(* The declaration, then the adoption of a live route that agrees with the *)
(* issuer; the edge planner may refuse the selection.                      *)
DeclareIdentity ==
  /\ install = "declare"
  /\ identity' = [identity EXCEPT !.enabled = TRUE,
                                  !.owned = @ \/ (identity.live /\ ValidIssuer(Issuer))]
  /\ Then("select")
  /\ UNCHANGED <<pocket, envKey, secret, appUrl, edgeUrl, dataKey, pocketRuns, found, moved,
                 installs, changes>>

SelectForEdge ==
  /\ install = "select"
  /\ \/ identity' = [identity EXCEPT !.selected = TRUE] /\ Then("issuer") /\ UNCHANGED found
     \/ GivesUp /\ UNCHANGED identity
  /\ UNCHANGED <<pocket, envKey, secret, appUrl, edgeUrl, dataKey, pocketRuns, moved,
                 installs, changes>>

(* A mutant: the issuer follows the plan of the edge. *)
IssuerOfPlan == IF ValidIssuer(RouteUrl) THEN RouteUrl ELSE appUrl

IssuerToWrite == IF ~ValidIssuer(appUrl) /\ ValidIssuer(RouteUrl) THEN RouteUrl ELSE appUrl

WriteIssuer ==
  /\ install = "issuer"
  /\ appUrl' = IssuerToWrite
  /\ Then("start")
  /\ UNCHANGED <<pocket, envKey, secret, identity, edgeUrl, dataKey, pocketRuns, found, moved,
                 installs, changes>>

(* docker compose up -d: a new data volume is created with the key. *)
UpPocketId ==
  /\ pocketRuns' = Key
  /\ dataKey' = IF dataKey = 0 THEN Key ELSE dataKey

(* A container that runs is left alone, healthy or not. *)
StartPocketId ==
  /\ install = "start"
  /\ \/ /\ Configured /\ pocketRuns = 0
        /\ \/ UpPocketId /\ Then("check") /\ UNCHANGED found
           \/ UpPocketId /\ GivesUp
           \/ GivesUp /\ UNCHANGED <<dataKey, pocketRuns>>
     \/ ~(Configured /\ pocketRuns = 0) /\ Then("installed") /\ UNCHANGED <<dataKey, pocketRuns, found>>
  /\ UNCHANGED <<filesVars, edgeUrl, moved, installs, changes>>

CheckPocketId ==
  /\ install = "check"
  /\ \/ Works /\ Then("installed") /\ UNCHANGED found
     \/ GivesUp
  /\ UNCHANGED <<filesVars, edgeUrl, dataKey, pocketRuns, moved, installs, changes>>

InstallAnswers ==
  /\ install = "installed" /\ GivesUp
  /\ UNCHANGED <<filesVars, edgeUrl, dataKey, pocketRuns, moved, installs, changes>>

InstallEnds ==
  /\ install \notin {"idle", "installed"} /\ GivesUp
  /\ UNCHANGED <<filesVars, edgeUrl, dataKey, pocketRuns, moved, installs, changes>>

-----------------------------------------------------------------------------
(* External: the container stops; the edge would give another URL, for a   *)
(* listener that someone else took or a tailnet that went away.            *)
Surroundings ==
  /\ changes < MaxChangesByUser
  /\ changes' = changes + 1
  /\ \/ pocketRuns # 0 /\ pocketRuns' = 0 /\ UNCHANGED edgeUrl
     \/ edgeUrl' \in (Urls \cup {"none"}) \ {edgeUrl} /\ UNCHANGED pocketRuns
  /\ UNCHANGED <<filesVars, dataKey, install, found, moved, installs>>

(* External: the user takes the service out of docker-compose.yml, whose   *)
(* volume stays; takes a key out of .env or puts one in; or deselects the  *)
(* service.                                                                *)
UserChanges ==
  /\ install = "idle" /\ changes < MaxChangesByUser
  /\ changes' = changes + 1
  /\ \/ /\ pocket' = Absent /\ pocketRuns' = 0
        /\ moved' = (moved \/ pocket.file = "users")
        /\ UNCHANGED <<envKey, identity>>
     \/ /\ envKey' \in ({0} \cup EnvKeys) \ {envKey}
        /\ moved' = (moved \/ dataKey # 0 \/ secret # NoSecret)
        /\ UNCHANGED <<pocket, pocketRuns, identity>>
     \/ /\ identity' = [identity EXCEPT !.selected = FALSE]
        /\ UNCHANGED <<pocket, pocketRuns, envKey, moved>>
  /\ UNCHANGED <<secret, appUrl, edgeUrl, dataKey, install, found, installs>>

IdentityNext ==
  \/ BeginInstall \/ EnsureEncryptionSecret \/ WriteService \/ WriteDefaults \/ DeclareIdentity
  \/ SelectForEdge \/ WriteIssuer \/ StartPocketId \/ CheckPocketId \/ InstallAnswers \/ InstallEnds
  \/ Surroundings \/ UserChanges

IdentitySpec == IdentityInit /\ [][IdentityNext]_identityVars

-----------------------------------------------------------------------------
(* docs/future-features.md:41: no account or data is silently reset.  A    *)
(* service that has a key has the one that its data was created with,      *)
(* however often the installation was interrupted or the service was taken *)
(* out and put back.  It holds until the key is taken away from the data   *)
(* (moved): by the user who edits the one in .env once there is data or a  *)
(* generated key, or who takes out a service with a key file of his own;   *)
(* and by LocalLink's patch of such a service when it has no data volume   *)
(* (identity-planner.ts:443-471), after which the next application makes   *)
(* another key.                                                            *)
KeyOpensData == pocket.declared /\ Keyed /\ dataKey # 0 /\ ~moved => Key = dataKey

(* docs/product-goal.md:93: no step of an application changes the issuer   *)
(* of a service that has a valid one, whatever the edge now plans.         *)
IssuerIsKept ==
  [][install # "idle" /\ pocket.declared /\ ValidIssuer(Issuer) => Issuer' = Issuer]_identityVars

(* docs/product-goal.md:93: an application that succeeds leaves the issuer *)
(* that it found.                                                          *)
AppliedIssuerIsKept ==
  install = "installed" /\ ValidIssuer(found.issuer) => Issuer = found.issuer
=============================================================================
