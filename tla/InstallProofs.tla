--------------------------- MODULE InstallProofs ---------------------------
(***************************************************************************)
(* Proofs about the two installations, of Pocket ID (IdentityInstall) for  *)
(* any URLs, and of OpenObserve and its collector (ObservabilityInstall),  *)
(* for any number of applications and changes of the user.                 *)
(***************************************************************************)
EXTENDS IdentityInstall, ObservabilityInstall, TLAPS

USE IdentityAssumption, ObservabilityAssumption

-----------------------------------------------------------------------------
(* Where a service can have its key from.  The user's file is only named   *)
(* by a service whose data was created with it, and a patch that names     *)
(* LocalLink's instead is one of a service without a volume.               *)
KeyTypes ==
  /\ envKey \in {0} \cup EnvKeys /\ secret \in Int /\ installs \in Nat
  /\ secret \in {NoSecret, Short} \/ secret > FileKey
  /\ pocket.file \in {"none", "users", "ours"} /\ pocket.byEnv \in BOOLEAN
  /\ pocket.file = "users" => dataKey = FileKey /\ pocket.declared
  /\ install # "idle" => found.direct = (envKey # 0) /\ installs > 0
  /\ install \in {"secret", "compose"} /\ found.writes /\ pocket.file = "users" => ~pocket.persistent

(* Until the key is taken away, .env has a key or LocalLink has made one,  *)
(* and never both: the file is made for want of a key in .env.  The data's *)
(* key is still where it was.                                              *)
KeyInPlace ==
  /\ secret # NoSecret => envKey = 0
  /\ dataKey \in EnvKeys => envKey = dataKey
  /\ dataKey = FileKey => pocket.file = "users" /\ ~pocket.byEnv
  /\ dataKey \notin {0, FileKey} \cup EnvKeys => secret = dataKey

KeyInv == KeyTypes /\ (~moved => KeyInPlace)

LEMMA KeyValues ==
  ASSUME KeyTypes
  PROVE  /\ pocket.byEnv /\ envKey # 0 => Key = envKey
         /\ ~(pocket.byEnv /\ envKey # 0) /\ pocket.file = "users" => Key = FileKey
         /\ ~(pocket.byEnv /\ envKey # 0) /\ pocket.file # "users" /\ Key # 0 => Key = secret /\ secret > 0
<1>1. pocket.file = "users" => InFile = FileKey
  BY DEF InFile
<1>2. pocket.file = "none" => InFile = 0
  BY DEF InFile
<1>3. CASE pocket.file = "ours" /\ secret > 0
  <2>1. InFile = secret
    BY <1>3 DEF InFile, KeyTypes
  <2> QED
    BY <1>3, <2>1 DEF Key
<1>4. CASE pocket.file = "ours" /\ ~(secret > 0)
  <2>1. secret <= 0
    BY <1>4 DEF KeyTypes
  <2>2. InFile = 0
    BY <1>4, <2>1 DEF InFile
  <2> QED
    BY <1>4, <2>2 DEF Key
<1> QED
  BY <1>1, <1>2, <1>3, <1>4 DEF Key, KeyTypes

LEMMA KeyInvOpens == KeyInv => KeyOpensData
<1> SUFFICES ASSUME KeyInv, Keyed, dataKey # 0, ~moved PROVE Key = dataKey
  BY DEF KeyOpensData
<1> USE DEF KeyInv, KeyInPlace
<1>1. CASE dataKey \in EnvKeys
  <2>1. envKey = dataKey /\ secret = NoSecret /\ pocket.file # "users"
    BY <1>1 DEF KeyTypes, EnvKeys, FileKey
  <2> QED
    BY <2>1, KeyValues DEF Keyed, NoSecret
<1>2. CASE dataKey = FileKey
  BY <1>2, KeyValues
<1>3. CASE dataKey \notin {0, FileKey} \cup EnvKeys
  <2>1. secret = dataKey /\ pocket.file # "users" /\ envKey = 0
    BY <1>3 DEF KeyTypes, NoSecret
  <2> QED
    BY <2>1, KeyValues DEF Keyed
<1> QED
  BY <1>1, <1>2, <1>3

LEMMA KeyStep == KeyInv /\ [IdentityNext]_identityVars => KeyInv'
<1> SUFFICES ASSUME KeyInv, [IdentityNext]_identityVars PROVE KeyInv'
  OBVIOUS
<1> USE DEF KeyInv, KeyTypes, KeyInPlace, Then, GivesUp, filesVars
<1>1. CASE BeginInstall
  <2>1. /\ UNCHANGED <<pocket, envKey, secret, dataKey, moved>>
        /\ install' = "secret" /\ installs' = installs + 1
        /\ found'.direct = (envKey # 0)
        /\ found'.writes => ~pocket.declared \/ ~pocket.persistent \/ ~Keyed
    BY <1>1 DEF BeginInstall
  <2>2. pocket.file = "users" => Keyed
    BY KeyValues DEF Keyed, EnvKeys, FileKey
  <2>3. KeyTypes'
    BY <2>1, <2>2
  <2> QED
    BY <2>1, <2>3
<1>2. CASE EnsureEncryptionSecret
  <2>1. /\ UNCHANGED <<pocket, envKey, dataKey, moved, installs>> /\ install = "secret"
        /\ install' = "idle" \/ (install' = "compose" /\ found' = found)
    BY <1>2 DEF EnsureEncryptionSecret
  <2>2. CASE UNCHANGED secret
    BY <2>1, <2>2
  <2>3. CASE ~found.direct /\ secret = NoSecret /\ secret' \in {installs + 3, Short}
    <3>0. envKey = 0 /\ installs > 0
      BY <2>1, <2>3
    <3>1. secret' \in Int /\ (secret' = Short \/ secret' > FileKey)
      BY <2>3, <3>0 DEF Short, FileKey
    <3>2. dataKey \notin {0, FileKey} \cup EnvKeys => moved
      BY <2>3 DEF NoSecret
    <3> QED
      BY <2>1, <3>0, <3>1, <3>2
  <2> QED
    BY <1>2, <2>2, <2>3 DEF EnsureEncryptionSecret, SecretFor
<1>3. CASE WriteService
  <2>1. /\ UNCHANGED <<envKey, secret, dataKey, found, installs>>
        /\ install = "compose" /\ install' = "defaults"
        /\ pocket' = (IF found.writes THEN Patched ELSE pocket)
        /\ moved' = (moved \/ (pocket.file = "users" /\ ~pocket.persistent))
    BY <1>3 DEF WriteService
  <2>2. CASE ~found.writes
    BY <2>1, <2>2
  <2>3. CASE found.writes
    <3>1. /\ pocket'.file \in {"none", "users", "ours"} /\ pocket'.byEnv \in BOOLEAN
          /\ pocket'.file = "users" => pocket.file = "users" /\ pocket'.declared
      BY <2>1, <2>3 DEF Patched
    <3>2. dataKey = FileKey => moved'
      BY <2>1, <2>3
    <3> QED
      BY <2>1, <3>1, <3>2
  <2> QED
    BY <2>2, <2>3
<1>4. CASE WriteDefaults \/ DeclareIdentity \/ SelectForEdge \/ WriteIssuer \/ CheckPocketId
           \/ InstallAnswers \/ InstallEnds
  <2>1. /\ UNCHANGED <<pocket, envKey, secret, dataKey, moved, installs>>
        /\ \/ install' = "idle"
           \/ /\ install # "idle" /\ found' = found
              /\ install' \in {"declare", "select", "issuer", "start", "installed"}
    BY <1>4 DEF WriteDefaults, DeclareIdentity, SelectForEdge, WriteIssuer, CheckPocketId,
                InstallAnswers, InstallEnds
  <2> QED
    BY <2>1
<1>5. CASE StartPocketId
  <2>1. /\ UNCHANGED <<pocket, envKey, secret, moved, installs>> /\ install = "start"
        /\ install' = "idle" \/ (install' \in {"check", "installed"} /\ found' = found)
    BY <1>5 DEF StartPocketId
  <2>2. dataKey' = dataKey \/ (Keyed /\ dataKey = 0 /\ dataKey' = Key)
    BY <1>5 DEF StartPocketId, UpPocketId, Configured
  <2>3. CASE dataKey' = dataKey
    BY <2>1, <2>3
  <2>4. CASE Keyed /\ dataKey = 0 /\ dataKey' = Key
    <3>1. pocket.file # "users"
      BY <2>4 DEF FileKey
    <3>2. CASE pocket.byEnv /\ envKey # 0
      <4>1. dataKey' = envKey /\ envKey \in EnvKeys
        BY <2>4, <3>2, KeyValues
      <4> QED
        BY <2>1, <3>1, <4>1 DEF EnvKeys, FileKey
    <3>3. CASE ~(pocket.byEnv /\ envKey # 0)
      <4>1. dataKey' = secret /\ secret > 0
        BY <2>4, <3>1, <3>3, KeyValues DEF Keyed
      <4>2. secret > FileKey
        BY <4>1 DEF NoSecret, Short
      <4> QED
        BY <2>1, <3>1, <4>1, <4>2 DEF EnvKeys, FileKey
    <3> QED
      BY <3>2, <3>3
  <2> QED
    BY <2>2, <2>3, <2>4
<1>6. CASE Surroundings
  BY <1>6 DEF Surroundings
<1>7. CASE UserChanges
  <2>1. UNCHANGED <<secret, dataKey, install, installs>> /\ install = "idle"
    BY <1>7 DEF UserChanges
  <2>2. CASE pocket' = Absent /\ moved' = (moved \/ pocket.file = "users") /\ UNCHANGED envKey
    BY <2>1, <2>2 DEF Absent
  <2>3. CASE /\ envKey' \in ({0} \cup EnvKeys) \ {envKey} /\ UNCHANGED pocket
             /\ moved' = (moved \/ dataKey # 0 \/ secret # NoSecret)
    <3>1. ~moved' => dataKey = 0 /\ secret = NoSecret
      BY <2>3
    <3> QED
      BY <2>1, <2>3, <3>1 DEF EnvKeys, FileKey
  <2>4. CASE UNCHANGED <<pocket, envKey, moved>>
    BY <2>1, <2>4
  <2> QED
    BY <1>7, <2>2, <2>3, <2>4 DEF UserChanges
<1>8. CASE UNCHANGED identityVars
  BY <1>8 DEF identityVars
<1> QED
  BY <1>1, <1>2, <1>3, <1>4, <1>5, <1>6, <1>7, <1>8 DEF IdentityNext

(* However often an application fails or ends between two of its steps and *)
(* the user takes the service out, a service with a key has the key its    *)
(* data was created with, until the key in .env is edited, or the user's   *)
(* own key file is no longer named (ensureEncryptionSecret and the patch   *)
(* of docker-compose.yml in IdentityPlanner.apply).                        *)
THEOREM DataIsNeverLockedOut == IdentitySpec => []KeyOpensData
<1>1. IdentityInit => KeyInv
  <2> SUFFICES ASSUME IdentityInit PROVE KeyInv
    OBVIOUS
  <2>1. install = "idle" /\ installs = 0 /\ secret = NoSecret /\ envKey \in {0, 1}
    BY DEF IdentityInit
  <2>2. CASE pocket = Absent /\ dataKey = 0
    BY <2>1, <2>2 DEF KeyInv, KeyTypes, KeyInPlace, Absent, NoSecret, EnvKeys, FileKey
  <2>3. CASE /\ pocket.declared /\ pocket.byEnv \in BOOLEAN /\ pocket.file \in {"none", "users"}
             /\ pocket.byEnv = (pocket.file = "none") /\ (pocket.byEnv => envKey # 0)
             /\ dataKey = IF pocket.byEnv THEN envKey ELSE FileKey
    <3>1. pocket.byEnv => pocket.file = "none" /\ envKey = 1 /\ dataKey = 1
      BY <2>1, <2>3
    <3>2. ~pocket.byEnv => pocket.file = "users" /\ dataKey = FileKey
      BY <2>3
    <3>3. KeyTypes
      BY <2>1, <2>3, <3>1, <3>2 DEF KeyTypes, NoSecret, EnvKeys
    <3>4. KeyInPlace
      BY <2>1, <2>3, <3>1, <3>2 DEF KeyInPlace, EnvKeys, FileKey
    <3> QED
      BY <3>3, <3>4 DEF KeyInv
  <2> QED
    BY <2>2, <2>3 DEF IdentityInit
<1> QED
  BY <1>1, KeyStep, KeyInvOpens, PTL DEF IdentitySpec

-----------------------------------------------------------------------------
(* The issuer of every service is in .env. *)
EnvIssuer == pocket.issuer = "env"

LEMMA EnvIssuerStep == EnvIssuer /\ [IdentityNext]_identityVars => EnvIssuer'
<1> SUFFICES ASSUME EnvIssuer, [IdentityNext]_identityVars PROVE EnvIssuer'
  OBVIOUS
<1> USE DEF EnvIssuer
<1>1. CASE WriteService
  BY <1>1 DEF WriteService, Patched
<1>2. CASE UserChanges
  BY <1>2 DEF UserChanges, Absent
<1>3. CASE UNCHANGED pocket
  BY <1>3
<1>4. ASSUME \/ BeginInstall \/ EnsureEncryptionSecret \/ WriteDefaults \/ DeclareIdentity
             \/ SelectForEdge \/ WriteIssuer \/ StartPocketId \/ CheckPocketId \/ InstallAnswers
             \/ InstallEnds \/ Surroundings \/ UNCHANGED identityVars
      PROVE  UNCHANGED pocket
  BY <1>4 DEF BeginInstall, EnsureEncryptionSecret, WriteDefaults, DeclareIdentity, SelectForEdge,
              WriteIssuer, StartPocketId, CheckPocketId, InstallAnswers, InstallEnds, Surroundings,
              filesVars, identityVars
<1> QED
  BY <1>1, <1>2, <1>3, <1>4 DEF IdentityNext

(* When no service has its issuer in docker-compose.yml, no step of an     *)
(* application changes a valid issuer, whatever the edge plans by then     *)
(* (IdentityPlanner.apply).                                                *)
THEOREM IssuerStays == ~Literal => (IdentitySpec => IssuerIsKept)
<1> SUFFICES ASSUME ~Literal PROVE IdentitySpec => IssuerIsKept
  OBVIOUS
<1>1. IdentityInit => EnvIssuer
  <2> SUFFICES ASSUME IdentityInit PROVE EnvIssuer
    OBVIOUS
  <2>1. CASE pocket = Absent
    BY <2>1 DEF EnvIssuer, Absent
  <2>2. CASE pocket.issuer \in {"env"} \cup IF Literal THEN Urls ELSE {}
    BY <2>2 DEF EnvIssuer
  <2> QED
    BY <2>1, <2>2 DEF IdentityInit
<1>2. EnvIssuer /\ EnvIssuer' /\ [IdentityNext]_identityVars =>
        [install # "idle" /\ pocket.declared /\ ValidIssuer(Issuer) => Issuer' = Issuer]_identityVars
  <2> SUFFICES ASSUME EnvIssuer, EnvIssuer', IdentityNext, install # "idle", ValidIssuer(Issuer)
               PROVE  Issuer' = Issuer
    BY DEF identityVars
  <2>1. Issuer = appUrl /\ Issuer' = appUrl'
    BY DEF EnvIssuer, Issuer
  <2>2. CASE WriteIssuer
    BY <2>1, <2>2 DEF WriteIssuer, IssuerToWrite
  <2>3. ASSUME ~WriteIssuer PROVE UNCHANGED appUrl
    BY <2>3 DEF IdentityNext, BeginInstall, EnsureEncryptionSecret, WriteService, WriteDefaults,
                DeclareIdentity, SelectForEdge, StartPocketId, CheckPocketId, InstallAnswers,
                InstallEnds, Surroundings, UserChanges, filesVars
  <2> QED
    BY <2>1, <2>2, <2>3
<1> QED
  BY <1>1, <1>2, EnvIssuerStep, PTL DEF IdentitySpec, IssuerIsKept

-----------------------------------------------------------------------------
(* An application of ObservabilityInstall is past the step of this name.   *)
PastCollectorStart == {"check collector", "verify", "applied"}
PastCheck == PastCollectorStart \cup {"start collector"}
PastStart == PastCheck \cup {"check backend"}
PastSelect == PastStart \cup {"start backend"}
PastDeclare == PastSelect \cup {"select"}
PastCollector == PastDeclare \cup {"declare"}
PastConfig == PastCollector \cup {"collector"}
PastBackend == PastConfig \cup {"config"}
PastEnv == PastBackend \cup {"backend"}

Configs == {"none", "other", "earlier", "current"}
Backends == [declared : BOOLEAN, persistent : BOOLEAN, loopback : BOOLEAN, id : Ids]
Capabilities == [enabled : BOOLEAN, selected : BOOLEAN, owned : SUBSET Ids, live : BOOLEAN]
Loads == [backend : [loopback : BOOLEAN],
          collector : [config : Configs, contract : BOOLEAN, key : Nat]]

InstallTypes ==
  /\ backend \in Backends
  /\ collector \in [by : {"none", "locallink", "user"}, contract : BOOLEAN]
  /\ config \in Configs /\ cut \in BOOLEAN
  /\ password \in Nat /\ account \in Nat /\ applies \in Nat
  /\ contract \in BOOLEAN /\ verified \in BOOLEAN
  /\ capability \in Capabilities
  /\ running \in [Names -> BOOLEAN]
  /\ loaded \in Loads
  /\ apply \in {"idle", "env"} \cup PastEnv
  /\ noted \in [fresh : BOOLEAN, secure : BOOLEAN, writes : BOOLEAN, changed : BOOLEAN, password : Nat]

(* What an application knows of the files it has written, and of those it  *)
(* is about to write: nobody else edits them meanwhile.                    *)
FileStages ==
  /\ apply \in {"env", "backend"} =>
       /\ noted.fresh = ~backend.declared
       /\ noted.secure = (backend.declared /\ ~backend.loopback)
       /\ backend.declared => backend.persistent
  /\ apply = "env" => noted.password # 0 /\ password \in {0, noted.password}
  /\ apply \notin {"idle"} \cup PastCollector => noted.writes
  /\ apply \in PastEnv => contract
  /\ apply \in PastBackend => backend.declared /\ backend.persistent /\ backend.loopback
  /\ apply \in PastConfig => config = "current"
  /\ apply \in PastCollector => collector.by = "locallink" /\ collector.contract
  /\ apply \in PastDeclare => capability.enabled /\ (capability.live => backend.id \in capability.owned)
  /\ apply \in PastSelect => capability.selected

(* What it knows of the containers, which may stop at any time.            *)
DockerStages ==
  /\ ~backend.declared => ~running["backend"]
  /\ noted.fresh /\ apply \notin {"idle"} \cup PastStart => ~running["backend"]
  /\ apply \in PastStart /\ (noted.fresh \/ noted.secure) /\ running["backend"]
       => loaded["backend"].loopback
  /\ apply \in PastCheck => password = account /\ password # 0
  /\ apply = "applied" => verified

ObsInv ==
  /\ InstallTypes /\ FileStages /\ DockerStages
  /\ collector.by = "none" => ~collector.contract

(* When an application has failed nothing is left to say of its stages.    *)
LEMMA Failed ==
  ASSUME ObsInv, Stops, InstallTypes', collector' = collector,
         ~backend'.declared => ~running'["backend"]
  PROVE  ObsInv'
<1>1. apply' = "idle" /\ noted'.fresh = FALSE
  BY DEF Stops, Nothing
<1>2. FileStages' /\ DockerStages'
  BY <1>1 DEF FileStages, DockerStages, PastEnv, PastBackend, PastConfig, PastCollector,
              PastDeclare, PastSelect, PastStart, PastCheck, PastCollectorStart
<1> QED
  BY <1>2 DEF ObsInv

LEMMA TypesInit == ObservabilityInit => InstallTypes
<1> SUFFICES ASSUME ObservabilityInit PROVE InstallTypes
  OBVIOUS
<1>0. backend \in Backends
  <2>1. CASE backend = NoBackend
    BY <2>1 DEF NoBackend, Backends, Ids
  <2>2. CASE backend \in [declared : {TRUE}, persistent : BOOLEAN, loopback : BOOLEAN, id : Ids]
    BY <2>2 DEF Backends
  <2> QED
    BY <2>1, <2>2 DEF ObservabilityInit
<1>1. /\ collector \in [by : {"none", "locallink", "user"}, contract : BOOLEAN]
      /\ config \in {"none", "other", "earlier"}
      /\ password \in {0, 1} /\ account \in {0, 1} /\ cut \in BOOLEAN
      /\ running \in [Names -> BOOLEAN]
  BY DEF ObservabilityInit
<1>2. /\ contract \in BOOLEAN /\ verified \in BOOLEAN /\ applies \in Nat /\ apply = "idle"
      /\ capability \in Capabilities
  BY DEF ObservabilityInit, Capabilities
<1>3. loaded \in Loads
  BY <1>0, <1>1 DEF ObservabilityInit, Loads, Configs, Backends
<1>4. noted \in [fresh : BOOLEAN, secure : BOOLEAN, writes : BOOLEAN, changed : BOOLEAN, password : Nat]
  BY DEF ObservabilityInit, Nothing
<1> QED
  BY <1>0, <1>1, <1>2, <1>3, <1>4 DEF InstallTypes, Configs

LEMMA ObsInit == ObservabilityInit => ObsInv
<1> SUFFICES ASSUME ObservabilityInit PROVE ObsInv
  OBVIOUS
<1>1. InstallTypes /\ apply = "idle"
  BY TypesInit DEF ObservabilityInit
<1>2. /\ ~backend.declared => ~running["backend"]
      /\ collector.by = "none" => ~collector.contract
      /\ noted.fresh = FALSE
  BY DEF ObservabilityInit, Nothing, NoBackend
<1>3. FileStages /\ DockerStages
  BY <1>1, <1>2 DEF FileStages, DockerStages, PastEnv, PastBackend, PastConfig, PastCollector,
                    PastDeclare, PastSelect, PastStart, PastCheck, PastCollectorStart
<1> QED
  BY <1>1, <1>2, <1>3 DEF ObsInv

-----------------------------------------------------------------------------
LEMMA TypesStep == InstallTypes /\ [ObservabilityNext]_obsVars => InstallTypes'
<1> SUFFICES ASSUME InstallTypes, [ObservabilityNext]_obsVars PROVE InstallTypes'
  OBVIOUS
<1> USE DEF InstallTypes, AfterThat
<1> DEFINE Stages == {"idle", "env"} \cup PastEnv
           Notes == [fresh : BOOLEAN, secure : BOOLEAN, writes : BOOLEAN, changed : BOOLEAN,
                     password : Nat]
<1>0. /\ Stops => apply' \in Stages /\ noted' \in Notes
      /\ Fails => apply' \in Stages /\ noted' \in Notes /\ cut' \in BOOLEAN
  <2>1. Nothing \in Notes
    BY DEF Nothing
  <2>2. (cut \/ (noted.changed /\ apply \notin {"check collector", "verify", "applied"})) \in BOOLEAN
    OBVIOUS
  <2> QED
    BY <2>1, <2>2 DEF Fails, Stops
<1>a. apply \in Stages /\ noted \in Notes
  OBVIOUS
<1>s. /\ "idle" \in Stages /\ "env" \in Stages /\ "backend" \in Stages /\ "config" \in Stages
      /\ "collector" \in Stages /\ "declare" \in Stages /\ "select" \in Stages
      /\ "start backend" \in Stages /\ "check backend" \in Stages
      /\ "start collector" \in Stages /\ "check collector" \in Stages
      /\ "verify" \in Stages /\ "applied" \in Stages
  BY DEF PastEnv, PastBackend, PastConfig, PastCollector,
         PastDeclare, PastSelect, PastStart, PastCheck, PastCollectorStart
<1> HIDE DEF Stages
<1> HIDE DEF Notes
<1>1. CASE BeginApply
  <2>1. UNCHANGED <<diskVars, dockerVars, cut>> /\ applies' \in Nat
    BY <1>1 DEF BeginApply
  <2>2. PasswordFor(~backend.declared) \in Nat
    BY DEF PasswordFor
  <2>3. CASE UNCHANGED <<apply, noted>>
    BY <1>a, <2>1, <2>3 DEF diskVars, dockerVars, Stages, Notes
  <2>4. CASE /\ noted' = [fresh |-> ~backend.declared, secure |-> backend.declared /\ ~backend.loopback,
                        writes |-> collector.by = "none" \/ collector.by = "locallink"
                                   \/ CollectorConfigured,
                        changed |-> FALSE, password |-> PasswordFor(~backend.declared)]
             /\ apply' = "env"
    <3>1. (backend.declared /\ ~backend.loopback) \in BOOLEAN /\ (~backend.declared) \in BOOLEAN
      OBVIOUS
    <3>2. (collector.by = "none" \/ collector.by = "locallink" \/ CollectorConfigured) \in BOOLEAN
      BY DEF CollectorConfigured
    <3>3. noted' \in Notes
      BY <2>2, <2>4, <3>1, <3>2 DEF Notes
    <3>4. apply' \in Stages
      BY <1>s, <2>4
    <3> QED
      BY <2>1, <3>3, <3>4 DEF diskVars, dockerVars, Stages, Notes
  <2> QED
    BY <1>1, <2>3, <2>4 DEF BeginApply
<1>2. CASE WriteEnv
  <2>1. /\ UNCHANGED <<backend, collector, config, capability, verified, dockerVars, noted, cut, applies>>
        /\ apply' \in Stages /\ contract' \in BOOLEAN
    BY <1>2, <1>s DEF WriteEnv
  <2>2. password' \in Nat
    BY <1>2 DEF WriteEnv
  <2> QED
    BY <1>a, <2>1, <2>2 DEF dockerVars, Stages, Notes
<1>3. CASE WriteBackend
  <2>1. /\ UNCHANGED <<collector, config, password, contract, capability, verified, dockerVars, noted,
                 cut, applies>>
        /\ apply' \in Stages
    BY <1>3, <1>s DEF WriteBackend
  <2>2. backend' \in Backends
    BY <1>3 DEF WriteBackend, Backends, Ids
  <2> QED
    BY <1>a, <2>1, <2>2 DEF dockerVars, Stages, Notes
<1>4. CASE WriteCollectorConfig
  <2>1. /\ UNCHANGED <<backend, collector, password, contract, capability, verified, dockerVars, cut, applies>>
        /\ apply' \in Stages /\ config' = "current"
    BY <1>4, <1>s DEF WriteCollectorConfig
  <2>2. noted' \in Notes
    BY <1>4, <1>a DEF WriteCollectorConfig, Notes
  <2> QED
    BY <1>a, <2>1, <2>2 DEF dockerVars, Stages, Notes, Configs
<1>5. CASE WriteCollector
  <2>1. /\ UNCHANGED <<backend, config, password, contract, capability, verified, dockerVars, noted, cut, applies>>
        /\ apply' \in Stages
    BY <1>5, <1>s DEF WriteCollector
  <2>2. collector' \in [by : {"none", "locallink", "user"}, contract : BOOLEAN]
    BY <1>5 DEF WriteCollector
  <2> QED
    BY <1>a, <2>1, <2>2 DEF dockerVars, Stages, Notes
<1>6. CASE Declare
  <2>1. /\ UNCHANGED <<backend, collector, config, password, contract, verified, dockerVars, noted, cut, applies>>
        /\ apply' \in Stages
    BY <1>6, <1>s DEF Declare
  <2>2. capability' \in Capabilities
    <3>1. backend.id \in Ids /\ capability.owned \in SUBSET Ids
      BY DEF Backends, Capabilities
    <3> QED
      BY <1>6, <3>1 DEF Declare, Capabilities
  <2> QED
    BY <1>a, <2>1, <2>2 DEF dockerVars, Stages, Notes
<1>7. CASE Select
  <2>1. /\ UNCHANGED <<backend, collector, config, password, contract, verified, dockerVars, applies>>
        /\ apply' \in Stages /\ noted' \in Notes /\ cut' \in BOOLEAN
    BY <1>7, <1>s, <1>a, <1>0 DEF Select
  <2>2. capability' \in Capabilities
    BY <1>7 DEF Select, Capabilities
  <2> QED
    BY <2>1, <2>2 DEF dockerVars, Stages, Notes
<1>8. CASE StartBackend \/ StartCollector
  <2>1. UNCHANGED <<diskVars, applies>> /\ apply' \in Stages /\ noted' \in Notes
        /\ cut' \in BOOLEAN
    BY <1>8, <1>s, <1>a, <1>0 DEF StartBackend, StartCollector, UpCollector
  <2>2. UpBackend \/ UpCollector \/ UNCHANGED dockerVars
    BY <1>8 DEF StartBackend, StartCollector
  <2>3. /\ account' \in Nat /\ running' \in [Names -> BOOLEAN]
        /\ loaded' \in Loads
    <3>1. CASE UpBackend
      BY <3>1 DEF UpBackend, Loads, Backends
    <3>2. CASE UpCollector
      BY <3>2 DEF UpCollector, Loads, Backends
    <3>3. CASE UNCHANGED dockerVars
      BY <3>3 DEF dockerVars
    <3> QED
      BY <2>2, <3>1, <3>2, <3>3
  <2> QED
    BY <2>1, <2>3 DEF diskVars, Stages, Notes
<1>9. CASE CheckBackend \/ CheckCollector \/ Answered \/ ApplyEnds
  <2>1. UNCHANGED <<diskVars, dockerVars, applies>> /\ apply' \in Stages /\ noted' \in Notes
        /\ cut' \in BOOLEAN
    BY <1>9, <1>s, <1>a, <1>0 DEF CheckBackend, CheckCollector, Answered, ApplyEnds
  <2> QED
    BY <2>1 DEF diskVars, dockerVars, Stages, Notes
<1>10. CASE VerifyDelivery
  <2>1. /\ UNCHANGED <<backend, collector, config, password, contract, capability, dockerVars, applies>>
        /\ apply' \in Stages /\ noted' \in Notes /\ verified' \in BOOLEAN
        /\ cut' \in BOOLEAN
    BY <1>10, <1>s, <1>a, <1>0 DEF VerifyDelivery
  <2> QED
    BY <2>1 DEF dockerVars, Stages, Notes
<1>11. ASSUME NEW n \in Names, ContainerStops(n) PROVE InstallTypes'
  BY <1>11 DEF ContainerStops, diskVars, runVars
<1>12. CASE UserEdits
  <2>1. UNCHANGED <<collector, config, capability, verified, account, apply, noted, cut, applies>>
    BY <1>12 DEF UserEdits, runVars
  <2>2. CASE /\ backend' = NoBackend
             /\ running' = [running EXCEPT !["backend"] = FALSE]
             /\ UNCHANGED <<password, contract, loaded>>
    <3>1. backend' \in Backends
      BY <2>2 DEF Backends, NoBackend, Ids
    <3>2. running' \in [Names -> BOOLEAN]
      BY <2>2
    <3> QED
      BY <2>1, <2>2, <3>1, <3>2
  <2>3. CASE /\ backend' = [backend EXCEPT !.loopback = FALSE]
             /\ loaded' = [loaded EXCEPT !["backend"] = [loopback |-> FALSE]]
             /\ UNCHANGED <<password, contract, running>>
    <3>1. backend' \in Backends
      BY <2>3 DEF Backends
    <3>2. loaded' \in Loads
      BY <2>3 DEF Loads
    <3> QED
      BY <2>1, <2>3, <3>1, <3>2
  <2>4. CASE password' = 0 /\ contract' = FALSE /\ UNCHANGED <<backend, running, loaded>>
    <3>1. password' \in Nat /\ contract' \in BOOLEAN
      BY <2>4
    <3> QED
      BY <2>1, <2>4, <3>1
  <2> QED
    BY <1>12, <2>2, <2>3, <2>4 DEF UserEdits
<1>13. CASE UNCHANGED obsVars
  BY <1>13 DEF obsVars, diskVars, dockerVars, runVars
<1> QED
  BY <1>1, <1>2, <1>3, <1>4, <1>5, <1>6, <1>7, <1>8, <1>9, <1>10, <1>11, <1>12, <1>13
     DEF ObservabilityNext

LEMMA ObsStep == ObsInv /\ [ObservabilityNext]_obsVars => ObsInv'
<1> SUFFICES ASSUME ObsInv, [ObservabilityNext]_obsVars PROVE ObsInv'
  OBVIOUS
<1>t. InstallTypes /\ InstallTypes'
  BY TypesStep DEF ObsInv
<1>s. FileStages /\ DockerStages /\ (collector.by = "none" => ~collector.contract)
  BY DEF ObsInv
<1> USE DEF AfterThat, PastEnv, PastBackend, PastConfig, PastCollector, PastDeclare, PastSelect,
            PastStart, PastCheck, PastCollectorStart
<1>1. CASE BeginApply
  <2>1. UNCHANGED <<backend, collector, config, password, contract, capability, verified, account,
                    running, loaded>> /\ apply = "idle"
    BY <1>1 DEF BeginApply, diskVars, dockerVars
  <2>2. CASE UNCHANGED <<apply, noted>>
    BY <1>t, <1>s, <2>1, <2>2 DEF ObsInv, FileStages, DockerStages
  <2>3. CASE /\ PasswordFor(~backend.declared) # 0
             /\ noted' = [fresh |-> ~backend.declared, secure |-> backend.declared /\ ~backend.loopback,
                          writes |-> collector.by = "none" \/ collector.by = "locallink"
                                     \/ CollectorConfigured,
                          changed |-> FALSE, password |-> PasswordFor(~backend.declared)]
             /\ apply' = "env"
    <3>1. PICK probe \in Probes : ~Blocking(probe)
      BY <1>1 DEF BeginApply, CanApply
    <3>2. (backend.declared => backend.persistent) /\ collector.by # "user"
      BY <3>1 DEF Blocking
    <3>3. collector.by = "none" \/ collector.by = "locallink"
      BY <1>t, <3>2 DEF InstallTypes
    <3>4. password \in {0, PasswordFor(~backend.declared)}
      BY DEF PasswordFor
    <3>5. /\ noted'.fresh = ~backend.declared
          /\ noted'.secure = (backend.declared /\ ~backend.loopback)
          /\ noted'.writes
          /\ noted'.password = PasswordFor(~backend.declared)
      BY <2>3, <3>3
    <3>6. FileStages'
      BY <2>1, <2>3, <3>2, <3>4, <3>5 DEF FileStages
    <3>7. DockerStages'
      BY <1>s, <2>1, <2>3, <3>5 DEF DockerStages
    <3> QED
      BY <1>t, <1>s, <2>1, <3>6, <3>7 DEF ObsInv
  <2> QED
    BY <1>1, <2>2, <2>3 DEF BeginApply
<1>2. CASE WriteEnv
  <2>1. /\ UNCHANGED <<backend, collector, config, capability, verified, account, running, loaded, noted>>
        /\ apply = "env" /\ apply' = "backend" /\ contract'
    BY <1>2 DEF WriteEnv, dockerVars
  <2>2. FileStages' /\ DockerStages'
    BY <1>s, <2>1 DEF FileStages, DockerStages
  <2> QED
    BY <1>t, <1>s, <2>1, <2>2 DEF ObsInv
<1>3. CASE WriteBackend
  <2>1. /\ UNCHANGED <<collector, config, password, contract, capability, verified, account, running,
                       loaded, noted>>
        /\ apply = "backend" /\ apply' = "config"
    BY <1>3 DEF WriteBackend, dockerVars
  <2>2. backend'.declared /\ backend'.persistent /\ backend'.loopback
    <3>1. CASE noted.fresh
      BY <1>3, <3>1 DEF WriteBackend
    <3>2. CASE ~noted.fresh
      <4>1. backend.declared /\ backend.persistent /\ (noted.secure <=> ~backend.loopback)
        BY <1>s, <2>1, <3>2 DEF FileStages
      <4>2. backend' = IF noted.secure THEN [backend EXCEPT !.loopback = TRUE, !.id = "openobserve"]
                      ELSE backend
        BY <1>3, <3>2 DEF WriteBackend
      <4> QED
        BY <1>t, <4>1, <4>2 DEF InstallTypes, Backends
    <3> QED
      BY <3>1, <3>2
  <2>3. noted.fresh => ~running["backend"]
    BY <1>s, <2>1 DEF FileStages, DockerStages
  <2>4. FileStages' /\ DockerStages'
    BY <1>s, <2>1, <2>2, <2>3 DEF FileStages, DockerStages
  <2> QED
    BY <1>t, <1>s, <2>1, <2>4 DEF ObsInv
<1>4. CASE WriteCollectorConfig
  <2>1. /\ UNCHANGED <<backend, collector, password, contract, capability, verified, account, running,
                       loaded>>
        /\ apply = "config" /\ apply' = "collector" /\ config' = "current"
    BY <1>4 DEF WriteCollectorConfig, dockerVars
  <2>2. noted'.fresh = noted.fresh /\ noted'.secure = noted.secure /\ noted'.writes = noted.writes
    BY <1>4, <1>t DEF WriteCollectorConfig, InstallTypes
  <2>3. FileStages' /\ DockerStages'
    BY <1>s, <2>1, <2>2 DEF FileStages, DockerStages
  <2> QED
    BY <1>t, <1>s, <2>1, <2>3 DEF ObsInv
<1>5. CASE WriteCollector
  <2>1. /\ UNCHANGED <<backend, config, password, contract, capability, verified, account, running,
                       loaded, noted>>
        /\ apply = "collector" /\ apply' = "declare"
    BY <1>5 DEF WriteCollector, dockerVars
  <2>2. noted.writes
    BY <1>s, <2>1 DEF FileStages
  <2>3. collector'.by = "locallink" /\ collector'.contract
    BY <1>5, <2>2 DEF WriteCollector
  <2>4. FileStages' /\ DockerStages'
    BY <1>s, <2>1, <2>3 DEF FileStages, DockerStages
  <2> QED
    BY <1>t, <2>3, <2>4 DEF ObsInv
<1>6. CASE Declare
  <2>1. /\ UNCHANGED <<backend, collector, config, password, contract, verified, account, running,
                       loaded, noted>>
        /\ apply = "declare" /\ apply' = "select"
    BY <1>6 DEF Declare, dockerVars
  <2>2. capability'.enabled /\ (capability'.live => backend.id \in capability'.owned)
    BY <1>6, <1>t DEF Declare, InstallTypes, Capabilities
  <2>3. FileStages' /\ DockerStages'
    BY <1>s, <2>1, <2>2 DEF FileStages, DockerStages
  <2> QED
    BY <1>t, <1>s, <2>1, <2>3 DEF ObsInv
<1>7. CASE Select
  <2>1. /\ UNCHANGED <<backend, collector, config, password, contract, verified, account, running, loaded>>
        /\ apply = "select"
    BY <1>7 DEF Select, dockerVars
  <2>2. CASE Fails
    BY <1>t, <1>s, <2>1, <2>2, Failed DEF Fails, DockerStages
  <2>3. CASE /\ capability' = [capability EXCEPT !.selected = TRUE]
             /\ apply' = "start backend" /\ UNCHANGED noted
    <3>1. capability'.selected /\ capability'.enabled
          /\ (capability'.live => backend.id \in capability'.owned)
      BY <1>t, <1>s, <2>1, <2>3 DEF InstallTypes, FileStages, Capabilities
    <3>2. FileStages' /\ DockerStages'
      BY <1>s, <2>1, <2>3, <3>1 DEF FileStages, DockerStages
    <3> QED
      BY <1>t, <1>s, <2>1, <3>2 DEF ObsInv
  <2> QED
    BY <1>7, <2>2, <2>3 DEF Select
<1>8. CASE StartBackend
  <2>1. /\ UNCHANGED <<backend, collector, config, password, contract, capability, verified>>
        /\ apply = "start backend"
    BY <1>8 DEF StartBackend, diskVars
  <2>2. backend.declared /\ backend.loopback
    BY <1>s, <2>1 DEF FileStages
  <2>3. CASE Fails
    BY <1>t, <2>1, <2>2, <2>3, Failed DEF Fails
  <2>4. CASE UpBackend /\ apply' = "check backend" /\ UNCHANGED noted
    <3>1. loaded'["backend"].loopback
      BY <1>t, <2>2, <2>4 DEF UpBackend, InstallTypes, Loads
    <3>2. FileStages' /\ DockerStages'
      BY <1>s, <2>1, <2>2, <2>4, <3>1 DEF FileStages, DockerStages
    <3> QED
      BY <1>t, <1>s, <2>1, <3>2 DEF ObsInv
  <2>5. CASE running["backend"] /\ ~noted.secure /\ apply' = "check backend" /\ UNCHANGED <<dockerVars, noted>>
    <3>1. ~noted.fresh
      BY <1>s, <2>1, <2>5 DEF DockerStages
    <3>2. FileStages' /\ DockerStages'
      BY <1>s, <2>1, <2>2, <2>5, <3>1 DEF FileStages, DockerStages, dockerVars
    <3> QED
      BY <1>t, <1>s, <2>1, <3>2 DEF ObsInv
  <2> QED
    BY <1>8, <2>3, <2>4, <2>5 DEF StartBackend
<1>9. CASE CheckBackend
  <2>1. /\ UNCHANGED <<backend, collector, config, password, contract, capability, verified, account,
                       running, loaded>>
        /\ apply = "check backend"
    BY <1>9 DEF CheckBackend, diskVars, dockerVars
  <2>2. CASE Fails
    BY <1>t, <1>s, <2>1, <2>2, Failed DEF Fails, DockerStages
  <2>3. CASE \E probe \in Probes : /\ CredentialState(probe) = "valid"
                                   /\ Healthy("backend", probe) /\ apply' = "start collector" /\ UNCHANGED noted
    <3>1. PICK probe \in Probes : CredentialState(probe) = "valid"
      BY <2>3
    <3>2. password # 0 /\ password = account
      <4>1. CASE password = 0
        BY <3>1, <4>1 DEF CredentialState
      <4>2. CASE password # 0 /\ ~(Healthy("backend", probe) /\ probe.api)
        BY <3>1, <4>2 DEF CredentialState
      <4>3. CASE password # 0 /\ Healthy("backend", probe) /\ probe.api
        BY <3>1, <4>3 DEF CredentialState
      <4> QED
        BY <4>1, <4>2, <4>3
    <3>3. FileStages' /\ DockerStages'
      BY <1>s, <2>1, <2>3, <3>2 DEF FileStages, DockerStages
    <3> QED
      BY <1>t, <1>s, <2>1, <3>3 DEF ObsInv
  <2> QED
    BY <1>9, <2>2, <2>3 DEF CheckBackend
<1>10. CASE StartCollector
  <2>1. /\ UNCHANGED <<backend, collector, config, password, contract, capability, verified>>
        /\ apply = "start collector"
    BY <1>10 DEF StartCollector, diskVars
  <2>2. backend.declared /\ backend.loopback /\ config = "current" /\ password = account /\ password # 0
    BY <1>s, <2>1 DEF FileStages, DockerStages
  <2>3. CASE Fails \/ Stops
    BY <1>t, <2>1, <2>2, <2>3, Failed DEF Fails
  <2>4. CASE UpCollector /\ apply' = "check collector" /\ UNCHANGED noted
    <3>1. loaded'["backend"].loopback /\ loaded'["collector"].config = "current" /\ account' = account
      BY <2>2, <2>4 DEF UpCollector
    <3>2. FileStages' /\ DockerStages'
      BY <1>s, <2>1, <2>2, <2>4, <3>1 DEF FileStages, DockerStages
    <3> QED
      BY <1>t, <1>s, <2>1, <3>2 DEF ObsInv
  <2>5. CASE ~NeedsRestart /\ apply' = "check collector" /\ UNCHANGED <<dockerVars, noted>>
    <3>1. ~noted.changed
      BY <2>5 DEF NeedsRestart
    <3>2. FileStages' /\ DockerStages'
      BY <1>s, <2>1, <2>2, <2>5, <3>1 DEF FileStages, DockerStages, dockerVars
    <3> QED
      BY <1>t, <1>s, <2>1, <3>2 DEF ObsInv
  <2> QED
    BY <1>10, <2>3, <2>4, <2>5 DEF StartCollector
<1>11. CASE CheckCollector \/ VerifyDelivery \/ Answered \/ ApplyEnds
  <2>1. UNCHANGED <<backend, collector, config, password, contract, capability, account, running, loaded>>
    BY <1>11 DEF CheckCollector, VerifyDelivery, Answered, ApplyEnds, diskVars, dockerVars
  <2>2. CASE Fails
    BY <1>t, <1>s, <2>1, <2>2, Failed DEF Fails, DockerStages
  <2>3. CASE /\ UNCHANGED noted
             /\ \/ apply = "check collector" /\ apply' = "verify" /\ UNCHANGED verified
                \/ apply = "verify" /\ apply' = "applied" /\ verified'
    <3>1. FileStages' /\ DockerStages'
      BY <1>s, <2>1, <2>3 DEF FileStages, DockerStages
    <3> QED
      BY <1>t, <1>s, <2>1, <3>1 DEF ObsInv
  <2> QED
    BY <1>11, <2>2, <2>3 DEF CheckCollector, VerifyDelivery, Answered, ApplyEnds, diskVars
<1>12. ASSUME NEW n \in Names, ContainerStops(n) PROVE ObsInv'
  <2>1. /\ UNCHANGED <<backend, collector, config, password, contract, capability, verified, account,
                       loaded, apply, noted>>
        /\ running' = [running EXCEPT ![n] = FALSE]
    BY <1>12 DEF ContainerStops, diskVars, runVars
  <2>2. \A m \in Names : running'[m] => running[m]
    BY ZenonT(60), <1>t, <2>1 DEF InstallTypes
  <2>3. (running'["backend"] => running["backend"]) /\ (running'["collector"] => running["collector"])
    BY <2>2 DEF Names
  <2>4. FileStages'
    BY <1>s, <2>1 DEF FileStages
  <2>5. DockerStages'
    BY <1>s, <2>1, <2>3 DEF DockerStages
  <2> QED
    BY <1>t, <1>s, <2>1, <2>4, <2>5 DEF ObsInv
<1>13. CASE UserEdits
  <2>1. UNCHANGED <<collector, config, capability, verified, account, apply, noted>> /\ apply = "idle"
    BY <1>13 DEF UserEdits, runVars
  <2>2. ~backend'.declared => ~running'["backend"]
    <3>1. CASE running' = [running EXCEPT !["backend"] = FALSE]
      BY <1>t, <3>1 DEF InstallTypes, Names
    <3>2. CASE UNCHANGED running /\ backend' = [backend EXCEPT !.loopback = FALSE]
      BY <1>t, <1>s, <3>2 DEF InstallTypes, Backends, DockerStages
    <3>3. CASE UNCHANGED <<backend, running>>
      BY <1>s, <3>3 DEF DockerStages
    <3> QED
      BY <1>13, <3>1, <3>2, <3>3 DEF UserEdits
  <2>3. FileStages' /\ DockerStages'
    BY <1>s, <2>1, <2>2 DEF FileStages, DockerStages
  <2> QED
    BY <1>t, <1>s, <2>1, <2>3 DEF ObsInv
<1>14. CASE UNCHANGED obsVars
  <2>1. UNCHANGED <<backend, collector, config, password, contract, capability, verified, account,
                    running, loaded, apply, noted>>
    BY <1>14 DEF obsVars, diskVars, dockerVars, runVars
  <2>2. FileStages'
    BY <1>s, <2>1 DEF FileStages
  <2>3. DockerStages'
    BY <1>s, <2>1 DEF DockerStages
  <2> QED
    BY <1>t, <1>s, <2>1, <2>2, <2>3 DEF ObsInv
<1> QED
  BY <1>1, <1>2, <1>3, <1>4, <1>5, <1>6, <1>7, <1>8, <1>9, <1>10, <1>11, <1>12, <1>13, <1>14
     DEF ObservabilityNext

LEMMA ObsIsInvariant == ObservabilitySpec => []ObsInv
<1> QED
  BY ObsInit, ObsStep, PTL DEF ObservabilitySpec

(* The credentials of a service that answers are the ones of its data. *)
LEMMA CredentialsOfHealthy ==
  ASSUME NEW probe \in Probes, Healthy("backend", probe), probe.api, password # 0
  PROVE  /\ password = account => CredentialState(probe) = "valid"
         /\ CredentialState(probe) = "valid" => password = account
<1>1. CredentialState(probe) = IF password = account THEN "valid" ELSE "invalid"
  BY DEF CredentialState
<1> QED
  BY <1>1

-----------------------------------------------------------------------------
(* Whatever an application finds, at whichever await it ends, and however  *)
(* often it is asked for again: a password that opens the stored data is   *)
(* only ever taken out by the user (ObservabilityPlanner.apply).           *)
THEOREM RootPasswordIsNeverReset == ObservabilitySpec => AccountIsKept
<1>1. ObsInv /\ [ObservabilityNext]_obsVars =>
        [account # 0 /\ password = account => password' \in {account, 0}]_obsVars
  <2> SUFFICES ASSUME ObsInv, ObservabilityNext, account # 0, password = account
               PROVE  password' \in {account, 0}
    BY DEF obsVars
  <2>1. CASE WriteEnv
    <3>1. password' = noted.password /\ apply = "env"
      BY <2>1 DEF WriteEnv
    <3>2. password \in {0, noted.password}
      BY <3>1 DEF ObsInv, FileStages
    <3> QED
      BY <3>1, <3>2
  <2>2. CASE UserEdits
    BY <2>2 DEF UserEdits
  <2>3. ASSUME ~WriteEnv, ~UserEdits PROVE UNCHANGED password
    BY <2>3 DEF ObservabilityNext, BeginApply, WriteBackend, WriteCollectorConfig, WriteCollector,
                Declare, Select, StartBackend, CheckBackend, StartCollector, CheckCollector,
                VerifyDelivery, Answered, ApplyEnds, ContainerStops, diskVars
  <2> QED
    BY <2>1, <2>2, <2>3
<1> QED
  BY <1>1, ObsIsInvariant, PTL DEF ObservabilitySpec, AccountIsKept

(* The collector's file has changed and its container was not started      *)
(* since; unless that is so, or was when an application ended, the         *)
(* container runs on the files and on the password of the data.            *)
Unstarted == noted.changed /\ apply \notin PastCollectorStart

CollectorIsCurrent ==
  /\ loaded["collector"] = [config |-> "current", contract |-> TRUE, key |-> account]
  /\ account # 0

CollectorInv ==
  /\ noted.changed => apply \in PastConfig
  /\ config = "current" /\ running["collector"] /\ ~cut /\ ~Unstarted => CollectorIsCurrent

LEMMA CollectorStep ==
  ObsInv /\ CollectorInv /\ [ObservabilityNext]_obsVars => CollectorInv'
<1> SUFFICES ASSUME ObsInv, CollectorInv, [ObservabilityNext]_obsVars PROVE CollectorInv'
  OBVIOUS
<1>t. InstallTypes
  BY DEF ObsInv
<1> USE DEF CollectorInv, AfterThat, PastConfig, PastCollector, PastDeclare, PastSelect, PastStart,
            PastCheck, PastCollectorStart
(* An application that fails after the change and before the restart       *)
(* leaves its mark.                                                        *)
<1>0. ASSUME Fails, UNCHANGED <<config, account, loaded>>,
             running'["collector"] => running["collector"]
      PROVE  CollectorInv'
  <2>1. apply' = "idle" /\ noted'.changed = FALSE /\ cut' = (cut \/ Unstarted)
    BY <1>0 DEF Fails, Stops, Nothing, Unstarted
  <2> QED
    BY <1>0, <2>1 DEF Unstarted, CollectorIsCurrent
<1>1. CASE BeginApply
  <2>1. UNCHANGED <<config, account, running, loaded, cut>> /\ apply = "idle"
        /\ (UNCHANGED <<apply, noted>> \/ (noted'.changed = FALSE /\ ~noted.changed))
    BY <1>1 DEF BeginApply, diskVars, dockerVars
  <2> QED
    BY <2>1 DEF Unstarted, CollectorIsCurrent
<1>2. CASE WriteEnv \/ WriteBackend
  <2>1. UNCHANGED <<config, account, running, loaded, cut, noted>> /\ apply \in {"env", "backend"}
        /\ apply' \in {"backend", "config"}
    BY <1>2 DEF WriteEnv, WriteBackend, dockerVars
  <2> QED
    BY <2>1 DEF Unstarted, CollectorIsCurrent
<1>3. CASE WriteCollectorConfig
  <2>1. UNCHANGED <<account, running, loaded, cut>> /\ apply = "config" /\ apply' = "collector"
        /\ noted'.changed = (config # "current") /\ ~noted.changed
    BY <1>3, <1>t DEF WriteCollectorConfig, dockerVars, InstallTypes
  <2> QED
    BY <2>1 DEF Unstarted, CollectorIsCurrent
<1>4. CASE WriteCollector \/ Declare
  <2>1. UNCHANGED <<config, account, running, loaded, cut, noted>>
        /\ apply \in {"collector", "declare"} /\ apply' \in {"declare", "select"}
    BY <1>4 DEF WriteCollector, Declare, dockerVars
  <2> QED
    BY <2>1 DEF Unstarted, CollectorIsCurrent
<1>5. CASE Select
  <2>1. UNCHANGED <<config, account, running, loaded>> /\ apply = "select"
    BY <1>5 DEF Select, dockerVars
  <2>2. CASE apply' = "start backend" /\ UNCHANGED <<noted, cut>>
    BY <2>1, <2>2 DEF Unstarted, CollectorIsCurrent
  <2> QED
    BY <1>5, <1>0, <2>1, <2>2 DEF Select
<1>6. CASE StartBackend
  <2>1. UNCHANGED config /\ apply = "start backend"
    BY <1>6 DEF StartBackend, diskVars
  (* The collector's container is left alone, and data is not created      *)
  (* while it runs on the present file.                                    *)
  <2>2. /\ running'["collector"] = running["collector"]
        /\ loaded'["collector"] = loaded["collector"]
        /\ account # 0 => account' = account
    <3>1. CASE UpBackend
      BY <1>t, <3>1 DEF UpBackend, InstallTypes, Names, Loads
    <3>2. CASE UNCHANGED dockerVars
      BY <3>2 DEF dockerVars
    <3> QED
      BY <1>6, <3>1, <3>2 DEF StartBackend
  <2>3. CASE apply' = "check backend" /\ UNCHANGED <<noted, cut>>
    BY <2>1, <2>2, <2>3 DEF Unstarted, CollectorIsCurrent
  <2>4. CASE Fails
    <3>1. apply' = "idle" /\ noted'.changed = FALSE /\ cut' = (cut \/ Unstarted)
      BY <2>4 DEF Fails, Stops, Nothing, Unstarted
    <3> QED
      BY <2>1, <2>2, <3>1 DEF Unstarted, CollectorIsCurrent
  <2> QED
    BY <1>6, <2>3, <2>4 DEF StartBackend
<1>7. CASE CheckBackend
  <2>1. UNCHANGED <<config, account, running, loaded>> /\ apply = "check backend"
    BY <1>7 DEF CheckBackend, diskVars, dockerVars
  <2>2. CASE apply' = "start collector" /\ UNCHANGED <<noted, cut>>
    BY <2>1, <2>2 DEF Unstarted, CollectorIsCurrent
  <2> QED
    BY <1>7, <1>0, <2>1, <2>2 DEF CheckBackend
<1>8. CASE StartCollector
  <2>1. UNCHANGED config /\ apply = "start collector"
    BY <1>8 DEF StartCollector, diskVars
  <2>2. config = "current" /\ collector.contract /\ password = account /\ password # 0
    BY <2>1 DEF ObsInv, FileStages, DockerStages
  <2>3. CASE UpCollector
    <3>1. CollectorIsCurrent'
      BY <2>2, <2>3 DEF UpCollector, CollectorIsCurrent
    <3>2. noted'.changed => apply' = "check collector"
      <4>1. ASSUME Stops PROVE noted'.changed = FALSE
        BY <4>1 DEF Stops, Nothing
      <4> QED
        BY <1>8, <4>1 DEF StartCollector, Fails
    <3> QED
      BY <3>1, <3>2
  <2>4. CASE Fails /\ UNCHANGED dockerVars
    BY <1>0, <2>1, <2>4 DEF dockerVars
  <2>5. CASE ~NeedsRestart /\ apply' = "check collector" /\ UNCHANGED <<dockerVars, noted, cut>>
    BY <2>1, <2>5 DEF NeedsRestart, dockerVars, Unstarted, CollectorIsCurrent
  <2> QED
    BY <1>8, <2>3, <2>4, <2>5 DEF StartCollector
<1>9. CASE CheckCollector \/ VerifyDelivery \/ Answered \/ ApplyEnds
  <2>1. UNCHANGED <<config, account, running, loaded>>
    BY <1>9 DEF CheckCollector, VerifyDelivery, Answered, ApplyEnds, diskVars, dockerVars
  <2>2. CASE /\ UNCHANGED <<noted, cut>>
             /\ \/ apply = "check collector" /\ apply' = "verify"
                \/ apply = "verify" /\ apply' = "applied"
    BY <2>1, <2>2 DEF Unstarted, CollectorIsCurrent
  <2> QED
    BY <1>9, <1>0, <2>1, <2>2 DEF CheckCollector, VerifyDelivery, Answered, ApplyEnds
<1>10. ASSUME NEW n \in Names, ContainerStops(n) PROVE CollectorInv'
  <2>1. UNCHANGED <<config, account, loaded, apply, noted, cut>>
        /\ running' = [running EXCEPT ![n] = FALSE]
    BY <1>10 DEF ContainerStops, diskVars, runVars
  <2>2. running'["collector"] => running["collector"]
    <3>1. \A m \in Names : running'[m] => running[m]
      BY ZenonT(60), <1>t, <2>1 DEF InstallTypes
    <3> QED
      BY <3>1 DEF Names
  <2> QED
    BY <2>1, <2>2 DEF Unstarted, CollectorIsCurrent
<1>11. CASE UserEdits
  <2>1. UNCHANGED <<config, account, apply, noted, cut>>
    BY <1>11 DEF UserEdits, runVars
  <2>2. loaded'["collector"] = loaded["collector"] /\ running'["collector"] = running["collector"]
    <3>1. CASE running' = [running EXCEPT !["backend"] = FALSE] /\ UNCHANGED loaded
      BY <1>t, <3>1 DEF InstallTypes, Names
    <3>2. CASE loaded' = [loaded EXCEPT !["backend"] = [loopback |-> FALSE]] /\ UNCHANGED running
      BY <1>t, <3>2 DEF InstallTypes, Loads
    <3>3. CASE UNCHANGED <<running, loaded>>
      BY <3>3
    <3> QED
      BY <1>11, <3>1, <3>2, <3>3 DEF UserEdits
  <2> QED
    BY <2>1, <2>2 DEF Unstarted, CollectorIsCurrent
<1>12. CASE UNCHANGED obsVars
  BY <1>12 DEF obsVars, diskVars, dockerVars, runVars, Unstarted, CollectorIsCurrent
<1> QED
  BY <1>1, <1>2, <1>3, <1>4, <1>5, <1>6, <1>7, <1>8, <1>9, <1>10, <1>11, <1>12
     DEF ObservabilityNext

(* Unless an application was cut off between the write of the collector's  *)
(* file and the restart, one that succeeds leaves every container on what  *)
(* the files say, ports and key included (collectorNeedsRestart and        *)
(* mustSecureBinding of ObservabilityPlanner.apply).                       *)
THEOREM ChangedServicesAreRestarted == ObservabilitySpec => []WhatIsWrittenRuns
<1>1. ObservabilityInit => CollectorInv
  BY DEF ObservabilityInit, CollectorInv, Nothing
<1>2. ObsInv /\ CollectorInv => WhatIsWrittenRuns
  <2> SUFFICES ASSUME ObsInv, CollectorInv, apply = "applied" PROVE WhatIsWrittenRuns
    BY DEF WhatIsWrittenRuns
  <2>1. (noted.fresh \/ noted.secure) /\ running["backend"] => loaded["backend"].loopback
    BY DEF ObsInv, DockerStages, PastStart, PastCheck, PastCollectorStart
  <2>2. config = "current" /\ password = account
    BY DEF ObsInv, FileStages, DockerStages, PastConfig, PastCollector, PastDeclare, PastSelect,
           PastStart, PastCheck, PastCollectorStart
  <2>3. running["collector"] /\ ~cut => CollectorIsCurrent
    BY <2>2 DEF CollectorInv, Unstarted, PastCollectorStart
  <2> QED
    BY <2>1, <2>2, <2>3 DEF WhatIsWrittenRuns, CollectorIsCurrent
<1> QED
  BY <1>1, <1>2, CollectorStep, ObsIsInvariant, PTL DEF ObservabilitySpec

(* An application that succeeds leaves nothing for the next: plan, asked   *)
(* while everything it started is up, finds no step to apply and nothing   *)
(* that blocks (ObservabilityPlanner.plan).                                *)
THEOREM ApplyingIsIdempotent == ObservabilitySpec => []AppliedPlanIsComplete
<1>1. ObsInv => AppliedPlanIsComplete
  <2> SUFFICES ASSUME ObsInv, apply = "applied", running["backend"], running["collector"],
                      capability.live => backend.id = "openobserve", NEW route \in BOOLEAN
               PROVE  PlanState([backend |-> TRUE, api |-> TRUE, collector |-> TRUE, route |-> route])
                        \in {"ready-to-route", "healthy"}
    BY DEF AppliedPlanIsComplete
  <2> DEFINE probe == [backend |-> TRUE, api |-> TRUE, collector |-> TRUE, route |-> route]
  <2>1. /\ contract /\ backend.declared /\ backend.persistent /\ backend.loopback
        /\ config = "current" /\ collector.by = "locallink" /\ collector.contract
        /\ capability.enabled /\ (capability.live => backend.id \in capability.owned)
        /\ capability.selected
    BY DEF ObsInv, FileStages, PastEnv, PastBackend, PastConfig, PastCollector, PastDeclare,
           PastSelect, PastStart, PastCheck, PastCollectorStart
  <2>2. password = account /\ password # 0 /\ verified
    BY DEF ObsInv, DockerStages, PastCheck, PastCollectorStart
  <2>3. probe \in Probes /\ probe.backend /\ probe.api /\ probe.collector
    BY DEF Probes
  <2> HIDE DEF probe
  <2>4. Healthy("backend", probe) /\ Healthy("collector", probe)
    BY <2>3 DEF Healthy
  <2>5. CredentialState(probe) = "valid"
    BY <2>2, <2>3, <2>4, CredentialsOfHealthy
  <2>6. CollectorConfigured /\ Delivered(probe)
    BY <2>1, <2>2, <2>4 DEF CollectorConfigured, Delivered
  <2>7. ~Blocking(probe)
    BY <2>1, <2>4, <2>5 DEF Blocking
  <2>8. ~AutomaticPending(probe)
    BY <2>1, <2>4, <2>5, <2>6 DEF AutomaticPending, Recorded
  <2>9. PlanState(probe) = IF ~RouteActive(probe) THEN "ready-to-route"
                           ELSE IF Healthy("backend", probe) /\ CredentialState(probe) = "valid"
                                   /\ Healthy("collector", probe) /\ CollectorConfigured
                                THEN "healthy" ELSE "waiting-user"
    BY <2>7, <2>8 DEF PlanState, CanApply
  <2>10. PlanState(probe) \in {"ready-to-route", "healthy"}
    BY <2>4, <2>5, <2>6, <2>9
  <2> QED
    BY <2>10 DEF probe
<1> QED
  BY <1>1, ObsIsInvariant, PTL

(* The plan (ObservabilityPlanner.plan) and the dashboard                  *)
(* (observabilityRecord of lifecycle.ts) never disagree about what is      *)
(* healthy, whatever the files say and the probes answer.                  *)
THEOREM PlanAndReportAgree == ObservabilitySpec => []ReportsAgree
<1>1. ObsInv => ReportsAgree
  <2> SUFFICES ASSUME ObsInv, NEW probe \in Probes, PlanState(probe) = "healthy", Recorded
               PROVE  Report(probe) = "healthy"
    BY DEF ReportsAgree
  <2>1. ~Blocking(probe)
    BY DEF PlanState
  <2>2. ~CanApply(probe)
    <3>1. CanApply(probe) => ~Blocking(probe) /\ AutomaticPending(probe)
      BY DEF CanApply
    <3>2. CanApply(probe) => PlanState(probe) = "ready-to-apply"
      BY <3>1 DEF PlanState
    <3> QED
      BY <3>2
  <2>3. ~AutomaticPending(probe)
    BY <2>1, <2>2 DEF CanApply
  <2> DEFINE good == /\ Healthy("backend", probe) /\ CredentialState(probe) = "valid"
                     /\ Healthy("collector", probe) /\ CollectorConfigured
  <2>4. PlanState(probe) = IF ~RouteActive(probe) THEN "ready-to-route"
                           ELSE IF good THEN "healthy" ELSE "waiting-user"
    BY <2>1, <2>2, <2>3 DEF PlanState
  <2> HIDE DEF good
  <2>a. good
    BY <2>4
  <2>5. /\ Healthy("backend", probe) /\ CredentialState(probe) = "valid"
        /\ Healthy("collector", probe) /\ CollectorConfigured
    BY <2>a DEF good
  <2>6. capability.enabled /\ backend.declared /\ backend.loopback
    BY <2>3 DEF AutomaticPending
  <2>7. backend.persistent /\ collector.by # "user"
    BY <2>1, <2>6 DEF Blocking
  <2>8. collector.by = "locallink" /\ verified
    <3>1. collector.by \in {"none", "locallink", "user"} /\ (collector.by = "none" => ~collector.contract)
      BY DEF ObsInv, InstallTypes
    <3>2. collector.by = "locallink"
      BY <2>5, <2>7, <3>1 DEF CollectorConfigured
    <3> QED
      BY <2>3, <3>2 DEF AutomaticPending, Delivered
  <2>9. BackendReport(probe) = "healthy"
    <3>1. running["backend"] /\ probe.backend
      BY <2>5 DEF Healthy
    <3> QED
      BY <2>5, <2>6, <2>7, <3>1 DEF BackendReport
  <2>10. CollectorReport(probe) = "healthy"
    <3>1. running["collector"] /\ probe.collector
      BY <2>5 DEF Healthy
    <3> QED
      BY <2>5, <2>8, <3>1 DEF CollectorReport
  <2> QED
    BY <2>6, <2>9, <2>10 DEF Report
<1> QED
  BY <1>1, ObsIsInvariant, PTL
=============================================================================
