---------------------------- MODULE ConfigFiles ----------------------------
(***************************************************************************)
(* The configuration files of a workspace as ConfigRepository              *)
(* (src/src/config/files.ts) reads and patches them, down to the port of a *)
(* service: .env, locallink.services.yml, docker-compose.yml,              *)
(* locallink.extensions.yml and ecosystem.config.js.  A port is given, or  *)
(* named by a variable; variables come from .env and from the environment  *)
(* of the process, which the process itself hydrates from .env.            *)
(***************************************************************************)
EXTENDS Naturals, Sequences

CONSTANTS
  EnvKeys, Values,    \* variables of .env; their values, which are ports
  Escaped,            \* the values that do not survive being quoted: with a
                      \* blank before a #, or a character JSON escapes
  Unset,              \* no value, no variable
  Garbled,            \* what such a value is read as; what cannot be parsed
  MaxWrites,          \* bound: requests to write
  MaxUserChanges,     \* bound: changes by the user
  WriteFaults         \* "overlap": of two writes; "torn": a crash halfway

ASSUME ConfigAssumption ==
  /\ Escaped \subseteq Values
  /\ {Unset, Garbled} \cap (Values \cup EnvKeys) = {} /\ Unset # Garbled
  /\ MaxWrites \in Nat /\ MaxUserChanges \in Nat
  /\ WriteFaults \subseteq {"overlap", "torn"}

VARIABLES
  envLines,      \* .env: for each key the values of its lines in order, as a
                 \* key may be repeated; lines of different keys do not interact
  docs,          \* what the other files say of a service, by file
  processEnv,    \* process.env
  hydrated,      \* HYDRATED_PROCESS_ENV
  exported,      \* what the environment held when the process started
  overrides,     \* includeProcessOverrides
  writing,       \* writes between their read and their write of the file
  requested,     \* what the user's edits and the answered writes ask for
  writes, userChanges

configFileVars == <<envLines, docs>>
processVars == <<processEnv, hydrated, exported, overrides>>
configVars == <<configFileVars, processVars, writing, requested, writes, userChanges>>

NoLines == [k \in EnvKeys |-> <<>>]
NoEnv == [k \in EnvKeys |-> Unset]

(* The fields of a service a file may hold.  "port" of the Compose file is *)
(* its port mapping, "env" the PORT in the env of an app; both may refer   *)
(* to a variable.  "volumes" is merged, the other fields are replaced.     *)
Given == Values \cup EnvKeys \cup {Unset}
NoService == [port |-> Unset, portEnv |-> Unset, env |-> Unset, volumes |-> {}]
Service == [port : Given, portEnv : EnvKeys \cup {Unset}, env : Given,
            volumes : SUBSET Values]
DocFiles == {"services", "compose", "extensions", "ecosystem"}

ConfigTypeOK ==
  /\ envLines \in [EnvKeys -> Seq(Values \cup {Garbled})]
  /\ docs \in [DocFiles -> Service \cup {Garbled}]
  /\ {processEnv, hydrated, exported} \subseteq [EnvKeys -> Values \cup {Unset, Garbled}]
  /\ overrides \in BOOLEAN

-----------------------------------------------------------------------------
(* parseEnvMap: the last line of a key counts. *)
ParseEnv(lines) ==
  [k \in EnvKeys |-> IF lines[k] = <<>> THEN Unset ELSE lines[k][Len(lines[k])]]

(* The environment of the process, but for what it has hydrated itself. *)
MergeRuntimeEnv(env) ==
  [k \in EnvKeys |->
     IF overrides /\ processEnv[k] # Unset /\ hydrated[k] # processEnv[k]
     THEN processEnv[k] ELSE env[k]]

Variable(env, k) == IF k = Unset THEN Unset ELSE env[k]

OrElse(v, w) == IF v # Unset THEN v ELSE w

(* The script of an ecosystem file runs with process.env under env. *)
RunEcosystem(given, env, process) ==
  IF given \in EnvKeys THEN OrElse(env[given], process[given]) ELSE given

ParseComposePort(s, env) ==
  OrElse(Variable(env, s.portEnv), IF s.port \in EnvKeys THEN env[s.port] ELSE s.port)
BuildRegistry(s, env) == OrElse(s.port, Variable(env, s.portEnv))
BuildEcosystem(s, env, process) ==
  OrElse(s.port, OrElse(Variable(env, s.portEnv), RunEcosystem(s.env, env, process)))

(* loadProjectModel over what the files say; an ecosystem file that does   *)
(* not run fails the whole of it.                                          *)
ModelOf(env, process, said) ==
  IF said["ecosystem"] = Garbled THEN Garbled
  ELSE [env |-> env,
        services |-> BuildRegistry(said["services"], env),
        compose |-> ParseComposePort(said["compose"], env),
        volumes |-> said["compose"].volumes,
        extensions |-> said["extensions"].port,
        ecosystem |-> BuildEcosystem(said["ecosystem"], env, process)]

LoadProjectModel == ModelOf(MergeRuntimeEnv(ParseEnv(envLines)), processEnv, docs)

-----------------------------------------------------------------------------
ConfigInit ==
  /\ envLines = NoLines /\ docs = [f \in DocFiles |-> NoService]
  /\ \E k \in EnvKeys, v \in (Values \ Escaped) \cup {Unset} :
       exported = [NoEnv EXCEPT ![k] = v]
  /\ processEnv = exported /\ hydrated = NoEnv
  /\ overrides \in BOOLEAN
  /\ writing = {} /\ writes = 0 /\ userChanges = 0
  /\ requested = [env |-> NoEnv, docs |-> docs]

(* The variables hydrateProcessEnv takes from .env. *)
ToHydrate(env) ==
  {k \in EnvKeys : env[k] # Unset /\ (~overrides \/ processEnv[k] \in {Unset, hydrated[k]})}

(* A mutant: what has been set is not noted. *)
HydrateUntracked ==
  LET env == ParseEnv(envLines) IN
  /\ processEnv' = [k \in EnvKeys |-> IF k \in ToHydrate(env) THEN env[k] ELSE processEnv[k]]
  /\ UNCHANGED <<configFileVars, hydrated, exported, overrides, writing, requested, writes, userChanges>>

HydrateProcessEnv ==
  LET env == ParseEnv(envLines) IN
  /\ processEnv' = [k \in EnvKeys |-> IF k \in ToHydrate(env) THEN env[k] ELSE processEnv[k]]
  /\ hydrated' = [k \in EnvKeys |-> IF k \in ToHydrate(env) THEN env[k] ELSE hydrated[k]]
  /\ UNCHANGED <<configFileVars, exported, overrides, writing, requested, writes, userChanges>>

-----------------------------------------------------------------------------
(* formatEnvValue escapes a value with quotes; parseEnvMap does not undo it. *)
ReadBack(v) == IF v \in Escaped THEN Garbled ELSE v

(* Every line of a key is set or removed; a new key is appended. *)
ApplyEnvPatch(lines, set, unset) ==
  [k \in EnvKeys |->
     IF k \in unset THEN <<>>
     ELSE IF k \notin DOMAIN set THEN lines[k]
     ELSE IF lines[k] = <<>> THEN <<ReadBack(set[k])>>
     ELSE [i \in DOMAIN lines[k] |-> ReadBack(set[k])]]

(* applyComposePatch, applyExtensionPatch, applyEcosystemPatch: one field  *)
(* of the service of the patch; volumes are added to those it has.         *)
ApplyDocPatch(said, patch) ==
  IF patch.at = "volumes" THEN [said EXCEPT !.volumes = @ \cup {patch.value}]
  ELSE [said EXCEPT ![patch.at] = patch.value]

(* The fields the patch of a file has; null removes the env of an app.     *)
PatchesOf(file) ==
  LET to(field, values) == [at : {field}, value : values]
  IN CASE file = "compose" -> to("port", Values \cup EnvKeys) \cup to("portEnv", EnvKeys)
                                \cup to("volumes", Values)
       [] file = "extensions" -> to("port", Values)
       [] file = "ecosystem" -> to("port", Values) \cup to("portEnv", EnvKeys) \cup to("env", Given)
       [] OTHER -> {}

(* What a patch of .env asks for, without the lines of the file. *)
Wanted(env, set, unset) ==
  [k \in EnvKeys |-> IF k \in unset THEN Unset ELSE IF k \in DOMAIN set THEN set[k] ELSE env[k]]

(* The first half of writeInfraConfig: read the file and patch it, or take *)
(* the content the request gives.                                          *)
WriteBegins(file, lines, doc, wanted) ==
  /\ writes < MaxWrites /\ (writing = {} \/ "overlap" \in WriteFaults)
  /\ writes' = writes + 1
  /\ writing' = writing \cup {[n |-> writes, file |-> file, lines |-> lines, doc |-> doc,
                               wanted |-> wanted]}
  /\ UNCHANGED <<configFileVars, processVars, requested, userChanges>>

WriteEnvFile ==
  \E set \in UNION {[K -> Values] : K \in SUBSET EnvKeys}, unset \in SUBSET EnvKeys :
    /\ DOMAIN set \cap unset = {} /\ DOMAIN set \cup unset # {}
    /\ WriteBegins(".env", ApplyEnvPatch(envLines, set, unset), NoService,
                   [set |-> set, unset |-> unset])

WriteDoc ==
  \E file \in DocFiles : \E patch \in PatchesOf(file) :
    /\ docs[file] # Garbled
    /\ WriteBegins(file, NoLines, ApplyDocPatch(docs[file], patch), patch)

WriteServices ==
  \E port \in Values \cup {Unset}, key \in EnvKeys \cup {Unset} :
    LET content == [NoService EXCEPT !.port = port, !.portEnv = key]
    IN WriteBegins("services", NoLines, content, content)

(* writeFile, and the answer. *)
EndWrite(w) ==
  /\ writing' = writing \ {w}
  /\ CASE w.file = ".env" ->
            /\ envLines' = w.lines /\ UNCHANGED docs
            /\ requested' = [requested EXCEPT !.env = Wanted(@, w.wanted.set, w.wanted.unset)]
       [] w.file = "services" ->
            /\ docs' = [docs EXCEPT ![w.file] = w.doc] /\ UNCHANGED envLines
            /\ requested' = [requested EXCEPT !.docs[w.file] = w.wanted]
       [] OTHER ->
            /\ docs' = [docs EXCEPT ![w.file] = w.doc] /\ UNCHANGED envLines
            /\ requested' = [requested EXCEPT !.docs[w.file] =
                           IF @ = Garbled THEN @ ELSE ApplyDocPatch(@, w.wanted)]
  /\ UNCHANGED <<processVars, writes, userChanges>>

(* External: the user edits the lines of a key of .env, or an ecosystem    *)
(* file, which may then not run; between writes unless these may overlap.  *)
UserEditsFiles ==
  /\ userChanges < MaxUserChanges /\ (writing = {} \/ "overlap" \in WriteFaults)
  /\ userChanges' = userChanges + 1
  /\ \/ \E k \in EnvKeys, lines \in UNION {[1..n -> Values \ Escaped] : n \in 0..2} :
          /\ envLines' = [envLines EXCEPT ![k] = lines] /\ UNCHANGED docs
          /\ requested' = [requested EXCEPT !.env[k] = IF lines = <<>> THEN Unset ELSE lines[Len(lines)]]
     \/ \E s \in {Garbled, NoService} :
          /\ docs' = [docs EXCEPT !["ecosystem"] = s] /\ UNCHANGED envLines
          /\ requested' = [requested EXCEPT !.docs["ecosystem"] = s]
  /\ UNCHANGED <<processVars, writing, writes>>

(* The process ends at any moment and starts anew: what it was about to    *)
(* write is lost, or the file is left empty.                               *)
RestartConfig ==
  /\ processEnv' = exported /\ hydrated' = NoEnv /\ writing' = {}
  /\ \/ UNCHANGED configFileVars
     \/ /\ "torn" \in WriteFaults
        /\ \E w \in writing :
             IF w.file = ".env" THEN envLines' = NoLines /\ UNCHANGED docs
             ELSE docs' = [docs EXCEPT ![w.file] = NoService] /\ UNCHANGED envLines
  /\ UNCHANGED <<exported, overrides, requested, writes, userChanges>>

ConfigNext ==
  \/ HydrateProcessEnv \/ WriteEnvFile \/ WriteDoc \/ WriteServices \/ UserEditsFiles \/ RestartConfig
  \/ \E w \in writing : EndWrite(w)

ConfigSpec == ConfigInit /\ [][ConfigNext]_configVars

-----------------------------------------------------------------------------
(* What the environment of the process and .env are to say together, if    *)
(* only what was exported and what was asked for counts.                   *)
AskedEnv ==
  [k \in EnvKeys |-> IF overrides /\ exported[k] # Unset THEN exported[k]
                     ELSE ReadBack(requested.env[k])]

(* At every moment the model that is loaded is that of the last thing      *)
(* asked for each variable and field, by a user's edit or an answered      *)
(* write: whatever the lines of .env repeat, whichever values the process  *)
(* has hydrated from an earlier .env, over restarts.  Exported variables   *)
(* win where they are to override.  Excepted is an app that refers to a    *)
(* variable no longer in .env, whose value the process may still hold.     *)
WrittenIsLoaded ==
  LET app == requested.docs["ecosystem"]
  IN \/ app # Garbled /\ app.env \in EnvKeys /\ AskedEnv[app.env] = Unset
     \/ LoadProjectModel = ModelOf(AskedEnv, exported, requested.docs)
=============================================================================
