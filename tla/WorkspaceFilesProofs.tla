------------------------ MODULE WorkspaceFilesProofs ------------------------
(***************************************************************************)
(* Proofs about the files of a workspace.  AccessProfiles, for any         *)
(* endpoints, ports and number of changes, when applications do not        *)
(* overlap and the faults that lose routes, a Caddyfile that is missing or *)
(* that Private Edge replaces, do not happen.  ConfigFiles, for any        *)
(* variables, values, exported environment and number of writes, edits and *)
(* starts, when writes neither overlap nor are cut short.                  *)
(***************************************************************************)
EXTENDS AccessProfiles, ConfigFiles, TLAPS


-----------------------------------------------------------------------------
(* AccessProfiles: one application at a time, over a file of the user's.   *)
Routes == SUBSET [id : Endpoints, kind : EndpointKinds, port : EndpointPorts \cup {0}]
Texts == [text : {"own", "absent", "empty", "generated"}, edge : BOOLEAN, blocks : BOOLEAN, routes : Routes]
Applications ==
  [stage : {"idle", "planned", "merged", "valid", "written", "failed"}, required : BOOLEAN,
   profiles : Routes, up : BOOLEAN, previous : Texts, merged : Texts]

AccessTypes ==
  /\ endpoint \in [Endpoints -> Declared \cup {Undeclared}]
  /\ caddyfile \in Texts /\ caddyUp \in BOOLEAN
  /\ edgeOwner \in [routes : BOOLEAN, existed : BOOLEAN]
  /\ applying \in [Appliers -> Applications]

Merging == {"merged", "valid", "written", "failed"}

(* What an application has read, and what of it the file has.              *)
FileKept ==
  /\ caddyfile.text = "own" /\ caddyfile.edge = edgeOwner.routes /\ edgeOwner.existed
  /\ \A a \in Appliers :
       /\ applying[a].stage \in Merging =>
            /\ applying[a].previous.text = "own" /\ applying[a].previous.edge = edgeOwner.routes
            /\ applying[a].previous.routes \in mayHold
            /\ applying[a].merged = MergeManaged(applying[a].previous, applying[a].profiles)
       /\ applying[a].stage = "written" => caddyfile = applying[a].merged
  /\ (\A a \in Appliers : applying[a].stage \notin {"written", "failed"}) => caddyfile.routes \in mayHold

AccessInv == AccessTypes /\ FileKept /\ (caddyUp => served \in mayServe)

LEMMA AccessTypesInit == AccessInit /\ "absent" \notin AccessFaults => AccessInv
<1> SUFFICES ASSUME AccessInit, "absent" \notin AccessFaults PROVE AccessInv
  OBVIOUS
<1>1. /\ endpoint = [e \in Endpoints |-> Undeclared] /\ caddyUp \in BOOLEAN /\ served = {}
      /\ caddyfile = CaddyText("own", FALSE, FALSE, {})
      /\ edgeOwner = [routes |-> FALSE, existed |-> TRUE]
      /\ applying = [a \in Appliers |-> Waiting] /\ mayHold = {{}} /\ mayServe = {{}}
  BY DEF AccessInit
<1>2. CaddyText("own", FALSE, FALSE, {}) \in Texts /\ NoCaddyfile \in Texts
  BY DEF CaddyText, NoCaddyfile, Texts, Routes
<1>3. Waiting \in Applications
  <2>1. {} \in Routes
    BY DEF Routes
  <2> HIDE DEF Routes
  <2> QED
    BY <1>2, <2>1 DEF Waiting, Applications
<1>4. AccessTypes
  BY <1>1, <1>2, <1>3 DEF AccessTypes
<1>5. FileKept
  BY <1>1 DEF FileKept, Merging, Waiting, CaddyText
<1> QED
  BY <1>1, <1>4, <1>5 DEF AccessInv

LEMMA RouteTypes == AccessTypes => PlannedRoutes \in Routes
<1> SUFFICES ASSUME AccessTypes PROVE PlannedRoutes \in Routes
  OBVIOUS
<1>1. \A e \in Endpoints : endpoint[e].kind \in EndpointKinds /\ endpoint[e].port \in EndpointPorts \cup {0}
  BY DEF AccessTypes, Declared, Undeclared, EndpointKinds
<1>2. Required \subseteq Endpoints
  BY DEF Required
<1> QED
  BY <1>1, <1>2 DEF PlannedRoutes, Routes

LEMMA MergedTypes ==
  ASSUME NEW text \in Texts, NEW routes \in Routes
  PROVE  /\ MergeManaged(text, routes) \in Texts
         /\ MergeManaged(text, routes).edge = text.edge
         /\ MergeManaged(text, routes).routes = routes
         /\ text.text = "own" => MergeManaged(text, routes).text = "own"
<1> HIDE DEF Routes
<1> QED
  BY DEF MergeManaged, CaddyText, Texts

(* One application moves on, and the rest of it stays. *)
LEMMA StageMoves ==
  ASSUME AccessTypes, NEW a \in Appliers, NEW stage \in {"idle", "planned", "merged", "valid", "written", "failed"},
         Applied(a, stage)
  PROVE  /\ applying' \in [Appliers -> Applications]
         /\ applying'[a].stage = stage /\ applying'[a].required = applying[a].required
         /\ applying'[a].profiles = applying[a].profiles /\ applying'[a].up = applying[a].up
         /\ applying'[a].previous = applying[a].previous /\ applying'[a].merged = applying[a].merged
         /\ \A b \in Appliers \ {a} : applying'[b] = applying[b]
<1>1. applying[a] \in Applications
  BY DEF AccessTypes
<1> DEFINE new == [applying[a] EXCEPT !.stage = stage]
<1>2. /\ new \in Applications
      /\ new.stage = stage /\ new.required = applying[a].required
      /\ new.profiles = applying[a].profiles /\ new.up = applying[a].up
      /\ new.previous = applying[a].previous /\ new.merged = applying[a].merged
  BY <1>1 DEF Applications
<1>3. applying' = [applying EXCEPT ![a] = new]
  BY DEF Applied
<1> HIDE DEF new
<1> QED
  BY <1>2, <1>3 DEF AccessTypes

LEMMA StageEnds ==
  ASSUME AccessTypes, NEW a \in Appliers, Ended(a)
  PROVE  /\ applying' \in [Appliers -> Applications] /\ applying'[a].stage = "idle"
         /\ \A b \in Appliers \ {a} : applying'[b] = applying[b]
<1>1. {} \in Routes /\ CaddyText("absent", FALSE, FALSE, {}) \in Texts
  BY DEF CaddyText, Texts, Routes
<1>2. Waiting \in Applications /\ Waiting.stage = "idle"
  <2> HIDE DEF Routes, Texts
  <2> QED
    BY <1>1 DEF Waiting, Applications, NoCaddyfile
<1> QED
  BY <1>2 DEF Ended, AccessTypes

LEMMA AccessStep ==
  ASSUME AccessFaults \cap {"edge", "absent"} = {}, \A a, b \in Appliers : a = b,
         AccessInv, [AccessNext]_accessVars
  PROVE  AccessInv'
<1>0. AccessTypes /\ FileKept /\ caddyfile \in Texts /\ edgeOwner \in [routes : BOOLEAN, existed : BOOLEAN]
  BY DEF AccessInv, AccessTypes
<1>t. ASSUME NEW a \in Appliers PROVE applying[a] \in Applications /\ applying[a].previous \in Texts
                                      /\ applying[a].profiles \in Routes /\ applying[a].merged \in Texts
  BY <1>0 DEF AccessTypes, Applications
<1>f. FileOnly => UNCHANGED <<endpoint, caddyUp, served, edgeOwner, mayHold, mayServe, declares, runs>>
  BY DEF FileOnly
<1>1. ASSUME NEW a \in Appliers, PlanAccess(a) PROVE AccessInv'
  <2>1. UNCHANGED <<endpoint, caddyfile, caddyUp, served, edgeOwner, mayHold, mayServe>> /\ applying[a].stage = "idle"
    BY <1>1 DEF PlanAccess
  <2>2. CASE applying' = applying
    BY <2>1, <2>2 DEF AccessInv, AccessTypes, FileKept
  <2>3. CASE applying' # applying
    <3> DEFINE new == [Waiting EXCEPT !.stage = "planned", !.required = (Required # {}),
                                      !.profiles = PlannedRoutes, !.up = caddyUp]
    <3>1. applying' = [applying EXCEPT ![a] = new]
      BY <1>1, <2>3 DEF PlanAccess
    <3>2. NoCaddyfile \in Texts
      BY DEF NoCaddyfile, CaddyText, Texts, Routes
    <3>3. new.stage = "planned" /\ new \in Applications
      <4>1. PlannedRoutes \in Routes /\ caddyUp \in BOOLEAN
        BY <1>0, RouteTypes DEF AccessTypes
      <4> HIDE DEF Routes, Texts
      <4> QED
        BY <3>2, <4>1 DEF Waiting, Applications
    <3> HIDE DEF new
    <3>4. applying' \in [Appliers -> Applications] /\ applying'[a].stage = "planned"
          /\ \A b \in Appliers \ {a} : applying'[b] = applying[b]
      BY <1>0, <3>1, <3>3 DEF AccessTypes
    <3> QED
      BY <2>1, <3>4 DEF AccessInv, AccessTypes, FileKept, Merging
  <2> QED
    BY <2>2, <2>3
<1>2. ASSUME NEW a \in Appliers, ReadCaddyfile(a) PROVE AccessInv'
  <2>1. UNCHANGED <<endpoint, caddyfile, caddyUp, served, edgeOwner, mayHold, mayServe>> /\ applying[a].stage = "planned"
    BY <1>2, <1>f DEF ReadCaddyfile
  <2>2. CASE Ended(a)
    BY <1>0, <2>1, <2>2, StageEnds DEF AccessInv, AccessTypes, FileKept, Merging
  <2>3. CASE ~Ended(a)
    <3> DEFINE new == [applying[a] EXCEPT !.stage = "merged", !.previous = caddyfile,
                                          !.merged = MergeManaged(caddyfile, applying[a].profiles)]
    <3>1. applying' = [applying EXCEPT ![a] = new]
      BY <1>2, <2>3 DEF ReadCaddyfile
    <3>2. /\ new \in Applications /\ new.stage = "merged" /\ new.previous = caddyfile
          /\ new.merged = MergeManaged(new.previous, new.profiles)
      <4>1. MergeManaged(caddyfile, applying[a].profiles) \in Texts
        BY <1>0, <1>t, MergedTypes
      <4> HIDE DEF Routes, Texts, MergeManaged
      <4> QED
        BY <1>0, <1>t, <4>1 DEF Applications
    <3> HIDE DEF new
    <3>3. applying' \in [Appliers -> Applications] /\ applying'[a] = new
          /\ \A b \in Appliers \ {a} : applying'[b] = applying[b]
      BY <1>0, <3>1, <3>2 DEF AccessTypes
    <3>4. caddyfile.routes \in mayHold
      BY <1>0, <2>1 DEF FileKept
    <3>5. FileKept'
      <4> HIDE DEF MergeManaged
      <4> QED
        BY <1>0, <2>1, <3>2, <3>3, <3>4 DEF FileKept, Merging
    <3> QED
      BY <1>0, <2>1, <3>3, <3>5 DEF AccessInv, AccessTypes
  <2> QED
    BY <2>2, <2>3
<1>3. ASSUME NEW a \in Appliers, ValidateAccess(a) PROVE AccessInv'
  <2>1. UNCHANGED <<endpoint, caddyfile, caddyUp, served, edgeOwner, mayHold, mayServe>> /\ applying[a].stage = "merged"
    BY <1>3, <1>f DEF ValidateAccess
  <2>2. CASE Ended(a)
    BY <1>0, <2>1, <2>2, StageEnds DEF AccessInv, AccessTypes, FileKept, Merging
  <2>3. CASE Applied(a, "valid")
    BY <1>0, <2>1, <2>3, StageMoves DEF AccessInv, AccessTypes, FileKept, Merging
  <2> QED
    BY <1>3, <2>2, <2>3 DEF ValidateAccess
<1>4. ASSUME NEW a \in Appliers, WriteCaddyfile(a) PROVE AccessInv'
  <2>1. UNCHANGED <<endpoint, caddyUp, served, edgeOwner, mayHold, mayServe>> /\ applying[a].stage = "valid"
    BY <1>4, <1>f DEF WriteCaddyfile
  <2>2. CASE caddyfile' = caddyfile /\ Applied(a, "failed")
    BY <1>0, <2>1, <2>2, StageMoves DEF AccessInv, AccessTypes, FileKept, Merging
  <2>3. CASE caddyfile' = applying[a].merged /\ Applied(a, "written")
    <3>1. /\ applying[a].previous.text = "own" /\ applying[a].previous.edge = edgeOwner.routes
          /\ applying[a].merged = MergeManaged(applying[a].previous, applying[a].profiles)
      BY <1>0, <2>1 DEF FileKept, Merging
    <3>2. caddyfile'.text = "own" /\ caddyfile'.edge = edgeOwner.routes /\ caddyfile' \in Texts
      BY <1>t, <2>3, <3>1, MergedTypes
    <3> QED
      BY <1>0, <2>1, <2>3, <3>2, StageMoves DEF AccessInv, AccessTypes, FileKept, Merging
  <2> QED
    BY <1>4, <2>2, <2>3 DEF WriteCaddyfile
<1>5. ASSUME NEW a \in Appliers, ReloadCaddy(a) PROVE AccessInv'
  <2>1. UNCHANGED <<endpoint, caddyfile, edgeOwner>> /\ applying[a].stage = "written" /\ caddyfile = applying[a].merged
    BY <1>0, <1>5 DEF ReloadCaddy, FileKept
  <2>u. applying[a].up \in BOOLEAN /\ caddyUp \in BOOLEAN
    BY <1>0, <1>t DEF Applications, AccessTypes
  <2>l. Loaded(a) => caddyUp' \in BOOLEAN /\ served' \in {caddyfile.routes, served}
    BY <2>u DEF Loaded
  <2>2. CASE /\ applying[a].up => caddyUp
             /\ Loaded(a) /\ Ended(a)
             /\ mayHold' = {applying[a].merged.routes}
             /\ mayServe' = IF Loads(a) THEN mayHold' ELSE mayServe \cup mayHold'
    <3>1. caddyUp' => served' \in mayServe'
      <4>1. CASE Loads(a)
        BY <2>1, <2>2, <4>1 DEF Loaded
      <4>2. CASE ~Loads(a)
        <5>1. caddyUp
          BY <2>u, <2>2, <4>2 DEF Loads
        <5> QED
          BY <2>2, <4>2, <5>1 DEF Loaded, AccessInv
      <4> QED
        BY <4>1, <4>2
    <3>2. FileKept'
      BY <1>0, <2>1, <2>2, StageEnds DEF FileKept, Merging
    <3>3. AccessTypes'
      BY <1>0, <2>1, <2>2, <2>l, StageEnds DEF AccessTypes
    <3> QED
      BY <3>1, <3>2, <3>3 DEF AccessInv
  <2>3. CASE UNCHANGED <<caddyUp, served, mayHold, mayServe>> /\ Applied(a, "failed")
    BY <1>0, <2>1, <2>3, StageMoves DEF AccessInv, AccessTypes, FileKept, Merging
  <2>4. CASE Loaded(a) /\ Applied(a, "failed") /\ mayServe' = mayServe \cup {served'} /\ UNCHANGED mayHold
    BY <1>0, <2>1, <2>l, <2>4, StageMoves DEF AccessInv, AccessTypes, FileKept, Merging
  <2> QED
    BY <1>5, <2>2, <2>3, <2>4 DEF ReloadCaddy
<1>6. ASSUME NEW a \in Appliers, RestoreCaddyfile(a) PROVE AccessInv'
  <2>1. UNCHANGED <<endpoint, caddyUp, served, edgeOwner, mayHold, mayServe>> /\ applying[a].stage = "failed" /\ Ended(a)
    BY <1>6, <1>f DEF RestoreCaddyfile
  <2>2. /\ applying[a].previous.text = "own" /\ applying[a].previous.edge = edgeOwner.routes
        /\ applying[a].previous.routes \in mayHold
    BY <1>0, <2>1 DEF FileKept, Merging
  <2>3. caddyfile' = applying[a].previous
    BY <1>6, <2>2 DEF RestoreCaddyfile
  <2> QED
    BY <1>0, <1>t, <2>1, <2>2, <2>3, StageEnds DEF AccessInv, AccessTypes, FileKept, Merging
<1>7. ASSUME NEW a \in Appliers, CrashApplying(a) PROVE AccessInv'
  <2>1. /\ UNCHANGED <<endpoint, caddyfile, caddyUp, served, edgeOwner, mayServe>> /\ Ended(a)
        /\ mayHold' = mayHold \cup {caddyfile.routes}
    BY <1>7 DEF CrashApplying
  <2> QED
    BY <1>0, <2>1, StageEnds DEF AccessInv, AccessTypes, FileKept, Merging
<1>u. Undisturbed => (\A a \in Appliers : applying[a].stage = "idle") /\ caddyfile.routes \in mayHold
  BY <1>0 DEF Undisturbed, FileKept
<1>8. CASE EdgeApplies
  <2>1. /\ \A a \in Appliers : applying[a].stage = "idle"
        /\ caddyfile.routes \in mayHold /\ caddyfile.text = "own"
    BY <1>0, <1>8, <1>u DEF EdgeApplies, FileKept
  <2>2. caddyfile' = [caddyfile EXCEPT !.edge = TRUE, !.text = IF @ \in {"absent", "empty"} THEN "generated" ELSE @]
    BY <1>8 DEF EdgeApplies
  <2>3. /\ caddyfile' \in Texts /\ caddyfile'.text = "own" /\ caddyfile'.edge = TRUE
        /\ caddyfile'.routes = caddyfile.routes
    <3> HIDE DEF Routes
    <3> QED
      BY <1>0, <2>1, <2>2 DEF Texts
  <2>4. /\ edgeOwner' = [routes |-> TRUE, existed |-> TRUE] /\ caddyUp' = TRUE /\ served' = caddyfile.routes
        /\ mayServe' = mayServe \cup mayHold /\ UNCHANGED <<endpoint, applying, mayHold>>
    BY <1>8, <2>1 DEF EdgeApplies
  <2> QED
    BY <1>0, <2>1, <2>3, <2>4 DEF AccessInv, AccessTypes, FileKept, Merging
<1>9. ASSUME NEW stops \in BOOLEAN, EdgeRemoves(stops) PROVE AccessInv'
  <2>1. /\ \A a \in Appliers : applying[a].stage = "idle"
        /\ caddyfile.routes \in mayHold /\ caddyfile.text = "own" /\ edgeOwner.existed
    BY <1>0, <1>9, <1>u DEF EdgeRemoves, FileKept
  <2>2. caddyfile' = [caddyfile EXCEPT !.edge = FALSE]
    BY <1>9, <2>1 DEF EdgeRemoves
  <2>3. /\ caddyfile' \in Texts /\ caddyfile'.text = "own" /\ caddyfile'.edge = FALSE
        /\ caddyfile'.routes = caddyfile.routes
    <3> HIDE DEF Routes
    <3> QED
      BY <1>0, <2>1, <2>2 DEF Texts
  <2>4. /\ edgeOwner' = [routes |-> FALSE, existed |-> TRUE] /\ served' = caddyfile.routes
        /\ mayServe' = mayServe \cup mayHold /\ UNCHANGED <<endpoint, applying, mayHold>>
    BY <1>9 DEF EdgeRemoves
  <2>5. caddyUp' \in BOOLEAN
    BY <1>0, <1>9 DEF EdgeRemoves, AccessTypes
  <2> QED
    BY <1>0, <2>1, <2>3, <2>4, <2>5 DEF AccessInv, AccessTypes, FileKept, Merging
<1>10. ASSUME NEW e \in Endpoints, UserDeclares(e) PROVE AccessInv'
  <2>1. PICK d \in Declared \cup {Undeclared} : endpoint' = [endpoint EXCEPT ![e] = d]
    BY <1>10 DEF UserDeclares
  <2>2. endpoint' \in [Endpoints -> Declared \cup {Undeclared}]
    <3> HIDE DEF Declared, Undeclared
    <3> QED
      BY <1>0, <2>1 DEF AccessTypes
  <2>3. UNCHANGED <<caddyfile, caddyUp, served, edgeOwner, applying, mayHold, mayServe>>
    BY <1>10 DEF UserDeclares
  <2> QED
    BY <1>0, <2>2, <2>3 DEF AccessInv, AccessTypes, FileKept
<1>11. CASE UserTurnsCaddy
  <2>1. UNCHANGED <<endpoint, caddyfile, edgeOwner, applying, mayHold>> /\ caddyUp' = ~caddyUp
    BY <1>11 DEF UserTurnsCaddy
  <2>2. caddyUp' => served' \in mayServe'
    BY <1>11 DEF UserTurnsCaddy
  <2> QED
    BY <1>0, <2>1, <2>2 DEF AccessInv, AccessTypes, FileKept
<1>12. CASE UNCHANGED accessVars
  BY <1>12 DEF accessVars, AccessInv, AccessTypes, FileKept
<1> QED
  BY <1>1, <1>2, <1>3, <1>4, <1>5, <1>6, <1>7, <1>8, <1>9, <1>10, <1>11, <1>12 DEF AccessNext

(* However applications are refused, fail and crash, and Private Edge adds *)
(* and removes its block between them, the file keeps the routes of the    *)
(* last application, the user's text and Private Edge's block, and Caddy   *)
(* serves no others (applyAccessProfileCaddy): one at a time, over a file  *)
(* that the user has.                                                      *)
THEOREM RoutesAreKept ==
  AccessFaults \cap {"edge", "absent"} = {} /\ (\A a, b \in Appliers : a = b)
    => (AccessSpec => []AccessRoutesKept)
<1> SUFFICES ASSUME AccessFaults \cap {"edge", "absent"} = {}, \A a, b \in Appliers : a = b
             PROVE  AccessSpec => []AccessRoutesKept
  OBVIOUS
<1>1. AccessInit => AccessInv
  BY AccessTypesInit
<1>2. AccessInv /\ [AccessNext]_accessVars => AccessInv'
  BY AccessStep
<1>3. AccessInv => AccessRoutesKept
  BY DEF AccessInv, FileKept, AccessRoutesKept
<1> QED
  BY <1>1, <1>2, <1>3, PTL DEF AccessSpec

-----------------------------------------------------------------------------
(* ConfigFiles: one write at a time, and none of them cut short.           *)

(* The write in flight puts down what it wants over what the file says.    *)
IsPatch(w) ==
  CASE w.file = ".env" ->
         /\ w.lines \in [EnvKeys -> Seq(Values \cup {Garbled})]
         /\ Wanted(requested.env, w.wanted.set, w.wanted.unset) \in [EnvKeys -> Values \cup {Unset}]
         /\ \A k \in EnvKeys : ParseEnv(w.lines)[k] =
                                 ReadBack(Wanted(requested.env, w.wanted.set, w.wanted.unset)[k])
    [] w.file = "services" -> w.doc \in Service /\ w.doc = w.wanted
    [] OTHER -> /\ w.file \in DocFiles /\ docs[w.file] # Garbled /\ w.doc \in Service
                /\ w.doc = ApplyDocPatch(docs[w.file], w.wanted)

WritingInv == /\ \A v, w \in writing : v = w
              /\ \A w \in writing : IsPatch(w)

(* The files say what is asked for, but for values that do not survive.    *)
AskedInv ==
  /\ requested \in [env : [EnvKeys -> Values \cup {Unset}], docs : [DocFiles -> Service \cup {Garbled}]]
  /\ docs = requested.docs
  /\ \A k \in EnvKeys : ParseEnv(envLines)[k] = ReadBack(requested.env[k])

(* A variable of the process is exported, or hydrated and noted as such.   *)
HydratedInv ==
  overrides => \A k \in EnvKeys :
    IF exported[k] = Unset THEN processEnv[k] = hydrated[k]
    ELSE processEnv[k] = exported[k] /\ hydrated[k] = Unset

ConfigInv == ConfigTypeOK /\ WritingInv /\ AskedInv /\ HydratedInv

(* parseEnvMap reads a line's value, or none, of every key. *)
LEMMA ParsedType ==
  ASSUME NEW lines \in [EnvKeys -> Seq(Values \cup {Garbled})]
  PROVE  ParseEnv(lines) \in [EnvKeys -> Values \cup {Unset, Garbled}]
<1>1. ASSUME NEW k \in EnvKeys PROVE ParseEnv(lines)[k] \in Values \cup {Unset, Garbled}
  <2>1. lines[k] # <<>> => Len(lines[k]) \in DOMAIN lines[k]
    OBVIOUS
  <2>2. QED
    BY <2>1 DEF ParseEnv
<1>2. QED
  BY <1>1 DEF ParseEnv

(* What .env holds after a patch, by key. *)
LEMMA PatchedEnv ==
  ASSUME NEW lines \in [EnvKeys -> Seq(Values \cup {Garbled})],
         NEW set \in UNION {[K -> Values] : K \in SUBSET EnvKeys}, NEW unset \in SUBSET EnvKeys
  PROVE  /\ ApplyEnvPatch(lines, set, unset) \in [EnvKeys -> Seq(Values \cup {Garbled})]
         /\ \A k \in EnvKeys :
              ParseEnv(ApplyEnvPatch(lines, set, unset))[k] =
                IF k \in unset THEN Unset
                ELSE IF k \in DOMAIN set THEN ReadBack(set[k]) ELSE ParseEnv(lines)[k]
<1> DEFINE patched == ApplyEnvPatch(lines, set, unset)
<1> PICK K \in SUBSET EnvKeys : set \in [K -> Values]
  OBVIOUS
<1>1. ASSUME NEW k \in EnvKeys
      PROVE  /\ patched[k] \in Seq(Values \cup {Garbled})
             /\ ParseEnv(patched)[k] =
                  IF k \in unset THEN Unset
                  ELSE IF k \in DOMAIN set THEN ReadBack(set[k]) ELSE ParseEnv(lines)[k]
  <2>1. ParseEnv(patched)[k] = IF patched[k] = <<>> THEN Unset ELSE patched[k][Len(patched[k])]
    BY DEF ParseEnv
  <2>2. ParseEnv(lines)[k] = IF lines[k] = <<>> THEN Unset ELSE lines[k][Len(lines[k])]
    BY DEF ParseEnv
  <2>3. CASE k \in unset
    BY <2>1, <2>3 DEF ApplyEnvPatch
  <2>4. CASE k \notin unset /\ k \notin DOMAIN set
    BY <2>1, <2>2, <2>4 DEF ApplyEnvPatch
  <2>5. CASE k \notin unset /\ k \in DOMAIN set
    <3>1. ReadBack(set[k]) \in Values \cup {Garbled}
      BY <2>5 DEF ReadBack
    <3>2. CASE lines[k] = <<>>
      <4>1. patched[k] = <<ReadBack(set[k])>>
        BY <2>5, <3>2 DEF ApplyEnvPatch
      <4>2. QED
        BY <2>1, <2>5, <3>1, <4>1
    <3>3. CASE lines[k] # <<>>
      <4>1. patched[k] = [i \in 1..Len(lines[k]) |-> ReadBack(set[k])]
        BY <2>5, <3>3 DEF ApplyEnvPatch
      <4>2. Len(lines[k]) \in Nat /\ Len(lines[k]) # 0
        BY <3>3
      <4>3. patched[k] \in Seq(Values \cup {Garbled}) /\ Len(patched[k]) = Len(lines[k])
        BY <3>1, <4>1, <4>2
      <4>4. patched[k] # <<>> /\ patched[k][Len(patched[k])] = ReadBack(set[k])
        BY <4>1, <4>2, <4>3
      <4>5. QED
        BY <2>1, <2>5, <4>3, <4>4
    <3>4. QED
      BY <3>2, <3>3
  <2>6. QED
    BY <2>3, <2>4, <2>5
<1>2. patched = [k \in EnvKeys |-> patched[k]]
  BY DEF ApplyEnvPatch
<1>3. QED
  BY <1>1, <1>2

(* A patched service is a service. *)
LEMMA PatchedService ==
  ASSUME NEW file, NEW patch \in PatchesOf(file), NEW said \in Service
  PROVE  ApplyDocPatch(said, patch) \in Service
<1>1. CASE file = "compose"
  BY <1>1 DEF PatchesOf, ApplyDocPatch, Service, Given
<1>2. CASE file = "extensions"
  BY <1>2 DEF PatchesOf, ApplyDocPatch, Service, Given
<1>3. CASE file = "ecosystem"
  BY <1>3 DEF PatchesOf, ApplyDocPatch, Service, Given
<1>4. CASE file \notin {"compose", "extensions", "ecosystem"}
  BY <1>4 DEF PatchesOf
<1>5. QED
  BY <1>1, <1>2, <1>3, <1>4

LEMMA ConfigInvInit == ConfigInit => ConfigInv
<1> SUFFICES ASSUME ConfigInit PROVE ConfigInv
  OBVIOUS
<1> USE ConfigAssumption
<1>1. NoService \in Service
  BY DEF NoService, Service, Given
<1>2. PICK k \in EnvKeys, v \in (Values \ Escaped) \cup {Unset} : exported = [NoEnv EXCEPT ![k] = v]
  BY DEF ConfigInit
<1>3. exported \in [EnvKeys -> Values \cup {Unset, Garbled}] /\ NoEnv \in [EnvKeys -> Values \cup {Unset}]
  BY <1>2 DEF NoEnv
<1>4. envLines = NoLines /\ NoLines \in [EnvKeys -> Seq(Values \cup {Garbled})]
  BY DEF ConfigInit, NoLines
<1>5. ConfigTypeOK
  BY <1>1, <1>3, <1>4 DEF ConfigTypeOK, ConfigInit
<1>6. AskedInv
  <2>1. requested = [env |-> NoEnv, docs |-> docs] /\ docs \in [DocFiles -> Service]
    BY <1>1 DEF ConfigInit
  <2>2. \A x \in EnvKeys : ParseEnv(envLines)[x] = Unset
    BY <1>4 DEF ParseEnv, NoLines
  <2>3. \A x \in EnvKeys : ReadBack(requested.env[x]) = Unset
    BY <2>1 DEF NoEnv, ReadBack
  <2>4. QED
    BY <1>3, <2>1, <2>2, <2>3 DEF AskedInv
<1>7. WritingInv
  BY DEF WritingInv, ConfigInit
<1>8. HydratedInv
  BY DEF HydratedInv, ConfigInit, NoEnv
<1>9. QED
  BY <1>5, <1>6, <1>7, <1>8 DEF ConfigInv

LEMMA HydrateKeepsInv == ConfigInv /\ HydrateProcessEnv => ConfigInv'
<1> SUFFICES ASSUME ConfigInv, HydrateProcessEnv PROVE ConfigInv'
  OBVIOUS
<1> USE ConfigAssumption
<1> DEFINE env == ParseEnv(envLines)
<1>1. env \in [EnvKeys -> Values \cup {Unset, Garbled}]
  BY ParsedType DEF ConfigInv, ConfigTypeOK
<1>2. /\ processEnv' = [k \in EnvKeys |-> IF k \in ToHydrate(env) THEN env[k] ELSE processEnv[k]]
      /\ hydrated' = [k \in EnvKeys |-> IF k \in ToHydrate(env) THEN env[k] ELSE hydrated[k]]
      /\ UNCHANGED <<envLines, docs, exported, overrides, writing, requested>>
  BY DEF HydrateProcessEnv, configFileVars
<1> HIDE DEF env
<1>3. ConfigTypeOK'
  <2>1. processEnv \in [EnvKeys -> Values \cup {Unset, Garbled}] /\ hydrated \in [EnvKeys -> Values \cup {Unset, Garbled}]
    BY DEF ConfigInv, ConfigTypeOK
  <2>2. processEnv' \in [EnvKeys -> Values \cup {Unset, Garbled}]
    BY <1>1, <1>2, <2>1
  <2>3. hydrated' \in [EnvKeys -> Values \cup {Unset, Garbled}]
    BY <1>1, <1>2, <2>1
  <2>4. QED
    BY <1>2, <2>2, <2>3 DEF ConfigInv, ConfigTypeOK
<1>4. HydratedInv'
  <2> SUFFICES ASSUME overrides, NEW k \in EnvKeys
               PROVE IF exported[k] = Unset THEN processEnv'[k] = hydrated'[k]
                     ELSE processEnv'[k] = exported[k] /\ hydrated'[k] = Unset
    BY <1>2 DEF HydratedInv
  <2>1. IF exported[k] = Unset THEN processEnv[k] = hydrated[k]
        ELSE processEnv[k] = exported[k] /\ hydrated[k] = Unset
    BY DEF ConfigInv, HydratedInv
  <2>2. exported[k] # Unset => k \notin ToHydrate(env)
    BY <2>1 DEF ToHydrate
  <2>3. QED
    BY <1>2, <2>1, <2>2
<1>5. AskedInv'
  BY <1>2 DEF ConfigInv, AskedInv, ParseEnv
<1>6. WritingInv'
  BY <1>2 DEF ConfigInv, WritingInv, IsPatch, ParseEnv
<1>7. QED
  BY <1>3, <1>4, <1>5, <1>6 DEF ConfigInv

(* A write that begins alone, with content that is a patch of the file.    *)
LEMMA BeginsKeepsInv ==
  ASSUME NEW file, NEW lines, NEW doc, NEW wanted, ConfigInv, WriteFaults = {},
         WriteBegins(file, lines, doc, wanted),
         IsPatch([n |-> writes, file |-> file, lines |-> lines, doc |-> doc, wanted |-> wanted])
  PROVE  ConfigInv'
<1> PICK w : w = [n |-> writes, file |-> file, lines |-> lines, doc |-> doc, wanted |-> wanted]
  OBVIOUS
<1>1. writing' = {w} /\ UNCHANGED <<envLines, docs, processVars, requested>>
  BY DEF WriteBegins, configFileVars
<1>2. UNCHANGED <<processEnv, hydrated, exported, overrides>>
  BY <1>1 DEF processVars
<1>3. IsPatch(w)'
  BY <1>1 DEF IsPatch, ParseEnv
<1>4. WritingInv'
  BY <1>1, <1>3 DEF WritingInv
<1>5. QED
  BY <1>1, <1>2, <1>4 DEF ConfigInv, ConfigTypeOK, AskedInv, HydratedInv, ParseEnv

LEMMA EnvWriteKeepsInv == ConfigInv /\ WriteFaults = {} /\ WriteEnvFile => ConfigInv'
<1> SUFFICES ASSUME ConfigInv, WriteFaults = {}, WriteEnvFile PROVE ConfigInv'
  OBVIOUS
<1> USE ConfigAssumption
<1>1. PICK set \in UNION {[K -> Values] : K \in SUBSET EnvKeys}, unset \in SUBSET EnvKeys :
        WriteBegins(".env", ApplyEnvPatch(envLines, set, unset), NoService, [set |-> set, unset |-> unset])
  BY DEF WriteEnvFile
<1>2. PICK K \in SUBSET EnvKeys : set \in [K -> Values]
  OBVIOUS
<1> DEFINE patched == ApplyEnvPatch(envLines, set, unset)
           asked == Wanted(requested.env, set, unset)
<1>3. requested.env \in [EnvKeys -> Values \cup {Unset}]
  BY DEF ConfigInv, AskedInv
<1>4. asked \in [EnvKeys -> Values \cup {Unset}]
  BY <1>2, <1>3 DEF Wanted
<1>5. envLines \in [EnvKeys -> Seq(Values \cup {Garbled})]
  BY DEF ConfigInv, ConfigTypeOK
<1>6. /\ patched \in [EnvKeys -> Seq(Values \cup {Garbled})]
      /\ \A k \in EnvKeys :
           ParseEnv(patched)[k] = IF k \in unset THEN Unset
                                  ELSE IF k \in DOMAIN set THEN ReadBack(set[k]) ELSE ParseEnv(envLines)[k]
  BY <1>5, PatchedEnv
<1> HIDE DEF patched
<1>7. ASSUME NEW k \in EnvKeys PROVE ParseEnv(patched)[k] = ReadBack(asked[k])
  <2>1. ParseEnv(envLines)[k] = ReadBack(requested.env[k])
    BY DEF ConfigInv, AskedInv
  <2>2. ReadBack(Unset) = Unset
    BY DEF ReadBack
  <2>3. asked[k] = IF k \in unset THEN Unset ELSE IF k \in DOMAIN set THEN set[k] ELSE requested.env[k]
    BY DEF Wanted
  <2>4. QED
    BY <1>6, <2>1, <2>2, <2>3
<1> HIDE DEF asked
<1>8. IsPatch([n |-> writes, file |-> ".env", lines |-> patched, doc |-> NoService,
               wanted |-> [set |-> set, unset |-> unset]])
  BY <1>4, <1>6, <1>7 DEF IsPatch, asked
<1>9. QED
  BY <1>1, <1>8, BeginsKeepsInv DEF patched

LEMMA DocWriteKeepsInv == ConfigInv /\ WriteFaults = {} /\ WriteDoc => ConfigInv'
<1> SUFFICES ASSUME ConfigInv, WriteFaults = {}, WriteDoc PROVE ConfigInv'
  OBVIOUS
<1>1. PICK file \in DocFiles : \E patch \in PatchesOf(file) :
        /\ docs[file] # Garbled
        /\ WriteBegins(file, NoLines, ApplyDocPatch(docs[file], patch), patch)
  BY DEF WriteDoc
<1> PICK patch \in PatchesOf(file) :
        /\ docs[file] # Garbled
        /\ WriteBegins(file, NoLines, ApplyDocPatch(docs[file], patch), patch)
  BY <1>1
<1>2. docs[file] \in Service
  BY <1>1 DEF ConfigInv, ConfigTypeOK
<1>3. ApplyDocPatch(docs[file], patch) \in Service
  BY <1>2, PatchedService
<1>4. file \in DocFiles \ {".env", "services"}
  BY <1>1 DEF PatchesOf, DocFiles
<1>5. IsPatch([n |-> writes, file |-> file, lines |-> NoLines, doc |-> ApplyDocPatch(docs[file], patch), wanted |-> patch])
  BY <1>3, <1>4 DEF IsPatch
<1>6. QED
  BY <1>5, BeginsKeepsInv

LEMMA ServicesWriteKeepsInv == ConfigInv /\ WriteFaults = {} /\ WriteServices => ConfigInv'
<1> SUFFICES ASSUME ConfigInv, WriteFaults = {}, WriteServices PROVE ConfigInv'
  OBVIOUS
<1>1. PICK port \in Values \cup {Unset}, key \in EnvKeys \cup {Unset} :
        LET content == [NoService EXCEPT !.port = port, !.portEnv = key]
        IN WriteBegins("services", NoLines, content, content)
  BY DEF WriteServices
<1> DEFINE content == [NoService EXCEPT !.port = port, !.portEnv = key]
<1>2. content \in Service
  BY DEF NoService, Service, Given
<1> HIDE DEF content
<1>3. IsPatch([n |-> writes, file |-> "services", lines |-> NoLines, doc |-> content, wanted |-> content])
  BY <1>2 DEF IsPatch
<1>4. WriteBegins("services", NoLines, content, content)
  BY <1>1 DEF content
<1>5. QED
  BY <1>3, <1>4, BeginsKeepsInv

LEMMA EndKeepsInv ==
  ASSUME ConfigInv, NEW w \in writing, EndWrite(w)
  PROVE  ConfigInv'
<1>1. IsPatch(w) /\ writing' = {}
  BY DEF ConfigInv, WritingInv, EndWrite
<1>2. WritingInv'
  BY <1>1 DEF WritingInv
<1>3. UNCHANGED <<processEnv, hydrated, exported, overrides>>
  BY DEF EndWrite, processVars
<1>4. HydratedInv'
  BY <1>3 DEF ConfigInv, HydratedInv
<1>5. /\ requested.env \in [EnvKeys -> Values \cup {Unset}]
      /\ requested \in [env : [EnvKeys -> Values \cup {Unset}], docs : [DocFiles -> Service \cup {Garbled}]]
      /\ docs = requested.docs
  BY DEF ConfigInv, AskedInv
<1>6. CASE w.file = ".env"
  <2>1. /\ envLines' = w.lines /\ UNCHANGED docs
        /\ requested' = [requested EXCEPT !.env = Wanted(@, w.wanted.set, w.wanted.unset)]
    BY <1>6 DEF EndWrite
  <2>2. /\ w.lines \in [EnvKeys -> Seq(Values \cup {Garbled})]
        /\ Wanted(requested.env, w.wanted.set, w.wanted.unset) \in [EnvKeys -> Values \cup {Unset}]
        /\ \A k \in EnvKeys : ParseEnv(w.lines)[k] =
                                ReadBack(Wanted(requested.env, w.wanted.set, w.wanted.unset)[k])
    BY <1>1, <1>6 DEF IsPatch
  <2>3. requested'.env = Wanted(requested.env, w.wanted.set, w.wanted.unset) /\ requested'.docs = requested.docs
    BY <1>5, <2>1
  <2>4. requested' \in [env : [EnvKeys -> Values \cup {Unset}], docs : [DocFiles -> Service \cup {Garbled}]]
    BY <1>5, <2>1, <2>2
  <2>5. \A k \in EnvKeys : ParseEnv(envLines')[k] = ReadBack(requested'.env[k])
    BY <2>1, <2>2, <2>3
  <2>6. AskedInv'
    BY <1>5, <2>1, <2>3, <2>4, <2>5 DEF AskedInv, ParseEnv
  <2>7. ConfigTypeOK'
    BY <1>3, <2>1, <2>2 DEF ConfigInv, ConfigTypeOK
  <2>8. QED
    BY <1>2, <1>4, <2>6, <2>7 DEF ConfigInv
<1>7. CASE w.file # ".env"
  <2> DEFINE said == IF w.file = "services" THEN w.wanted
                     ELSE IF requested.docs[w.file] = Garbled THEN requested.docs[w.file]
                     ELSE ApplyDocPatch(requested.docs[w.file], w.wanted)
  <2>1. docs' = [docs EXCEPT ![w.file] = w.doc] /\ UNCHANGED envLines
    BY <1>7 DEF EndWrite
  <2>2. requested' = [requested EXCEPT !.docs[w.file] = said]
    BY <1>7 DEF EndWrite
  <2>3. said = w.doc /\ w.doc \in Service /\ w.file \in DocFiles
    BY <1>1, <1>5, <1>7 DEF IsPatch, DocFiles
  <2> HIDE DEF said
  <2>4. requested'.env = requested.env /\ requested'.docs = docs'
    BY <1>5, <2>1, <2>2, <2>3
  <2>5. docs' \in [DocFiles -> Service \cup {Garbled}]
    BY <1>5, <2>1, <2>3
  <2>6. requested' \in [env : [EnvKeys -> Values \cup {Unset}], docs : [DocFiles -> Service \cup {Garbled}]]
    BY <1>5, <2>2, <2>3
  <2>7. AskedInv'
    BY <2>1, <2>4, <2>6 DEF ConfigInv, AskedInv, ParseEnv
  <2>8. ConfigTypeOK'
    BY <1>3, <2>1, <2>5 DEF ConfigInv, ConfigTypeOK
  <2>9. QED
    BY <1>2, <1>4, <2>7, <2>8 DEF ConfigInv
<1>8. QED
  BY <1>6, <1>7

LEMMA UserKeepsInv == ConfigInv /\ WriteFaults = {} /\ UserEditsFiles => ConfigInv'
<1> SUFFICES ASSUME ConfigInv, WriteFaults = {}, UserEditsFiles PROVE ConfigInv'
  OBVIOUS
<1> USE ConfigAssumption
<1>1. writing' = {} /\ UNCHANGED <<processEnv, hydrated, exported, overrides>>
  BY DEF UserEditsFiles, processVars
<1>2. WritingInv' /\ HydratedInv'
  BY <1>1 DEF WritingInv, HydratedInv, ConfigInv
<1>3. /\ requested \in [env : [EnvKeys -> Values \cup {Unset}], docs : [DocFiles -> Service \cup {Garbled}]]
      /\ docs = requested.docs
      /\ \A k \in EnvKeys : ParseEnv(envLines)[k] = ReadBack(requested.env[k])
      /\ envLines \in [EnvKeys -> Seq(Values \cup {Garbled})]
  BY DEF ConfigInv, AskedInv, ConfigTypeOK
<1>4. ASSUME NEW k \in EnvKeys, NEW lines \in UNION {[1..n -> Values \ Escaped] : n \in 0..2},
             envLines' = [envLines EXCEPT ![k] = lines], UNCHANGED docs,
             requested' = [requested EXCEPT !.env[k] = IF lines = <<>> THEN Unset ELSE lines[Len(lines)]]
      PROVE  ConfigInv'
  <2> DEFINE value == IF lines = <<>> THEN Unset ELSE lines[Len(lines)]
  <2> PICK n \in 0..2 : lines \in [1..n -> Values \ Escaped]
    OBVIOUS
  <2>1. lines \in Seq(Values \ Escaped)
    OBVIOUS
  <2>2. value \in (Values \ Escaped) \cup {Unset}
    <3>1. lines # <<>> => Len(lines) \in DOMAIN lines
      BY <2>1
    <3>2. QED
      BY <2>1, <3>1
  <2>3. requested'.env = [requested.env EXCEPT ![k] = value] /\ requested'.docs = requested.docs
    BY <1>3, <1>4
  <2>4. requested' \in [env : [EnvKeys -> Values \cup {Unset}], docs : [DocFiles -> Service \cup {Garbled}]]
    BY <1>3, <1>4, <2>2
  <2>5. ASSUME NEW x \in EnvKeys PROVE ParseEnv(envLines')[x] = ReadBack(requested'.env[x])
    <3>1. CASE x = k
      <4>1. ParseEnv(envLines')[x] = value
        BY <1>3, <1>4, <3>1 DEF ParseEnv
      <4>2. requested'.env[x] = value
        BY <1>3, <2>3, <3>1
      <4>3. ReadBack(value) = value
        BY <2>2 DEF ReadBack
      <4>4. QED
        BY <4>1, <4>2, <4>3
    <3>2. CASE x # k
      <4>1. ParseEnv(envLines')[x] = ParseEnv(envLines)[x]
        BY <1>3, <1>4, <3>2 DEF ParseEnv
      <4>2. QED
        BY <1>3, <2>3, <3>2, <4>1
    <3>3. QED
      BY <3>1, <3>2
  <2>6. AskedInv'
    BY <1>3, <1>4, <2>3, <2>4, <2>5 DEF AskedInv, ParseEnv
  <2>7. envLines' \in [EnvKeys -> Seq(Values \cup {Garbled})]
    <3>1. lines \in Seq(Values \cup {Garbled})
      BY <2>1
    <3>2. QED
      BY <1>3, <1>4, <3>1
  <2>8. ConfigTypeOK'
    BY <1>1, <1>4, <2>7 DEF ConfigInv, ConfigTypeOK
  <2>9. QED
    BY <1>2, <2>6, <2>8 DEF ConfigInv
<1>5. ASSUME NEW s \in {Garbled, NoService},
             docs' = [docs EXCEPT !["ecosystem"] = s], UNCHANGED envLines,
             requested' = [requested EXCEPT !.docs["ecosystem"] = s]
      PROVE  ConfigInv'
  <2>1. s \in Service \cup {Garbled}
    BY DEF NoService, Service, Given
  <2>2. docs' \in [DocFiles -> Service \cup {Garbled}]
    BY <1>3, <1>5, <2>1
  <2>3. requested'.env = requested.env /\ requested'.docs = docs'
    BY <1>3, <1>5
  <2>4. requested' \in [env : [EnvKeys -> Values \cup {Unset}], docs : [DocFiles -> Service \cup {Garbled}]]
    BY <1>3, <1>5, <2>1
  <2>5. AskedInv'
    BY <1>3, <1>5, <2>3, <2>4 DEF AskedInv, ParseEnv
  <2>6. ConfigTypeOK'
    BY <1>1, <1>5, <2>2 DEF ConfigInv, ConfigTypeOK
  <2>7. QED
    BY <1>2, <2>5, <2>6 DEF ConfigInv
<1>6. QED
  BY <1>4, <1>5 DEF UserEditsFiles

LEMMA RestartKeepsInv == ConfigInv /\ WriteFaults = {} /\ RestartConfig => ConfigInv'
<1> SUFFICES ASSUME ConfigInv, WriteFaults = {}, RestartConfig PROVE ConfigInv'
  OBVIOUS
<1>1. /\ processEnv' = exported /\ hydrated' = NoEnv /\ writing' = {}
      /\ UNCHANGED <<envLines, docs, exported, overrides, requested>>
  BY DEF RestartConfig, configFileVars
<1>2. NoEnv \in [EnvKeys -> Values \cup {Unset, Garbled}]
  BY DEF NoEnv
<1>3. ConfigTypeOK'
  BY <1>1, <1>2 DEF ConfigInv, ConfigTypeOK
<1>4. HydratedInv'
  BY <1>1 DEF HydratedInv, NoEnv
<1>5. WritingInv' /\ AskedInv'
  BY <1>1 DEF ConfigInv, WritingInv, AskedInv, ParseEnv
<1>6. QED
  BY <1>3, <1>4, <1>5 DEF ConfigInv

LEMMA ConfigInvStep == ConfigInv /\ WriteFaults = {} /\ [ConfigNext]_configVars => ConfigInv'
<1> SUFFICES ASSUME ConfigInv, WriteFaults = {}, [ConfigNext]_configVars PROVE ConfigInv'
  OBVIOUS
<1>1. CASE HydrateProcessEnv
  BY <1>1, HydrateKeepsInv
<1>2. CASE WriteEnvFile
  BY <1>2, EnvWriteKeepsInv
<1>3. CASE WriteDoc
  BY <1>3, DocWriteKeepsInv
<1>4. CASE WriteServices
  BY <1>4, ServicesWriteKeepsInv
<1>5. CASE UserEditsFiles
  BY <1>5, UserKeepsInv
<1>6. CASE RestartConfig
  BY <1>6, RestartKeepsInv
<1>7. CASE \E w \in writing : EndWrite(w)
  BY <1>7, EndKeepsInv
<1>8. CASE UNCHANGED configVars
  BY <1>8 DEF configVars, configFileVars, processVars, ConfigInv, ConfigTypeOK, WritingInv, IsPatch,
              AskedInv, HydratedInv, ParseEnv
<1>9. QED
  BY <1>1, <1>2, <1>3, <1>4, <1>5, <1>6, <1>7, <1>8 DEF ConfigNext

(* The environment that is loaded is the one asked for: what the process   *)
(* has hydrated is not taken for an override, whatever .env says by now.   *)
LEMMA EnvIsAsked == ConfigInv => MergeRuntimeEnv(ParseEnv(envLines)) = AskedEnv
<1> SUFFICES ASSUME ConfigInv, NEW k \in EnvKeys
             PROVE  MergeRuntimeEnv(ParseEnv(envLines))[k] = AskedEnv[k]
  BY DEF MergeRuntimeEnv, AskedEnv
<1>1. ParseEnv(envLines)[k] = ReadBack(requested.env[k])
  BY DEF ConfigInv, AskedInv
<1>2. overrides => IF exported[k] = Unset THEN processEnv[k] = hydrated[k]
                   ELSE processEnv[k] = exported[k] /\ hydrated[k] = Unset
  BY DEF ConfigInv, HydratedInv
<1>3. QED
  BY <1>1, <1>2 DEF MergeRuntimeEnv, AskedEnv

LEMMA ConfigInvImplies == ConfigInv => WrittenIsLoaded
<1> SUFFICES ASSUME ConfigInv,
                    ~(requested.docs["ecosystem"] # Garbled /\ requested.docs["ecosystem"].env \in EnvKeys
                      /\ AskedEnv[requested.docs["ecosystem"].env] = Unset)
             PROVE  LoadProjectModel = ModelOf(AskedEnv, exported, requested.docs)
  BY DEF WrittenIsLoaded
<1>1. MergeRuntimeEnv(ParseEnv(envLines)) = AskedEnv /\ docs = requested.docs
  BY EnvIsAsked DEF ConfigInv, AskedInv
<1>2. docs["ecosystem"] # Garbled =>
        RunEcosystem(docs["ecosystem"].env, AskedEnv, processEnv)
          = RunEcosystem(docs["ecosystem"].env, AskedEnv, exported)
  BY <1>1 DEF RunEcosystem, OrElse
<1>3. docs["ecosystem"] # Garbled =>
        BuildEcosystem(docs["ecosystem"], AskedEnv, processEnv)
          = BuildEcosystem(docs["ecosystem"], AskedEnv, exported)
  BY <1>2 DEF BuildEcosystem
<1>4. QED
  BY <1>1, <1>3 DEF LoadProjectModel, ModelOf

(* The model that is loaded is that of what was asked for last, for any    *)
(* variables, values and number of writes, edits and restarts, if writes   *)
(* do not overlap and are not cut short halfway.                           *)
THEOREM LoadsWhatWasWritten == WriteFaults = {} /\ ConfigSpec => []WrittenIsLoaded
<1>1. WriteFaults = {} => (ConfigSpec => []ConfigInv)
  <2> SUFFICES ASSUME WriteFaults = {} PROVE ConfigSpec => []ConfigInv
    OBVIOUS
  <2>1. ConfigInv /\ [ConfigNext]_configVars => ConfigInv'
    BY ConfigInvStep
  <2>2. QED
    BY ConfigInvInit, <2>1, PTL DEF ConfigSpec
<1>2. ConfigInv => WrittenIsLoaded
  BY ConfigInvImplies
<1>3. QED
  BY <1>1, <1>2, PTL
=============================================================================
