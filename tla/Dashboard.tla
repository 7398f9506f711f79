----------------------------- MODULE Dashboard -----------------------------
(***************************************************************************)
(* The life of a dashboard process: runServe (src/src/cli.ts) with the     *)
(* watcher that reloads Private Edge when a configuration file changes     *)
(* (src/src/app-context.ts) and the mDNS responders of local discovery.  A *)
(* signal arrives between any two awaits.  The descriptor that the process *)
(* records is the subject of RuntimeDescriptor; nothing else of this state *)
(* is shared between dashboards.                                           *)
(***************************************************************************)
EXTENDS Naturals, FiniteSets

CONSTANTS
  MaxChanges,  \* bound: changes of the watched files
  Services     \* services with an mDNS endpoint

ASSUME DashboardAssumption == MaxChanges \in Nat

VARIABLES
  serve,       \* how far runServe and its shutdown have come
  enabled,     \* automaticExtensionReloadEnabled: the watcher is open
  version,     \* the configuration files, as a count of their changes
  unseen,      \* a change the watcher has yet to report
  pending,     \* automaticExtensionReloadPending
  timer,       \* the 400 ms debounce timer is set
  flight,      \* automaticExtensionReloadInFlight: "none", "check", "reload", "leaving"
  reading,     \* the version the reload in flight has read
  reloaded,    \* the last version a finished reload had read
  planned,     \* services startLocalDiscovery has still to announce
  responders   \* localDiscoveries

reloadVars == <<enabled, pending, timer, flight, reading, reloaded>>
fileVars == <<version, unseen>>
discoveryVars == <<planned, responders>>
dashVars == <<serve, fileVars, reloadVars, discoveryVars>>

ServeSteps == {"off", "listen", "record", "serving", "closing", "closed"}

NoReload ==
  /\ enabled' = FALSE /\ pending' = FALSE /\ timer' = FALSE /\ flight' = "none"

DashInit ==
  /\ serve = "off"
  /\ enabled = FALSE /\ pending = FALSE /\ timer = FALSE /\ flight = "none"
  /\ version = 0 /\ unseen = FALSE /\ reading = 0 /\ reloaded = 0
  /\ planned = {} /\ responders = {}

-----------------------------------------------------------------------------
Launch ==
  /\ serve = "off"
  /\ serve' = "listen"
  /\ UNCHANGED <<fileVars, reloadVars, discoveryVars>>

(* server.listen: the port may be taken, and the command ends. *)
Listen ==
  /\ serve = "listen"
  /\ serve' \in {"record", "off"}
  /\ UNCHANGED <<fileVars, reloadVars, discoveryVars>>

(* recordRuntimeBinding by a rename; the signal handlers are installed and *)
(* the watcher opened without another await, and startLocalDiscovery       *)
(* begins with its first plan.  If it fails the server is closed and the   *)
(* command ends.                                                           *)
RecordRuntimeBinding ==
  /\ serve = "record"
  /\ \/ /\ serve' = "serving"
        /\ enabled' = TRUE /\ unseen' = FALSE
        /\ planned' = Services
     \/ /\ serve' = "off"
        /\ UNCHANGED <<enabled, unseen, planned>>
  /\ UNCHANGED <<version, pending, timer, flight, reading, reloaded, responders>>

(* One service of startLocalDiscovery: its responder is up and kept, or it *)
(* has no ready mDNS profile or fails to start.  Nothing tells the loop    *)
(* that the server is closing.                                             *)
Announce(s) ==
  /\ s \in planned
  /\ planned' = planned \ {s}
  /\ responders' \in {responders, responders \cup {s}}
  /\ UNCHANGED <<serve, fileVars, reloadVars>>

-----------------------------------------------------------------------------
(* External: a watched file is written. *)
FileChanges ==
  /\ version < MaxChanges
  /\ version' = version + 1
  /\ unseen' = enabled
  /\ UNCHANGED <<serve, reloadVars, discoveryVars>>

(* The callback of fs.watch restarts the debounce timer. *)
WatchEvent ==
  /\ enabled /\ unseen
  /\ unseen' = FALSE
  /\ pending' = TRUE /\ timer' = TRUE
  /\ UNCHANGED <<serve, version, enabled, flight, reading, reloaded, discoveryVars>>

(* flushAutomaticExtensionReload, from the timer: a flush in flight will   *)
(* see what is pending.                                                    *)
TimerFires ==
  /\ timer
  /\ timer' = FALSE
  /\ flight' = IF enabled /\ flight = "none" THEN "check" ELSE flight
  /\ UNCHANGED <<serve, fileVars, enabled, pending, reading, reloaded, discoveryVars>>

(* while (enabled && pending): the flag is taken before the files are read. *)
CheckPending ==
  /\ flight = "check"
  /\ \/ /\ enabled /\ pending
        /\ flight' = "reload"
        /\ reading' = version
        /\ pending' = FALSE
     \/ /\ ~(enabled /\ pending)
        /\ flight' = "leaving"
        /\ UNCHANGED <<pending, reading>>
  /\ UNCHANGED <<serve, fileVars, enabled, timer, reloaded, discoveryVars>>

(* A mutant: the flag is cleared when the reload is done, not before. *)
ReloadEndsAndClears ==
  /\ flight = "reload"
  /\ flight' = "check"
  /\ reloaded' = reading
  /\ pending' = FALSE
  /\ UNCHANGED <<serve, fileVars, enabled, timer, reading, discoveryVars>>

(* reloadChangedPrivateEdge returns: done, or failed and logged. *)
ReloadEnds ==
  /\ flight = "reload"
  /\ flight' = "check"
  /\ reloaded' = reading
  /\ UNCHANGED <<serve, fileVars, enabled, pending, timer, reading, discoveryVars>>

(* finally: another flush when something came in after the last look. *)
FlushEnds ==
  /\ flight = "leaving"
  /\ flight' = IF enabled /\ pending THEN "check" ELSE "none"
  /\ UNCHANGED <<serve, fileVars, enabled, pending, timer, reading, reloaded, discoveryVars>>

-----------------------------------------------------------------------------
(* stopAutomaticExtensionReload, and stopLocalDiscovery takes the          *)
(* responders that are there.                                              *)
StopWatching ==
  /\ enabled' = FALSE /\ pending' = FALSE /\ timer' = FALSE
  /\ UNCHANGED <<flight, reading, reloaded>>

(* fs.watch fails while the dashboard runs. *)
WatcherFails ==
  /\ serve = "serving" /\ enabled
  /\ StopWatching
  /\ UNCHANGED <<serve, fileVars, discoveryVars>>

(* SIGINT or SIGTERM: server.close() runs the onClose hook. *)
Shutdown ==
  /\ serve = "serving"
  /\ serve' = "closing"
  /\ StopWatching
  /\ responders' = {}
  /\ UNCHANGED <<fileVars, planned>>

(* The descriptor is cleared. *)
ClearRuntimeBinding ==
  /\ serve = "closing"
  /\ serve' = "closed"
  /\ UNCHANGED <<fileVars, reloadVars, discoveryVars>>

(* Node ends when nothing is left to do: no reload in flight, no service   *)
(* to announce and no responder's socket open.                             *)
ProcessExits ==
  /\ serve = "closed" /\ flight = "none" /\ planned = {} /\ responders = {}
  /\ serve' = "off"
  /\ UNCHANGED <<fileVars, reloadVars, discoveryVars>>

ProcessCrashes ==
  /\ serve # "off"
  /\ serve' = "off"
  /\ NoReload
  /\ planned' = {} /\ responders' = {}
  /\ UNCHANGED <<fileVars, reading, reloaded>>

DashStep ==
  \/ Listen \/ RecordRuntimeBinding
  \/ \E s \in Services : Announce(s)
  \/ WatchEvent \/ TimerFires \/ CheckPending \/ ReloadEnds \/ FlushEnds
  \/ ClearRuntimeBinding \/ ProcessExits

DashNext ==
  \/ Launch
  \/ DashStep
  \/ FileChanges \/ WatcherFails \/ Shutdown \/ ProcessCrashes

(* The event loop runs what is pending, timers fire and fs.watch reports.  *)
DashFairness ==
  /\ WF_dashVars(DashStep) /\ WF_dashVars(WatchEvent) /\ WF_dashVars(TimerFires)
  /\ WF_dashVars(CheckPending) /\ WF_dashVars(ReloadEnds) /\ WF_dashVars(FlushEnds)

DashSpec == DashInit /\ [][DashNext]_dashVars /\ DashFairness

-----------------------------------------------------------------------------
(* A change of the configuration is never lost, whenever it comes: before  *)
(* the debounce ends, during a reload, or as one ends.  Unless the watcher *)
(* is stopped, a reload that read the files after it runs to its end.      *)
ChangeIsReloaded ==
  \A v \in 1..MaxChanges :
    (enabled /\ unseen /\ version = v) ~> (reloaded >= v \/ ~enabled)
=============================================================================
