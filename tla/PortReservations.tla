-------------------------- MODULE PortReservations --------------------------
(***************************************************************************)
(* Advisory port reservations: PortAllocator (src/src/ports/allocator.ts)  *)
(* holds a loopback server per reserved port, AppContext.getAvailablePort, *)
(* reservePort and releasePortReservation (src/src/app-context.ts) keep a  *)
(* record of each in the workspace state, and initialize reclaims the      *)
(* reserved ones when a process of LocalLink starts.  A port is found free *)
(* and bound in two steps with awaits between them.  The dashboard is the  *)
(* process that serves requests; every command and the MCP server          *)
(* initialize over the same records and ports (cli.ts:252).                *)
(*                                                                         *)
(* An update of the records is one step here, memory and file: what        *)
(* happens between the two is the subject of WorkspaceState.               *)
(***************************************************************************)
EXTENDS Naturals, FiniteSets

CONSTANTS
  Ports,     \* port numbers, scanned upwards
  Asks,      \* requests for a reservation, with the service each is for
  MaxStarts, \* bound: how often the dashboard starts
  MaxOthers  \* bound: how often another program binds a port or another process starts

ASSUME PortAssumption ==
  Ports \subseteq Nat \ {0} /\ Ports # {} /\ MaxStarts \in Nat /\ MaxOthers \in Nat

VARIABLES
  held,     \* PortAllocator.reservations: the ports with a server of the dashboard
  taken,    \* ports bound by other programs and by other processes of LocalLink
  records,  \* portReservations in the dashboard's memory: id, port and status
  saved,    \* portReservations in the state file
  clock,    \* Date.now(), as a count of the milliseconds in which a record was made
  asked,    \* where each request is
  chosen,   \* the port it found or was given
  starts, others,
  reclaim   \* the records that initialize has still to reclaim

portVars == <<held, taken, records, saved, clock, asked, chosen, starts, others, reclaim>>

NoRecord == [id |-> 0, port |-> 0, status |-> "none"]

PortInit ==
  /\ held = {} /\ taken = {}
  /\ records = [a \in Asks |-> NoRecord] /\ saved = records /\ clock = 1
  /\ asked = [a \in Asks |-> "idle"]
  /\ chosen = [a \in Asks |-> 0]
  /\ starts = 1 /\ others = 0
  /\ reclaim = {}

-----------------------------------------------------------------------------
Ready == reclaim = {}
Available(p) == p \notin held \cup taken
Reserved(list) == {a \in Asks : list[a].status = "reserved"}

(* What is updated is every record of an id. *)
Mark(list, id, status) ==
  [a \in Asks |-> IF list[a].id = id THEN [list[a] EXCEPT !.status = status] ELSE list[a]]

(* findNextAvailablePort: the first port both bind attempts succeed on. *)
FindPort(a) ==
  /\ Ready /\ asked[a] = "idle"
  /\ \E p \in Ports : /\ Available(p)
                      /\ \A q \in Ports : q < p => ~Available(q)
                      /\ chosen' = [chosen EXCEPT ![a] = p]
  /\ asked' = [asked EXCEPT ![a] = "bind"]
  /\ UNCHANGED <<held, taken, records, saved, clock, starts, others, reclaim>>

(* POST /api/ports/reservations names the port itself. *)
NamePort(a) ==
  /\ Ready /\ asked[a] = "idle"
  /\ \E p \in Ports : chosen' = [chosen EXCEPT ![a] = p]
  /\ asked' = [asked EXCEPT ![a] = "bind"]
  /\ UNCHANGED <<held, taken, records, saved, clock, starts, others, reclaim>>

(* A mutant: the record is written whether or not the port was bound. *)
BindPortBlind(a) ==
  /\ asked[a] = "bind"
  /\ held' = held
  /\ asked' = [asked EXCEPT ![a] = "record"]
  /\ UNCHANGED <<taken, records, saved, clock, chosen, starts, others, reclaim>>

(* reservePort: a port that is reserved already is left as it is, another  *)
(* program's is an error, and so is one that is being bound at this moment *)
(* for another request.                                                    *)
BindPort(a) ==
  /\ asked[a] = "bind"
  /\ \/ /\ chosen[a] \notin taken
        /\ held' = held \cup {chosen[a]}
        /\ asked' = [asked EXCEPT ![a] = "record"]
     \/ /\ chosen[a] \in taken \/ \E b \in Asks \ {a} : asked[b] = "record" /\ chosen[b] = chosen[a]
        /\ asked' = [asked EXCEPT ![a] = "failed"]
        /\ UNCHANGED held
  /\ UNCHANGED <<taken, records, saved, clock, chosen, starts, others, reclaim>>

(* addPortReservation, under the id port-${Date.now()}: two records of one *)
(* millisecond share it.                                                   *)
RecordPort(a) ==
  /\ asked[a] = "record"
  /\ records' = [records EXCEPT ![a] = [id |-> clock, port |-> chosen[a], status |-> "reserved"]]
  /\ saved' = records'
  /\ asked' = [asked EXCEPT ![a] = "done"]
  /\ UNCHANGED <<held, taken, clock, chosen, starts, others, reclaim>>

MillisecondPasses ==
  /\ \E a \in Asks : records[a].id = clock
  /\ clock' = clock + 1
  /\ UNCHANGED <<held, taken, records, saved, asked, chosen, starts, others, reclaim>>

(* A mutant: the server stays when its record is released. *)
ReleasePortRecordOnly(a) ==
  /\ Ready /\ records[a].status # "none"
  /\ records' = Mark(records, records[a].id, "released") /\ saved' = records'
  /\ UNCHANGED <<held, taken, clock, asked, chosen, starts, others, reclaim>>

(* releasePortReservation closes the server of the first record of the id  *)
(* (which of them comes first is left open) and marks every one of them.   *)
ReleasePort(a) ==
  /\ Ready /\ records[a].status # "none"
  /\ \E b \in Asks : records[b].id = records[a].id /\ held' = held \ {records[b].port}
  /\ records' = Mark(records, records[a].id, "released") /\ saved' = records'
  /\ UNCHANGED <<taken, clock, asked, chosen, starts, others, reclaim>>

(* A request on something else writes the whole memory, and a planner      *)
(* loads the file again.                                                   *)
OtherUpdate ==
  /\ Ready
  /\ saved' = records
  /\ UNCHANGED <<held, taken, records, clock, asked, chosen, starts, others, reclaim>>

LoadRecords ==
  /\ Ready
  /\ records' = saved
  /\ UNCHANGED <<held, taken, saved, clock, asked, chosen, starts, others, reclaim>>

(* The dashboard ends and starts again: its servers are closed, and        *)
(* requests in flight are gone.                                            *)
RestartPorts ==
  /\ starts < MaxStarts
  /\ starts' = starts + 1
  /\ held' = {}
  /\ asked' = [a \in Asks |-> IF asked[a] \in {"bind", "record"} THEN "failed" ELSE asked[a]]
  /\ records' = saved
  /\ reclaim' = Reserved(saved)
  /\ UNCHANGED <<taken, saved, clock, chosen, others>>

(* initialize binds each reserved port again or marks its id. *)
ReclaimPort(a) ==
  /\ a \in reclaim
  /\ reclaim' = reclaim \ {a}
  /\ \/ /\ records[a].port \notin taken
        /\ held' = held \cup {records[a].port}
        /\ UNCHANGED <<records, saved>>
     \/ /\ records[a].port \in taken
        /\ records' = Mark(records, records[a].id, "conflict") /\ saved' = records'
        /\ UNCHANGED held
  /\ UNCHANGED <<taken, clock, asked, chosen, starts, others>>

(* A command or the MCP server initializes: it binds the reserved ports    *)
(* that are free, and marks in the file those it cannot bind, which the    *)
(* running dashboard holds.                                                *)
OtherProcessStarts ==
  /\ others < MaxOthers /\ others' = others + 1
  /\ LET busy == {a \in Reserved(saved) : ~Available(saved[a].port)} IN
     /\ taken' = taken \cup {saved[a].port : a \in Reserved(saved) \ busy}
     /\ saved' = [a \in Asks |-> IF \E b \in busy : saved[b].id = saved[a].id
                                 THEN [saved[a] EXCEPT !.status = "conflict"] ELSE saved[a]]
  /\ UNCHANGED <<held, records, clock, asked, chosen, starts, reclaim>>

(* External: other programs bind and close ports, other processes end. *)
OtherProgram ==
  /\ \/ others < MaxOthers /\ others' = others + 1
        /\ \E p \in Ports : Available(p) /\ taken' = taken \cup {p}
     \/ \E p \in taken : taken' = taken \ {p} /\ UNCHANGED others
  /\ UNCHANGED <<held, records, saved, clock, asked, chosen, starts, reclaim>>

PortNext ==
  \/ \E a \in Asks : \/ FindPort(a) \/ NamePort(a) \/ BindPort(a) \/ RecordPort(a)
                     \/ ReleasePort(a) \/ ReclaimPort(a)
  \/ MillisecondPasses \/ OtherUpdate \/ LoadRecords
  \/ RestartPorts \/ OtherProcessStarts \/ OtherProgram

PortSpec == PortInit /\ [][PortNext]_portVars

-----------------------------------------------------------------------------
(* No server outlives its reservation: every port the dashboard keeps      *)
(* bound is about to be recorded, or has a record that was not released,   *)
(* though another process may have marked it in conflict.  It takes an id  *)
(* shared by two records for a port to stay bound past its release.        *)
HeldIsRecorded ==
  \A p \in held :
    \/ \E a \in Asks : asked[a] = "record" /\ chosen[a] = p
    \/ \E a \in Asks : /\ records[a].port = p
                       /\ \/ records[a].status \in {"reserved", "conflict"}
                          \/ \E b \in Asks \ {a} : records[b].id = records[a].id

(* After a start, a reservation whose port no other record shares is bound *)
(* or marked as being in conflict: no other program can have it unnoticed. *)
ReservedIsHeld ==
  \A a \in Reserved(records) \ reclaim :
    \/ records[a].port \in held
    \/ \E b \in Asks \ {a} : records[b].port = records[a].port
=============================================================================
