------------------------------ MODULE LiveLogs ------------------------------
(***************************************************************************)
(* The log stream of the dashboard: LogBroker (src/src/logs/broker.ts)     *)
(* keeps the newest entries, the handler of /api/logs/stream               *)
(* (src/src/http/server.ts) sends a client what is kept and then what      *)
(* comes, and AppContext.attachLiveLogs and detachLiveLogs                 *)
(* (src/src/app-context.ts) run the docker and pm2 log tails while there   *)
(* are subscribers.  attachLiveLogs awaits the project model and the PM2   *)
(* workspace lock; streams open and close meanwhile.                       *)
(***************************************************************************)
EXTENDS Naturals, Sequences, FiniteSets

CONSTANTS
  Streams,    \* clients of /api/logs/stream
  MaxLines,   \* bound: log entries appended
  Kept,       \* MAX_LOG_ENTRIES
  Listed      \* the limit of list()

ASSUME LogAssumption == MaxLines \in Nat /\ Kept \in Nat \ {0} /\ Listed \in 1..Kept

VARIABLES
  lines,        \* how many entries were appended: an entry is its number
  entries,      \* those kept, newest first
  listeners,    \* the streams that are subscribed
  sent,         \* what each stream was sent, in order
  at,           \* where its handler is
  gone,         \* clients that have closed their connection
  subscribers,  \* liveLogSubscribers
  docker,       \* dockerTail is set
  pm2,          \* the streams whose attach set pm2Tail; pm2Tail is the last
  tails,        \* tail processes that run: "docker" or the attach that started it
  ended         \* the docker tail that dockerTail is set to has ended by itself

logVars == <<lines, entries, listeners, sent, at, gone, subscribers, docker, pm2, tails, ended>>

NoTail == "none"

LogInit ==
  /\ lines = 0 /\ entries = <<>>
  /\ listeners = {}
  /\ sent = [s \in Streams |-> <<>>]
  /\ at = [s \in Streams |-> "idle"]
  /\ gone = {}
  /\ subscribers = 0
  /\ docker = FALSE
  /\ pm2 = NoTail
  /\ tails = {} /\ ended = FALSE

-----------------------------------------------------------------------------
StepTo(s, step) == at' = [at EXCEPT ![s] = step]

Shorten(list, limit) == SubSeq(list, 1, IF Len(list) > limit THEN limit ELSE Len(list))

Backwards(list) == [i \in 1..Len(list) |-> list[Len(list) + 1 - i]]

(* append: the entry goes to the front, the oldest falls out, and every    *)
(* listener is called before anything else happens.                        *)
AppendEntry ==
  /\ lines < MaxLines
  /\ lines' = lines + 1
  /\ entries' = Shorten(<<lines + 1>> \o entries, Kept)
  /\ sent' = [s \in Streams |-> IF s \in listeners THEN Append(sent[s], lines + 1) ELSE sent[s]]
  /\ UNCHANGED <<listeners, at, gone, subscribers, docker, pm2, tails, ended>>

(* attachLiveLogs counts the subscriber; with both tails set it is done,   *)
(* otherwise it awaits the project model.                                  *)
Attach(s) ==
  /\ at[s] = "idle"
  /\ subscribers' = subscribers + 1
  /\ StepTo(s, IF subscribers > 0 /\ docker /\ pm2 # NoTail THEN "attached" ELSE "model")
  /\ UNCHANGED <<lines, entries, listeners, sent, gone, docker, pm2, tails, ended>>

(* The docker tail is started unless there is one, and the lock awaited. *)
TailDocker(s) ==
  /\ at[s] = "model"
  /\ docker' = TRUE
  /\ IF docker THEN UNCHANGED <<tails, ended>>
               ELSE tails' = tails \cup {"docker"} /\ ended' = FALSE
  /\ StepTo(s, "lock")
  /\ UNCHANGED <<lines, entries, listeners, sent, gone, subscribers, pm2>>

(* Inside the lock the pm2 tail is started if a daemon runs, and pm2Tail   *)
(* set to it or to undefined, whatever it was; a failed check is logged    *)
(* and leaves it.                                                          *)
TailPm2(s) ==
  /\ at[s] = "lock"
  /\ \/ pm2' = s /\ tails' = tails \cup {s}
     \/ pm2' = NoTail /\ UNCHANGED tails
     \/ UNCHANGED <<pm2, tails>>
  /\ StepTo(s, "attached")
  /\ UNCHANGED <<lines, entries, listeners, sent, gone, subscribers, docker, ended>>

(* A mutant: subscribed only at the next turn of the event loop. *)
SendKeptThenListen(s) ==
  \/ /\ at[s] = "attached"
     /\ sent' = [sent EXCEPT ![s] = Backwards(Shorten(entries, Listed))]
     /\ StepTo(s, "sent")
     /\ UNCHANGED <<lines, entries, listeners, gone, subscribers, docker, pm2, tails, ended>>
  \/ /\ at[s] = "sent"
     /\ listeners' = listeners \cup {s}
     /\ StepTo(s, IF s \in gone THEN "missed" ELSE "live")
     /\ UNCHANGED <<lines, entries, sent, gone, subscribers, docker, pm2, tails, ended>>

(* The kept entries, oldest first, the subscription and the close handler, *)
(* without an await between them.                                          *)
SendKept(s) ==
  /\ at[s] = "attached"
  /\ sent' = [sent EXCEPT ![s] = Backwards(Shorten(entries, Listed))]
  /\ listeners' = listeners \cup {s}
  /\ StepTo(s, IF s \in gone THEN "missed" ELSE "live")
  /\ UNCHANGED <<lines, entries, gone, subscribers, docker, pm2, tails, ended>>

(* A mutant: the first client to leave stops the tails. *)
DetachFirst(s) ==
  /\ at[s] = "live" /\ s \in gone
  /\ listeners' = listeners \ {s}
  /\ subscribers' = subscribers - 1
  /\ docker' = FALSE /\ pm2' = NoTail /\ ended' = FALSE
  /\ tails' = tails \ ({pm2} \cup IF docker THEN {"docker"} ELSE {})
  /\ StepTo(s, "closed")
  /\ UNCHANGED <<lines, entries, sent, gone>>

(* cleanup on "close": detachLiveLogs stops the tails it knows of when the *)
(* last subscriber goes.                                                   *)
Detach(s) ==
  /\ at[s] = "live" /\ s \in gone
  /\ listeners' = listeners \ {s}
  /\ subscribers' = IF subscribers = 0 THEN 0 ELSE subscribers - 1
  /\ IF subscribers > 1
     THEN UNCHANGED <<docker, pm2, tails, ended>>
     ELSE /\ docker' = FALSE /\ pm2' = NoTail /\ ended' = FALSE
          /\ tails' = tails \ ({pm2} \cup IF docker THEN {"docker"} ELSE {})
  /\ StepTo(s, "closed")
  /\ UNCHANGED <<lines, entries, sent, gone>>

(* External: a client closes its connection.  The handler hears of it only *)
(* when it has come to listen: a close before that is missed.              *)
ClientCloses(s) ==
  /\ at[s] \in {"model", "lock", "attached", "live"} /\ s \notin gone
  /\ gone' = gone \cup {s}
  /\ UNCHANGED <<lines, entries, listeners, sent, at, subscribers, docker, pm2, tails, ended>>

(* External: a tail ends by itself, with the containers it follows or as   *)
(* its command could not start.  The handler of its end logs that and      *)
(* leaves dockerTail and pm2Tail set.                                      *)
TailEnds(t) ==
  /\ t \in tails
  /\ tails' = tails \ {t}
  /\ ended' = (ended \/ t = "docker")
  /\ UNCHANGED <<lines, entries, listeners, sent, at, gone, subscribers, docker, pm2>>

LogNext ==
  \/ AppendEntry
  \/ \E t \in tails : TailEnds(t)
  \/ \E s \in Streams : \/ Attach(s) \/ TailDocker(s) \/ TailPm2(s) \/ SendKept(s)
                        \/ Detach(s) \/ ClientCloses(s)

LogSpec == LogInit /\ [][LogNext]_logVars

-----------------------------------------------------------------------------
(* What a client was sent is one unbroken run of entries up to the newest: *)
(* nothing is lost or repeated between what was kept and what came after.  *)
StreamIsUnbroken ==
  \A s \in listeners :
    /\ \A i \in 1..(Len(sent[s]) - 1) : sent[s][i + 1] = sent[s][i] + 1
    /\ sent[s] # <<>> => sent[s][Len(sent[s])] = lines
    /\ lines > 0 => sent[s] # <<>>

(* While a client is connected and served the docker tail runs until it    *)
(* ends by itself: no other client's leaving takes it away.  (One that has *)
(* ended is not started again before the last client has left.)            *)
LiveStreamIsFed ==
  \A s \in Streams : at[s] = "live" => docker /\ ("docker" \in tails \/ ended)
=============================================================================
