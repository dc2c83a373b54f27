----------------------------- MODULE BotProcess -----------------------------
(***************************************************************************)
(* Bot processes on one machine: SingleInstanceLock, the life of a           *)
(* ChatterloopBotService from __init__ to shutdown, and the reconnecting     *)
(* loop of EntityEventConsumer.consume, with signals and kills at any point. *)
(***************************************************************************)
EXTENDS Integers, FiniteSets

CONSTANTS
  Processes,    \* processes started on the machine
  Bots,         \* bot entities
  BotOf,        \* the bot of each process
  PortOf,       \* port_for: a hash, so two bots may share a port
  BaseDelay,    \* reconnect_delay, in seconds
  MaxDelay,     \* max_reconnect_delay
  MaxStarts,    \* bound: times each process is started
  MaxCounted,   \* bound: failures counts up to here, where the delay is the maximum
  FullDelay     \* the delay after so many failures, were there no maximum

ASSUME ProcessAssumption ==
  /\ BotOf \in [Processes -> Bots]
  /\ DOMAIN PortOf = Bots
  /\ BaseDelay \in Nat \ {0}
  /\ MaxDelay \in Nat
  /\ BaseDelay <= MaxDelay
  /\ MaxStarts \in Nat
  /\ MaxCounted \in Nat
  /\ FullDelay \in [0..MaxCounted -> Nat]
  /\ FullDelay[0] = BaseDelay
  /\ \A n \in 1..MaxCounted : FullDelay[n] = 2 * FullDelay[n - 1]
  /\ FullDelay[MaxCounted] >= MaxDelay

VARIABLES
  procAt,     \* where each process is
  bound,      \* the processes whose lock socket is listening
  running,    \* consumer._running
  open,       \* consumer._response is an open stream
  stopping,   \* service._stopping
  delay,      \* the delay of consume
  failures,   \* history: sleeps since the last envelope
  early,      \* history: the signal came before consume set _running
  starts      \* times started

procVars == <<procAt, bound, running, open, stopping, delay, failures, early, starts>>

Stages ==
  {"off",        \* not running
   "init",       \* __init__, holding the lock; signals still kill
   "prepare",    \* signal handlers installed; ensure_collection
   "connect",    \* urlopen
   "read",       \* the next line of the stream
   "handle",     \* handle_envelope
   "retry",      \* the stream ended or failed; _close_response is done
   "sleep",      \* time.sleep(delay)
   "shutdown",   \* consume is left; the consumer and the store are closed next
   "unlock"}     \* the lock is closed next

ProcTypeOK ==
  /\ procAt \in [Processes -> Stages]
  /\ bound \subseteq Processes
  /\ running \in [Processes -> BOOLEAN]
  /\ open \in [Processes -> BOOLEAN]
  /\ stopping \in [Processes -> BOOLEAN]
  /\ delay \in [Processes -> BaseDelay..MaxDelay]
  /\ failures \in [Processes -> 0..MaxCounted]
  /\ early \in [Processes -> BOOLEAN]
  /\ starts \in [Processes -> 0..MaxStarts]

(* Who listens holds the lock, and a port is held once. *)
LockHeld ==
  /\ \A p \in Processes : procAt[p] # "off" => p \in bound
  /\ \A p \in Processes : open[p] => procAt[p] # "off"
  /\ \A p, q \in bound : PortOf[BotOf[p]] = PortOf[BotOf[q]] => p = q

ProcInv == ProcTypeOK /\ LockHeld

ProcInit ==
  /\ procAt = [p \in Processes |-> "off"]
  /\ bound = {}
  /\ running = [p \in Processes |-> FALSE]
  /\ open = [p \in Processes |-> FALSE]
  /\ stopping = [p \in Processes |-> FALSE]
  /\ delay = [p \in Processes |-> BaseDelay]
  /\ failures = [p \in Processes |-> 0]
  /\ early = [p \in Processes |-> FALSE]
  /\ starts = [p \in Processes |-> 0]

Goto(p, stage) == procAt' = [procAt EXCEPT ![p] = stage]

Port(p) == PortOf[BotOf[p]]

-----------------------------------------------------------------------------
(* Starting. *)

(* acquire, first thing in __init__: AlreadyRunning ends the process. *)
Start(p) ==
  /\ procAt[p] = "off"
  /\ starts[p] < MaxStarts
  /\ starts' = [starts EXCEPT ![p] = @ + 1]
  /\ IF \E q \in bound : Port(q) = Port(p)
     THEN UNCHANGED <<procAt, bound>>
     ELSE Goto(p, "init") /\ bound' = bound \cup {p}
  /\ running' = [running EXCEPT ![p] = FALSE]
  /\ open' = [open EXCEPT ![p] = FALSE]
  /\ stopping' = [stopping EXCEPT ![p] = FALSE]
  /\ delay' = [delay EXCEPT ![p] = BaseDelay]
  /\ failures' = [failures EXCEPT ![p] = 0]
  /\ early' = [early EXCEPT ![p] = FALSE]

(* The rest of __init__, and install_signal_handlers. *)
Built(p) ==
  /\ procAt[p] = "init"
  /\ Goto(p, "prepare")
  /\ UNCHANGED <<bound, running, open, stopping, delay, failures, early, starts>>

(* ensure_collection, and consume: _running is set whatever came before. *)
Consume(p) ==
  /\ procAt[p] = "prepare"
  /\ Goto(p, "connect")
  /\ running' = [running EXCEPT ![p] = TRUE]
  /\ UNCHANGED <<bound, open, stopping, delay, failures, early, starts>>

-----------------------------------------------------------------------------
(* consume and _stream_once. *)

(* urlopen returns a stream, also when the signal came meanwhile. *)
Connect(p) ==
  /\ procAt[p] = "connect"
  /\ Goto(p, "read")
  /\ open' = [open EXCEPT ![p] = TRUE]
  /\ UNCHANGED <<bound, running, stopping, delay, failures, early, starts>>

(* The platform refuses the token: consume returns, run goes to its finally. *)
Rejects(p) ==
  /\ procAt[p] = "connect"
  /\ Goto(p, "shutdown")
  /\ UNCHANGED <<bound, running, open, stopping, delay, failures, early, starts>>

(* urlopen fails, or the stream ends, times out or breaks, or was closed by   *)
(* stop; or a line arrives, a heartbeat for one, when _running is off. The    *)
(* finally clause closes the response; stopping goes on to the finally of run.*)
Ends(p) ==
  /\ procAt[p] \in {"connect", "read"}
  /\ Goto(p, IF running[p] THEN "retry" ELSE "shutdown")
  /\ open' = [open EXCEPT ![p] = FALSE]
  /\ UNCHANGED <<bound, running, stopping, delay, failures, early, starts>>

(* An envelope, while _running is on: yielded to run. *)
Envelope(p) ==
  /\ procAt[p] = "read"
  /\ running[p] /\ open[p]
  /\ Goto(p, "handle")
  /\ delay' = [delay EXCEPT ![p] = BaseDelay]
  /\ failures' = [failures EXCEPT ![p] = 0]
  /\ UNCHANGED <<bound, running, open, stopping, early, starts>>

(* handle_envelope returns, and run looks at _stopping. *)
Handled(p) ==
  /\ procAt[p] = "handle"
  /\ IF stopping[p]
     THEN Goto(p, "shutdown") /\ open' = [open EXCEPT ![p] = FALSE]
     ELSE Goto(p, "read") /\ UNCHANGED open
  /\ UNCHANGED <<bound, running, stopping, delay, failures, early, starts>>

(* After the finally clause: leave the loop, or sleep. *)
Retry(p) ==
  /\ procAt[p] = "retry"
  /\ Goto(p, IF running[p] THEN "sleep" ELSE "shutdown")
  /\ UNCHANGED <<bound, running, open, stopping, delay, failures, early, starts>>

Double(d) == IF 2 * d <= MaxDelay THEN 2 * d ELSE MaxDelay

(* The sleep is over, signals or not; the delay doubles, and `while` tests.  *)
Wake(p) ==
  /\ procAt[p] = "sleep"
  /\ Goto(p, IF running[p] THEN "connect" ELSE "shutdown")
  /\ delay' = [delay EXCEPT ![p] = Double(@)]
  /\ failures' = [failures EXCEPT ![p] = IF @ < MaxCounted THEN @ + 1 ELSE @]
  /\ UNCHANGED <<bound, running, open, stopping, early, starts>>

-----------------------------------------------------------------------------
(* Stopping. *)

(* Variant of Signal: stop also frees the port. *)
SignalUnlocks(p) ==
  /\ procAt[p] \notin {"off", "init"}
  /\ stopping' = [stopping EXCEPT ![p] = TRUE]
  /\ running' = [running EXCEPT ![p] = FALSE]
  /\ open' = [open EXCEPT ![p] = FALSE]
  /\ early' = [early EXCEPT ![p] = procAt[p] = "prepare"]
  /\ bound' = bound \ {p}
  /\ UNCHANGED <<procAt, delay, failures, starts>>

(* Variant of Signal: stop leaves _running alone. *)
SignalNotesOnly(p) ==
  /\ procAt[p] \notin {"off", "init"}
  /\ stopping' = [stopping EXCEPT ![p] = TRUE]
  /\ open' = [open EXCEPT ![p] = FALSE]
  /\ early' = [early EXCEPT ![p] = procAt[p] = "prepare"]
  /\ UNCHANGED <<procAt, bound, running, delay, failures, starts>>

(* SIGTERM or SIGINT: stop, in the middle of whatever the process does.      *)
(* The response is taken as closed; where closing it from the handler fails    *)
(* (174-180) it is read on until its next line.  The lock is held meanwhile.   *)
Signal(p) ==
  /\ procAt[p] \notin {"off", "init"}
  /\ stopping' = [stopping EXCEPT ![p] = TRUE]
  /\ running' = [running EXCEPT ![p] = FALSE]
  /\ open' = [open EXCEPT ![p] = FALSE]
  /\ early' = [early EXCEPT ![p] = procAt[p] = "prepare"]
  /\ UNCHANGED <<procAt, bound, delay, failures, starts>>

(* shutdown closes the consumer, then the store, ... *)
CloseConsumer(p) ==
  /\ procAt[p] = "shutdown"
  /\ Goto(p, "unlock")
  /\ running' = [running EXCEPT ![p] = FALSE]
  /\ open' = [open EXCEPT ![p] = FALSE]
  /\ UNCHANGED <<bound, stopping, delay, failures, early, starts>>

Gone(p) ==
  /\ Goto(p, "off")
  /\ bound' = bound \ {p}
  /\ running' = [running EXCEPT ![p] = FALSE]
  /\ open' = [open EXCEPT ![p] = FALSE]
  /\ UNCHANGED <<stopping, delay, failures, early, starts>>

(* ... and the lock. *)
CloseLock(p) == procAt[p] = "unlock" /\ Gone(p)

(* A kill, an exception of startup, or a signal before the handlers are      *)
(* installed: the system closes the process's sockets.                       *)
Killed(p) == procAt[p] # "off" /\ Gone(p)

(* What the process does by itself: whatever urlopen, a read or a sleep does, *)
(* it returns, since each has a timeout.                                     *)
Proceed(p) ==
  \/ Built(p) \/ Consume(p) \/ Connect(p) \/ Rejects(p) \/ Ends(p) \/ Envelope(p)
  \/ Handled(p) \/ Retry(p) \/ Wake(p) \/ CloseConsumer(p) \/ CloseLock(p)

ProcNext == \E p \in Processes : Start(p) \/ Proceed(p) \/ Signal(p) \/ Killed(p)

ProcFairness == \A p \in Processes : WF_procVars(Proceed(p))

ProcSpec == ProcInit /\ [][ProcNext]_procVars /\ ProcFairness

-----------------------------------------------------------------------------
(* Properties. *)

(* Two processes of one bot never both listen to its events on a machine,     *)
(* through starts, stops and kills in any order (single_instance.py 78-105;   *)
(* shutdown closes the lock last). Two bots may share a port and exclude each *)
(* other for nothing: PortOf is a hash into 10000 ports.                     *)
OneSubscriber ==
  \A p, q \in Processes :
    p # q /\ BotOf[p] = BotOf[q] => ~(open[p] /\ open[q])

(* The delay before a reconnect doubles with every failure since the last     *)
(* envelope, up to the maximum: a platform that accepts a connection and      *)
(* drops it at once is not hammered (consume 83, 113-114).                   *)
BackoffGrows ==
  \A p \in Processes :
    delay[p] = IF FullDelay[failures[p]] <= MaxDelay THEN FullDelay[failures[p]] ELSE MaxDelay

(* A stop that arrives once the stream is consumed ends the process, whatever *)
(* it was doing: connecting, reading, answering, sleeping. One that arrives    *)
(* while ensure_collection runs is overwritten by consume (line 77) and only  *)
(* seen after the next envelope, so it is not promised here.                 *)
StopHeeded ==
  \A p \in Processes : (stopping[p] /\ ~early[p]) ~> procAt[p] = "off"

=============================================================================
