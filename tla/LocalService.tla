---------------------------- MODULE LocalService ----------------------------
(***************************************************************************)
(* One odai process: a command (cli/run.mts, cli/batch.mts, cli/serve.mts, *)
(* shim/serve.mts, backends/chrome/setup.mts) over a backend that starts   *)
(* Chrome (ChromeBridge), from the selection of the backend to the exit.   *)
(* A task or a batch waits for each answer under a timer; a server answers *)
(* its clients' requests, each in a session of its own, until it is told   *)
(* to stop (shim/server.mts).                                              *)
(*                                                                         *)
(* A task of the command line is a batch of one entry.  The other backends *)
(* have no close(): what they keep ends with the process.                  *)
(***************************************************************************)
EXTENDS ChromeBridge, Sequences

CONSTANTS
  Call,     \* the process's one call of languageModel()
  Entries,  \* number of entries of the batch
  Clients   \* connections to the server

ASSUME LocalServiceAssumption ==
  /\ Entries \in Nat \ {0}
  /\ Users = {Call} /\ MaxBridges = 1

VARIABLES
  command,      \* what the process was started for
  phase,        \* how far the command is
  exitCode,     \* what the command has come to, or "none"
  baseSession,  \* the command's own session exists
  tasks,        \* tasks[e]: the task of entry e, reported or not
  lines,        \* the result lines, as records of an entry and its outcome
  handler,      \* handler[c]: how far handleRequest is with the request of c
  connection    \* connection[c]: whether client c waits for its answer

serviceVars == <<bridgeVars, command, phase, exitCode, baseSession, tasks,
                 lines, handler, connection>>
serverVars == <<handler, connection>>
batchVars == <<tasks, lines>>

Servers == {"serve", "shim"}  \* odai serve, and the shim's own entry point
Commands == Servers \cup {"task", "batch", "setup", "backends"}
Manifest == 1 .. (IF command = "batch" THEN Entries ELSE 1)

ServiceInit ==
  /\ BridgeInit
  /\ command \in Commands
  /\ phase = "none"
  /\ exitCode = "none"
  /\ baseSession = FALSE
  /\ tasks = [e \in 1 .. Entries |-> "none"]
  /\ lines = <<>>
  /\ handler = [c \in Clients |-> "none"]
  /\ connection = [c \in Clients |-> "none"]

Bridge == lm[Call]
ChromeServes == Bridge # NoBridge /\ status[Bridge] = "open"

Moves(from, to, code) ==
  /\ phase = from
  /\ phase' = to
  /\ exitCode' = code
  /\ UNCHANGED command

\* closeBackend(backend), after the base session if there is one.
Leaves(from, code) ==
  /\ Moves(from, "closing", code)
  /\ Close
  /\ baseSession' = FALSE

----------------------------------------------------------------------------
(* From the selection of the backend to its first use.                     *)

\* The command line is parsed, and names a command.
Runs ==
  /\ Moves("none", "selecting", exitCode)
  /\ UNCHANGED <<bridgeVars, baseSession, batchVars, serverVars>>

\* Availability of every backend, one after the other; none is started.
ListBackends ==
  /\ command = "backends"
  /\ \E code \in {"ok", "no backend"} : Moves("selecting", "exited", code)
  /\ UNCHANGED <<bridgeVars, baseSession, batchVars, serverVars>>

\* The explicit backend is not available or, without one, none is.  A model
\* asks once more for the backend that its command has selected.
NoBackend ==
  /\ command # "backends"
  /\ \E code \in {"no backend", "failure"} :
       /\ code = "no backend" => command \in {"serve", "task", "batch"}
       /\ code = "failure" => command # "serve"
       /\ Moves("selecting", "exited", code)
  /\ UNCHANGED <<bridgeVars, baseSession, batchVars, serverVars>>

Select ==
  /\ command # "backends"
  /\ Moves("selecting", "starting", exitCode)
  /\ LanguageModel(Call)
  /\ UNCHANGED <<baseSession, batchVars, serverVars>>

StartFailed ==
  /\ Moves("starting", "exited", "failure")
  /\ status[Bridge] = "failed"
  /\ UNCHANGED <<bridgeVars, baseSession, batchVars, serverVars>>

Started ==
  /\ Moves("starting", IF command \in Servers THEN "binding" ELSE "creating", exitCode)
  /\ Ready(Bridge)
  /\ UNCHANGED <<bridgeVars, baseSession, batchVars, serverVars>>

\* The command's own session, and the model's name in createOdaiModel.
BaseCreated ==
  /\ ChromeServes
  /\ Moves("creating", "working", exitCode)
  /\ baseSession' = TRUE
  /\ UNCHANGED <<bridgeVars, batchVars, serverVars>>

BaseFails ==
  /\ Leaves("creating", "failure")
  /\ UNCHANGED <<batchVars, serverVars>>

Listens ==
  /\ Moves("binding", "working", exitCode)
  /\ UNCHANGED <<bridgeVars, baseSession, batchVars, serverVars>>

\* Mutant: odai serve returns without closing the backend it selected.
ListenFailsUnclosed ==
  /\ Moves("binding", IF command = "serve" THEN "exited" ELSE "stranded", "failure")
  /\ UNCHANGED <<bridgeVars, baseSession, batchVars, serverVars>>

\* The port is taken.  odai serve closes the backend; the shim's entry point
\* sets an exit code, and the Chrome that runs keeps the process.
ListenFails ==
  /\ \/ command = "serve" /\ Leaves("binding", "failure")
     \/ command = "shim" /\ Moves("binding", "stranded", "failure")
                         /\ UNCHANGED <<bridgeVars, baseSession>>
  /\ UNCHANGED <<batchVars, serverVars>>

----------------------------------------------------------------------------
(* Task and batch.                                                         *)

Current == Len(lines) + 1
ResultLine(e, outcome) == [entry |-> e, outcome |-> outcome]

TaskBegins(e) ==
  /\ command \in {"task", "batch"} /\ phase = "working"
  /\ e \in Manifest /\ e = Current
  /\ tasks[e] = "none"
  /\ tasks' = [tasks EXCEPT ![e] = "running"]
  /\ UNCHANGED <<bridgeVars, command, phase, exitCode, baseSession, lines, serverVars>>

\* Mutant: the answer is written whether or not its entry still waits for it.
TaskEndsUntimed(e) ==
  /\ tasks[e] = "running" /\ phase \in {"working", "closing"}
  /\ \E outcome \in {"value", "error"} :
       /\ outcome = "value" => ChromeServes
       /\ tasks' = [tasks EXCEPT ![e] = outcome]
       /\ lines' = Append(lines, ResultLine(e, outcome))
  /\ UNCHANGED <<bridgeVars, command, phase, exitCode, baseSession, serverVars>>

\* The task settles.  Its line is written if its entry still waits for it.
TaskEnds(e) ==
  /\ tasks[e] = "running" /\ phase \in {"working", "closing"}
  /\ \E outcome \in {"value", "error"} :
       /\ outcome = "value" => ChromeServes
       /\ tasks' = [tasks EXCEPT ![e] = outcome]
       /\ lines' = IF e = Current THEN Append(lines, ResultLine(e, outcome)) ELSE lines
  /\ UNCHANGED <<bridgeVars, command, phase, exitCode, baseSession, serverVars>>

\* Mutant: the last entry's task is awaited without a timer.
TimesOutButLast(e) ==
  /\ tasks[e] = "running" /\ e = Current /\ phase = "working"
  /\ e + 1 \in Manifest
  /\ lines' = Append(lines, ResultLine(e, "timeout"))
  /\ UNCHANGED <<bridgeVars, command, phase, exitCode, baseSession, tasks, serverVars>>

\* withTimeout rejects; the task goes on beside the next entry's.
TimesOut(e) ==
  /\ tasks[e] = "running" /\ e = Current /\ phase = "working"
  /\ lines' = Append(lines, ResultLine(e, "timeout"))
  /\ UNCHANGED <<bridgeVars, command, phase, exitCode, baseSession, tasks, serverVars>>

\* The finally block.  A batch is well when every entry has its line.
BatchEnds ==
  /\ command \in {"task", "batch"}
  /\ Len(lines) = Cardinality(Manifest)
  /\ Leaves("working",
       IF command = "batch" \/ lines[1].outcome = "value" THEN "ok" ELSE "failure")
  /\ UNCHANGED <<batchVars, serverVars>>

\* setup asks its session for the model's name, and accepts it or not.
SetupEnds ==
  /\ command = "setup"
  /\ \E code \in {"ok", "failure"} :
       (code = "ok" => ChromeServes) /\ Leaves("working", code)
  /\ UNCHANGED <<batchVars, serverVars>>

----------------------------------------------------------------------------
(* The server.                                                             *)

Alive == phase \notin {"exited", "stranded"}
Waits(c) == connection[c] = "open" /\ handler[c] # "done"

ClientRequests(c) ==
  /\ command \in Servers /\ phase = "working"
  /\ connection[c] = "none"
  /\ connection' = [connection EXCEPT ![c] = "open"]
  /\ handler' = [handler EXCEPT ![c] = "reading"]
  /\ UNCHANGED <<bridgeVars, command, phase, exitCode, baseSession, batchVars>>

Handles(c, from, to) ==
  /\ Alive /\ handler[c] = from
  /\ handler' = [handler EXCEPT ![c] = to]
  /\ UNCHANGED <<bridgeVars, command, phase, exitCode, baseSession, batchVars, connection>>

\* No session is needed: other routes, invalid and oversized bodies.
AnswersAtOnce(c) == Handles(c, "reading", "done")

\* promptOnce: a session is made, prompted, and destroyed with the answer.
CreatesSession(c) == Handles(c, "reading", "creating")
SessionCreated(c) == ChromeServes /\ Handles(c, "creating", "prompting")
Answers(c) == Handles(c, "creating", "done") \/ Handles(c, "prompting", "done")

\* The client goes away; its handler does not hear of it.
Disconnects(c) ==
  /\ Waits(c)
  /\ connection' = [connection EXCEPT ![c] = "gone"]
  /\ UNCHANGED <<bridgeVars, command, phase, exitCode, baseSession, batchVars, handler>>

\* SIGINT or SIGTERM: server.close() takes no further connections.
ServerStops ==
  /\ command \in Servers
  /\ Moves("working", "draining", exitCode)
  /\ UNCHANGED <<bridgeVars, baseSession, batchVars, serverVars>>

\* Every connection has ended: the backend is closed.
Drained ==
  /\ \A c \in Clients : ~ Waits(c)
  /\ Leaves("draining", "ok")
  /\ UNCHANGED <<batchVars, serverVars>>

----------------------------------------------------------------------------

\* close() is over: the process ends with what still runs in it.
Exits ==
  /\ \A b \in Bridges : ~ Running(b)
  /\ Moves("closing", "exited", exitCode)
  /\ UNCHANGED <<bridgeVars, baseSession, batchVars, serverVars>>

ChromeStep ==
  /\ Alive
  /\ \E b \in Bridges : Progress(b) \/ Crash(b)
  /\ UNCHANGED <<command, phase, exitCode, baseSession, batchVars, serverVars>>

Ended == phase \in {"exited", "stranded"} /\ UNCHANGED serviceVars

\* What the command does by itself, or under a timer of its own.
CommandStep ==
  \/ ListBackends \/ NoBackend \/ Select \/ StartFailed \/ Started
  \/ Listens \/ ListenFails \/ BatchEnds \/ Drained \/ Exits
  \/ \E e \in 1 .. Entries : TaskBegins(e) \/ TimesOut(e)

\* What a session of the backend lets the command do, with no timer.
SessionStep == BaseCreated \/ BaseFails \/ SetupEnds

Reads(c) == AnswersAtOnce(c) \/ CreatesSession(c)
Serves(c) == SessionCreated(c) \/ Answers(c)

ServiceNext ==
  \/ Runs \/ CommandStep \/ SessionStep \/ ChromeStep \/ ServerStops \/ Ended
  \/ \E e \in 1 .. Entries : TaskEnds(e)
  \/ \E c \in Clients : Reads(c) \/ Serves(c)
  \/ \E c \in Clients : ClientRequests(c) \/ Disconnects(c)

\* Chrome starts or fails within its own limits, a request is read within
\* node's, and a task or batch waits for a prompt no longer than its timer.
ServiceFairness ==
  /\ WF_serviceVars(CommandStep)
  /\ \A c \in Clients : WF_serviceVars(Reads(c))
  /\ \A b \in Bridges : WF_serviceVars(Alive /\ Progress(b)
       /\ UNCHANGED <<command, phase, exitCode, baseSession, batchVars, serverVars>>)

ServiceSpec == ServiceInit /\ [][ServiceNext]_serviceVars /\ ServiceFairness

----------------------------------------------------------------------------
(* Properties.                                                             *)

\* Every entry gets one line, in the order of the manifest, however late the
\* task of an earlier entry comes back; a value is the entry's own.
LinesFollowManifest ==
  /\ Len(lines) <= Cardinality(Manifest)
  /\ \A i \in 1 .. Len(lines) :
       /\ lines[i].entry = i
       /\ lines[i].outcome = "value" => tasks[i] = "value"

\* A client that is connected is answered before its backend is closed.
BackendOutlivesClients ==
  \A c \in Clients : Waits(c) /\ Bridge # NoBridge =>
    status[Bridge] \notin {"stopping", "closed"}

\* A command ends without a Chrome and without its session, whatever failed.
\* The shim's own entry point does not: a port that is taken leaves it with
\* the Chrome that languageModel() started.
EndedCommandFreesChrome ==
  phase \in {"exited", "stranded"} =>
    /\ ~ baseSession
    /\ (\E b \in Bridges : Running(b)) => command = "shim" /\ phase = "stranded"

\* The Chrome of a command lives as long as it is of use and no longer.
ChromeFollowsCommand == BackendOutlivesClients /\ EndedCommandFreesChrome

\* A backend that makes or refuses each session, and answers the prompts that
\* have no timer: those of the server and of setup.
ResponsiveSessions ==
  /\ WF_serviceVars(SessionStep)
  /\ \A c \in Clients : WF_serviceVars(Serves(c))

\* Once its session is made, a task or batch ends though no prompt may ever be
\* answered, and a server that is told to stop ends once nobody waits.  Before,
\* every command that is not a server is over or comes to wait for a session.
CommandEndsAlone ==
  /\ (phase = "working" /\ command \in {"task", "batch"}) ~> (phase = "exited")
  /\ (phase = "draining" /\ \A c \in Clients : ~ Waits(c)) ~> (phase = "exited")
  /\ (phase = "selecting" /\ command \notin Servers) ~> (phase \in {"creating", "exited"})

\* The session itself is made outside withTimeout (run.mts:218, 336), and the
\* server has no timer: only a backend that answers lets every command end.
CommandEnds ==
  /\ CommandEndsAlone
  /\ ResponsiveSessions =>
       /\ (phase = "selecting" /\ command \notin Servers) ~> (phase = "exited")
       /\ (phase = "draining") ~> (phase = "exited")

=============================================================================
