--------------------------- MODULE LibraryProofs ---------------------------
(***************************************************************************)
(* Proofs about the library's smaller programs: one odai process, the      *)
(* requests of llama-server, the debouncer, the local factory, a model and *)
(* its requests, and the text of a reply.                                  *)
(*                                                                         *)
(* ServiceInv ties the phase of the command to its Chrome, its session and *)
(* its clients: Chrome stops only in a phase that no client can wait in,   *)
(* and the phases in which a command may end have given everything back.   *)
(***************************************************************************)
EXTENDS MCLibrary, FoldLemmas, SequenceTheorems, FiniteSetTheorems, TLAPS

Phases == {"none", "selecting", "starting", "creating", "binding", "working",
           "draining", "closing", "exited", "stranded"}

ServiceTypes ==
  /\ BridgeTypeOK
  /\ command \in Commands /\ phase \in Phases
  /\ baseSession \in BOOLEAN
  /\ tasks \in [1 .. Entries -> {"none", "running", "value", "error"}]
  /\ lines \in Seq([entry : Nat, outcome : {"value", "error", "timeout"}])
  /\ handler \in [Clients -> {"none", "reading", "creating", "prompting", "done"}]
  /\ connection \in [Clients -> {"none", "open", "gone"}]

\* Chrome is started in "starting" and stopped in "closing".
ChromeOfPhase ==
  /\ phase \in {"none", "selecting"} =>
       memo = NoBridge /\ \A b \in Bridges : status[b] = "none"
  /\ phase = "starting" => Bridge \in Bridges
  /\ phase \notin {"closing", "exited"} =>
       closing = {} /\ \A b \in Bridges : status[b] \notin {"stopping", "closed"}
  /\ phase = "exited" => \A b \in Bridges : ~ Running(b)

\* What each phase is for.
CommandOfPhase ==
  /\ phase \in {"binding", "draining"} => command \in Servers
  /\ phase = "creating" => command \notin Servers
  /\ phase = "stranded" => command = "shim"
  /\ baseSession => phase = "working" /\ command \notin Servers

\* Only a server that works or drains has clients.
ClientsOfPhase ==
  /\ \A c \in Clients : connection[c] # "none" =>
       command \in Servers /\ phase \in {"working", "draining", "closing", "exited"}
  /\ phase \in {"closing", "exited"} => \A c \in Clients : ~ Waits(c)

LinesInOrder ==
  /\ Len(lines) <= IF command = "batch" THEN Entries ELSE 1
  /\ \A e \in 1 .. Entries : tasks[e] # "none" => e \in Manifest
  /\ \A i \in 1 .. Len(lines) :
       /\ i \in 1 .. Entries
       /\ lines[i].entry = i
       /\ lines[i].outcome = "value" => tasks[i] = "value"

ServiceInv ==
  /\ ServiceTypes /\ ChromeOfPhase /\ CommandOfPhase /\ ClientsOfPhase /\ LinesInOrder

LEMMA OneBridge == Bridges = {1} /\ Users = {Call}
  BY LocalServiceAssumption DEF Bridges

LEMMA ServiceInvInit == ServiceInit => ServiceInv
  <1> SUFFICES ASSUME ServiceInit PROVE ServiceInv OBVIOUS
  <1> USE OneBridge, LocalServiceAssumption DEF ServiceInit, BridgeInit
  <1>1. lines \in Seq([entry : Nat, outcome : {"value", "error", "timeout"}]) /\ Len(lines) = 0
    OBVIOUS
  <1>2. ServiceTypes BY <1>1 DEF ServiceTypes, BridgeTypeOK, Phases, Status, NoBridge
  <1>3. ChromeOfPhase BY DEF ChromeOfPhase, NoBridge
  <1>4. CommandOfPhase BY DEF CommandOfPhase
  <1>5. ClientsOfPhase BY DEF ClientsOfPhase
  <1>6. LinesInOrder BY <1>1 DEF LinesInOrder
  <1> QED BY <1>2, <1>3, <1>4, <1>5, <1>6 DEF ServiceInv

\* Chrome's part of the types, over closing and over a step of Chrome's own.
LEMMA CloseKeepsTypes == ASSUME BridgeTypeOK, Close PROVE BridgeTypeOK'
  BY OneBridge DEF BridgeTypeOK, Close, Status, NoBridge

LEMMA BecomesKeepsTypes ==
  ASSUME BridgeTypeOK, NEW b \in Bridges, NEW from, NEW to \in Status, Becomes(b, from, to)
  PROVE  /\ status[b] \in from
         /\ status' \in [Bridges -> Status] /\ status'[b] = to
         /\ \A other \in Bridges \ {b} : status'[other] = status[other]
  BY DEF BridgeTypeOK, Becomes

\* Chrome goes on: what it may become depends on closing only.
LEMMA ChromeGoesOn ==
  ASSUME BridgeTypeOK, NEW b \in Bridges, Progress(b) \/ Crash(b)
  PROVE  /\ BridgeTypeOK' /\ UNCHANGED <<closing, lm>>
         /\ memo' \in {memo, NoBridge}
         /\ status[b] # "none"
         /\ status'[b] # "none" /\ (status'[b] = "stopping" => b \in closing)
         /\ status'[b] = "closed" => status[b] = "stopping"
         /\ \A other \in Bridges \ {b} : status'[other] = status[other]
  <1> USE DEF Status
  <1>1. CASE Launch(b)
    BY <1>1, BecomesKeepsTypes DEF Launch, BridgeTypeOK, Running, NoBridge
  <1>2. CASE StartFails(b)
    BY <1>2, BecomesKeepsTypes DEF StartFails, BridgeTypeOK, Running, NoBridge
  <1>3. CASE SetupFails(b)
    BY <1>3, BecomesKeepsTypes DEF SetupFails, BridgeTypeOK, Running, NoBridge
  <1>4. CASE BridgeOpens(b)
    <2>1. (IF b \in closing THEN "stopping" ELSE "open") \in Status OBVIOUS
    <2> QED BY <1>4, <2>1, BecomesKeepsTypes DEF BridgeOpens, BridgeTypeOK, Running, NoBridge
  <1>5. CASE ContextCloses(b)
    BY <1>5, BecomesKeepsTypes DEF ContextCloses, BridgeTypeOK, Running, NoBridge
  <1>6. CASE Crash(b)
    BY <1>6, BecomesKeepsTypes DEF Crash, BridgeTypeOK, Running, NoBridge
  <1> QED BY <1>1, <1>2, <1>3, <1>4, <1>5, <1>6 DEF Progress

\* One step, whatever it is: nothing, the command's, its server's or Chrome's.
LEMMA ServiceInvNext == ServiceInv /\ [ServiceNext]_serviceVars => ServiceInv'
  <1> SUFFICES ASSUME ServiceInv, [ServiceNext]_serviceVars PROVE ServiceInv' OBVIOUS
  <1> USE OneBridge, LocalServiceAssumption
      DEF ServiceInv, ServiceTypes, BridgeTypeOK, ChromeOfPhase, CommandOfPhase, ClientsOfPhase,
          LinesInOrder, Phases, Status, Servers, Commands, NoBridge, Bridge, Running, Waits,
          Manifest, Moves, bridgeVars, batchVars, serverVars
  <1>1. CASE UNCHANGED serviceVars BY <1>1 DEF serviceVars
  <1>2. CASE ListBackends BY <1>2 DEF ListBackends
  <1>3. CASE NoBackend
    <2>1. ServiceTypes' /\ CommandOfPhase' BY <1>3 DEF NoBackend
    <2>2. ChromeOfPhase' BY <1>3 DEF NoBackend
    <2>3. ClientsOfPhase' BY <1>3 DEF NoBackend
    <2>4. LinesInOrder'
      <3>1. UNCHANGED <<command, tasks, lines>> BY <1>3 DEF NoBackend
      <3> QED BY <3>1
    <2> QED BY <2>1, <2>2, <2>3, <2>4
  <1>4. CASE Select BY <1>4 DEF Select, LanguageModel, Unused
  <1>5. CASE StartFailed BY <1>5 DEF StartFailed
  <1>6. CASE Started BY <1>6 DEF Started
  <1>7. CASE BaseCreated BY <1>7 DEF BaseCreated
  <1>8. CASE BaseFails BY <1>8 DEF BaseFails, Leaves, Close
  <1>9. CASE Listens BY <1>9 DEF Listens
  <1>10. CASE ListenFails
    <2>1. ServiceTypes'
      <3>1. BridgeTypeOK'
        <4>1. BridgeTypeOK BY DEF ServiceInv
        <4>2. Close \/ UNCHANGED bridgeVars BY <1>10 DEF ListenFails, Leaves
        <4>3. CASE Close BY <4>1, <4>3, CloseKeepsTypes
        <4>4. CASE UNCHANGED bridgeVars BY <4>1, <4>4
        <4> QED BY <4>2, <4>3, <4>4
      <3> QED BY <1>10, <3>1 DEF ListenFails, Leaves
    <2>2. ChromeOfPhase' BY <1>10 DEF ListenFails, Leaves, Close
    <2>3. CommandOfPhase' BY <1>10 DEF ListenFails, Leaves, Close
    <2>4. ClientsOfPhase' BY <1>10 DEF ListenFails, Leaves, Close
    <2>5. LinesInOrder' BY <1>10 DEF ListenFails, Leaves, Close
    <2> QED BY <2>1, <2>2, <2>3, <2>4, <2>5
  <1>11. CASE BatchEnds BY <1>11 DEF BatchEnds, Leaves, Close
  <1>12. CASE SetupEnds
    <2>1. ServiceTypes'
      <3>1. BridgeTypeOK' BY <1>12, CloseKeepsTypes DEF SetupEnds, Leaves
      <3> QED BY <1>12, <3>1 DEF SetupEnds, Leaves
    <2>2. ChromeOfPhase' BY <1>12 DEF SetupEnds, Leaves, Close
    <2>3. CommandOfPhase' BY <1>12 DEF SetupEnds, Leaves, Close
    <2>4. ClientsOfPhase' BY <1>12 DEF SetupEnds, Leaves, Close
    <2>5. LinesInOrder' BY <1>12 DEF SetupEnds, Leaves, Close
    <2> QED BY <2>1, <2>2, <2>3, <2>4, <2>5
  <1>13. CASE Drained BY <1>13 DEF Drained, Leaves, Close
  <1>14. CASE Exits BY <1>14 DEF Exits
  <1>15. CASE Runs BY <1>15 DEF Runs
  <1>16. CASE ChromeStep
    <2> PICK b \in Bridges : Progress(b) \/ Crash(b) BY <1>16 DEF ChromeStep
    <2>1. /\ BridgeTypeOK' /\ UNCHANGED <<closing, lm>>
          /\ memo' \in {memo, NoBridge}
          /\ status[b] # "none"
          /\ status'[b] # "none" /\ (status'[b] = "stopping" => b \in closing)
          /\ status'[b] = "closed" => status[b] = "stopping"
          /\ \A other \in Bridges \ {b} : status'[other] = status[other]
      BY ChromeGoesOn
    <2>2. ServiceTypes' BY <1>16, <2>1 DEF ChromeStep
    <2>3. ChromeOfPhase' BY <1>16, <2>1 DEF ChromeStep, Alive
    <2>4. CommandOfPhase' /\ ClientsOfPhase' /\ LinesInOrder' BY <1>16 DEF ChromeStep
    <2> QED BY <2>2, <2>3, <2>4
  <1>17. CASE ServerStops BY <1>17 DEF ServerStops
  <1>18. ASSUME NEW e \in 1 .. Entries, TaskBegins(e) PROVE ServiceInv' BY <1>18 DEF TaskBegins, Current
  <1>19. ASSUME NEW e \in 1 .. Entries, TaskEnds(e) PROVE ServiceInv'
    <2>1. ServiceTypes'
      <3>1. PICK outcome \in {"value", "error"} :
              /\ tasks' = [tasks EXCEPT ![e] = outcome]
              /\ lines' = IF e = Current THEN Append(lines, ResultLine(e, outcome)) ELSE lines
        BY <1>19 DEF TaskEnds
      <3>2. ResultLine(e, outcome) \in [entry : Nat, outcome : {"value", "error", "timeout"}]
        BY DEF ResultLine
      <3>3. lines' \in Seq([entry : Nat, outcome : {"value", "error", "timeout"}])
        <4> DEFINE EntryLine == [entry : Nat, outcome : {"value", "error", "timeout"}]
        <4>1. lines \in Seq(EntryLine) OBVIOUS
        <4>2. Append(lines, ResultLine(e, outcome)) \in Seq(EntryLine) BY ONLY <3>2, <4>1
        <4> QED BY ONLY <3>1, <4>1, <4>2
      <3>4. tasks' \in [1 .. Entries -> {"none", "running", "value", "error"}] BY <3>1
      <3> QED BY <1>19, <3>3, <3>4 DEF TaskEnds
    <2>2. ChromeOfPhase' BY <1>19 DEF TaskEnds, Current, ResultLine, ChromeServes
    <2>3. CommandOfPhase' BY <1>19 DEF TaskEnds, Current, ResultLine, ChromeServes
    <2>4. ClientsOfPhase' BY <1>19 DEF TaskEnds, Current, ResultLine, ChromeServes
    <2>5. LinesInOrder' BY <1>19 DEF TaskEnds, Current, ResultLine, ChromeServes
    <2> QED BY <2>1, <2>2, <2>3, <2>4, <2>5
  <1>20. ASSUME NEW e \in 1 .. Entries, TimesOut(e) PROVE ServiceInv' BY <1>20 DEF TimesOut, Current, ResultLine
  <1>21. ASSUME NEW c \in Clients, AnswersAtOnce(c) PROVE ServiceInv' BY <1>21 DEF AnswersAtOnce, Handles, Alive
  <1>22. ASSUME NEW c \in Clients, CreatesSession(c) PROVE ServiceInv' BY <1>22 DEF CreatesSession, Handles, Alive
  <1>23. ASSUME NEW c \in Clients, SessionCreated(c) PROVE ServiceInv' BY <1>23 DEF SessionCreated, Handles, Alive
  <1>24. ASSUME NEW c \in Clients, Answers(c) PROVE ServiceInv'
    <2>1. ServiceTypes'
      <3>1. handler' = [handler EXCEPT ![c] = "done"] BY <1>24 DEF Answers, Handles
      <3>2. handler' \in [Clients -> {"none", "reading", "creating", "prompting", "done"}]
        BY <3>1
      <3>3. UNCHANGED <<bridgeVars, command, phase, baseSession, tasks, lines, connection>>
        BY <1>24 DEF Answers, Handles
      <3> QED BY <3>2, <3>3
    <2>2. ChromeOfPhase' BY <1>24 DEF Answers, Handles, Alive
    <2>3. CommandOfPhase' BY <1>24 DEF Answers, Handles, Alive
    <2>4. ClientsOfPhase' BY <1>24 DEF Answers, Handles, Alive
    <2>5. LinesInOrder' BY <1>24 DEF Answers, Handles, Alive
    <2> QED BY <2>1, <2>2, <2>3, <2>4, <2>5
  <1>25. ASSUME NEW c \in Clients, ClientRequests(c) PROVE ServiceInv' BY <1>25 DEF ClientRequests
  <1>26. ASSUME NEW c \in Clients, Disconnects(c) PROVE ServiceInv' BY <1>26 DEF Disconnects
  <1> QED BY <1>1, <1>2, <1>3, <1>4, <1>5, <1>6, <1>7, <1>8, <1>9, <1>10, <1>11, <1>12, <1>13,
     <1>14, <1>15, <1>16, <1>17, <1>18, <1>19, <1>20, <1>21, <1>22, <1>23, <1>24, <1>25, <1>26
  DEF ServiceNext, CommandStep, SessionStep, Reads, Serves, Ended

LEMMA ServiceInvHolds == ServiceSpec => []ServiceInv
  BY ServiceInvInit, ServiceInvNext, PTL DEF ServiceSpec

\* Every entry has at most one line, in the manifest's order, and a value is
\* its own task's, however late the tasks of earlier entries come back.
THEOREM LinesFollowTheManifest == ServiceSpec => []LinesFollowManifest
  <1>1. ServiceInv => LinesFollowManifest
    <2> SUFFICES ASSUME ServiceInv PROVE LinesFollowManifest OBVIOUS
    <2> DEFINE n == IF command = "batch" THEN Entries ELSE 1
    <2>1. n \in Nat BY LocalServiceAssumption
    <2>2. Cardinality(1 .. n) = n BY <2>1, FS_Interval
    <2>3. Len(lines) <= n BY DEF ServiceInv, LinesInOrder
    <2> QED BY <2>2, <2>3 DEF ServiceInv, LinesInOrder, LinesFollowManifest, Manifest
  <1> QED BY <1>1, ServiceInvHolds, PTL

\* No client that waits loses its backend, and a command that ended has given
\* back its session and its Chrome, but for the shim whose port was taken.
THEOREM ChromeFollowsItsCommand == ServiceSpec => []ChromeFollowsCommand
  <1>1. ServiceInv => ChromeFollowsCommand
    <2> SUFFICES ASSUME ServiceInv PROVE ChromeFollowsCommand OBVIOUS
    <2>1. BackendOutlivesClients
      BY OneBridge DEF ServiceInv, ServiceTypes, BridgeTypeOK, ChromeOfPhase, ClientsOfPhase,
         Waits, Bridge, NoBridge, BackendOutlivesClients
    <2>2. EndedCommandFreesChrome
      BY DEF ServiceInv, ChromeOfPhase, CommandOfPhase, EndedCommandFreesChrome
    <2> QED BY <2>1, <2>2 DEF ChromeFollowsCommand
  <1> QED BY <1>1, ServiceInvHolds, PTL

(***************************************************************************)
(* A session of llama-server.  A request stays open after its call only    *)
(* where the generator returned before the body was over: at "[DONE]",     *)
(* which comes last, or because the callback threw at a text.              *)
(***************************************************************************)

\* The lines that call c may find; "[DONE]" is the last that the server sends.
LinesOf(c) ==
  [kind : {"delta"}, text : Deltas, newline : BOOLEAN]
    \cup {l \in [kind : {"done"}, text : {<<>>}, newline : BOOLEAN] : ended[c]}

StreamTypes ==
  /\ stream \in [Streams -> {"none", "posting", "reading"} \cup Outcomes]
  /\ request \in [Streams -> {"none", "open", "closed"}]
  /\ ended \in [Streams -> BOOLEAN]
  /\ DOMAIN raw = Streams /\ DOMAIN arriving = Streams /\ DOMAIN unparsed = Streams
  /\ \A c \in Streams : arriving[c] \in Seq(LinesOf(c)) /\ unparsed[c] \in Seq(LinesOf(c))

StreamsInv ==
  /\ StreamTypes /\ RequestsAreOwned
  /\ \A c \in Streams : stream[c] = "none" => request[c] = "none"

LEMMA StreamsInvInit == StreamsInit => StreamsInv
  BY DEF StreamsInit, StreamsInv, StreamTypes, RequestsAreOwned

\* Lines stay what they are, and more may come once the answer has ended.
LEMMA LinesStay ==
  ASSUME NEW c \in Streams, ended[c] => ended'[c], NEW s \in Seq(LinesOf(c))
  PROVE  s \in Seq(LinesOf(c)')
  <1>1. LinesOf(c) \subseteq LinesOf(c)' BY DEF LinesOf
  <1> QED BY <1>1, SeqMonotonic

\* The steps that leave the server and the text alone.
LEMMA TextStays ==
  ASSUME StreamsInv, UNCHANGED <<server, text>>,
         stream' \in [Streams -> {"none", "posting", "reading"} \cup Outcomes],
         request' \in [Streams -> {"none", "open", "closed"}]
  PROVE  StreamTypes'
  BY DEF StreamsInv, StreamTypes, LinesOf, server, text

LEMMA CallStep ==
  ASSUME StreamsInv, NEW c \in Streams, Posts(c) \/ Responds(c) \/ CallerAborts(c) \/ RequestTimesOut(c)
  PROVE  StreamsInv'
  <1>1. /\ stream' \in [Streams -> {"none", "posting", "reading"} \cup Outcomes]
        /\ request' \in [Streams -> {"none", "open", "closed"}]
        /\ UNCHANGED <<server, text>>
    BY DEF StreamsInv, StreamTypes, Posts, Responds, CallerAborts, RequestTimesOut, Under, Closes,
       Outcomes, signals, server, text
  <1>2. StreamTypes' BY <1>1, TextStays
  <1>3. RequestsAreOwned'
    BY <1>1 DEF StreamsInv, StreamTypes, RequestsAreOwned, Posts, Responds, CallerAborts,
       RequestTimesOut, Under, Closes, signals, server, text
  <1>4. \A d \in Streams : stream'[d] = "none" => request'[d] = "none"
    BY <1>1 DEF StreamsInv, StreamTypes, Posts, Responds, CallerAborts, RequestTimesOut, Under, Closes, signals
  <1> QED BY <1>2, <1>3, <1>4 DEF StreamsInv

LEMMA DestroyStep ==
  ASSUME StreamsInv, SessionDestroys PROVE StreamsInv'
  <1>1. /\ stream' = stream /\ UNCHANGED <<server, text>>
        /\ request' = [c \in Streams |-> IF request[c] = "open" THEN "closed" ELSE request[c]]
    BY DEF SessionDestroys
  <1>2. StreamTypes' BY <1>1, TextStays DEF StreamsInv, StreamTypes
  <1> QED BY <1>1, <1>2 DEF StreamsInv, StreamTypes, RequestsAreOwned

\* The server sends: only its answer and the lines to come change.
LEMMA AnswerStep ==
  ASSUME StreamsInv, NEW c \in Streams, SendsDelta(c) \/ EndsAnswer(c) PROVE StreamsInv'
  <1>t. StreamTypes BY DEF StreamsInv
  <1>0. StreamTypes /\ arriving[c] \in Seq(LinesOf(c)) BY <1>t DEF StreamTypes
  <1>1. UNCHANGED <<signals, stream, request, unparsed, raw>>
    BY DEF SendsDelta, EndsAnswer
  <1>2. /\ ended' \in [Streams -> BOOLEAN] /\ DOMAIN arriving' = Streams
        /\ \A d \in Streams : ended[d] => ended'[d]
        /\ \A d \in Streams \ {c} : ended'[d] = ended[d] /\ arriving'[d] = arriving[d]
    BY <1>0 DEF StreamTypes, SendsDelta, EndsAnswer
  <1>3. arriving'[c] \in Seq(LinesOf(c)')
    <2>1. CASE SendsDelta(c)
      <3>1. PICK d \in Deltas : arriving'[c] = Append(arriving[c], Delta(d)) /\ ended' = ended
        BY <1>0, <2>1 DEF SendsDelta, StreamTypes
      <3>2. Delta(d) \in LinesOf(c) BY DEF Delta, LinesOf
      <3>3. Append(arriving[c], Delta(d)) \in Seq(LinesOf(c)) BY <1>0, <3>2, AppendProperties
      <3> QED BY <3>1, <3>3, LinesStay
    <2>2. CASE EndsAnswer(c)
      <3>1. PICK marked \in BOOLEAN, newline \in BOOLEAN :
              LET all == IF marked THEN Append(arriving[c], DoneLine) ELSE arriving[c]
              IN arriving' = [arriving EXCEPT ![c] =
                   IF all = <<>> THEN all ELSE [all EXCEPT ![Len(all)].newline = newline]]
        BY <2>2 DEF EndsAnswer
      <3> DEFINE all == IF marked THEN Append(arriving[c], DoneLine) ELSE arriving[c]
                 last == all[Len(all)]
                 L == LinesOf(c)'
      <3>2. arriving'[c] = IF all = <<>> THEN all ELSE [all EXCEPT ![Len(all)] = [last EXCEPT !.newline = newline]]
        BY <1>0, <3>1 DEF StreamTypes
      <3>3. ended'[c] BY <1>0, <2>2 DEF EndsAnswer, StreamTypes
      <3>4. DoneLine \in L BY <3>3 DEF DoneLine, LinesOf
      <3>5. arriving[c] \in Seq(L) BY <1>0, <3>3, LinesStay
      <3>6. all \in Seq(L) BY <3>4, <3>5, AppendProperties
      <3>7. ASSUME all # <<>> PROVE Len(all) \in 1 .. Len(all) /\ last \in L
        BY <3>6, <3>7, EmptySeq, LenProperties, ElementOfSeq
      <3>8. ASSUME NEW l \in L PROVE [l EXCEPT !.newline = newline] \in L
        BY <3>8 DEF LinesOf
      <3>9. all # <<>> => [last EXCEPT !.newline = newline] \in L BY <3>7, <3>8
      <3> HIDE DEF all, last, L
      <3>10. all # <<>> => [all EXCEPT ![Len(all)] = [last EXCEPT !.newline = newline]] \in Seq(L)
        BY <3>6, <3>7, <3>9, ExceptSeq
      <3>11. arriving'[c] \in Seq(L) BY <3>2, <3>6, <3>10
      <3> QED BY <3>11 DEF L
    <2> QED BY <2>1, <2>2
  <1>4. \A d \in Streams : arriving'[d] \in Seq(LinesOf(d)') /\ unparsed'[d] \in Seq(LinesOf(d)')
    <2> TAKE d \in Streams
    <2>1. arriving[d] \in Seq(LinesOf(d)) /\ unparsed[d] \in Seq(LinesOf(d)) BY <1>0 DEF StreamTypes
    <2>2. ended[d] => ended'[d] BY <1>2
    <2>3. unparsed[d] \in Seq(LinesOf(d)') BY <2>1, <2>2, LinesStay
    <2>4. d # c => arriving[d] \in Seq(LinesOf(d)') BY <2>1, <2>2, LinesStay
    <2> QED BY <2>3, <2>4, <1>1, <1>2, <1>3
  <1>5. StreamTypes' BY <1>0, <1>1, <1>2, <1>4 DEF StreamTypes
  <1>6. RequestsAreOwned' BY <1>1, <1>2 DEF StreamsInv, RequestsAreOwned, signals
  <1> QED BY <1>1, <1>5, <1>6 DEF StreamsInv

\* The consumer reads, parses and ends.
LEMMA ReadStep ==
  ASSUME StreamsInv, NEW c \in Streams, ReadsBody(c) PROVE StreamsInv'
  <1>1. StreamTypes BY DEF StreamsInv
  <1>2. UNCHANGED <<signals, stream, request, server, raw>> BY DEF ReadsBody
  <1>3. PICK n \in 1 .. Len(arriving[c]) :
          /\ unparsed' = [unparsed EXCEPT ![c] = SubSeq(arriving[c], 1, n)]
          /\ arriving' = [arriving EXCEPT ![c] = SubSeq(arriving[c], n + 1, Len(arriving[c]))]
    BY DEF ReadsBody
  <1>4. arriving[c] \in Seq(LinesOf(c)) /\ Len(arriving[c]) \in Nat
    BY <1>1, LenProperties DEF StreamTypes
  <1>5. /\ SubSeq(arriving[c], 1, n) \in Seq(LinesOf(c))
        /\ SubSeq(arriving[c], n + 1, Len(arriving[c])) \in Seq(LinesOf(c))
    BY <1>4, SubSeqProperties
  <1>6. /\ DOMAIN arriving' = Streams /\ DOMAIN unparsed' = Streams
        /\ \A d \in Streams : arriving'[d] \in Seq(LinesOf(d)) /\ unparsed'[d] \in Seq(LinesOf(d))
    BY <1>1, <1>3, <1>5 DEF StreamTypes
  <1>7. \A d \in Streams : LinesOf(d)' = LinesOf(d) BY <1>2 DEF LinesOf, server
  <1>8. StreamTypes' BY <1>1, <1>2, <1>6, <1>7 DEF StreamTypes, server
  <1>9. RequestsAreOwned' BY <1>2 DEF StreamsInv, RequestsAreOwned, signals, server
  <1> QED BY <1>2, <1>8, <1>9 DEF StreamsInv

LEMMA YieldStep ==
  ASSUME StreamsInv, NEW c \in Streams, Yields(c) PROVE StreamsInv'
  <1>1. StreamTypes BY DEF StreamsInv
  <1>2. /\ UNCHANGED <<signals, request, server, arriving>>
        /\ stream[c] = "reading" /\ unparsed[c] # <<>>
        /\ unparsed' = [unparsed EXCEPT ![c] = Tail(unparsed[c])]
        /\ DOMAIN raw' = Streams /\ \A d \in Streams \ {c} : raw'[d] = raw[d]
    BY <1>1 DEF Yields, HasLineOf, StreamTypes
  <1>3. \/ stream' = [stream EXCEPT ![c] = "reading"]
        \/ stream' = [stream EXCEPT ![c] = "error"] /\ raw'[c] # <<>>
    BY DEF Yields, Under
  <1>4. Tail(unparsed[c]) \in Seq(LinesOf(c)) BY <1>1, <1>2, HeadTailProperties DEF StreamTypes
  <1>5. DOMAIN unparsed' = Streams /\ \A d \in Streams : unparsed'[d] \in Seq(LinesOf(d))
    BY <1>1, <1>2, <1>4 DEF StreamTypes
  <1>6. \A d \in Streams : LinesOf(d)' = LinesOf(d) BY <1>2 DEF LinesOf, server
  <1>7. stream' \in [Streams -> {"none", "posting", "reading"} \cup Outcomes]
    BY <1>1, <1>3 DEF StreamTypes, Outcomes
  <1>8. StreamTypes' BY <1>1, <1>2, <1>5, <1>6, <1>7 DEF StreamTypes, server
  <1>9. RequestsAreOwned' /\ \A d \in Streams : stream'[d] = "none" => request'[d] = "none"
    BY <1>1, <1>2, <1>3 DEF StreamsInv, StreamTypes, RequestsAreOwned, signals, server
  <1> QED BY <1>8, <1>9 DEF StreamsInv

\* The call ends: its request is closed, or "[DONE]" was the end of the answer.
LEMMA EndStep ==
  ASSUME StreamsInv, NEW c \in Streams,
         SaysDone(c) \/ BodyEnds(c) \/ ReturnsAnswer(c) \/ ReadFails(c)
  PROVE  StreamsInv'
  <1>1. StreamTypes BY DEF StreamsInv
  <1>2. /\ UNCHANGED <<signals, server, arriving, unparsed>>
        /\ DOMAIN raw' = Streams /\ \A d \in Streams \ {c} : raw'[d] = raw[d]
        /\ stream[c] \in {"posting", "reading"}
        /\ \E to \in {"value", "error"} : stream' = [stream EXCEPT ![c] = to]
    BY <1>1 DEF SaysDone, BodyEnds, ReturnsAnswer, ReadFails, Under, StreamTypes, text
  <1>3. \/ request' = [request EXCEPT ![c] = "closed"]
        \/ request' = request /\ request[c] = "closed"
        \/ request' = request /\ stream' = [stream EXCEPT ![c] = "value"] /\ ended[c]
    <2>1. CASE SaysDone(c)
      <3>1. unparsed[c] # <<>> /\ Head(unparsed[c]).kind = "done"
        BY <2>1 DEF SaysDone, HasLineOf, LineOf
      <3>2. Head(unparsed[c]) \in LinesOf(c) BY <1>1, <3>1, HeadTailProperties DEF StreamTypes
      <3>3. ended[c] BY <3>1, <3>2 DEF LinesOf
      <3> QED BY <2>1, <3>3 DEF SaysDone, Under
    <2>2. CASE BodyEnds(c) \/ ReturnsAnswer(c) BY <2>2 DEF BodyEnds, ReturnsAnswer, Closes
    <2>3. CASE ReadFails(c) BY <2>3 DEF ReadFails
    <2> QED BY <2>1, <2>2, <2>3
  <1>4. \A d \in Streams : LinesOf(d)' = LinesOf(d) BY <1>2 DEF LinesOf, server
  <1>5. /\ stream' \in [Streams -> {"none", "posting", "reading"} \cup Outcomes]
        /\ request' \in [Streams -> {"none", "open", "closed"}]
    <2>1. stream \in [Streams -> {"none", "posting", "reading"} \cup Outcomes]
      BY <1>1 DEF StreamTypes
    <2>2. request \in [Streams -> {"none", "open", "closed"}] BY <1>1 DEF StreamTypes
    <2>3. PICK to \in {"value", "error"} : stream' = [stream EXCEPT ![c] = to] BY <1>2
    <2>4. stream' \in [Streams -> {"none", "posting", "reading"} \cup Outcomes]
      BY <2>1, <2>3 DEF Outcomes
    <2>5. request' = request \/ request' = [request EXCEPT ![c] = "closed"] BY <1>3
    <2> QED BY <2>2, <2>4, <2>5
  <1>6. StreamTypes' BY <1>1, <1>2, <1>4, <1>5 DEF StreamTypes, server
  <1>7. RequestsAreOwned' /\ \A d \in Streams : stream'[d] = "none" => request'[d] = "none"
    BY <1>1, <1>2, <1>3 DEF StreamsInv, StreamTypes, RequestsAreOwned, signals, server
  <1> QED BY <1>6, <1>7 DEF StreamsInv

LEMMA StreamsStep == StreamsInv /\ [StreamsNext]_streamVars => StreamsInv'
<1> SUFFICES ASSUME StreamsInv, [StreamsNext]_streamVars PROVE StreamsInv' OBVIOUS
<1>1. CASE UNCHANGED streamVars
  BY <1>1 DEF streamVars, StreamsInv, StreamTypes, LinesOf, RequestsAreOwned
<1>2. CASE StreamsNext
  BY <1>2, CallStep, DestroyStep, AnswerStep, ReadStep, YieldStep, EndStep DEF StreamsNext, Consumes
<1> QED BY <1>1, <1>2

\* A request that is open is awaited by its call, or its generator ended before
\* the body did; and neither session nor caller has given it up (postChat's
\* AbortSignal.any and destroy() of backends/llama-server.mts).
THEOREM OpenRequestsAreOwned == StreamsSpec => []RequestsAreOwned
  <1>1. StreamsInv => RequestsAreOwned BY DEF StreamsInv
  <1> QED BY <1>1, StreamsInvInit, StreamsStep, PTL DEF StreamsSpec

(***************************************************************************)
(* The debouncer.  Whoever is not the newest request was aborted by the    *)
(* one that came next, and the timer that is set is the newest one's.      *)
(***************************************************************************)

DebounceInv ==
  /\ debounced \in [Schedules -> {"unmade", "waiting", "running", "resolved", "rejected"}]
  /\ armed = {activeTimeout} \ {NoRequest}
  /\ activeTimeout \in {newest, NoRequest}
  /\ newest \in Schedules \cup {NoRequest}
  /\ newest # NoRequest => debounced[newest] # "unmade"
  /\ \A r \in Schedules : debounced[r] = "unmade" \/ r = newest \/ r \in signalled

LEMMA DebounceInvInit == DebounceInit => DebounceInv
  BY DEF DebounceInit, DebounceInv

LEMMA DebounceInvNext == DebounceInv /\ [DebounceNext]_debounceVars => DebounceInv'
  <1> SUFFICES ASSUME DebounceInv, [DebounceNext]_debounceVars PROVE DebounceInv' OBVIOUS
  <1> USE DebouncerAssumption DEF DebounceInv
  <1>1. CASE UNCHANGED debounceVars BY <1>1 DEF debounceVars
  <1>2. ASSUME NEW r \in Schedules, Schedule(r) PROVE DebounceInv' BY <1>2 DEF Schedule
  <1>3. ASSUME NEW r \in Schedules, AbortDebounced(r) PROVE DebounceInv' BY <1>3 DEF AbortDebounced
  <1>4. ASSUME NEW r \in Schedules, DelayEnds(r) PROVE DebounceInv' BY <1>4 DEF DelayEnds
  <1>5. ASSUME NEW r \in Schedules, FunctionEnds(r) PROVE DebounceInv' BY <1>5 DEF FunctionEnds
  <1> QED BY <1>1, <1>2, <1>3, <1>4, <1>5 DEF DebounceNext

LEMMA DebounceInvMeans == DebounceInv => OnlyTheNewestRuns
  <1> SUFFICES ASSUME DebounceInv PROVE OnlyTheNewestRuns OBVIOUS
  <1>1. Cardinality(armed) <= 1
    <2>1. armed = {} \/ armed = {activeTimeout} BY DEF DebounceInv
    <2>2. Cardinality({}) = 0 /\ Cardinality({activeTimeout}) = 1 BY FS_EmptySet, FS_Singleton
    <2> QED BY <2>1, <2>2
  <1>2. \A r \in Schedules : r \in armed \/ (debounced[r] = "running" /\ r \notin signalled) => r = newest
    BY DebouncerAssumption DEF DebounceInv
  <1> QED BY <1>1, <1>2 DEF OnlyTheNewestRuns

(***************************************************************************)
(* The factory.  A selection leaves the memo with an availability() that   *)
(* saw a selection fail: that very one, or an earlier one that another     *)
(* call had dropped already -- so that two calls saw that one fail.        *)
(***************************************************************************)

\* Call c found out that selection s failed.
FoundFailed(c, s) == awaited[c] = s /\ factoryCall[c] = "unavailable"

FailedTwice(s) ==
  \E c, d \in AvailabilityCalls : c # d /\ FoundFailed(c, s) /\ FoundFailed(d, s)

FactoryTypes ==
  /\ selection \in Seq({"pending", "found", "failed"})
  /\ backendPromise \in {0, Len(selection)}
  /\ factoryCall \in [FactoryCalls -> {"none", "selecting", "available", "unavailable",
                                       "creating", "rejected", "session"}]
  /\ awaited \in [FactoryCalls -> Nat]
  /\ IsFiniteSet({c \in FactoryCalls : factoryCall[c] # "none"})

\* What a call was told is how its selection ended.
CallsFit ==
  \A c \in FactoryCalls :
    /\ factoryCall[c] # "none" => awaited[c] \in 1 .. Len(selection)
    /\ factoryCall[c] = "unavailable" => selection[awaited[c]] = "failed"
    /\ factoryCall[c] \in {"available", "creating", "session"} => selection[awaited[c]] = "found"

DroppedFit ==
  \A s \in 1 .. Len(selection) : s # backendPromise =>
    \/ \E c \in AvailabilityCalls : FoundFailed(c, s)
    \/ \E u \in 1 .. s - 1 : FailedTwice(u)

FactoryInv == FactoryTypes /\ CallsFit /\ DroppedFit

LEMMA FactoryInvInit == FactoryInit => FactoryInv
  <1> SUFFICES ASSUME FactoryInit PROVE FactoryInv OBVIOUS
  <1>1. selection \in Seq({"pending", "found", "failed"}) /\ Len(selection) = 0
    BY DEF FactoryInit
  <1>2. {c \in FactoryCalls : factoryCall[c] # "none"} = {} BY DEF FactoryInit
  <1>3. FactoryTypes BY <1>1, <1>2, FS_EmptySet DEF FactoryInit, FactoryTypes
  <1>4. CallsFit BY DEF FactoryInit, CallsFit
  <1>5. DroppedFit BY <1>1 DEF DroppedFit
  <1> QED BY <1>3, <1>4, <1>5 DEF FactoryInv

LEMMA ResolvesStep ==
  ASSUME FactoryInv, NEW c \in FactoryCalls, ResolvesBackend(c) PROVE FactoryInv'
  <1>1. FactoryTypes /\ CallsFit /\ DroppedFit BY DEF FactoryInv
  <1>2. Len(selection) \in Nat BY <1>1, LenProperties DEF FactoryTypes
  <1>3. /\ factoryCall[c] = "none" /\ factoryCall' = [factoryCall EXCEPT ![c] = "selecting"]
        /\ awaited' = [awaited EXCEPT ![c] = backendPromise']
    BY DEF ResolvesBackend
  \* The selections so far stay, and the memo is the last.
  <1>4. /\ selection' \in Seq({"pending", "found", "failed"})
        /\ Len(selection') \in Nat /\ Len(selection') >= Len(selection)
        /\ \A s \in 1 .. Len(selection) : selection'[s] = selection[s]
        /\ backendPromise' = Len(selection') /\ backendPromise' \in 1 .. Len(selection')
        /\ \A s \in 1 .. Len(selection') : s # backendPromise' => s \in 1 .. Len(selection) /\ s # backendPromise
    <2>1. CASE backendPromise = 0
      <3>1. selection' = Append(selection, "pending") /\ backendPromise' = Len(selection) + 1
        BY <2>1 DEF ResolvesBackend
      <3>2. /\ Append(selection, "pending") \in Seq({"pending", "found", "failed"})
            /\ Len(Append(selection, "pending")) = Len(selection) + 1
            /\ \A s \in 1 .. Len(selection) : Append(selection, "pending")[s] = selection[s]
        BY <1>1, AppendProperties DEF FactoryTypes
      <3> QED BY <3>1, <3>2, <1>2, <2>1
    <2>2. CASE backendPromise # 0
      <3>1. UNCHANGED <<selection, backendPromise>> BY <2>2 DEF ResolvesBackend
      <3> QED BY <3>1, <2>2, <1>1, <1>2 DEF FactoryTypes
    <2> QED BY <2>1, <2>2
  <1>5. FactoryTypes'
    <2>1. {d \in FactoryCalls : factoryCall'[d] # "none"}
            = {d \in FactoryCalls : factoryCall[d] # "none"} \cup {c}
      BY <1>1, <1>3 DEF FactoryTypes
    <2>2. IsFiniteSet({d \in FactoryCalls : factoryCall[d] # "none"} \cup {c})
      BY <1>1, FS_AddElement DEF FactoryTypes
    <2> QED BY <1>1, <1>3, <1>4, <2>1, <2>2 DEF FactoryTypes
  <1>6. CallsFit' BY <1>1, <1>2, <1>3, <1>4 DEF CallsFit, FactoryTypes
  <1>7. \A d \in FactoryCalls, s \in Nat : FoundFailed(d, s) => FoundFailed(d, s)'
    BY <1>1, <1>3 DEF FoundFailed, FactoryTypes
  <1>8. DroppedFit'
    <2> SUFFICES ASSUME NEW s \in 1 .. Len(selection'), s # backendPromise'
                 PROVE  \/ \E d \in AvailabilityCalls : FoundFailed(d, s)'
                        \/ \E u \in 1 .. s - 1 : FailedTwice(u)'
      BY DEF DroppedFit
    <2>1. s \in 1 .. Len(selection) /\ s # backendPromise BY <1>4
    <2>2. \A u \in 1 .. s - 1 : FailedTwice(u) => FailedTwice(u)'
      BY <1>7 DEF FailedTwice, FactoryCalls
    <2> QED BY <1>1, <1>7, <2>1, <2>2 DEF DroppedFit, FactoryCalls
  <1> QED BY <1>5, <1>6, <1>8 DEF FactoryInv

LEMMA SelectionEndsStep ==
  ASSUME FactoryInv, NEW s \in DOMAIN selection, SelectionEnds(s) PROVE FactoryInv'
  <1>1. FactoryTypes /\ CallsFit /\ DroppedFit BY DEF FactoryInv
  <1>2. UNCHANGED <<backendPromise, factoryCall, awaited>> BY DEF SelectionEnds
  <1>3. PICK outcome \in {"found", "failed"} : selection' = [selection EXCEPT ![s] = outcome]
    BY DEF SelectionEnds
  <1>4. /\ selection' \in Seq({"pending", "found", "failed"})
        /\ Len(selection') = Len(selection)
        /\ \A t \in 1 .. Len(selection) : selection[t] # "pending" => selection'[t] = selection[t]
    <2>1. selection \in Seq({"pending", "found", "failed"}) /\ s \in 1 .. Len(selection) /\ selection[s] = "pending"
      BY <1>1 DEF FactoryTypes, SelectionEnds
    <2> QED BY <1>3, <2>1, ExceptSeq
  <1>5. FactoryTypes' BY <1>1, <1>2, <1>4 DEF FactoryTypes
  <1>6. CallsFit' BY <1>1, <1>2, <1>4 DEF CallsFit
  <1>7. DroppedFit' BY <1>1, <1>2, <1>4 DEF DroppedFit, FailedTwice, FoundFailed
  <1> QED BY <1>5, <1>6, <1>7 DEF FactoryInv

\* A call goes on from where it waits; what others found out stays.
LEMMA CallEndsStep ==
  ASSUME FactoryInv, NEW c \in FactoryCalls,
         NEW outcome \in {"available", "unavailable", "creating", "rejected", "session"},
         CallEnds(c, outcome), factoryCall[c] \in {"selecting", "creating"},
         outcome = "unavailable" =>
           c \in AvailabilityCalls /\ factoryCall[c] = "selecting" /\ selection[awaited[c]] = "failed",
         outcome \in {"available", "creating", "session"} => selection[awaited[c]] = "found",
         backendPromise' = backendPromise \/ (outcome = "unavailable" /\ backendPromise' = 0)
  PROVE  FactoryInv'
  <1>1. FactoryTypes /\ CallsFit /\ DroppedFit BY DEF FactoryInv
  <1>2. /\ UNCHANGED <<selection, awaited>> /\ factoryCall' = [factoryCall EXCEPT ![c] = outcome]
        /\ Len(selection) \in Nat
    BY <1>1, LenProperties DEF CallEnds, FactoryTypes
  <1>3. FactoryTypes'
    <2>1. {d \in FactoryCalls : factoryCall'[d] # "none"} = {d \in FactoryCalls : factoryCall[d] # "none"}
      BY <1>1, <1>2 DEF FactoryTypes
    <2>2. backendPromise' \in {0, Len(selection)} BY <1>1 DEF FactoryTypes
    <2>3. factoryCall' \in [FactoryCalls -> {"none", "selecting", "available", "unavailable",
                                             "creating", "rejected", "session"}]
      BY <1>1, <1>2 DEF FactoryTypes
    <2> QED BY <1>1, <1>2, <2>1, <2>2, <2>3 DEF FactoryTypes
  <1>4. CallsFit' BY <1>1, <1>2 DEF CallsFit, FactoryTypes
  <1>5. \A d \in FactoryCalls, s \in Nat : FoundFailed(d, s) => FoundFailed(d, s)' /\ d # c
    BY <1>1, <1>2 DEF FoundFailed, FactoryTypes
  <1>6. \A u \in Nat : FailedTwice(u) => FailedTwice(u)' BY <1>5 DEF FailedTwice, FactoryCalls
  <1>7. DroppedFit'
    <2> SUFFICES ASSUME NEW s \in 1 .. Len(selection), s # backendPromise'
                 PROVE  \/ \E d \in AvailabilityCalls : FoundFailed(d, s)'
                        \/ \E u \in 1 .. s - 1 : FailedTwice(u)'
      BY <1>2 DEF DroppedFit
    <2>1. CASE s # backendPromise
      BY <1>1, <1>5, <1>6, <2>1 DEF DroppedFit, FactoryCalls
    <2>2. CASE s = backendPromise
      <3>0. /\ outcome = "unavailable" /\ c \in AvailabilityCalls /\ s = Len(selection)
            /\ awaited[c] \in 1 .. Len(selection)
        BY <2>2, <1>1 DEF FactoryTypes, CallsFit
      <3>1. PICK u \in 1 .. s : u = awaited[c] /\ c \in AvailabilityCalls /\ outcome = "unavailable"
        BY <3>0
      <3>2. FoundFailed(c, u)' BY <3>1, <1>1, <1>2 DEF FoundFailed, FactoryTypes
      <3>3. CASE u = s BY <3>1, <3>2, <3>3
      <3>4. CASE u # s
        <4>1. u \in 1 .. s - 1 /\ u # backendPromise /\ 1 .. u - 1 \subseteq 1 .. s - 1
          BY <3>1, <3>4, <2>2, <1>2
        <4>2. CASE \E d \in AvailabilityCalls : FoundFailed(d, u)
          <5>1. PICK d \in AvailabilityCalls : FoundFailed(d, u) BY <4>2
          <5>2. FoundFailed(d, u)' /\ d # c BY <5>1, <4>1, <1>5 DEF FactoryCalls
          <5>3. FailedTwice(u)' BY <5>2, <3>1, <3>2 DEF FailedTwice
          <5> QED BY <5>3, <4>1
        <4>3. CASE \E v \in 1 .. u - 1 : FailedTwice(v) BY <4>1, <4>3, <1>6
        <4> QED BY <4>1, <4>2, <4>3, <3>1, <1>1 DEF DroppedFit
      <3> QED BY <3>3, <3>4
    <2> QED BY <2>1, <2>2
  <1> QED BY <1>3, <1>4, <1>7 DEF FactoryInv

LEMMA FactoryInvNext == FactoryInv /\ [FactoryNext]_factoryVars => FactoryInv'
  <1> SUFFICES ASSUME FactoryInv, [FactoryNext]_factoryVars PROVE FactoryInv' OBVIOUS
  <1>1. CASE UNCHANGED factoryVars
    BY <1>1 DEF factoryVars, FactoryInv, FactoryTypes, CallsFit, DroppedFit, FailedTwice, FoundFailed
  <1>2. ASSUME NEW c \in FactoryCalls, ResolvesBackend(c) PROVE FactoryInv' BY <1>2, ResolvesStep
  <1>3. ASSUME NEW s \in DOMAIN selection, SelectionEnds(s) PROVE FactoryInv' BY <1>3, SelectionEndsStep
  <1>4. ASSUME NEW c \in AvailabilityCalls, SaysAvailable(c) \/ SaysUnavailable(c) PROVE FactoryInv'
    <2>1. c \in FactoryCalls BY DEF FactoryCalls
    <2>2. CASE SaysAvailable(c) BY <2>1, <2>2, CallEndsStep DEF SaysAvailable
    <2>3. CASE SaysUnavailable(c) BY <2>1, <2>3, CallEndsStep DEF SaysUnavailable
    <2> QED BY <1>4, <2>2, <2>3
  <1>5. ASSUME NEW c \in CreateCalls, UsesBackend(c) \/ CreationEnds(c) PROVE FactoryInv'
    <2>1. c \in FactoryCalls BY DEF FactoryCalls
    <2>2. CASE UsesBackend(c)
      <3>1. CASE selection[awaited[c]] = "found" BY <2>1, <2>2, <3>1, CallEndsStep DEF UsesBackend
      <3>2. CASE selection[awaited[c]] # "found" BY <2>1, <2>2, <3>2, CallEndsStep DEF UsesBackend
      <3> QED BY <3>1, <3>2
    <2>3. CASE CreationEnds(c)
      <3>1. selection[awaited[c]] = "found" BY <2>1, <2>3 DEF CreationEnds, FactoryInv, CallsFit
      <3> QED BY <2>1, <2>3, <3>1, CallEndsStep DEF CreationEnds
    <2> QED BY <1>5, <2>2, <2>3
  <1> QED BY <1>1, <1>2, <1>3, <1>4, <1>5 DEF FactoryNext, CallGoesOn

LEMMA FactoryInvMeans == FactoryInv => SelectionIsShared /\ FailureIsKeptUntilAsked
  <1> SUFFICES ASSUME FactoryInv PROVE SelectionIsShared /\ FailureIsKeptUntilAsked OBVIOUS
  <1>1. FactoryTypes /\ CallsFit /\ DroppedFit BY DEF FactoryInv
  <1>2. Len(selection) \in Nat /\ DOMAIN selection = 1 .. Len(selection)
    BY <1>1, LenProperties DEF FactoryTypes
  <1>3. SelectionIsShared
    <2> SUFFICES ASSUME NEW s \in BackendsInUse, NEW t \in BackendsInUse, s < t
                 PROVE  \E u \in 1 .. s - 1 :
                          Cardinality({c \in AvailabilityCalls :
                            awaited[c] = u /\ factoryCall[c] = "unavailable"}) >= 2
      BY DEF SelectionIsShared
    <2>1. \A v \in BackendsInUse : v \in 1 .. Len(selection) /\ selection[v] = "found"
      BY <1>1 DEF BackendsInUse, CallsFit
    <2>2. s \in 1 .. Len(selection) /\ s # backendPromise
      <3>1. s \in 1 .. Len(selection) /\ t \in 1 .. Len(selection) BY <2>1
      <3>2. s # 0 /\ s # Len(selection)
        <4>1. \A a, b, n \in Int : a < b /\ b <= n => a # n OBVIOUS
        <4>2. s \in Int /\ t \in Int /\ Len(selection) \in Int /\ t <= Len(selection) /\ s # 0 BY <3>1, <1>2
        <4>3. s < t OBVIOUS
        <4> QED BY <4>1, <4>2, <4>3
      <3> QED BY <3>1, <3>2, <1>1 DEF FactoryTypes
    <2>3. \A c \in AvailabilityCalls : ~ FoundFailed(c, s)
      BY <2>1, <1>1 DEF FoundFailed, CallsFit, FactoryCalls
    <2>4. PICK u \in 1 .. s - 1 : FailedTwice(u) BY <1>1, <2>2, <2>3 DEF DroppedFit
    <2> DEFINE S == {c \in AvailabilityCalls : awaited[c] = u /\ factoryCall[c] = "unavailable"}
    <2>5. PICK c \in AvailabilityCalls, d \in AvailabilityCalls : c # d /\ {c, d} \subseteq S
      BY <2>4 DEF FailedTwice, FoundFailed
    <2>6. IsFiniteSet(S)
      <3>1. S \subseteq {e \in FactoryCalls : factoryCall[e] # "none"} BY DEF FactoryCalls
      <3> QED BY <3>1, <1>1, FS_Subset DEF FactoryTypes
    <2>7. Cardinality({c, d}) = 2
      <3>1. IsFiniteSet({c}) /\ Cardinality({c}) = 1 BY FS_Singleton
      <3>2. {c, d} = {c} \cup {d} /\ d \notin {c} BY <2>5
      <3> HIDE DEF S
      <3>3. Cardinality({c} \cup {d}) = Cardinality({c}) + 1 BY <3>1, <3>2, FS_AddElement
      <3> QED BY <3>1, <3>2, <3>3
    <2> HIDE DEF S
    <2>8. Cardinality({c, d}) <= Cardinality(S) /\ Cardinality(S) \in Nat
      BY <2>5, <2>6, FS_Subset, FS_CardinalityType
    <2>9. Cardinality(S) >= 2 BY <2>7, <2>8
    <2> QED BY <2>9 DEF S
  <1>4. FailureIsKeptUntilAsked
    <2> SUFFICES ASSUME NEW s \in 1 .. Len(selection), s > 1
                 PROVE  \E c \in AvailabilityCalls : awaited[c] < s /\ factoryCall[c] = "unavailable"
      BY <1>2 DEF FailureIsKeptUntilAsked
    <2>1. s - 1 \in 1 .. Len(selection) /\ s - 1 # backendPromise
      <3>1. s - 1 \in 1 .. Len(selection) /\ s - 1 # 0 /\ s - 1 # Len(selection) BY <1>2
      <3> QED BY <3>1, <1>1 DEF FactoryTypes
    <2>2. CASE \E c \in AvailabilityCalls : FoundFailed(c, s - 1) BY <2>2, <2>1 DEF FoundFailed
    <2>3. CASE \E u \in 1 .. (s - 1) - 1 : FailedTwice(u)
      BY <2>3, <2>1 DEF FailedTwice, FoundFailed
    <2> QED BY <1>1, <2>1, <2>2, <2>3 DEF DroppedFit
  <1> QED BY <1>3, <1>4

\* The helpers of a request keep to one backend and to one request: of the
\* requests of a debouncer only the newest is armed or runs unaborted
\* (debounce.mts), and the calls of a factory use one backend unless two
\* availability() calls had seen one selection fail (provider.mts).
THEOREM HelpersKeepToOne == LibrarySpec => []HelpersKeepOne
  <1> DEFINE Inv == DebounceInv /\ FactoryInv
             all == <<program, vars, modelVars, serviceVars, streamVars, debounceVars, factoryVars>>
  <1>1. LibraryInit => Inv BY DebounceInvInit, FactoryInvInit DEF LibraryInit
  <1>2. Inv /\ [LibraryNext]_all => Inv'
    <2> SUFFICES ASSUME Inv, [LibraryNext]_all PROVE Inv' OBVIOUS
    <2>1. [DebounceNext]_debounceVars /\ [FactoryNext]_factoryVars
      BY DEF LibraryNext, Others
    <2> QED BY <2>1, DebounceInvNext, FactoryInvNext
  <1>3. Inv => HelpersKeepOne BY DebounceInvMeans, FactoryInvMeans DEF HelpersKeepOne
  <1> QED BY <1>1, <1>2, <1>3, PTL DEF LibrarySpec

(***************************************************************************)
(* A model and its requests.  No session is lost or destroyed under its    *)
(* owner: who owns one follows from the model's state and from where each  *)
(* request is, and the attempts are counted from the first.                *)
(***************************************************************************)


\* The base session is made and used in the states of the model that say so,
\* and the probe comes after it.
BaseFollowsModel ==
  /\ pc[Base] = "acquiring" <=> model = "creating"
  /\ pc[Base] = "prompting" <=> model \in {"detecting", "ready"}
  /\ model \in {"idle", "selecting"} => pc[Base] = "idle"
  /\ model \in {"idle", "selecting", "creating"} => pc[NameProbe] = "idle"

\* Attempts are counted from the first.
AttemptsCounted ==
  \A o \in Owners :
    /\ pc[o] = "idle" => attempt[o] = 0
    /\ Active(o) => attempt[o] > 0

ModelInv ==
  /\ ModelTypeOK
  /\ BaseFollowsModel
  /\ AttemptsCounted
  /\ live = SessionsInUse

----------------------------------------------------------------------------
\* A session that is in use after a step of its owner o, and of no one else.
LEMMA OneOwnerGains ==
  ASSUME ModelTypeOK, live = SessionsInUse, NEW o \in Owners,
         live' = live \cup {SessionOf(o)},
         pc' \in [Owners -> {"idle", "acquiring", "prompting", "settled"}],
         pc'[o] = "prompting", attempt'[o] = attempt[o],
         \A p \in Owners \ {o} :
           (pc'[p] = "prompting") = (pc[p] = "prompting")
           /\ (pc[p] = "prompting" => attempt'[p] = attempt[p])
  PROVE  live' = SessionsInUse'
<1>1. ASSUME NEW x \in live'
      PROVE  x \in SessionsInUse'
  BY DEF SessionsInUse, SessionOf
<1>2. ASSUME NEW x \in SessionsInUse'
      PROVE  x \in live'
  BY DEF SessionsInUse, SessionOf
<1>3. QED
  BY <1>1, <1>2

\* Owners that give up take the sessions they used with them.
LEMMA GiveUpReleases ==
  ASSUME ModelTypeOK, live = SessionsInUse, NEW os \in SUBSET Owners, GiveUp(os),
         attempt' = attempt
  PROVE  live' = SessionsInUse'
<1>1. ASSUME NEW x \in live'
      PROVE  x \in SessionsInUse'
  <2>1. PICK o \in Owners : pc[o] = "prompting" /\ x = SessionOf(o)
    BY <1>1 DEF GiveUp, SessionsInUse
  <2>2. o \notin os
    BY <1>1, <2>1 DEF GiveUp
  <2>3. pc'[o] = "prompting" /\ SessionOf(o)' = x
    BY <2>1, <2>2 DEF GiveUp, SessionOf
  <2>4. QED
    BY <2>3 DEF SessionsInUse
<1>2. ASSUME NEW x \in SessionsInUse'
      PROVE  x \in live'
  <2>1. PICK o \in Owners : pc'[o] = "prompting" /\ x = SessionOf(o)'
    BY <1>2 DEF SessionsInUse
  <2>2. o \notin os /\ pc[o] = "prompting" /\ x = SessionOf(o)
    BY <2>1 DEF GiveUp, SessionOf
  <2>3. x \in live
    BY <2>2 DEF SessionsInUse
  <2>4. x \notin {SessionOf(p) : p \in {q \in os : pc[q] = "prompting"}}
    BY <2>2 DEF SessionOf
  <2>5. QED
    BY <2>3, <2>4 DEF GiveUp
<1>3. QED
  BY <1>1, <1>2

\* What giving up leaves of the type invariant and of the attempts.
LEMMA GiveUpType ==
  ASSUME ModelTypeOK, AttemptsCounted, NEW os \in SUBSET Owners, GiveUp(os),
         UNCHANGED <<fixed, structured, attempt, rung>>,
         model' \in ModelStates, modelAborted' \in BOOLEAN
  PROVE  ModelTypeOK' /\ AttemptsCounted'
BY DEF ModelTypeOK, AttemptsCounted, GiveUp, Active, fixed

LEMMA SessionsInUseUnchanged ==
  ASSUME UNCHANGED <<pc, attempt>>
  PROVE  SessionsInUse' = SessionsInUse
BY DEF SessionsInUse, SessionOf


----------------------------------------------------------------------------
LEMMA ModelInvInit == ModelInit => ModelInv
<1> SUFFICES ASSUME ModelInit PROVE ModelInv
  OBVIOUS
<1> USE OdaiModelAssumption
<1>1. ModelTypeOK
  <2>1. attempt \in [Owners -> 0 .. MaxAttempts] /\ rung \in [Owners -> Rungs]
    BY DEF ModelInit, Rungs
  <2>2. structured \subseteq Requests /\ late \subseteq Owners
        /\ live \subseteq Owners \X (1 .. MaxAttempts)
    BY DEF ModelInit
  <2>3. pc \in [Owners -> {"idle", "acquiring", "prompting", "settled"}] /\ model \in ModelStates
    BY DEF ModelInit, ModelStates
  <2>4. interactive \in BOOLEAN /\ cloneCapable \in BOOLEAN /\ modelAborted \in BOOLEAN
    BY DEF ModelInit
  <2>5. QED
    BY <2>1, <2>2, <2>3, <2>4 DEF ModelTypeOK
<1>2. BaseFollowsModel /\ AttemptsCounted
  BY DEF ModelInit, BaseFollowsModel, AttemptsCounted, Active, Owners
<1>3. live = SessionsInUse
  BY DEF ModelInit, SessionsInUse
<1>4. QED
  BY <1>1, <1>2, <1>3 DEF ModelInv

\* The steps of the model before its base session is made.
LEMMA CreationStep ==
  ASSUME ModelInv, CreateModel \/ BackendSelected \/ SelectionFails
  PROVE  ModelInv'
<1> USE OdaiModelAssumption DEF ModelInv
<1>1. CASE CreateModel \/ SelectionFails
  <2>1. ModelTypeOK' /\ BaseFollowsModel' /\ AttemptsCounted'
    BY <1>1 DEF CreateModel, SelectionFails, ModelTypeOK, BaseFollowsModel, AttemptsCounted,
                Active, ModelStates, fixed
  <2>2. SessionsInUse' = SessionsInUse /\ live' = live
    BY <1>1, SessionsInUseUnchanged DEF CreateModel, SelectionFails
  <2>3. QED
    BY <2>1, <2>2
<1>2. CASE BackendSelected
  <2>1. pc[Base] = "idle" /\ attempt[Base] = 0 /\ Base \in Owners /\ NameProbe \in Owners
    BY <1>2 DEF BackendSelected, BaseFollowsModel, AttemptsCounted, Owners
  <2>2. ModelTypeOK'
    BY <1>2, <2>1 DEF BackendSelected, Begin, ModelTypeOK, ModelStates, Rungs, fixed
  <2>3. BaseFollowsModel' /\ AttemptsCounted'
    BY <1>2, <2>1 DEF BackendSelected, Begin, ModelTypeOK, BaseFollowsModel, AttemptsCounted, Active
  <2>4. SessionsInUse' = SessionsInUse /\ live' = live
    BY <1>2, <2>1 DEF BackendSelected, Begin, ModelTypeOK, SessionsInUse, SessionOf
  <2>5. QED
    BY <2>2, <2>3, <2>4
<1>3. QED
  BY <1>1, <1>2

\* The signal, and the end of the callback.
LEMMA StopsStep ==
  ASSUME ModelInv, AbortModel \/ Finish
  PROVE  ModelInv'
<1> USE OdaiModelAssumption DEF ModelInv
<1> DEFINE to == model'
           os == IF to = "ready" THEN Cancellable \ {Base} ELSE Cancellable
<1>1. /\ GiveUp(os) /\ modelAborted' = TRUE
      /\ UNCHANGED <<fixed, structured, attempt, rung>>
      /\ to \in {"failed", "finished", "ready"}
      /\ to = "ready" => model = "ready"
      /\ model # "idle"
  BY DEF AbortModel, Finish, Stops, ModelTypeOK, ModelStates
<1>2. os \in SUBSET Owners /\ Base \in Owners /\ Base # NameProbe
  BY DEF Cancellable, Owners
<1>3. ModelTypeOK' /\ AttemptsCounted'
  BY <1>1, <1>2, GiveUpType DEF ModelStates
<1>4. live' = SessionsInUse'
  BY <1>1, <1>2, GiveUpReleases
<1>5. BaseFollowsModel'
  BY <1>1, <1>2 DEF GiveUp, BaseFollowsModel, Cancellable, Active, ModelTypeOK
<1>6. QED
  BY <1>3, <1>4, <1>5

\* The steps of one request.
LEMMA RequestStep ==
  ASSUME ModelInv, NEW r \in Requests,
         RequestBegins(r) \/ AbortRequest(r) \/ NextAttempt(r) \/ RequestEnds(r)
  PROVE  ModelInv'
<1> USE OdaiModelAssumption DEF ModelInv
<1>0. r \in Owners /\ r # Base /\ r # NameProbe
  BY DEF Owners
<1>1. CASE RequestBegins(r)
  <2>1. attempt[r] = 0
    BY <1>0, <1>1 DEF RequestBegins, AttemptsCounted
  <2>2. ModelTypeOK'
    BY <1>0, <1>1, <2>1 DEF RequestBegins, Begin, ModelTypeOK, Rungs, fixed
  <2>3. BaseFollowsModel'
    <3>1. \/ pc' = [pc EXCEPT ![r] = "settled"]
          \/ pc' = [pc EXCEPT ![r] = "acquiring"]
      BY <1>1, Zenon DEF RequestBegins
    <3>2. pc'[Base] = pc[Base] /\ pc'[NameProbe] = pc[NameProbe] /\ model' = model
      BY <1>0, <1>1, <3>1 DEF RequestBegins, ModelTypeOK, Owners
    <3>3. QED
      BY <1>1, <3>2 DEF RequestBegins, BaseFollowsModel
  <2>4. AttemptsCounted'
    <3>1. ASSUME NEW o \in Owners
          PROVE  /\ pc'[o] = "idle" => attempt'[o] = 0
                 /\ Active(o)' => attempt'[o] > 0
      BY <1>0, <1>1, <2>1 DEF RequestBegins, Begin, ModelTypeOK, AttemptsCounted, Active
    <3>2. QED
      BY <3>1 DEF AttemptsCounted
  <2>5. SessionsInUse' = SessionsInUse /\ live' = live
    BY <1>0, <1>1 DEF RequestBegins, Begin, ModelTypeOK, SessionsInUse, SessionOf
  <2>6. QED
    BY <2>2, <2>3, <2>4, <2>5
<1>2. CASE AbortRequest(r) \/ RequestEnds(r)
  <2>1. GiveUp({r}) /\ UNCHANGED <<fixed, model, modelAborted, structured, attempt, rung>>
    BY <1>2 DEF AbortRequest, RequestEnds
  <2>2. ModelTypeOK' /\ AttemptsCounted'
    BY <1>0, <2>1, GiveUpType DEF ModelTypeOK
  <2>3. live' = SessionsInUse'
    BY <1>0, <2>1, GiveUpReleases
  <2>4. BaseFollowsModel'
    BY <1>0, <2>1 DEF GiveUp, BaseFollowsModel, ModelTypeOK, Owners
  <2>5. QED
    BY <2>2, <2>3, <2>4
<1>3. CASE NextAttempt(r)
  <2>1. ModelTypeOK'
    BY <1>0, <1>3 DEF NextAttempt, Begin, ModelTypeOK, Rungs, fixed
  <2>2. BaseFollowsModel' /\ AttemptsCounted'
    BY <1>0, <1>3 DEF NextAttempt, Begin, ModelTypeOK, BaseFollowsModel, AttemptsCounted, Active
  <2>3. ASSUME NEW x \in live'
        PROVE  x \in SessionsInUse'
    BY <1>0, <1>3, <2>3 DEF NextAttempt, Begin, ModelTypeOK, SessionsInUse, SessionOf
  <2>4. ASSUME NEW x \in SessionsInUse'
        PROVE  x \in live'
    BY <1>0, <1>3, <2>4 DEF NextAttempt, Begin, ModelTypeOK, SessionsInUse, SessionOf
  <2>5. QED
    BY <2>1, <2>2, <2>3, <2>4
<1>4. QED
  BY <1>1, <1>2, <1>3

\* The name detection ends.
LEMMA ProbeStep ==
  ASSUME ModelInv, ProbeAnswers \/ ProbeTimer
  PROVE  ModelInv'
<1> USE OdaiModelAssumption DEF ModelInv
<1>1. /\ Active(NameProbe) /\ GiveUp({NameProbe})
      /\ model' = IF model = "detecting" THEN "ready" ELSE model
      /\ UNCHANGED <<fixed, modelAborted, structured, attempt, rung>>
  BY DEF ProbeAnswers, ProbeTimer, ProbeEnds, Active
<1>2. {NameProbe} \in SUBSET Owners /\ Base \in Owners /\ Base # NameProbe
  BY DEF Owners
<1>3. ModelTypeOK' /\ AttemptsCounted'
  BY <1>1, <1>2, GiveUpType DEF ModelTypeOK, ModelStates
<1>4. live' = SessionsInUse'
  BY <1>1, <1>2, GiveUpReleases
<1>5. BaseFollowsModel'
  BY <1>1, <1>2 DEF GiveUp, BaseFollowsModel, Active, ModelTypeOK
<1>6. QED
  BY <1>3, <1>4, <1>5

\* The provider answers an owner.
LEMMA ProviderStep ==
  ASSUME ModelInv, NEW o \in Owners, Provider(o)
  PROVE  ModelInv'
<1> USE OdaiModelAssumption DEF ModelInv
<1>0. Base \in Owners /\ NameProbe \in Owners /\ Base # NameProbe
  BY DEF Owners
<1>1. CASE Arrives(o)
  <2>1. o = Base => model = "creating" /\ pc[NameProbe] = "idle" /\ attempt[NameProbe] = 0
    BY <1>0, <1>1 DEF Arrives, BaseFollowsModel, AttemptsCounted
  <2>2. attempt[o] \in 1 .. MaxAttempts
    BY <1>1 DEF Arrives, AttemptsCounted, Active, ModelTypeOK
  <2>3. ModelTypeOK'
    BY <1>0, <1>1, <2>1, <2>2
    DEF Arrives, Begin, ModelTypeOK, SessionOf, ModelStates, Rungs, fixed
  <2>4. BaseFollowsModel'
    BY <1>0, <1>1, <2>1 DEF Arrives, Begin, ModelTypeOK, BaseFollowsModel
  <2>5. AttemptsCounted'
    BY <1>0, <1>1, <2>1 DEF Arrives, Begin, ModelTypeOK, AttemptsCounted, Active
  <2>6. live' = SessionsInUse'
    <3>1. live' = live \cup {SessionOf(o)} /\ pc'[o] = "prompting" /\ attempt'[o] = attempt[o]
      BY <1>0, <1>1 DEF Arrives, Begin, ModelTypeOK
    <3>2. pc' \in [Owners -> {"idle", "acquiring", "prompting", "settled"}]
      BY <2>3 DEF ModelTypeOK
    <3>3. ASSUME NEW p \in Owners \ {o}
          PROVE  /\ (pc'[p] = "prompting") = (pc[p] = "prompting")
                 /\ pc[p] = "prompting" => attempt'[p] = attempt[p]
      BY <1>0, <1>1, <2>1 DEF Arrives, Begin, ModelTypeOK
    <3>4. QED
      BY <3>1, <3>2, <3>3, OneOwnerGains
  <2>7. QED
    BY <2>3, <2>4, <2>5, <2>6
<1>2. CASE ArrivesLate(o) \/ Unsupported(o)
  <2>1. ModelTypeOK' /\ BaseFollowsModel' /\ AttemptsCounted'
    BY <1>0, <1>2 DEF ArrivesLate, Unsupported, ModelTypeOK, BaseFollowsModel, AttemptsCounted,
                      Active, Rungs, fixed
  <2>2. SessionsInUse' = SessionsInUse /\ live' = live
    BY <1>2, SessionsInUseUnchanged DEF ArrivesLate, Unsupported
  <2>3. QED
    BY <2>1, <2>2
<1>3. CASE SessionFails(o)
  <2>1. ModelTypeOK'
    BY <1>0, <1>3 DEF SessionFails, ModelTypeOK, ModelStates, fixed
  <2>2. BaseFollowsModel' /\ AttemptsCounted'
    BY <1>0, <1>3 DEF SessionFails, ModelTypeOK, BaseFollowsModel, AttemptsCounted, Active
  <2>3. SessionsInUse' = SessionsInUse /\ live' = live
    BY <1>3 DEF SessionFails, ModelTypeOK, SessionsInUse, SessionOf
  <2>4. QED
    BY <2>1, <2>2, <2>3
<1>4. QED
  BY <1>1, <1>2, <1>3 DEF Provider

LEMMA StutterStep ==
  ASSUME ModelInv, UNCHANGED modelVars
  PROVE  ModelInv'
BY DEF ModelInv, modelVars, ModelTypeOK, BaseFollowsModel, AttemptsCounted, SessionsInUse, SessionOf, Active

\* Every state a model can reach has the inductive invariant: the sessions
\* that live are those of the owners that prompt, and the base session is made
\* and kept as the model's state says.
THEOREM ModelInvariant == ModelSpec => []ModelInv
<1>1. ModelInv /\ [ModelNext]_modelVars => ModelInv'
  BY CreationStep, StopsStep, RequestStep, ProbeStep, ProviderStep, StutterStep DEF ModelNext
<1>2. QED
  BY <1>1, ModelInvInit, PTL DEF ModelSpec

\* model.mts: every session is destroyed with the request, the detection or
\* the model that owns it, and never before.
THEOREM SessionsOwned == ModelSpec => []SessionsMatchOwners
<1>1. ModelInv => SessionsMatchOwners
  <2> SUFFICES ASSUME ModelInv PROVE SessionsMatchOwners
    OBVIOUS
  <2>1. SessionOf(Base) \in SessionsInUse <=> pc[Base] = "prompting"
    BY DEF SessionsInUse, SessionOf, Owners
  <2>2. QED
    BY <2>1 DEF ModelInv, BaseFollowsModel, SessionsMatchOwners
<1>2. QED
  BY <1>1, ModelInvariant, PTL

(***************************************************************************)
(* The reply of a stream.  The deltas that were sent are those merged so   *)
(* far and then those of the lines that wait, and "[DONE]" may follow them *)
(* once the answer has ended; what was merged is the fold of its deltas.   *)
(***************************************************************************)

Letters == UNION {Range(d) : d \in Deltas}
Texts == Seq(Letters)
Lines == [kind : {"delta", "done"}, text : Texts, newline : BOOLEAN]

LEMMA DeltasInTexts == Deltas \subseteq Texts /\ <<>> \in Texts
<1>1. ASSUME NEW d \in Deltas PROVE d \in Texts
  <2>1. d \in Seq(Range(d)) BY DeltasAreTexts
  <2>2. Range(d) \subseteq Letters BY DEF Letters
  <2> QED BY <2>1, <2>2, SeqMonotonic DEF Texts
<1> QED BY <1>1 DEF Texts

LEMMA MergedType == \A old, chunk \in Texts : Merged(old, chunk) \in Texts
  BY DEF Merged, Texts

LEMMA MergedFirst == \A chunk \in Texts : Merged(<<>>, chunk) = chunk
<1> TAKE chunk \in Texts
<1>1. chunk \in Seq(Letters) /\ Len(chunk) \in Nat BY DEF Texts
<1>2. SubSeq(chunk, 1, 0) = <<>> /\ SubSeq(<<>>, 1, 0) = <<>> /\ Len(<<>>) = 0 BY <1>1
<1>3. IsPrefix(<<>>, chunk) BY <1>1, <1>2 DEF IsPrefix
<1>4. CASE Len(chunk) > 0 BY <1>2, <1>3, <1>4 DEF Merged
<1>5. CASE Len(chunk) = 0
  <2>1. chunk = <<>> BY <1>1, <1>5, EmptySeq
  <2>2. <<>> \o <<>> = <<>> OBVIOUS
  <2> QED BY <1>2, <2>1, <2>2 DEF Merged
<1> QED BY <1>1, <1>4, <1>5

MergeStep(s) == [x \in (1 .. Len(s)) \X Texts |-> Merged(x[2], s[x[1]])]

\* mergeChunks: the merge of all deltas of an answer.
Whole(s) == FoldLeft(Merged, <<>>, s)

LEMMA MergeStepType ==
  ASSUME NEW s \in Seq(Texts) PROVE MergeStep(s) \in [(1 .. Len(s)) \X Texts -> Texts]
  BY MergedType DEF MergeStep

LEMMA WholeIsFold ==
  ASSUME NEW s \in Seq(Texts)
  PROVE  Whole(s) = FoldValue(Texts, <<>>, Len(s), MergeStep(s))
<1> DEFINE n == Len(s)
           Folded(g) == [t \in SUBSET (DOMAIN s) |->
                           IF t = {} THEN <<>>
                           ELSE Merged(g[t \ {Max(t)}], s[Max(t)])]
           iter == CHOOSE g : g = Folded(g)
           h == FoldFunctionUpTo(Texts, <<>>, n, MergeStep(s))
<1>1. Whole(s) = iter[DOMAIN s]
  BY DEF Whole, FoldLeft, MapThenFoldSet
<1>2. DOMAIN s = 1 .. n /\ n \in Nat
  OBVIOUS
<1>3. <<>> \in Texts
  BY DEF Texts
<1>4. h \in [SUBSET (1 .. n) -> Texts] /\ FoldsUpTo(h, n, <<>>, MergeStep(s))
  BY <1>2, <1>3, MergeStepType, FoldFunctionFolds
<1> HIDE DEF h, n
<1>5. ASSUME NEW t \in SUBSET (1 .. n), t # {}
      PROVE  h[t] = Merged(h[t \ {Max(t)}], s[Max(t)])
  <2>1. Max(t) \in 1 .. n /\ t \ {Max(t)} \in SUBSET (1 .. n)
    BY <1>2, <1>5, MaxOfInterval
  <2>2. h[t] = MergeStep(s)[<<Max(t), h[t \ {Max(t)}]>>]
    BY <1>4, <1>5 DEF FoldsUpTo
  <2>3. QED
    BY <1>4, <2>1, <2>2 DEF MergeStep, n
<1>6. h[{}] = <<>>
  BY <1>4 DEF FoldsUpTo
<1>7. h = Folded(h)
  BY <1>2, <1>4, <1>5, <1>6
<1>8. iter = Folded(iter)
  BY <1>7
<1> HIDE DEF iter
<1>9. iter[{}] = <<>>
  BY <1>2, <1>8
<1>10. \A t \in SUBSET (1 .. n) : t # {} => iter[t] = Merged(iter[t \ {Max(t)}], s[Max(t)])
  BY <1>2, <1>8
<1> DEFINE A == {t \in SUBSET (1 .. n) : iter[t] = h[t]}
<1>11. A \in SUBSET (SUBSET (1 .. n)) /\ {} \in A
  BY <1>6, <1>9
<1>12. \A t \in SUBSET (1 .. n) : t # {} /\ t \ {Max(t)} \in A => t \in A
  BY <1>5, <1>10
<1> HIDE DEF A
<1>13. A = SUBSET (1 .. n)
  BY <1>2, <1>11, <1>12, IndexInduction
<1>14. 1 .. n \in SUBSET (1 .. n)
  OBVIOUS
<1>15. iter[1 .. n] = h[1 .. n]
  BY <1>13, <1>14 DEF A
<1>16. QED
  BY <1>1, <1>2, <1>15 DEF FoldValue, h, n

LEMMA WholeNothing == Whole(<<>>) = <<>>
<1>1. <<>> \in Seq(Texts) /\ Len(<<>>) = 0 OBVIOUS
<1>2. MergeStep(<<>>) \in [(1 .. 0) \X Texts -> Texts] BY <1>1, MergeStepType
<1> QED BY <1>1, <1>2, WholeIsFold, FoldNothing, DeltasInTexts

LEMMA WholeType == \A s \in Seq(Texts) : Whole(s) \in Texts
<1> TAKE s \in Seq(Texts)
<1>1. Len(s) \in Nat OBVIOUS
<1>2. MergeStep(s) \in [(1 .. Len(s)) \X Texts -> Texts] BY MergeStepType
<1>3. FoldValue(Texts, <<>>, Len(s), MergeStep(s)) \in Texts BY <1>1, <1>2, FoldType, DeltasInTexts
<1> QED BY <1>3, WholeIsFold

LEMMA WholeAppend ==
  ASSUME NEW s \in Seq(Texts), NEW d \in Texts
  PROVE  Whole(Append(s, d)) = Merged(Whole(s), d)
<1> DEFINE n == Len(s)
           t == Append(s, d)
<1>1. n \in Nat /\ t \in Seq(Texts) /\ Len(t) = n + 1 /\ t[n + 1] = d
      /\ \A i \in 1 .. n : t[i] = s[i]
  OBVIOUS
<1>2. MergeStep(s) \in [(1 .. n) \X Texts -> Texts] BY MergeStepType
<1> HIDE DEF n, t
<1>3. MergeStep(t) \in [(1 .. n + 1) \X Texts -> Texts] BY <1>1, MergeStepType
<1>4. \A i \in 1 .. n, v \in Texts : MergeStep(t)[<<i, v>>] = MergeStep(s)[<<i, v>>]
  <2> TAKE i \in 1 .. n, v \in Texts
  <2>1. i \in 1 .. n + 1 BY <1>1
  <2> QED BY <1>1, <2>1 DEF MergeStep, n
<1>5. FoldValue(Texts, <<>>, n + 1, MergeStep(t))
        = MergeStep(t)[<<n + 1, FoldValue(Texts, <<>>, n, MergeStep(s))>>]
  BY <1>1, <1>2, <1>3, <1>4, FoldLast, DeltasInTexts
<1>6. Whole(s) = FoldValue(Texts, <<>>, n, MergeStep(s)) /\ Whole(s) \in Texts
  BY WholeIsFold, WholeType DEF n
<1>7. Whole(t) = MergeStep(t)[<<n + 1, Whole(s)>>] BY <1>1, <1>5, <1>6, WholeIsFold
<1>8. n + 1 \in 1 .. n + 1 BY <1>1
<1> QED BY <1>1, <1>6, <1>7, <1>8 DEF MergeStep, t

\* The lines that wait, u before a.
At(u, a, i) == IF i <= Len(u) THEN u[i] ELSE a[i - Len(u)]

\* Of the answer, read was merged to raw, and the last k deltas wait in lines.
Fits(u, a, over, sent, merged, k, read) ==
  /\ Len(sent) = Len(read) + k
  /\ \A i \in 1 .. Len(read) : read[i] = sent[i]
  /\ merged = Whole(read)
  /\ k = Len(u) + Len(a) \/ (over /\ k + 1 = Len(u) + Len(a))
  /\ \A i \in 1 .. Len(u) + Len(a) : At(u, a, i).kind = "delta" <=> i <= k
  /\ \A i \in 1 .. k : At(u, a, i).text = sent[Len(read) + i]
  /\ \A i \in 1 .. Len(u) + Len(a) : i < Len(u) + Len(a) \/ ~ over => At(u, a, i).newline

\* The server sends one delta more.
LEMMA FitsSent ==
  ASSUME NEW u \in Seq(Lines), NEW a \in Seq(Lines), NEW sent \in Seq(Texts),
         NEW read \in Seq(Texts), NEW merged, NEW k \in Nat,
         Fits(u, a, FALSE, sent, merged, k, read), NEW d \in Texts
  PROVE  Fits(u, Append(a, Delta(d)), FALSE, Append(sent, d), merged, k + 1, read)
<1> DEFINE b == Append(a, Delta(d))
           more == Append(sent, d)
<1>1. /\ Len(u) \in Nat /\ Len(a) \in Nat /\ Len(sent) \in Nat /\ Len(read) \in Nat
      /\ Len(b) = Len(a) + 1 /\ b[Len(a) + 1] = Delta(d) /\ \A i \in 1 .. Len(a) : b[i] = a[i]
      /\ Len(more) = Len(sent) + 1 /\ more[Len(sent) + 1] = d
      /\ \A i \in 1 .. Len(sent) : more[i] = sent[i]
  BY DEF Delta, Lines
<1>2. Delta(d).kind = "delta" /\ Delta(d).text = d /\ Delta(d).newline = TRUE BY DEF Delta
<1> HIDE DEF b, more
<1>3. /\ Len(sent) = Len(read) + k /\ k = Len(u) + Len(a)
      /\ \A i \in 1 .. Len(read) : read[i] = sent[i]
      /\ merged = Whole(read)
      /\ \A i \in 1 .. k : At(u, a, i).kind = "delta" /\ At(u, a, i).newline
                           /\ At(u, a, i).text = sent[Len(read) + i]
  BY <1>1 DEF Fits
<1>4. \A i \in 1 .. k : At(u, b, i) = At(u, a, i)
  <2> TAKE i \in 1 .. k
  <2>1. ~ (i <= Len(u)) => i - Len(u) \in 1 .. Len(a) BY <1>1, <1>3
  <2> QED BY <1>1, <2>1 DEF At
<1>5. At(u, b, k + 1) = Delta(d) BY <1>1, <1>3 DEF At
<1>6. \A i \in 1 .. Len(read) : read[i] = more[i] BY <1>1, <1>3
<1>7. \A i \in 1 .. k : more[Len(read) + i] = sent[Len(read) + i] BY <1>1, <1>3
<1>8. more[Len(read) + (k + 1)] = d BY <1>1, <1>3
<1>9. \A i \in 1 .. k + 1 : i \in 1 .. k \/ i = k + 1 OBVIOUS
<1>10. \A i \in 1 .. k + 1 : /\ At(u, b, i).kind = "delta" /\ At(u, b, i).newline
                             /\ At(u, b, i).text = more[Len(read) + i]
  BY <1>2, <1>3, <1>4, <1>5, <1>7, <1>8, <1>9
<1>11. Len(u) + Len(b) = k + 1 BY <1>1, <1>3
<1>12. Len(more) = Len(read) + (k + 1) BY <1>1, <1>3
<1> HIDE DEF At
<1>13. Fits(u, b, FALSE, more, merged, k + 1, read)
  BY <1>3, <1>6, <1>10, <1>11, <1>12 DEF Fits
<1> QED BY <1>13 DEF b, more

\* The server ends its answer.
LEMMA FitsEnded ==
  ASSUME NEW u \in Seq(Lines), NEW a \in Seq(Lines), NEW b \in Seq(Lines), NEW sent \in Seq(Texts),
         NEW read \in Seq(Texts), NEW merged, NEW k \in Nat,
         Fits(u, a, FALSE, sent, merged, k, read),
         Len(b) = Len(a) \/ (Len(b) = Len(a) + 1 /\ b[Len(a) + 1].kind = "done"),
         \A i \in 1 .. Len(a) : b[i].kind = a[i].kind /\ b[i].text = a[i].text,
         \A i \in 1 .. Len(a) : i < Len(b) => b[i].newline = a[i].newline
  PROVE  Fits(u, b, TRUE, sent, merged, k, read)
<1>1. Len(u) \in Nat /\ Len(a) \in Nat /\ Len(b) \in Nat OBVIOUS
<1>2. k = Len(u) + Len(a) BY DEF Fits
<1>3. \A i \in 1 .. k : /\ At(u, b, i).kind = At(u, a, i).kind
                        /\ At(u, b, i).text = At(u, a, i).text
                        /\ i < Len(u) + Len(b) => At(u, b, i).newline = At(u, a, i).newline
  BY <1>1, <1>2 DEF At
<1>4. \A i \in 1 .. k : /\ At(u, a, i).kind = "delta" /\ At(u, a, i).newline
                        /\ At(u, a, i).text = sent[Len(read) + i]
  BY <1>1, <1>2 DEF Fits
<1>5. Len(b) = Len(a) + 1 => At(u, b, k + 1).kind = "done" BY <1>1, <1>2 DEF At
<1>6. \A i \in 1 .. Len(u) + Len(b) : i \in 1 .. k \/ (i = k + 1 /\ Len(b) = Len(a) + 1) BY <1>1, <1>2
<1>7. k = Len(u) + Len(b) \/ k + 1 = Len(u) + Len(b) BY <1>1, <1>2
<1>8. \A i \in 1 .. Len(u) + Len(b) : At(u, b, i).kind = "delta" <=> i <= k
  <2> TAKE i \in 1 .. Len(u) + Len(b)
  <2>1. CASE i \in 1 .. k
    <3>1. At(u, b, i).kind = "delta" BY <1>3, <1>4, <2>1
    <3>2. i <= k BY <2>1
    <3> QED BY <3>1, <3>2
  <2>2. CASE i = k + 1 /\ Len(b) = Len(a) + 1
    <3>1. ~ (i <= k) BY <2>2
    <3> QED BY <1>5, <2>2, <3>1
  <2> QED BY <1>6, <2>1, <2>2
<1>9. \A i \in 1 .. k : At(u, b, i).text = sent[Len(read) + i] BY <1>3, <1>4
<1>10. \A i \in 1 .. Len(u) + Len(b) : i < Len(u) + Len(b) => At(u, b, i).newline
  <2> SUFFICES ASSUME NEW i \in 1 .. Len(u) + Len(b), i < Len(u) + Len(b)
               PROVE  At(u, b, i).newline
    OBVIOUS
  <2>1. i \in 1 .. k BY <1>1, <1>2, <1>6
  <2> QED BY <1>3, <1>4, <2>1
<1>11. /\ Len(sent) = Len(read) + k /\ merged = Whole(read)
       /\ \A i \in 1 .. Len(read) : read[i] = sent[i]
  BY DEF Fits
<1> QED BY <1>7, <1>8, <1>9, <1>10, <1>11 DEF Fits

\* read() brings the first n lines.
LEMMA FitsFound ==
  ASSUME NEW a \in Seq(Lines), NEW over, NEW sent \in Seq(Texts),
         NEW read \in Seq(Texts), NEW merged, NEW k \in Nat,
         Fits(<<>>, a, over, sent, merged, k, read), NEW n \in 1 .. Len(a)
  PROVE  Fits(SubSeq(a, 1, n), SubSeq(a, n + 1, Len(a)), over, sent, merged, k, read)
<1> DEFINE u == SubSeq(a, 1, n)
           b == SubSeq(a, n + 1, Len(a))
<1>0. Len(a) \in Nat /\ n \in Nat /\ n <= Len(a) OBVIOUS
<1>1. /\ Len(u) = n /\ \A i \in 1 .. n : u[i] = a[i]
      /\ Len(b) = Len(a) - n /\ \A i \in 1 .. Len(a) - n : b[i] = a[n + i]
  BY <1>0, SubSeqProperties
<1> HIDE DEF u, b
<1>2. Len(u) + Len(b) = Len(<<>>) + Len(a) BY <1>0, <1>1
<1>3. \A i \in 1 .. Len(<<>>) + Len(a) : At(u, b, i) = At(<<>>, a, i)
  <2> TAKE i \in 1 .. Len(<<>>) + Len(a)
  <2>1. i \in 1 .. Len(a) /\ At(<<>>, a, i) = a[i] BY <1>0 DEF At
  <2>2. CASE i <= n BY <1>0, <1>1, <2>1, <2>2 DEF At
  <2>3. CASE ~ (i <= n)
    <3>1. i - n \in 1 .. Len(a) - n /\ n + (i - n) = i BY <1>0, <2>1, <2>3
    <3> QED BY <1>1, <2>1, <2>3, <3>1 DEF At
  <2> QED BY <2>2, <2>3
<1>4. k <= Len(<<>>) + Len(a) BY <1>0 DEF Fits
<1> DEFINE m == Len(<<>>) + Len(a)
<1>5. Len(u) + Len(b) = m /\ k <= m /\ m \in Nat BY <1>0, <1>2, <1>4
<1>6. /\ k = m \/ (over /\ k + 1 = m)
      /\ \A i \in 1 .. m : At(<<>>, a, i).kind = "delta" <=> i <= k
      /\ \A i \in 1 .. k : At(<<>>, a, i).text = sent[Len(read) + i]
      /\ \A i \in 1 .. m : i < m \/ ~ over => At(<<>>, a, i).newline
  BY DEF Fits
<1>7. \A i \in 1 .. m : At(u, b, i) = At(<<>>, a, i) BY <1>3
<1> HIDE DEF m
<1>8. 1 .. k \subseteq 1 .. m BY <1>5
<1>9. /\ k = m \/ (over /\ k + 1 = m)
      /\ \A i \in 1 .. m : At(u, b, i).kind = "delta" <=> i <= k
      /\ \A i \in 1 .. k : At(u, b, i).text = sent[Len(read) + i]
      /\ \A i \in 1 .. m : i < m \/ ~ over => At(u, b, i).newline
  BY <1>6, <1>7, <1>8
<1>10. /\ Len(sent) = Len(read) + k /\ merged = Whole(read)
       /\ \A i \in 1 .. Len(read) : read[i] = sent[i]
  BY DEF Fits
<1>11. Fits(u, b, over, sent, merged, k, read) BY <1>5, <1>9, <1>10 DEF Fits
<1> QED BY <1>11 DEF u, b

\* A delta is merged.
LEMMA FitsMerged ==
  ASSUME NEW u \in Seq(Lines), NEW a \in Seq(Lines), NEW over, NEW sent \in Seq(Texts),
         NEW read \in Seq(Texts), NEW merged, NEW k \in Nat,
         Fits(u, a, over, sent, merged, k, read), u # <<>>, Head(u).kind = "delta"
  PROVE  /\ k > 0 /\ Append(read, Head(u).text) \in Seq(Texts)
         /\ Fits(Tail(u), a, over, sent, Merged(merged, Head(u).text), k - 1,
                 Append(read, Head(u).text))
<1> DEFINE d == Head(u).text
           v == Tail(u)
           more == Append(read, d)
<1>1. Len(u) \in Nat /\ Len(u) > 0 /\ Len(a) \in Nat /\ Len(read) \in Nat /\ u[1] = Head(u)
      /\ u[1] \in Lines
  OBVIOUS
<1>2. d \in Texts BY <1>1 DEF Lines
<1>3. Len(v) = Len(u) - 1 /\ \A i \in 1 .. Len(v) : v[i] = u[i + 1] BY <1>1, HeadTailProperties
<1> HIDE DEF d, v
<1>4. /\ more \in Seq(Texts) /\ Len(more) = Len(read) + 1 /\ more[Len(read) + 1] = d
      /\ \A i \in 1 .. Len(read) : more[i] = read[i]
  BY <1>2
<1>5. Whole(more) = Merged(Whole(read), d) BY <1>2, WholeAppend
<1> HIDE DEF more
<1>6. At(u, a, 1) = u[1] /\ 1 \in 1 .. Len(u) + Len(a) BY <1>1 DEF At
<1>7. k >= 1 /\ sent[Len(read) + 1] = d /\ k \in Nat
  <2>1. u[1].kind = "delta" BY <1>1
  <2>2. 1 <= k BY <1>6, <2>1 DEF Fits
  <2>3. At(u, a, 1).text = sent[Len(read) + 1] BY <2>2 DEF Fits
  <2> QED BY <1>1, <1>6, <2>2, <2>3 DEF d
<1>8. \A i \in 1 .. Len(v) + Len(a) : /\ At(v, a, i) = At(u, a, i + 1)
                                     /\ i + 1 \in 1 .. Len(u) + Len(a)
  <2> TAKE i \in 1 .. Len(v) + Len(a)
  <2>1. i \in Nat /\ i >= 1 /\ i <= Len(u) - 1 + Len(a) BY <1>1, <1>3
  <2>2. CASE i <= Len(v)
    <3>1. i \in 1 .. Len(v) /\ i + 1 <= Len(u) BY <1>1, <1>3, <2>1, <2>2
    <3> QED BY <1>1, <1>3, <2>1, <2>2, <3>1 DEF At
  <2>3. CASE ~ (i <= Len(v))
    <3>1. ~ (i + 1 <= Len(u)) /\ i - Len(v) = (i + 1) - Len(u) BY <1>1, <1>3, <2>1, <2>3
    <3> QED BY <1>1, <1>3, <2>1, <2>3, <3>1 DEF At
  <2> QED BY <2>2, <2>3
<1>9. Len(v) + Len(a) = Len(u) + Len(a) - 1 BY <1>1, <1>3
<1>10. Len(sent) = Len(more) + (k - 1) BY <1>1, <1>4, <1>7 DEF Fits
<1>11. \A i \in 1 .. Len(more) : more[i] = sent[i]
  <2> TAKE i \in 1 .. Len(more)
  <2>1. i \in 1 .. Len(read) \/ i = Len(read) + 1 BY <1>1, <1>4
  <2> QED BY <1>4, <1>7, <2>1 DEF Fits
<1>12. k - 1 = Len(v) + Len(a) \/ (over /\ (k - 1) + 1 = Len(v) + Len(a))
  BY <1>1, <1>7, <1>9 DEF Fits
<1>13. \A i \in 1 .. Len(v) + Len(a) : At(v, a, i).kind = "delta" <=> i <= k - 1
  <2> TAKE i \in 1 .. Len(v) + Len(a)
  <2>1. At(u, a, i + 1).kind = "delta" <=> i + 1 <= k BY <1>8 DEF Fits
  <2>2. i + 1 <= k <=> i <= k - 1 BY <1>7
  <2> QED BY <1>8, <2>1, <2>2
<1>14. \A i \in 1 .. k - 1 : At(v, a, i).text = sent[Len(more) + i]
  <2> TAKE i \in 1 .. k - 1
  <2>1. i + 1 \in 1 .. k /\ i \in 1 .. Len(v) + Len(a) /\ Len(more) + i = Len(read) + (i + 1)
    BY <1>1, <1>3, <1>4, <1>7, <1>12
  <2>2. At(u, a, i + 1).text = sent[Len(read) + (i + 1)] BY <2>1 DEF Fits
  <2> QED BY <1>8, <2>1, <2>2
<1>15. \A i \in 1 .. Len(v) + Len(a) : i < Len(v) + Len(a) \/ ~ over => At(v, a, i).newline
  <2> TAKE i \in 1 .. Len(v) + Len(a)
  <2>1. i < Len(v) + Len(a) => i + 1 < Len(u) + Len(a) BY <1>1, <1>3
  <2>2. i + 1 < Len(u) + Len(a) \/ ~ over => At(u, a, i + 1).newline BY <1>8 DEF Fits
  <2> QED BY <1>8, <2>1, <2>2
<1>16. Merged(merged, d) = Whole(more) BY <1>5 DEF Fits
<1>17. Fits(v, a, over, sent, Merged(merged, d), k - 1, more)
  BY <1>10, <1>11, <1>12, <1>13, <1>14, <1>15, <1>16 DEF Fits
<1> QED BY <1>4, <1>7, <1>17 DEF d, v, more

\* With no delta left, all of the answer was merged.
LEMMA FitsWhole ==
  ASSUME NEW u, NEW a, NEW over, NEW sent \in Seq(Texts), NEW read \in Seq(Texts), NEW merged,
         Fits(u, a, over, sent, merged, 0, read)
  PROVE  merged = Whole(sent)
<1>1. Len(sent) = Len(read) /\ \A i \in 1 .. Len(read) : read[i] = sent[i] BY DEF Fits
<1>2. read = sent BY <1>1, SeqEqual
<1> QED BY <1>2 DEF Fits

\* Where the text of a call is while it has no value, and what it is then.  A
\* call that failed has no text to account for.
ReplyOf(c) ==
  IF stream[c] = "value" THEN ended[c] /\ raw[c] = Whole(answer[c])
  ELSE stream[c] # "error" =>
       /\ c \in plain => unparsed[c] = <<>> /\ Len(answer[c]) <= 1
       /\ \E k \in Nat, read \in Seq(Texts) :
            Fits(unparsed[c], arriving[c], ended[c], answer[c], raw[c], k, read)

ReplyInv ==
  /\ DOMAIN answer = Streams /\ \A c \in Streams : answer[c] \in Seq(Texts)
  /\ \A c \in Streams : ReplyOf(c)

LEMMA WaitingLines ==
  ASSUME StreamsInv, NEW c \in Streams
  PROVE  arriving[c] \in Seq(Lines) /\ unparsed[c] \in Seq(Lines)
<1>1. LinesOf(c) \subseteq Lines BY DeltasInTexts DEF LinesOf, Lines
<1> QED BY <1>1, SeqMonotonic DEF StreamsInv, StreamTypes

LEMMA ReplyInit == StreamsInit => ReplyInv
<1> SUFFICES ASSUME StreamsInit PROVE ReplyInv OBVIOUS
<1>1. Fits(<<>>, <<>>, FALSE, <<>>, <<>>, 0, <<>>)
  <2>1. Len(<<>>) = 0 /\ 1 .. 0 = {} OBVIOUS
  <2> QED BY <2>1, WholeNothing DEF Fits
<1>2. \A c \in Streams : ReplyOf(c)
  <2> TAKE c \in Streams
  <2>1. /\ stream[c] = "none" /\ unparsed[c] = <<>> /\ arriving[c] = <<>> /\ ended[c] = FALSE
        /\ answer[c] = <<>> /\ raw[c] = <<>>
    BY DEF StreamsInit
  <2>2. Len(<<>>) <= 1 /\ 0 \in Nat /\ <<>> \in Seq(Texts) OBVIOUS
  <2> QED BY <1>1, <2>1, <2>2 DEF ReplyOf
<1>3. DOMAIN answer = Streams /\ \A c \in Streams : answer[c] \in Seq(Texts) BY DEF StreamsInit
<1> QED BY <1>2, <1>3 DEF ReplyInv

\* A step that changes the text and the answer of no call, and gives none a value.
LEMMA ReplyStays ==
  ASSUME ReplyInv, UNCHANGED <<plain, server, text>>,
         \A c \in Streams : /\ stream'[c] = "value" <=> stream[c] = "value"
                            /\ stream[c] = "error" => stream'[c] = "error"
  PROVE  ReplyInv'
<1>1. \A c \in Streams : ReplyOf(c) => ReplyOf(c)' BY DEF ReplyOf, server, text
<1> QED BY <1>1 DEF ReplyInv, server

\* A step of one call.
LEMMA ReplyFrame ==
  ASSUME ReplyInv, NEW c \in Streams, ReplyOf(c)', UNCHANGED plain,
         DOMAIN answer' = Streams, answer'[c] \in Seq(Texts),
         \A d \in Streams \ {c} :
           /\ answer'[d] = answer[d] /\ ended'[d] = ended[d] /\ raw'[d] = raw[d]
           /\ arriving'[d] = arriving[d] /\ unparsed'[d] = unparsed[d] /\ stream'[d] = stream[d]
  PROVE  ReplyInv'
<1>1. \A d \in Streams \ {c} : ReplyOf(d)' <=> ReplyOf(d) BY DEF ReplyOf
<1> QED BY <1>1 DEF ReplyInv

LEMMA ReplyCall ==
  ASSUME StreamsInv, ReplyInv, NEW c \in Streams,
         \/ Posts(c) \/ Responds(c) \/ CallerAborts(c) \/ RequestTimesOut(c) \/ ReadFails(c)
         \/ SessionDestroys
  PROVE  ReplyInv'
<1>1. UNCHANGED <<plain, server, text>>
  BY DEF Posts, Responds, CallerAborts, RequestTimesOut, ReadFails, SessionDestroys, signals
<1>2. \A d \in Streams : /\ stream'[d] = "value" <=> stream[d] = "value"
                         /\ stream[d] = "error" => stream'[d] = "error"
  BY DEF Posts, Responds, CallerAborts, RequestTimesOut, ReadFails, SessionDestroys, Under,
     StreamsInv, StreamTypes
<1> QED BY <1>1, <1>2, ReplyStays

LEMMA ReplySends ==
  ASSUME StreamsInv, ReplyInv, NEW c \in Streams, SendsDelta(c)
  PROVE  ReplyInv'
<1>1. UNCHANGED <<plain, stream, ended, unparsed, raw>> /\ ~ ended[c]
      /\ Len(answer[c]) < (IF c \in plain THEN 1 ELSE MaxDeltas)
  BY DEF SendsDelta, Sending, signals
<1>2. PICK d \in Deltas : /\ answer' = [answer EXCEPT ![c] = Append(answer[c], d)]
                          /\ arriving' = [arriving EXCEPT ![c] = Append(arriving[c], Delta(d))]
  BY DEF SendsDelta
<1>3. /\ d \in Texts /\ arriving[c] \in Seq(Lines) /\ unparsed[c] \in Seq(Lines)
      /\ answer[c] \in Seq(Texts)
  BY DeltasInTexts, WaitingLines DEF ReplyInv
<1>4. stream[c] # "value" BY <1>1 DEF ReplyInv, ReplyOf
<1>6. ended[c] = FALSE BY <1>1 DEF StreamsInv, StreamTypes
<1>8. /\ answer'[c] = Append(answer[c], d) /\ arriving'[c] = Append(arriving[c], Delta(d))
      /\ DOMAIN answer' = Streams
      /\ \A e \in Streams \ {c} : answer'[e] = answer[e] /\ arriving'[e] = arriving[e]
  BY <1>2 DEF ReplyInv, StreamsInv, StreamTypes
<1>9. ASSUME stream[c] # "error" PROVE ReplyOf(c)'
  <2>1. PICK k \in Nat, read \in Seq(Texts) :
          Fits(unparsed[c], arriving[c], ended[c], answer[c], raw[c], k, read)
    BY <1>4, <1>9 DEF ReplyInv, ReplyOf
  <2>2. Fits(unparsed[c], Append(arriving[c], Delta(d)), FALSE, Append(answer[c], d), raw[c],
             k + 1, read)
    BY <1>3, <1>6, <2>1, FitsSent
  <2>3. c \in plain => unparsed[c] = <<>> /\ Len(answer'[c]) <= 1
    <3>1. Len(Append(answer[c], d)) = Len(answer[c]) + 1 /\ Len(answer[c]) \in Nat BY <1>3
    <3> QED BY <1>1, <1>4, <1>8, <1>9, <3>1 DEF ReplyInv, ReplyOf
  <2>4. k + 1 \in Nat OBVIOUS
  <2> QED BY <1>1, <1>4, <1>6, <1>8, <2>2, <2>3, <2>4 DEF ReplyOf
<1>10. ASSUME stream[c] = "error" PROVE ReplyOf(c)'
  BY <1>1, <1>10 DEF ReplyOf
<1>11. ReplyOf(c)' BY <1>9, <1>10
<1>12. answer'[c] \in Seq(Texts) BY <1>3, <1>8
<1> QED BY <1>1, <1>8, <1>11, <1>12, ReplyFrame

LEMMA ReplyEnds ==
  ASSUME StreamsInv, ReplyInv, NEW c \in Streams, EndsAnswer(c)
  PROVE  ReplyInv'
<1>0. StreamsInv' BY AnswerStep
<1>1. UNCHANGED <<plain, stream, answer, unparsed, raw>> /\ ~ ended[c]
      /\ ended' = [ended EXCEPT ![c] = TRUE]
  BY DEF EndsAnswer, Sending, signals
<1>2. PICK marked \in BOOLEAN, newline \in BOOLEAN :
        LET all == IF marked THEN Append(arriving[c], DoneLine) ELSE arriving[c]
        IN arriving' = [arriving EXCEPT ![c] =
             IF all = <<>> THEN all ELSE [all EXCEPT ![Len(all)].newline = newline]]
  BY DEF EndsAnswer
<1> DEFINE a == arriving[c]
           all == IF marked THEN Append(a, DoneLine) ELSE a
           b == arriving'[c]
<1>3. /\ a \in Seq(Lines) /\ unparsed[c] \in Seq(Lines) /\ answer[c] \in Seq(Texts)
      /\ b \in Seq(Lines)
  <2>1. LinesOf(c)' \subseteq Lines BY DeltasInTexts DEF LinesOf, Lines
  <2>2. b \in Seq(LinesOf(c)') BY <1>0 DEF StreamsInv, StreamTypes
  <2>3. b \in Seq(Lines) BY <2>1, <2>2, SeqMonotonic
  <2> QED BY <2>3, WaitingLines DEF ReplyInv
<1>4. b = IF all = <<>> THEN all
          ELSE [all EXCEPT ![Len(all)] = [all[Len(all)] EXCEPT !.newline = newline]]
  BY <1>2 DEF StreamsInv, StreamTypes
<1>5. DoneLine \in Lines /\ DoneLine.kind = "done" BY DeltasInTexts DEF DoneLine, Lines
<1>6. /\ all \in Seq(Lines)
      /\ \/ Len(all) = Len(a)
         \/ Len(all) = Len(a) + 1 /\ all[Len(a) + 1] = DoneLine
      /\ \A i \in 1 .. Len(a) : all[i] = a[i]
  BY <1>3, <1>5
<1> HIDE DEF all
<1>7. /\ Len(b) = Len(all)
      /\ \A i \in 1 .. Len(all) : /\ b[i].kind = all[i].kind /\ b[i].text = all[i].text
                                  /\ i < Len(all) => b[i].newline = all[i].newline
  <2>1. CASE all = <<>>
    <3>1. Len(all) = 0 /\ b = all BY <1>4, <2>1
    <3> QED BY <3>1
  <2>2. CASE all # <<>>
    <3> DEFINE l == all[Len(all)]
               m == [l EXCEPT !.newline = newline]
    <3>1. Len(all) \in 1 .. Len(all) /\ l \in Lines BY <1>6, <2>2, EmptySeq, LenProperties, ElementOfSeq
    <3>2. m.kind = l.kind /\ m.text = l.text /\ m \in Lines BY <3>1 DEF Lines
    <3>3. b = [all EXCEPT ![Len(all)] = m] BY <1>4, <2>2
    <3> HIDE DEF l, m
    <3>4. /\ Len(b) = Len(all) /\ b[Len(all)] = m
          /\ \A i \in 1 .. Len(all) : i # Len(all) => b[i] = all[i]
      BY <1>6, <3>1, <3>2, <3>3, ExceptSeq
    <3>5. \A i \in 1 .. Len(all) : i < Len(all) => i # Len(all) BY <3>1
    <3> QED BY <3>2, <3>4, <3>5 DEF l
  <2> QED BY <2>1, <2>2
<1>8. stream[c] # "value" BY <1>1 DEF ReplyInv, ReplyOf
<1>10. ended[c] = FALSE /\ ended'[c] = TRUE BY <1>1 DEF StreamsInv, StreamTypes
<1>11. Len(a) \in Nat BY <1>3
<1> HIDE DEF a, b
<1>12. /\ Len(b) = Len(a) \/ (Len(b) = Len(a) + 1 /\ b[Len(a) + 1].kind = "done")
       /\ \A i \in 1 .. Len(a) : b[i].kind = a[i].kind /\ b[i].text = a[i].text
       /\ \A i \in 1 .. Len(a) : i < Len(b) => b[i].newline = a[i].newline
  <2>1. \A i \in 1 .. Len(a) : i \in 1 .. Len(all) BY <1>6, <1>11
  <2>2. Len(all) = Len(a) + 1 => Len(a) + 1 \in 1 .. Len(all) BY <1>11
  <2> QED BY <1>5, <1>6, <1>7, <2>1, <2>2
<1>9. ASSUME stream[c] # "error" PROVE ReplyOf(c)'
  <2>1. PICK k \in Nat, read \in Seq(Texts) :
          Fits(unparsed[c], a, ended[c], answer[c], raw[c], k, read)
    BY <1>8, <1>9 DEF ReplyInv, ReplyOf, a
  <2>2. Fits(unparsed[c], b, TRUE, answer[c], raw[c], k, read)
    BY <1>3, <1>10, <1>12, <2>1, FitsEnded
  <2> QED BY <1>1, <1>8, <1>9, <1>10, <2>2 DEF ReplyInv, ReplyOf, b
<1>13. ASSUME stream[c] = "error" PROVE ReplyOf(c)'
  BY <1>1, <1>13 DEF ReplyOf
<1>14. ReplyOf(c)' BY <1>9, <1>13
<1>15. /\ DOMAIN answer' = Streams /\ answer'[c] \in Seq(Texts)
       /\ \A d \in Streams \ {c} : ended'[d] = ended[d] /\ arriving'[d] = arriving[d]
  BY <1>1, <1>2, <1>3 DEF ReplyInv, StreamsInv, StreamTypes
<1> QED BY <1>1, <1>14, <1>15, ReplyFrame

LEMMA ReplyReads ==
  ASSUME StreamsInv, ReplyInv, NEW c \in Streams, ReadsBody(c)
  PROVE  ReplyInv'
<1>1. /\ UNCHANGED <<plain, stream, answer, ended, raw>>
      /\ c \notin plain /\ stream[c] = "reading" /\ unparsed[c] = <<>>
  BY DEF ReadsBody, signals, server
<1>2. PICK n \in 1 .. Len(arriving[c]) :
        /\ unparsed' = [unparsed EXCEPT ![c] = SubSeq(arriving[c], 1, n)]
        /\ arriving' = [arriving EXCEPT ![c] = SubSeq(arriving[c], n + 1, Len(arriving[c]))]
  BY DEF ReadsBody
<1>3. arriving[c] \in Seq(Lines) /\ answer[c] \in Seq(Texts)
  BY WaitingLines DEF ReplyInv
<1>4. PICK k \in Nat, read \in Seq(Texts) :
        Fits(<<>>, arriving[c], ended[c], answer[c], raw[c], k, read)
  BY <1>1 DEF ReplyInv, ReplyOf
<1>5. Fits(SubSeq(arriving[c], 1, n), SubSeq(arriving[c], n + 1, Len(arriving[c])), ended[c],
           answer[c], raw[c], k, read)
  BY <1>3, <1>4, FitsFound
<1>6. /\ unparsed'[c] = SubSeq(arriving[c], 1, n)
      /\ arriving'[c] = SubSeq(arriving[c], n + 1, Len(arriving[c]))
      /\ \A d \in Streams \ {c} : unparsed'[d] = unparsed[d] /\ arriving'[d] = arriving[d]
  BY <1>2 DEF StreamsInv, StreamTypes
<1>7. ReplyOf(c)' BY <1>1, <1>5, <1>6 DEF ReplyOf
<1> QED BY <1>1, <1>6, <1>7, ReplyFrame DEF ReplyInv

\* The first line of those that were read.
LEMMA FirstLine ==
  ASSUME NEW u \in Seq(Lines), u # <<>>
  PROVE  /\ Head(u) = u[1] /\ Head(u) \in Lines /\ Len(u) \in Nat /\ Len(u) >= 1
         /\ Len(Tail(u)) = Len(u) - 1 /\ Head(u).kind \in {"delta", "done"}
<1>1. Len(u) \in Nat /\ Len(u) >= 1 /\ Head(u) = u[1] /\ u[1] \in Lines OBVIOUS
<1>2. Len(Tail(u)) = Len(u) - 1 BY HeadTailProperties
<1> QED BY <1>1, <1>2 DEF Lines

LEMMA ReplyYields ==
  ASSUME StreamsInv, ReplyInv, NEW c \in Streams, Yields(c)
  PROVE  ReplyInv'
<1> DEFINE d == Head(unparsed[c]).text
<1>1. /\ UNCHANGED <<plain, answer, ended, arriving>>
      /\ stream[c] = "reading" /\ unparsed[c] # <<>> /\ Head(unparsed[c]).kind = "delta"
      /\ raw' = [raw EXCEPT ![c] = Merged(raw[c], d)]
      /\ unparsed' = [unparsed EXCEPT ![c] = Tail(unparsed[c])]
  BY DEF Yields, HasLineOf, LineOf, signals, server
<1>2. \/ stream' = [stream EXCEPT ![c] = "reading"]
      \/ stream' = [stream EXCEPT ![c] = "error"]
  BY DEF Yields, Under
<1>3. /\ unparsed[c] \in Seq(Lines) /\ arriving[c] \in Seq(Lines) /\ answer[c] \in Seq(Texts)
  BY WaitingLines DEF ReplyInv
<1>4. /\ raw'[c] = Merged(raw[c], d) /\ unparsed'[c] = Tail(unparsed[c]) /\ stream'[c] # "value"
      /\ \A e \in Streams \ {c} :
           raw'[e] = raw[e] /\ unparsed'[e] = unparsed[e] /\ stream'[e] = stream[e]
  BY <1>1, <1>2 DEF StreamsInv, StreamTypes
<1>5. PICK k \in Nat, read \in Seq(Texts) :
        Fits(unparsed[c], arriving[c], ended[c], answer[c], raw[c], k, read)
  BY <1>1 DEF ReplyInv, ReplyOf
<1>6. c \notin plain BY <1>1 DEF ReplyInv, ReplyOf
<1>7. /\ k > 0 /\ Append(read, d) \in Seq(Texts)
      /\ Fits(Tail(unparsed[c]), arriving[c], ended[c], answer[c], Merged(raw[c], d), k - 1,
              Append(read, d))
  BY <1>1, <1>3, <1>5, FitsMerged
<1>8. k - 1 \in Nat BY <1>7
<1>9. ReplyOf(c)' BY <1>1, <1>4, <1>6, <1>7, <1>8 DEF ReplyOf
<1> QED BY <1>1, <1>4, <1>9, ReplyFrame DEF ReplyInv

LEMMA ReplyDone ==
  ASSUME StreamsInv, ReplyInv, NEW c \in Streams, SaysDone(c)
  PROVE  ReplyInv'
<1>1. /\ UNCHANGED <<plain, answer, ended, arriving, unparsed, raw>>
      /\ stream[c] = "reading" /\ unparsed[c] # <<>> /\ Head(unparsed[c]).kind = "done"
      /\ stream' = [stream EXCEPT ![c] = "value"]
  BY DEF SaysDone, HasLineOf, LineOf, Under, signals, server, text
<1>2. /\ unparsed[c] \in Seq(Lines) /\ arriving[c] \in Seq(Lines) /\ answer[c] \in Seq(Texts)
  BY WaitingLines DEF ReplyInv
<1>3. PICK k \in Nat, read \in Seq(Texts) :
        Fits(unparsed[c], arriving[c], ended[c], answer[c], raw[c], k, read)
  BY <1>1 DEF ReplyInv, ReplyOf
<1>4. /\ Len(unparsed[c]) \in Nat /\ Len(unparsed[c]) >= 1 /\ unparsed[c][1].kind = "done"
      /\ Len(arriving[c]) \in Nat
  BY <1>1, <1>2, FirstLine
<1>5. 1 \in 1 .. Len(unparsed[c]) + Len(arriving[c]) /\ At(unparsed[c], arriving[c], 1).kind = "done"
  <2>1. \A m, n \in Nat : m >= 1 => 1 \in 1 .. m + n OBVIOUS
  <2>2. At(unparsed[c], arriving[c], 1) = unparsed[c][1] BY <1>4 DEF At
  <2> QED BY <1>4, <2>1, <2>2
<1>6. ~ (1 <= k) BY <1>3, <1>5 DEF Fits
<1>7. k = 0 BY <1>6
<1>8. ended[c] /\ raw[c] = Whole(answer[c])
  <2>0. \A m, n \in Nat : m >= 1 => 0 # m + n OBVIOUS
  <2>1. ended[c] BY <1>3, <1>4, <1>7, <2>0 DEF Fits
  <2>2. raw[c] = Whole(answer[c]) BY <1>2, <1>3, <1>7, FitsWhole
  <2> QED BY <2>1, <2>2
<1>9. stream'[c] = "value" /\ \A e \in Streams \ {c} : stream'[e] = stream[e]
  BY <1>1 DEF StreamsInv, StreamTypes
<1>10. ReplyOf(c)' BY <1>1, <1>8, <1>9 DEF ReplyOf
<1> QED BY <1>1, <1>9, <1>10, ReplyFrame DEF ReplyInv

LEMMA ReplyBodyEnds ==
  ASSUME StreamsInv, ReplyInv, NEW c \in Streams, BodyEnds(c)
  PROVE  ReplyInv'
<1> DEFINE u == unparsed[c]
<1>1. /\ UNCHANGED <<plain, answer, ended, arriving, unparsed>>
      /\ stream[c] = "reading" /\ ended[c] /\ arriving[c] = <<>>
      /\ \E to \in {"value", "error"} : stream' = [stream EXCEPT ![c] = to]
  BY DEF BodyEnds, Under, signals, server
<1>2. u \in Seq(Lines) /\ <<>> \in Seq(Lines) /\ answer[c] \in Seq(Texts)
  BY WaitingLines DEF ReplyInv
<1>3. PICK k \in Nat, read \in Seq(Texts) :
        Fits(u, <<>>, ended[c], answer[c], raw[c], k, read)
  BY <1>1 DEF ReplyInv, ReplyOf
<1>4. stream'[c] \in {"value", "error"} /\ \A e \in Streams \ {c} : stream'[e] = stream[e]
  BY <1>1 DEF StreamsInv, StreamTypes
<1>5. raw'[c] = Whole(answer[c]) /\ \A e \in Streams \ {c} : raw'[e] = raw[e]
  <2>0. Len(<<>>) = 0 OBVIOUS
  <2>1. CASE u = <<>> /\ UNCHANGED raw
    <3>1. Len(u) = 0 BY <2>1
    <3>2. k = 0 BY <2>0, <3>1, <1>3 DEF Fits
    <3> QED BY <1>2, <1>3, <2>1, <3>2, FitsWhole
  <2>2. CASE /\ u # <<>> /\ ~ Head(u).newline
             /\ raw' = IF Head(u).kind = "done" THEN raw
                       ELSE [raw EXCEPT ![c] = Merged(raw[c], Head(u).text)]
    <3>1. /\ Head(u) = u[1] /\ Len(u) \in Nat /\ Len(u) >= 1 /\ Len(Tail(u)) = Len(u) - 1
          /\ Head(u).kind \in {"delta", "done"}
      BY <1>2, <2>2, FirstLine
    <3>2. At(u, <<>>, 1) = Head(u) /\ 1 \in 1 .. Len(u) + Len(<<>>) BY <2>0, <3>1 DEF At
    <3>3. ~ (1 < Len(u) + Len(<<>>)) BY <1>3, <2>2, <3>2 DEF Fits
    <3>4. Len(u) = 1
      <4>1. \A m \in Nat : m >= 1 /\ ~ (1 < m + 0) => m = 1 OBVIOUS
      <4> QED BY <2>0, <3>1, <3>3, <4>1
    <3>5. CASE Head(u).kind = "done"
      <4>1. ~ (1 <= k) BY <1>3, <3>2, <3>5 DEF Fits
      <4>2. k = 0 BY <4>1
      <4> QED BY <1>2, <1>3, <2>2, <3>5, <4>2, FitsWhole
    <3>6. CASE Head(u).kind = "delta"
      <4> DEFINE d == Head(u).text
      <4>1. /\ k > 0 /\ Append(read, d) \in Seq(Texts)
            /\ Fits(Tail(u), <<>>, ended[c], answer[c], Merged(raw[c], d), k - 1, Append(read, d))
        BY <1>2, <1>3, <2>2, <3>6, FitsMerged
      <4>2. k - 1 = 0
        <5>1. Len(Tail(u)) + Len(<<>>) = 0 BY <2>0, <3>1, <3>4
        <5>2. k - 1 = 0 \/ (k - 1) + 1 = 0 BY <4>1, <5>1 DEF Fits
        <5> QED BY <4>1, <5>2
      <4>3. Merged(raw[c], d) = Whole(answer[c]) BY <1>2, <4>1, <4>2, FitsWhole
      <4>4. raw' = [raw EXCEPT ![c] = Merged(raw[c], d)] BY <2>2, <3>6
      <4> QED BY <4>3, <4>4 DEF StreamsInv, StreamTypes
    <3> QED BY <3>1, <3>5, <3>6
  <2> QED BY <2>1, <2>2 DEF BodyEnds, LineOf
<1>6. ReplyOf(c)' BY <1>1, <1>4, <1>5 DEF ReplyOf
<1> QED BY <1>1, <1>4, <1>5, <1>6, ReplyFrame DEF ReplyInv

\* The answer of a prompt() has one text.
LEMMA WholeOfOne == \A s \in Seq(Texts) : s # <<>> /\ Len(s) <= 1 => Whole(s) = Head(s)
<1> SUFFICES ASSUME NEW s \in Seq(Texts), s # <<>>, Len(s) <= 1 PROVE Whole(s) = Head(s)
  OBVIOUS
<1>1. Head(s) \in Texts /\ Head(s) = s[1] /\ Len(s) = 1
  <2>1. Len(s) \in Nat /\ Len(s) # 0 BY EmptySeq
  <2>2. \A n \in Nat : n # 0 /\ n <= 1 => n = 1 OBVIOUS
  <2>3. Len(s) = 1 BY <2>1, <2>2
  <2>4. Head(s) = s[1] OBVIOUS
  <2>5. s[1] \in Texts BY <2>3, ElementOfSeq
  <2> QED BY <2>3, <2>4, <2>5
<1>2. <<>> \in Seq(Texts) OBVIOUS
<1>3. s = Append(<<>>, Head(s))
  <2>1. Append(<<>>, Head(s)) \in Seq(Texts) BY <1>1, <1>2
  <2>2. Len(Append(<<>>, Head(s))) = 1 /\ Append(<<>>, Head(s))[1] = Head(s) BY <1>1
  <2>3. \A i \in 1 .. Len(s) : s[i] = Append(<<>>, Head(s))[i] BY <1>1, <2>2
  <2> QED BY <1>1, <2>1, <2>2, <2>3, SeqEqual
<1>4. Whole(Append(<<>>, Head(s))) = Merged(Whole(<<>>), Head(s)) BY <1>1, <1>2, WholeAppend
<1> QED BY <1>1, <1>3, <1>4, WholeNothing, MergedFirst

LEMMA ReplyReturns ==
  ASSUME StreamsInv, ReplyInv, NEW c \in Streams, ReturnsAnswer(c)
  PROVE  ReplyInv'
<1>1. /\ UNCHANGED <<plain, answer, ended, arriving, unparsed>>
      /\ c \in plain /\ stream[c] = "reading" /\ ended[c]
  BY DEF ReturnsAnswer, Under, signals, server
<1>2. CASE /\ stream' = [stream EXCEPT ![c] = "value"] /\ answer[c] # <<>>
           /\ raw' = [raw EXCEPT ![c] = Head(answer[c])]
  <2>1. /\ stream'[c] = "value" /\ raw'[c] = Head(answer[c])
        /\ \A e \in Streams \ {c} : raw'[e] = raw[e] /\ stream'[e] = stream[e]
    BY <1>2 DEF StreamsInv, StreamTypes
  <2>2. answer[c] \in Seq(Texts) /\ Len(answer[c]) <= 1 BY <1>1 DEF ReplyInv, ReplyOf
  <2>3. Whole(answer[c]) = Head(answer[c]) BY <1>2, <2>2, WholeOfOne
  <2>4. ReplyOf(c)' BY <1>1, <2>1, <2>3 DEF ReplyOf
  <2> QED BY <1>1, <2>1, <2>4, ReplyFrame DEF ReplyInv
<1>3. CASE stream' = [stream EXCEPT ![c] = "error"] /\ UNCHANGED raw
  <2>1. \A d \in Streams : /\ stream'[d] = "value" <=> stream[d] = "value"
                           /\ stream[d] = "error" => stream'[d] = "error"
    BY <1>1, <1>3 DEF StreamsInv, StreamTypes
  <2> QED BY <1>1, <1>3, <2>1, ReplyStays DEF server, text
<1> QED BY <1>2, <1>3 DEF ReturnsAnswer, Under

LEMMA ReplyStep ==
  ASSUME StreamsInv, ReplyInv, [StreamsNext]_streamVars
  PROVE  ReplyInv'
<1>1. CASE UNCHANGED streamVars
  BY <1>1, ReplyStays DEF streamVars, server, text
<1>2. CASE SessionDestroys
  <2>1. CASE Streams = {} BY <1>2, <2>1 DEF ReplyInv, SessionDestroys, server
  <2>2. CASE Streams # {} BY <1>2, <2>2, ReplyCall
  <2> QED BY <2>1, <2>2
<1>3. ASSUME NEW c \in Streams,
             \/ Posts(c) \/ Responds(c) \/ CallerAborts(c) \/ RequestTimesOut(c)
             \/ SendsDelta(c) \/ EndsAnswer(c) \/ Consumes(c)
      PROVE  ReplyInv'
  BY <1>3, ReplyCall, ReplySends, ReplyEnds, ReplyReads, ReplyYields, ReplyDone,
     ReplyBodyEnds, ReplyReturns DEF Consumes
<1> QED BY <1>1, <1>2, <1>3 DEF StreamsNext

\* The text of a reply is the merge of all the deltas that the server sent, or
\* the one text of a prompt(), however the body was cut up (streamChat of
\* backends/llama-server.mts, mergeStreamChunk of stream.mts).
THEOREM RepliesAreWhole == StreamsSpec => []ReplyIsWhole
<1>1. ReplyInv => ReplyIsWhole BY DEF ReplyInv, ReplyOf, ReplyIsWhole, Whole
<1>2. StreamsInv /\ ReplyInv /\ [StreamsNext]_streamVars => ReplyInv' BY ReplyStep
<1> QED BY <1>1, <1>2, StreamsInvInit, StreamsStep, ReplyInit, PTL DEF StreamsSpec
=============================================================================
