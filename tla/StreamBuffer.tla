---------------------------- MODULE StreamBuffer ----------------------------
(***************************************************************************)
(* The live output of one job: the buffer its task appends to and the      *)
(* server-sent event streams that replay it to clients, who reconnect with *)
(* the identifier of the last event they have seen                         *)
(* (backend/api/services/stream-service.py, routes/stream-routes.py).      *)
(*                                                                         *)
(* Everything between two awaits is one step.  Lines are numbered in the   *)
(* order they are appended.  The buffer holds the lines dropped, ...,      *)
(* written-1, and a stream addresses them by their position in the buffer, *)
(* not by their number.                                                    *)
(***************************************************************************)
EXTENDS Integers, Sequences

CONSTANTS
  Readers,    \* the clients that follow the job
  MaxBuffer,  \* _MAX_BUFFER_LINES
  MaxLines,   \* bound: how many lines the task writes
  Faults      \* what may go wrong

FaultKinds ==
  { "disconnect",   \* a connection breaks
    "cancel",       \* the job is cancelled while its task runs
    "restart" }     \* the server restarts and the buffer is gone

ASSUME StreamFaultsAssumption == Faults \subseteq FaultKinds
ASSUME BufferAssumption == MaxBuffer \in Nat \ {0} /\ MaxLines \in Nat \ {0}

VARIABLES
  written,   \* how many lines have been appended
  dropped,   \* how many of them the buffer holds no more
  over,      \* the job is in a terminal state
  task,      \* the background task of the job
  stream,    \* the handler of each client's connection
  got,       \* the lines each client has received, with their numbers
  lastId     \* the identifier of the last event it has received, or -1

bufferVars == <<written, dropped>>
clientVars == <<got, lastId>>
vars == <<bufferVars, over, task, stream, clientVars>>

Steps == {"off", "get", "send", "check", "end", "wait", "complete"}
Stream == [ step : Steps,
            index : Nat,   \* the position of the next line to read
            first : Nat,   \* the number of the first line of the batch read
            size : Nat,    \* the size of that batch
            sent : Nat ]   \* how many lines of it have been sent
Off == [step |-> "off", index |-> 0, first |-> 0, size |-> 0, sent |-> 0]

TypeOK ==
  /\ written \in 0..MaxLines
  /\ dropped \in 0..written
  /\ over \in BOOLEAN
  /\ task \in {"running", "recorded", "ended"}
  /\ stream \in [Readers -> Stream]
  /\ got \in [Readers -> Seq(0..MaxLines - 1)]
  /\ lastId \in [Readers -> Int]

Init ==
  /\ written = 0 /\ dropped = 0
  /\ over = FALSE
  /\ task = "running"
  /\ stream = [r \in Readers |-> Off]
  /\ got = [r \in Readers |-> <<>>]
  /\ lastId = [r \in Readers |-> -1]

-----------------------------------------------------------------------------
(***************************************************************************)
(* The task.                                                               *)
(***************************************************************************)
\* append_line, with its trimming: the oldest line goes when the buffer is full.
AppendLine ==
  /\ written < MaxLines
  /\ written' = written + 1
  /\ dropped' = IF written + 1 - dropped > MaxBuffer THEN dropped + 1 ELSE dropped

\* Terraform prints a line.
TaskPrints ==
  /\ task = "running"
  /\ written < MaxLines - 1
  /\ AppendLine
  /\ UNCHANGED <<over, task, stream, clientVars>>

\* The task records its result ...
TaskRecords ==
  /\ task = "running"
  /\ task' = "recorded"
  /\ over' = TRUE
  /\ UNCHANGED <<bufferVars, stream, clientVars>>

\* ... and then says so in a last line.
TaskEnds ==
  /\ task = "recorded"
  /\ AppendLine
  /\ task' = "ended"
  /\ UNCHANGED <<over, stream, clientVars>>

\* The job is cancelled; its task is not told.
Cancel ==
  /\ "cancel" \in Faults
  /\ task = "running" /\ ~over
  /\ over' = TRUE
  /\ UNCHANGED <<bufferVars, task, stream, clientVars>>

-----------------------------------------------------------------------------
(***************************************************************************)
(* stream_job_output, inside stream_job.                                   *)
(***************************************************************************)
\* Mutant: a client that connects is sent new lines only.
ConnectToNew(r) ==
  /\ stream[r].step = "off"
  /\ stream' = [stream EXCEPT ![r] = [Off EXCEPT !.step = "get", !.index = written - dropped]]
  /\ UNCHANGED <<bufferVars, over, task, clientVars>>

\* Mutant: the last event seen is sent again.
ConnectAtLast(r) ==
  /\ stream[r].step = "off"
  /\ stream' = [stream EXCEPT ![r] = [Off EXCEPT !.step = "get",
                                         !.index = IF lastId[r] = -1 THEN 0 ELSE lastId[r]]]
  /\ UNCHANGED <<bufferVars, over, task, clientVars>>

\* A client connects, or connects again after the last event it has seen.
Connect(r) ==
  /\ stream[r].step = "off"
  /\ stream' = [stream EXCEPT ![r] = [Off EXCEPT !.step = "get", !.index = lastId[r] + 1]]
  /\ UNCHANGED <<bufferVars, over, task, clientVars>>

\* get_buffered_lines: the lines of the buffer from position index on.
Buffered(r) ==
  IF stream[r].index < written - dropped THEN written - dropped - stream[r].index ELSE 0

Get(r) ==
  /\ stream[r].step = "get"
  /\ \/ /\ Buffered(r) = 0
        /\ stream' = [stream EXCEPT ![r].step = "check"]
     \/ /\ Buffered(r) > 0
        /\ stream' = [stream EXCEPT ![r].step = "send", ![r].size = Buffered(r),
                                    ![r].first = dropped + stream[r].index]
  /\ UNCHANGED <<bufferVars, over, task, clientVars>>

\* Mutant: one event too many is sent.
SendOneMore(r) ==
  /\ stream[r].step = "send"
  /\ got' = [got EXCEPT ![r] = Append(@, stream[r].first + stream[r].sent)]
  /\ lastId' = [lastId EXCEPT ![r] = stream[r].index + stream[r].sent]
  /\ stream' = [stream EXCEPT ![r] =
       IF stream[r].sent < stream[r].size THEN [stream[r] EXCEPT !.sent = @ + 1]
       ELSE [Off EXCEPT !.step = "get", !.index = stream[r].index + stream[r].size]]
  /\ UNCHANGED <<bufferVars, over, task>>

\* One event is sent, with the position of its line as identifier; after the
\* last one the position moves on.
Send(r) ==
  /\ stream[r].step = "send"
  /\ got' = [got EXCEPT ![r] = Append(@, stream[r].first + stream[r].sent)]
  /\ lastId' = [lastId EXCEPT ![r] = stream[r].index + stream[r].sent]
  /\ stream' = [stream EXCEPT ![r] =
       IF stream[r].sent + 1 < stream[r].size THEN [stream[r] EXCEPT !.sent = @ + 1]
       ELSE [Off EXCEPT !.step = "get", !.index = stream[r].index + stream[r].size]]
  /\ UNCHANGED <<bufferVars, over, task>>

\* Mutant: a stream never asks whether the job is over.
CheckOnly(r) ==
  /\ stream[r].step = "check"
  /\ stream' = [stream EXCEPT ![r].step = "wait"]
  /\ UNCHANGED <<bufferVars, over, task, clientVars>>

\* is_complete: SELECT the job, in a session that takes its time to open and
\* to close.
CheckComplete(r) ==
  /\ stream[r].step = "check"
  /\ stream' = [stream EXCEPT ![r].step = IF over THEN "end" ELSE "wait"]
  /\ UNCHANGED <<bufferVars, over, task, clientVars>>

\* stream_complete is sent, and the client is done with the job.
Finish(r) ==
  /\ stream[r].step = "end"
  /\ stream' = [stream EXCEPT ![r] = [Off EXCEPT !.step = "complete"]]
  /\ UNCHANGED <<bufferVars, over, task, clientVars>>

\* Mutant: a stream that has sent its keepalive waits on.
WakeAndWait(r) ==
  /\ stream[r].step = "wait"
  /\ UNCHANGED vars

\* A waiting stream wakes up: notified of a line, or to send a keepalive after
\* poll_timeout.  A line that came before it waited does not wake it.
Wake(r) ==
  /\ stream[r].step = "wait"
  /\ stream' = [stream EXCEPT ![r].step = "get"]
  /\ UNCHANGED <<bufferVars, over, task, clientVars>>

\* The connection of a client breaks.
Disconnect(r) ==
  /\ "disconnect" \in Faults
  /\ stream[r].step \notin {"off", "complete"}
  /\ stream' = [stream EXCEPT ![r] = Off]
  /\ UNCHANGED <<bufferVars, over, task, clientVars>>

\* The server restarts: the buffer, the task and the connections are gone.
Restart ==
  /\ "restart" \in Faults
  /\ task # "ended" \/ written > dropped
  /\ dropped' = written
  /\ task' = "ended"
  /\ stream' = [r \in Readers |-> IF stream[r].step = "complete" THEN stream[r] ELSE Off]
  /\ UNCHANGED <<written, over, clientVars>>

-----------------------------------------------------------------------------
JobTask == TaskPrints \/ TaskRecords \/ TaskEnds

Streams(r) ==
  \/ Get(r)
  \/ Send(r)
  \/ CheckComplete(r)
  \/ Finish(r)
  \/ Wake(r)

Next ==
  \/ JobTask
  \/ Cancel
  \/ \E r \in Readers : Connect(r) \/ Streams(r) \/ Disconnect(r)
  \/ Restart

Spec == Init /\ [][Next]_vars

\* The event loop runs every stream, and poll_timeout wakes those that wait.
FairSpec == Spec /\ \A r \in Readers : WF_vars(Streams(r))

-----------------------------------------------------------------------------
(***************************************************************************)
(* Properties.                                                             *)
(***************************************************************************)
\* A client never receives a line twice, nor one before an earlier one,
\* however often it connects again and whatever the buffer drops.
InOrderOnce ==
  \A r \in Readers : \A i, j \in 1..Len(got[r]) : i < j => got[r][i] < got[r][j]

\* As long as the buffer has dropped nothing, no client misses a line between
\* two others: "transparent reconnect" (stream_job).
NothingSkipped ==
  dropped = 0 => \A r \in Readers : got[r] = [i \in 1..Len(got[r]) |-> i - 1]

\* As long as the buffer has dropped nothing, every line comes to every client
\* that stays connected, until its stream ends (stream_job_output).
LinesArrive ==
  \A r \in Readers : \A n \in 1..MaxLines :
    written >= n /\ stream[r].step \notin {"off", "end", "complete"} /\ dropped = 0
      ~> \/ Len(got[r]) >= n
         \/ stream[r].step \in {"off", "end", "complete"}
         \/ dropped > 0

\* No stream of a job that is over goes on for ever, even if the buffer has
\* moved away under it.
StreamEnds ==
  \A r \in Readers :
    over /\ stream[r].step # "off" ~> stream[r].step \in {"off", "complete"}

\* A stream ends when there is nothing left for it in the buffer
\* (stream_job_output: "Stops when is_complete_fn returns True and buffer is
\* exhausted").
EndsWhenExhausted == [][ \A r \in Readers : Finish(r) => Buffered(r) = 0 ]_vars
=============================================================================
