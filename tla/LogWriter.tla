----------------------------- MODULE LogWriter ------------------------------
(***************************************************************************)
(* The path of the runtime's output to the build manager: the client of    *)
(* the runtime copies the stream of a request, in chunks of any size, into *)
(* DockerRPCWriter or PodmanRPCWriter (package containerclient), which     *)
(* hands entries to grpcClient.PublishBuildLogEntry (rpc/grpcbuild).       *)
(*                                                                         *)
(* A message of Docker's stream is cut in as many fragments as its size    *)
(* says, so that a chunk may end inside it, and a message may take several *)
(* chunks.                                                                 *)
(***************************************************************************)
EXTENDS Naturals, SequencesExt

CONSTANTS
  Outputs,     \* what a request may stream: sequences of messages (Response)
  MaxRequests, \* bound: requests made during one run of the builder
  Nil

Message == [error : BOOLEAN, status : {"Buffering to disk", "Pushing", "other"},
            current : Nat, total : Nat, size : Nat \ {0}]

ASSUME OutputsAssumption == Outputs \subseteq Seq(Message) /\ Nil \notin Message
ASSUME MaxRequestsAssumption == MaxRequests \in Nat

VARIABLES
  runtime,           \* CONTAINER_RUNTIME
  requests,          \* how many requests were made
  busy,              \* a request is in progress
  output,            \* what it has still to write
  step,              \* the writer: "idle" between calls, "decode", "await" or "fatal"
  decoder,           \* the fragments json.Decoder has not decoded yet
  partialBuffer,
  errResponse,
  logStream,         \* "open" or "over"
  logSequenceNum,
  received,          \* the manager: the log entries with their numbers
  written,           \* history: the fragments written by all requests
  start,             \* history: how many of them before the last request
  lastPublished      \* history: the last message published by this Write

vars == <<runtime, requests, busy, output, step, decoder, partialBuffer, errResponse,
          logStream, logSequenceNum, received, written, start, lastPublished>>

Messages  == UNION {Range(msgs) : msgs \in Outputs}
Fragment  == UNION {[of : {msg}, part : 1..msg.size] : msg \in Messages}
IsLast(f) == f.part = f.of.size

TypeOK ==
  /\ runtime \in {"docker", "podman"}
  /\ requests \in 0..MaxRequests
  /\ busy \in BOOLEAN
  /\ step \in {"idle", "decode", "await", "fatal"}
  /\ \A s \in {output, decoder, partialBuffer, written} : Range(s) \subseteq Fragment
  /\ partialBuffer # <<>> => Len(partialBuffer) < partialBuffer[1].of.size
  /\ errResponse # Nil => errResponse.error
  /\ logStream \in {"open", "over"}
  /\ logSequenceNum \in Nat
  /\ start \in 0..Len(written)

Fragments(msg) == [i \in 1..msg.size |-> [of |-> msg, part |-> i]]
Encode(msgs)   == FlattenSeq([i \in DOMAIN msgs |-> Fragments(msgs[i])])

Init ==
  /\ runtime \in {"docker", "podman"}
  /\ requests = 0 /\ busy = FALSE
  /\ output = <<>>
  /\ step = "idle"
  /\ decoder = <<>> /\ partialBuffer = <<>>
  /\ errResponse = Nil
  /\ logStream = "open"
  /\ logSequenceNum = 0
  /\ received = <<>>
  /\ written = <<>> /\ start = 0 /\ lastPublished = Nil

-----------------------------------------------------------------------------
(* Requests.  Podman reports errors as results of the call, not here.      *)

(* Mutant: the error stays. *)
ResetNothing == errResponse' = errResponse

(* DockerRPCWriter.ResetError.                                             *)
ResetError == errResponse' = Nil

(* A request that writes output starts: by way of retryDockerRequest, or,  *)
(* for a build, which is all that podman streams, without a reset.         *)
BeginRequest ==
  /\ step = "idle" /\ ~busy
  /\ requests < MaxRequests
  /\ requests' = requests + 1
  /\ busy' = TRUE
  /\ \E msgs \in Outputs : output' = Encode(msgs)
  /\ start' = Len(written)
  /\ \/ runtime = "docker" /\ ResetError
     \/ UNCHANGED errResponse
  /\ UNCHANGED <<runtime, step, decoder, partialBuffer, logStream, logSequenceNum,
                 received, written, lastPublished>>

(* The request is over, whole or cut short, and its caller takes the       *)
(* error.  (A build that returns an error does not get here: the builder   *)
(* gives up and makes no other request.)                                   *)
ErrResponse ==
  /\ step = "idle" /\ busy
  /\ busy' = FALSE
  /\ output' = <<>>
  /\ ResetError
  /\ UNCHANGED <<runtime, requests, step, decoder, partialBuffer, logStream,
                 logSequenceNum, received, written, start, lastPublished>>

-----------------------------------------------------------------------------
(* PublishBuildLogEntry: a stream the manager has ended swallows the entry *)
(* without an error; only an error of the client itself is returned.  The  *)
(* manager's answer to an entry is waited for, and makes no difference.    *)

(* Mutant: the number is not counted up. *)
EntryNumberStuck == logSequenceNum

EntryNumber == logSequenceNum + 1

PublishBuildLogEntry(entry) ==
  \/ /\ logStream = "open"
     /\ logSequenceNum' = EntryNumber
     /\ received' = Append(received, [seq |-> EntryNumber, entry |-> entry])
     /\ step' = "await"
  \/ /\ logStream = "over"
     /\ logSequenceNum' = EntryNumber
     /\ UNCHANGED <<received, step>>
  \/ /\ logStream = "open"
     /\ step' = "fatal"
     /\ UNCHANGED <<logSequenceNum, received>>

(* Mutant: after an error, the end of the stream included, Recv again. *)
AfterRecvAgain ==
  IF logStream = "over" THEN "await" ELSE IF runtime = "docker" THEN "decode" ELSE "idle"

AfterRecv == IF runtime = "docker" THEN "decode" ELSE "idle"

(* Recv returns an answer, or the end of the stream. *)
Recv ==
  /\ step = "await"
  /\ step' = AfterRecv
  /\ UNCHANGED <<runtime, requests, busy, output, decoder, partialBuffer, errResponse, logStream,
                 logSequenceNum, received, written, start, lastPublished>>

RecvEnd        == logStream = "over" /\ Recv
ManagerAnswers == logStream = "open" /\ Recv

LogStreamEnds ==
  /\ logStream = "open" /\ step # "fatal"
  /\ logStream' = "over"
  /\ UNCHANGED <<runtime, requests, busy, output, step, decoder, partialBuffer, errResponse,
                 logSequenceNum, received, written, start, lastPublished>>

-----------------------------------------------------------------------------
(* DockerRPCWriter.Write. *)

(* Mutant: what was kept of the last call is dropped. *)
GetNothing(in) == in

GetAndEmpty(in) == partialBuffer \o in

(* The runtime's client writes the next n fragments. *)
Write ==
  /\ step = "idle" /\ busy /\ runtime = "docker"
  /\ \E n \in 1..Len(output) :
       LET p == SubSeq(output, 1, n)
       IN /\ decoder' = GetAndEmpty(p)
          /\ written' = written \o p
          /\ output' = SubSeq(output, n + 1, Len(output))
  /\ partialBuffer' = <<>>
  /\ lastPublished' = Nil
  /\ step' = "decode"
  /\ UNCHANGED <<runtime, requests, busy, errResponse, logStream, logSequenceNum, received,
                 start>>

(* What is to be decoded starts with a whole message, or is less than one. *)
HasMessage == decoder # <<>> /\ IsPrefix(Fragments(decoder[1].of), decoder)

(* Mutant: more than the rest is kept. *)
IncompleteOrMore == decoder # <<>> /\ decoder[1].part = 1

Incomplete == decoder # <<>> /\ IsStrictPrefix(decoder, Fragments(decoder[1].of))

(* io.EOF: everything was decoded. *)
DecodeEOF ==
  /\ step = "decode" /\ decoder = <<>>
  /\ step' = "idle"
  /\ UNCHANGED <<runtime, requests, busy, output, decoder, partialBuffer, errResponse,
                 logStream, logSequenceNum, received, written, start, lastPublished>>

(* io.ErrUnexpectedEOF: the rest is kept for the next call. *)
DecodeIncomplete ==
  /\ step = "decode" /\ Incomplete
  /\ partialBuffer' = decoder
  /\ decoder' = <<>>
  /\ step' = "idle"
  /\ UNCHANGED <<runtime, requests, busy, output, errResponse, logStream, logSequenceNum,
                 received, written, start, lastPublished>>

(* Anything else is no JSON. *)
DecodeFatal ==
  /\ step = "decode"
  /\ decoder # <<>> /\ ~HasMessage /\ ~Incomplete
  /\ step' = "fatal"
  /\ UNCHANGED <<runtime, requests, busy, output, decoder, partialBuffer, errResponse,
                 logStream, logSequenceNum, received, written, start, lastPublished>>

minProgressDelta == 10

(* What shouldSkip decides for a filter that remembers lastSent. *)
TooSoon(lastSent, m) ==
  /\ lastSent # Nil
  /\ m.current < lastSent.current + minProgressDelta
  /\ \/ m.status = "Buffering to disk" /\ lastSent.status = "Buffering to disk"
     \/ /\ m.status = "Pushing" /\ lastSent.status = "Pushing"
        /\ m.current # lastSent.total

(* Mutant: the first message of a kind is skipped like the others. *)
shouldSkipAll(m) == m.status = "Pushing"

(* The method has a value receiver: the filter of a Write never remembers. *)
shouldSkip(m) == TooSoon(Nil, m)

DecodeMessage ==
  /\ step = "decode" /\ HasMessage
  /\ LET m == decoder[1].of
     IN \/ /\ m.error
           /\ errResponse' = m
           /\ UNCHANGED <<step, logSequenceNum, received, lastPublished>>
        \/ /\ ~m.error /\ shouldSkip(m)
           /\ UNCHANGED <<step, errResponse, logSequenceNum, received, lastPublished>>
        \/ /\ ~m.error /\ ~shouldSkip(m)
           /\ PublishBuildLogEntry(Fragments(m))
           /\ lastPublished' = m
           /\ UNCHANGED errResponse
  /\ decoder' = SubSeq(decoder, decoder[1].of.size + 1, Len(decoder))
  /\ UNCHANGED <<runtime, requests, busy, output, partialBuffer, logStream, written, start>>

-----------------------------------------------------------------------------
(* PodmanRPCWriter.Write: a chunk is an entry, as it comes. *)
PodmanWrite ==
  /\ step = "idle" /\ busy /\ runtime = "podman"
  /\ \E n \in 1..Len(output) :
       LET p == SubSeq(output, 1, n)
       IN /\ PublishBuildLogEntry(p)
          /\ written' = written \o p
          /\ output' = SubSeq(output, n + 1, Len(output))
  /\ UNCHANGED <<runtime, requests, busy, decoder, partialBuffer, errResponse, logStream,
                 start, lastPublished>>

Terminated == (step = "fatal" \/ requests = MaxRequests) /\ UNCHANGED vars

Next ==
  \/ BeginRequest \/ ErrResponse
  \/ ManagerAnswers \/ RecvEnd \/ LogStreamEnds
  \/ Write \/ DecodeEOF \/ DecodeIncomplete \/ DecodeFatal \/ DecodeMessage
  \/ PodmanWrite
  \/ Terminated

Spec == Init /\ [][Next]_vars

(* A call of Write goes on by itself but for the manager's answer to each  *)
(* entry, which nothing in the code makes sure of: the log stream has no   *)
(* deadline, and main() never cancels it.                                  *)
InWrite  == DecodeEOF \/ DecodeIncomplete \/ DecodeFatal \/ DecodeMessage \/ RecvEnd
FairSpec == Spec /\ WF_vars(InWrite) /\ WF_vars(ManagerAnswers)

-----------------------------------------------------------------------------
(* Properties. *)

(* Of what is written, all but the errors in Docker's stream is logged.    *)
Kept(client, f) == IF client = "docker" /\ f.of.error THEN <<>> ELSE <<f>>

Logged(client, fragments) ==
  FlattenSeq([i \in DOMAIN fragments |-> Kept(client, fragments[i])])

(* The entries the manager received, put together.                         *)
Shown == FlattenSeq([i \in DOMAIN received |-> received[i].entry])

(* The manager sees the entries with the numbers 1, 2, 3, ... and, until   *)
(* the log stream ends, one for every number the builder has used          *)
(* (grpcbuild.go:165-180).                                                 *)
LogNumbersContiguous ==
  /\ \A i \in DOMAIN received : received[i].seq = i
  /\ logStream = "open" => Len(received) = logSequenceNum

(* Between two calls of Write everything written so far is at the manager, *)
(* in order and once, or waits in the partial buffer; errors alone are     *)
(* held back, and only by Docker's writer.  How the output was cut into    *)
(* chunks makes no difference, nor how many chunks a message takes         *)
(* (docker_log_writer.go:51-108).                                          *)
NothingLostNorDoubled ==
  step = "idle" /\ logStream = "open" =>
    Logged(runtime, written) = Logged(runtime, Shown \o partialBuffer)

(* The writer's error is the last one in the output of the current         *)
(* request, wherever it stood in a chunk: an entry after it does not hide  *)
(* it, and none is left over from an earlier request, not even for a       *)
(* build, which does not reset it first (docker_log_writer.go:91-94,       *)
(* 114-130, context.go:175-178, 408-425).                                  *)
ErrorOfThisRequest ==
  step = "idle" /\ busy /\ runtime = "docker" =>
    LET ends == {i \in (start + 1)..Len(written) : IsLast(written[i]) /\ written[i].of.error}
    IN IF ends = {} THEN errResponse = Nil
       ELSE \E i \in ends : /\ \A j \in ends : j <= i
                            /\ errResponse = written[i].of

(* Every call of Write returns, or ends the process, if the manager        *)
(* answers the entries of a stream it keeps open; when it ends the stream  *)
(* nothing is waited for (grpcbuild.go:173-187, docker_log_writer.go:61).  *)
WriteReturns == step # "idle" ~> step \in {"idle", "fatal"}

Undecodable == step = "decode" /\ decoder # <<>> /\ ~HasMessage /\ ~Incomplete

(* The writer fails to decode the output only if some request was cut      *)
(* short inside a message and another followed it: no way of cutting a     *)
(* whole output into chunks does (docker_log_writer.go:51-54, 71-89).      *)
OnlyCutsAreFatal ==
  Undecodable =>
    \E i \in 1..(Len(written) - 1) : ~IsLast(written[i]) /\ written[i + 1].part = 1

(* The writer "buffers [data] until it has a valid JSON object and then    *)
(* logs it" (docker_log_writer.go:38-39), also for the retry of a request  *)
(* whose first attempt was cut short.                                      *)
RetryIsLogged == ~Undecodable

(* "Don't send the response if it hasn't transfered the minimum amount"    *)
(* (docker_log_writer.go:142-143, 153).                                    *)
ProgressIsThrottled ==
  [][step = "decode" /\ received' # received => ~TooSoon(lastPublished, decoder[1].of)]_vars

=============================================================================
