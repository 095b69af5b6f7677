---------------------------- MODULE EncoderMain ----------------------------
(***************************************************************************)
(* The program around the components: EncoderMain starts the sinks and the *)
(* encoder, waits for a key and stops them (encoder/encoder_main.cc), and  *)
(* DataSink passes each chunk of the encoder thread to every sink that was *)
(* added (encoder/data_sink.cc).                                           *)
(*                                                                         *)
(* The two sinks are what FifoSink promises, plus a thread that returns    *)
(* after a stop; the encoder thread is what it does to the data sink.      *)
(* WebmEncoder, FileWriter and HttpUploader have the inside of each.       *)
(***************************************************************************)
EXTENDS Naturals, Sequences

CONSTANT MaxChunks   \* bound: chunks the encoder thread writes

ASSUME ChunksAssumption == MaxChunks \in Nat

File == "file"
Http == "http"
Sinks == {File, Http}

VARIABLES
  enabled,      \* enable_file_output and enable_http_upload
  data_sinks_,  \* DataSink::data_sinks_
  thread,       \* thread[s]: "none", "running", "returned", "joined"
  stop_,        \* stop_[s]: the sink was told to stop
  pending, handled,  \* the state of each sink, as in FifoSink
  encoder,      \* the encoder's thread, as above, or "writing"
  written,      \* number of chunks WriteData accepted
  next_sink,    \* position in data_sinks_ of WriteData's loop
  main,         \* control point of EncoderMain
  exit_code,    \* what EncoderMain returned
  crashed       \* how the process died, or "no"

sink_state == <<thread, stop_, pending, handled>>
encoder_vars == <<encoder, written, next_sink>>
vars == <<enabled, data_sinks_, sink_state, encoder_vars, main, exit_code,
          crashed>>

Init ==
  /\ enabled \in SUBSET Sinks
  /\ data_sinks_ = <<>>
  /\ thread = [s \in Sinks |-> "none"] /\ stop_ = [s \in Sinks |-> FALSE]
  /\ pending = [s \in Sinks |-> <<>>] /\ handled = [s \in Sinks |-> <<>>]
  /\ encoder = "none" /\ written = 0 /\ next_sink = 1
  /\ main = "init" /\ exit_code = "none" /\ crashed = "no"

Running == crashed = "no"
-----------------------------------------------------------------------------
(* EncoderMain up to the polling loop. *)

MainStep == Running /\ UNCHANGED <<enabled, pending, handled, written, next_sink>>

(* EncoderMain's objects die with it, and a std::thread that was neither   *)
(* joined nor detached takes the process with it.                          *)
Return(code) ==
  /\ main' = "returned"
  /\ exit_code' = code
  /\ crashed' = IF \E s \in Sinks : thread[s] \in {"running", "returned"}
                THEN "terminate" ELSE crashed

GoTo(point) == main' = point /\ UNCHANGED <<exit_code, crashed>>

(* A sink must be enabled; WebmEncoder::Init may fail. *)
InitEncoder ==
  /\ MainStep
  /\ main = "init"
  /\ \/ enabled # {} /\ GoTo("start_writer")
     \/ Return("failure")
  /\ UNCHANGED <<data_sinks_, thread, stop_, encoder>>

(* Mutant: the switches are not looked at. *)
StartSinkAlways(s, point, after) ==
  /\ MainStep
  /\ main = point
  /\ thread' = [thread EXCEPT ![s] = "running"]
  /\ data_sinks_' = Append(data_sinks_, s)
  /\ GoTo(after)
  /\ UNCHANGED <<stop_, encoder>>

(* StartWriter and StartUploader: run the sink's thread, then add the sink *)
(* to the data sink.                                                       *)
StartSink(s, point, after) ==
  /\ MainStep
  /\ main = point
  /\ IF s \notin enabled
     THEN GoTo(after) /\ UNCHANGED <<data_sinks_, thread>>
     ELSE \/ /\ thread' = [thread EXCEPT ![s] = "running"]
             /\ data_sinks_' = Append(data_sinks_, s)
             /\ GoTo(after)
          \/ Return("failure") /\ UNCHANGED <<data_sinks_, thread>>
  /\ UNCHANGED <<stop_, encoder>>

(* WebmEncoder::Run succeeds after Init, even if it has no memory for the  *)
(* thread object.                                                          *)
RunEncoder ==
  /\ MainStep
  /\ main = "run"
  /\ encoder' \in {"running", "none"}
  /\ GoTo("poll")
  /\ UNCHANGED <<data_sinks_, thread, stop_>>

(* The loop polls the uploader's statistics, whether or not there is an    *)
(* uploader: without one, ptr_uploader_ is NULL.                           *)
PollWithoutUploader ==
  /\ MainStep
  /\ main = "poll" /\ Http \notin enabled
  /\ crashed' = "null_uploader"
  /\ UNCHANGED <<main, exit_code, data_sinks_, thread, stop_, encoder>>

-----------------------------------------------------------------------------
(* Shutdown, once a key was pressed. *)

(* Mutant: the sinks are told to stop before the encoder has ended. *)
KeyPressedStopsSinks ==
  /\ MainStep
  /\ main = "poll"
  /\ stop_' = [s \in Sinks |-> s \in enabled]
  /\ GoTo("join_encoder")
  /\ UNCHANGED <<data_sinks_, thread, encoder>>

(* encoder.Stop, with its CHECK on the thread object. *)
KeyPressed ==
  /\ MainStep
  /\ main = "poll"
  /\ IF encoder = "none"
     THEN crashed' = "check" /\ UNCHANGED <<main, exit_code>>
     ELSE GoTo("join_encoder")
  /\ UNCHANGED <<data_sinks_, thread, stop_, encoder>>

JoinEncoder ==
  /\ MainStep
  /\ main = "join_encoder" /\ encoder = "returned"
  /\ encoder' = "joined"
  /\ GoTo("stop_uploader")
  /\ UNCHANGED <<data_sinks_, thread, stop_>>

(* uploader.Stop and file_writer.Stop tell the sink's thread to stop ...   *)
StopSink(s, point, join, after) ==
  /\ MainStep
  /\ main = point
  /\ IF s \in enabled
     THEN stop_' = [stop_ EXCEPT ![s] = TRUE] /\ GoTo(join)
     ELSE GoTo(after) /\ UNCHANGED stop_
  /\ UNCHANGED <<data_sinks_, thread, encoder>>

(* Mutant: the sink's thread is left to itself. *)
JoinSinkDetaches(s, point, after) ==
  /\ MainStep
  /\ main = point
  /\ thread' = [thread EXCEPT ![s] = "joined"]
  /\ GoTo(after)
  /\ UNCHANGED <<data_sinks_, stop_, encoder>>

(* ... and join it. *)
JoinSink(s, point, after) ==
  /\ MainStep
  /\ main = point /\ thread[s] = "returned"
  /\ thread' = [thread EXCEPT ![s] = "joined"]
  /\ GoTo(after)
  /\ UNCHANGED <<data_sinks_, stop_, encoder>>

ReturnSuccess ==
  /\ MainStep
  /\ main = "end"
  /\ Return("success")
  /\ UNCHANGED <<data_sinks_, thread, stop_, encoder>>

-----------------------------------------------------------------------------
(* The encoder thread, and DataSink::WriteData. *)

EncoderStep ==
  /\ Running
  /\ UNCHANGED <<enabled, data_sinks_, thread, stop_, handled, main, exit_code,
                 crashed>>

(* No memory for the shared buffer: no sink gets it.  The encoder thread   *)
(* ends on a chunk of its loop, and goes on after the manifest and after   *)
(* the last audio chunk.                                                   *)
WriteDataFails ==
  /\ EncoderStep
  /\ encoder = "running" /\ written < MaxChunks
  /\ encoder' \in {"running", "returned"}
  /\ UNCHANGED <<written, next_sink, pending>>

WriteData ==
  /\ EncoderStep
  /\ encoder = "running" /\ written < MaxChunks
  /\ encoder' = "writing" /\ written' = written + 1 /\ next_sink' = 1
  /\ UNCHANGED pending

(* Mutant: only the sink that was added first gets the chunk. *)
WriteToSinkOnlyFirst ==
  /\ EncoderStep
  /\ encoder = "writing"
  /\ pending' = [pending EXCEPT ![data_sinks_[1]] = Append(@, written)]
  /\ encoder' = "running"
  /\ UNCHANGED <<written, next_sink>>

(* One turn of WriteData's loop: the sinks share the buffer. *)
WriteToSink ==
  /\ EncoderStep
  /\ encoder = "writing"
  /\ pending' = [pending EXCEPT ![data_sinks_[next_sink]] = Append(@, written)]
  /\ next_sink' = next_sink + 1
  /\ encoder' = IF next_sink = Len(data_sinks_) THEN "running" ELSE "writing"
  /\ UNCHANGED written

(* On a stop or on an error. *)
EncoderReturns ==
  /\ EncoderStep
  /\ encoder = "running"
  /\ encoder' = "returned"
  /\ UNCHANGED <<written, next_sink, pending>>

-----------------------------------------------------------------------------
(* The sinks' threads. *)

SinkStep(s) ==
  /\ Running
  /\ thread[s] = "running"
  /\ UNCHANGED <<enabled, data_sinks_, stop_, encoder_vars, main, exit_code,
                 crashed>>

Handle(s) ==
  /\ SinkStep(s)
  /\ pending[s] # <<>>
  /\ handled' = [handled EXCEPT ![s] = Append(@, Head(pending[s]))]
  /\ pending' = [pending EXCEPT ![s] = Tail(@)]
  /\ UNCHANGED thread

SinkReturns(s) ==
  /\ SinkStep(s)
  /\ stop_[s] /\ pending[s] = <<>>
  /\ thread' = [thread EXCEPT ![s] = "returned"]
  /\ UNCHANGED <<pending, handled>>

-----------------------------------------------------------------------------
Main ==
  \/ InitEncoder
  \/ StartSink(File, "start_writer", "start_uploader")
  \/ StartSink(Http, "start_uploader", "run")
  \/ RunEncoder \/ PollWithoutUploader \/ KeyPressed \/ JoinEncoder
  \/ StopSink(Http, "stop_uploader", "join_uploader", "stop_writer")
  \/ JoinSink(Http, "join_uploader", "stop_writer")
  \/ StopSink(File, "stop_writer", "join_writer", "end")
  \/ JoinSink(File, "join_writer", "end")
  \/ ReturnSuccess

EncoderThread == WriteDataFails \/ WriteData \/ WriteToSink \/ EncoderReturns

Next ==
  \/ Main
  \/ EncoderThread
  \/ \E s \in Sinks : Handle(s) \/ SinkReturns(s)

Spec == Init /\ [][Next]_vars
-----------------------------------------------------------------------------
(* Type invariant. *)
TypeOK ==
  /\ enabled \subseteq Sinks /\ data_sinks_ \in Seq(enabled)
  /\ thread \in [Sinks -> {"none", "running", "returned", "joined"}]
  /\ stop_ \in [Sinks -> BOOLEAN]
  /\ pending \in [Sinks -> Seq(1..MaxChunks)]
  /\ handled \in [Sinks -> Seq(1..MaxChunks)]
  /\ encoder \in {"none", "running", "writing", "returned", "joined"}
  /\ written \in 0..MaxChunks /\ next_sink \in 1..(Len(data_sinks_) + 1)
  /\ main \in {"init", "start_writer", "start_uploader", "run", "poll",
               "join_encoder", "stop_uploader", "join_uploader",
               "stop_writer", "join_writer", "end", "returned"}
  /\ exit_code \in {"none", "success", "failure"}
  /\ crashed \in {"no", "terminate", "check", "null_uploader"}

(* The number of chunks the loop of WriteData has given to the i-th sink. *)
Given(i) == IF encoder = "writing" /\ i >= next_sink THEN written - 1 ELSE written

(* Every sink gets every chunk, in the same order as the others: at any    *)
(* moment two sinks differ by at most the chunk being passed on, however   *)
(* far their threads are apart.                                            *)
SinksAgree ==
  \A i \in 1..Len(data_sinks_) :
    handled[data_sinks_[i]] \o pending[data_sinks_[i]] = [n \in 1..Given(i) |-> n]

(* When EncoderMain returns EXIT_SUCCESS, every chunk WriteData accepted   *)
(* has been handled by every enabled sink, the last ones included, and no  *)
(* thread is left, so the destructors do not terminate the process.        *)
DeliveredAtExit ==
  exit_code = "success" =>
    /\ crashed = "no" /\ encoder = "joined"
    /\ \A s \in enabled : Len(handled[s]) = written /\ thread[s] = "joined"

FileSink == INSTANCE FifoSink WITH
  pending <- pending[File], handled <- handled[File],
  closed <- thread[File] \in {"returned", "joined"}
HttpSink == INSTANCE FifoSink WITH
  pending <- pending[Http], handled <- handled[Http],
  closed <- thread[Http] \in {"returned", "joined"}

(* The program keeps its side of FifoSink, too: the encoder never writes   *)
(* to a sink whose thread has returned, because it is joined before any    *)
(* sink is stopped.                                                        *)
SinksUsedAsPromised == FileSink!Spec /\ HttpSink!Spec

(* encoder_main.cc:61, "--disable_http_upload  Disables upload of output   *)
(* to HTTP servers.": a run without the uploader works all the same.       *)
UploadIsOptional == crashed # "null_uploader"
=============================================================================
