---------------------------- MODULE HttpUploader ----------------------------
(***************************************************************************)
(* The HTTP sink: HttpUploaderImpl of encoder/http_uploader.cc on top of   *)
(* SharedBufferQueue, between the threads of FileWriter: the encoder       *)
(* thread enqueues, UploadThread dequeues and uploads, the main thread     *)
(* polls GetStats and finally calls Stop.                                  *)
(*                                                                         *)
(* Three things make it harder than the file sink.  mutex_ is also taken   *)
(* by GetStats and by the progress callback, so StopRequested, which only  *)
(* tries the lock, may answer "no" for reasons that have nothing to do     *)
(* with Stop.  An upload is a long call into libcurl during which Stop     *)
(* must be noticed.  The statistics of the upload in progress and those of *)
(* the finished ones are kept apart and read together.                     *)
(*                                                                         *)
(* libcurl is outside the repository: curl_easy_perform is a loop that     *)
(* calls ProgressCallback, stops when it returns 1, and otherwise moves at *)
(* most one unit of the buffer, stalls, fails, or completes the request.   *)
(*                                                                         *)
(* A set-up that fails does not keep the thread from running:              *)
(* HttpUploaderImpl::Init returns false on every path, which               *)
(* HttpUploader::Init, testing it as an int, takes for success.            *)
(***************************************************************************)
EXTENDS SharedBufferQueue, Integers

CONSTANTS
  BufferUnits,  \* bound: units libcurl moves to upload one buffer
  MaxBuffers,   \* bound: buffers the encoder thread writes
  MaxPolls,     \* bound: GetStats calls of the main thread
  MaxSpurious,  \* bound: wakeups of the condition variable without a notify
  Leftovers     \* counts stats_ may hold while nothing has initialized it

ASSUME BoundsAssumption ==
  /\ BufferUnits \in Nat \ {0}
  /\ Leftovers \subseteq Int
  /\ MaxBuffers \in Nat /\ MaxPolls \in Nat /\ MaxSpurious \in Nat

VARIABLES
  curl,       \* what Init left of ptr_curl_: "ready"; "no_write" or
              \* "no_progress" if setting that callback failed; "none" if NULL
  residue,    \* history: what total_bytes_uploaded held when Run was called
  stop_,                  \* HttpUploaderImpl::stop_
  mutex_,                 \* holder of HttpUploaderImpl::mutex_, or Free
  bytes_sent_current,     \* stats_.bytes_sent_current
  total_bytes_uploaded,   \* stats_.total_bytes_uploaded
  uploader,   \* control point of UploadThread
  buffer,     \* UploadThread's local: the buffer in hand, or NoBuffer
  moved,      \* libcurl: units of this buffer moved so far
  handled,    \* buffers whose Upload returned, in order
  encoder,    \* control point of the encoder thread in EnqueueBuffer
  sent,       \* number of buffers accepted by EnqueueBuffer
  main,       \* control point of the main thread
  polls,      \* number of GetStats calls so far
  shown,      \* the byte count EncoderMain printed last
  carried,    \* history: units moved over all uploads
  untallied,  \* history: those of uploads whose size libcurl did not report
  late,       \* history: units moved since stop_ was set
  spurious    \* number of spurious wakeups so far

setup_vars == <<curl, residue>>
stats_vars == <<bytes_sent_current, total_bytes_uploaded>>
upload_vars == <<buffer, moved, handled>>
history_vars == <<carried, untallied, late>>
encoder_vars == <<encoder, sent>>
poll_vars == <<polls, shown>>
vars == <<setup_vars, buffer_q, q_mutex, stop_, mutex_, stats_vars, uploader,
          upload_vars, encoder_vars, main, poll_vars, history_vars, spurious>>

(* HttpUploaderImpl::Init.  The statistics are reset at its end, which a   *)
(* missing target URL, a failed curl_easy_init (no handle) and a refused   *)
(* option never reach; the constructor does not set them.  libcurl refuses *)
(* no callback's data pointer, which it only stores.                       *)
SetUp ==
  /\ \/ curl = "ready" /\ bytes_sent_current = 0 /\ total_bytes_uploaded = 0
     \/ /\ curl \in {"no_write", "no_progress", "none"}
        /\ bytes_sent_current \in Leftovers
        /\ total_bytes_uploaded \in Leftovers
  /\ residue = total_bytes_uploaded

Init ==
  /\ QueueInit
  /\ SetUp
  /\ stop_ = FALSE /\ mutex_ = Free
  /\ uploader = "check" /\ buffer = NoBuffer /\ moved = 0 /\ handled = <<>>
  /\ encoder = "idle" /\ sent = 0
  /\ main = "polling" /\ polls = 0 /\ shown = 0
  /\ carried = 0 /\ untallied = 0 /\ late = 0
  /\ spurious = 0

(* notify_one wakes UploadThread if it is parked; otherwise it is lost. *)
NotifyOne == uploader' = IF uploader = "parked" THEN "woken" ELSE uploader

-----------------------------------------------------------------------------
(* EnqueueBuffer, on the encoder thread. *)

EnqueueBufferLock ==
  /\ encoder = "idle" /\ sent < MaxBuffers
  /\ EnqueueLock("encoder")
  /\ encoder' = "push"
  /\ UNCHANGED <<setup_vars, stop_, mutex_, stats_vars, uploader, upload_vars,
                 sent, main, poll_vars, history_vars, spurious>>

EnqueueBufferPush ==
  /\ encoder = "push"
  /\ EnqueuePush("encoder", sent + 1)
  /\ sent' = sent + 1
  /\ encoder' = "notify"
  /\ UNCHANGED <<setup_vars, stop_, mutex_, stats_vars, uploader, upload_vars,
                 main, poll_vars, history_vars, spurious>>

EnqueueBufferNotify ==
  /\ encoder = "notify"
  /\ NotifyOne
  /\ encoder' = "idle"
  /\ UNCHANGED <<setup_vars, queue_vars, stop_, mutex_, stats_vars,
                 upload_vars, sent, main, poll_vars, history_vars, spurious>>

(* EncoderThread returns: after WebmEncoder::Stop, or on an error. *)
EncoderExit ==
  /\ encoder = "idle"
  /\ encoder' = "exited"
  /\ UNCHANGED <<setup_vars, queue_vars, stop_, mutex_, stats_vars, uploader,
                 upload_vars, sent, main, poll_vars, history_vars, spurious>>

-----------------------------------------------------------------------------
(* GetStats, on the main thread, and the sum EncoderMain prints. *)

GetStatsLock ==
  /\ main = "polling" /\ polls < MaxPolls
  /\ mutex_ = Free
  /\ mutex_' = "main"
  /\ main' = "stats"
  /\ polls' = polls + 1
  /\ UNCHANGED <<setup_vars, queue_vars, stop_, stats_vars, uploader,
                 upload_vars, encoder_vars, shown, history_vars, spurious>>

GetStatsCopy ==
  /\ main = "stats"
  /\ shown' = bytes_sent_current + total_bytes_uploaded
  /\ mutex_' = Free
  /\ main' = "polling"
  /\ UNCHANGED <<setup_vars, queue_vars, stop_, stats_vars, uploader,
                 upload_vars, encoder_vars, polls, history_vars, spurious>>

-----------------------------------------------------------------------------
(* Stop, on the main thread, after encoder.Stop() joined the encoder       *)
(* thread.                                                                 *)

StopLock ==
  /\ main = "polling" /\ encoder = "exited"
  /\ mutex_ = Free
  /\ mutex_' = "main"
  /\ main' = "flag"
  /\ UNCHANGED <<setup_vars, queue_vars, stop_, stats_vars, uploader,
                 upload_vars, encoder_vars, poll_vars, history_vars, spurious>>

StopFlag ==
  /\ main = "flag"
  /\ stop_' = TRUE
  /\ mutex_' = Free
  /\ main' = "notify"
  /\ UNCHANGED <<setup_vars, queue_vars, stats_vars, uploader, upload_vars,
                 encoder_vars, poll_vars, history_vars, spurious>>

StopNotify ==
  /\ main = "notify"
  /\ NotifyOne
  /\ main' = "join"
  /\ UNCHANGED <<setup_vars, queue_vars, stop_, mutex_, stats_vars,
                 upload_vars, encoder_vars, poll_vars, history_vars, spurious>>

StopJoin ==
  /\ main = "join" /\ uploader = "done"
  /\ main' = "stopped"
  /\ UNCHANGED <<setup_vars, queue_vars, stop_, mutex_, stats_vars, uploader,
                 upload_vars, encoder_vars, poll_vars, history_vars, spurious>>

-----------------------------------------------------------------------------
(* The loop of UploadThread. *)

(* StopRequested only tries the lock and answers false when it is taken. *)
StopRequested == mutex_ = Free /\ stop_

(* Mutant: the loop ends on a stop without looking at the queue. *)
CheckStopNoDrain ==
  /\ uploader = "check"
  /\ uploader' = IF StopRequested THEN "done" ELSE "dequeue"
  /\ UNCHANGED <<setup_vars, queue_vars, stop_, mutex_, stats_vars,
                 upload_vars, encoder_vars, main, poll_vars, history_vars,
                 spurious>>

(* Loop condition: !StopRequested() || GetNumBuffers() > 0. *)
CheckStop ==
  /\ uploader = "check"
  /\ uploader' = IF StopRequested THEN "count" ELSE "dequeue"
  /\ UNCHANGED <<setup_vars, queue_vars, stop_, mutex_, stats_vars,
                 upload_vars, encoder_vars, main, poll_vars, history_vars,
                 spurious>>

CountBuffers ==
  /\ uploader = "count" /\ CanCount
  /\ uploader' = IF NumBuffers > 0 THEN "dequeue" ELSE "done"
  /\ UNCHANGED <<setup_vars, queue_vars, stop_, mutex_, stats_vars,
                 upload_vars, encoder_vars, main, poll_vars, history_vars,
                 spurious>>

Dequeue ==
  /\ uploader = "dequeue"
  /\ buffer' = DequeueResult
  /\ DequeueBuffer
  /\ uploader' = IF DequeueResult = NoBuffer THEN "lock" ELSE "setup"
  /\ UNCHANGED <<setup_vars, stop_, mutex_, stats_vars, moved, handled,
                 encoder_vars, main, poll_vars, history_vars, spurious>>

(* WaitForUserData: lock, park, take the lock again once woken. *)
WaitLock ==
  /\ uploader = "lock" /\ mutex_ = Free
  /\ mutex_' = "uploader"
  /\ uploader' = "wait"
  /\ UNCHANGED <<setup_vars, queue_vars, stop_, stats_vars, upload_vars,
                 encoder_vars, main, poll_vars, history_vars, spurious>>

WaitPark ==
  /\ uploader = "wait"
  /\ mutex_' = Free
  /\ uploader' = "parked"
  /\ UNCHANGED <<setup_vars, queue_vars, stop_, stats_vars, upload_vars,
                 encoder_vars, main, poll_vars, history_vars, spurious>>

WaitReturn ==
  /\ uploader = "woken" /\ mutex_ = Free
  /\ uploader' = "check"
  /\ UNCHANGED <<setup_vars, queue_vars, stop_, mutex_, stats_vars,
                 upload_vars, encoder_vars, main, poll_vars, history_vars,
                 spurious>>

SpuriousWakeup ==
  /\ uploader = "parked" /\ spurious < MaxSpurious
  /\ spurious' = spurious + 1
  /\ uploader' = "woken"
  /\ UNCHANGED <<setup_vars, queue_vars, stop_, mutex_, stats_vars,
                 upload_vars, encoder_vars, main, poll_vars, history_vars>>

-----------------------------------------------------------------------------
(* Upload, called from the loop. *)

(* Upload returns; UploadThread only logs a failure and never retries. *)
UploadReturns ==
  /\ handled' = Append(handled, buffer)
  /\ buffer' = NoBuffer
  /\ moved' = 0
  /\ uploader' = "check"

(* Where curl_easy_perform goes on: to the progress callback, if it knows. *)
CallsProgress == IF curl = "no_progress" THEN "transfer" ELSE "progress"

(* URL, form or post data, headers: Upload gives up if libcurl refuses     *)
(* one, as it does all of them without a handle.                           *)
UploadSetup(ok) ==
  /\ uploader = "setup"
  /\ ok => curl # "none"
  /\ IF ok THEN uploader' = CallsProgress /\ UNCHANGED upload_vars
           ELSE UploadReturns
  /\ UNCHANGED <<setup_vars, queue_vars, stop_, mutex_, stats_vars,
                 encoder_vars, main, poll_vars, history_vars, spurious>>

(* Mutant: the progress callback does not look at stop_. *)
ProgressCheckIgnoresStop ==
  /\ uploader = "progress"
  /\ uploader' = "report"
  /\ UNCHANGED <<setup_vars, queue_vars, stop_, mutex_, stats_vars,
                 upload_vars, encoder_vars, main, poll_vars, history_vars,
                 spurious>>

(* ProgressCallback: return 1 when a stop was requested ... *)
ProgressCheck ==
  /\ uploader = "progress"
  /\ uploader' = IF StopRequested THEN "tally" ELSE "report"
  /\ UNCHANGED <<setup_vars, queue_vars, stop_, mutex_, stats_vars,
                 upload_vars, encoder_vars, main, poll_vars, history_vars,
                 spurious>>

(* ... otherwise publish what this upload has moved so far. *)
ProgressReport ==
  /\ uploader = "report" /\ mutex_ = Free
  /\ bytes_sent_current' = moved
  /\ uploader' = "transfer"
  /\ UNCHANGED <<setup_vars, queue_vars, stop_, mutex_, total_bytes_uploaded,
                 upload_vars, encoder_vars, main, poll_vars, history_vars,
                 spurious>>

SendUnit ==
  /\ uploader = "transfer" /\ moved < BufferUnits
  /\ moved' = moved + 1
  /\ carried' = carried + 1
  /\ late' = IF stop_ THEN late + 1 ELSE late
  /\ uploader' = CallsProgress
  /\ UNCHANGED <<setup_vars, queue_vars, stop_, mutex_, stats_vars, buffer,
                 handled, encoder_vars, main, poll_vars, untallied, spurious>>

(* The peer is slow; libcurl calls the progress callback all the same. *)
Stall ==
  /\ uploader = "transfer"
  /\ uploader' = CallsProgress
  /\ UNCHANGED <<setup_vars, queue_vars, stop_, mutex_, stats_vars,
                 upload_vars, encoder_vars, main, poll_vars, history_vars,
                 spurious>>

(* curl_easy_perform returns: the request failed, or it was answered.      *)
(* The response goes to the log; a WriteCallback that sees a stop makes    *)
(* the request fail.                                                       *)
PerformReturns ==
  /\ uploader = "transfer"
  /\ uploader' = "tally"
  /\ UNCHANGED <<setup_vars, queue_vars, stop_, mutex_, stats_vars,
                 upload_vars, encoder_vars, main, poll_vars, history_vars,
                 spurious>>

(* Mutant: the current count is not cleared. *)
TallyKeepsCurrent ==
  /\ uploader = "tally" /\ mutex_ = Free
  /\ total_bytes_uploaded' = total_bytes_uploaded + moved
  /\ UploadReturns
  /\ UNCHANGED <<setup_vars, queue_vars, stop_, mutex_, bytes_sent_current,
                 encoder_vars, main, poll_vars, history_vars, spurious>>

(* Mutant: the current count is cleared and never added to the total. *)
TallyDropsCurrent ==
  /\ uploader = "tally" /\ mutex_ = Free
  /\ bytes_sent_current' = 0
  /\ UploadReturns
  /\ UNCHANGED <<setup_vars, queue_vars, stop_, mutex_, total_bytes_uploaded,
                 encoder_vars, main, poll_vars, history_vars, spurious>>

(* Once perform returned, whatever its status, what libcurl uploaded moves *)
(* from the current to the total count, under one hold of mutex_.          *)
Tally ==
  /\ uploader = "tally" /\ mutex_ = Free
  /\ bytes_sent_current' = 0
  /\ total_bytes_uploaded' = total_bytes_uploaded + moved
  /\ UploadReturns
  /\ UNCHANGED <<setup_vars, queue_vars, stop_, mutex_, encoder_vars, main,
                 poll_vars, history_vars, spurious>>

(* curl_easy_getinfo fails: the statistics stay as they are. *)
TallyFails ==
  /\ uploader = "tally"
  /\ untallied' = untallied + moved
  /\ UploadReturns
  /\ UNCHANGED <<setup_vars, queue_vars, stop_, mutex_, stats_vars,
                 encoder_vars, main, poll_vars, carried, late, spurious>>

-----------------------------------------------------------------------------
EncoderStep ==
  EnqueueBufferLock \/ EnqueueBufferPush \/ EnqueueBufferNotify \/ EncoderExit

MainStep ==
  GetStatsLock \/ GetStatsCopy \/ StopLock \/ StopFlag \/ StopNotify \/ StopJoin

UploadStep ==
  \/ \E ok \in BOOLEAN : UploadSetup(ok)
  \/ ProgressCheck \/ ProgressReport
  \/ SendUnit \/ Stall \/ PerformReturns
  \/ Tally \/ TallyFails

ThreadStep ==
  \/ CheckStop \/ CountBuffers \/ Dequeue
  \/ WaitLock \/ WaitPark \/ WaitReturn
  \/ UploadStep

Next == EncoderStep \/ MainStep \/ ThreadStep \/ SpuriousWakeup

(* Every thread that can run is eventually scheduled.  A peer may stall    *)
(* for ever, nothing forces the encoder to write, the main thread to poll  *)
(* or to stop, or a condition variable to wake by itself.                  *)
Fairness ==
  /\ WF_vars(ThreadStep)
  /\ WF_vars(GetStatsCopy \/ StopFlag \/ StopNotify \/ StopJoin)
  /\ WF_vars(EnqueueBufferPush \/ EnqueueBufferNotify)

Spec == Init /\ [][Next]_vars

FairSpec == Spec /\ Fairness

-----------------------------------------------------------------------------
Uploading ==
  uploader \in {"setup", "progress", "report", "transfer", "tally"}

(* Threads at known control points, locks with their users. *)
ThreadsOK ==
  /\ q_mutex \in {Free, "encoder"}
  /\ mutex_ \in {Free, "main", "uploader"}
  /\ stop_ \in BOOLEAN
  /\ curl \in {"ready", "no_write", "no_progress", "none"}
  /\ \/ Uploading
     \/ uploader \in {"check", "count", "dequeue", "lock", "wait", "parked",
                      "woken", "done"}
  /\ encoder \in {"idle", "push", "notify", "exited"}
  /\ main \in {"polling", "stats", "flag", "notify", "join", "stopped"}

(* Counters within what the encoder handed over. *)
CountersOK ==
  /\ buffer_q \in Seq(Nat) /\ handled \in Seq(Nat) /\ buffer \in Nat
  /\ bytes_sent_current \in Leftovers \cup 0..BufferUnits
  /\ total_bytes_uploaded \in Int /\ residue \in Int
  /\ moved \in 0..BufferUnits /\ sent \in 0..MaxBuffers
  /\ polls \in 0..MaxPolls /\ shown \in Int
  /\ carried \in Nat /\ untallied \in Nat /\ late \in Nat
  /\ spurious \in 0..MaxSpurious

(* Type invariant. *)
TypeOK == ThreadsOK /\ CountersOK

(* Every unit libcurl moved is counted once: in the total, in the upload   *)
(* in progress, or as lost to a failed size query; the total is off by     *)
(* what it held at the start and by nothing else.  After a complete set-up *)
(* that is 0, and the two statistics together never claim more than was    *)
(* moved, in any state GetStats could read, including between two uploads  *)
(* and after an aborted one.                                               *)
StatsAccount ==
  /\ carried + residue = total_bytes_uploaded + untallied + moved
  /\ curl = "ready" =>
       /\ residue = 0
       /\ total_bytes_uploaded + bytes_sent_current <= carried

(* After a complete set-up the byte count on the user's console never goes *)
(* back, unless libcurl failed to report the size of an upload: the        *)
(* current count is cleared and added to the total in the same critical    *)
(* section.                                                                *)
ShownNeverDecreases ==
  [][curl = "ready" => shown' >= shown \/ untallied > 0]_vars

(* A running upload stops when Stop is called (the comment on              *)
(* HttpUploaderImpl::Stop): once stop_ is set at most one more unit leaves *)
(* the machine, whatever is still queued, if libcurl took the progress     *)
(* callback.  In particular the queued buffers are drained without being   *)
(* uploaded.                                                               *)
StopIsPrompt == curl # "no_progress" => late <= 1

(* The sink promise, with the buffer being uploaded still pending. *)
Abstract == INSTANCE FifoSink WITH
  pending <- (IF Uploading THEN <<buffer>> ELSE <<>>) \o buffer_q,
  handled <- handled,
  closed <- (uploader = "done")

ImplementsFifoSink == Abstract!Spec

(* The control points from which UploadThread checks stop_ before it can   *)
(* wait again.                                                             *)
WillCheckStop == Uploading \/ uploader \in {"check", "count", "parked", "woken"}

(* If stop_ is set while UploadThread is parked, is anywhere in an upload  *)
(* (even one whose peer never answers) or is about to test the loop        *)
(* condition, Stop returns, if libcurl took the progress callback: without *)
(* it a stalled peer keeps the thread in curl_easy_perform.                *)
StopHonoured ==
  (main = "notify" /\ WillCheckStop /\ curl # "no_progress")
    ~> (main = "stopped")
==============================================================================
