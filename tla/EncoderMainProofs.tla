------------------------- MODULE EncoderMainProofs -------------------------
(***************************************************************************)
(* What holds of EncoderMain for any number of chunks.  The argument is    *)
(* the order of EncoderMain: sinks are started and added before the        *)
(* encoder, and the encoder is joined before a sink is told to stop.       *)
(***************************************************************************)
EXTENDS EncoderMain, SequenceLemmas

(* A sink is in the data sink, once, exactly when its thread was started.  *)
(* Before that it has seen nothing; after it returned it owes nothing.     *)
SinkInv ==
  /\ \A s \in Sinks : thread[s] # "none" <=>
                        \E i \in 1..Len(data_sinks_) : data_sinks_[i] = s
  /\ \A i, j \in 1..Len(data_sinks_) : data_sinks_[i] = data_sinks_[j] => i = j
  /\ \A s \in Sinks :
       /\ thread[s] = "none" => pending[s] = <<>> /\ handled[s] = <<>>
       /\ thread[s] \in {"returned", "joined"} => stop_[s] /\ pending[s] = <<>>
       /\ stop_[s] => encoder = "joined"

(* The encoder runs only with a sink to write to.                          *)
EncoderInv ==
  /\ encoder = "none" => written = 0 /\ next_sink = 1
  /\ encoder # "none" => data_sinks_ # <<>>
  /\ encoder = "writing" => written > 0 /\ next_sink <= Len(data_sinks_)

Starting == {"init", "start_writer", "start_uploader", "run"}
Stopping == {"stop_uploader", "join_uploader", "stop_writer", "join_writer",
             "end"}

(* How far EncoderMain has come.                                           *)
MainInv ==
  /\ main \in Starting => encoder = "none"
  /\ main \in {"init", "start_writer"} => thread[File] = "none"
  /\ main \in {"init", "start_writer", "start_uploader"} =>
       thread[Http] = "none"
  /\ main \in {"start_writer", "start_uploader"} => enabled # {}
  /\ main = "start_uploader" /\ File \in enabled => data_sinks_ # <<>>
  /\ main = "run" => data_sinks_ # <<>>
  /\ main \in Stopping => encoder = "joined"
  /\ main \in {"stop_writer", "join_writer", "end"} /\ Http \in enabled =>
       thread[Http] = "joined"
  /\ main = "end" /\ File \in enabled => thread[File] = "joined"

ExitInv ==
  /\ main # "returned" => exit_code = "none"
  /\ exit_code = "success" =>
       /\ crashed = "no" /\ encoder = "joined"
       /\ \A s \in enabled : thread[s] = "joined"

IInv == TypeOK /\ SinkInv /\ EncoderInv /\ MainInv /\ ExitInv /\ SinksAgree

-----------------------------------------------------------------------------
(* A sink added to the data sink. *)
LEMMA Added ==
  ASSUME NEW d \in Seq(Sinks), NEW s \in Sinks
  PROVE  /\ Len(d) \in Nat /\ Len(Append(d, s)) = Len(d) + 1
         /\ \A i \in 1..Len(d) : Append(d, s)[i] = d[i]
         /\ Append(d, s)[Len(d) + 1] = s
         /\ Append(d, s) # <<>>
         /\ \A i \in 1..Len(Append(d, s)) : i \in 1..Len(d) \/ i = Len(d) + 1
         /\ \A i \in 1..Len(d) : i \in 1..Len(Append(d, s)) /\ i # Len(d) + 1
         /\ Len(d) + 1 \in 1..Len(Append(d, s))
<1>1. /\ Len(d) \in Nat /\ Len(Append(d, s)) = Len(d) + 1
      /\ \A i \in 1..Len(d) : Append(d, s)[i] = d[i]
      /\ Append(d, s)[Len(d) + 1] = s
      /\ Append(d, s) # <<>>
  BY AppendProperties, LenProperties
<1> QED
  BY <1>1

-----------------------------------------------------------------------------
LEMMA InitIInv == Init => IInv
<1> SUFFICES ASSUME Init PROVE IInv
  OBVIOUS
<1> USE ChunksAssumption DEF Init, Sinks, File, Http
<1>1. /\ data_sinks_ = <<>> /\ Len(data_sinks_) = 0 /\ 1..Len(data_sinks_) = {}
      /\ data_sinks_ \in Seq(enabled)
  BY EmptySeq
<1>2. TypeOK
  <2>1. /\ pending \in [Sinks -> Seq(1..MaxChunks)]
        /\ handled \in [Sinks -> Seq(1..MaxChunks)]
    BY EmptySeq
  <2>2. /\ thread \in [Sinks -> {"none", "running", "returned", "joined"}]
        /\ stop_ \in [Sinks -> BOOLEAN]
    OBVIOUS
  <2>3. written \in 0..MaxChunks /\ next_sink \in 1..(Len(data_sinks_) + 1)
    BY <1>1
  <2> QED
    BY <1>1, <2>1, <2>2, <2>3 DEF TypeOK
<1>3. SinkInv
  BY <1>1 DEF SinkInv
<1>4. EncoderInv /\ MainInv /\ ExitInv
  BY <1>1 DEF EncoderInv, MainInv, ExitInv, Stopping
<1>5. SinksAgree
  BY <1>1 DEF SinksAgree
<1> QED
  BY <1>2, <1>3, <1>4, <1>5 DEF IInv

(* The type invariant, one step per action. *)
LEMMA TypeStep == IInv /\ [Next]_vars => TypeOK'
<1> SUFFICES ASSUME IInv, [Next]_vars PROVE TypeOK'
  OBVIOUS
<1>t. /\ enabled \subseteq Sinks /\ data_sinks_ \in Seq(enabled)
      /\ data_sinks_ \in Seq(Sinks) /\ Len(data_sinks_) \in Nat
      /\ written \in 0..MaxChunks /\ next_sink \in 1..(Len(data_sinks_) + 1)
  BY LenProperties DEF IInv, TypeOK
<1> USE ChunksAssumption DEF TypeOK, MainStep, GoTo, Return, EncoderStep,
        SinkStep, encoder_vars
<1>1. CASE InitEncoder \/ RunEncoder \/ PollWithoutUploader \/ KeyPressed
  BY <1>1 DEF IInv, InitEncoder, RunEncoder, PollWithoutUploader, KeyPressed
<1>2. ASSUME NEW s \in Sinks, NEW point,
             NEW after \in {"start_uploader", "run"},
             StartSink(s, point, after)
      PROVE  TypeOK'
  <2>1. CASE s \in enabled /\ data_sinks_' = Append(data_sinks_, s)
    <3>1. /\ data_sinks_' \in Seq(enabled)
          /\ Len(data_sinks_') = Len(data_sinks_) + 1
      BY <1>t, <2>1, AppendProperties
    <3>2. next_sink' \in 1..(Len(data_sinks_') + 1)
      BY <1>t, <1>2, <3>1 DEF StartSink
    <3> QED
      BY <1>2, <3>1, <3>2 DEF IInv, StartSink
  <2>2. CASE ~(s \in enabled /\ data_sinks_' = Append(data_sinks_, s))
    BY <1>2, <2>2 DEF IInv, StartSink
  <2> QED
    BY <2>1, <2>2
<1>3. CASE JoinEncoder \/ ReturnSuccess
  BY <1>3 DEF IInv, JoinEncoder, ReturnSuccess
<1>4. ASSUME NEW s \in Sinks, NEW point,
             NEW join \in {"join_uploader", "join_writer"},
             NEW after \in {"stop_writer", "end"},
             StopSink(s, point, join, after) \/ JoinSink(s, point, after)
      PROVE  TypeOK'
  <2>1. CASE StopSink(s, point, join, after)
    BY <1>4, <2>1 DEF IInv, StopSink
  <2>2. CASE JoinSink(s, point, after)
    BY <1>4, <2>2 DEF IInv, JoinSink
  <2> QED
    BY <1>4, <2>1, <2>2
<1>5. CASE WriteDataFails \/ WriteData \/ EncoderReturns
  <2>1. CASE WriteDataFails
    BY <1>t, <2>1 DEF WriteDataFails, IInv, EncoderInv
  <2>2. CASE WriteData
    BY <1>t, <2>2 DEF WriteData, IInv, EncoderInv
  <2>3. CASE EncoderReturns
    BY <1>t, <2>3 DEF EncoderReturns, IInv, EncoderInv
  <2> QED
    BY <1>5, <2>1, <2>2, <2>3
<1>6. CASE WriteToSink
  <2>1. /\ encoder = "writing" /\ next_sink \in 1..Len(data_sinks_)
        /\ data_sinks_[next_sink] \in Sinks /\ written \in 1..MaxChunks
    BY <1>6, <1>t DEF IInv, EncoderInv, WriteToSink
  <2>2. pending' \in [Sinks -> Seq(1..MaxChunks)]
    <3>1. Append(pending[data_sinks_[next_sink]], written) \in Seq(1..MaxChunks)
      BY <2>1, AppendProperties DEF IInv
    <3> QED
      BY <1>6, <2>1, <3>1 DEF IInv, WriteToSink
  <2>3. next_sink' \in 1..(Len(data_sinks_') + 1)
    BY <1>6, <1>t, <2>1 DEF WriteToSink
  <2> QED
    BY <1>6, <2>2, <2>3 DEF IInv, WriteToSink
<1>7. ASSUME NEW s \in Sinks, Handle(s) PROVE TypeOK'
  <2>1. /\ pending[s] \in Seq(1..MaxChunks) /\ pending[s] # <<>>
        /\ handled[s] \in Seq(1..MaxChunks)
    BY <1>7 DEF IInv, Handle
  <2>2. /\ Tail(pending[s]) \in Seq(1..MaxChunks)
        /\ Head(pending[s]) \in 1..MaxChunks
    BY <2>1, HeadTailProperties
  <2>3. Append(handled[s], Head(pending[s])) \in Seq(1..MaxChunks)
    BY <2>1, <2>2, AppendProperties
  <2> QED
    BY <1>7, <2>2, <2>3 DEF IInv, Handle
<1>8. ASSUME NEW s \in Sinks, SinkReturns(s) PROVE TypeOK'
  BY <1>8 DEF IInv, SinkReturns
<1>9. CASE UNCHANGED vars
  BY <1>9 DEF IInv, vars, sink_state
<1> QED
  <2>1. File \in Sinks /\ Http \in Sinks
    BY DEF Sinks
  <2> QED
    BY <1>1, <1>2, <1>3, <1>4, <1>5, <1>6, <1>7, <1>8, <1>9, <2>1
       DEF Next, Main, EncoderThread

(* The sinks. *)
LEMMA SinkInvStep == IInv /\ [Next]_vars => SinkInv'
<1> SUFFICES ASSUME IInv, [Next]_vars PROVE SinkInv'
  OBVIOUS
<1>t. /\ data_sinks_ \in Seq(Sinks) /\ Len(data_sinks_) \in Nat
      /\ File \in Sinks /\ Http \in Sinks
      /\ thread \in [Sinks -> {"none", "running", "returned", "joined"}]
      /\ stop_ \in [Sinks -> BOOLEAN]
  BY LenProperties DEF IInv, TypeOK, Sinks
<1>p. DOMAIN pending = Sinks /\ DOMAIN handled = Sinks
  BY DEF IInv, TypeOK
<1>u. ASSUME UNCHANGED <<data_sinks_, thread, pending, handled, stop_>>,
             encoder = "joined" => encoder' = "joined"
      PROVE  SinkInv'
  BY <1>u DEF IInv, SinkInv
<1> USE DEF IInv, SinkInv, MainStep, GoTo, Return, EncoderStep, SinkStep,
        encoder_vars
<1>1. CASE InitEncoder \/ RunEncoder \/ PollWithoutUploader \/ KeyPressed
  BY <1>1, <1>u DEF InitEncoder, RunEncoder, PollWithoutUploader, KeyPressed,
     MainInv, Starting
<1>2. ASSUME NEW s \in Sinks, NEW point, NEW after,
             StartSink(s, point, after), thread[s] = "none"
      PROVE  SinkInv'
  <2>1. CASE data_sinks_' = Append(data_sinks_, s) /\ thread' # thread
    <3>1. /\ thread' = [thread EXCEPT ![s] = "running"]
          /\ UNCHANGED <<stop_, encoder, pending, handled>>
      BY <1>2, <2>1 DEF StartSink
    <3>2. \A i \in 1..Len(data_sinks_) : data_sinks_[i] # s
      BY <1>2
    <3>3. ASSUME NEW r \in Sinks
          PROVE  thread'[r] # "none" <=>
                   \E i \in 1..Len(data_sinks_') : data_sinks_'[i] = r
      BY <2>1, <3>1, <1>t, <1>2, Added
    <3>4. ASSUME NEW i \in 1..Len(data_sinks_'), NEW j \in 1..Len(data_sinks_'),
                 data_sinks_'[i] = data_sinks_'[j]
          PROVE  i = j
      BY <2>1, <3>2, <3>4, <1>t, Added
    <3>5. ASSUME NEW r \in Sinks
          PROVE  /\ thread'[r] = "none" =>
                      pending'[r] = <<>> /\ handled'[r] = <<>>
                 /\ thread'[r] \in {"returned", "joined"} =>
                      stop_'[r] /\ pending'[r] = <<>>
                 /\ stop_'[r] => encoder' = "joined"
      BY <3>1, <1>t
    <3> QED
      BY <3>3, <3>4, <3>5
  <2>2. CASE ~(data_sinks_' = Append(data_sinks_, s) /\ thread' # thread)
    <3>1. UNCHANGED <<data_sinks_, thread, stop_, encoder, pending, handled>>
      <4>1. [thread EXCEPT ![s] = "running"] # thread
        BY <1>2, <1>t
      <4> QED
        BY <1>2, <2>2, <4>1 DEF StartSink
    <3> QED
      BY <3>1, <1>u
  <2> QED
    BY <2>1, <2>2
<1>3. CASE JoinEncoder \/ ReturnSuccess
  BY <1>3, <1>u DEF JoinEncoder, ReturnSuccess
<1>4. ASSUME NEW s \in Sinks, NEW point \in Stopping, NEW join, NEW after,
             StopSink(s, point, join, after)
      PROVE  SinkInv'
  BY <1>4, <1>t DEF StopSink, MainInv
<1>5. ASSUME NEW s \in Sinks, NEW point, NEW after, JoinSink(s, point, after)
      PROVE  SinkInv'
  BY <1>5, <1>t DEF JoinSink
<1>6. CASE WriteDataFails \/ WriteData \/ EncoderReturns
  BY <1>6, <1>u DEF WriteDataFails, WriteData, EncoderReturns
<1>7. CASE WriteToSink
  <2> DEFINE r == data_sinks_[next_sink]
  <2>1. /\ r \in Sinks /\ encoder = "writing" /\ thread[r] = "running"
        /\ \A s \in Sinks : ~stop_[s]
    <3>1. encoder = "writing" /\ next_sink \in 1..Len(data_sinks_)
      BY <1>7, <1>t DEF WriteToSink, EncoderInv, TypeOK
    <3> QED
      BY <3>1, <1>t
  <2>2. \A s \in Sinks : s # r => pending'[s] = pending[s]
    BY <1>7, <1>t, <1>p DEF WriteToSink
  <2>3. UNCHANGED <<data_sinks_, thread, stop_, handled>>
    BY <1>7 DEF WriteToSink
  <2> HIDE DEF r
  <2> QED
    BY <2>1, <2>2, <2>3, <1>t
<1>8. ASSUME NEW s \in Sinks, Handle(s) \/ SinkReturns(s) PROVE SinkInv'
  BY <1>8, <1>t, <1>p DEF Handle, SinkReturns
<1>9. CASE UNCHANGED vars
  BY <1>9 DEF vars, sink_state
<1> QED
  <2>1. ASSUME StartSink(File, "start_writer", "start_uploader")
        PROVE  thread[File] = "none"
    BY <2>1 DEF StartSink, MainInv
  <2>2. ASSUME StartSink(Http, "start_uploader", "run")
        PROVE  thread[Http] = "none"
    BY <2>2 DEF StartSink, MainInv
  <2> HIDE DEF IInv, SinkInv, MainStep, GoTo, Return, EncoderStep, SinkStep
  <2>3. "stop_uploader" \in Stopping /\ "stop_writer" \in Stopping
    BY DEF Stopping
  <2> QED
    BY <1>1, <1>2, <1>3, <1>4, <1>5, <1>6, <1>7, <1>8, <1>9, <1>t,
       <2>1, <2>2, <2>3 DEF Next, Main, EncoderThread

(* The encoder. *)
LEMMA EncoderInvStep == IInv /\ [Next]_vars => EncoderInv'
<1> SUFFICES ASSUME IInv, [Next]_vars PROVE EncoderInv'
  OBVIOUS
<1>t. /\ data_sinks_ \in Seq(Sinks) /\ Len(data_sinks_) \in Nat
      /\ data_sinks_ # <<>> => Len(data_sinks_) > 0
      /\ written \in Nat /\ next_sink \in 1..(Len(data_sinks_) + 1)
      /\ File \in Sinks /\ Http \in Sinks
  <2>1. data_sinks_ \in Seq(Sinks)
    BY DEF IInv, TypeOK
  <2>2. Len(data_sinks_) \in Nat /\ (data_sinks_ # <<>> => Len(data_sinks_) > 0)
    BY <2>1, LenProperties, EmptySeq
  <2> QED
    BY <2>1, <2>2, ChunksAssumption DEF IInv, TypeOK, Sinks
<1> USE DEF IInv, EncoderInv, MainStep, GoTo, Return, EncoderStep, SinkStep,
        encoder_vars
<1>1. CASE InitEncoder \/ RunEncoder \/ PollWithoutUploader \/ KeyPressed
  BY <1>1, <1>t DEF InitEncoder, RunEncoder, PollWithoutUploader, KeyPressed,
     MainInv, Starting
<1>2. ASSUME NEW s \in Sinks, NEW point \in Starting, NEW after,
             StartSink(s, point, after)
      PROVE  EncoderInv'
  <2>1. encoder = "none"
    BY <1>2 DEF StartSink, MainInv
  <2> QED
    BY <1>2, <2>1 DEF StartSink
<1>3. CASE JoinEncoder \/ ReturnSuccess
  BY <1>3 DEF JoinEncoder, ReturnSuccess
<1>4. ASSUME NEW s \in Sinks, NEW point, NEW join, NEW after,
             StopSink(s, point, join, after) \/ JoinSink(s, point, after)
      PROVE  EncoderInv'
  BY <1>4 DEF StopSink, JoinSink
<1>5. CASE WriteDataFails \/ WriteData \/ WriteToSink \/ EncoderReturns
  BY <1>5, <1>t DEF WriteDataFails, WriteData, WriteToSink, EncoderReturns
<1>6. ASSUME NEW s \in Sinks, Handle(s) \/ SinkReturns(s) PROVE EncoderInv'
  BY <1>6 DEF Handle, SinkReturns
<1>7. CASE UNCHANGED vars
  BY <1>7 DEF vars, sink_state
<1> QED
  <2>1. "start_writer" \in Starting /\ "start_uploader" \in Starting
    BY DEF Starting
  <2> HIDE DEF IInv, EncoderInv, MainStep, GoTo, Return, EncoderStep, SinkStep
  <2> QED
    BY <1>1, <1>2, <1>3, <1>4, <1>5, <1>6, <1>7, <1>t, <2>1
       DEF Next, Main, EncoderThread

(* How far EncoderMain has come. *)
LEMMA MainInvStep == IInv /\ [Next]_vars => MainInv'
<1> SUFFICES ASSUME IInv, [Next]_vars PROVE MainInv'
  OBVIOUS
<1>t. /\ data_sinks_ \in Seq(Sinks) /\ enabled \subseteq Sinks
      /\ File \in Sinks /\ Http \in Sinks /\ File # Http
      /\ thread \in [Sinks -> {"none", "running", "returned", "joined"}]
  <2>1. File \in Sinks /\ Http \in Sinks /\ File # Http
    BY DEF Sinks, File, Http
  <2> QED
    BY <2>1 DEF IInv, TypeOK
<1>m. MainInv
  BY DEF IInv
<1> USE DEF MainStep, GoTo, Return, EncoderStep, SinkStep, encoder_vars
<1>1. CASE InitEncoder
  BY <1>1, <1>m DEF MainInv, InitEncoder, Starting, Stopping
<1>2. CASE StartSink(File, "start_writer", "start_uploader")
  <2>1. /\ main = "start_writer" /\ encoder' = encoder /\ enabled' = enabled
        /\ encoder = "none" /\ thread[Http] = "none" /\ enabled # {}
    BY <1>2, <1>m DEF StartSink, MainInv, Starting
  <2>2. CASE main' = "start_uploader"
    <3>1. thread'[Http] = "none"
      BY <1>2, <2>1, <1>t DEF StartSink
    <3>2. File \in enabled => data_sinks_' # <<>>
      BY <1>2, <2>2, <1>t, Added DEF StartSink
    <3> QED
      BY <2>1, <2>2, <3>1, <3>2 DEF MainInv, Starting, Stopping
  <2>3. CASE main' = "returned"
    BY <2>3 DEF MainInv, Starting, Stopping
  <2> QED
    BY <1>2, <2>2, <2>3 DEF StartSink
<1>3. CASE StartSink(Http, "start_uploader", "run")
  <2>1. /\ main = "start_uploader" /\ encoder' = encoder /\ encoder = "none"
        /\ enabled # {} /\ (File \in enabled => data_sinks_ # <<>>)
    BY <1>3, <1>m DEF StartSink, MainInv, Starting
  <2>2. CASE main' = "run"
    <3>1. data_sinks_' # <<>>
      <4>1. CASE Http \in enabled
        BY <1>3, <2>2, <4>1, <1>t, Added DEF StartSink
      <4>2. CASE Http \notin enabled
        <5>1. File \in enabled
          BY <2>1, <4>2, <1>t DEF Sinks
        <5> QED
          BY <1>3, <2>1, <4>2, <5>1 DEF StartSink
      <4> QED
        BY <4>1, <4>2
    <3> QED
      BY <2>1, <2>2, <3>1 DEF MainInv, Starting, Stopping
  <2>3. CASE main' = "returned"
    BY <2>3 DEF MainInv, Starting, Stopping
  <2> QED
    BY <1>3, <2>2, <2>3 DEF StartSink
<1>4. CASE RunEncoder \/ PollWithoutUploader \/ KeyPressed
  BY <1>4, <1>m DEF RunEncoder, PollWithoutUploader, KeyPressed,
     MainInv, Starting, Stopping
<1>5. CASE JoinEncoder \/ ReturnSuccess
  BY <1>5, <1>m DEF JoinEncoder, ReturnSuccess, MainInv, Starting, Stopping
<1>6. CASE \/ StopSink(Http, "stop_uploader", "join_uploader", "stop_writer")
           \/ StopSink(File, "stop_writer", "join_writer", "end")
  BY <1>6, <1>m DEF StopSink, MainInv, Starting, Stopping
<1>7. CASE JoinSink(Http, "join_uploader", "stop_writer")
  BY <1>7, <1>m, <1>t DEF JoinSink, MainInv, Starting, Stopping
<1>8. CASE JoinSink(File, "join_writer", "end")
  BY <1>8, <1>m, <1>t DEF JoinSink, MainInv, Starting, Stopping
<1>9. CASE EncoderThread
  <2>1. /\ encoder \in {"running", "writing"}
        /\ UNCHANGED <<main, enabled, thread, data_sinks_>>
    BY <1>9 DEF EncoderThread, WriteDataFails, WriteData, WriteToSink,
       EncoderReturns
  <2> QED
    BY <2>1, <1>m DEF MainInv, Starting, Stopping
<1>10. ASSUME NEW s \in Sinks, Handle(s) \/ SinkReturns(s) PROVE MainInv'
  <2>1. /\ UNCHANGED <<main, enabled, data_sinks_, encoder>>
        /\ \A r \in Sinks :
             /\ thread[r] = "none" => thread'[r] = "none"
             /\ thread[r] = "joined" => thread'[r] = "joined"
    BY <1>10, <1>t DEF Handle, SinkReturns
  <2>2. /\ thread[File] = "none" => thread'[File] = "none"
        /\ thread[File] = "joined" => thread'[File] = "joined"
        /\ thread[Http] = "none" => thread'[Http] = "none"
        /\ thread[Http] = "joined" => thread'[Http] = "joined"
    BY <2>1, <1>t
  <2> QED
    BY <2>1, <2>2, <1>m DEF MainInv
<1>11. CASE UNCHANGED vars
  BY <1>11, <1>m DEF MainInv, vars, sink_state
<1> QED
  <2> HIDE DEF MainStep, GoTo, Return, EncoderStep, SinkStep
  <2> QED
    BY <1>1, <1>2, <1>3, <1>4, <1>5, <1>6, <1>7, <1>8, <1>9, <1>10, <1>11
       DEF Next, Main

(* The end. *)
LEMMA ExitInvStep == IInv /\ [Next]_vars => ExitInv'
<1> SUFFICES ASSUME IInv, [Next]_vars PROVE ExitInv'
  OBVIOUS
<1>t. /\ data_sinks_ \in Seq(enabled) /\ enabled \subseteq Sinks
      /\ Sinks = {File, Http}
      /\ thread \in [Sinks -> {"none", "running", "returned", "joined"}]
  BY DEF IInv, TypeOK, Sinks
<1>m. MainInv /\ ExitInv
  BY DEF IInv
<1> USE DEF MainStep, GoTo, Return, EncoderStep, SinkStep, encoder_vars
<1>1. CASE \/ InitEncoder \/ RunEncoder \/ PollWithoutUploader \/ KeyPressed
           \/ JoinEncoder
  BY <1>1, <1>m DEF InitEncoder, RunEncoder, PollWithoutUploader, KeyPressed,
     JoinEncoder, ExitInv
<1>2. ASSUME NEW s \in Sinks, NEW point \in Starting,
             NEW after \in {"start_uploader", "run"}, StartSink(s, point, after)
      PROVE  ExitInv'
  BY <1>2, <1>m DEF StartSink, ExitInv, Starting
<1>3. ASSUME NEW s \in Sinks, NEW point \in Stopping,
             NEW join \in {"join_uploader", "join_writer"},
             NEW after \in {"stop_writer", "end"},
             StopSink(s, point, join, after) \/ JoinSink(s, point, after)
      PROVE  ExitInv'
  BY <1>3, <1>m DEF StopSink, JoinSink, ExitInv, Stopping
<1>4. CASE ReturnSuccess
  <2>1. main = "end" /\ encoder = "joined" /\ crashed = "no"
    BY <1>4, <1>m DEF ReturnSuccess, MainInv, Stopping, Running
  <2>2. \A s \in enabled : thread[s] = "joined"
    BY <2>1, <1>m, <1>t DEF MainInv
  <2>3. \A s \in Sinks : s \notin enabled => thread[s] = "none"
    <3>1. \A i \in 1..Len(data_sinks_) : data_sinks_[i] \in enabled
      BY <1>t
    <3> QED
      BY <3>1 DEF IInv, SinkInv
  <2>4. ~ \E s \in Sinks : thread[s] \in {"running", "returned"}
    BY <2>2, <2>3
  <2> QED
    BY <1>4, <2>1, <2>2, <2>4 DEF ReturnSuccess, ExitInv
<1>5. CASE EncoderThread
  BY <1>5, <1>m DEF EncoderThread, WriteDataFails, WriteData, WriteToSink,
     EncoderReturns, ExitInv
<1>6. ASSUME NEW s \in Sinks, Handle(s) \/ SinkReturns(s) PROVE ExitInv'
  <2>1. UNCHANGED <<main, exit_code, crashed, encoder, enabled>>
    BY <1>6 DEF Handle, SinkReturns
  <2>2. \A r \in Sinks : thread[r] = "joined" => thread'[r] = "joined"
    BY <1>6, <1>t DEF Handle, SinkReturns
  <2> QED
    BY <2>1, <2>2, <1>m, <1>t DEF ExitInv
<1>7. CASE UNCHANGED vars
  BY <1>7, <1>m DEF vars, sink_state, ExitInv
<1> QED
  <2>1. /\ "start_writer" \in Starting /\ "start_uploader" \in Starting
        /\ \A p \in {"stop_uploader", "join_uploader", "stop_writer",
                      "join_writer"} : p \in Stopping
    BY DEF Starting, Stopping
  <2> HIDE DEF MainStep, GoTo, Return, EncoderStep, SinkStep
  <2> QED
    BY <1>1, <1>2, <1>3, <1>4, <1>5, <1>6, <1>7, <1>t, <2>1 DEF Next, Main

(* Order and conservation: only the steps of WriteData's loop and of a     *)
(* sink's thread move a chunk.                                             *)
LEMMA AgreeStep == IInv /\ [Next]_vars => SinksAgree'
<1> SUFFICES ASSUME IInv, [Next]_vars PROVE SinksAgree'
  OBVIOUS
<1>t. /\ data_sinks_ \in Seq(Sinks) /\ Len(data_sinks_) \in Nat
      /\ \A i \in 1..Len(data_sinks_) : data_sinks_[i] \in Sinks
      /\ \A s \in Sinks : pending[s] \in Seq(Nat) /\ handled[s] \in Seq(Nat)
      /\ DOMAIN pending = Sinks /\ DOMAIN handled = Sinks
      /\ written \in Nat /\ next_sink \in 1..(Len(data_sinks_) + 1)
      /\ File \in Sinks /\ Http \in Sinks
  <2>1. data_sinks_ \in Seq(Sinks) /\ enabled \subseteq Sinks
    BY DEF IInv, TypeOK
  <2>2. /\ Len(data_sinks_) \in Nat
        /\ \A i \in 1..Len(data_sinks_) : data_sinks_[i] \in Sinks
    BY <2>1, LenProperties
  <2>3. \A q : q \in Seq(1..MaxChunks) => q \in Seq(Nat)
    BY ChunksAssumption
  <2>4. /\ \A s \in Sinks : pending[s] \in Seq(Nat) /\ handled[s] \in Seq(Nat)
        /\ DOMAIN pending = Sinks /\ DOMAIN handled = Sinks
    BY <2>3 DEF IInv, TypeOK
  <2>5. written \in Nat /\ next_sink \in 1..(Len(data_sinks_) + 1)
    BY ChunksAssumption DEF IInv, TypeOK
  <2>6. File \in Sinks /\ Http \in Sinks
    BY DEF Sinks
  <2> QED
    BY <2>1, <2>2, <2>4, <2>5, <2>6
<1>a. \A i \in 1..Len(data_sinks_) :
        handled[data_sinks_[i]] \o pending[data_sinks_[i]] = Count(Given(i))
  BY DEF IInv, SinksAgree, Count
<1>s. ASSUME \A i \in 1..Len(data_sinks_') :
               handled'[data_sinks_'[i]] \o pending'[data_sinks_'[i]]
                 = Count(Given(i)')
      PROVE  SinksAgree'
  BY <1>s DEF SinksAgree, Count
<1>u. ASSUME UNCHANGED <<data_sinks_, handled, pending>>,
             \A i \in 1..Len(data_sinks_) : Given(i)' = Given(i)
      PROVE  SinksAgree'
  BY <1>u, <1>a, <1>s
<1> USE DEF MainStep, GoTo, Return, EncoderStep, SinkStep, encoder_vars
<1>1. CASE \/ InitEncoder \/ RunEncoder \/ PollWithoutUploader \/ KeyPressed
           \/ JoinEncoder \/ ReturnSuccess
  BY <1>1, <1>u DEF InitEncoder, RunEncoder, PollWithoutUploader, KeyPressed,
     JoinEncoder, ReturnSuccess, Given, IInv, MainInv, Starting
<1>2. ASSUME NEW s \in Sinks, NEW point \in Starting, NEW after,
             StartSink(s, point, after), thread[s] = "none"
      PROVE  SinksAgree'
  <2>1. /\ encoder = "none" /\ written = 0
        /\ UNCHANGED <<encoder, written, next_sink, pending, handled>>
    BY <1>2 DEF StartSink, IInv, MainInv, EncoderInv
  <2>2. \A i : Given(i)' = 0 /\ Given(i) = 0
    BY <2>1 DEF Given
  <2>3. CASE data_sinks_' = Append(data_sinks_, s)
    <3>1. handled[s] \o pending[s] = Count(0)
      BY <1>2, CountProperties DEF IInv, SinkInv
    <3>2. ASSUME NEW i \in 1..Len(data_sinks_')
          PROVE  handled'[data_sinks_'[i]] \o pending'[data_sinks_'[i]]
                   = Count(Given(i)')
      <4>1. CASE i \in 1..Len(data_sinks_)
        <5>1. data_sinks_'[i] = data_sinks_[i]
          BY <2>3, <4>1, <1>t, Added
        <5>2. handled[data_sinks_[i]] \o pending[data_sinks_[i]]
                = Count(Given(i))
          BY <4>1, <1>a
        <5> QED
          BY <2>1, <2>2, <5>1, <5>2
      <4>2. CASE i = Len(data_sinks_) + 1
        <5>1. data_sinks_'[i] = s
          BY <2>3, <4>2, <1>t, Added
        <5> QED
          BY <2>1, <2>2, <3>1, <5>1
      <4> QED
        BY <2>3, <4>1, <4>2, <1>t, Added
    <3> QED
      BY <3>2, <1>s
  <2>4. CASE data_sinks_' = data_sinks_
    BY <2>1, <2>2, <2>4, <1>u
  <2> QED
    BY <1>2, <2>3, <2>4 DEF StartSink
<1>3. ASSUME NEW s \in Sinks, NEW point, NEW join, NEW after,
             StopSink(s, point, join, after) \/ JoinSink(s, point, after)
      PROVE  SinksAgree'
  BY <1>3, <1>u DEF StopSink, JoinSink, Given
<1>4. CASE WriteDataFails \/ EncoderReturns
  BY <1>4, <1>u DEF WriteDataFails, EncoderReturns, Given
<1>5. CASE WriteData
  <2>1. \A i \in 1..Len(data_sinks_) : Given(i)' = Given(i)
    BY <1>5, <1>t DEF WriteData, Given
  <2> QED
    BY <1>5, <2>1, <1>u DEF WriteData
<1>6. CASE WriteToSink
  <2>0. next_sink \in 1..Len(data_sinks_)
    BY <1>6, <1>t DEF WriteToSink, IInv, EncoderInv
  <2>k. PICK k \in 1..Len(data_sinks_) : k = next_sink
    BY <2>0
  <2> DEFINE r == data_sinks_[k]
  <2>1. /\ encoder = "writing"
        /\ written - 1 \in Nat /\ r \in Sinks
        /\ UNCHANGED <<data_sinks_, handled, written>>
    BY <1>6, <1>t, <2>k DEF WriteToSink, IInv, EncoderInv
  <2>2. /\ pending'[r] = Append(pending[r], written)
        /\ \A s \in Sinks : s # r => pending'[s] = pending[s]
    BY <1>6, <2>1, <2>k, <1>t DEF WriteToSink
  <2>3. handled[r] \o pending'[r] = Count(written)
    <3>1. handled[r] \o pending[r] = Count(written - 1)
      <4>1. Given(k) = written - 1
        BY <2>1, <2>k, <1>t DEF Given
      <4> QED
        BY <1>a, <4>1
    <3>2. handled[r] \o Append(pending[r], written)
            = Append(handled[r] \o pending[r], written)
      BY <1>t, <2>1, ConcatAppend
    <3>3. Append(Count(written - 1), written) = Count(written)
      <4>1. (written - 1) + 1 = written
        BY <1>t
      <4> QED
        BY <2>1, <4>1, CountProperties
    <3> QED
      BY Zenon, <2>2, <3>1, <3>2, <3>3
  <2>4. ASSUME NEW i \in 1..Len(data_sinks_), i # k
        PROVE  data_sinks_[i] # r /\ Given(i)' = Given(i)
    <3>1. data_sinks_[i] # r
      BY <2>1, <2>4 DEF IInv, SinkInv
    <3>2. Given(i)' = Given(i)
      <4>1. i \in Nat /\ k \in Nat /\ next_sink' = k + 1 /\ next_sink = k
        BY <1>6, <2>k, <1>t DEF WriteToSink
      <4>2. i >= next_sink' <=> i >= next_sink
        BY <2>4, <4>1
      <4>3. /\ written' = written /\ encoder' \in {"running", "writing"}
            /\ encoder' = "running" => k = Len(data_sinks_)
        BY <1>6, <2>1, <2>k DEF WriteToSink
      <4>4. encoder' = "running" => ~(i >= next_sink)
        BY <1>t, <2>4, <4>1, <4>3
      <4> QED
        BY <2>1, <4>2, <4>3, <4>4 DEF Given
    <3> QED
      BY <3>1, <3>2
  <2>5. Given(k)' = written
    BY <1>6, <2>1, <2>k, <1>t DEF WriteToSink, Given
  <2>6. ASSUME NEW i \in 1..Len(data_sinks_)
        PROVE  handled'[data_sinks_[i]] \o pending'[data_sinks_[i]]
                 = Count(Given(i)')
    <3>1. CASE i = k
      BY <3>1, <2>1, <2>3, <2>5
    <3>2. CASE i # k
      BY <3>2, <2>1, <2>2, <2>4, <1>a, <1>t
    <3> QED
      BY <3>1, <3>2
  <2> QED
    BY <2>1, <2>6, <1>s
<1>7. ASSUME NEW s \in Sinks, Handle(s) PROVE SinksAgree'
  <2>1. /\ pending[s] # <<>>
        /\ handled'[s] = Append(handled[s], Head(pending[s]))
        /\ pending'[s] = Tail(pending[s])
        /\ \A r \in Sinks : r # s =>
             handled'[r] = handled[r] /\ pending'[r] = pending[r]
        /\ UNCHANGED <<data_sinks_, encoder, written, next_sink>>
    BY <1>7, <1>t DEF Handle
  <2>2. handled'[s] \o pending'[s] = handled[s] \o pending[s]
    BY <2>1, <1>t, MoveHead
  <2>3. \A i : Given(i)' = Given(i)
    BY <2>1 DEF Given
  <2>4. \A r \in Sinks : handled'[r] \o pending'[r] = handled[r] \o pending[r]
    BY <2>1, <2>2
  <2> QED
    BY <2>1, <2>3, <2>4, <1>a, <1>s, <1>t
<1>8. ASSUME NEW s \in Sinks, SinkReturns(s) PROVE SinksAgree'
  BY <1>8, <1>u DEF SinkReturns, Given
<1>9. CASE UNCHANGED vars
  BY <1>9, <1>u DEF vars, sink_state, Given
<1> QED
  <2>1. ASSUME StartSink(File, "start_writer", "start_uploader")
        PROVE  thread[File] = "none"
    BY <2>1 DEF StartSink, IInv, MainInv
  <2>2. ASSUME StartSink(Http, "start_uploader", "run")
        PROVE  thread[Http] = "none"
    BY <2>2 DEF StartSink, IInv, MainInv
  <2>3. "start_writer" \in Starting /\ "start_uploader" \in Starting
    BY DEF Starting
  <2> HIDE DEF MainStep, GoTo, Return, EncoderStep, SinkStep
  <2> QED
    BY <1>1, <1>2, <1>3, <1>4, <1>5, <1>6, <1>7, <1>8, <1>9, <1>t,
       <2>1, <2>2, <2>3 DEF Next, Main, EncoderThread

-----------------------------------------------------------------------------
(* The strengthened invariant holds in every reachable state. *)
LEMMA Invariance == Spec => []IInv
<1>1. IInv /\ [Next]_vars => IInv'
  BY TypeStep, SinkInvStep, EncoderInvStep, MainInvStep, ExitInvStep, AgreeStep
     DEF IInv
<1> QED
  BY InitIInv, <1>1, PTL DEF Spec

(* Type correctness of EncoderMain and the data sink. *)
THEOREM TypeCorrect == Spec => []TypeOK
<1>1. IInv => TypeOK
  BY DEF IInv
<1> QED
  BY Invariance, <1>1, PTL

(* Every sink gets every chunk in the same order, however far the sinks'   *)
(* threads are apart.                                                      *)
THEOREM AgreeCorrect == Spec => []SinksAgree
<1>1. IInv => SinksAgree
  BY DEF IInv
<1> QED
  BY Invariance, <1>1, PTL

(* EncoderMain returns success only with every chunk handled by every      *)
(* enabled sink and every thread joined.                                   *)
THEOREM DeliveryCorrect == Spec => []DeliveredAtExit
<1>1. IInv => DeliveredAtExit
  <2> SUFFICES ASSUME IInv, exit_code = "success"
               PROVE  /\ crashed = "no" /\ encoder = "joined"
                      /\ \A s \in enabled :
                           Len(handled[s]) = written /\ thread[s] = "joined"
    BY DEF DeliveredAtExit
  <2>1. /\ crashed = "no" /\ encoder = "joined"
        /\ \A s \in enabled : thread[s] = "joined"
    BY DEF IInv, ExitInv
  <2>2. ASSUME NEW s \in enabled PROVE Len(handled[s]) = written
    <3>1. s \in Sinks /\ thread[s] = "joined" /\ written \in Nat
      BY <2>1, ChunksAssumption DEF IInv, TypeOK
    <3>2. PICK i \in 1..Len(data_sinks_) : data_sinks_[i] = s
      BY <3>1 DEF IInv, SinkInv
    <3>3. handled[s] \o pending[s] = Count(written)
      <4>1. Given(i) = written
        BY <2>1 DEF Given
      <4> QED
        BY <3>2, <4>1 DEF IInv, SinksAgree, Count
    <3>4. pending[s] = <<>>
      BY <3>1 DEF IInv, SinkInv
    <3>5. handled[s] \in Seq(1..MaxChunks)
      BY <3>1 DEF IInv, TypeOK
    <3>6. handled[s] = Count(written)
      BY <3>3, <3>4, <3>5, ConcatEmptySeq
    <3> QED
      BY <3>1, <3>6, CountProperties
  <2> QED
    BY <2>1, <2>2
<1> QED
  BY Invariance, <1>1, PTL

-----------------------------------------------------------------------------
(* Each sink is used as FifoSink promises: the steps of FifoSink, of the   *)
(* sink s.                                                                 *)

Closed(s) == thread[s] \in {"returned", "joined"}

Stutters(s) ==
  /\ pending'[s] = pending[s] /\ handled'[s] = handled[s]
  /\ Closed(s)' = Closed(s)

Accepts(s) ==
  /\ ~Closed(s)
  /\ pending'[s] = Append(pending[s], Len(pending[s]) + Len(handled[s]) + 1)
  /\ handled'[s] = handled[s] /\ Closed(s)' = Closed(s)

Handles(s) ==
  /\ ~Closed(s)
  /\ pending[s] # <<>>
  /\ handled'[s] = Append(handled[s], Head(pending[s]))
  /\ pending'[s] = Tail(pending[s])
  /\ Closed(s)' = Closed(s)

Closes(s) ==
  /\ pending[s] = <<>>
  /\ Closed(s)' = TRUE
  /\ pending'[s] = pending[s] /\ handled'[s] = handled[s]

(* A sink that WriteData is passing a chunk to has a running thread, and   *)
(* the chunk is the next it counts.                                        *)
LEMMA NextChunk ==
  ASSUME IInv, encoder = "writing", NEW k \in 1..Len(data_sinks_),
         k = next_sink
  PROVE  /\ ~Closed(data_sinks_[k])
         /\ Len(pending[data_sinks_[k]]) + Len(handled[data_sinks_[k]]) + 1
              = written
<1> DEFINE r == data_sinks_[k]
<1>1. /\ r \in Sinks /\ written \in Nat /\ written - 1 \in Nat
  <2>1. data_sinks_ \in Seq(enabled) /\ enabled \subseteq Sinks
    BY DEF IInv, TypeOK
  <2>2. written \in Nat /\ written > 0
    BY ChunksAssumption DEF IInv, TypeOK, EncoderInv
  <2> QED
    BY <2>1, <2>2
<1>2. ~Closed(r)
  BY <1>1 DEF IInv, SinkInv, Closed
<1>3. handled[r] \o pending[r] = Count(written - 1)
  <2>1. Given(k) = written - 1
    BY <1>1 DEF Given
  <2> QED
    BY <2>1 DEF IInv, SinksAgree, Count
<1>4. handled[r] \in Seq(1..MaxChunks) /\ pending[r] \in Seq(1..MaxChunks)
  BY <1>1 DEF IInv, TypeOK
<1>5. /\ Len(handled[r]) \in Nat /\ Len(pending[r]) \in Nat
      /\ Len(handled[r]) + Len(pending[r]) = Len(handled[r] \o pending[r])
  BY <1>4, ConcatProperties, LenProperties
<1>6. Len(Count(written - 1)) = written - 1
  BY <1>1, CountProperties
<1>7. Len(handled[r]) + Len(pending[r]) = written - 1
  <2>1. Len(handled[r] \o pending[r]) = written - 1
    BY <1>3, <1>6, Zenon
  <2> QED
    BY <1>5, <2>1, Zenon
<1>8. Len(pending[r]) + Len(handled[r]) + 1 = written
  <2> DEFINE a == Len(handled[r])
             b == Len(pending[r])
  <2>1. a \in Nat /\ b \in Nat /\ a + b = written - 1 /\ written \in Nat
    BY <1>1, <1>5, <1>7
  <2> HIDE DEF a, b
  <2>2. b + a + 1 = written
    BY <2>1
  <2> QED
    BY <2>2 DEF a, b
<1> QED
  BY <1>2, <1>8

LEMMA SinkSimulation ==
  ASSUME IInv, [Next]_vars, NEW s \in Sinks
  PROVE  Stutters(s) \/ Accepts(s) \/ Handles(s) \/ Closes(s)
<1>t. /\ thread \in [Sinks -> {"none", "running", "returned", "joined"}]
      /\ DOMAIN pending = Sinks /\ DOMAIN handled = Sinks
      /\ File \in Sinks /\ Http \in Sinks
  BY DEF IInv, TypeOK, Sinks
<1>u. ASSUME UNCHANGED <<thread, pending, handled>> PROVE Stutters(s)
  BY <1>u DEF Stutters, Closed
<1> USE DEF MainStep, EncoderStep, SinkStep
<1>1. CASE \/ InitEncoder \/ RunEncoder \/ PollWithoutUploader \/ KeyPressed
           \/ JoinEncoder \/ ReturnSuccess
  BY <1>1, <1>u DEF InitEncoder, RunEncoder, PollWithoutUploader, KeyPressed,
     JoinEncoder, ReturnSuccess
<1>2. ASSUME NEW r \in Sinks, NEW point, NEW after,
             StartSink(r, point, after), thread[r] = "none"
      PROVE  Stutters(s)
  BY <1>2, <1>t DEF StartSink, Stutters, Closed
<1>3. ASSUME NEW r \in Sinks, NEW point, NEW join, NEW after,
             StopSink(r, point, join, after) \/ JoinSink(r, point, after)
      PROVE  Stutters(s)
  <2>1. CASE StopSink(r, point, join, after)
    BY <2>1, <1>u DEF StopSink
  <2>2. CASE JoinSink(r, point, after)
    <3>1. /\ thread[r] = "returned" /\ thread' = [thread EXCEPT ![r] = "joined"]
          /\ UNCHANGED <<pending, handled>>
      BY <2>2 DEF JoinSink
    <3>2. Closed(s)' = Closed(s)
      BY <3>1, <1>t DEF Closed
    <3> QED
      BY <3>1, <3>2 DEF Stutters
  <2> QED
    BY <1>3, <2>1, <2>2
<1>4. CASE WriteDataFails \/ WriteData \/ EncoderReturns
  BY <1>4, <1>u DEF WriteDataFails, WriteData, EncoderReturns
<1>5. CASE WriteToSink
  <2>1. /\ encoder = "writing"
        /\ UNCHANGED <<thread, handled>>
        /\ next_sink \in 1..Len(data_sinks_)
    BY <1>5 DEF WriteToSink, IInv, TypeOK, EncoderInv
  <2>2. PICK k \in 1..Len(data_sinks_) : k = next_sink
    BY <2>1
  <2>3. pending' = [pending EXCEPT ![data_sinks_[k]] =
                      Append(pending[data_sinks_[k]], written)]
    BY <1>5, <2>2 DEF WriteToSink
  <2>4. Closed(s)' = Closed(s)
    BY <2>1 DEF Closed
  <2>5. CASE s = data_sinks_[k]
    BY <2>1, <2>2, <2>3, <2>4, <2>5, <1>t, NextChunk DEF Accepts
  <2>6. CASE s # data_sinks_[k]
    BY <2>1, <2>3, <2>4, <2>6, <1>t DEF Stutters
  <2> QED
    BY <2>5, <2>6
<1>6. ASSUME NEW r \in Sinks, Handle(r) PROVE Stutters(s) \/ Handles(s)
  <2>1. Closed(s)' = Closed(s) /\ thread[r] = "running"
    BY <1>6 DEF Handle, Closed
  <2>2. CASE s = r
    BY <1>6, <2>1, <2>2, <1>t DEF Handle, Handles, Closed
  <2>3. CASE s # r
    BY <1>6, <2>1, <2>3, <1>t DEF Handle, Stutters
  <2> QED
    BY <2>2, <2>3
<1>7. ASSUME NEW r \in Sinks, SinkReturns(r) PROVE Stutters(s) \/ Closes(s)
  BY <1>7, <1>t DEF SinkReturns, Stutters, Closes, Closed
<1>8. CASE UNCHANGED vars
  BY <1>8, <1>u DEF vars, sink_state
<1> QED
  <2>1. ASSUME StartSink(File, "start_writer", "start_uploader")
        PROVE  thread[File] = "none"
    BY <2>1 DEF StartSink, IInv, MainInv
  <2>2. ASSUME StartSink(Http, "start_uploader", "run")
        PROVE  thread[Http] = "none"
    BY <2>2 DEF StartSink, IInv, MainInv
  <2> HIDE DEF MainStep, EncoderStep, SinkStep
  <2> QED
    BY <1>1, <1>2, <1>3, <1>4, <1>5, <1>6, <1>7, <1>8, <1>t, <2>1, <2>2
       DEF Next, Main, EncoderThread

(* The encoder never writes to a sink whose thread has returned: both      *)
(* sinks see a behaviour of FifoSink.                                      *)
THEOREM UsageCorrect == Spec => SinksUsedAsPromised
<1>1. Init => FileSink!Init /\ HttpSink!Init
  BY DEF Init, FileSink!Init, HttpSink!Init, Sinks
<1>2. File \in Sinks /\ Http \in Sinks
  BY DEF Sinks
<1>3. IInv /\ [Next]_vars => [FileSink!Next]_FileSink!sink_vars
  <2> SUFFICES ASSUME IInv, [Next]_vars PROVE [FileSink!Next]_FileSink!sink_vars
    OBVIOUS
  <2>1. Stutters(File) \/ Accepts(File) \/ Handles(File) \/ Closes(File)
    BY <1>2, SinkSimulation
  <2> QED
    BY <2>1 DEF Stutters, Accepts, Handles, Closes, Closed, FileSink!Next,
       FileSink!Accept, FileSink!Handle, FileSink!Close, FileSink!sink_vars,
       FileSink!Accepted
<1>4. IInv /\ [Next]_vars => [HttpSink!Next]_HttpSink!sink_vars
  <2> SUFFICES ASSUME IInv, [Next]_vars PROVE [HttpSink!Next]_HttpSink!sink_vars
    OBVIOUS
  <2>1. Stutters(Http) \/ Accepts(Http) \/ Handles(Http) \/ Closes(Http)
    BY <1>2, SinkSimulation
  <2> QED
    BY <2>1 DEF Stutters, Accepts, Handles, Closes, Closed, HttpSink!Next,
       HttpSink!Accept, HttpSink!Handle, HttpSink!Close, HttpSink!sink_vars,
       HttpSink!Accepted
<1> QED
  BY <1>1, <1>3, <1>4, Invariance, PTL
     DEF Spec, SinksUsedAsPromised, FileSink!Spec, HttpSink!Spec
=============================================================================
