------------------------------ MODULE Dispatch -------------------------------
(***************************************************************************)
(* The way of a frame from its gRPC stream to its frame worker:            *)
(* FrameDataCallback, one per stream, puts messages into grpcmessage;      *)
(* gRPCServerStream hands each to the job channel of its sensor;           *)
(* decodeWorker parses the frames of a message, offers them to Kafka and   *)
(* puts them into the result channel.  Every channel blocks when full.     *)
(* The bytes of a message are the lengths of its frames, all of them whole,*)
(* as ParsedFrameConstructor builds them.                                  *)
(***************************************************************************)
EXTENDS Naturals, Sequences, SequencesExt, FiniteSets

CONSTANTS
  Streams,
  Keys,         \* sensor ids
  NoKey,        \* the empty Key of a message
  KeysOf,       \* KeysOf[st]: the keys of the messages of a stream
  Workers,
  WorkerOf,     \* WorkerOf[k]: ByteToUInt64(key) & (WorkCount - 1)
  Contents,     \* messages: sequences of [data, ok], ok if a frame can be decoded
  GrpcCap, JobCap, ResultCap,   \* the capacities of the channels
  MaxMessages,  \* bound of the model: MaxMessages[st] messages of a stream
  MaxFrames,    \* bound of the model: frames per message
  None

ASSUME DispatchAssumption ==
  /\ NoKey \notin Keys
  /\ KeysOf \in [Streams -> SUBSET (Keys \cup {NoKey})]
  /\ WorkerOf \in [Keys -> Workers]
  /\ Contents \subseteq Seq([data : Nat, ok : BOOLEAN])
  /\ \A c \in Contents : Len(c) <= MaxFrames
  /\ MaxMessages \in [Streams -> Nat]
  /\ {GrpcCap, JobCap, ResultCap, MaxFrames} \subseteq Nat \ {0}

\* What moves along: frames by their names, messages, and results of decode.
Numbers == Nat \X (1 .. MaxFrames)
Frames == [no : Numbers, data : Nat, ok : BOOLEAN]
Messages == [from : Streams, key : Keys \cup {NoKey}, frames : Seq(Frames)]
Results == [from : Streams, key : Keys, items : Seq(Numbers)]

ASSUME NoneAssumption == None \notin Messages /\ None \notin Results

VARIABLES
  received,     \* received[st]: messages that its callback has received
  sending,      \* sending[st]: the message that it sends to grpcmessage, or None
  grpcmessage,
  dispatching,  \* the message in the hands of gRPCServerStream, or None
  returned,     \* gRPCServerStream has caught a signal
  jobs,         \* decodeJobChans
  decoded,      \* decoded[w]: the result that decodeWorker sends, or None
  results,      \* decodeResultChans
  offered,      \* offered[p]: frames given to kafka.Write
  done          \* done[p]: frames that handleDecodeResult has received

streamVars == <<received, sending>>
dispatcherVars == <<dispatching, returned>>
vars == <<streamVars, grpcmessage, dispatcherVars, jobs, decoded, results, offered, done>>

\* The order of frames is a matter of one stream and one sensor.
Lines == Streams \X Keys

Init ==
  /\ received = [st \in Streams |-> 0]
  /\ sending = [st \in Streams |-> None]
  /\ grpcmessage = <<>>
  /\ dispatching = None /\ returned = FALSE
  /\ jobs = [w \in Workers |-> <<>>]
  /\ decoded = [w \in Workers |-> None]
  /\ results = [w \in Workers |-> <<>>]
  /\ offered = [p \in Lines |-> <<>>] /\ done = [p \in Lines |-> <<>>]

\* Mutant: a channel takes one entry too many.
Mutant_HasRoom(chan, cap) == Len(chan) <= cap

\* A send to a channel that is not full goes on.
HasRoom(chan, cap) == Len(chan) < cap

------------------------------------------------------------------------------
(* FrameDataCallback.  That a stream ends (ctx.Done, an error of Recv) is that *)
(* it receives no more.                                                      *)

\* request.Recv.  Frames are named by message and place.
Recv(st, key, content) ==
  /\ sending[st] = None /\ received[st] < MaxMessages[st]
  /\ received' = [received EXCEPT ![st] = @ + 1]
  /\ sending' = [sending EXCEPT ![st] =
       [from |-> st, key |-> key,
        frames |-> [i \in DOMAIN content |->
                      [no |-> <<received'[st], i>>, data |-> content[i].data, ok |-> content[i].ok]]]]
  /\ UNCHANGED <<grpcmessage, dispatcherVars, jobs, decoded, results, offered, done>>

\* t.Grpcmessage <- *message, which no context can interrupt.
SendMessage(st) ==
  /\ sending[st] # None /\ HasRoom(grpcmessage, GrpcCap)
  /\ grpcmessage' = Append(grpcmessage, sending[st])
  /\ sending' = [sending EXCEPT ![st] = None]
  /\ UNCHANGED <<received, dispatcherVars, jobs, decoded, results, offered, done>>

------------------------------------------------------------------------------
(* gRPCServerStream.                                                         *)

HasKey(message) == message.key # NoKey

TakeMessage ==
  /\ ~returned /\ dispatching = None /\ grpcmessage # <<>>
  /\ grpcmessage' = Tail(grpcmessage)
  /\ dispatching' = IF HasKey(Head(grpcmessage)) THEN Head(grpcmessage) ELSE None
  /\ UNCHANGED <<streamVars, returned, jobs, decoded, results, offered, done>>

\* Mutant: a worker whose channel is full is passed over.
Mutant_JobChan(message) ==
  CHOOSE w \in Workers : \A v \in Workers : Len(jobs[w]) <= Len(jobs[v])

JobChan(message) == WorkerOf[message.key]

DispatchMessage ==
  /\ dispatching # None
  /\ LET w == JobChan(dispatching) IN
       /\ HasRoom(jobs[w], JobCap)
       /\ jobs' = [jobs EXCEPT ![w] = Append(@, dispatching)]
  /\ dispatching' = None
  /\ UNCHANGED <<streamVars, grpcmessage, returned, decoded, results, offered, done>>

SignalDispatcher ==
  /\ ~returned /\ dispatching = None
  /\ returned' = TRUE
  /\ UNCHANGED <<streamVars, grpcmessage, dispatching, jobs, decoded, results, offered, done>>

------------------------------------------------------------------------------
(* decodeWorker and decode.                                                  *)

HeadLength == 4
SizeLength == 4
TimestampLength == 8
IDLength == 6
CrcLength == 2
EndLength == 1

\* protocols.LengthWithoutData: what Size counts besides the data.
LengthWithoutData == TimestampLength + IDLength + CrcLength

SizeField(f) == LengthWithoutData + f.data

\* ParsedFrameConstructor: a frame has framePackage.Size + 9 bytes.
FrameLength(f) == SizeField(f) + 9

\* The index of the frame after the k-th, and the length of the message for the last.
IndexAfter(frames, k) ==
  LET after[i \in 0 .. Len(frames)] ==
        IF i = 0 THEN 0 ELSE after[i - 1] + FrameLength(frames[i])
  IN after[k]

\* The frame whose head is at index; {} where bytes.Equal fails.
HeadAt(frames, index) == {k \in DOMAIN frames : IndexAfter(frames, k - 1) = index}

DataIndex(index) == index + HeadLength + SizeLength + TimestampLength + IDLength

\* Mutant: the end byte is not skipped.
Mutant_IndexOfEnd(f, index) == DataIndex(index) + SizeField(f) - LengthWithoutData + CrcLength - 1

IndexOfEnd(f, index) == DataIndex(index) + SizeField(f) - LengthWithoutData + CrcLength

\* The loop over index: it ends at the first frame that cannot be decoded, and
\* at a frame whose end byte is missing.
Decode(frames) ==
  LET l == IndexAfter(frames, Len(frames))
      from[index \in 0 .. l] ==
        IF HeadAt(frames, index) = {} THEN <<>>
        ELSE LET f == frames[CHOOSE k \in HeadAt(frames, index) : TRUE] IN
             IF ~f.ok \/ IndexOfEnd(f, index) >= l THEN <<>>
             ELSE <<f.no>> \o from[IndexOfEnd(f, index) + EndLength]
  IN from[0]

Decoded(w) ==
  LET message == Head(jobs[w])
      items == Decode(message.frames) IN
  /\ decoded' = [decoded EXCEPT ![w] = [from |-> message.from, key |-> message.key, items |-> items]]
  /\ offered' = [offered EXCEPT ![<<message.from, message.key>>] = @ \o items]
  /\ jobs' = [jobs EXCEPT ![w] = Tail(@)]
  /\ UNCHANGED <<streamVars, grpcmessage, dispatcherVars, results, done>>

\* Mutant: the worker ends at a frame that it cannot decode.
Mutant_DecodeJob(w) ==
  /\ decoded[w] = None /\ jobs[w] # <<>>
  /\ \A i \in DOMAIN Head(jobs[w]).frames : Head(jobs[w]).frames[i].ok
  /\ Decoded(w)

\* parseFrame offers a frame to Kafka as soon as it is parsed.
DecodeJob(w) ==
  /\ decoded[w] = None /\ jobs[w] # <<>>
  /\ Decoded(w)

\* Mutant: a full result channel is no reason to wait.
Mutant_Output(w) ==
  /\ decoded[w] # None
  /\ results' = IF HasRoom(results[w], ResultCap)
                THEN [results EXCEPT ![w] = Append(@, decoded[w])] ELSE results
  /\ decoded' = [decoded EXCEPT ![w] = None]
  /\ UNCHANGED <<streamVars, grpcmessage, dispatcherVars, jobs, offered, done>>

\* output <- arc.decode(j), a result without frames included.
Output(w) ==
  /\ decoded[w] # None /\ HasRoom(results[w], ResultCap)
  /\ results' = [results EXCEPT ![w] = Append(@, decoded[w])]
  /\ decoded' = [decoded EXCEPT ![w] = None]
  /\ UNCHANGED <<streamVars, grpcmessage, dispatcherVars, jobs, offered, done>>

\* case result := <-arc.decodeResultChans[i] in handleDecodeResult.
TakeResult(w) ==
  /\ results[w] # <<>>
  /\ LET result == Head(results[w]) IN
       done' = [done EXCEPT ![<<result.from, result.key>>] = @ \o result.items]
  /\ results' = [results EXCEPT ![w] = Tail(@)]
  /\ UNCHANGED <<streamVars, grpcmessage, dispatcherVars, jobs, decoded, offered>>

------------------------------------------------------------------------------
Callback(st) ==
  \/ \E key \in KeysOf[st], content \in Contents : Recv(st, key, content)
  \/ SendMessage(st)

Next ==
  \/ \E st \in Streams : Callback(st)
  \/ TakeMessage \/ DispatchMessage \/ SignalDispatcher
  \/ \E w \in Workers : DecodeJob(w) \/ Output(w) \/ TakeResult(w)

Spec == Init /\ [][Next]_vars

\* Every goroutine runs on.  Messages and signals come from outside.
Fairness ==
  /\ \A st \in Streams : WF_vars(SendMessage(st))
  /\ WF_vars(TakeMessage) /\ WF_vars(DispatchMessage)
  /\ \A w \in Workers : WF_vars(DecodeJob(w)) /\ WF_vars(Output(w)) /\ WF_vars(TakeResult(w))

FairSpec == Spec /\ Fairness

------------------------------------------------------------------------------
(* Properties.                                                               *)

TypeOK ==
  /\ \A st \in Streams : received[st] \in 0 .. MaxMessages[st]
  /\ \A st \in Streams : sending[st] \in Messages \cup {None}
  /\ grpcmessage \in Seq(Messages) /\ Len(grpcmessage) <= GrpcCap
  /\ dispatching \in Messages \cup {None} /\ returned \in BOOLEAN
  /\ \A w \in Workers :
        /\ jobs[w] \in Seq(Messages) /\ Len(jobs[w]) <= JobCap
        /\ decoded[w] \in Results \cup {None}
        /\ results[w] \in Seq(Results) /\ Len(results[w]) <= ResultCap
  /\ \A p \in Lines : offered[p] \in Seq(Numbers)
  /\ \A p \in Lines : done[p] \in Seq(Numbers)

\* What Ingest relies on: frames of a sensor never wait for two workers at once,
\* so no two goroutines touch its volume.
OneWorkerPerSensor ==
  \A w, v \in Workers : \A i \in DOMAIN results[w], j \in DOMAIN results[v] :
     results[w][i].key = results[v][j].key => w = v

\* A worker gets what Kafka has been offered, in the same order and nothing else.
DoneIsOffered == \A p \in Lines : IsPrefix(done[p], offered[p])

\* The frames of a message that come before the first that cannot be decoded.
Decodable(frames) ==
  LET bad == {i \in DOMAIN frames : ~frames[i].ok}
      n == IF bad = {} THEN Len(frames) ELSE (CHOOSE i \in bad : \A j \in bad : i <= j) - 1
  IN [i \in 1 .. n |-> frames[i].no]

\* The frames of a line in the parts of the path, the last part first.
PartOf(p, x, items) == IF x.from = p[1] /\ x.key = p[2] THEN items ELSE <<>>
ItemsOf(p, rs) == FlattenSeq([i \in DOMAIN rs |-> PartOf(p, rs[i], rs[i].items)])
FramesOf(p, ms) == FlattenSeq([i \in DOMAIN ms |-> PartOf(p, ms[i], Decodable(ms[i].frames))])
Held(x) == IF x = None THEN <<>> ELSE <<x>>

UnderWay(p) ==
  LET w == WorkerOf[p[2]] IN
  ItemsOf(p, results[w] \o Held(decoded[w]))
    \o FramesOf(p, jobs[w] \o Held(dispatching) \o grpcmessage \o Held(sending[p[1]]))

Batches ==
  {[i \in 1 .. n |-> <<m, i>>] : m \in UNION {1 .. MaxMessages[st] : st \in Streams}, n \in 0 .. MaxFrames}

Pipe == INSTANCE FramePipe WITH
  line <- [p \in Lines |-> UnderWay(p)],
  done <- done

\* Four channels and three kinds of goroutines keep the order of each stream and
\* sensor and lose nothing but what follows a frame that cannot be decoded.
ImplementsFramePipe == Pipe!Spec

\* What the service has received reaches a worker unless the dispatcher ends.
UnderWayIsDone ==
  \A p \in Lines : (UnderWay(p) # <<>>) ~> (UnderWay(p) = <<>> \/ returned)
==============================================================================
