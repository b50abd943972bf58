---------------------- MODULE TranscodePipeline_proofs ----------------------
(***************************************************************************)
(* Proofs of the safety of TranscodePipeline, for every input, capacity of *)
(* the queues, lag of the codecs, checkpoint interval and set of troubles. *)
(*                                                                         *)
(* Every packet on its way is at one stage: in its hands, held back by its *)
(* codec, or in the queue in front of it (Part).  A step leaves all parts  *)
(* alone, or passes one packet from the front of a part to the end of the  *)
(* next: the lemmas ReadFlow to WriteFlow.  From them the packets counted  *)
(* (Backlog, Counting), of one kind (Kinded) and kept in order (Kept) are  *)
(* proved without a look at the single actions.  What a stage does to all  *)
(* else is StageStep, from which the end of the job is proved: EndChain    *)
(* follows the end of the input from stage to stage, Over and Telling tie  *)
(* the state of the job to the muxer's last steps and to setError.         *)
(*                                                                         *)
(* Supply and Loads are why some stage can always go on: no stage is gone  *)
(* whose successor still waits for it.  Lines holds for jobs that fail or  *)
(* are cancelled too: what is lost then is lost from the end, so that the  *)
(* file holds a beginning of the input.  It carries the refinement of      *)
(* TranscodeJob, JobIsKept.                                                *)
(*                                                                         *)
(* OfStream is a recursive function over a sequence; the lemmas SiftEmpty, *)
(* SiftAppend and SiftConcat are its recursion and are proved by induction.*)
(***************************************************************************)
EXTENDS TranscodePipeline, SequenceTheorems, FiniteSetTheorems,
        WellFoundedInduction, TLAPS

(* Where a stage may be.                                                   *)
InLoop == {"gate", "top", "pausing", "paused", "rerun", "pop"}
Error  == {"err", "errState", "errClose", "errResult"}
MuxOut == {"finalize", "closeMux", "decide", "complete", "clean", "notify"}

Places(s) ==
  {"none", "gone"} \cup InLoop \cup
  CASE s = "demux"  -> Error \cup {"open", "push", "close", "endSound"}
    [] s = "decode" -> Error \cup {"wait", "push", "flush", "drain", "close"}
    [] s = "vsr"    -> Error \cup {"wait", "push", "skip", "flush", "drain",
                                   "close"}
    [] s = "encode" -> Error \cup {"wait", "push", "count", "flush", "drain",
                                   "close"}
    [] s = "mux"    -> Error \cup MuxOut \cup {"wait", "write"}
    [] s = "audio"  -> {"wait", "write"}

(* What a stage has in its hands.                                          *)
Busy == {"push", "skip", "drain", "write"}

Hands ==
  \A s \in Stages :
    /\ pc[s] \in Places(s)
    /\ pc[s] \notin Busy => hand[s] = <<>>
    /\ pc[s] \in {"push", "skip", "write"} => Len(hand[s]) = 1

(* The job is not launched yet.                                            *)
Setup == {"new", "start", "open", "launch", "failed"}

Fresh ==
  /\ pc = [s \in Stages |-> "none"] /\ hand = [s \in Stages |-> <<>>]
  /\ held = [s \in Workers |-> <<>>] /\ queue = [q \in Queues |-> <<>>]
  /\ output = [i \in {0, 1} |-> <<>>] /\ next = 1
  /\ framesProcessed = 0 /\ checkpoint = 0
  /\ ~errorFlag /\ completionResult = "success"
  /\ state \in {"Idle", "Configured"}

Launched ==
  /\ runner \in Setup => Fresh
  /\ runner \notin Setup => muxer # "closed" \/ pc["mux"] \notin
       InLoop \cup {"wait", "write", "finalize", "closeMux"}
  /\ runner = "launch" => muxer # "closed"
  /\ runner \notin Setup => \A s \in Stages : pc[s] # "none"
  /\ ~HasAudio => pc["audio"] \in {"none", "gone"}

(* All of one stream.                                                      *)
All(t, items) == \A i \in 1 .. Len(items) : Media[items[i]] = t

(* What is at a stage: in its hands, in its codec, in front of it.         *)
Held(s) == IF s \in Workers THEN held[s] ELSE <<>>
Part(s) == hand[s] \o Held(s) \o InQueue(s)

VideoQueues == {"video", "decoded", "upscaled", "encoded"}

Kinded ==
  /\ \A s \in Workers \cup {"mux"} : All("video", Part(s))
  /\ All("audio", Part("audio")) /\ All("audio", output[1])

(* A frame that is encoded but not counted.                                *)
Uncounted == IF pc["encode"] = "count" THEN 1 ELSE 0

Backlog ==
  framesProcessed + Uncounted + Len(Part("encode")) + Len(Part("vsr"))
    + Len(Part("decode")) + Len(Part("demux")) <= next - 1

Counting ==
  /\ checkpoint <= framesProcessed
  /\ "write" \notin troubles =>
       framesProcessed + Uncounted
         = Len(OfStream("video", output[0])) + Len(Part("mux"))

Types == TypeOK /\ IsFiniteSet(troubles)

(* Cancelled and failed.                                                   *)
Flags ==
  /\ cancelRequested \/ ui # "idle" => Cancelled
  /\ \A s \in Stages : pc[s] \in {"errState", "errClose", "errResult"}
       => errorFlag
  /\ completionResult = "error" => errorFlag

Sound == ~Cancelled /\ ~errorFlag

Closers ==
  /\ closed["video"] => pc["demux"] \in {"endSound", "gone"}
  /\ closed["sound"] => pc["demux"] = "gone"
  /\ closed["decoded"] => pc["decode"] = "gone"
  /\ closed["upscaled"] => pc["vsr"] = "gone"
  /\ closed["encoded"] => pc["encode"] = "gone"

Starved(q) == closed[q] /\ ("timeout" \notin troubles => queue[q] = <<>>)

Ended ==
  /\ pc["demux"] \in {"close", "endSound", "gone"} /\ "read" \notin troubles =>
       next > Len(Media)
  /\ \A s \in Workers :
       /\ pc[s] \in {"flush", "drain", "close", "gone"} => Starved(InOf(s))
       /\ pc[s] \in {"drain", "close", "gone"} /\ "flush" \notin troubles =>
            held[s] = <<>>
  /\ pc["mux"] \in MuxOut \cup {"gone"} => Starved("encoded")

EndChain == Sound => Closers /\ Ended

Over ==
  /\ state # "Cancelled"
  /\ state = "Completed" => pc["mux"] \in {"clean", "notify", "gone"}
  /\ ~Cancelled /\ (\/ pc["mux"] \in {"complete", "clean", "notify"}
                   \/ state = "Completed") =>
       ~errorFlag
  /\ ~Cancelled /\ pc["mux"] = "notify" => checkpoint = 0
  /\ ~Cancelled /\ pc["mux"] = "gone" /\ state = "Completed" => checkpoint = 0

(* The state is Error, and the result not yet.                             *)
Telling ==
  ~Cancelled /\ state = "Error" =>
    completionResult = "error"
      \/ \E s \in Stages : pc[s] \in {"errClose", "errResult"}

(* The packets on their way, part by part.                                 *)
VideoLine ==
  OfStream("video", output[0]) \o (Part("mux") \o (Part("encode") \o
    (Part("vsr") \o (Part("decode") \o OfStream("video", Part("demux"))))))

AudioLine ==
  OfStream("audio", output[audioStream]) \o (Part("audio") \o
    OfStream("audio", Part("demux")))

Kept ==
  ~Cancelled /\ ~Failed =>
    /\ VideoLine = OfStream("video", ReadSoFar)
    /\ HasAudio /\ muxer # "closed" /\ "write" \notin troubles =>
         AudioLine = OfStream("audio", ReadSoFar)

(* The job is being shut down: every queue is, a cancel() is under way, or *)
(* a stage that failed is on its way to shut them.                         *)
Shutting ==
  \/ AllClosed \/ ui # "idle"
  \/ \E s \in Stages : pc[s] \in {"err", "errState", "errClose"}

(* Until then no stage is gone that has not shut its output queue down,    *)
(* and the audio stage only once its queue was.                            *)
Supply ==
  /\ Cancelled \/ errorFlag => Shutting
  /\ ~Shutting =>
       /\ pc["demux"] \in {"endSound", "gone"} => closed["video"]
       /\ pc["demux"] = "gone" => closed["sound"]
       /\ \A s \in Workers : pc[s] = "gone" => closed[OutQueue(s)]
       /\ HasAudio /\ pc["audio"] = "gone" => closed["sound"]

(* What a stage is about to take, to flush or to pass on is there.         *)
Loaded(s) ==
  /\ s # "demux" /\ pc[s] \in {"top", "pop"} => InQueue(s) # <<>>
  /\ s \in Workers /\ pc[s] = "flush" => held[s] # <<>>
  /\ pc[s] = "drain" => hand[s] # <<>>

Loads ==
  /\ \A s \in Stages : Loaded(s)
  /\ pc["demux"] = "push" => Media[Head(hand["demux"])] = "video" \/ HasAudio

(* The pieces of the line, put together one by one.                        *)
Cat(a, b)    == a \o b
Prefix(a, b) == \E z \in Seq(Positions) : Cat(a, z) = b

(* What is written, and with what every stage in turn still has of it.     *)
Film  == OfStream("video", output[0])
Film1 == Cat(Film, Part("mux"))
Film2 == Cat(Film1, Part("encode"))
Film3 == Cat(Film2, Part("vsr"))
Film4 == Cat(Film3, Part("decode"))
Film5 == Cat(Film4, OfStream("video", Part("demux")))

(* No stage from the file up to the given one has lost a packet yet.       *)
Alive(s) == pc[s] \notin Error \cup {"gone"}
Open1 == Alive("mux")
Open2 == Open1 /\ Alive("encode") /\ ~closed["encoded"]
Open3 == Open2 /\ Alive("vsr") /\ ~closed["upscaled"]
Open4 == Open3 /\ Alive("decode") /\ ~closed["decoded"]
Open5 == Open4 /\ ~closed["video"]

FilmRead == OfStream("video", ReadSoFar)

(* What is behind a lost packet never reaches the file: the stages from    *)
(* the loss on are gone, or their queue is shut.                           *)
FilmRuns ==
  /\ Prefix(Film, FilmRead)
  /\ Open1 => Prefix(Film1, FilmRead)
  /\ Open2 => Prefix(Film2, FilmRead)
  /\ Open3 => Prefix(Film3, FilmRead)
  /\ Open4 => Prefix(Film4, FilmRead)
  /\ Open5 => Film5 = FilmRead

(* What is in a sequence, and that it rises.                               *)
Inside(s) == {s[i] : i \in 1 .. Len(s)}
Rising(s) == \A i, j \in 1 .. Len(s) : i < j => s[i] < s[j]
Before(S, T) == \A p \in S, q \in T : p < q

(* What was read of a stream is all of it so far, in order.                *)
OfFile(t) == {p \in Positions : Media[p] = t}

ReadIs(t) ==
  LET r == OfStream(t, ReadSoFar)
  IN  Rising(r) /\ Inside(r) = {p \in OfFile(t) : p < next}

(* The sound: what is written, what is in front of the file, what demux    *)
(* has in its hands, and what was read.                                    *)
Track     == OfStream("audio", output[audioStream])
Coming    == Part("audio")
Onward    == OfStream("audio", Part("demux"))
TrackRead == OfStream("audio", ReadSoFar)

Track1 == Cat(Track, Coming)
Track2 == Cat(Track1, Onward)

(* The file holds the beginning of the sound as long as no write of it     *)
(* fails, ...                                                              *)
TrackRuns ==
  HasAudio /\ "write" \notin troubles =>
    /\ Prefix(Track, TrackRead)
    /\ muxer # "closed" => Prefix(Track1, TrackRead)
    /\ muxer # "closed" /\ ~closed["sound"] => Track2 = TrackRead

(* ... and it is in order after that.                                      *)
TrackRises ==
  /\ Rising(Track2)
  /\ \A p \in Inside(Track2) : p < next

(* What the file holds of the input, whatever happened to the job.         *)
Lines ==
  /\ FilmRuns /\ TrackRuns /\ TrackRises
  /\ ReadIs("video") /\ ReadIs("audio")

IInv ==
  /\ Types /\ Hands /\ Launched /\ Kinded /\ Backlog /\ Counting /\ Flags
  /\ EndChain /\ Over /\ Telling /\ Kept /\ Supply /\ Loads
  /\ Lines

-----------------------------------------------------------------------------
(* The steps.                                                              *)
Producers == {"demux"} \cup Workers
Writers   == {"mux", "audio"}

LEMMA Steps ==
  ASSUME Next
  PROVE  \/ \E s \in Stages : Loops(s)
         \/ Demux
         \/ \E s \in Workers : Convert(s) \/ Flush(s)
         \/ \E s \in Producers : Produces(s)
         \/ Count
         \/ \E s \in Writers : Writer(s)
         \/ MuxEnd \/ Runner \/ SpuriousWakeUp \/ User
BY DEF Next, Stage, Worker, Producers, Writers, Stages, Workers

(* The queues of a stage.                                                  *)
LEMMA Ways ==
  /\ \A s \in Workers : InOf(s) \in VideoQueues
  /\ InOf("mux") = "encoded" /\ InOf("audio") = "sound"
  /\ \A s \in Stages \ {"demux"} : InOf(s) \in Queues
  /\ \A s \in Workers : \A i : OutOf(s, i) \in VideoQueues
  /\ \A i : OutOf("demux", i) = IF Media[i] = "video" THEN "video" ELSE "sound"
  /\ \A s \in Producers : \A i : OutOf(s, i) \in Queues
  /\ VideoQueues \subseteq Queues /\ Workers \subseteq Stages
  /\ Producers \subseteq Stages /\ Writers \subseteq Stages
BY DEF Workers, Stages, Queues, VideoQueues, InOf, OutOf, Producers, Writers

(* The front and the rest of a sequence.                                   *)
LEMMA FrontAndRest ==
  ASSUME NEW S, NEW q \in Seq(S), q # <<>>
  PROVE  /\ Head(q) \in S /\ Head(q) = q[1] /\ Tail(q) \in Seq(S)
         /\ Len(q) > 0 /\ Len(Tail(q)) = Len(q) - 1
         /\ <<Head(q)>> \o Tail(q) = q
         /\ \A i \in 1 .. Len(Tail(q)) : Tail(q)[i] = q[i + 1]
<1>1. Len(q) > 0 /\ Head(q) \in S /\ Tail(q) \in Seq(S)
        /\ Len(Tail(q)) = Len(q) - 1
  BY HeadTailProperties, EmptySeq
<1>2. Head(q) = q[1] /\ \A i \in 1 .. Len(Tail(q)) : Tail(q)[i] = q[i + 1]
  BY <1>1, HeadTailProperties
<1>3. <<Head(q)>> \o Tail(q) = q
  <2>1. <<Head(q)>> \in Seq(S) /\ Len(<<Head(q)>>) = 1
    BY <1>1
  <2>2. /\ <<Head(q)>> \o Tail(q) \in Seq(S)
        /\ Len(<<Head(q)>> \o Tail(q)) = Len(q)
    BY <1>1, <2>1, ConcatProperties
  <2>3. ASSUME NEW i \in 1 .. Len(q)
        PROVE  (<<Head(q)>> \o Tail(q))[i] = q[i]
    BY <1>1, <1>2, <2>1, ConcatProperties
  <2>4. QED
    BY <2>2, <2>3, SeqEqual
<1>4. QED
  BY <1>1, <1>2, <1>3

-----------------------------------------------------------------------------
(* Types.                                                                  *)
Items ==
  /\ queue \in [Queues -> Seq(Positions)]
  /\ \A q \in Queues : Len(queue[q]) <= Capacity
  /\ hand \in [Stages -> Seq(Positions)]
       /\ held \in [Workers -> Seq(Positions)]
  /\ output \in [{0, 1} -> Seq(Positions)]

LEMMA ItemsStep ==
  ASSUME IInv, [Next]_vars
  PROVE  Items'
<1> USE DEF flagVars, resultVars, queueVars, stageVars, muxVars, clientVars
<1> Items /\ pc \in [Stages -> StagePcs] /\ next \in 1 .. Len(Media) + 1
    /\ Capacity \in Nat \ {0} /\ Media \in Seq({"video", "audio"})
    /\ audioStream \in {0, 1}
  BY TranscodeAssumption DEF IInv, Types, TypeOK, Items
<1>1. CASE UNCHANGED vars
  BY <1>1 DEF vars, Items
<1>2. ASSUME NEW s \in Stages, Loops(s) PROVE Items'
  BY <1>2 DEF Loops, Leave, PassGate, Starve, Pausing, Failing, SeePause,
     StorePaused, WakeUp, StoreRunning, Raise, StoreError, ErrorCloses,
     ErrorClosed, ErrorResult, Finish, Moves, Items
<1>3. CASE Demux
  <2>1. CASE ReadPacket /\ (Media[next] = "video" \/ HasAudio)
    <3>1. next \in Positions /\ hand' = [hand EXCEPT !["demux"] = <<next>>]
      BY <2>1 DEF ReadPacket, Positions
    <3>2. <<next>> \in Seq(Positions)
      BY <3>1
    <3>3. QED
      BY <2>1, <3>1, <3>2 DEF ReadPacket, NotDemux, Items
  <2>2. QED
    BY <1>3, <2>1 DEF Demux, OpenInput, ReadPacket, ReadEnd, NotDemux, Items
<1>4. ASSUME NEW s \in Workers, Convert(s) \/ Flush(s) PROVE Items'
  <2>1. CASE Flush(s)
    <3>1. \/ UNCHANGED <<hand, held>>
          \/ /\ hand' = [hand EXCEPT ![s] = held[s]]
             /\ held' = [held EXCEPT ![s] = <<>>]
      BY <2>1 DEF Flush
    <3>2. <<>> \in Seq(Positions) /\ held[s] \in Seq(Positions)
      BY EmptySeq DEF Items
    <3>3. UNCHANGED <<queue, output>>
      BY <2>1 DEF Flush, NotWorker
    <3>4. QED
      BY <3>1, <3>2, <3>3 DEF Items
  <2>2. CASE Convert(s)
    <3> DEFINE q == queue[InOf(s)]
               pictures == Append(held[s], Head(q))
    <3>1. q # <<>> /\ q \in Seq(Positions) /\ InOf(s) \in Queues
            /\ s \in Stages
      BY <2>2, Ways DEF Convert, InQueue, Items, Workers
    <3>2. Tail(q) \in Seq(Positions) /\ Len(Tail(q)) <= Capacity
          /\ Head(q) \in Positions
      BY <3>1, FrontAndRest DEF Items
    <3>3. pictures \in Seq(Positions) /\ pictures # <<>>
      <4>1. held[s] \in Seq(Positions)
        BY DEF Items
      <4>2. QED
        BY <3>2, <4>1, AppendProperties
    <3>4. Head(pictures) \in Positions /\ Tail(pictures) \in Seq(Positions)
      BY <3>3, FrontAndRest
    <3>5. queue' = [queue EXCEPT ![InOf(s)] = Tail(q)]
      BY <2>2 DEF Convert
    <3>6. Len(queue'[InOf(s)]) <= Capacity
            /\ queue' \in [Queues -> Seq(Positions)]
          /\ \A r \in Queues : Len(queue'[r]) <= Capacity
      BY <3>1, <3>2, <3>5 DEF Items
    <3>7. hand' \in [Stages -> Seq(Positions)]
            /\ held' \in [Workers -> Seq(Positions)]
      <4>1. \/ UNCHANGED hand
            \/ hand' = [hand EXCEPT ![s] = <<Head(pictures)>>]
        BY <2>2, <3>1 DEF Convert, InQueue, Workers
      <4>2. \/ UNCHANGED held
            \/ held' = [held EXCEPT ![s] = pictures]
            \/ held' = [held EXCEPT ![s] = Tail(pictures)]
        BY <2>2, <3>1 DEF Convert, InQueue, Workers
      <4> HIDE DEF pictures
      <4>3. <<Head(pictures)>> \in Seq(Positions)
        BY <3>4
      <4>4. QED
        BY ZenonT(30), <3>1, <3>3, <3>4, <4>1, <4>2, <4>3 DEF Items
    <3>8. QED
      BY <2>2, <3>6, <3>7 DEF Convert, NotWorker, Items
  <2>3. QED
    BY <1>4, <2>1, <2>2
<1>5. ASSUME NEW s \in Producers, Produces(s) PROVE Items'
  <2>1. CASE Pushed(s)
    <3> DEFINE i == Head(hand[s])
               q == OutOf(s, i)
    <3>1. hand[s] # <<>> /\ s \in Stages /\ q \in Queues
      BY <2>1, Ways DEF Pushed
    <3>2. i \in Positions /\ Tail(hand[s]) \in Seq(Positions)
      BY <3>1, FrontAndRest DEF Items
    <3>3. queue' = [queue EXCEPT ![q] = Append(queue[q], i)]
          /\ Len(queue[q]) < Capacity
          /\ hand' = [hand EXCEPT ![s] = Tail(hand[s])]
      BY <2>1 DEF Pushed, HasRoom
    <3> HIDE DEF i, q
    <3>4. Append(queue[q], i) \in Seq(Positions)
          /\ Len(Append(queue[q], i)) <= Capacity
      BY <3>1, <3>2, <3>3, AppendProperties DEF Items
    <3>5. UNCHANGED <<held, output>>
      BY <2>1 DEF Pushed
    <3>6. QED
      BY <3>1, <3>2, <3>3, <3>4, <3>5 DEF Items
  <2>2. CASE Dropped(s) \/ Close(s)
    <3>1. UNCHANGED hand \/ hand' = [hand EXCEPT ![s] = <<>>]
      BY <2>2 DEF Dropped, Close
    <3>2. <<>> \in Seq(Positions)
      BY EmptySeq
    <3>3. UNCHANGED <<queue, held, output>>
      BY <2>2 DEF Dropped, Close, NotWorker
    <3>4. QED
      BY <3>1, <3>2, <3>3 DEF Items
  <2>3. QED
    BY <1>5, <2>1, <2>2 DEF Produces
<1>6. CASE Count
  BY <1>6 DEF Count, Items
<1>7. ASSUME NEW s \in Writers, Writer(s) PROVE Items'
  <2>1. CASE Take(s)
    <3> DEFINE q == queue[InOf(s)]
    <3>1. q # <<>> /\ q \in Seq(Positions) /\ InOf(s) \in Queues
            /\ s \in Stages
      BY <2>1, Ways DEF Take, InQueue, Items, Writers
    <3>2. Tail(q) \in Seq(Positions) /\ Len(Tail(q)) <= Capacity
          /\ <<Head(q)>> \in Seq(Positions)
      BY <3>1, FrontAndRest DEF Items
    <3>3. queue' = [queue EXCEPT ![InOf(s)] = Tail(q)]
          /\ hand' = [hand EXCEPT ![s] = <<Head(q)>>]
          /\ UNCHANGED <<held, output>>
      BY <2>1 DEF Take, NotWriter, InQueue, Writers
    <3> HIDE DEF q
    <3>4. QED
      BY <3>1, <3>2, <3>3 DEF Items
  <2>2. CASE Write(s)
    <3>1. StreamOf(s) \in {0, 1} /\ s \in Stages /\ hand[s] \in Seq(Positions)
      BY Ways DEF StreamOf, Items
    <3>2. output[StreamOf(s)] \o hand[s] \in Seq(Positions)
      BY <3>1, ConcatProperties DEF Items
    <3>3. UNCHANGED output
            \/ output' = [output EXCEPT ![StreamOf(s)]
                            = output[StreamOf(s)] \o hand[s]]
      BY <2>2 DEF Write, WritePacket
    <3>4. hand' = [hand EXCEPT ![s] = <<>>] /\ <<>> \in Seq(Positions)
      BY <2>2, EmptySeq DEF Write
    <3>5. UNCHANGED <<queue, held>>
      BY <2>2 DEF Write, NotWriter
    <3> HIDE DEF StreamOf
    <3>6. QED
      BY ZenonT(30), <3>1, <3>2, <3>3, <3>4, <3>5 DEF Items
  <2>3. QED
    BY <1>7, <2>1, <2>2 DEF Writer
<1>8. CASE MuxEnd
  BY <1>8 DEF MuxEnd, Finalize, CloseMuxer, Decide, StoreCompleted,
     CleanCheckpoint, Complete, Finish, Moves, NotMuxEnd, NotWriter, Items
<1>9. CASE Runner \/ SpuriousWakeUp
  BY <1>9 DEF Runner, Configure, StartReset, StartMuxer, Launch, Wait,
     SpuriousWakeUp, NotRunner, Items
<1>10. CASE User
  BY <1>10 DEF User, Pause, Resume, Cancel, Cancelling, CancelResumes,
     CancelCloses, CancelDone, NotUi, Items
<1>11. QED
  BY <1>1, <1>2, <1>3, <1>4, <1>5, <1>6, <1>7, <1>8, <1>9, <1>10, Steps

-----------------------------------------------------------------------------
(* Where the stages are and what they hold in their hands.                 *)
LEMMA Leaving ==
  ASSUME NEW s \in Stages, NEW items
  PROVE  /\ Exit(s) \in Places(s) \ Busy
         /\ Return(s, items) \in Places(s) \ Busy
         /\ Front(s, items, "pop") \in Places(s) \ Busy
         /\ Front(s, items, "top") \in Places(s) \ Busy
         /\ {"pausing", "paused", "rerun", "gone"} \subseteq Places(s) \ Busy
         /\ {Exit(s), Return(s, items), Front(s, items, "pop"),
              Front(s, items, "top")}
              \cap (Error \cup MuxOut \cup {"none", "count", "endSound"})
              \subseteq {"finalize"}
BY DEF Stages, Workers, Places, InLoop, Busy, Exit, Return, Front, Error,
   MuxOut

LEMMA PlacesAre ==
  ASSUME NEW s \in Stages
  PROVE  /\ Places(s) \subseteq StagePcs
         /\ s # "audio" => Error \subseteq Places(s)
         /\ Error \cap Busy = {}
BY DEF Stages, Places, InLoop, StagePcs, Error, MuxOut, Busy

(* One stage moves.                                                        *)
LEMMA HandsOf ==
  ASSUME IInv, NEW s \in Stages,
         pc' \in [Stages -> StagePcs], hand' \in [Stages -> Seq(Positions)],
         \A r \in Stages \ {s} : pc'[r] = pc[r] /\ hand'[r] = hand[r],
         pc'[s] \in Places(s),
         pc'[s] \notin Busy => hand'[s] = <<>>,
         pc'[s] \in {"push", "skip", "write"} => Len(hand'[s]) = 1
  PROVE  Hands'
BY DEF IInv, Hands

LEMMA PcStep ==
  ASSUME IInv, [Next]_vars
  PROVE  pc' \in [Stages -> StagePcs]
<1> USE DEF flagVars, resultVars, queueVars, stageVars, muxVars, clientVars
<1> pc \in [Stages -> StagePcs]
  BY DEF IInv, Types, TypeOK
<1>1. CASE UNCHANGED vars
  BY <1>1 DEF vars
<1>2. ASSUME NEW s \in Stages, NEW l \in StagePcs, Goto(s, l)
      PROVE  pc' \in [Stages -> StagePcs]
  BY <1>2 DEF Goto
<1>3. ASSUME NEW s \in Stages, NEW items
      PROVE  /\ Exit(s) \in StagePcs /\ Return(s, items) \in StagePcs
             /\ Front(s, items, "pop") \in StagePcs
             /\ Front(s, items, "top") \in StagePcs
  BY Leaving, PlacesAre
<1>4. ASSUME NEW s \in Stages, Loops(s) PROVE pc' \in [Stages -> StagePcs]
  <2>1. CASE Leave(s) \/ PassGate(s) \/ Starve(s) \/ Pausing(s)
    BY <1>2, <1>3, <2>1 DEF Leave, PassGate, Starve, Pausing, SeePause,
       StorePaused, WakeUp, StoreRunning, Moves, StagePcs
  <2>2. CASE Failing(s)
    BY SMTT(30), <1>2, <2>2 DEF Failing, Raise, StoreError, ErrorCloses,
       ErrorClosed,
       ErrorResult, Finish, Moves, StagePcs
  <2>3. QED
    BY <1>4, <2>1, <2>2 DEF Loops
<1>5. CASE Demux
  BY <1>2, <1>3, <1>5 DEF Demux, OpenInput, ReadPacket, ReadEnd, Again, Fail,
     Stages, StagePcs
<1>6. ASSUME NEW s \in Workers, Convert(s) \/ Flush(s)
      PROVE  pc' \in [Stages -> StagePcs]
  BY <1>2, <1>3, <1>6, Ways DEF Convert, Flush, Fail, StagePcs
<1>7. ASSUME NEW s \in Producers, Produces(s)
      PROVE  pc' \in [Stages -> StagePcs]
  BY <1>2, <1>3, <1>7, Ways DEF Produces, Pushed, Dropped, Close, Again,
     StagePcs
<1>8. CASE Count
  BY <1>2, <1>3, <1>8 DEF Count, Again, Stages
<1>9. ASSUME NEW s \in Writers, Writer(s) PROVE pc' \in [Stages -> StagePcs]
  BY SMTT(30), <1>2, <1>3, <1>9, Ways DEF Writer, Take, Write, Again, Fail,
     StagePcs
<1>10. CASE MuxEnd
  BY <1>2, <1>10 DEF MuxEnd, Finalize, CloseMuxer, Decide, StoreCompleted,
     CleanCheckpoint, Complete, Finish, Moves, Fail, Stages, StagePcs
<1>11. CASE Runner \/ SpuriousWakeUp
  <2>1. CASE Launch
    BY <1>3, <2>1 DEF Launch, StagePcs
  <2>2. QED
    BY <1>11, <2>1 DEF Runner, Configure, StartReset, StartMuxer, Wait,
       SpuriousWakeUp
<1>12. CASE User
  BY <1>12 DEF User, Pause, Resume, Cancel, Cancelling, CancelResumes,
     CancelCloses, CancelDone, NotUi
<1>13. QED
  BY <1>1, <1>4, <1>5, <1>6, <1>7, <1>8, <1>9, <1>10, <1>11, <1>12, Steps

LEMMA HandsStep ==
  ASSUME IInv, [Next]_vars
  PROVE  Hands'
<1> USE DEF flagVars, resultVars, queueVars, stageVars, muxVars, clientVars
<1> /\ pc \in [Stages -> StagePcs] /\ pc' \in [Stages -> StagePcs]
    /\ hand \in [Stages -> Seq(Positions)]
         /\ hand' \in [Stages -> Seq(Positions)]
    /\ Hands
  BY PcStep, ItemsStep DEF IInv, Types, TypeOK, Items
<1>1. CASE UNCHANGED <<pc, hand>>
  BY <1>1 DEF Hands
<1>2. ASSUME NEW s \in Stages, NEW l \in Places(s) \ Busy, Goto(s, l),
             hand'[s] = <<>>, \A r \in Stages \ {s} : hand'[r] = hand[r]
      PROVE  Hands'
  <2>1. pc'[s] = l /\ \A r \in Stages \ {s} : pc'[r] = pc[r]
    BY <1>2 DEF Goto
  <2>2. QED
    BY <1>2, <2>1, HandsOf DEF Busy
<1>3. ASSUME NEW s \in Stages, NEW l \in Places(s) \ Busy, Goto(s, l),
             UNCHANGED hand, pc[s] \notin Busy
      PROVE  Hands'
  <2>1. hand[s] = <<>>
    BY <1>3 DEF Hands
  <2>2. QED
    BY <1>2, <1>3, <2>1
<1>4. ASSUME NEW s \in Stages, Loops(s) PROVE Hands'
  <2>1. CASE ErrorCloses(s)
    BY <1>1, <2>1 DEF ErrorCloses
  <2>2. CASE Leave(s) \/ PassGate(s) \/ Starve(s) \/ Pausing(s)
    <3>1. UNCHANGED hand /\ pc[s] \notin Busy
      BY <2>2 DEF Leave, PassGate, Starve, Pausing, SeePause,
         StorePaused, WakeUp, StoreRunning, Moves, Busy
    <3>2. \E l \in Places(s) \ Busy : Goto(s, l)
      BY <2>2, Leaving DEF Leave, PassGate, Starve, Pausing, SeePause,
         StorePaused, WakeUp, StoreRunning, Moves
    <3>3. QED
      BY <1>3, <3>1, <3>2
  <2>3. CASE Failing(s) /\ ~ErrorCloses(s)
    <3>1. UNCHANGED hand /\ pc[s] \in Error
      BY <2>3 DEF Failing, Raise, StoreError, ErrorClosed, ErrorResult, Finish,
         Moves, Error
    <3>2. \E l \in Error \cup {"gone"} : Goto(s, l)
      BY <2>3 DEF Failing, Raise, StoreError, ErrorClosed, ErrorResult, Finish,
         Moves, Error
    <3>3. s # "audio"
      BY <3>1 DEF Hands, Places, InLoop, Error
    <3>4. QED
      BY <1>3, <3>1, <3>2, <3>3, PlacesAre, Leaving
  <2>4. QED
    BY <1>4, <2>1, <2>2, <2>3 DEF Loops
<1>5. CASE Demux
  <2>1. CASE ReadPacket /\ (Media[next] = "video" \/ HasAudio)
    <3>1. hand'["demux"] = <<next>> /\ pc'["demux"] = "push"
          /\ \A r \in Stages \ {"demux"} : hand'[r] = hand[r] /\ pc'[r] = pc[r]
      BY <2>1 DEF ReadPacket, Goto, Stages
    <3>2. "push" \in Places("demux") /\ "demux" \in Stages
      BY DEF Places, Stages
    <3>3. QED
      BY <3>1, <3>2, HandsOf DEF Busy
  <2>2. CASE ~(ReadPacket /\ (Media[next] = "video" \/ HasAudio))
    <3>1. UNCHANGED hand /\ pc["demux"] \notin Busy
      BY <1>5, <2>2 DEF Demux, OpenInput, ReadPacket, ReadEnd, Reads, Busy
    <3>2. \E l \in {Return("demux", InQueue("demux")), "err", "close"} :
             Goto("demux", l)
      BY <1>5, <2>2 DEF Demux, OpenInput, ReadPacket, ReadEnd, Again, Fail
    <3>3. "demux" \in Stages
            /\ {"err", "close"} \subseteq Places("demux") \ Busy
      BY DEF Stages, Places, Error, Busy
    <3>4. QED
      BY <1>3, <3>1, <3>2, <3>3, Leaving
  <2>3. QED
    BY <2>1, <2>2
<1>6. ASSUME NEW s \in Workers, Convert(s) \/ Flush(s) PROVE Hands'
  <2>1. s \in Stages /\ s # "demux"
    BY Ways DEF Workers
  <2>2. "err" \in Places(s) \ Busy /\ "close" \in Places(s) \ Busy
        /\ {"push", "drain"} \subseteq Places(s)
        /\ (s = "vsr" => "skip" \in Places(s))
    BY DEF Workers, Places, Error, Busy
  <2>3. pc[s] \notin Busy /\ \A r \in Stages \ {s} : hand'[r] = hand[r]
          /\ pc'[r] = pc[r]
    BY <1>6, <2>1 DEF Convert, Flush, Busy, Goto, Fail
  <2>4. hand[s] = <<>>
    BY <2>1, <2>3 DEF Hands
  <2>5. CASE Flush(s)
    <3>1. \/ pc'[s] = "drain"
          \/ pc'[s] = "close" /\ hand'[s] = hand[s]
      BY <2>1, <2>5 DEF Flush, Goto
    <3>2. pc'[s] \in Places(s)
      BY <2>2, <3>1
    <3>3. QED
      BY <2>1, <2>3, <2>4, <3>1, <3>2, HandsOf DEF Busy
  <2>6. CASE Convert(s)
    <3>1. CASE \E x : hand' = [hand EXCEPT ![s] = <<x>>]
      <4>1. \A r \in Stages \ {s} : hand'[r] = hand[r]
        BY <2>3
      <4>2. Len(hand'[s]) = 1 /\ hand'[s] # <<>>
        BY <2>1, <3>1
      <4>3. Goto(s, "push") \/ (s = "vsr" /\ Goto(s, "skip"))
        <5>1. hand' # hand
          BY <2>1, <2>4, <4>2
        <5>2. QED
          BY <2>6, <5>1 DEF Convert
      <4>4. pc'[s] = "push" \/ (s = "vsr" /\ pc'[s] = "skip")
        <5>1. \A l : Goto(s, l) => pc'[s] = l
          BY <2>1 DEF Goto
        <5>2. QED
          BY <4>3, <5>1
      <4>5. pc'[s] \in Places(s) /\ pc'[s] \in Busy
        BY <2>2, <4>4 DEF Busy
      <4>6. QED
        BY <2>1, <2>3, <4>2, <4>5, HandsOf
    <3>2. CASE ~\E x : hand' = [hand EXCEPT ![s] = <<x>>]
      <4>1. UNCHANGED hand
              /\ \E l \in {Return(s, Tail(InQueue(s))), "err"} : Goto(s, l)
        BY <2>6, <3>2 DEF Convert, Fail
      <4>2. \E l \in Places(s) \ Busy : Goto(s, l)
        BY <2>1, <2>2, <4>1, Leaving
      <4>3. QED
        BY <1>3, <2>1, <2>3, <4>1, <4>2
    <3>3. QED
      BY <3>1, <3>2
  <2>7. QED
    BY <1>6, <2>5, <2>6
<1>7. ASSUME NEW s \in Producers, Produces(s) PROVE Hands'
  <2>1. s \in Stages /\ "close" \in Places(s) \ Busy
        /\ (s = "encode" => "count" \in Places(s) \ Busy)
        /\ (s = "demux" => "endSound" \in Places(s) \ Busy)
    BY DEF Producers, Workers, Stages, Places, Busy
  <2>2. CASE Pushed(s)
    <3>1. hand[s] # <<>> /\ hand' = [hand EXCEPT ![s] = Tail(hand[s])]
      BY <2>2 DEF Pushed
    <3>2. Len(hand'[s]) = Len(hand[s]) - 1 /\ hand'[s] \in Seq(Positions)
          /\ \A r \in Stages \ {s} : hand'[r] = hand[r]
      BY <2>1, <3>1, FrontAndRest
    <3>3. CASE pc[s] = "drain" /\ Len(hand[s]) # 1
      <4>1. pc'[s] = "drain" /\ UNCHANGED pc
        BY <2>2, <3>3 DEF Pushed
      <4>2. pc'[s] \in Places(s)
        BY <2>1, <4>1 DEF Hands
      <4>3. QED
        BY <2>1, <3>2, <4>1, <4>2, HandsOf DEF Busy
    <3>4. CASE pc[s] # "drain" \/ Len(hand[s]) = 1
      <4>1. Len(hand[s]) = 1
        BY <2>1, <2>2, <3>4 DEF Pushed, Hands
      <4>2. hand'[s] = <<>>
        BY <3>2, <4>1, EmptySeq
      <4>3. \E l \in {Return(s, InQueue(s)), "close"}
                 \cup (IF s = "encode" THEN {"count"} ELSE {}) : Goto(s, l)
        BY <2>2, <4>1 DEF Pushed, Again
      <4>4. QED
        BY <1>2, <2>1, <3>2, <4>2, <4>3, Leaving
    <3>5. QED
      BY <3>3, <3>4
  <2>3. CASE Dropped(s)
    <3>1. hand'[s] = <<>> /\ \A r \in Stages \ {s} : hand'[r] = hand[r]
      BY <2>1, <2>3 DEF Dropped
    <3>2. \E l \in {Return(s, InQueue(s)), Exit(s), "close"} : Goto(s, l)
      BY <2>3 DEF Dropped, Again
    <3>3. QED
      BY <1>2, <2>1, <3>1, <3>2, Leaving
  <2>4. CASE Close(s)
    <3>1. UNCHANGED hand /\ pc[s] \notin Busy
      BY <2>4 DEF Close, Busy
    <3>2. \E l \in {"gone"} \cup (IF s = "demux" THEN {"endSound"} ELSE {}) :
            Goto(s, l)
      BY <2>4 DEF Close
    <3>3. QED
      BY <1>3, <2>1, <3>1, <3>2, Leaving
  <2>5. QED
    BY <1>7, <2>2, <2>3, <2>4 DEF Produces
<1>8. CASE Count
  <2>1. "encode" \in Stages /\ pc["encode"] \notin Busy /\ UNCHANGED hand
    BY <1>8 DEF Count, Stages, Busy
  <2>2. Goto("encode", Return("encode", InQueue("encode")))
    BY <1>8 DEF Count, Again
  <2>3. QED
    BY <1>3, <2>1, <2>2, Leaving
<1>9. ASSUME NEW s \in Writers, Writer(s) PROVE Hands'
  <2>1. s \in Stages /\ "write" \in Places(s)
          /\ (s = "mux" => "err" \in Places(s) \ Busy)
    BY DEF Writers, Stages, Places, Error, Busy
  <2>2. CASE Take(s)
    <3>1. hand' = [hand EXCEPT ![s] = <<Head(InQueue(s))>>] /\ Goto(s, "write")
      BY <2>2 DEF Take
    <3>2. Len(hand'[s]) = 1 /\ pc'[s] = "write"
          /\ \A r \in Stages \ {s} : hand'[r] = hand[r] /\ pc'[r] = pc[r]
      BY <2>1, <3>1 DEF Goto
    <3>3. QED
      BY <2>1, <3>2, HandsOf DEF Busy
  <2>3. CASE Write(s)
    <3>1. hand'[s] = <<>> /\ \A r \in Stages \ {s} : hand'[r] = hand[r]
      BY <2>1, <2>3 DEF Write
    <3>2. \E l \in {Return(s, InQueue(s))}
               \cup (IF s = "mux" THEN {"err"} ELSE {}) : Goto(s, l)
      BY <2>3 DEF Write, Again, Fail
    <3>3. QED
      BY <1>2, <2>1, <3>1, <3>2, Leaving
  <2>4. QED
    BY <1>9, <2>2, <2>3 DEF Writer
<1>10. CASE MuxEnd
  <2>1. "mux" \in Stages
          /\ MuxOut \cup {"err", "gone"} \subseteq Places("mux") \ Busy
    BY DEF Stages, Places, MuxOut, Error, Busy
  <2>2. UNCHANGED hand /\ pc["mux"] \notin Busy
    BY <1>10 DEF MuxEnd, Finalize, CloseMuxer, Decide, StoreCompleted,
       CleanCheckpoint, Complete, Finish, Moves, NotMuxEnd, Busy
  <2>3. \E l \in MuxOut \cup {"err", "gone"} : Goto("mux", l)
    BY <1>10 DEF MuxEnd, Finalize, CloseMuxer, Decide, StoreCompleted,
       CleanCheckpoint, Complete, Finish, Moves, Fail, MuxOut
  <2>4. QED
    BY <1>3, <2>1, <2>2, <2>3
<1>11. CASE Runner \/ SpuriousWakeUp
  <2>1. CASE Launch
    <3>1. \A s \in Stages : hand'[s] = <<>>
      BY <2>1 DEF Launch, IInv, Launched, Setup, Fresh, NotRunner
    <3>2. "open" \in Places("demux") \ Busy
            /\ "gone" \in Places("audio") \ Busy
      BY DEF Places, Busy
    <3>3. \A s \in Stages : pc'[s] \in Places(s) \ Busy
      BY <2>1, <3>2, Leaving DEF Launch
    <3>4. QED
      BY <3>1, <3>3 DEF Hands, Busy
  <2>2. QED
    BY <1>1, <1>11, <2>1 DEF Runner, Configure, StartReset, StartMuxer, Wait,
       SpuriousWakeUp, NotRunner
<1>12. CASE User
  BY <1>1, <1>12 DEF User, Pause, Resume, Cancel, Cancelling, CancelResumes,
     CancelCloses, CancelDone, NotUi
<1>13. CASE UNCHANGED vars
  BY <1>1, <1>13 DEF vars
<1>14. QED
  BY <1>4, <1>5, <1>6, <1>7, <1>8, <1>9, <1>10, <1>11, <1>12, <1>13, Steps

-----------------------------------------------------------------------------
(* Sequences.                                                              *)
LEMMA AppendMoves ==
  ASSUME NEW S, NEW a \in Seq(S), NEW b \in Seq(S), NEW i \in S
  PROVE  a \o Append(b, i) = Append(a \o b, i) /\ a \o b \in Seq(S)
<1> DEFINE e == <<i>>
<1>1. e \in Seq(S) /\ a \o b \in Seq(S)
  BY ConcatProperties
<1>2. Append(b, i) = b \o e /\ Append(a \o b, i) = (a \o b) \o e
  BY <1>1, AppendIsConcat
<1> HIDE DEF e
<1>3. QED
  BY SMTT(30), <1>1, <1>2, ConcatAssociative

(* Induction over the numbers and over sequences.                          *)
LEMMA Induction ==
  ASSUME NEW T, T \subseteq Nat, 0 \in T, \A n \in T : n + 1 \in T
  PROVE  T = Nat
<1> DEFINE R == OpToRel(<, Nat)
           Others == Nat \ T
<1> SUFFICES ASSUME Others # {} PROVE FALSE
  OBVIOUS
<1>1. IsWellFoundedOn(R, Nat)
  BY NatLessThanWellFounded
<1>2. \A x, y \in Nat : y < x => <<y, x>> \in R
  BY DEF OpToRel
<1> HIDE DEF R
<1>3. PICK n \in Others : \A m \in Others : ~ (<<m, n>> \in R)
  BY <1>1, WFMin
<1>4. n # 0 /\ n - 1 \in Nat /\ n - 1 < n
  BY <1>3
<1>5. n - 1 \in T
  BY <1>2, <1>3, <1>4
<1>6. (n - 1) + 1 \in T
  BY <1>5
<1>7. QED
  BY <1>3, <1>4, <1>6

LEMMA SequenceInduction ==
  ASSUME NEW S, NEW T, <<>> \in T,
         \A s \in Seq(S), e \in S : s \in T => Append(s, e) \in T
  PROVE  Seq(S) \subseteq T
<1> DEFINE N == {n \in Nat : \A s \in Seq(S) : Len(s) = n => s \in T}
<1>1. 0 \in N
  BY EmptySeq
<1>2. ASSUME NEW n \in N PROVE n + 1 \in N
  <2> SUFFICES ASSUME NEW s \in Seq(S), Len(s) = n + 1 PROVE s \in T
    OBVIOUS
  <2>1. s # <<>>
    BY EmptySeq
  <2>2. PICK r \in Seq(S), e \in S : s = Append(r, e)
    BY <2>1, SequenceEmptyOrAppend
  <2>3. Len(r) = n
    BY <2>2, AppendProperties
  <2>4. QED
    BY <2>2, <2>3
<1>3. N = Nat
  <2> HIDE DEF N
  <2>1. N \subseteq Nat
    BY DEF N
  <2>2. QED
    BY <1>1, <1>2, <2>1, Induction
<1>4. QED
  BY <1>3

-----------------------------------------------------------------------------
(* The packets of one stream: OfStream without its LET.                    *)
Sifts(g, t, items, n) ==
  g = [k \in 0 .. n |->
         IF k = 0 THEN <<>>
         ELSE IF Media[items[k]] = t THEN Append(g[k - 1], items[k])
         ELSE g[k - 1]]

LEMMA SiftedIs ==
  ASSUME NEW t, NEW items
  PROVE  OfStream(t, items)
           = (CHOOSE g : Sifts(g, t, items, Len(items)))[Len(items)]
BY DEF OfStream, Sifts

LEMMA SiftsExist ==
  ASSUME NEW t, NEW items \in Seq(Positions)
  PROVE  \A n \in Nat : n <= Len(items) => \E g : Sifts(g, t, items, n)
<1> DEFINE T == {n \in Nat : n <= Len(items) => \E g : Sifts(g, t, items, n)}
<1>1. 0 \in T
  <2> DEFINE g == [k \in 0 .. 0 |-> <<>>]
  <2>1. Sifts(g, t, items, 0)
    BY DEF Sifts
  <2>2. QED
    BY <2>1
<1>2. ASSUME NEW n \in T PROVE n + 1 \in T
  <2> SUFFICES ASSUME n + 1 <= Len(items)
               PROVE  \E g : Sifts(g, t, items, n + 1)
    OBVIOUS
  <2>1. PICK g : Sifts(g, t, items, n)
    BY LenProperties
  <2> DEFINE e == IF Media[items[n + 1]] = t THEN Append(g[n], items[n + 1])
                  ELSE g[n]
             h == [k \in 0 .. n + 1 |-> IF k <= n THEN g[k] ELSE e]
  <2>2. \A k \in 0 .. n : h[k] = g[k]
    OBVIOUS
  <2>3. h[n + 1] = e
    OBVIOUS
  <2>4. ASSUME NEW k \in 0 .. n + 1
        PROVE  h[k] = IF k = 0 THEN <<>>
                      ELSE IF Media[items[k]] = t
                           THEN Append(h[k - 1], items[k])
                      ELSE h[k - 1]
    <3>1. CASE k = n + 1
      BY <2>2, <2>3, <3>1
    <3>2. CASE k # n + 1 /\ k # 0
      <4>1. k \in 0 .. n /\ k - 1 \in 0 .. n
        BY <3>2
      <4>2. g[k] = IF Media[items[k]] = t THEN Append(g[k - 1], items[k])
                   ELSE g[k - 1]
        BY <2>1, <3>2, <4>1 DEF Sifts
      <4>3. QED
        BY <2>2, <3>2, <4>1, <4>2
    <3>3. CASE k = 0
      <4>1. g[0] = <<>>
        BY <2>1 DEF Sifts
      <4>2. QED
        BY <2>2, <3>3, <4>1
    <3>4. QED
      BY <3>1, <3>2, <3>3
  <2> HIDE DEF e
  <2>5. h = [k \in 0 .. n + 1 |-> h[k]]
    OBVIOUS
  <2>6. Sifts(h, t, items, n + 1)
    <3> HIDE DEF h
    <3>1. QED
      BY <2>4, <2>5 DEF Sifts
  <2>7. QED
    BY <2>6
<1>3. T = Nat
  <2> HIDE DEF T
  <2>1. T \subseteq Nat
    BY DEF T
  <2>2. QED
    BY <1>1, <1>2, <2>1, Induction
<1>4. QED
  BY <1>3

(* One step of the recursion.                                              *)
LEMMA SiftsStep ==
  ASSUME NEW g, NEW t, NEW items, NEW n \in Nat, Sifts(g, t, items, n)
  PROVE  /\ g[0] = <<>>
         /\ \A k \in 1 .. n : g[k] = IF Media[items[k]] = t
                                     THEN Append(g[k - 1], items[k])
                                     ELSE g[k - 1]
<1> 0 \in 0 .. n /\ \A k \in 1 .. n : k \in 0 .. n /\ k # 0
  OBVIOUS
<1>1. DOMAIN g = 0 .. n
  BY DEF Sifts
<1>2. ASSUME NEW k \in 0 .. n
      PROVE  g[k] = IF k = 0 THEN <<>>
                    ELSE IF Media[items[k]] = t THEN Append(g[k - 1], items[k])
                    ELSE g[k - 1]
  BY Zenon DEF Sifts
<1>3. QED
  BY <1>2

(* It does not depend on what follows.                                     *)
LEMMA SiftsAgree ==
  ASSUME NEW t, NEW a \in Seq(Positions), NEW b \in Seq(Positions),
         NEW n \in Nat, n <= Len(a), n <= Len(b),
         \A k \in 1 .. n : a[k] = b[k],
         NEW g, Sifts(g, t, a, Len(a)), NEW h, Sifts(h, t, b, Len(b))
  PROVE  g[n] = h[n]
<1> DEFINE T == {m \in Nat : m <= n => g[m] = h[m]}
<1> Len(a) \in Nat /\ Len(b) \in Nat
  BY LenProperties
<1>1. 0 \in T
  BY SiftsStep
<1>2. ASSUME NEW m \in T PROVE m + 1 \in T
  <2> SUFFICES ASSUME m + 1 <= n PROVE g[m + 1] = h[m + 1]
    OBVIOUS
  <2>1. g[m] = h[m] /\ a[m + 1] = b[m + 1] /\ (m + 1) - 1 = m
        /\ m + 1 \in 1 .. Len(a) /\ m + 1 \in 1 .. Len(b)
    OBVIOUS
  <2>2. g[m + 1] = IF Media[a[m + 1]] = t THEN Append(g[m], a[m + 1]) ELSE g[m]
    BY <2>1, SiftsStep
  <2>3. h[m + 1] = IF Media[b[m + 1]] = t THEN Append(h[m], b[m + 1]) ELSE h[m]
    BY <2>1, SiftsStep
  <2>4. QED
    BY <2>1, <2>2, <2>3
<1>3. T = Nat
  <2> HIDE DEF T
  <2>1. T \subseteq Nat
    BY DEF T
  <2>2. QED
    BY <1>1, <1>2, <2>1, Induction
<1>4. QED
  BY <1>3

LEMMA SiftEmpty ==
  ASSUME NEW t
  PROVE  OfStream(t, <<>>) = <<>>
<1>1. <<>> \in Seq(Positions) /\ Len(<<>>) = 0
  BY EmptySeq
<1>2. \E g : Sifts(g, t, <<>>, 0)
  <2>1. \A n \in Nat : n <= Len(<<>>) => \E g : Sifts(g, t, <<>>, n)
    BY <1>1, SiftsExist, Zenon
  <2>2. QED
    BY <1>1, <2>1
<1> DEFINE h == CHOOSE g : Sifts(g, t, <<>>, 0)
<1>3. Sifts(h, t, <<>>, 0)
  BY <1>2, Zenon
<1>4. OfStream(t, <<>>) = h[0]
  BY <1>1, SiftedIs
<1> HIDE DEF h
<1>5. QED
  BY <1>3, <1>4, SiftsStep

LEMMA SiftAppend ==
  ASSUME NEW t, NEW items \in Seq(Positions), NEW i \in Positions
  PROVE  OfStream(t, Append(items, i))
           = IF Media[i] = t THEN Append(OfStream(t, items), i)
             ELSE OfStream(t, items)
<1> DEFINE more == Append(items, i)
           n == Len(items)
           g == CHOOSE f : Sifts(f, t, items, n)
           h == CHOOSE f : Sifts(f, t, more, n + 1)
<1>1. /\ n \in Nat /\ more \in Seq(Positions) /\ Len(more) = n + 1
      /\ more[n + 1] = i /\ \A k \in 1 .. n : more[k] = items[k]
  BY AppendProperties, LenProperties
<1> n + 1 \in Nat /\ n + 1 <= Len(more) /\ n <= Len(items)
    /\ n + 1 \in 1 .. n + 1 /\ (n + 1) - 1 = n
  BY <1>1
<1> HIDE DEF more, n
<1>2. Sifts(g, t, items, n)
  <2>1. \E f : Sifts(f, t, items, n)
    BY <1>1, SiftsExist
  <2>2. QED
    BY <2>1, Zenon
<1>3. Sifts(h, t, more, n + 1)
  <2>1. \E f : Sifts(f, t, more, n + 1)
    BY <1>1, SiftsExist
  <2>2. QED
    BY <2>1, Zenon
<1>4. OfStream(t, items) = g[n]
  BY SiftedIs DEF n
<1>5. OfStream(t, more) = h[n + 1]
  BY <1>1, SiftedIs
<1> HIDE DEF g, h
<1>6. g[n] = h[n]
  <2>1. Sifts(g, t, items, Len(items)) /\ Sifts(h, t, more, Len(more))
    BY <1>1, <1>2, <1>3 DEF n
  <2>2. n <= Len(items) /\ n <= Len(more)
          /\ \A k \in 1 .. n : items[k] = more[k]
    BY <1>1
  <2>3. QED
    BY <1>1, <2>1, <2>2, SiftsAgree
<1>7. h[n + 1] = IF Media[i] = t THEN Append(h[n], i) ELSE h[n]
  BY <1>1, <1>3, SiftsStep
<1>8. QED
  BY <1>4, <1>5, <1>6, <1>7 DEF more

LEMMA SiftType ==
  ASSUME NEW t, NEW items \in Seq(Positions)
  PROVE  OfStream(t, items) \in Seq(Positions)
<1> DEFINE T == {s \in Seq(Positions) : OfStream(t, s) \in Seq(Positions)}
<1>1. <<>> \in T
  BY SiftEmpty, EmptySeq
<1>2. ASSUME NEW s \in Seq(Positions), NEW i \in Positions, s \in T
      PROVE  Append(s, i) \in T
  <2>1. Append(s, i) \in Seq(Positions)
        /\ Append(OfStream(t, s), i) \in Seq(Positions)
    BY <1>2, AppendProperties
  <2>2. QED
    BY <1>2, <2>1, SiftAppend
<1>3. Seq(Positions) \subseteq T
  <2> HIDE DEF T
  <2>1. QED
    BY <1>1, <1>2, SequenceInduction
<1>4. QED
  BY <1>3

LEMMA SiftConcat ==
  ASSUME NEW t, NEW a \in Seq(Positions), NEW b \in Seq(Positions)
  PROVE  OfStream(t, a \o b) = OfStream(t, a) \o OfStream(t, b)
<1> DEFINE T == {s \in Seq(Positions) :
                   OfStream(t, a \o s) = OfStream(t, a) \o OfStream(t, s)}
<1> OfStream(t, a) \in Seq(Positions)
  BY SiftType
<1>1. <<>> \in T
  BY SiftEmpty, EmptySeq, ConcatEmptySeq
<1>2. ASSUME NEW s \in Seq(Positions), NEW i \in Positions, s \in T
      PROVE  Append(s, i) \in T
  <2>1. a \o Append(s, i) = Append(a \o s, i) /\ a \o s \in Seq(Positions)
        /\ Append(s, i) \in Seq(Positions)
    BY AppendMoves, AppendProperties
  <2> DEFINE x == OfStream(t, a)
             y == OfStream(t, s)
  <2>2. x \in Seq(Positions) /\ y \in Seq(Positions)
          /\ x \o y \in Seq(Positions)
    BY SiftType, ConcatProperties
  <2>3. OfStream(t, a \o s) = x \o y
    BY <1>2
  <2>4. OfStream(t, a \o Append(s, i)) = IF Media[i] = t THEN Append(x \o y, i)
                                         ELSE x \o y
    <3>1. OfStream(t, Append(a \o s, i))
            = IF Media[i] = t THEN Append(OfStream(t, a \o s), i)
              ELSE OfStream(t, a \o s)
      BY <2>1, SiftAppend
    <3>2. QED
      BY <2>1, <2>3, <3>1
  <2>5. OfStream(t, Append(s, i)) = IF Media[i] = t THEN Append(y, i) ELSE y
    BY SiftAppend
  <2> HIDE DEF x, y
  <2>6. Append(x \o y, i) = x \o Append(y, i)
    <3>1. x \in Seq(Positions) /\ y \in Seq(Positions)
      BY <2>2
    <3>2. x \o Append(y, i) = Append(x \o y, i)
      BY SMTT(30), <3>1, AppendMoves
    <3>3. QED
      BY <3>2
  <2>7. OfStream(t, a \o Append(s, i)) = x \o OfStream(t, Append(s, i))
    BY <2>4, <2>5, <2>6
  <2>8. QED
    BY <2>1, <2>7 DEF x
<1>3. Seq(Positions) \subseteq T
  <2> HIDE DEF T
  <2>1. QED
    BY <1>1, <1>2, SequenceInduction
<1>4. QED
  BY <1>3

LEMMA SiftAll ==
  ASSUME NEW t, NEW items \in Seq(Positions), All(t, items)
  PROVE  OfStream(t, items) = items
<1> DEFINE T == {s \in Seq(Positions) : All(t, s) => OfStream(t, s) = s}
<1>1. <<>> \in T
  BY SiftEmpty, EmptySeq
<1>2. ASSUME NEW s \in Seq(Positions), NEW i \in Positions, s \in T
      PROVE  Append(s, i) \in T
  <2>1. All(t, Append(s, i)) => All(t, s) /\ Media[i] = t
    BY AppendProperties, LenProperties DEF All
  <2>2. QED
    BY <1>2, <2>1, SiftAppend, AppendProperties
<1>3. Seq(Positions) \subseteq T
  <2> HIDE DEF T
  <2>1. QED
    BY <1>1, <1>2, SequenceInduction
<1>4. QED
  BY <1>3

LEMMA SiftNone ==
  ASSUME NEW t, NEW u, u # t, NEW items \in Seq(Positions), All(u, items)
  PROVE  OfStream(t, items) = <<>>
<1> DEFINE T == {s \in Seq(Positions) : All(u, s) => OfStream(t, s) = <<>>}
<1>1. <<>> \in T
  BY SiftEmpty, EmptySeq
<1>2. ASSUME NEW s \in Seq(Positions), NEW i \in Positions, s \in T
      PROVE  Append(s, i) \in T
  <2>1. All(u, Append(s, i)) => All(u, s) /\ Media[i] = u
    BY SMTT(30), AppendProperties, LenProperties DEF All
  <2>2. QED
    BY <1>2, <2>1, SiftAppend, AppendProperties
<1>3. Seq(Positions) \subseteq T
  <2> HIDE DEF T
  <2>1. QED
    BY <1>1, <1>2, SequenceInduction
<1>4. QED
  BY <1>3

-----------------------------------------------------------------------------
(* The way of the packets: what a step takes from a stage and adds to one. *)
To(s, i) ==
  CASE s = "demux"  -> IF Media[i] = "video" THEN "decode" ELSE "audio"
    [] s = "decode" -> "vsr" [] s = "vsr" -> "encode" [] s = "encode" -> "mux"

LEMMA Routes ==
  ASSUME NEW s \in Producers, NEW i
  PROVE  /\ To(s, i) \in Stages \ {"demux", s}
         /\ InOf(To(s, i)) = OutOf(s, i)
         /\ \A r \in Stages \ {"demux", To(s, i)} : InOf(r) # OutOf(s, i)
BY DEF Producers, Workers, Stages, To, InOf, OutOf

LEMMA Apart ==
  /\ \A r, s \in Stages \ {"demux"} : InOf(r) = InOf(s) => r = s
  /\ Workers \subseteq Stages \ {"demux"}
       /\ Writers \subseteq Stages \ {"demux"}
BY DEF Workers, Writers, Stages, InOf

LEMMA PartType ==
  ASSUME Items, NEW s \in Stages
  PROVE  /\ hand[s] \in Seq(Positions) /\ Held(s) \in Seq(Positions)
         /\ InQueue(s) \in Seq(Positions) /\ Part(s) \in Seq(Positions)
         /\ hand[s] \o Held(s) \in Seq(Positions)
<1>1. hand[s] \in Seq(Positions) /\ Held(s) \in Seq(Positions)
  BY EmptySeq DEF Items, Held
<1>2. InQueue(s) \in Seq(Positions)
  BY EmptySeq, Ways DEF Items, InQueue
<1>3. QED
  BY <1>1, <1>2, ConcatProperties DEF Part

LEMMA PartTypeAfter ==
  ASSUME Items', NEW s \in Stages
  PROVE  /\ hand'[s] \in Seq(Positions) /\ Held(s)' \in Seq(Positions)
         /\ InQueue(s)' \in Seq(Positions) /\ Part(s)' \in Seq(Positions)
         /\ hand'[s] \o Held(s)' \in Seq(Positions)
<1>1. hand'[s] \in Seq(Positions) /\ Held(s)' \in Seq(Positions)
  BY EmptySeq DEF Items, Held
<1>2. InQueue(s)' \in Seq(Positions)
  BY EmptySeq, Ways DEF Items, InQueue
<1>3. QED
  BY <1>1, <1>2, ConcatProperties DEF Part

Rest(X) == \A r \in Stages \ X : Part(r)' = Part(r)

LEMMA Still ==
  ASSUME UNCHANGED <<queue, hand, held>>
  PROVE  Rest({})
BY DEF Rest, Part, Held, InQueue

(* The steps that move nothing.                                            *)
LEMMA StillFlow ==
  ASSUME \/ \E s \in Stages : Loops(s)
         \/ OpenInput \/ ReadEnd \/ Count \/ MuxEnd
         \/ \E s \in Producers : Close(s)
         \/ Runner \/ SpuriousWakeUp \/ User
         \/ UNCHANGED vars
  PROVE  Rest({}) /\ UNCHANGED <<output, next, hand>>
<1> USE DEF flagVars, resultVars, queueVars, stageVars, muxVars, clientVars
<1>1. ASSUME NEW s \in Stages, Loops(s)
      PROVE  UNCHANGED <<queue, hand, held, output, next>>
  BY <1>1 DEF Loops, Leave, PassGate, Starve, Pausing, Failing, SeePause,
     StorePaused, WakeUp, StoreRunning, Raise, StoreError, ErrorCloses,
     ErrorClosed, ErrorResult, Finish, Moves
<1>2. ASSUME OpenInput \/ ReadEnd \/ Count \/ MuxEnd
      PROVE  UNCHANGED <<queue, hand, held, output, next>>
  BY <1>2 DEF OpenInput, ReadEnd, NotDemux, Count, MuxEnd, Finalize,
     CloseMuxer, Decide, StoreCompleted, CleanCheckpoint, Complete, Finish,
     Moves, NotMuxEnd, NotWriter
<1>3. ASSUME NEW s \in Producers, Close(s)
      PROVE  UNCHANGED <<queue, hand, held, output, next>>
  BY <1>3 DEF Close, NotWorker
<1>4. ASSUME Runner \/ SpuriousWakeUp \/ User \/ UNCHANGED vars
      PROVE  UNCHANGED <<queue, hand, held, output, next>>
  BY <1>4 DEF Runner, Configure, StartReset, StartMuxer, Launch, Wait,
     SpuriousWakeUp, NotRunner, User, Pause, Resume, Cancel, Cancelling,
     CancelResumes, CancelCloses, CancelDone, NotUi, vars
<1>5. QED
  BY <1>1, <1>2, <1>3, <1>4, Still

(* A packet is read.                                                       *)
LEMMA ReadFlow ==
  ASSUME IInv, ReadPacket
  PROVE  /\ next \in Positions /\ next' = next + 1 /\ UNCHANGED output
         /\ Rest({"demux"}) /\ Part("demux") = <<>>
         /\ IF Media[next] = "video" \/ HasAudio
            THEN Part("demux")' = <<next>> ELSE Part("demux")' = <<>>
<1> Items /\ Hands /\ next \in Nat \ {0} /\ Media \in Seq({"video", "audio"})
  BY TranscodeAssumption DEF IInv, Types, TypeOK, Items
<1>1. next \in Positions
  BY DEF ReadPacket, Positions
<1>2. hand["demux"] = <<>>
  BY DEF ReadPacket, Reads, Hands, Stages, Busy
<1>3. UNCHANGED <<queue, held, output>> /\ next' = next + 1
  BY DEF ReadPacket, NotDemux, queueVars, muxVars
<1>4. /\ \A r \in Stages \ {"demux"} : hand'[r] = hand[r]
      /\ hand'["demux"] = IF Media[next] = "video" \/ HasAudio
                          THEN <<next>> ELSE <<>>
  BY <1>2 DEF ReadPacket, Items, Stages
<1>5. Rest({"demux"})
  BY <1>3, <1>4 DEF Rest, Part, Held, InQueue
<1>6. Held("demux") = <<>> /\ InQueue("demux") = <<>>
      /\ Held("demux")' = <<>> /\ InQueue("demux")' = <<>>
  BY DEF Held, InQueue, Workers
<1>7. \A a \in Seq(Positions) : (a \o <<>>) \o <<>> = a
  BY ConcatEmptySeq
<1>8. Part("demux") = <<>> /\ Part("demux")' = hand'["demux"]
  <2>1. <<>> \in Seq(Positions) /\ <<next>> \in Seq(Positions)
    BY <1>1, EmptySeq
  <2>2. hand'["demux"] \in Seq(Positions)
    BY <1>4, <2>1
  <2>3. QED
    BY <1>2, <1>6, <1>7, <2>1, <2>2 DEF Part
<1>9. QED
  BY <1>1, <1>3, <1>4, <1>5, <1>8

(* Sequences that change hands.                                            *)
LEMMA Regroup ==
  \A S : \A a, b, c \in Seq(S) : (a \o b) \o c = a \o (b \o c)
BY ConcatAssociative

LEMMA Convey ==
  ASSUME NEW S, NEW h \in Seq(S), NEW q \in Seq(S), q # <<>>,
         NEW p, p = Append(h, Head(q))
  PROVE  /\ (<<>> \o p) \o Tail(q) = (<<>> \o h) \o q
         /\ (<<Head(p)>> \o Tail(p)) \o Tail(q) = (<<>> \o h) \o q
<1> DEFINE e == <<Head(q)>>
           rest == Tail(q)
<1>1. Head(q) \in S /\ rest \in Seq(S) /\ e \o rest = q /\ e \in Seq(S)
  BY FrontAndRest
<1>2. p \in Seq(S) /\ p # <<>> /\ p = h \o e
  BY <1>1, AppendProperties, AppendIsConcat
<1>3. <<Head(p)>> \o Tail(p) = p
  BY <1>2, FrontAndRest
<1> HIDE DEF e, rest
<1>4. (h \o e) \o rest = h \o (e \o rest)
  <2>1. e \in Seq(S) /\ rest \in Seq(S)
    BY <1>1
  <2>2. QED
    BY SMTT(30), <2>1, Regroup
<1>5. <<>> \o p = p /\ <<>> \o h = h
  BY <1>2, ConcatEmptySeq
<1>6. p \o rest = h \o q
  BY <1>1, <1>2, <1>4
<1>7. QED
  BY <1>3, <1>5, <1>6 DEF rest

(* A worker converts an item, keeps it or fails, or flushes its codec.     *)
LEMMA WorkFlow ==
  ASSUME IInv, NEW s \in Workers, Convert(s) \/ Flush(s)
  PROVE  /\ UNCHANGED <<output, next>> /\ Rest({s})
         /\ hand'["demux"] = hand["demux"]
         /\ \/ Part(s)' = Part(s)
            \/ pc'[s] = "err" /\ \E a, b \in Seq(Positions), i \in Positions :
                 Part(s) = a \o (<<i>> \o b) /\ Part(s)' = a \o b
<1> Items /\ Hands /\ s \in Stages \ {"demux"} /\ InOf(s) \in Queues
    /\ pc \in [Stages -> StagePcs]
  BY Ways, Apart DEF IInv, Types, TypeOK, Items
<1>1. hand[s] = <<>> /\ UNCHANGED <<output, next>>
  BY DEF Convert, Flush, Hands, Busy, NotWorker, muxVars
<1>2. \A r \in Stages \ {s} : hand'[r] = hand[r] /\ Held(r)' = Held(r)
  BY DEF Convert, Flush, Held, Items
<1> hand'["demux"] = hand["demux"]
  BY <1>2 DEF Stages
<1> DEFINE h == held[s]
           q == queue[InOf(s)]
<1>3. h \in Seq(Positions) /\ q \in Seq(Positions)
        /\ Part(s) = (<<>> \o h) \o q
  BY <1>1 DEF Items, Part, Held, InQueue
<1>4. CASE Flush(s)
  <2>1. queue' = queue
    BY <1>4 DEF Flush, queueVars
  <2>2. \/ hand'[s] = h /\ held'[s] = <<>>
        \/ hand'[s] = <<>> /\ held'[s] = h
    BY <1>1, <1>4 DEF Flush, Items
  <2>3. \/ Part(s)' = (h \o <<>>) \o q
        \/ Part(s)' = (<<>> \o h) \o q
    BY <2>1, <2>2 DEF Part, Held, InQueue
  <2>4. h \o <<>> = <<>> \o h
    BY <1>3, ConcatEmptySeq
  <2>5. \A r \in Stages : InQueue(r)' = InQueue(r)
    BY <2>1 DEF InQueue
  <2>6. Rest({s})
    BY <1>2, <2>5 DEF Rest, Part
  <2> HIDE DEF h, q
  <2>7. Part(s)' = Part(s)
    BY <1>3, <2>3, <2>4
  <2>8. QED
    BY <1>1, <2>6, <2>7
<1>5. CASE Convert(s)
  <2> DEFINE pictures == Append(h, Head(q))
  <2>1. q # <<>> /\ queue' = [queue EXCEPT ![InOf(s)] = Tail(q)]
    BY <1>5 DEF Convert, InQueue
  <2>2. queue'[InOf(s)] = Tail(q)
        /\ \A r \in Stages \ {s} : InQueue(r)' = InQueue(r)
    BY <2>1, Apart, Ways DEF InQueue, Items
  <2>3. Rest({s})
    BY <1>2, <2>2 DEF Rest, Part
  <2>4. \/ hand'[s] = <<Head(pictures)>> /\ held'[s] = Tail(pictures)
        \/ hand'[s] = <<>> /\ held'[s] = pictures
        \/ hand'[s] = <<>> /\ held'[s] = h /\ pc'[s] = "err"
    BY <1>1, <1>5 DEF Convert, InQueue, Items, Fail, Goto
  <2>5. Part(s)' = (hand'[s] \o held'[s]) \o Tail(q)
    BY <2>2 DEF Part, Held, InQueue
  <2>6. CASE hand'[s] = <<>> /\ held'[s] = h /\ pc'[s] = "err"
    <3>1. Head(q) \in Positions /\ Tail(q) \in Seq(Positions)
          /\ q = <<Head(q)>> \o Tail(q)
      BY <1>3, <2>1, FrontAndRest
    <3>2. <<>> \o h = h
      BY <1>3, ConcatEmptySeq
    <3>3. Part(s) = h \o (<<Head(q)>> \o Tail(q)) /\ Part(s)' = h \o Tail(q)
      BY <1>3, <2>5, <2>6, <3>1, <3>2
    <3> HIDE DEF h, q
    <3>4. QED
      BY <1>1, <1>3, <2>3, <2>6, <3>1, <3>3
  <2>7. CASE \/ hand'[s] = <<Head(pictures)>> /\ held'[s] = Tail(pictures)
             \/ hand'[s] = <<>> /\ held'[s] = pictures
    <3>1. /\ (<<>> \o pictures) \o Tail(q) = (<<>> \o h) \o q
          /\ (<<Head(pictures)>> \o Tail(pictures)) \o Tail(q)
               = (<<>> \o h) \o q
      <4> HIDE DEF h, q, pictures
      <4>1. \A p : p = Append(h, Head(q)) =>
              /\ (<<>> \o p) \o Tail(q) = (<<>> \o h) \o q
              /\ (<<Head(p)>> \o Tail(p)) \o Tail(q) = (<<>> \o h) \o q
        BY <1>3, <2>1, Convey
      <4>2. QED
        BY <4>1 DEF pictures
    <3> HIDE DEF h, q, pictures
    <3>2. Part(s)' = Part(s)
      BY <1>3, <2>5, <2>7, <3>1
    <3>3. QED
      BY <1>1, <2>3, <3>2
  <2>8. QED
    BY <2>4, <2>6, <2>7
<1>6. QED
  BY <1>4, <1>5

(* A stage puts an item into a queue: its consumer has it.                 *)
LEMMA PushFlow ==
  ASSUME IInv, NEW s \in Producers, Pushed(s)
  PROVE  \E i \in Positions :
           /\ i = Head(hand[s]) /\ ~closed[OutOf(s, i)]
           /\ Part(s) = <<i>> \o Part(s)'
           /\ Part(To(s, i))' = Append(Part(To(s, i)), i)
           /\ Rest({s, To(s, i)}) /\ UNCHANGED <<output, next>>
<1> Items /\ s \in Stages /\ hand[s] # <<>>
  BY Ways DEF IInv, Types, TypeOK, Items, Pushed
<1> hand[s] \in Seq(Positions)
  BY DEF Items
<1>0. PICK i \in Positions : i = Head(hand[s])
  BY FrontAndRest
<1>1. Tail(hand[s]) \in Seq(Positions) /\ hand[s] = <<i>> \o Tail(hand[s])
  BY <1>0, FrontAndRest
<1> DEFINE q == OutOf(s, i)
           t == To(s, i)
<1>2. t \in Stages \ {"demux", s} /\ InOf(t) = q /\ q \in Queues
      /\ \A r \in Stages \ {"demux", t} : InOf(r) # q
  BY Routes, Ways
<1>3. /\ ~closed[q] /\ queue' = [queue EXCEPT ![q] = Append(queue[q], i)]
      /\ hand' = [hand EXCEPT ![s] = Tail(hand[s])]
      /\ UNCHANGED <<held, output, next>>
  BY <1>0 DEF Pushed, muxVars
<1> HIDE DEF q, t
<1>4. /\ InQueue(t)' = Append(InQueue(t), i)
      /\ \A r \in Stages \ {t} : InQueue(r)' = InQueue(r)
  <2>1. queue'[q] = Append(queue[q], i)
        /\ \A r \in Queues \ {q} : queue'[r] = queue[r]
    BY <1>2, <1>3 DEF Items
  <2>2. InQueue(t)' = queue'[q] /\ InQueue(t) = queue[q]
    BY <1>2 DEF InQueue
  <2>3. \A r \in Stages \ {t} : InQueue(r)' = InQueue(r)
    BY <1>2, <2>1, Ways DEF InQueue
  <2>4. QED
    BY <2>1, <2>2, <2>3
<1>5. /\ hand'[s] = Tail(hand[s])
      /\ \A r \in Stages \ {s} : hand'[r] = hand[r]
      /\ \A r \in Stages : Held(r)' = Held(r)
  BY <1>3 DEF Items, Held
<1>6. Rest({s, t})
  BY <1>4, <1>5 DEF Rest, Part
<1>7. Part(t)' = Append(Part(t), i)
  <2>1. Part(t)' = (hand[t] \o Held(t)) \o Append(InQueue(t), i)
    BY <1>2, <1>4, <1>5 DEF Part
  <2>2. hand[t] \o Held(t) \in Seq(Positions) /\ InQueue(t) \in Seq(Positions)
    BY <1>2, PartType
  <2> DEFINE x == hand[t] \o Held(t)
             y == InQueue(t)
  <2>3. Part(t) = x \o y /\ Part(t)' = x \o Append(y, i)
    BY <2>1 DEF Part
  <2>4. x \in Seq(Positions) /\ y \in Seq(Positions)
    BY <2>2
  <2> HIDE DEF x, y
  <2>5. x \o Append(y, i) = Append(x \o y, i)
    BY <2>4, AppendMoves
  <2>6. QED
    BY <2>3, <2>5
<1>8. Part(s) = <<i>> \o Part(s)'
  <2> DEFINE e == <<i>>
             a == Tail(hand[s])
             b == Held(s)
             c == InQueue(s)
  <2>1. e \in Seq(Positions) /\ a \in Seq(Positions) /\ b \in Seq(Positions)
        /\ c \in Seq(Positions)
    BY <1>1, PartType
  <2>2. Part(s) = ((e \o a) \o b) \o c /\ Part(s)' = (a \o b) \o c
    BY <1>1, <1>2, <1>4, <1>5 DEF Part
  <2> HIDE DEF e, a, b, c
  <2> DEFINE ab == a \o b
  <2>3. ab \in Seq(Positions)
    BY <2>1, ConcatProperties
  <2>4. (e \o a) \o b = e \o ab
    BY SMTT(30), <2>1, Regroup
  <2> HIDE DEF ab
  <2>5. (e \o ab) \o c = e \o (ab \o c)
    <3>1. e \in Seq(Positions) /\ ab \in Seq(Positions) /\ c \in Seq(Positions)
      BY <2>1, <2>3
    <3>2. QED
      BY SMTT(30), <3>1, Regroup
  <2>6. QED
    BY <2>2, <2>4, <2>5 DEF e, ab
<1>9. i = Head(hand[s]) /\ ~closed[OutOf(s, i)]
      /\ Part(To(s, i))' = Append(Part(To(s, i)), i)
      /\ Rest({s, To(s, i)}) /\ UNCHANGED <<output, next>>
  BY <1>0, <1>3, <1>6, <1>7 DEF q, t
<1>10. QED
  BY <1>8, <1>9

(* A stage lets go of what it has in its hands.                            *)
LEMMA EmptyHands ==
  ASSUME Items, NEW s \in Stages, hand' = [hand EXCEPT ![s] = <<>>],
         UNCHANGED held, UNCHANGED queue
  PROVE  Part(s) = hand[s] \o Part(s)' /\ Rest({s})
<1> DEFINE a == hand[s]
           b == Held(s)
           c == InQueue(s)
<1>1. a \in Seq(Positions) /\ b \in Seq(Positions) /\ c \in Seq(Positions)
  BY PartType
<1>2. Part(s) = (a \o b) \o c /\ Part(s)' = (<<>> \o b) \o c
  BY DEF Part, Items, Held, InQueue
<1>3. Rest({s})
  BY DEF Rest, Part, Items, Held, InQueue
<1> HIDE DEF a, b, c
<1>4. (a \o b) \o c = a \o (b \o c)
  BY <1>1, Regroup
<1>5. <<>> \o b = b
  BY <1>1, ConcatEmptySeq
<1>6. QED
  BY <1>2, <1>3, <1>4, <1>5 DEF a

LEMMA DropFlow ==
  ASSUME IInv, NEW s \in Producers, Dropped(s)
  PROVE  /\ Part(s) = hand[s] \o Part(s)'
         /\ Rest({s}) /\ UNCHANGED <<output, next>>
<1> Items /\ s \in Stages
  BY Ways DEF IInv, Types, TypeOK, Items
<1>1. /\ hand' = [hand EXCEPT ![s] = <<>>]
      /\ UNCHANGED <<held, queue, output, next>>
  BY DEF Dropped, queueVars, NotWorker, muxVars
<1>2. QED
  BY <1>1, EmptyHands

LEMMA TakeFlow ==
  ASSUME IInv, NEW s \in Writers, Take(s)
  PROVE  Rest({}) /\ UNCHANGED <<output, next>>
<1> Items /\ Hands /\ s \in Stages \ {"demux"} /\ s \notin Workers
  BY Ways, Apart DEF IInv, Types, TypeOK, Items, Writers, Workers
<1> DEFINE q == queue[InOf(s)]
<1>1. /\ q # <<>> /\ queue' = [queue EXCEPT ![InOf(s)] = Tail(q)]
      /\ hand' = [hand EXCEPT ![s] = <<Head(q)>>]
      /\ UNCHANGED <<held, output, next>> /\ hand[s] = <<>>
  BY DEF Take, InQueue, NotWriter, Hands, Busy
<1>2. /\ q \in Seq(Positions) /\ <<Head(q)>> \in Seq(Positions)
      /\ <<Head(q)>> \o Tail(q) = q /\ InOf(s) \in Queues
  BY <1>1, Ways, FrontAndRest DEF Items
<1>3. Rest({s})
  BY <1>1, Apart, Ways DEF Rest, Part, Items, Held, InQueue
<1>4. Part(s) = (<<>> \o <<>>) \o q
        /\ Part(s)' = (<<Head(q)>> \o <<>>) \o Tail(q)
  BY <1>1, <1>2 DEF Part, Items, Held, InQueue
<1> HIDE DEF q
<1>5. <<Head(q)>> \o <<>> = <<Head(q)>> /\ (<<>> \o <<>>) \o q = q
  BY <1>2, EmptySeq, ConcatEmptySeq
<1>6. Part(s)' = Part(s)
  BY <1>2, <1>4, <1>5
<1>7. QED
  BY <1>1, <1>3, <1>6 DEF Rest

LEMMA WriteFlow ==
  ASSUME IInv, NEW s \in Writers, Write(s)
  PROVE  /\ hand[s] \in Seq(Positions) /\ Len(hand[s]) = 1
         /\ Part(s) = hand[s] \o Part(s)'
         /\ Rest({s}) /\ UNCHANGED next
<1> Items /\ Hands /\ s \in Stages
  BY Ways DEF IInv, Types, TypeOK, Items
<1>1. /\ hand' = [hand EXCEPT ![s] = <<>>] /\ UNCHANGED <<held, queue, next>>
  BY DEF Write, NotWriter
<1>2. Len(hand[s]) = 1
  BY DEF Write, Hands
<1>3. QED
  BY <1>1, <1>2, EmptyHands DEF Items

-----------------------------------------------------------------------------
(* What is of one stream stays of one stream.                              *)
LEMMA AllParts ==
  ASSUME NEW t, NEW a \in Seq(Positions), NEW b \in Seq(Positions)
  PROVE  All(t, a \o b) <=> All(t, a) /\ All(t, b)
<1>1. /\ Len(a \o b) = Len(a) + Len(b) /\ Len(a) \in Nat /\ Len(b) \in Nat
      /\ \A i \in 1 .. Len(a) + Len(b) :
           (a \o b)[i] = IF i <= Len(a) THEN a[i] ELSE b[i - Len(a)]
  BY ConcatProperties, LenProperties
<1>2. ASSUME All(t, a \o b) PROVE All(t, a)
  <2> SUFFICES ASSUME NEW i \in 1 .. Len(a) PROVE Media[a[i]] = t
    BY DEF All
  <2>1. i \in 1 .. Len(a) + Len(b) /\ (a \o b)[i] = a[i]
    BY <1>1
  <2>2. QED
    BY <1>1, <1>2, <2>1 DEF All
<1>3. ASSUME All(t, a \o b) PROVE All(t, b)
  <2> SUFFICES ASSUME NEW i \in 1 .. Len(b) PROVE Media[b[i]] = t
    BY DEF All
  <2>1. i + Len(a) \in 1 .. Len(a) + Len(b) /\ (a \o b)[i + Len(a)] = b[i]
    BY <1>1
  <2>2. QED
    BY <1>1, <1>3, <2>1 DEF All
<1>4. ASSUME All(t, a), All(t, b), NEW i \in 1 .. Len(a \o b)
      PROVE  Media[(a \o b)[i]] = t
  <2>1. CASE i <= Len(a)
    <3>1. i \in 1 .. Len(a) /\ (a \o b)[i] = a[i]
      BY <1>1, <2>1
    <3>2. QED
      BY <1>4, <3>1 DEF All
  <2>2. CASE i > Len(a)
    <3>1. i - Len(a) \in 1 .. Len(b) /\ (a \o b)[i] = b[i - Len(a)]
      BY <1>1, <2>2
    <3>2. QED
      BY <1>4, <3>1 DEF All
  <2>3. QED
    BY <1>1, <2>1, <2>2
<1>5. QED
  BY <1>2, <1>3, <1>4 DEF All

LEMMA AllOne ==
  ASSUME NEW t, NEW i
  PROVE  All(t, <<i>>) <=> Media[i] = t
BY DEF All

LEMMA AllEmpty ==
  ASSUME NEW t
  PROVE  All(t, <<>>)
BY EmptySeq DEF All

LEMMA KindedStep ==
  ASSUME IInv, [Next]_vars
  PROVE  Kinded'
<1> Items /\ Items' /\ Kinded /\ Media \in Seq({"video", "audio"})
  BY ItemsStep, TranscodeAssumption DEF IInv, Types, TypeOK, Items
<1> DEFINE V == Workers \cup {"mux"}
<1>1. ASSUME Rest({}), UNCHANGED output PROVE Kinded'
  BY <1>1 DEF Kinded, Rest, Workers, Stages
<1>2. ASSUME NEW s \in V, Rest({s}), UNCHANGED output,
             All("video", Part(s)')
      PROVE  Kinded'
  BY <1>2 DEF Kinded, Rest, Workers, Stages
<1>3. CASE ReadPacket
  BY <1>3, ReadFlow DEF Kinded, Rest, Workers, Stages
<1>4. ASSUME NEW s \in Workers, Convert(s) \/ Flush(s) PROVE Kinded'
  <2>1. All("video", Part(s)) /\ Rest({s}) /\ UNCHANGED output
    BY <1>4, WorkFlow DEF Kinded
  <2>2. CASE Part(s)' = Part(s)
    BY <1>2, <2>1, <2>2
  <2>3. CASE Part(s)' # Part(s)
    <3>1. PICK a, b \in Seq(Positions), i \in Positions :
            Part(s) = a \o (<<i>> \o b) /\ Part(s)' = a \o b
      BY <1>4, <2>3, WorkFlow
    <3> DEFINE e == <<i>>
               c == e \o b
    <3>2. e \in Seq(Positions) /\ c \in Seq(Positions)
      BY ConcatProperties
    <3>3. All("video", a) /\ All("video", b)
      <4>1. All("video", a \o c)
        BY <2>1, <3>1
      <4> HIDE DEF c, e
      <4>2. All("video", a) /\ All("video", c)
        BY <3>2, <4>1, AllParts
      <4>3. QED
        BY <3>2, <4>2, AllParts DEF c
    <3>4. QED
      BY ZenonT(30), <1>2, <2>1, <3>1, <3>3, AllParts
  <2>4. QED
    BY <2>2, <2>3
<1>5. ASSUME NEW s \in Producers, Pushed(s) PROVE Kinded'
  <2>1. PICK i \in Positions :
          /\ Part(s) = <<i>> \o Part(s)'
          /\ Part(To(s, i))' = Append(Part(To(s, i)), i)
          /\ Rest({s, To(s, i)}) /\ UNCHANGED <<output, next>>
    BY <1>5, PushFlow
  <2>2. s \in Stages /\ <<i>> \in Seq(Positions) /\ Part(s)' \in Seq(Positions)
    BY Ways, PartTypeAfter
  <2>3. s # "demux" => All("video", Part(s)') /\ Media[i] = "video"
    <3> SUFFICES ASSUME s # "demux"
                 PROVE All("video", Part(s)') /\ Media[i] = "video"
      OBVIOUS
    <3>1. All("video", <<i>> \o Part(s)')
      BY <2>1 DEF Kinded, Producers
    <3>2. QED
      BY <2>2, <3>1, AllParts, AllOne
  <2> DEFINE t == To(s, i)
  <2>4. t \in Stages \ {"demux", s}
    BY Routes
  <2>5. IF t = "audio" THEN Media[i] = "audio"
        ELSE t \in V /\ Media[i] = "video"
    <3>1. Media[i] \in {"video", "audio"}
      BY DEF Positions
    <3>2. QED
      BY <2>3, <3>1 DEF To, Producers, Workers
  <2> HIDE DEF t
  <2>6. Part(t) \in Seq(Positions) /\ Part(t)' = Part(t) \o <<i>>
    BY <2>1, <2>4, PartType, AppendIsConcat DEF t
  <2>7. \A k : All(k, Part(t)) /\ Media[i] = k => All(k, Part(t)')
    BY ZenonT(30), <2>2, <2>6, AllParts, AllOne
  <2>8. \A r \in Stages \ {s, t} : Part(r)' = Part(r)
    BY <2>1 DEF Rest, t
  <2>9. ASSUME NEW r \in V PROVE All("video", Part(r)')
    <3>1. r \in Stages /\ r # "demux" /\ All("video", Part(r)) /\ r # "audio"
      BY DEF Kinded, Workers, Stages
    <3>2. CASE r = s
      BY <2>3, <3>1, <3>2
    <3>3. CASE r = t
      BY <2>5, <2>7, <3>1, <3>3
    <3>4. CASE r # s /\ r # t
      BY <2>8, <3>1, <3>4
    <3>5. QED
      BY <3>2, <3>3, <3>4
  <2>10. All("audio", Part("audio")')
    <3>1. "audio" \in Stages /\ s # "audio" /\ All("audio", Part("audio"))
      BY DEF Stages, Producers, Workers, Kinded
    <3>2. CASE t = "audio"
      BY <2>5, <2>7, <3>1, <3>2
    <3>3. CASE t # "audio"
      BY <2>8, <3>1, <3>3
    <3>4. QED
      BY <3>2, <3>3
  <2>11. QED
    BY <2>1, <2>9, <2>10 DEF Kinded
<1>6. ASSUME NEW s \in Producers, Dropped(s) PROVE Kinded'
  <2>1. Part(s) = hand[s] \o Part(s)' /\ Rest({s}) /\ UNCHANGED output
    BY <1>6, DropFlow
  <2>2. s \in Stages /\ hand[s] \in Seq(Positions)
          /\ Part(s)' \in Seq(Positions)
    BY Ways, PartType, PartTypeAfter
  <2>3. CASE s = "demux"
    BY <2>1, <2>3 DEF Kinded, Rest, Workers, Stages
  <2>4. CASE s # "demux"
    <3>1. All("video", Part(s)')
      <4>1. All("video", hand[s] \o Part(s)')
        BY <2>1, <2>4 DEF Kinded, Producers
      <4>2. QED
        BY <2>2, <4>1, AllParts
    <3>2. QED
      BY <1>2, <2>1, <2>4, <3>1 DEF Producers
  <2>5. QED
    BY <2>3, <2>4
<1>7. ASSUME NEW s \in Writers, Write(s) PROVE Kinded'
  <2>1. Part(s) = hand[s] \o Part(s)' /\ Rest({s})
    BY <1>7, WriteFlow
  <2>2. s \in Stages /\ hand[s] \in Seq(Positions)
          /\ Part(s)' \in Seq(Positions)
    BY Ways, PartType, PartTypeAfter
  <2>3. \A k : All(k, Part(s)) => All(k, Part(s)') /\ All(k, hand[s])
    BY <2>1, <2>2, AllParts
  <2>4. All("audio", output'[1])
    <3>1. CASE UNCHANGED output
      BY <3>1 DEF Kinded
    <3>2. CASE StreamOf(s) # 1
      BY <1>7, <3>2 DEF Kinded, Write, WritePacket, Items
    <3>3. CASE StreamOf(s) = 1 /\ output' # output
      <4>1. s = "audio" /\ output'[1] = output[1] \o hand[s]
        BY <1>7, <3>3 DEF Write, WritePacket, StreamOf, Items, Writers
      <4>2. output[1] \in Seq(Positions) /\ All("audio", output[1])
            /\ All("audio", hand[s])
        BY <2>3, <4>1 DEF Kinded, Items
      <4>3. QED
        BY <2>2, <4>1, <4>2, AllParts
    <3>4. QED
      BY <3>1, <3>2, <3>3
  <2>5. QED
    BY <2>1, <2>3, <2>4 DEF Kinded, Rest, Writers, Workers, Stages
<1>8. ASSUME NEW s \in Writers, Take(s) PROVE Kinded'
  BY <1>1, <1>8, TakeFlow
<1>9. QED
  BY <1>1, <1>3, <1>4, <1>5, <1>6, <1>7, <1>8, Steps, StillFlow
     DEF Demux, Produces, Writer

-----------------------------------------------------------------------------
(* The frames that are encoded are counted once each.                      *)
Encoded == framesProcessed + Uncounted

LEMMA CountPush ==
  ASSUME IInv, Pushed("encode")
  PROVE  Encoded' = Encoded + 1 /\ framesProcessed' \in Nat
<1> framesProcessed \in Nat /\ pc \in [Stages -> StagePcs]
    /\ pc["encode"] \in Places("encode") /\ "encode" \in Stages
  BY DEF IInv, Types, TypeOK, Hands, Stages
<1>1. pc["encode"] \in {"push", "skip", "drain"}
      /\ framesProcessed' = framesProcessed + Counted("encode")
  BY DEF Pushed
<1>2. CASE pc["encode"] = "drain"
  BY <1>1, <1>2 DEF Pushed, Counted, Goto, Encoded, Uncounted
<1>3. CASE pc["encode"] # "drain"
  BY <1>1, <1>3 DEF Pushed, Counted, Goto, Encoded, Uncounted
<1>4. QED
  BY <1>2, <1>3

LEMMA CountStill ==
  ASSUME IInv, [Next]_vars, ~Pushed("encode")
  PROVE  /\ Encoded' = Encoded /\ framesProcessed' \in Nat
         /\ framesProcessed' >= framesProcessed
<1> USE DEF flagVars, resultVars, queueVars, stageVars, muxVars, clientVars
<1> framesProcessed \in Nat /\ pc \in [Stages -> StagePcs] /\ Hands
    /\ "encode" \in Stages
  BY DEF IInv, Types, TypeOK, Stages
<1>1. ASSUME UNCHANGED framesProcessed, NEW s \in Stages, pc[s] # "count",
             \E l \in StagePcs \ {"count"} : Goto(s, l)
      PROVE  Encoded' = Encoded
  BY <1>1 DEF Encoded, Uncounted, Goto
<1>2. ASSUME UNCHANGED framesProcessed, UNCHANGED pc
      PROVE  Encoded' = Encoded
  BY <1>2 DEF Encoded, Uncounted
<1>3. ASSUME NEW s \in Stages, NEW items
      PROVE  /\ {Exit(s), Return(s, items), Front(s, items, "pop"),
                 Front(s, items, "top")} \subseteq StagePcs \ {"count"}
             /\ {"pausing", "paused", "rerun", "err", "errState", "errClose",
                 "errResult", "gone", "close", "endSound", "push", "skip",
                 "drain", "write"} \subseteq StagePcs \ {"count"}
  BY SMTT(30), Leaving, PlacesAre DEF StagePcs
<1>4. ASSUME NEW s \in Stages, Loops(s)
      PROVE  Encoded' = Encoded /\ UNCHANGED framesProcessed
  <2>1. UNCHANGED framesProcessed /\ pc[s] # "count"
    BY <1>4 DEF Loops, Leave, PassGate, Starve, Pausing, Failing, SeePause,
       StorePaused, WakeUp, StoreRunning, Raise, StoreError, ErrorCloses,
       ErrorClosed, ErrorResult, Finish, Moves
  <2>2. CASE Leave(s) \/ PassGate(s) \/ Starve(s) \/ Pausing(s)
    <3>1. \E l \in {Exit(s), Front(s, InQueue(s), "top"), "pausing", "paused",
                    "rerun", Front(s, InQueue(s), "pop")} : Goto(s, l)
      BY <2>2 DEF Leave, PassGate, Starve, Pausing, SeePause, StorePaused,
         WakeUp, StoreRunning, Moves
    <3>2. QED
      BY <1>1, <1>3, <2>1, <3>1
  <2>3. CASE Failing(s)
    <3>1. UNCHANGED pc \/ \E l \in Error \cup {"gone"} : Goto(s, l)
      BY <2>3 DEF Failing, Raise, StoreError, ErrorCloses, ErrorClosed,
         ErrorResult, Finish, Moves, Error
    <3>2. QED
      BY <1>1, <1>2, <1>3, <2>1, <3>1 DEF Error
  <2>4. QED
    BY <1>4, <2>1, <2>2, <2>3 DEF Loops
<1>5. ASSUME Demux PROVE Encoded' = Encoded /\ UNCHANGED framesProcessed
  <2>1. \E l \in {Return("demux", InQueue("demux")), "err", "push", "close"} :
          Goto("demux", l)
    BY <1>5 DEF Demux, OpenInput, ReadPacket, ReadEnd, Again, Fail
  <2>2. UNCHANGED framesProcessed /\ pc["demux"] # "count"
          /\ "demux" \in Stages
    BY <1>5 DEF Demux, OpenInput, ReadPacket, ReadEnd, NotDemux, Reads, Stages
  <2>3. QED
    BY <1>1, <1>3, <2>1, <2>2
<1>6. ASSUME NEW s \in Workers, Convert(s) \/ Flush(s)
      PROVE  Encoded' = Encoded /\ UNCHANGED framesProcessed
  <2>1. \E l \in {Return(s, Tail(InQueue(s))), "err", "push", "skip", "drain",
                  "close"} : Goto(s, l)
    BY <1>6 DEF Convert, Flush, Fail
  <2>2. UNCHANGED framesProcessed /\ pc[s] # "count" /\ s \in Stages
    BY <1>6, Ways DEF Convert, Flush, NotWorker
  <2>3. QED
    BY <1>1, <1>3, <2>1, <2>2
<1>7. ASSUME NEW s \in Producers, Produces(s)
      PROVE  Encoded' = Encoded /\ UNCHANGED framesProcessed
  <2>1. s \in Stages /\ pc[s] # "count"
    BY <1>7, Ways DEF Produces, Pushed, Dropped, Close
  <2>2. CASE Pushed(s)
    <3>1. s # "encode" /\ UNCHANGED framesProcessed
      <4>1. s # "encode"
        BY <2>2
      <4>2. framesProcessed' = framesProcessed + 0
        BY <2>2, <4>1 DEF Pushed, Counted
      <4>3. QED
        BY <4>1, <4>2
    <3>2. UNCHANGED pc
            \/ \E l \in {Return(s, InQueue(s)), "close"} : Goto(s, l)
      BY <2>2, <3>1 DEF Pushed, Again
    <3>3. QED
      BY <1>1, <1>2, <1>3, <2>1, <3>1, <3>2
  <2>3. CASE Dropped(s) \/ Close(s)
    <3>1. UNCHANGED framesProcessed
      BY <2>3 DEF Dropped, Close, NotWorker
    <3>2. \E l \in {Return(s, InQueue(s)), Exit(s), "close", "gone",
            "endSound"} :
            Goto(s, l)
      BY <2>3 DEF Dropped, Close, Again
    <3>3. QED
      BY <1>1, <1>3, <2>1, <3>1, <3>2
  <2>4. QED
    BY <1>7, <2>2, <2>3 DEF Produces
<1>8. ASSUME Count
      PROVE Encoded' = Encoded /\ framesProcessed' = framesProcessed + 1
  <2>1. Return("encode", InQueue("encode")) # "count"
    BY <1>3
  <2>2. pc["encode"] = "count" /\ pc'["encode"] # "count"
        /\ framesProcessed' = framesProcessed + 1
    BY <1>8, <2>1 DEF Count, Again, Goto
  <2>3. QED
    BY <2>2 DEF Encoded, Uncounted
<1>9. ASSUME NEW s \in Writers, Writer(s)
      PROVE  Encoded' = Encoded /\ UNCHANGED framesProcessed
  <2>1. \E l \in {Return(s, InQueue(s)), "err", "write"} : Goto(s, l)
    BY <1>9 DEF Writer, Take, Write, Again, Fail
  <2>2. UNCHANGED framesProcessed /\ pc[s] # "count" /\ s \in Stages
    BY <1>9, Ways DEF Writer, Take, Write
  <2>3. QED
    BY <1>1, <1>3, <2>1, <2>2
<1>10. ASSUME MuxEnd PROVE Encoded' = Encoded /\ UNCHANGED framesProcessed
  <2>1. \E l \in MuxOut \cup {"err", "gone"} : Goto("mux", l)
    BY <1>10 DEF MuxEnd, Finalize, CloseMuxer, Decide, StoreCompleted,
       CleanCheckpoint, Complete, Finish, Moves, Fail, MuxOut
  <2>2. UNCHANGED framesProcessed /\ pc["mux"] # "count" /\ "mux" \in Stages
    BY <1>10 DEF MuxEnd, Finalize, CloseMuxer, Decide, StoreCompleted,
       CleanCheckpoint, Complete, Finish, Moves, Stages
  <2>3. MuxOut \cup {"err", "gone"} \subseteq StagePcs \ {"count"}
    BY DEF MuxOut, StagePcs
  <2>4. QED
    BY <1>1, <2>1, <2>2, <2>3
<1>11. CASE Launch
  <2>1. pc["encode"] = "none" /\ UNCHANGED framesProcessed
    BY <1>11 DEF Launch, IInv, Launched, Setup, Fresh, Stages
  <2>2. pc'["encode"] = Return("encode", InQueue("encode"))
    BY <1>11 DEF Launch
  <2>3. QED
    BY <1>3, <2>1, <2>2 DEF Encoded, Uncounted
<1>12. CASE StartReset
  <2>1. framesProcessed = 0
    BY <1>12 DEF StartReset, IInv, Launched, Setup, Fresh
  <2>2. QED
    BY <1>2, <1>12, <2>1 DEF StartReset
<1>13. CASE (Runner /\ ~Launch /\ ~StartReset) \/ SpuriousWakeUp \/ User
            \/ UNCHANGED vars
  BY <1>2, <1>13 DEF Runner, Configure, StartMuxer, Wait, SpuriousWakeUp,
     User, Pause, Resume, Cancel, Cancelling, CancelResumes, CancelCloses,
     CancelDone, NotUi, vars
<1>14. QED
  BY <1>4, <1>5, <1>6, <1>7, <1>8, <1>9, <1>10, <1>11, <1>12, <1>13, Steps
     DEF Runner

-----------------------------------------------------------------------------
(* The numbers.                                                            *)
LEMMA TroublesGrow ==
  ASSUME IInv, [Next]_vars
  PROVE  /\ troubles \subseteq troubles'
         /\ UNCHANGED troubles \/ \E kind : Trouble(kind)
<1>1. UNCHANGED troubles \/ \E kind : Trouble(kind)
  <2>1. ASSUME NEW s \in Stages, Loops(s)
        PROVE  UNCHANGED troubles \/ \E kind : Trouble(kind)
    BY <2>1 DEF Loops, Leave, PassGate, Starve, Pausing, Failing, SeePause,
       StorePaused, WakeUp, StoreRunning, Raise, StoreError, ErrorCloses,
       ErrorClosed, ErrorResult, Finish, Moves, NoTrouble
  <2>2. CASE Demux
    BY <2>2 DEF Demux, OpenInput, ReadPacket, ReadEnd, NoTrouble
  <2>3. ASSUME NEW s \in Workers, Convert(s) \/ Flush(s)
        PROVE  UNCHANGED troubles \/ \E kind : Trouble(kind)
    BY <2>3 DEF Convert, Flush, NoTrouble
  <2>4. ASSUME NEW s \in Producers, Produces(s)
        PROVE  UNCHANGED troubles \/ \E kind : Trouble(kind)
    BY <2>4 DEF Produces, Pushed, Dropped, Close, NoTrouble
  <2>5. CASE Count \/ MuxEnd
    BY <2>5 DEF Count, MuxEnd, Finalize, CloseMuxer, Decide, StoreCompleted,
       CleanCheckpoint, Complete, Finish, Moves, NoTrouble
  <2>6. ASSUME NEW s \in Writers, Writer(s)
        PROVE  UNCHANGED troubles \/ \E kind : Trouble(kind)
    BY <2>6 DEF Writer, Take, Write, NoTrouble
  <2>7. CASE Runner \/ SpuriousWakeUp
    BY <2>7 DEF Runner, Configure, StartReset, StartMuxer, Launch, Wait,
       SpuriousWakeUp, NoTrouble
  <2>8. CASE User \/ UNCHANGED vars
    BY <2>8 DEF User, Pause, Resume, Cancel, Cancelling, CancelResumes,
       CancelCloses, CancelDone, vars
  <2>9. QED
    BY <2>1, <2>2, <2>3, <2>4, <2>5, <2>6, <2>7, <2>8, Steps
<1>2. QED
  BY <1>1 DEF Trouble

LEMMA Lengths ==
  ASSUME NEW a \in Seq(Positions), NEW b \in Seq(Positions),
         NEW i \in Positions
  PROVE  /\ Len(a) \in Nat /\ Len(a \o b) = Len(a) + Len(b)
         /\ Len(<<i>> \o a) = Len(a) + 1 /\ Len(Append(a, i)) = Len(a) + 1
         /\ Len(a \o (<<i>> \o b)) = Len(a) + Len(b) + 1
<1> DEFINE e == <<i>>
           c == e \o b
<1>1. e \in Seq(Positions) /\ Len(e) = 1
  OBVIOUS
<1>2. c \in Seq(Positions) /\ Len(c) = 1 + Len(b) /\ Len(e \o a) = 1 + Len(a)
  BY <1>1, ConcatProperties
<1> HIDE DEF e, c
<1>3. Len(a \o c) = Len(a) + Len(c) /\ Len(a \o b) = Len(a) + Len(b)
  BY <1>2, ConcatProperties
<1>4. Len(a) \in Nat /\ Len(b) \in Nat /\ Len(Append(a, i)) = Len(a) + 1
  BY LenProperties, AppendProperties
<1>5. QED
  BY <1>2, <1>3, <1>4 DEF c, e

(* What is written to a file that more of a stream follows.                *)
LEMMA SiftMore ==
  ASSUME NEW t, NEW a \in Seq(Positions), NEW b \in Seq(Positions), All(t, b)
  PROVE  /\ OfStream(t, a \o b) = OfStream(t, a) \o b
         /\ Len(OfStream(t, a \o b)) = Len(OfStream(t, a)) + Len(b)
<1>1. OfStream(t, a) \in Seq(Positions) /\ OfStream(t, b) = b
  BY SiftType, SiftAll
<1>2. OfStream(t, a \o b) = OfStream(t, a) \o b
  <2>1. OfStream(t, a \o b) = OfStream(t, a) \o OfStream(t, b)
    BY SiftConcat
  <2>2. QED
    BY <1>1, <2>1
<1> DEFINE x == OfStream(t, a)
<1> HIDE DEF x
<1>3. Len(x \o b) = Len(x) + Len(b)
  BY <1>1, ConcatProperties DEF x
<1>4. QED
  BY <1>2, <1>3 DEF x

LEMMA SiftSame ==
  ASSUME NEW t, NEW u, u # t,
         NEW a \in Seq(Positions), NEW b \in Seq(Positions), All(u, b)
  PROVE  OfStream(t, a \o b) = OfStream(t, a)
<1>1. OfStream(t, a) \in Seq(Positions) /\ OfStream(t, b) = <<>>
  BY SiftType, SiftNone
<1>2. OfStream(t, a \o b) = OfStream(t, a) \o <<>>
  BY ZenonT(30), <1>1, SiftConcat
<1>3. QED
  BY <1>1, <1>2, ConcatEmptySeq

LEMMA BacklogStep ==
  ASSUME IInv, [Next]_vars
  PROVE  Backlog'
<1> DEFINE L(s) == Len(Part(s))
<1> Items /\ Items'
  BY ItemsStep DEF IInv, Types, TypeOK, Items
<1>1. /\ Encoded \in Nat /\ next \in Nat \ {0}
      /\ \A s \in Stages : L(s) \in Nat
      /\ Encoded + L("encode") + L("vsr") + L("decode")
           + L("demux") <= next - 1
  <2>1. \A s \in Stages : L(s) \in Nat
    BY PartType, LenProperties
  <2>2. QED
    BY <2>1 DEF IInv, Types, TypeOK, Backlog, Encoded, Uncounted
<1>2. \A s \in Stages : L(s)' \in Nat
  BY PartTypeAfter, LenProperties
<1>3. Encoded' \in Nat
  BY SMTT(30), <1>1, CountStill, CountPush DEF Uncounted, Encoded
<1>4. {"encode", "vsr", "decode", "demux"} \subseteq Stages
  BY DEF Stages
<1>5. ASSUME next' \in Nat, next' >= next, Encoded' = Encoded,
             \A s \in {"encode", "vsr", "decode"} : L(s)' <= L(s),
             L("demux")' - L("demux") <= next' - next
      PROVE  Backlog'
  <2> HIDE DEF L
  <2>1. Encoded' + L("encode")' + L("vsr")' + L("decode")' + L("demux")'
          <= next' - 1
    BY <1>1, <1>2, <1>3, <1>4, <1>5
  <2>2. QED
    BY <2>1 DEF Backlog, Encoded, L
<1>6. ASSUME Rest({}), UNCHANGED next, ~Pushed("encode") PROVE Backlog'
  <2>1. \A s \in Stages : L(s)' = L(s)
    BY <1>6 DEF Rest
  <2>2. QED
    BY <1>1, <1>4, <1>5, <1>6, <2>1, CountStill
<1>7. ASSUME NEW s \in Stages, Rest({s}), L(s)' <= L(s), UNCHANGED next,
             ~Pushed("encode")
      PROVE  Backlog'
  <2>1. \A r \in Stages : L(r)' <= L(r)
    BY <1>1, <1>7 DEF Rest
  <2>2. QED
    BY <1>1, <1>2, <1>4, <1>5, <1>7, <2>1, CountStill
<1>8. ASSUME NEW s \in Producers, Pushed(s) PROVE Backlog'
  <2>1. PICK i \in Positions :
          /\ Part(s) = <<i>> \o Part(s)'
          /\ Part(To(s, i))' = Append(Part(To(s, i)), i)
          /\ Rest({s, To(s, i)}) /\ UNCHANGED <<output, next>>
    BY <1>8, PushFlow
  <2> DEFINE t == To(s, i)
  <2>2. t \in Stages /\ t # s /\ s \in Stages
    BY Routes, Ways
  <2>3. L(s) = L(s)' + 1
    <3>1. Part(s)' \in Seq(Positions)
      BY <2>2, PartTypeAfter
    <3>2. QED
      BY <2>1, <3>1, Lengths
  <2> HIDE DEF t
  <2>4. L(t)' = L(t) + 1
    <3>1. Part(t) \in Seq(Positions)
      BY <2>2, PartType
    <3>2. QED
      BY <2>1, <3>1, Lengths DEF t
  <2>5. \A r \in Stages \ {s, t} : L(r)' = L(r)
    BY <2>1 DEF Rest, t
  <2> HIDE DEF L
  <2>6. CASE s = "encode"
    <3>1. Encoded' = Encoded + 1
      BY <1>8, <2>6, CountPush
    <3>2. t = "mux"
      BY <2>6 DEF t, To
    <3>3. Encoded' + L("encode")' + L("vsr")' + L("decode")' + L("demux")'
            = Encoded + L("encode") + L("vsr") + L("decode") + L("demux")
      BY <1>1, <1>2, <1>3, <1>4, <2>3, <2>5, <2>6, <3>1, <3>2
    <3>4. QED
      BY <1>1, <2>1, <3>3 DEF Backlog, Encoded, L
  <2>7. CASE s # "encode"
    <3>1. Encoded' = Encoded
      <4>1. CASE ~Pushed("encode")
        BY <4>1, CountStill
      <4>2. CASE Pushed("encode")
        <5>1. L("encode")' = L("encode") \/ L("encode")' = L("encode") + 1
          BY <1>4, <2>4, <2>5, <2>7
        <5>2. PICK j \in Positions : Part("encode") = <<j>> \o Part("encode")'
          BY <4>2, PushFlow DEF Producers, Workers
        <5>3. L("encode") = L("encode")' + 1
          BY <1>4, <5>2, Lengths, PartTypeAfter DEF L
        <5>4. QED
          BY <1>1, <1>2, <1>4, <5>1, <5>3
      <4>3. QED
        BY <4>1, <4>2
    <3>2. <<s, t>> \in {<<"demux", "decode">>, <<"demux", "audio">>,
                        <<"decode", "vsr">>, <<"vsr", "encode">>}
      BY <2>7 DEF t, To, Producers, Workers
    <3>3. Encoded' + L("encode")' + L("vsr")' + L("decode")' + L("demux")'
            <= Encoded + L("encode") + L("vsr") + L("decode") + L("demux")
      <4>1. CASE s = "demux"
        BY <1>1, <1>2, <1>3, <1>4, <2>3, <2>4, <2>5, <3>1, <3>2, <4>1
      <4>2. CASE s = "decode"
        BY <1>1, <1>2, <1>3, <1>4, <2>3, <2>4, <2>5, <3>1, <3>2, <4>2
      <4>3. CASE s = "vsr"
        BY <1>1, <1>2, <1>3, <1>4, <2>3, <2>4, <2>5, <3>1, <3>2, <4>3
      <4>4. QED
        BY <3>2, <4>1, <4>2, <4>3
    <3>4. Encoded' + L("encode")' + L("vsr")' + L("decode")' + L("demux")'
            <= next' - 1
      <4>1. next' = next
        BY <2>1
      <4>2. QED
        BY <1>1, <1>2, <1>3, <1>4, <3>3, <4>1
    <3>5. QED
      BY <3>4 DEF Backlog, Encoded, L
  <2>8. QED
    BY <2>6, <2>7
<1> SUFFICES ASSUME \A s \in Producers : ~Pushed(s) PROVE Backlog'
  BY <1>8
<1> ~Pushed("encode") /\ Encoded' = Encoded
  BY CountStill DEF Producers, Workers
<1>9. CASE ReadPacket
  <2>1. /\ next' = next + 1 /\ Rest({"demux"}) /\ Part("demux") = <<>>
        /\ \/ Part("demux")' = <<next>>
           \/ Part("demux")' = <<>>
    BY <1>9, ReadFlow
  <2>2. L("demux")' <= 1 /\ L("demux") = 0
    <3>1. Len(<<next>>) = 1 /\ Len(<<>>) = 0
      BY EmptySeq
    <3>2. Len(Part("demux")') <= 1 /\ Len(Part("demux")) = 0
      <4>1. Len(Part("demux")) = 0
        BY <2>1, <3>1
      <4>2. Len(Part("demux")') = 1 \/ Len(Part("demux")') = 0
        BY <2>1, <3>1
      <4>3. QED
        BY <4>1, <4>2
    <3>3. QED
      BY <3>2
  <2>3. \A s \in {"encode", "vsr", "decode"} : L(s)' = L(s)
    BY <1>4, <2>1 DEF Rest
  <2>4. QED
    BY <1>1, <1>2, <1>4, <1>5, <2>1, <2>2, <2>3
<1>10. ASSUME NEW s \in Workers, Convert(s) \/ Flush(s) PROVE Backlog'
  <2>1. s \in Stages /\ Rest({s}) /\ UNCHANGED next
    BY <1>10, WorkFlow, Ways
  <2>2. L(s)' <= L(s)
    <3>1. CASE Part(s)' = Part(s)
      BY <1>1, <2>1, <3>1
    <3>2. CASE Part(s)' # Part(s)
      <4>1. PICK a, b \in Seq(Positions), i \in Positions :
               Part(s) = a \o (<<i>> \o b) /\ Part(s)' = a \o b
        BY <1>10, <3>2, WorkFlow
      <4>2. Len(a \o (<<i>> \o b)) = Len(a) + Len(b) + 1
            /\ Len(a \o b) = Len(a) + Len(b) /\ Len(a) \in Nat
                 /\ Len(b) \in Nat
        BY Lengths
      <4>3. QED
        BY <4>1, <4>2
    <3>3. QED
      BY <3>1, <3>2
  <2>3. QED
    BY <1>7, <2>1, <2>2
<1>11. ASSUME NEW s \in Producers, Dropped(s) PROVE Backlog'
  <2>1. s \in Stages /\ Rest({s}) /\ UNCHANGED next
        /\ Part(s) = hand[s] \o Part(s)'
    BY <1>11, DropFlow, Ways
  <2>2. hand[s] \in Seq(Positions) /\ Part(s)' \in Seq(Positions)
    BY <2>1, PartType, PartTypeAfter
  <2>3. L(s) = Len(hand[s]) + L(s)' /\ Len(hand[s]) \in Nat
    BY <2>1, <2>2, ConcatProperties, LenProperties
  <2>4. L(s)' <= L(s)
    BY <1>2, <2>1, <2>3
  <2>5. QED
    BY <1>7, <2>1, <2>4
<1>12. ASSUME NEW s \in Writers, Write(s) PROVE Backlog'
  <2>1. s \in Stages /\ Rest({s}) /\ UNCHANGED next
        /\ Part(s) = hand[s] \o Part(s)'
    BY <1>12, WriteFlow, Ways
  <2>2. hand[s] \in Seq(Positions) /\ Part(s)' \in Seq(Positions)
    BY <2>1, PartType, PartTypeAfter
  <2>3. L(s) = Len(hand[s]) + L(s)' /\ Len(hand[s]) \in Nat
    BY <2>1, <2>2, ConcatProperties, LenProperties
  <2>4. L(s)' <= L(s)
    BY <1>2, <2>1, <2>3
  <2>5. QED
    BY <1>7, <2>1, <2>4
<1>13. ASSUME NEW s \in Writers, Take(s) PROVE Backlog'
  BY <1>6, <1>13, TakeFlow
<1>14. QED
  BY <1>6, <1>9, <1>10, <1>11, <1>12, <1>13, Steps, StillFlow
     DEF Demux, Produces, Writer

(* A packet is written, or the muxer is closed, or a write has failed.     *)
LEMMA WriteSplit ==
  ASSUME IInv, NEW s \in Writers, Write(s)
  PROVE  \/ /\ output'[StreamOf(s)] = output[StreamOf(s)] \o hand[s]
            /\ output'[1 - StreamOf(s)] = output[1 - StreamOf(s)]
            /\ muxer # "closed"
         \/ /\ UNCHANGED output /\ (muxer' = "closed" <=> muxer = "closed")
            /\ muxer = "closed" \/ "write" \in troubles'
            /\ s = "mux" => pc'[s] = "err"
<1> output \in [{0, 1} -> Seq(Positions)] /\ StreamOf(s) \in {0, 1}
    /\ pc \in [Stages -> StagePcs] /\ s \in Stages
  BY Ways DEF IInv, Types, TypeOK, StreamOf
<1>1. CASE WritePacket(s)
  <2> DEFINE k == StreamOf(s)
  <2>1. /\ output' = [output EXCEPT ![k] = output[k] \o hand[s]]
        /\ muxer # "closed"
    BY <1>1 DEF WritePacket
  <2>2. k \in {0, 1} /\ 1 - k \in {0, 1} /\ 1 - k # k
    OBVIOUS
  <2> HIDE DEF k
  <2>3. output'[k] = output[k] \o hand[s] /\ output'[1 - k] = output[1 - k]
    BY <2>1, <2>2
  <2>4. QED
    BY <2>1, <2>3 DEF k
<1>2. CASE ~WritePacket(s)
  BY <1>2 DEF Write, Trouble, NoTrouble, Fail, Goto
<1>3. QED
  BY <1>1, <1>2

LEMMA CountingStep ==
  ASSUME IInv, [Next]_vars
  PROVE  Counting'
<1> USE DEF flagVars, resultVars, queueVars, stageVars, muxVars, clientVars
<1> Items /\ Items' /\ Kinded /\ Hands /\ Counting
  BY ItemsStep DEF IInv, Types, TypeOK, Items
<1> framesProcessed \in Nat /\ checkpoint \in Nat /\ framesProcessed' \in Nat
  BY CountStill, CountPush DEF IInv, Types, TypeOK
<1>1. checkpoint' <= framesProcessed'
  <2>1. CASE StartReset
    BY <2>1 DEF StartReset, IInv, Launched, Setup, Fresh
  <2>2. CASE UNCHANGED checkpoint /\ ~StartReset
    <3>1. framesProcessed' >= framesProcessed
      <4>1. CASE Pushed("encode")
        BY <4>1 DEF Pushed, Counted
      <4>2. QED
        BY <4>1, CountStill
    <3>2. QED
      BY <2>2, <3>1 DEF Counting
  <2>3. CASE checkpoint' # checkpoint
    <3>1. checkpoint' = 0 \/ checkpoint' = framesProcessed'
      <4>1. ASSUME NEW s \in Stages, Loops(s) PROVE UNCHANGED checkpoint
        BY <4>1 DEF Loops, Leave, PassGate, Starve, Pausing, Failing, SeePause,
           StorePaused, WakeUp, StoreRunning, Raise, StoreError, ErrorCloses,
           ErrorClosed, ErrorResult, Finish, Moves
      <4>2. CASE Demux
        BY <2>3, <4>2 DEF Demux, OpenInput, ReadPacket, ReadEnd, NotDemux
      <4>3. ASSUME NEW s \in Workers, Convert(s) \/ Flush(s)
            PROVE  UNCHANGED checkpoint
        BY <4>3 DEF Convert, Flush, NotWorker
      <4>4. ASSUME NEW s \in Producers, Produces(s) PROVE UNCHANGED checkpoint
        BY <4>4 DEF Produces, Pushed, Dropped, Close, NotWorker
      <4>5. CASE Count
        BY <2>3, <4>5 DEF Count
      <4>6. CASE MuxEnd
        BY <2>3, <4>6 DEF MuxEnd, Finalize, CloseMuxer, Decide, StoreCompleted,
           CleanCheckpoint, Complete, Finish, Moves
      <4>7. ASSUME NEW s \in Writers, Writer(s) PROVE UNCHANGED checkpoint
        BY <4>7 DEF Writer, Take, Write
      <4>8. CASE Runner \/ SpuriousWakeUp \/ User \/ UNCHANGED vars
        BY <2>3, <4>8 DEF Runner, Configure, StartReset, StartMuxer, Launch,
           Wait, SpuriousWakeUp, User, Pause, Resume, Cancel, Cancelling,
           CancelResumes, CancelCloses, CancelDone, NotUi, vars
      <4>9. QED
        BY <2>3, <4>1, <4>2, <4>3, <4>4, <4>5, <4>6, <4>7, <4>8, Steps
    <3>2. QED
      BY <3>1
  <2>4. QED
    BY <2>1, <2>2, <2>3
<1> DEFINE W == Len(OfStream("video", output[0]))
           M == Len(Part("mux"))
<1>2. "mux" \in Stages /\ "encode" \in Stages /\ "encode" \in Producers
  BY DEF Stages, Producers, Workers
<1>3. W \in Nat /\ M \in Nat /\ M' \in Nat
  BY <1>2, SiftType, PartType, PartTypeAfter, LenProperties DEF Items
<1>4. "write" \notin troubles' => Encoded = W + M
  BY TroublesGrow DEF Counting, Encoded
<1>5. ASSUME "write" \notin troubles' => Encoded' = W' + M'
      PROVE  Counting'
  BY <1>1, <1>5 DEF Counting, Encoded
<1>6. ASSUME UNCHANGED output, Part("mux")' = Part("mux"), ~Pushed("encode")
      PROVE  Counting'
  BY <1>4, <1>5, <1>6, CountStill
<1>7. CASE Pushed("encode")
  <2>1. PICK i \in Positions :
          /\ Part("encode") = <<i>> \o Part("encode")'
          /\ Part(To("encode", i))' = Append(Part(To("encode", i)), i)
          /\ UNCHANGED output
    BY <1>2, <1>7, PushFlow
  <2>2. To("encode", i) = "mux"
    BY DEF To
  <2>3. Part("mux") \in Seq(Positions)
    BY <1>2, PartType
  <2>4. Len(Append(Part("mux"), i)) = Len(Part("mux")) + 1
    BY <2>3, Lengths
  <2>5. M' = M + 1 /\ W' = W
    BY <2>1, <2>2, <2>4
  <2> HIDE DEF M, W
  <2>6. QED
    BY <1>3, <1>4, <1>5, <1>7, <2>5, CountPush
<1> SUFFICES ASSUME ~Pushed("encode") PROVE Counting'
  BY <1>7
<1> Encoded' = Encoded
  BY CountStill
<1>8. CASE ReadPacket
  BY <1>2, <1>6, <1>8, ReadFlow DEF Rest
<1>9. ASSUME NEW s \in Workers, Convert(s) \/ Flush(s) PROVE Counting'
  BY <1>2, <1>6, <1>9, WorkFlow DEF Rest, Workers
<1>10. ASSUME NEW s \in Producers, Pushed(s) PROVE Counting'
  <2>1. PICK i \in Positions :
          Rest({s, To(s, i)}) /\ UNCHANGED <<output, next>>
    BY <1>10, PushFlow
  <2>2. s # "encode"
    BY <1>10
  <2>3. To(s, i) # "mux" /\ s # "mux"
    BY <2>2 DEF To, Producers, Workers
  <2>4. QED
    BY <1>2, <1>6, <2>1, <2>3 DEF Rest
<1>11. ASSUME NEW s \in Producers, Dropped(s) PROVE Counting'
  BY <1>2, <1>6, <1>11, DropFlow DEF Rest, Producers, Workers
<1>12. ASSUME NEW s \in Writers, Write(s) PROVE Counting'
  <2>1. /\ hand[s] \in Seq(Positions) /\ Len(hand[s]) = 1
        /\ Part(s) = hand[s] \o Part(s)' /\ Rest({s})
    BY <1>12, WriteFlow
  <2>2. s \in Stages /\ Part(s)' \in Seq(Positions)
    BY Ways, PartTypeAfter
  <2>3. \A k : All(k, Part(s)) => All(k, hand[s])
    BY <2>1, <2>2, AllParts
  <2>4. output[0] \in Seq(Positions)
        /\ OfStream("video", output[0]) \in Seq(Positions)
    BY SiftType DEF Items
  <2>5. CASE s = "mux"
    <3>1. All("video", hand[s])
      BY <2>3, <2>5 DEF Kinded
    <3>2. CASE output'[0] = output[0] \o hand[s]
      <4>1. W' = W + 1
        <5>1. Len(OfStream("video", output[0] \o hand[s]))
                = Len(OfStream("video", output[0])) + Len(hand[s])
          BY <2>1, <2>4, <3>1, SiftMore
        <5>2. QED
          BY <2>1, <3>2, <5>1
      <4>2. Len(hand[s] \o Part(s)') = Len(hand[s]) + Len(Part(s)')
        BY <2>1, <2>2, ConcatProperties
      <4>3. M = 1 + M'
        BY <2>1, <2>5, <4>2
      <4> HIDE DEF M, W
      <4>4. QED
        BY <1>3, <1>4, <1>5, <4>1, <4>3
    <3>3. CASE muxer = "closed"
      <4>1. FALSE
        BY <1>12, <2>2, <2>5, <3>3 DEF Write, IInv, Launched, Fresh
      <4>2. QED
        BY <4>1
    <3>4. QED
      BY <1>5, <1>12, <2>5, <3>2, <3>3, WriteSplit DEF StreamOf
  <2>6. CASE s = "audio"
    <3>1. All("audio", hand[s])
      BY <2>3, <2>6 DEF Kinded
    <3>2. Part("mux")' = Part("mux")
      BY <1>2, <2>1, <2>6 DEF Rest
    <3>3. OfStream("video", output'[0]) = OfStream("video", output[0])
      <4>1. StreamOf(s) \in {0, 1}
        BY DEF StreamOf, IInv, Types, TypeOK
      <4>2. \/ output'[0] = output[0] \o hand[s]
            \/ output'[0] = output[0]
        <5>1. StreamOf(s) = 0 \/ 1 - StreamOf(s) = 0
          BY <4>1
        <5>2. QED
          BY <1>12, <5>1, WriteSplit
      <4>3. OfStream("video", output[0] \o hand[s])
              = OfStream("video", output[0])
        BY <2>1, <2>4, <3>1, SiftSame
      <4>4. QED
        BY <4>2, <4>3
    <3>4. QED
      BY <1>4, <1>5, <3>2, <3>3
  <2>7. QED
    BY <2>5, <2>6 DEF Writers
<1>13. ASSUME NEW s \in Writers, Take(s) PROVE Counting'
  BY <1>2, <1>6, <1>13, TakeFlow DEF Rest
<1>14. CASE Rest({}) /\ UNCHANGED output
  BY <1>2, <1>6, <1>14 DEF Rest
<1>15. QED
  BY <1>8, <1>9, <1>10, <1>11, <1>12, <1>13, <1>14, Steps, StillFlow
     DEF Demux, Produces, Writer

-----------------------------------------------------------------------------
(* What a step of a stage may do to the rest of the job.                   *)
StageStep(s) ==
  /\ \A r \in Stages \ {s} : pc'[r] = pc[r]
  /\ pc[s] \notin {"none", "gone"} /\ pc'[s] # "none"
  /\ UNCHANGED <<cancelRequested, pauseRequested, ui, uiState, audioStream>>
  /\ UNCHANGED runner \/ (runner = "asleep" /\ runner' = "wait")
  /\ Cancelled' = Cancelled
  /\ UNCHANGED errorFlag
       \/ (pc[s] = "err" /\ pc'[s] = "errState" /\ errorFlag')
  /\ \/ UNCHANGED state
     \/ state' \in {"Paused", "Running"}
     \/ pc[s] = "errState" /\ pc'[s] = "errClose" /\ state' = "Error"
     \/ s = "mux" /\ pc[s] = "complete" /\ pc'[s] = "clean"
          /\ state' = "Completed"
  /\ \/ UNCHANGED completionResult
     \/ pc[s] = "errResult" /\ pc'[s] = "gone" /\ completionResult' = "error"
     \/ s = "mux" /\ pc[s] = "notify" /\ pc'[s] = "gone"
          /\ completionResult' = "success"
  /\ \/ UNCHANGED muxer
     \/ muxer # "closed" /\ muxer' \in {"open", "header", "finalized"}
     \/ s = "mux" /\ pc[s] = "closeMux" /\ pc'[s] = "decide"
          /\ muxer' = "closed"
  /\ UNCHANGED closed \/ (pc[s] = "errClose" /\ CloseNext) \/ Close(s)
  /\ \/ UNCHANGED checkpoint
     \/ s = "encode" /\ pc[s] = "count" /\ checkpoint' = framesProcessed'
     \/ s = "mux" /\ pc[s] = "clean" /\ checkpoint' = 0

LEMMA StageSteps ==
  ASSUME IInv, NEW s \in Stages, Stage(s)
  PROVE  StageStep(s)
<1> USE DEF flagVars, resultVars, queueVars, stageVars, muxVars, clientVars
<1> /\ pc \in [Stages -> StagePcs] /\ Hands
    /\ muxer \in {"closed", "open", "header", "finalized"}
  BY DEF IInv, Types, TypeOK
<1>1. ASSUME NEW l \in StagePcs \ {"none"}, Goto(s, l)
      PROVE  /\ pc'[s] = l /\ pc'[s] # "none"
             /\ \A r \in Stages \ {s} : pc'[r] = pc[r]
  BY <1>1 DEF Goto
<1>2. ASSUME NEW items
      PROVE  {Exit(s), Return(s, items), Front(s, items, "pop"),
              Front(s, items, "top")} \subseteq StagePcs \ {"none"}
  BY Leaving, PlacesAre
<1>3. {"pausing", "paused", "rerun", "err", "errState", "errClose",
       "errResult", "gone", "close", "endSound", "push", "skip", "count",
       "drain", "write"} \cup MuxOut \subseteq StagePcs \ {"none"}
  BY DEF StagePcs, MuxOut
<1>4. \A kind : Trouble(kind) /\ kind # "cancel" => Cancelled' = Cancelled
  BY DEF Trouble, Cancelled
<1>5. NoTrouble => Cancelled' = Cancelled
  BY DEF NoTrouble, Cancelled
<1>6. CASE Leave(s) \/ PassGate(s) \/ Starve(s) \/ Pausing(s)
  <2>1. \E l \in {Exit(s), Front(s, InQueue(s), "top"), "pausing", "paused",
                  "rerun", Front(s, InQueue(s), "pop")} : Goto(s, l)
    BY <1>6 DEF Leave, PassGate, Starve, Pausing, SeePause, StorePaused,
       WakeUp, StoreRunning, Moves
  <2>2. PICK l \in StagePcs \ {"none"} : Goto(s, l)
    BY <1>2, <1>3, <2>1
  <2>3. Cancelled' = Cancelled
    BY <1>4, <1>5, <1>6 DEF Leave, PassGate, Starve, Pausing, SeePause,
       StorePaused, WakeUp, StoreRunning, Moves, NoTrouble
  <2>4. QED
    BY <1>1, <1>6, <2>2, <2>3 DEF Leave, PassGate, Starve, Pausing, SeePause,
       StorePaused, WakeUp, StoreRunning, Moves, NotStage, StageStep
<1>7. CASE Failing(s)
  <2>1. CASE ErrorCloses(s)
    BY <1>5, <2>1 DEF ErrorCloses, NoTrouble, StageStep, Hands, Cancelled
  <2>2. CASE ~ErrorCloses(s)
    <3>1. \E l \in {"errState", "errClose", "errResult", "gone"} : Goto(s, l)
      BY <1>7, <2>2 DEF Failing, Raise, StoreError, ErrorClosed, ErrorResult,
         Finish, Moves
    <3>2. PICK l \in StagePcs \ {"none"} : Goto(s, l)
      BY <1>3, <3>1
    <3>3. pc'[s] = l /\ \A r \in Stages \ {s} : pc'[r] = pc[r]
      BY <1>1, <3>2
    <3>4. Cancelled' = Cancelled
      BY <1>5, <1>7, <2>2 DEF Failing, Raise, StoreError, ErrorClosed,
         ErrorResult, Finish, Moves, NoTrouble
    <3>5. QED
      BY <1>7, <2>2, <3>2, <3>3, <3>4 DEF Failing, Raise, StoreError,
         ErrorClosed, ErrorResult, Finish, NotifyWaiter, Moves, NotStage,
         StageStep, Goto
  <2>3. QED
    BY <2>1, <2>2
<1>8. CASE s = "demux" /\ Demux
  <2>1. \E l \in {Return("demux", InQueue("demux")), "err", "push", "close"} :
          Goto("demux", l)
    BY <1>8 DEF Demux, OpenInput, ReadPacket, ReadEnd, Again, Fail
  <2>2. PICK l \in StagePcs \ {"none"} : Goto(s, l)
    BY <1>2, <1>3, <1>8, <2>1
  <2>3. Cancelled' = Cancelled
    BY <1>4, <1>5, <1>8 DEF Demux, OpenInput, ReadPacket, ReadEnd
  <2>4. QED
    BY <1>1, <1>8, <2>2, <2>3 DEF Demux, OpenInput, ReadPacket, ReadEnd,
       NotDemux, Reads, StageStep
<1>9. CASE s \in Workers /\ (Convert(s) \/ Flush(s))
  <2>1. \E l \in {Return(s, Tail(InQueue(s))), "err", "push", "skip", "drain",
                  "close"} : Goto(s, l)
    BY <1>9 DEF Convert, Flush, Fail
  <2>2. PICK l \in StagePcs \ {"none"} : Goto(s, l)
    BY <1>2, <1>3, <2>1
  <2>3. Cancelled' = Cancelled
    BY <1>4, <1>5, <1>9 DEF Convert, Flush
  <2>4. QED
    BY <1>1, <1>9, <2>2, <2>3 DEF Convert, Flush, NotWorker, StageStep
<1>10. CASE s \in Producers /\ Pushed(s)
  <2>1. UNCHANGED pc \/ \E l \in {Return(s, InQueue(s)), "close", "count"} :
          Goto(s, l)
    BY <1>10 DEF Pushed, Again
  <2>2. /\ \A r \in Stages \ {s} : pc'[r] = pc[r]
        /\ pc[s] \notin {"none", "gone"} /\ pc'[s] # "none"
    <3>1. CASE UNCHANGED pc
      BY <1>10, <3>1 DEF Pushed
    <3>2. CASE ~UNCHANGED pc
      <4>1. PICK l \in StagePcs \ {"none"} : Goto(s, l)
        BY <1>2, <1>3, <2>1, <3>2
      <4>2. QED
        BY <1>1, <1>10, <4>1 DEF Pushed
    <3>3. QED
      BY <3>1, <3>2
  <2>3. QED
    BY <1>10, <2>2 DEF Pushed, StageStep, Cancelled
<1>11. CASE s \in Producers /\ (Dropped(s) \/ Close(s))
  <2>1. \E l \in {Return(s, InQueue(s)), Exit(s), "close", "gone",
          "endSound"} :
          Goto(s, l)
    BY <1>11 DEF Dropped, Close, Again
  <2>2. PICK l \in StagePcs \ {"none"} : Goto(s, l)
    BY <1>2, <1>3, <2>1
  <2>3. Cancelled' = Cancelled
    BY <1>5, <1>11 DEF Dropped, Close
  <2>4. QED
    BY <1>1, <1>11, <2>2, <2>3 DEF Dropped, Close, NotWorker, StageStep
<1>12. CASE s = "encode" /\ Count
  <2>1. PICK l \in StagePcs \ {"none"} : Goto(s, l)
    BY <1>2, <1>12 DEF Count, Again
  <2>2. Cancelled' = Cancelled
    BY <1>4, <1>5, <1>12 DEF Count
  <2>3. QED
    BY <1>1, <1>12, <2>1, <2>2 DEF Count, StageStep
<1>13. CASE s \in Writers /\ Writer(s)
  <2>1. \E l \in {Return(s, InQueue(s)), "err", "write"} : Goto(s, l)
    BY <1>13 DEF Writer, Take, Write, Again, Fail
  <2>2. PICK l \in StagePcs \ {"none"} : Goto(s, l)
    BY <1>2, <1>3, <2>1
  <2>3. Cancelled' = Cancelled
    BY <1>4, <1>5, <1>13 DEF Writer, Take, Write
  <2>4. QED
    BY <1>1, <1>13, <2>2, <2>3 DEF Writer, Take, Write, WritePacket, NotWriter,
       StageStep
<1>14. CASE s = "mux" /\ MuxEnd
  <2>1. \E l \in MuxOut \cup {"err", "gone"} : Goto("mux", l)
    BY <1>14 DEF MuxEnd, Finalize, CloseMuxer, Decide, StoreCompleted,
       CleanCheckpoint, Complete, Finish, Moves, Fail, MuxOut
  <2>2. PICK l \in StagePcs \ {"none"} : Goto(s, l)
    BY <1>3, <1>14, <2>1
  <2>3. Cancelled' = Cancelled
    BY <1>4, <1>5, <1>14 DEF MuxEnd, Finalize, CloseMuxer, Decide,
       StoreCompleted, CleanCheckpoint, Complete, Finish, Moves, NoTrouble
  <2>4. pc'[s] = l /\ \A r \in Stages \ {s} : pc'[r] = pc[r]
    BY <1>1, <2>2
  <2>5. QED
    BY <1>14, <2>2, <2>3, <2>4 DEF MuxEnd, Finalize, CloseMuxer, Decide,
       StoreCompleted, CleanCheckpoint, Complete, Finish, NotifyWaiter, Moves,
       NotMuxEnd, NotWriter, NotStage, StageStep, Goto
<1>15. QED
  BY <1>6, <1>7, <1>8, <1>9, <1>10, <1>11, <1>12, <1>13, <1>14
     DEF Stage, Loops, Worker, Produces, Producers, Writers, Workers

(* The way of the mux stage.                                               *)
MuxIn == InLoop \cup {"wait", "write"}

LEMMA MuxMoves ==
  ASSUME IInv, Stage("mux")
  PROVE  /\ pc'["mux"] \in MuxIn => pc["mux"] \in MuxIn
         /\ pc'["mux"] = "finalize" =>
              pc["mux"] \in MuxIn /\ (Starve("mux") \/ ~ShouldRun)
         /\ pc'["mux"] = "closeMux" => pc["mux"] = "finalize"
         /\ pc'["mux"] = "decide" => pc["mux"] = "closeMux"
         /\ pc'["mux"] = "complete" => pc["mux"] = "decide" /\ ShouldRun
         /\ pc'["mux"] = "clean" => pc["mux"] = "complete"
         /\ pc'["mux"] = "notify" => pc["mux"] = "clean" /\ checkpoint' = 0
         /\ pc'["mux"] = "gone" =>
              \/ pc["mux"] = "decide" /\ ~ShouldRun
              \/ pc["mux"] = "errResult"
              \/ pc["mux"] = "notify" /\ UNCHANGED checkpoint
         /\ pc'["mux"] \in Error
              => pc["mux"] \in MuxIn \cup Error \cup {"finalize"}
         /\ pc["mux"] \in {"complete", "clean", "notify"} =>
              pc'["mux"] \in {"clean", "notify", "gone"}
<1> USE DEF flagVars, resultVars, queueVars, stageVars, muxVars, clientVars
<1> /\ pc \in [Stages -> StagePcs] /\ "mux" \in Stages
  BY DEF IInv, Types, TypeOK, Stages
<1>1. \A l : Goto("mux", l) => pc'["mux"] = l
  BY DEF Goto
<1>2. /\ Exit("mux") = "finalize"
      /\ \A items, l : Front("mux", items, l) \in {"wait", l}
      /\ \A items : \/ Return("mux", items) \in {"gate", "wait", "top"}
                    \/ Return("mux", items) = "finalize" /\ ~ShouldRun
  BY DEF Exit, Front, Return, Workers
<1>3. CASE Leave("mux") \/ PassGate("mux") \/ Starve("mux") \/ Pausing("mux")
  <2>1. CASE Leave("mux") \/ Starve("mux")
    BY <1>1, <1>2, <2>1 DEF Leave, Starve, Moves, MuxIn, InLoop, Error
  <2>2. CASE PassGate("mux") \/ Pausing("mux")
    <3>1. pc'["mux"] \in {"top", "wait", "pausing", "paused", "rerun", "pop"}
          /\ pc["mux"] \in {"gate", "top", "wait", "pausing", "paused",
               "rerun"}
      BY <1>1, <1>2, <2>2 DEF PassGate, Pausing, SeePause, StorePaused,
         WakeUp, StoreRunning, Moves
    <3>2. QED
      BY <3>1 DEF MuxIn, InLoop, Error
  <2>3. QED
    BY <1>3, <2>1, <2>2
<1>4. CASE Failing("mux")
  <2>1. \/ pc["mux"] = "err" /\ pc'["mux"] = "errState"
        \/ pc["mux"] = "errState" /\ pc'["mux"] = "errClose"
        \/ pc["mux"] = "errClose" /\ pc'["mux"] \in {"errClose", "errResult"}
        \/ pc["mux"] = "errResult" /\ pc'["mux"] = "gone"
    BY <1>1, <1>4 DEF Failing, Raise, StoreError, ErrorCloses, ErrorClosed,
       ErrorResult, Finish, Moves
  <2>2. QED
    BY <2>1 DEF MuxIn, InLoop, Error
<1>5. CASE Take("mux")
  BY <1>1, <1>5 DEF Take, MuxIn, InLoop, Error
<1>6. CASE Write("mux")
  <2>1. pc["mux"] = "write" /\ \/ pc'["mux"] \in {"gate", "wait", "top", "err"}
                               \/ pc'["mux"] = "finalize" /\ ~ShouldRun
    BY <1>1, <1>2, <1>6 DEF Write, Again, Fail
  <2>2. QED
    BY <2>1 DEF MuxIn, InLoop, Error
<1>7. CASE MuxEnd
  BY <1>1, <1>7 DEF MuxEnd, Finalize, CloseMuxer, Decide, StoreCompleted,
     CleanCheckpoint, Complete, Finish, Moves, Fail, MuxIn, InLoop, Error
<1>8. QED
  BY <1>3, <1>4, <1>5, <1>6, <1>7 DEF Stage, Loops, Writer, Workers

-----------------------------------------------------------------------------
(* The type invariant.                                                     *)
LEMMA NextStep ==
  ASSUME IInv, [Next]_vars
  PROVE  next' = next \/ ReadPacket
<1>1. ASSUME NEW s \in Producers, Pushed(s) PROVE next' = next
  BY <1>1 DEF Pushed
<1>2. ASSUME NEW s \in Producers, Dropped(s) PROVE next' = next
  BY <1>2, DropFlow
<1>3. ASSUME NEW s \in Workers, Convert(s) \/ Flush(s) PROVE next' = next
  BY <1>3, WorkFlow
<1>4. ASSUME NEW s \in Writers, Writer(s) PROVE next' = next
  BY <1>4, TakeFlow, WriteFlow DEF Writer
<1>5. QED
  BY <1>1, <1>2, <1>3, <1>4, StillFlow, Steps DEF Demux, Produces

LEMMA NumberTypes ==
  ASSUME IInv, [Next]_vars
  PROVE  /\ next' \in 1 .. Len(Media) + 1
         /\ framesProcessed' \in 0 .. Len(Media)
         /\ checkpoint' \in Nat => checkpoint' \in 0 .. Len(Media)
<1>1. Len(Media) \in Nat /\ next \in 1 .. Len(Media) + 1
  BY TranscodeAssumption, LenProperties DEF IInv, Types, TypeOK
<1>2. next' \in 1 .. Len(Media) + 1
  BY <1>1, NextStep DEF ReadPacket
<1>3. framesProcessed' \in Nat
  BY CountStill, CountPush
<1>4. \A s \in {"encode", "vsr", "decode", "demux"} : Len(Part(s))' \in Nat
  BY ItemsStep, PartTypeAfter, LenProperties DEF Stages
<1>5. Uncounted' \in {0, 1}
  BY DEF Uncounted
<1>6. framesProcessed' + Uncounted' + Len(Part("encode"))' + Len(Part("vsr"))'
        + Len(Part("decode"))' + Len(Part("demux"))' <= next' - 1
  BY BacklogStep DEF Backlog
<1>7. framesProcessed' <= next' - 1
  <2>1. next' \in Int
    BY <1>1, <1>2
  <2> DEFINE n == next'
             f == framesProcessed'
             u == Uncounted'
             a == Len(Part("encode"))'
             b == Len(Part("vsr"))'
             c == Len(Part("decode"))'
             d == Len(Part("demux"))'
  <2>3. Uncounted' \in Int /\ Uncounted' >= 0
    BY <1>5
  <2>4. \A s \in {"encode", "vsr", "decode", "demux"} :
          Len(Part(s))' \in Int /\ Len(Part(s))' >= 0
    BY <1>4
  <2>5. /\ n \in Int /\ f \in Int /\ u \in Int /\ u >= 0
        /\ a \in Int /\ a >= 0 /\ b \in Int /\ b >= 0
        /\ c \in Int /\ c >= 0 /\ d \in Int /\ d >= 0
    BY <1>3, <2>1, <2>3, <2>4
  <2>6. f + u + a + b + c + d <= n - 1
    BY <1>6
  <2> HIDE DEF n, f, u, a, b, c, d
  <2>7. f <= n - 1
    BY <2>5, <2>6
  <2>8. QED
    BY <2>7 DEF f, n
<1>8. checkpoint' <= framesProcessed'
  BY CountingStep DEF Counting
<1>9. framesProcessed' \in 0 .. Len(Media)
  <2>1. next' - 1 <= Len(Media) /\ next' \in Nat
    BY <1>1, <1>2
  <2> DEFINE n == next'
             f == framesProcessed'
             l == Len(Media)
  <2>2. n - 1 <= l /\ n \in Nat /\ f \in Nat /\ l \in Nat /\ f <= n - 1
    BY <1>1, <1>3, <1>7, <2>1
  <2> HIDE DEF n, f, l
  <2>3. f \in 0 .. l
    BY <2>2
  <2>4. QED
    BY <2>3 DEF f, l
<1>10. ASSUME checkpoint' \in Nat PROVE checkpoint' \in 0 .. Len(Media)
  BY <1>1, <1>8, <1>9, <1>10
<1>11. QED
  BY <1>2, <1>9, <1>10

LEMMA TroubleTypes ==
  ASSUME IInv, [Next]_vars
  PROVE  /\ troubles' \subseteq Kinds /\ IsFiniteSet(troubles')
         /\ Cardinality(troubles') <= MaxTroubles
<1> /\ troubles \subseteq Kinds /\ IsFiniteSet(troubles)
    /\ Cardinality(troubles) <= MaxTroubles /\ MaxTroubles \in Nat
    /\ Cardinality(troubles) \in Nat
  BY FS_CardinalityType, TranscodeAssumption DEF IInv, Types, TypeOK
<1>1. CASE UNCHANGED troubles
  BY <1>1
<1>2. ASSUME NEW kind, Trouble(kind)
      PROVE  /\ troubles' \subseteq Kinds /\ IsFiniteSet(troubles')
             /\ Cardinality(troubles') <= MaxTroubles
  BY <1>2, FS_AddElement DEF Trouble
<1>3. QED
  BY <1>1, <1>2, TroublesGrow

Switches ==
  /\ state \in States
  /\ cancelRequested \in BOOLEAN /\ pauseRequested \in BOOLEAN
  /\ errorFlag \in BOOLEAN /\ completionResult \in {"success", "error"}
  /\ checkpoint \in Nat /\ closed \in [Queues -> BOOLEAN]
  /\ muxer \in {"closed", "open", "header", "finalized"}
  /\ audioStream \in {0, 1} /\ runner \in RunnerPcs
  /\ ui \in {"idle", "cancelResume", "cancelClose"}
  /\ uiState \in {"Ready", "Processing", "Paused", "Idle"}

LEMMA SwitchesStep ==
  ASSUME IInv, [Next]_vars
  PROVE  Switches'
<1> USE DEF flagVars, resultVars, queueVars, stageVars, muxVars, clientVars
<1> Switches /\ Hands /\ framesProcessed' \in Nat
  BY CountPush, CountStill DEF IInv, Types, TypeOK, Switches
<1>1. CloseNext => closed' \in [Queues -> BOOLEAN]
  BY DEF CloseNext, Switches
<1>2. ASSUME NEW s \in Stages, Stage(s) PROVE Switches'
  <2>1. StageStep(s)
    BY <1>2, StageSteps
  <2>2. closed' \in [Queues -> BOOLEAN]
    <3>1. Close(s) => closed' \in [Queues -> BOOLEAN]
      BY DEF Close, Switches
    <3>2. QED
      BY <1>1, <2>1, <3>1 DEF StageStep, Switches
  <2>3. /\ state' \in States /\ completionResult' \in {"success", "error"}
        /\ errorFlag' \in BOOLEAN /\ runner' \in RunnerPcs
    BY <2>1 DEF StageStep, Switches, States, Final, RunnerPcs
  <2>4. /\ muxer' \in {"closed", "open", "header", "finalized"}
        /\ checkpoint' \in Nat
    BY <2>1 DEF StageStep, Switches
  <2>5. UNCHANGED <<cancelRequested, pauseRequested, ui, uiState, audioStream>>
    BY <2>1 DEF StageStep
  <2>6. QED
    BY <2>2, <2>3, <2>4, <2>5 DEF Switches
<1>3. CASE Runner \/ SpuriousWakeUp
  BY ZenonT(30), <1>3 DEF Runner, Configure, StartReset, ResetFlags,
     StartMuxer, Launch,
     Wait, SpuriousWakeUp, NotRunner, Switches, States, Final, RunnerPcs
<1>4. CASE User
  <2>1. closed' \in [Queues -> BOOLEAN]
    BY <1>1, <1>4 DEF User, Pause, Resume, Cancel, Cancelling, CancelResumes,
       CancelCloses, CancelDone, NotUi, Switches
  <2>2. /\ cancelRequested' \in BOOLEAN /\ pauseRequested' \in BOOLEAN
        /\ ui' \in {"idle", "cancelResume", "cancelClose"}
        /\ uiState' \in {"Ready", "Processing", "Paused", "Idle"}
    BY <1>4 DEF User, Pause, Resume, Cancel, Cancelling, CancelResumes,
       CancelCloses, CancelDone, Switches
  <2>3. UNCHANGED <<state, errorFlag, completionResult, checkpoint, muxer,
                    audioStream, runner>>
    BY <1>4 DEF User, Pause, Resume, Cancel, Cancelling, CancelResumes,
       CancelCloses, CancelDone, NotUi
  <2>4. QED
    BY <2>1, <2>2, <2>3 DEF Switches
<1>5. CASE UNCHANGED vars
  BY <1>5 DEF vars, Switches
<1>6. QED
  BY <1>2, <1>3, <1>4, <1>5 DEF Next

LEMMA TypesStep ==
  ASSUME IInv, [Next]_vars
  PROVE  Types'
BY ItemsStep, PcStep, NumberTypes, TroubleTypes, SwitchesStep
   DEF Types, TypeOK, Items, Switches

-----------------------------------------------------------------------------
(* A stage that fails goes through setError step by step.                  *)
LEMMA ErrorMoves ==
  ASSUME IInv, NEW s \in Stages, Stage(s)
  PROVE  \/ pc[s] = "err" /\ pc'[s] = "errState" /\ errorFlag'
         \/ pc[s] = "errState" /\ pc'[s] = "errClose"
         \/ pc[s] = "errClose" /\ pc'[s] \in {"errClose", "errResult"}
         \/ pc[s] = "errResult" /\ pc'[s] = "gone"
              /\ completionResult' = "error"
         \/ pc[s] \notin Error
              /\ pc'[s] \notin {"errState", "errClose", "errResult"}
<1> USE DEF flagVars, resultVars, queueVars, stageVars, muxVars, clientVars
<1> pc \in [Stages -> StagePcs] /\ Hands
  BY DEF IInv, Types, TypeOK
<1> DEFINE Other == StagePcs \ {"errState", "errClose", "errResult"}
<1>1. ASSUME NEW items
      PROVE  {Exit(s), Return(s, items), Front(s, items, "pop"),
              Front(s, items, "top")} \subseteq Other
  BY Leaving, PlacesAre DEF Error
<1>2. {"pausing", "paused", "rerun", "err", "gone", "close", "endSound",
        "push",
       "skip", "count", "drain", "write"} \cup MuxOut \subseteq Other
  BY DEF StagePcs, MuxOut
<1>3. ASSUME pc[s] \notin Error, \E l \in Other : Goto(s, l)
      PROVE  pc'[s] \notin {"errState", "errClose", "errResult"}
  BY <1>3 DEF Goto
<1>4. CASE Failing(s)
  BY <1>4 DEF Failing, Raise, StoreError, ErrorCloses, ErrorClosed,
     ErrorResult, Finish, Moves, Goto
<1>5. CASE Leave(s) \/ PassGate(s) \/ Starve(s) \/ Pausing(s)
  <2>1. \E l \in {Exit(s), Front(s, InQueue(s), "top"), "pausing", "paused",
                  "rerun", Front(s, InQueue(s), "pop")} : Goto(s, l)
    BY <1>5 DEF Leave, PassGate, Starve, Pausing, SeePause, StorePaused,
       WakeUp, StoreRunning, Moves
  <2>2. pc[s] \notin Error
    BY <1>5 DEF Leave, PassGate, Starve, Pausing, SeePause, StorePaused,
       WakeUp, StoreRunning, Error
  <2>3. QED
    BY <1>1, <1>2, <1>3, <2>1, <2>2
<1>6. CASE s = "demux" /\ Demux
  <2>1. \E l \in {Return("demux", InQueue("demux")), "err", "push", "close"} :
          Goto("demux", l)
    BY <1>6 DEF Demux, OpenInput, ReadPacket, ReadEnd, Again, Fail
  <2>2. pc[s] \notin Error
    BY <1>6 DEF Demux, OpenInput, ReadPacket, ReadEnd, Reads, Error
  <2>3. QED
    BY <1>1, <1>2, <1>3, <1>6, <2>1, <2>2
<1>7. CASE s \in Workers /\ (Convert(s) \/ Flush(s))
  <2>1. \E l \in {Return(s, Tail(InQueue(s))), "err", "push", "skip", "drain",
                  "close"} : Goto(s, l)
    BY <1>7 DEF Convert, Flush, Fail
  <2>2. pc[s] \notin Error
    BY <1>7 DEF Convert, Flush, Error
  <2>3. QED
    BY <1>1, <1>2, <1>3, <2>1, <2>2
<1>8. CASE s \in Producers /\ Produces(s)
  <2>1. pc[s] \notin Error
    BY <1>8 DEF Produces, Pushed, Dropped, Close, Error
  <2>2. UNCHANGED pc
          \/ \E l \in {Return(s, InQueue(s)), Exit(s), "close", "count",
               "gone",
                       "endSound"} : Goto(s, l)
    BY <1>8 DEF Produces, Pushed, Dropped, Close, Again
  <2>3. QED
    BY <1>1, <1>2, <1>3, <2>1, <2>2 DEF Error
<1>9. CASE s = "encode" /\ Count
  BY <1>1, <1>3, <1>9 DEF Count, Again, Error
<1>10. CASE s \in Writers /\ Writer(s)
  <2>1. \E l \in {Return(s, InQueue(s)), "err", "write"} : Goto(s, l)
    BY <1>10 DEF Writer, Take, Write, Again, Fail
  <2>2. pc[s] \notin Error
    BY <1>10 DEF Writer, Take, Write, Error
  <2>3. QED
    BY <1>1, <1>2, <1>3, <2>1, <2>2
<1>11. CASE s = "mux" /\ MuxEnd
  <2>1. \E l \in MuxOut \cup {"err", "gone"} : Goto("mux", l)
    BY <1>11 DEF MuxEnd, Finalize, CloseMuxer, Decide, StoreCompleted,
       CleanCheckpoint, Complete, Finish, Moves, Fail, MuxOut
  <2>2. pc[s] \notin Error
    BY <1>11 DEF MuxEnd, Finalize, CloseMuxer, Decide, StoreCompleted,
       CleanCheckpoint, Complete, Error
  <2>3. QED
    BY <1>2, <1>3, <1>11, <2>1, <2>2
<1>12. QED
  BY <1>4, <1>5, <1>6, <1>7, <1>8, <1>9, <1>10, <1>11
     DEF Stage, Loops, Worker, Produces, Producers, Writers, Workers

(* Before the job is launched no stage moves.                              *)
LEMMA StagesAreLaunched ==
  ASSUME IInv, NEW s \in Stages, Stage(s)
  PROVE  runner \notin Setup /\ runner' \notin Setup
<1>1. StageStep(s)
  BY StageSteps
<1>2. runner \notin Setup
  BY <1>1 DEF StageStep, IInv, Launched, Fresh
<1>3. QED
  BY <1>1, <1>2 DEF StageStep, Setup

LEMMA LaunchedStep ==
  ASSUME IInv, [Next]_vars
  PROVE  Launched'
<1> USE DEF flagVars, resultVars, queueVars, stageVars, muxVars, clientVars
<1> Launched /\ Hands /\ pc \in [Stages -> StagePcs]
    /\ completionResult \in {"success", "error"}
    /\ {"mux", "audio"} \subseteq Stages
  BY DEF IInv, Types, TypeOK, Stages
<1>1. ASSUME NEW s \in Stages, Stage(s) PROVE Launched'
  <2>1. StageStep(s) /\ runner \notin Setup /\ runner' \notin Setup
    BY <1>1, StageSteps, StagesAreLaunched
  <2>2. \A r \in Stages : pc'[r] # "none"
    BY <2>1 DEF StageStep, Launched
  <2>3. ~HasAudio => pc'["audio"] \in {"none", "gone"}
    BY <2>1 DEF StageStep, Launched
  <2>4. muxer' # "closed"
          \/ pc'["mux"] \notin InLoop \cup {"wait", "write", "finalize",
               "closeMux"}
    <3>1. CASE muxer = "closed" /\ s = "mux"
      BY <1>1, <2>1, <3>1, MuxMoves DEF Launched, MuxIn
    <3>2. CASE s # "mux"
      BY <2>1, <3>2 DEF StageStep, Launched
    <3>3. CASE muxer # "closed" /\ s = "mux"
      BY <2>1, <3>3 DEF StageStep, InLoop
    <3>4. QED
      BY <3>1, <3>2, <3>3
  <2>5. QED
    BY <2>1, <2>2, <2>3, <2>4 DEF Launched, Setup
<1>2. CASE Launch
  <2>1. \A s \in Stages : pc'[s] # "none"
    BY <1>2, Leaving DEF Launch
  <2>2. muxer' # "closed" /\ runner' = "wait"
    BY <1>2 DEF Launch, Launched
  <2>3. ~HasAudio => pc'["audio"] = "gone"
    BY <1>2 DEF Launch
  <2>4. QED
    BY <2>1, <2>2, <2>3 DEF Launched, Setup
<1>3. CASE Configure \/ StartReset \/ StartMuxer
  <2>1. Fresh /\ UNCHANGED pc
    BY <1>3 DEF Configure, StartReset, StartMuxer, Launched, Setup
  <2>2. runner' \in Setup /\ (runner' = "launch" => muxer' # "closed")
    BY <1>3 DEF Configure, StartReset, StartMuxer, Setup
  <2>3. Fresh'
    BY <1>3, <2>1 DEF Configure, StartReset, ResetFlags, StartMuxer, NotRunner,
       Fresh
  <2>4. QED
    BY <2>1, <2>2, <2>3 DEF Launched
<1>4. CASE Wait \/ SpuriousWakeUp
  <2>1. runner \notin Setup /\ runner' \notin Setup /\ UNCHANGED <<pc, muxer>>
    BY <1>4 DEF Wait, SpuriousWakeUp, Setup
  <2>2. QED
    BY <2>1 DEF Launched, Setup
<1>5. CASE User \/ UNCHANGED vars
  <2>1. UNCHANGED <<runner, pc, muxer>> /\ (Fresh => Fresh')
    BY <1>5 DEF User, Pause, Resume, Cancel, Cancelling, CancelResumes,
       CancelCloses, CancelDone, NotUi, vars, Fresh
  <2>2. QED
    BY <2>1 DEF Launched
<1>6. QED
  BY <1>1, <1>2, <1>3, <1>4, <1>5 DEF Next, Runner

LEMMA FlagsStep ==
  ASSUME IInv, [Next]_vars
  PROVE  Flags'
<1> USE DEF flagVars, resultVars, queueVars, stageVars, muxVars, clientVars
<1> Flags /\ Hands /\ pc \in [Stages -> StagePcs] /\ errorFlag \in BOOLEAN
  BY DEF IInv, Types, TypeOK
<1>1. ASSUME NEW s \in Stages, Stage(s) PROVE Flags'
  <2>1. StageStep(s)
    BY <1>1, StageSteps
  <2>2. cancelRequested' \/ ui' # "idle" => Cancelled'
    BY <2>1 DEF StageStep, Flags
  <2>3. ASSUME NEW r \in Stages,
               pc'[r] \in {"errState", "errClose", "errResult"}
        PROVE  errorFlag'
    <3>1. errorFlag => errorFlag'
      BY <2>1 DEF StageStep
    <3>2. CASE r # s
      BY <2>1, <2>3, <3>1, <3>2 DEF StageStep, Flags
    <3>3. CASE r = s
      BY <1>1, <2>3, <3>1, <3>3, ErrorMoves DEF Flags
    <3>4. QED
      BY <3>2, <3>3
  <2>4. completionResult' = "error" => errorFlag'
    BY <2>1 DEF StageStep, Flags
  <2>5. QED
    BY <2>2, <2>3, <2>4 DEF Flags
<1>2. CASE Launch
  <2>1. \A s \in Stages : pc'[s] \notin Error
    BY <1>2, Leaving DEF Launch, Error
  <2>2. UNCHANGED <<cancelRequested, ui, troubles, completionResult,
                   errorFlag>>
    BY <1>2 DEF Launch, NotRunner, NoTrouble
  <2>3. QED
    BY <2>1, <2>2 DEF Flags, Error, Cancelled
<1>3. CASE Configure \/ StartReset \/ StartMuxer
  <2>1. Fresh /\ UNCHANGED <<pc, completionResult, ui>>
    BY <1>3 DEF Configure, StartReset, StartMuxer, NotRunner, IInv, Launched,
       Setup
  <2>2. Cancelled => Cancelled'
    BY TroublesGrow DEF Cancelled
  <2>3. cancelRequested' => cancelRequested
    BY <1>3 DEF Configure, StartReset, ResetFlags, StartMuxer
  <2>4. QED
    BY <2>1, <2>2, <2>3 DEF Flags, Fresh
<1>4. CASE Wait \/ SpuriousWakeUp \/ UNCHANGED vars
  <2>1. UNCHANGED <<cancelRequested, ui, troubles, completionResult,
                   errorFlag, pc>>
    BY <1>4 DEF Wait, SpuriousWakeUp, NotRunner, NoTrouble, vars
  <2>2. QED
    BY <2>1 DEF Flags, Cancelled
<1>5. CASE User
  <2>1. UNCHANGED <<completionResult, errorFlag, pc>>
    BY <1>5 DEF User, Pause, Resume, Cancel, Cancelling, CancelResumes,
       CancelCloses, CancelDone, NotUi
  <2>2. cancelRequested' \/ ui' # "idle" => Cancelled'
    BY <1>5 DEF User, Pause, Resume, Cancel, Cancelling, CancelResumes,
       CancelCloses, CancelDone, Flags, Cancelled, Trouble
  <2>3. QED
    BY <2>1, <2>2 DEF Flags
<1>6. QED
  BY <1>1, <1>2, <1>3, <1>4, <1>5 DEF Next, Runner

(* The ends of the queues: a mux stage that has left its loop has seen     *)
(* every stage before it end.                                              *)
LEMMA AllOver ==
  ASSUME EndChain, Sound, pc["mux"] \in MuxOut \cup {"gone"}
  PROVE  /\ \A s \in Workers : pc[s] = "gone"
         /\ pc["demux"] \in {"endSound", "gone"}
         /\ \A q \in VideoQueues : Starved(q)
<1>1. Starved("encoded") /\ pc["encode"] = "gone"
  BY DEF EndChain, Ended, Closers, Starved
<1>2. Starved("upscaled") /\ pc["vsr"] = "gone"
  BY <1>1 DEF EndChain, Ended, Closers, Starved, Workers, InOf
<1>3. Starved("decoded") /\ pc["decode"] = "gone"
  BY <1>2 DEF EndChain, Ended, Closers, Starved, Workers, InOf
<1>4. Starved("video") /\ pc["demux"] \in {"endSound", "gone"}
  BY <1>3 DEF EndChain, Ended, Closers, Starved, Workers, InOf
<1>5. QED
  BY <1>1, <1>2, <1>3, <1>4 DEF Workers, VideoQueues

LEMMA OverStep ==
  ASSUME IInv, [Next]_vars
  PROVE  Over'
<1> USE DEF flagVars, resultVars, queueVars, stageVars, muxVars, clientVars
<1> /\ Over /\ Hands /\ EndChain /\ pc \in [Stages -> StagePcs]
    /\ errorFlag \in BOOLEAN /\ "mux" \in Stages
    /\ (Cancelled => Cancelled')
  BY TroublesGrow DEF IInv, Types, TypeOK, Stages, Cancelled
<1>1. ASSUME NEW s \in Stages, Stage(s) PROVE Over'
  <2>1. StageStep(s)
    BY <1>1, StageSteps
  <2>2. state' # "Cancelled"
    BY <2>1 DEF StageStep, Over
  <2>3. state' = "Completed" => pc'["mux"] \in {"clean", "notify", "gone"}
    <3>1. CASE state' # state
      BY <2>1, <3>1 DEF StageStep
    <3>2. CASE state' = state /\ s = "mux"
      BY <1>1, <2>1, <3>2, MuxMoves DEF StageStep, Over
    <3>3. CASE state' = state /\ s # "mux"
      BY <2>1, <3>3 DEF StageStep, Over
    <3>4. QED
      BY <3>1, <3>2, <3>3
  <2> DEFINE Done == pc["mux"] \in {"complete", "clean", "notify"}
                       \/ state = "Completed"
  <2>4. ~Cancelled /\ Done => Sound /\ pc["mux"] \in MuxOut \cup {"gone"}
    BY DEF Over, Sound, MuxOut
  <2>5. ~Cancelled /\ Done =>
          /\ ~errorFlag' /\ s # "encode"
    <3> SUFFICES ASSUME ~Cancelled, Done PROVE ~errorFlag' /\ s # "encode"
      OBVIOUS
    <3>1. /\ \A r \in Workers : pc[r] = "gone"
          /\ pc["demux"] \in {"endSound", "gone"}
      BY <2>4, AllOver
    <3>2. pc["audio"] # "err" /\ pc["mux"] # "err"
      BY <2>4 DEF Hands, Places, InLoop, MuxOut, Stages
    <3>3. pc[s] # "err"
      BY <3>1, <3>2 DEF Stages, Workers
    <3>4. s # "encode"
      BY <2>1, <3>1 DEF StageStep, Workers
    <3>5. QED
      BY <2>1, <2>4, <3>3, <3>4 DEF StageStep, Sound
  <2> HIDE DEF Done
  <2>6. Done' => Done \/ (s = "mux" /\ pc["mux"] = "decide" /\ ~errorFlag)
    <3>1. CASE s = "mux"
      BY <1>1, <2>1, <3>1, MuxMoves DEF Done, StageStep, ShouldRun
    <3>2. CASE s # "mux"
      BY <2>1, <3>2 DEF Done, StageStep
    <3>3. QED
      BY <3>1, <3>2
  <2>7. ~Cancelled' /\ Done' => ~errorFlag'
    BY <2>1, <2>5, <2>6 DEF StageStep
  <2>8. ~Cancelled' /\ pc'["mux"] = "notify" => checkpoint' = 0
    <3>1. CASE s = "mux"
      BY <1>1, <3>1, MuxMoves
    <3>2. CASE s # "mux"
      BY <2>1, <2>5, <3>2 DEF StageStep, Over, Done
    <3>3. QED
      BY <3>1, <3>2
  <2>9. ~Cancelled' /\ pc'["mux"] = "gone" /\ state' = "Completed"
          => checkpoint' = 0
    <3>1. CASE s = "mux"
      <4>1. pc'["mux"] = "gone" => state' = state \/ state' # "Completed"
        BY <2>1, <3>1 DEF StageStep
      <4>2. QED
        BY <1>1, <2>1, <3>1, <4>1, MuxMoves DEF StageStep, Over
    <3>2. CASE s # "mux"
      BY <2>1, <2>5, <3>2 DEF StageStep, Over, Done
    <3>3. QED
      BY <3>1, <3>2
  <2>10. QED
    BY <2>2, <2>3, <2>7, <2>8, <2>9 DEF Over, Done
<1>2. CASE Launch
  <2>1. /\ pc'["mux"] = Return("mux", InQueue("mux"))
        /\ state' = "Running"
    BY <1>2 DEF Launch
  <2>2. pc'["mux"] \notin {"complete", "clean", "notify"}
    BY <2>1, Leaving DEF MuxOut
  <2>3. QED
    BY <2>1, <2>2 DEF Over
<1>3. CASE Configure \/ StartReset \/ StartMuxer
  <2>1. Fresh /\ UNCHANGED pc /\ state' \in {"Idle", "Configured"}
    BY <1>3 DEF Configure, StartReset, StartMuxer, IInv, Launched, Setup, Fresh
  <2>2. pc'["mux"] = "none"
    BY <2>1 DEF Fresh
  <2>3. QED
    BY <2>1, <2>2 DEF Over
<1>4. CASE Wait \/ SpuriousWakeUp \/ User \/ UNCHANGED vars
  <2>1. UNCHANGED <<state, pc, errorFlag, checkpoint>>
    BY <1>4 DEF Wait, SpuriousWakeUp, User, Pause, Resume, Cancel, Cancelling,
       CancelResumes, CancelCloses, CancelDone, NotUi, vars
  <2>2. QED
    BY <2>1 DEF Over
<1>5. QED
  BY <1>1, <1>2, <1>3, <1>4 DEF Next, Runner

LEMMA TellingStep ==
  ASSUME IInv, [Next]_vars
  PROVE  Telling'
<1> USE DEF flagVars, resultVars, queueVars, stageVars, muxVars, clientVars
<1> /\ Telling /\ Over /\ Flags /\ Hands /\ pc \in [Stages -> StagePcs]
    /\ (Cancelled => Cancelled')
  BY TroublesGrow DEF IInv, Types, TypeOK, Stages, Cancelled
<1>1. ASSUME NEW s \in Stages, Stage(s), ~Cancelled', state' = "Error"
      PROVE  completionResult' = "error"
               \/ \E r \in Stages : pc'[r] \in {"errClose", "errResult"}
  <2>1. StageStep(s)
    BY <1>1, StageSteps
  <2>2. CASE state # "Error"
    BY <1>1, <2>1, <2>2 DEF StageStep
  <2>3. CASE state = "Error" /\ completionResult = "error"
    <3>1. pc["mux"] # "notify"
      BY <1>1, <2>3 DEF Over, Flags
    <3>2. QED
      BY <2>1, <2>3, <3>1 DEF StageStep
  <2>4. CASE state = "Error" /\ completionResult # "error"
    <3>1. PICK r \in Stages : pc[r] \in {"errClose", "errResult"}
      BY <1>1, <2>4 DEF Telling
    <3>2. CASE r = s
      BY <1>1, <3>1, <3>2, ErrorMoves DEF Error
    <3>3. CASE r # s
      BY <2>1, <3>1, <3>3 DEF StageStep
    <3>4. QED
      BY <3>2, <3>3
  <2>5. QED
    BY <2>2, <2>3, <2>4
<1>2. CASE Configure \/ StartReset \/ StartMuxer \/ Launch
  <2>1. state' \in {"Idle", "Configured", "Running"}
    BY <1>2 DEF Configure, StartReset, StartMuxer, Launch, IInv, Launched,
       Setup, Fresh
  <2>2. QED
    BY <2>1 DEF Telling
<1>3. CASE Wait \/ SpuriousWakeUp \/ User \/ UNCHANGED vars
  <2>1. UNCHANGED <<state, pc, completionResult>>
    BY <1>3 DEF Wait, SpuriousWakeUp, User, Pause, Resume, Cancel, Cancelling,
       CancelResumes, CancelCloses, CancelDone, NotUi, vars
  <2>2. QED
    BY <2>1 DEF Telling
<1>4. QED
  BY <1>1, <1>2, <1>3 DEF Next, Runner, Telling

-----------------------------------------------------------------------------
(* The end of the input goes from queue to queue.                          *)
LEMMA QueueEnds ==
  ASSUME IInv, [Next]_vars, NEW q \in Queues, closed[q]
  PROVE  closed'[q] /\ (queue[q] = <<>> => queue'[q] = <<>>)
<1> USE DEF flagVars, resultVars, queueVars, stageVars, muxVars, clientVars
<1> closed \in [Queues -> BOOLEAN] /\ queue \in [Queues -> Seq(Positions)]
  BY DEF IInv, Types, TypeOK
<1>1. CloseNext => closed'[q]
  BY DEF CloseNext
<1>2. ASSUME NEW s \in Stages, Loops(s) PROVE closed'[q] /\ UNCHANGED queue
  BY <1>1, <1>2 DEF Loops, Leave, PassGate, Starve, Pausing, Failing, SeePause,
     StorePaused, WakeUp, StoreRunning, Raise, StoreError, ErrorCloses,
     ErrorClosed, ErrorResult, Finish, Moves
<1>3. ASSUME Demux PROVE UNCHANGED queueVars
  BY <1>3 DEF Demux, OpenInput, ReadPacket, ReadEnd, NotDemux
<1>4. ASSUME NEW s \in Workers, Convert(s) \/ Flush(s)
      PROVE  UNCHANGED closed /\ (queue[q] = <<>> => queue'[q] = <<>>)
  <2>1. UNCHANGED queueVars
        \/ /\ UNCHANGED closed /\ queue[InOf(s)] # <<>>
           /\ queue' = [queue EXCEPT ![InOf(s)] = Tail(queue[InOf(s)])]
    BY <1>4 DEF Convert, Flush, InQueue, Workers
  <2>2. QED
    BY <2>1
<1>5. ASSUME NEW s \in Producers, Produces(s)
      PROVE  closed'[q] /\ (queue[q] = <<>> => queue'[q] = <<>>)
  <2>1. CASE Pushed(s)
    <3> DEFINE r == OutOf(s, Head(hand[s]))
    <3>1. ~closed[r] /\ UNCHANGED closed
          /\ queue' = [queue EXCEPT ![r] = Append(queue[r], Head(hand[s]))]
      BY <2>1 DEF Pushed
    <3>2. r # q
      BY <3>1
    <3> HIDE DEF r
    <3>3. QED
      BY <3>1, <3>2
  <2>2. CASE Dropped(s) \/ Close(s)
    BY <2>2 DEF Dropped, Close
  <2>3. QED
    BY <1>5, <2>1, <2>2 DEF Produces
<1>6. ASSUME Count \/ MuxEnd PROVE UNCHANGED queueVars
  BY <1>6 DEF Count, MuxEnd, Finalize, CloseMuxer, Decide, StoreCompleted,
     CleanCheckpoint, Complete, Finish, Moves, NotMuxEnd, NotWriter
<1>7. ASSUME NEW s \in Writers, Writer(s)
      PROVE  UNCHANGED closed /\ (queue[q] = <<>> => queue'[q] = <<>>)
  <2>1. UNCHANGED queueVars
        \/ /\ UNCHANGED closed /\ queue[InOf(s)] # <<>>
           /\ queue' = [queue EXCEPT ![InOf(s)] = Tail(queue[InOf(s)])]
    BY <1>7 DEF Writer, Take, Write, NotWriter, InQueue, Writers
  <2>2. QED
    BY <2>1
<1>8. ASSUME Runner \/ SpuriousWakeUp PROVE UNCHANGED queueVars
  BY <1>8 DEF Runner, Configure, StartReset, StartMuxer, Launch, Wait,
     SpuriousWakeUp, NotRunner
<1>9. ASSUME User PROVE closed'[q] /\ UNCHANGED queue
  BY <1>1, <1>9 DEF User, Pause, Resume, Cancel, Cancelling, CancelResumes,
     CancelCloses, CancelDone, NotUi
<1>10. CASE UNCHANGED vars
  BY <1>10 DEF vars
<1>11. QED
  BY <1>2, <1>3, <1>4, <1>5, <1>6, <1>7, <1>8, <1>9, <1>10, Steps

LEMMA StarvedStep ==
  ASSUME IInv, [Next]_vars, NEW q \in Queues, Starved(q)
  PROVE  Starved(q)'
BY QueueEnds, TroublesGrow DEF Starved

(* A job that is sound was sound, and its stages run.                      *)
LEMMA StillSound ==
  ASSUME IInv, [Next]_vars, Sound'
  PROVE  /\ Sound /\ EndChain /\ Closers /\ Ended /\ ShouldRun /\ ui = "idle"
         /\ \A s \in Stages : pc[s] \notin {"errState", "errClose",
              "errResult"}
<1>1. ~Cancelled
  BY TroublesGrow DEF Sound, Cancelled
<1>2. ~errorFlag
  <2>1. ASSUME NEW s \in Stages, Stage(s) PROVE ~errorFlag
    BY <2>1, StageSteps DEF StageStep, Sound
  <2>2. CASE StartReset
    BY <2>2 DEF StartReset, IInv, Launched, Setup, Fresh
  <2>3. CASE (Runner /\ ~StartReset) \/ SpuriousWakeUp \/ User
               \/ UNCHANGED vars
    <3>1. UNCHANGED errorFlag
      BY <2>3 DEF Runner, Configure, StartMuxer, Launch, Wait, SpuriousWakeUp,
         User, Pause, Resume, Cancel, Cancelling, CancelResumes, CancelCloses,
         CancelDone, NotUi, vars, flagVars
    <3>2. QED
      BY <3>1 DEF Sound
  <2>4. QED
    BY <2>1, <2>2, <2>3 DEF Next
<1>3. QED
  BY <1>1, <1>2 DEF Sound, IInv, Flags, EndChain, ShouldRun

(* A sound job drops nothing.                                              *)
LEMMA NoDrops ==
  ASSUME Closers, NEW s \in Producers
  PROVE  ~Dropped(s)
<1> SUFFICES ASSUME Dropped(s) PROVE FALSE
  OBVIOUS
<1>1. pc[s] \in {"push", "skip", "drain"}
      /\ closed[OutOf(s, Head(hand[s]))]
  BY DEF Dropped
<1>2. QED
  BY <1>1 DEF Closers, OutOf, Producers, Workers

LEMMA DemuxEnds ==
  ASSUME IInv, ShouldRun, Closers, Stage("demux"),
         pc["demux"] \notin {"errState", "errClose", "errResult"}
  PROVE  /\ pc'["demux"] \in {"close", "endSound", "gone"} =>
              pc["demux"] \in {"close", "endSound"} \/ ReadEnd
         /\ pc["demux"] \in {"close", "endSound"} => Close("demux")
<1> USE DEF flagVars, resultVars, queueVars, stageVars, muxVars, clientVars
<1> pc \in [Stages -> StagePcs] /\ Hands /\ "demux" \in Stages
    /\ "demux" \in Producers
  BY DEF IInv, Types, TypeOK, Stages, Producers
<1>1. \A l : Goto("demux", l) => pc'["demux"] = l
  BY DEF Goto
<1>2. Return("demux", InQueue("demux")) \in {"gate", "top"}
      /\ \A items, l : Front("demux", items, l) = l
  BY DEF Return, Front
<1>3. pc["demux"] # "wait" /\ pc["demux"] # "drain"
  BY DEF Hands, Places, InLoop, Error
<1>4. CASE Leave("demux") \/ PassGate("demux") \/ Starve("demux")
             \/ Pausing("demux")
  BY <1>1, <1>2, <1>3, <1>4 DEF Leave, PassGate, Starve, Pausing, SeePause,
     StorePaused, WakeUp, StoreRunning, Moves
<1>5. CASE Failing("demux")
  BY <1>1, <1>5 DEF Failing, Raise, StoreError, ErrorCloses, ErrorClosed,
     ErrorResult
<1>6. CASE Demux
  BY <1>1, <1>2, <1>6 DEF Demux, OpenInput, ReadPacket, ReadEnd, Reads, Again,
     Fail
<1>7. CASE Pushed("demux")
  BY <1>1, <1>2, <1>3, <1>7 DEF Pushed, Again
<1>8. CASE Dropped("demux")
  BY <1>8, NoDrops
<1>9. CASE Close("demux")
  BY <1>9 DEF Close
<1>10. QED
  BY <1>4, <1>5, <1>6, <1>7, <1>8, <1>9
     DEF Stage, Loops, Produces, Workers, Stages

LEMMA WorkerEnds ==
  ASSUME IInv, ShouldRun, Closers, NEW s \in Workers, Stage(s),
         pc[s] \notin {"errState", "errClose", "errResult"}
  PROVE  /\ pc'[s] \in {"flush", "drain", "close", "gone"} =>
              Starve(s) \/ pc[s] \in {"flush", "drain", "close"}
         /\ pc'[s] \in {"drain", "close", "gone"} =>
              \/ held'[s] = <<>> \/ "flush" \in troubles'
              \/ UNCHANGED held /\ pc[s] \in {"drain", "close"}
<1> USE DEF flagVars, resultVars, queueVars, stageVars, muxVars, clientVars
<1> /\ pc \in [Stages -> StagePcs] /\ Hands /\ s \in Stages /\ s \in Producers
    /\ held \in [Workers -> Seq(Positions)] /\ s # "demux"
  BY Ways DEF IInv, Types, TypeOK, Producers, Workers
<1>1. \A l : Goto(s, l) => pc'[s] = l
  BY DEF Goto
<1>2. \A items : Return(s, items) \in {"gate", "top", "wait"}
      /\ \A l : Front(s, items, l) \in {"wait", l}
  BY DEF Return, Front
<1>3. CASE Starve(s)
  <2>1. UNCHANGED held /\ pc'[s] = Exit(s)
    BY <1>1, <1>3 DEF Starve
  <2>2. Exit(s) = IF held[s] = <<>> THEN "close" ELSE "flush"
    BY DEF Exit, Workers
  <2>3. QED
    BY <1>3, <2>1, <2>2
<1>4. CASE Leave(s) \/ PassGate(s) \/ Pausing(s)
  <2>1. pc'[s] \in {"top", "wait", "pop", "pausing", "paused", "rerun"}
    BY <1>1, <1>2, <1>4 DEF Leave, PassGate, Pausing, SeePause,
       StorePaused, WakeUp, StoreRunning, Moves
  <2>2. QED
    BY <2>1
<1>5. CASE Failing(s)
  BY <1>1, <1>5 DEF Failing, Raise, StoreError, ErrorCloses, ErrorClosed,
     ErrorResult
<1>6. CASE Convert(s)
  <2>1. pc'[s] \in {"push", "skip", "err", "gate", "top", "wait"}
    <3>1. \E l \in {Return(s, Tail(InQueue(s))), "err", "push", "skip"} :
            Goto(s, l)
      BY <1>6 DEF Convert, Fail
    <3>2. QED
      BY <1>1, <1>2, <3>1
  <2>2. QED
    BY <2>1
<1>7. CASE Flush(s)
  <2>1. pc[s] = "flush" /\ (held'[s] = <<>> \/ "flush" \in troubles')
    BY <1>7 DEF Flush, Trouble
  <2>2. QED
    BY <2>1
<1>8. CASE Pushed(s)
  <2>1. CASE pc[s] = "drain"
    BY <1>8, <2>1 DEF Pushed
  <2>2. CASE pc[s] # "drain"
    <3>1. pc'[s] \in {"count", "gate", "top", "wait"}
      BY <1>1, <1>2, <1>8, <2>2 DEF Pushed, Again
    <3>2. QED
      BY <3>1
  <2>3. QED
    BY <2>1, <2>2
<1>9. CASE Dropped(s)
  BY <1>9, NoDrops
<1>10. CASE Close(s)
  <2>1. pc[s] = "close" /\ UNCHANGED held
    BY <1>10 DEF Close, Hands, Places, InLoop, Error, Workers
  <2>2. QED
    BY <2>1
<1>11. CASE s = "encode" /\ Count
  <2>1. pc'[s] \in {"gate", "top", "wait"}
    BY <1>1, <1>2, <1>11 DEF Count, Again
  <2>2. QED
    BY <2>1
<1>12. QED
  BY <1>3, <1>4, <1>5, <1>6, <1>7, <1>8, <1>9, <1>10, <1>11
     DEF Stage, Loops, Worker, Produces, Workers

LEMMA ClosersStep ==
  ASSUME IInv, NEW s \in Stages, Stage(s), Sound'
  PROVE  Closers'
<1> pc \in [Stages -> StagePcs] /\ closed \in [Queues -> BOOLEAN] /\ Hands
  BY DEF IInv, Types, TypeOK
<1>1. Closers /\ ShouldRun
      /\ pc[s] \notin {"errState", "errClose", "errResult"}
  BY StillSound DEF Next
<1>2. StageStep(s)
  BY StageSteps
<1>3. \A r \in Stages : pc[r] = "gone" => pc'[r] = "gone"
  BY <1>2 DEF StageStep
<1>4. pc["demux"] = "endSound" => pc'["demux"] \in {"endSound", "gone"}
  <2>1. CASE s = "demux"
    <3>1. pc["demux"] = "endSound" => Close("demux")
      BY <1>1, <2>1, DemuxEnds
    <3>2. QED
      BY <2>1, <3>1 DEF Close, Goto
  <2>2. CASE s # "demux"
    BY <1>2, <2>2 DEF StageStep, Stages
  <2>3. QED
    BY <2>1, <2>2
<1>5. CASE UNCHANGED closed
  BY <1>1, <1>3, <1>4, <1>5 DEF Closers, Stages
<1>6. CASE Close(s)
  <2>1. s \in Producers
    BY <1>6 DEF Close, Hands, Places, InLoop, Error, MuxOut, Stages, Producers,
       Workers
  <2>2. CASE pc[s] = "close"
    <3>1. /\ closed' = [closed EXCEPT ![OutQueue(s)] = TRUE]
          /\ pc'[s] = IF s = "demux" THEN "endSound" ELSE "gone"
      BY <1>6, <2>2 DEF Close, Goto
    <3>2. OutQueue(s) \in Queues
      BY <2>1 DEF OutQueue, Producers, Workers, Queues
    <3>3. \A q \in Queues \ {OutQueue(s)} : closed'[q] = closed[q]
      BY <3>1, <3>2
    <3>4. QED
      BY <1>1, <1>3, <1>4, <2>1, <3>1, <3>3
         DEF Closers, OutQueue, Producers, Workers, Queues, Stages
  <2>3. CASE pc[s] = "endSound"
    <3>1. /\ closed' = [closed EXCEPT !["sound"] = TRUE] /\ pc'[s] = "gone"
          /\ s = "demux"
      BY <1>6, <2>1, <2>3 DEF Close, Goto, Hands, Places, InLoop, Error,
         Producers, Workers
    <3>2. QED
      BY <1>1, <1>3, <3>1 DEF Closers, Queues, Stages
  <2>4. QED
    BY <1>6, <2>2, <2>3 DEF Close
<1>7. QED
  BY <1>1, <1>2, <1>5, <1>6 DEF StageStep

LEMMA EndedStep ==
  ASSUME IInv, NEW s \in Stages, Stage(s), Sound'
  PROVE  Ended'
<1> pc \in [Stages -> StagePcs] /\ Hands
    /\ "mux" \in Stages /\ "demux" \in Stages /\ Workers \subseteq Stages
  BY Ways DEF IInv, Types, TypeOK, Stages
<1>1. Closers /\ ShouldRun /\ Ended /\ [Next]_vars
      /\ pc[s] \notin {"errState", "errClose", "errResult"}
  BY StillSound DEF Next
<1>2. StageStep(s) /\ troubles \subseteq troubles'
  BY <1>1, StageSteps, TroublesGrow
<1>3. \A q \in Queues : Starved(q) => Starved(q)'
  BY <1>1, StarvedStep
<1>4. ASSUME NEW r \in Stages \ {"demux"}, Starve(r) PROVE Starved(InOf(r))'
  <2>1. closed[InOf(r)] /\ InOf(r) \in Queues
        /\ (queue[InOf(r)] = <<>> \/ "timeout" \in troubles')
    BY <1>4, Ways DEF Starve, InQueue, Trouble
  <2>2. closed'[InOf(r)]
        /\ (queue[InOf(r)] = <<>> => queue'[InOf(r)] = <<>>)
    BY <1>1, <2>1, QueueEnds
  <2>3. QED
    BY <2>1, <2>2 DEF Starved
<1>5. pc'["demux"] \in {"close", "endSound", "gone"} /\ "read" \notin troubles'
        => next' > Len(Media)
  <2> SUFFICES ASSUME pc'["demux"] \in {"close", "endSound", "gone"},
                      "read" \notin troubles'
               PROVE  next' > Len(Media)
    OBVIOUS
  <2>1. CASE s = "demux" /\ ReadEnd
    BY <2>1 DEF ReadEnd, Trouble
  <2>2. CASE s = "demux" /\ ~ReadEnd
    <3>1. pc["demux"] \in {"close", "endSound"} /\ Close("demux")
      BY <1>1, <2>2, DemuxEnds
    <3>2. next' = next
      BY <3>1 DEF Close, NotWorker
    <3>3. QED
      BY <1>1, <1>2, <3>1, <3>2 DEF Ended
  <2>3. CASE s # "demux"
    <3>1. next' = next
      <4>1. ~ReadPacket \/ "push" = pc'["demux"]
              \/ pc'["demux"] \in {"gate", "top"}
        BY <1>1 DEF ReadPacket, Goto, Again, Return, Front
      <4>2. QED
        BY <1>1, <4>1, NextStep
    <3>2. pc'["demux"] = pc["demux"]
      BY <1>2, <2>3 DEF StageStep
    <3>3. QED
      BY <1>1, <1>2, <3>1, <3>2 DEF Ended
  <2>4. QED
    BY <2>1, <2>2, <2>3
<1>6. ASSUME NEW r \in Workers,
             pc'[r] \in {"flush", "drain", "close", "gone"}
      PROVE  Starved(InOf(r))'
  <2>1. InOf(r) \in Queues /\ r \in Stages \ {"demux"}
    BY Ways DEF Workers
  <2>2. CASE r = s
    BY <1>1, <1>3, <1>4, <1>6, <2>1, <2>2, WorkerEnds DEF Ended
  <2>3. CASE r # s
    BY <1>1, <1>2, <1>3, <1>6, <2>1, <2>3 DEF StageStep, Ended
  <2>4. QED
    BY <2>2, <2>3
<1>7. ASSUME NEW r \in Workers, pc'[r] \in {"drain", "close", "gone"},
             "flush" \notin troubles'
      PROVE  held'[r] = <<>>
  <2>1. CASE r = s
    BY <1>1, <1>2, <1>7, <2>1, WorkerEnds DEF Ended
  <2>2. CASE r # s
    <3>1. held'[r] = held[r]
      <4>1. held \in [Workers -> Seq(Positions)]
        BY SMTT(30) DEF IInv, Types, TypeOK
      <4>2. UNCHANGED held \/ (s \in Workers /\ (Convert(s) \/ Flush(s)))
        BY DEF Stage, Loops, Leave, PassGate, Starve, Pausing, Failing,
           SeePause, StorePaused, WakeUp, StoreRunning, Raise, StoreError,
           ErrorCloses, ErrorClosed, ErrorResult, Finish, Moves, Demux,
           OpenInput, ReadPacket, ReadEnd, NotDemux, Produces, Pushed, Dropped,
           Close, Worker, Count, Writer, Take, Write, NotWriter, MuxEnd,
           Finalize, CloseMuxer, Decide, StoreCompleted, CleanCheckpoint,
           Complete, NotMuxEnd, stageVars
      <4>3. QED
        BY <2>2, <4>1, <4>2 DEF Convert, Flush
    <3>2. QED
      BY <1>1, <1>2, <1>7, <2>2, <3>1 DEF StageStep, Ended
  <2>3. QED
    BY <2>1, <2>2
<1>8. ASSUME pc'["mux"] \in MuxOut \cup {"gone"} PROVE Starved("encoded")'
  <2>1. "encoded" \in Queues /\ InOf("mux") = "encoded"
    BY DEF Queues, InOf
  <2>2. CASE s = "mux"
    BY <1>1, <1>3, <1>4, <1>8, <2>1, <2>2, MuxMoves DEF Ended, MuxOut
  <2>3. CASE s # "mux"
    BY <1>1, <1>2, <1>3, <1>8, <2>1, <2>3 DEF StageStep, Ended
  <2>4. QED
    BY <2>2, <2>3
<1>9. QED
  BY <1>5, <1>6, <1>7, <1>8 DEF Ended

LEMMA EndChainStep ==
  ASSUME IInv, [Next]_vars
  PROVE  EndChain'
<1> USE DEF flagVars, resultVars, queueVars, stageVars, muxVars, clientVars
<1> SUFFICES ASSUME Sound' PROVE Closers' /\ Ended'
  BY DEF EndChain
<1>1. Sound /\ Closers /\ Ended /\ ShouldRun /\ ui = "idle"
  BY StillSound
<1>2. ASSUME NEW s \in Stages, Stage(s) PROVE Closers' /\ Ended'
  BY <1>2, ClosersStep, EndedStep
<1>3. ASSUME Runner \/ SpuriousWakeUp
      PROVE UNCHANGED <<closed, queue, held, next>>
  BY <1>3 DEF Runner, Configure, StartReset, StartMuxer, Launch, Wait,
     SpuriousWakeUp, NotRunner
<1>4. CASE Launch
  <2>1. Fresh
    BY <1>4 DEF Launch, IInv, Launched, Setup
  <2>2. \A q \in Queues : ~closed'[q]
    BY <1>1, <1>3, <1>4, <2>1 DEF Fresh, Closers, Queues, Stages, Runner
  <2>3. /\ pc'["demux"] = "open"
        /\ \A s \in Workers \cup {"mux"} : pc'[s] \in {"gate", "top", "wait"}
    BY <1>1, <1>4 DEF Launch, Return, Front, Stages, Workers
  <2>4. Ended'
    BY <2>3 DEF Ended, MuxOut
  <2>5. QED
    BY <2>2, <2>4 DEF Closers, Queues
<1>5. CASE UNCHANGED <<closed, pc, held, next>>
  <2>1. Closers'
    BY <1>1, <1>5 DEF Closers
  <2>2. \A q \in Queues : Starved(q) => Starved(q)'
    BY StarvedStep
  <2>3. \A s \in Workers : InOf(s) \in Queues
    BY Ways
  <2>4. troubles \subseteq troubles' /\ "encoded" \in Queues
    BY TroublesGrow DEF Queues
  <2>5. Ended'
    BY <1>1, <1>5, <2>2, <2>3, <2>4 DEF Ended
  <2>6. QED
    BY <2>1, <2>5
<1>6. CASE Configure \/ StartReset \/ StartMuxer \/ Wait \/ SpuriousWakeUp
  BY <1>5, <1>6 DEF Configure, StartReset, StartMuxer, Wait, SpuriousWakeUp,
     NotRunner
<1>7. CASE User
  <2>1. ~Cancelling
    BY <1>1 DEF Cancelling, CancelResumes, CancelCloses, CancelDone
  <2>2. UNCHANGED <<closed, pc, held, next>>
    BY <1>7, <2>1 DEF User, Pause, Resume, Cancel, NotUi
  <2>3. QED
    BY <1>5, <2>2
<1>8. CASE UNCHANGED vars
  BY <1>5, <1>8 DEF vars
<1>9. QED
  BY <1>2, <1>4, <1>6, <1>7, <1>8 DEF Next, Runner

-----------------------------------------------------------------------------
(* The packets on their way.                                               *)
Clean == ~Cancelled /\ ~Failed

LEMMA StillClean ==
  ASSUME IInv, [Next]_vars, Clean'
  PROVE  /\ Clean /\ Sound /\ Closers
         /\ \A s \in Stages : pc'[s] # "err"
<1> pc \in [Stages -> StagePcs]
  BY DEF IInv, Types, TypeOK
<1>1. Sound /\ Closers
  BY StillSound DEF Clean, Sound, Failed
<1>2. \A s \in Stages : pc'[s] # "err"
  BY DEF Clean, Failed
<1>3. ASSUME NEW r \in Stages, pc[r] = "err" PROVE FALSE
  <2>1. ASSUME NEW s \in Stages, Stage(s) PROVE FALSE
    <3>1. CASE r = s
      <4>1. errorFlag'
        BY <1>3, <2>1, <3>1, ErrorMoves DEF Error
      <4>2. QED
        BY <4>1 DEF Clean, Failed
    <3>2. CASE r # s
      BY <1>2, <1>3, <2>1, <3>2, StageSteps DEF StageStep
    <3>3. QED
      BY <3>1, <3>2
  <2>2. CASE Launch
    BY <1>3, <2>2 DEF Launch, IInv, Launched, Setup, Fresh
  <2>3. CASE (Runner /\ ~Launch) \/ SpuriousWakeUp \/ User \/ UNCHANGED vars
    <3>1. UNCHANGED pc
      BY <2>3 DEF Runner, Configure, StartReset, StartMuxer, Wait,
         SpuriousWakeUp, User, Pause, Resume, Cancel, Cancelling,
         CancelResumes, CancelCloses, CancelDone, NotUi, vars, stageVars
    <3>2. QED
      BY <1>2, <1>3, <3>1
  <2>4. QED
    BY <2>1, <2>2, <2>3 DEF Next
<1>4. QED
  BY <1>1, <1>2, <1>3 DEF Clean, Sound, Failed

LEMMA CatIs ==
  \A a, b, c \in Seq(Positions) :
    Cat(a, b) \in Seq(Positions) /\ Cat(Cat(a, b), c) = Cat(a, Cat(b, c))
<1>1. \A a, b \in Seq(Positions) : Cat(a, b) \in Seq(Positions)
  BY ConcatProperties DEF Cat
<1>2. \A a, b, c \in Seq(Positions) : Cat(Cat(a, b), c) = Cat(a, Cat(b, c))
  BY Regroup DEF Cat
<1>3. QED
  BY <1>1, <1>2

LEMMA CatMoves ==
  \A a, b, c, k \in Seq(Positions) :
    Cat(Cat(a, k), Cat(b, c)) = Cat(a, Cat(Cat(k, b), c))
<1> TAKE a, b, c, k \in Seq(Positions)
<1>1. Cat(b, c) \in Seq(Positions) /\ Cat(Cat(k, b), c) = Cat(k, Cat(b, c))
  BY CatIs
<1>2. Cat(Cat(a, k), Cat(b, c)) = Cat(a, Cat(k, Cat(b, c)))
  BY <1>1, CatIs
<1>3. QED
  BY <1>1, <1>2

LEMMA ReadMore ==
  ASSUME IInv, ReadPacket, NEW t
  PROVE  OfStream(t, ReadSoFar)'
           = IF Media[next] = t THEN OfStream(t, ReadSoFar) \o <<next>>
             ELSE OfStream(t, ReadSoFar)
<1>1. next \in Nat \ {0} /\ next <= Len(Media) /\ next' = next + 1
      /\ Len(Media) \in Nat /\ next \in Positions
  BY ReadFlow, TranscodeAssumption, LenProperties
     DEF IInv, Types, TypeOK, ReadPacket
<1> DEFINE f == [i \in 1 .. next - 1 |-> i]
           g == [i \in 1 .. next |-> i]
<1>2. f \in Seq(Positions) /\ Len(f) = next - 1
  BY <1>1 DEF Positions
<1>3. g \in Seq(Positions) /\ Len(g) = next
  BY <1>1 DEF Positions
<1>4. Append(f, next) = g
  <2>1. Append(f, next) \in Seq(Positions) /\ Len(Append(f, next)) = next
    BY <1>1, <1>2, AppendProperties
  <2>2. ASSUME NEW i \in 1 .. next PROVE Append(f, next)[i] = g[i]
    BY <1>1, <1>2, AppendProperties
  <2> HIDE DEF f, g
  <2>3. QED
    BY <1>3, <2>1, <2>2, SeqEqual
<1>5. ReadSoFar = f /\ ReadSoFar' = g
  BY <1>1 DEF ReadSoFar
<1> HIDE DEF f, g
<1>6. OfStream(t, Append(f, next))
        = IF Media[next] = t
          THEN Append(OfStream(t, f), next)
          ELSE OfStream(t, f)
  BY <1>1, <1>2, SiftAppend
<1>7. Append(OfStream(t, f), next) = OfStream(t, f) \o <<next>>
  BY <1>1, <1>2, SiftType, AppendIsConcat
<1>8. OfStream(t, ReadSoFar)' = OfStream(t, g)
        /\ OfStream(t, ReadSoFar) = OfStream(t, f)
  BY <1>5 DEF OfStream
<1>9. QED
  BY <1>4, <1>6, <1>7, <1>8

LEMMA OneSifted ==
  ASSUME NEW t, NEW i \in Positions
  PROVE  OfStream(t, <<i>>) = IF Media[i] = t THEN <<i>> ELSE <<>>
<1>1. <<>> \in Seq(Positions) /\ <<i>> = Append(<<>>, i)
  BY EmptySeq
<1>2. OfStream(t, Append(<<>>, i))
        = IF Media[i] = t
          THEN Append(OfStream(t, <<>>), i)
          ELSE OfStream(t, <<>>)
  BY <1>1, SiftAppend
<1>3. QED
  BY <1>1, <1>2, SiftEmpty

LEMMA SiftParts ==
  ASSUME NEW t, NEW a \in Seq(Positions), NEW i \in Positions
  PROVE  OfStream(t, <<i>> \o a)
           = IF Media[i] = t
             THEN Cat(<<i>>, OfStream(t, a))
             ELSE OfStream(t, a)
<1> DEFINE one == <<i>>
<1>1. one \in Seq(Positions)
  OBVIOUS
<1>2. OfStream(t, one) = IF Media[i] = t THEN one ELSE <<>>
  BY OneSifted
<1> HIDE DEF one
<1>3. OfStream(t, one \o a) = OfStream(t, one) \o OfStream(t, a)
  BY <1>1, SiftConcat
<1>4. <<>> \o OfStream(t, a) = OfStream(t, a)
  BY SiftType, ConcatEmptySeq
<1>5. QED
  BY <1>2, <1>3, <1>4 DEF Cat, one

(* A packet goes to the next stage: it leaves one part and ends another.   *)
LEMMA PushParts ==
  ASSUME IInv, NEW s \in Producers, Pushed(s)
  PROVE  \E i \in Positions :
           /\ <<i>> \in Seq(Positions) /\ ~closed[OutOf(s, i)]
           /\ Part(s) = Cat(<<i>>, Part(s)')
           /\ Part(To(s, i))' = Cat(Part(To(s, i)), <<i>>)
           /\ Rest({s, To(s, i)}) /\ UNCHANGED <<output, next>>
           /\ \A t : OfStream(t, Part(s))
                = IF Media[i] = t THEN Cat(<<i>>, OfStream(t, Part(s)'))
                  ELSE OfStream(t, Part(s)')
           /\ Media[i] \in {"video", "audio"}
<1> Items /\ Items'
  BY ItemsStep, Ways DEF IInv, Types, TypeOK, Items, Next, Stage, Worker,
     Produces, Producers
<1>1. PICK i \in Positions :
        /\ Part(s) = <<i>> \o Part(s)' /\ ~closed[OutOf(s, i)]
        /\ Part(To(s, i))' = Append(Part(To(s, i)), i)
        /\ Rest({s, To(s, i)}) /\ UNCHANGED <<output, next>>
  BY PushFlow
<1>2. To(s, i) \in Stages /\ s \in Stages
  BY Routes, Ways
<1>3. Part(s)' \in Seq(Positions) /\ Part(To(s, i)) \in Seq(Positions)
  BY <1>2, PartType, PartTypeAfter
<1>4. Append(Part(To(s, i)), i) = Part(To(s, i)) \o <<i>>
  BY <1>3, AppendIsConcat
<1>5. \A t : OfStream(t, Part(s))
          = IF Media[i] = t THEN Cat(<<i>>, OfStream(t, Part(s)'))
            ELSE OfStream(t, Part(s)')
  BY <1>1, <1>3, SiftParts
<1>6. Media[i] \in {"video", "audio"} /\ <<i>> \in Seq(Positions)
  BY TranscodeAssumption DEF Positions
<1>7. /\ Part(s) = Cat(<<i>>, Part(s)')
      /\ Part(To(s, i))' = Cat(Part(To(s, i)), <<i>>)
  BY <1>1, <1>4 DEF Cat
<1>8. QED
  BY <1>1, <1>5, <1>6, <1>7

LEMMA VideoStep ==
  ASSUME IInv, [Next]_vars, Clean'
  PROVE  VideoLine' = OfStream("video", ReadSoFar)'
<1> Items /\ Items' /\ Kinded /\ Hands /\ pc \in [Stages -> StagePcs]
  BY ItemsStep DEF IInv, Types, TypeOK, Items
<1> Closers /\ VideoLine = OfStream("video", ReadSoFar)
    /\ \A s \in Stages : pc'[s] # "err"
  BY StillClean DEF IInv, Kept, Clean
<1> {"demux", "decode", "vsr", "encode", "mux", "audio"} \subseteq Stages
  BY DEF Stages
<1> DEFINE o  == OfStream("video", output[0])
           m  == Part("mux")
           e  == Part("encode")
           v  == Part("vsr")
           d  == Part("decode")
           x  == OfStream("video", Part("demux"))
           r  == OfStream("video", ReadSoFar)
           o1 == OfStream("video", output'[0])
           x1 == OfStream("video", Part("demux")')
<1>1. /\ o \in Seq(Positions) /\ m \in Seq(Positions) /\ e \in Seq(Positions)
      /\ v \in Seq(Positions) /\ d \in Seq(Positions) /\ x \in Seq(Positions)
  BY PartType, SiftType DEF Items
<1> DEFINE dx == Cat(d, x)
           vx == Cat(v, dx)
           ex == Cat(e, vx)
           mx == Cat(m, ex)
<1>1a. /\ dx \in Seq(Positions) /\ vx \in Seq(Positions)
      /\ ex \in Seq(Positions) /\ mx \in Seq(Positions)
  <2> HIDE DEF o, m, e, v, d, x
  <2>1. dx \in Seq(Positions)
    BY <1>1, CatIs
  <2> HIDE DEF dx
  <2>2. vx \in Seq(Positions)
    BY <1>1, <2>1, CatIs
  <2> HIDE DEF vx
  <2>3. ex \in Seq(Positions)
    BY <1>1, <2>2, CatIs
  <2> HIDE DEF ex
  <2>4. mx \in Seq(Positions)
    BY <1>1, <2>3, CatIs
  <2>5. QED
    BY <2>1, <2>2, <2>3, <2>4
<1>2. /\ m' \in Seq(Positions) /\ e' \in Seq(Positions)
           /\ v' \in Seq(Positions)
      /\ d' \in Seq(Positions) /\ x1 \in Seq(Positions)
  BY PartTypeAfter, SiftType
<1>3. o' = o1 /\ x' = x1
  BY DEF OfStream
<1>4. Cat(o, mx) = r
  BY DEF VideoLine, Cat
<1> DEFINE Goal == Cat(o1, Cat(m', Cat(e', Cat(v', Cat(d', x1))))) = r'
<1>5. SUFFICES Goal
  BY <1>3 DEF VideoLine, Cat
<1>6. UNCHANGED next => r' = r
  BY DEF ReadSoFar, OfStream
<1>7. ASSUME Rest({}), UNCHANGED <<output, next>>
      PROVE  Goal
  BY <1>4, <1>6, <1>7 DEF Rest
<1>8. CASE ReadPacket
  <2>1. /\ next \in Positions /\ UNCHANGED output /\ Rest({"demux"})
        /\ Part("demux") = <<>>
        /\ IF Media[next] = "video" \/ HasAudio
           THEN Part("demux")' = <<next>> ELSE Part("demux")' = <<>>
    BY <1>8, ReadFlow
  <2>2. m' = m /\ e' = e /\ v' = v /\ d' = d /\ o1 = o
    BY <2>1 DEF Rest
  <2>3. r' = IF Media[next] = "video" THEN r \o <<next>> ELSE r
    BY <1>8, ReadMore
  <2>4. x = <<>>
    BY <2>1, SiftEmpty
  <2>5. x1 = IF Media[next] = "video" THEN <<next>> ELSE <<>>
    BY <2>1, SiftEmpty, OneSifted
  <2>6. <<next>> \in Seq(Positions)
    BY <2>1
  <2> DEFINE n == <<next>>
  <2>7. Cat(x, n) = n
    BY <2>4, <2>6, ConcatEmptySeq DEF Cat
  <2>8. n \in Seq(Positions)
    BY <2>6
  <2>9. CASE Media[next] = "video"
    <3>1. x1 = n /\ r' = Cat(r, n)
      BY <2>3, <2>5, <2>9 DEF Cat
    <3> HIDE DEF o, m, e, v, d, x, r, o1, x1, n
    <3>2. Cat(d, n) = Cat(dx, n)
      BY <1>1, <2>7, <2>8, CatIs
    <3> HIDE DEF dx
    <3>3. Cat(v, Cat(dx, n)) = Cat(vx, n)
      BY <1>1, <1>1a, <2>8, CatIs
    <3> HIDE DEF vx
    <3>4. Cat(e, Cat(vx, n)) = Cat(ex, n)
      BY <1>1, <1>1a, <2>8, CatIs
    <3> HIDE DEF ex
    <3>5. Cat(m, Cat(ex, n)) = Cat(mx, n)
      BY <1>1, <1>1a, <2>8, CatIs
    <3> HIDE DEF mx
    <3>6. Cat(o, Cat(mx, n)) = Cat(Cat(o, mx), n)
      BY <1>1, <1>1a, <2>8, CatIs
    <3>7. QED
      BY <1>4, <2>2, <3>1, <3>2, <3>3, <3>4, <3>5, <3>6
  <2>10. CASE Media[next] # "video"
    <3>1. x1 = x /\ r' = r
      BY <2>3, <2>4, <2>5, <2>10
    <3>2. QED
      BY <1>4, <2>2, <3>1
  <2>11. QED
    BY <2>9, <2>10
<1>9. ASSUME NEW s \in Workers, Convert(s) \/ Flush(s)
      PROVE  Goal
  <2>1. Rest({}) /\ UNCHANGED <<output, next>>
    BY <1>9, WorkFlow, Ways DEF Rest
  <2>2. QED
    BY <1>7, <2>1
<1>10. ASSUME NEW s \in Producers, Pushed(s)
       PROVE  Goal
  <2>1. PICK i \in Positions :
           /\ <<i>> \in Seq(Positions)
           /\ Part(s) = Cat(<<i>>, Part(s)')
           /\ Part(To(s, i))' = Cat(Part(To(s, i)), <<i>>)
           /\ Rest({s, To(s, i)}) /\ UNCHANGED <<output, next>>
           /\ \A t : OfStream(t, Part(s))
                = IF Media[i] = t THEN Cat(<<i>>, OfStream(t, Part(s)'))
                  ELSE OfStream(t, Part(s)')
           /\ Media[i] \in {"video", "audio"}
    BY <1>10, PushParts
  <2>2. o1 = o /\ r' = r
    BY <1>6, <2>1
  <2> DEFINE h == <<i>>
  <2>3. h \in Seq(Positions)
    BY <2>1
  <2>4. CASE s = "encode"
    <3>1. To(s, i) = "mux"
      BY <2>4 DEF To
    <3>2. m' = Cat(m, h) /\ e = Cat(h, e') /\ v' = v /\ d' = d /\ x1 = x
      BY <2>1, <2>4, <3>1 DEF Rest
    <3> HIDE DEF o, m, e, v, d, x, r, o1, x1, h
    <3> HIDE DEF vx
    <3>3. Cat(Cat(m, h), Cat(e', vx)) = Cat(m, Cat(Cat(h, e'), vx))
      BY SMTT(30), <1>1, <1>2, <1>1a, <2>3, CatMoves
    <3>4. QED
      BY <1>4, <2>2, <3>2, <3>3 DEF dx, vx
  <2>5. CASE s = "vsr"
    <3>1. To(s, i) = "encode"
      BY <2>5 DEF To
    <3>2. e' = Cat(e, h) /\ v = Cat(h, v') /\ m' = m /\ d' = d /\ x1 = x
      BY <2>1, <2>5, <3>1 DEF Rest
    <3> HIDE DEF o, m, e, v, d, x, r, o1, x1, h
    <3> HIDE DEF dx
    <3>3. Cat(Cat(e, h), Cat(v', dx)) = Cat(e, Cat(Cat(h, v'), dx))
      BY SMTT(30), <1>1, <1>2, <1>1a, <2>3, CatMoves
    <3>4. QED
      BY <1>4, <2>2, <3>2, <3>3 DEF dx, vx
  <2>6. CASE s = "decode"
    <3>1. To(s, i) = "vsr"
      BY <2>6 DEF To
    <3>2. v' = Cat(v, h) /\ d = Cat(h, d') /\ m' = m /\ e' = e /\ x1 = x
      BY <2>1, <2>6, <3>1 DEF Rest
    <3> HIDE DEF o, m, e, v, d, x, r, o1, x1, h
    <3>3. Cat(Cat(v, h), Cat(d', x)) = Cat(v, Cat(Cat(h, d'), x))
      BY <1>1, <1>2, <2>3, CatMoves
    <3>4. QED
      BY <1>4, <2>2, <3>2, <3>3 DEF dx, vx
  <2>7. CASE s = "demux" /\ Media[i] = "video"
    <3>1. To(s, i) = "decode"
      BY <2>7 DEF To
    <3>2. d' = Cat(d, h) /\ x = Cat(h, x1) /\ m' = m /\ e' = e /\ v' = v
      BY <2>1, <2>7, <3>1 DEF Rest
    <3> HIDE DEF o, m, e, v, d, x, r, o1, x1, h
    <3>3. Cat(Cat(d, h), x1) = Cat(d, Cat(h, x1))
      BY <1>1, <1>2, <2>3, CatIs
    <3>4. QED
      BY <1>4, <2>2, <3>2, <3>3 DEF dx, vx
  <2>8. CASE s = "demux" /\ Media[i] # "video"
    <3>1. To(s, i) = "audio"
      BY <2>8 DEF To
    <3>2. d' = d /\ x = x1 /\ m' = m /\ e' = e /\ v' = v
      BY <2>1, <2>8, <3>1 DEF Rest
    <3>3. QED
      BY <1>4, <2>2, <3>2
  <2>9. QED
    BY <2>4, <2>5, <2>6, <2>7, <2>8 DEF Producers, Workers
<1>11. ASSUME NEW s \in Producers, Dropped(s) PROVE FALSE
  BY <1>11, NoDrops
<1>12. CASE Write("mux")
  <2> "mux" \in Writers
    BY DEF Writers
  <2>1. /\ hand["mux"] \in Seq(Positions)
             /\ Part("mux") = hand["mux"] \o Part("mux")'
        /\ Rest({"mux"}) /\ UNCHANGED next
    BY <1>12, WriteFlow
  <2>2. output'[0] = output[0] \o hand["mux"]
    BY <1>12, WriteSplit DEF StreamOf
  <2>3. All("video", hand["mux"])
    <3>1. All("video", hand["mux"] \o Part("mux")')
      BY <2>1 DEF Kinded
    <3>2. QED
      BY <1>2, <2>1, <3>1, AllParts
  <2> DEFINE h == hand["mux"]
  <2>4. o1 = Cat(o, h)
    <3>1. output[0] \in Seq(Positions)
      BY DEF Items
    <3>2. OfStream("video", output[0] \o hand["mux"])
            = OfStream("video", output[0]) \o hand["mux"]
      BY <2>1, <2>3, <3>1, SiftMore
    <3>3. QED
      BY <2>2, <3>2 DEF Cat
  <2>5. m = Cat(h, m') /\ e' = e /\ v' = v /\ d' = d /\ x1 = x /\ r' = r
        /\ h \in Seq(Positions)
    BY <1>6, <2>1 DEF Rest, Cat
  <2> HIDE DEF o, m, e, v, d, x, r, o1, x1, h
  <2> HIDE DEF ex
  <2>6. Cat(Cat(o, h), Cat(m', ex)) = Cat(o, Cat(Cat(h, m'), ex))
    BY <1>1, <1>2, <1>1a, <2>5, CatMoves
  <2>7. QED
    BY <1>4, <2>4, <2>5, <2>6 DEF ex
<1>13. CASE Write("audio")
  <2> "audio" \in Writers
    BY DEF Writers
  <2>1. /\ hand["audio"] \in Seq(Positions)
        /\ Part("audio") = hand["audio"] \o Part("audio")'
        /\ Rest({"audio"}) /\ UNCHANGED next
    BY <1>13, WriteFlow
  <2>2. All("audio", hand["audio"])
    <3>1. All("audio", hand["audio"] \o Part("audio")')
      BY <2>1 DEF Kinded
    <3>2. Part("audio")' \in Seq(Positions)
      BY PartTypeAfter
    <3>3. QED
      BY <2>1, <3>1, <3>2, AllParts
  <2>3. output'[0] = output[0] \o hand["audio"] \/ output'[0] = output[0]
    <3>1. StreamOf("audio") \in {0, 1}
      BY DEF StreamOf, IInv, Types, TypeOK
    <3>2. StreamOf("audio") = 0 \/ 1 - StreamOf("audio") = 0
      BY <3>1
    <3>3. QED
      BY <1>13, <3>2, WriteSplit
  <2>4. o1 = o
    <3>1. OfStream("video", output[0] \o hand["audio"])
            = OfStream("video", output[0])
      BY <2>1, <2>2, SiftSame DEF Items
    <3>2. QED
      BY <2>3, <3>1
  <2>5. m = m' /\ e' = e /\ v' = v /\ d' = d /\ x1 = x /\ r' = r
    BY <1>6, <2>1 DEF Rest
  <2>6. QED
    BY <1>4, <2>4, <2>5
<1>14. ASSUME NEW s \in Writers, Take(s)
       PROVE  Goal
  BY <1>7, <1>14, TakeFlow
<1> HIDE DEF Goal
<1>15. CASE Rest({}) /\ UNCHANGED <<output, next>>
  BY <1>7, <1>15
<1>16. QED
  BY <1>8, <1>9, <1>10, <1>11, <1>12, <1>13, <1>14, <1>15, Steps, StillFlow
     DEF Demux, Produces, Writer, Writers

LEMMA AudioStep ==
  ASSUME IInv, [Next]_vars, Clean', muxer' # "closed",
           "write" \notin troubles',
         HasAudio
  PROVE  AudioLine' = OfStream("audio", ReadSoFar)'
<1> /\ Items /\ Items' /\ Kinded /\ Hands /\ pc \in [Stages -> StagePcs]
    /\ audioStream \in {0, 1}
  BY ItemsStep DEF IInv, Types, TypeOK, Items
<1> Closers /\ \A s \in Stages : pc'[s] # "err"
  BY StillClean
<1> "write" \notin troubles
  BY TroublesGrow
<1> {"demux", "decode", "vsr", "encode", "mux", "audio"} \subseteq Stages
  BY DEF Stages
<1>1. CASE StartMuxer
  <2>1. Fresh /\ Rest({}) /\ UNCHANGED <<output, next>>
    BY <1>1, StillFlow DEF StartMuxer, IInv, Launched, Setup, Runner
  <2>2. audioStream' \in {0, 1}
    BY SwitchesStep DEF Switches
  <2>3. output'[audioStream'] = <<>>
    BY <2>1, <2>2 DEF Fresh
  <2>4. /\ Part("audio") = (<<>> \o <<>>) \o <<>>
        /\ Part("demux") = (<<>> \o <<>>) \o <<>>
    BY <2>1 DEF Fresh, Part, Held, InQueue, InOf, Queues, Workers
  <2>5. \A a \in Seq(Positions) : a \o <<>> = a
    BY ConcatEmptySeq
  <2>6. <<>> \in Seq(Positions)
    BY EmptySeq
  <2>7. Part("audio") = <<>> /\ Part("demux") = <<>>
    BY <2>4, <2>5, <2>6
  <2>8. Part("audio")' = <<>> /\ Part("demux")' = <<>>
    BY <2>1, <2>7 DEF Rest
  <2>9. AudioLine'
          = OfStream("audio", <<>>) \o (<<>> \o OfStream("audio", <<>>))
    <3>1. /\ OfStream("audio", output[audioStream])'
               = OfStream("audio", output'[audioStream'])
          /\ OfStream("audio", Part("demux"))'
               = OfStream("audio", Part("demux")')
      BY DEF OfStream
    <3>2. QED
      BY <2>3, <2>8, <3>1 DEF AudioLine
  <2>10. AudioLine' = <<>>
    BY <2>5, <2>6, <2>9, SiftEmpty
  <2>11. ReadSoFar' = <<>>
    BY <2>1, EmptySeq DEF Fresh, ReadSoFar
  <2>12. OfStream("audio", ReadSoFar)' = OfStream("audio", <<>>)
    BY <2>11 DEF OfStream
  <2>13. QED
    BY <2>10, <2>12, SiftEmpty
<1>2. CASE ~StartMuxer
  <2> DEFINE o  == OfStream("audio", output[audioStream])
             a  == Part("audio")
             x  == OfStream("audio", Part("demux"))
             r  == OfStream("audio", ReadSoFar)
             o1 == OfStream("audio", output'[audioStream'])
             x1 == OfStream("audio", Part("demux")')
             ax == Cat(a, x)
             Goal == Cat(o1, Cat(a', x1)) = r'
  <2>1. muxer # "closed" /\ audioStream' = audioStream
    <3>1. ASSUME NEW s \in Stages, Stage(s)
          PROVE  muxer # "closed" /\ audioStream' = audioStream
      BY <3>1, StageSteps DEF StageStep
    <3>2. CASE Runner \/ SpuriousWakeUp \/ User \/ UNCHANGED vars
      BY <1>2, <3>2 DEF Runner, Configure, StartReset, Launch, Wait,
         SpuriousWakeUp, User, Pause, Resume, Cancel, Cancelling,
         CancelResumes, CancelCloses, CancelDone, NotUi, vars, muxVars
    <3>3. QED
      BY <3>1, <3>2 DEF Next
  <2>2. AudioLine = r
    BY <2>1, StillClean DEF IInv, Kept, Clean
  <2>3. /\ o \in Seq(Positions) /\ a \in Seq(Positions) /\ x \in Seq(Positions)
        /\ a' \in Seq(Positions) /\ x1 \in Seq(Positions)
    BY PartType, PartTypeAfter, SiftType DEF Items
  <2>4. Cat(o, ax) = r
    BY <2>2 DEF AudioLine, Cat
  <2>5. o' = o1 /\ x' = x1
    BY DEF OfStream
  <2>6. SUFFICES Goal
    BY <2>5 DEF AudioLine, Cat
  <2>7. UNCHANGED next => r' = r
    BY DEF ReadSoFar, OfStream
  <2>8. UNCHANGED output => o1 = o
    BY <2>1
  <2>9. ASSUME Rest({}), UNCHANGED <<output, next>> PROVE Goal
    <3>1. a' = a /\ x1 = x /\ o1 = o /\ r' = r
      BY <2>7, <2>8, <2>9 DEF Rest
    <3>2. QED
      BY <2>4, <3>1
  <2>10. CASE ReadPacket
    <3>1. /\ next \in Positions /\ UNCHANGED output /\ Rest({"demux"})
          /\ Part("demux") = <<>> /\ Part("demux")' = <<next>>
      BY <2>10, ReadFlow
    <3>2. a' = a /\ o1 = o
      BY <2>8, <3>1 DEF Rest
    <3>3. r' = IF Media[next] = "audio" THEN r \o <<next>> ELSE r
      BY <2>10, ReadMore
    <3>4. x = <<>>
      BY <3>1, SiftEmpty
    <3>5. x1 = IF Media[next] = "audio" THEN <<next>> ELSE <<>>
      BY <3>1, OneSifted
    <3> DEFINE n == <<next>>
    <3>6. n \in Seq(Positions)
      BY <3>1
    <3>7. Cat(x, n) = n
      BY <3>4, <3>6, ConcatEmptySeq DEF Cat
    <3>8. CASE Media[next] = "audio"
      <4>1. x1 = n /\ r' = Cat(r, n)
        BY <3>3, <3>5, <3>8 DEF Cat
      <4> HIDE DEF o, a, x, r, o1, x1, n
      <4>2. Cat(a, n) = Cat(ax, n) /\ ax \in Seq(Positions)
        BY <2>3, <3>6, <3>7, CatIs
      <4> HIDE DEF ax
      <4>3. Cat(o, Cat(ax, n)) = Cat(Cat(o, ax), n)
        BY <2>3, <3>6, <4>2, CatIs
      <4>4. QED
        BY <2>4, <3>2, <4>1, <4>2, <4>3
    <3>9. CASE Media[next] # "audio"
      <4>1. x1 = x /\ r' = r
        BY <3>3, <3>4, <3>5, <3>9
      <4>2. QED
        BY <2>4, <3>2, <4>1
    <3>10. QED
      BY <3>8, <3>9
  <2>11. ASSUME NEW s \in Workers, Convert(s) \/ Flush(s) PROVE Goal
    <3>1. Rest({}) /\ UNCHANGED <<output, next>>
      BY <2>11, WorkFlow, Ways DEF Rest
    <3>2. QED
      BY <2>9, <3>1
  <2>12. ASSUME NEW s \in Producers, Pushed(s) PROVE Goal
    <3>1. PICK i \in Positions :
           /\ <<i>> \in Seq(Positions)
           /\ Part(s) = Cat(<<i>>, Part(s)')
           /\ Part(To(s, i))' = Cat(Part(To(s, i)), <<i>>)
           /\ Rest({s, To(s, i)}) /\ UNCHANGED <<output, next>>
           /\ \A t : OfStream(t, Part(s))
                = IF Media[i] = t THEN Cat(<<i>>, OfStream(t, Part(s)'))
                  ELSE OfStream(t, Part(s)')
           /\ Media[i] \in {"video", "audio"}
      BY <2>12, PushParts
    <3>2. o1 = o /\ r' = r
      BY <2>7, <2>8, <3>1
    <3>3. CASE s # "demux"
      <4>1. To(s, i) # "audio" /\ To(s, i) # "demux" /\ s # "audio"
        BY <3>3 DEF To, Producers, Workers
      <4>2. a' = a /\ x1 = x
        BY <3>1, <3>3, <4>1 DEF Rest
      <4>3. QED
        BY <2>4, <3>2, <4>2
    <3>4. CASE s = "demux" /\ Media[i] # "audio"
      <4>1. To(s, i) = "decode"
        BY <3>1, <3>4 DEF To
      <4>2. a' = a /\ x1 = x
        BY <3>1, <3>4, <4>1 DEF Rest
      <4>3. QED
        BY <2>4, <3>2, <4>2
    <3>5. CASE s = "demux" /\ Media[i] = "audio"
      <4> DEFINE h == <<i>>
      <4>1. To(s, i) = "audio"
        BY <3>5 DEF To
      <4>2. a' = Cat(a, h) /\ x = Cat(h, x1) /\ h \in Seq(Positions)
        BY <3>1, <3>5, <4>1
      <4> HIDE DEF o, a, x, r, o1, x1, h
      <4>3. Cat(Cat(a, h), x1) = Cat(a, Cat(h, x1))
        BY <2>3, <4>2, CatIs
      <4>4. QED
        BY <2>4, <3>2, <4>2, <4>3
    <3>6. QED
      BY <3>3, <3>4, <3>5
  <2>13. ASSUME NEW s \in Producers, Dropped(s) PROVE FALSE
    BY <2>13, NoDrops
  <2>14. CASE Write("mux")
    <3> "mux" \in Writers
      BY DEF Writers
    <3>1. /\ hand["mux"] \in Seq(Positions)
          /\ Part("mux") = hand["mux"] \o Part("mux")'
          /\ Rest({"mux"}) /\ UNCHANGED next
      BY <2>14, WriteFlow
    <3>2. /\ output'[0] = output[0] \o hand["mux"]
          /\ output'[1] = output[1]
      <4>1. StreamOf("mux") = 0 /\ 1 - 0 = 1
        BY DEF StreamOf
      <4>2. QED
        BY <2>14, <4>1, WriteSplit
    <3>3. All("video", hand["mux"])
      <4>1. All("video", hand["mux"] \o Part("mux")')
        BY <3>1 DEF Kinded
      <4>2. Part("mux")' \in Seq(Positions)
        BY PartTypeAfter
      <4>3. QED
        BY <3>1, <4>1, <4>2, AllParts
    <3>4. o1 = o
      <4>1. OfStream("audio", output[0] \o hand["mux"])
              = OfStream("audio", output[0])
        BY <3>1, <3>3, SiftSame DEF Items
      <4>2. CASE audioStream = 0
        BY <2>1, <3>2, <4>1, <4>2
      <4>3. CASE audioStream = 1
        BY <2>1, <3>2, <4>3
      <4>4. QED
        BY <4>2, <4>3
    <3>5. a' = a /\ x1 = x /\ r' = r
      BY <2>7, <3>1 DEF Rest
    <3>6. QED
      BY <2>4, <3>4, <3>5
  <2>15. CASE Write("audio")
    <3> "audio" \in Writers
      BY DEF Writers
    <3>1. /\ hand["audio"] \in Seq(Positions)
          /\ Part("audio") = hand["audio"] \o Part("audio")'
          /\ Rest({"audio"}) /\ UNCHANGED next
      BY <2>15, WriteFlow
    <3>2. All("audio", hand["audio"])
      <4>1. All("audio", hand["audio"] \o Part("audio")')
        BY <3>1 DEF Kinded
      <4>2. Part("audio")' \in Seq(Positions)
        BY PartTypeAfter
      <4>3. QED
        BY <3>1, <4>1, <4>2, AllParts
    <3>3. output'[audioStream] = output[audioStream] \o hand["audio"]
      BY <2>1, <2>15, WriteSplit DEF StreamOf
    <3> DEFINE h == hand["audio"]
    <3>4. o1 = Cat(o, h)
      <4>1. output[audioStream] \in Seq(Positions)
        BY DEF Items
      <4>2. OfStream("audio", output[audioStream] \o hand["audio"])
              = OfStream("audio", output[audioStream]) \o hand["audio"]
        BY <3>1, <3>2, <4>1, SiftMore
      <4>3. QED
        BY <2>1, <3>3, <4>2 DEF Cat
    <3>5. a = Cat(h, a') /\ x1 = x /\ r' = r /\ h \in Seq(Positions)
      BY <2>7, <3>1 DEF Rest, Cat
    <3> HIDE DEF o, a, x, r, o1, x1, h
    <3>6. Cat(Cat(o, h), Cat(a', x)) = Cat(o, Cat(Cat(h, a'), x))
      BY <2>3, <3>5, CatMoves
    <3>7. QED
      BY <2>4, <3>4, <3>5, <3>6
  <2>16. ASSUME NEW s \in Writers, Take(s) PROVE Goal
    BY <2>9, <2>16, TakeFlow
  <2> HIDE DEF Goal
  <2>17. CASE Rest({}) /\ UNCHANGED <<output, next>>
    BY <2>9, <2>17
  <2>18. QED
    BY <2>10, <2>11, <2>12, <2>13, <2>14, <2>15, <2>16, <2>17, Steps, StillFlow
       DEF Demux, Produces, Writer, Writers
<1>3. QED
  BY <1>1, <1>2

LEMMA KeptStep ==
  ASSUME IInv, [Next]_vars
  PROVE  Kept'
<1>1. ASSUME ~Cancelled', ~Failed'
      PROVE  /\ VideoLine' = OfStream("video", ReadSoFar)'
             /\ HasAudio /\ muxer' # "closed" /\ "write" \notin troubles' =>
                  AudioLine' = OfStream("audio", ReadSoFar)'
  <2>1. Clean'
    BY <1>1 DEF Clean
  <2>2. QED
    BY <2>1, VideoStep, AudioStep
<1>2. QED
  BY <1>1 DEF Kept

-----------------------------------------------------------------------------
(* Some stage can go on.                                                   *)
(* A stage that cannot go on waits for an item, or for room.               *)
LEMMA Stuck ==
  ASSUME IInv, ~pauseRequested, pc["demux"] # "none",
         \A s \in Stages : ~Ready(s)
  PROVE  /\ \A s \in Stages : pc[s] \in {"gone", "wait", "push", "skip",
           "drain"}
         /\ \A s \in Stages : pc[s] = "wait" =>
              s # "demux" /\ queue[InOf(s)] = <<>> /\ ~closed[InOf(s)]
         /\ \A s \in Stages : pc[s] \in {"push", "skip", "drain"} =>
              /\ ~closed[OutOf(s, Head(hand[s]))]
              /\ queue[OutOf(s, Head(hand[s]))] # <<>>
<1> Loads /\ Hands /\ Launched /\ pc \in [Stages -> StagePcs]
      /\ Capacity \in Nat \ {0}
    /\ queue \in [Queues -> Seq(Positions)]
  BY TranscodeAssumption DEF IInv, Types, TypeOK
<1>1. \A s \in Stages : pc[s] # "none"
  BY DEF Launched, Fresh, Stages
<1>2. PauseMutexFree
  BY DEF PauseMutexFree, Ready
<1>3. ASSUME NEW s \in Stages
      PROVE  pc[s] \in {"gone", "wait", "push", "skip", "drain"}
  <2>1. pc[s] \notin {"top", "pop"}
    BY DEF Ready, Loads, Loaded
  <2>2. QED
    BY <1>1, <1>2, <2>1 DEF Ready, StagePcs
<1>4. ASSUME NEW s \in Stages, pc[s] = "wait"
      PROVE  s # "demux" /\ queue[InOf(s)] = <<>> /\ ~closed[InOf(s)]
  <2>1. s # "demux"
    BY <1>4 DEF Hands, Places, InLoop, Error
  <2>2. QED
    BY <1>4, <2>1 DEF Ready, InQueue
<1>5. ASSUME NEW s \in Stages, pc[s] \in {"push", "skip", "drain"}
      PROVE  /\ ~closed[OutOf(s, Head(hand[s]))]
             /\ queue[OutOf(s, Head(hand[s]))] # <<>>
  <2>1. hand[s] # <<>>
    <3>1. pc[s] = "drain" => hand[s] # <<>>
      BY DEF Loads, Loaded
    <3>2. pc[s] # "drain" => Len(hand[s]) = 1
      BY <1>5 DEF Hands
    <3>3. hand[s] = <<>> => Len(hand[s]) # 1
      BY EmptySeq
    <3>4. QED
      BY <3>1, <3>2, <3>3
  <2>2. ~closed[OutOf(s, Head(hand[s]))] /\ ~HasRoom(OutOf(s, Head(hand[s])))
    BY <1>5, <2>1 DEF Ready
  <2>3. QED
    BY <2>2 DEF HasRoom
<1>6. QED
  BY <1>3, <1>4, <1>5

LEMMA NoneStuck ==
  ASSUME IInv
  PROVE  SomeStageMoves
<1> SUFFICES ASSUME pc["demux"] # "none", ~pauseRequested, ui = "idle",
                    \A s \in Stages : ~Ready(s)
             PROVE  AllGone
  BY DEF SomeStageMoves
<1> DEFINE At == {"gone", "wait", "push", "skip", "drain"}
<1>1. /\ \A s \in Stages : pc[s] \in At
      /\ \A s \in Stages : pc[s] = "wait" =>
           s # "demux" /\ queue[InOf(s)] = <<>> /\ ~closed[InOf(s)]
      /\ \A s \in Stages : pc[s] \in {"push", "skip", "drain"} =>
           /\ ~closed[OutOf(s, Head(hand[s]))]
           /\ queue[OutOf(s, Head(hand[s]))] # <<>>
  BY Stuck
<1> Supply /\ Loads /\ Hands
  BY DEF IInv
<1>2. /\ pc["mux"] \in {"gone", "wait"} /\ pc["audio"] \in {"gone", "wait"}
      /\ pc["demux"] \in {"gone", "push"}
  BY <1>1 DEF Stages, Hands, Places, InLoop, Error, MuxOut
<1>3. CASE AllClosed
  <2>1. \A s \in Stages : pc[s] # "wait"
    BY <1>1, <1>3, Ways DEF AllClosed
  <2>2. \A s \in Stages : pc[s] \in {"push", "skip", "drain"}
          => s \in Producers
    BY <1>2 DEF Stages, Producers, Workers
  <2>3. QED
    BY <1>1, <1>3, <2>1, <2>2, Ways DEF AllClosed, AllGone
<1>4. CASE ~AllClosed
  <2>1. ~Shutting
    BY <1>1, <1>4 DEF Shutting
  <2>2. Closers /\ Ended
    BY <2>1 DEF Supply, IInv, EndChain, Sound
  <2>3. pc["mux"] = "wait"
    <3>1. SUFFICES ASSUME pc["mux"] = "gone" PROVE AllClosed
      BY <1>2, <1>4
    <3>2. closed["encoded"] /\ pc["encode"] = "gone"
      BY <2>2, <3>1 DEF Ended, Starved, Closers
    <3>3. closed["upscaled"] /\ pc["vsr"] = "gone"
      BY <2>2, <3>2 DEF Ended, Starved, Closers, Workers, InOf
    <3>4. closed["decoded"] /\ pc["decode"] = "gone"
      BY <2>2, <3>3 DEF Ended, Starved, Closers, Workers, InOf
    <3>5. closed["video"] /\ pc["demux"] \in {"endSound", "gone"}
      BY <2>2, <3>4 DEF Ended, Starved, Closers, Workers, InOf
    <3>6. closed["sound"]
      BY <1>2, <2>1, <3>5 DEF Supply
    <3>7. QED
      BY <3>2, <3>3, <3>4, <3>5, <3>6 DEF AllClosed, Queues
  <2>4. ASSUME NEW s \in Workers, NEW t \in Stages, InOf(t) = OutQueue(s),
               pc[t] = "wait"
        PROVE  pc[s] = "wait"
    <3>1. ~closed[OutQueue(s)] /\ queue[OutQueue(s)] = <<>>
      BY <1>1, <2>4
    <3>2. \A i : OutOf(s, i) = OutQueue(s)
      BY DEF OutOf, OutQueue, Workers
    <3>3. pc[s] # "gone"
      BY <2>1, <3>1 DEF Supply
    <3>4. QED
      BY <1>1, <3>1, <3>2, <3>3, Ways
  <2>5. pc["encode"] = "wait"
    BY <2>3, <2>4 DEF Workers, Stages, InOf, OutQueue
  <2>6. pc["vsr"] = "wait"
    BY <2>4, <2>5 DEF Workers, Stages, InOf, OutQueue
  <2>7. pc["decode"] = "wait"
    BY <2>4, <2>6 DEF Workers, Stages, InOf, OutQueue
  <2>8. ~closed["video"] /\ queue["video"] = <<>>
    BY <1>1, <2>7 DEF Stages, InOf
  <2>9. pc["demux"] = "push"
    BY <1>2, <2>1, <2>8 DEF Supply
  <2>10. /\ OutOf("demux", Head(hand["demux"])) = "sound"
         /\ ~closed["sound"] /\ queue["sound"] # <<>> /\ HasAudio
    BY <1>1, <2>8, <2>9, Ways DEF Stages, Loads
  <2>11. pc["audio"] = "gone"
    BY <1>1, <1>2, <2>10 DEF Stages, InOf
  <2>12. QED
    BY <2>1, <2>10, <2>11 DEF Supply
<1>5. QED
  BY <1>3, <1>4

-----------------------------------------------------------------------------
LEMMA ShuttingStays ==
  ASSUME IInv, [Next]_vars, Shutting
  PROVE  Shutting'
<1> pc \in [Stages -> StagePcs] /\ Hands /\ Launched
  BY DEF IInv, Types, TypeOK
<1>1. AllClosed => AllClosed'
  BY QueueEnds DEF AllClosed
<1>2. CASE AllClosed
  BY <1>1, <1>2 DEF Shutting
<1>3. ASSUME ui # "idle", ~AllClosed PROVE ui' # "idle"
  <2>1. \A s \in Stages : Stage(s) => ui' = ui
    BY StageSteps DEF StageStep
  <2>2. User => ui' # "idle"
    BY <1>3 DEF User, Pause, Resume, Cancel, Cancelling, CancelResumes,
       CancelCloses, CancelDone
  <2>3. Runner \/ SpuriousWakeUp => ui' = ui
    BY DEF Runner, Configure, StartReset, StartMuxer, Launch, Wait,
       SpuriousWakeUp, NotRunner
  <2>4. QED
    BY <1>3, <2>1, <2>2, <2>3 DEF Next, vars, clientVars
<1>4. ASSUME NEW r \in Stages, pc[r] \in {"err", "errState", "errClose"},
             ~AllClosed
      PROVE  pc'[r] \in {"err", "errState", "errClose"}
  <2>1. ASSUME NEW s \in Stages, Stage(s)
        PROVE  pc'[r] \in {"err", "errState", "errClose"}
    <3>1. CASE s # r
      BY <1>4, <2>1, <3>1, StageSteps DEF StageStep
    <3>2. CASE s = r
      <4>1. pc[r] = "errClose" => ErrorCloses(r)
        BY <1>4, <2>1, <3>2 DEF Stage, Loops, Leave, PassGate, Starve, Pausing,
           SeePause, StorePaused, WakeUp, StoreRunning, Failing, Raise,
           StoreError, ErrorClosed, ErrorResult, Demux, OpenInput, ReadPacket,
           ReadEnd, Reads, Worker, Convert, Flush, Produces, Pushed, Dropped,
           Close, Count, Writer, Take, Write, MuxEnd, Finalize, CloseMuxer,
           Decide, StoreCompleted, CleanCheckpoint, Complete
      <4>2. ErrorCloses(r) => pc' = pc
        BY DEF ErrorCloses, stageVars
      <4>3. QED
        BY <1>4, <2>1, <3>2, <4>1, <4>2, ErrorMoves DEF Error
    <3>3. QED
      BY <3>1, <3>2
  <2>2. User \/ UNCHANGED vars => pc' = pc
    BY DEF User, Pause, Resume, Cancel, Cancelling, CancelResumes,
       CancelCloses, CancelDone, NotUi, vars, stageVars
  <2>3. Runner \/ SpuriousWakeUp => pc' = pc
    <3>1. runner \notin Setup
      BY <1>4 DEF Launched, Fresh
    <3>2. QED
      BY <3>1 DEF Setup, Runner, Configure, StartReset, StartMuxer, Launch,
         Wait, SpuriousWakeUp
  <2>4. QED
    BY <1>4, <2>1, <2>2, <2>3 DEF Next
<1>5. QED
  BY <1>2, <1>3, <1>4 DEF Shutting

(* How a stage comes to be gone.                                           *)
LEMMA WorkerCloses ==
  ASSUME IInv, NEW s \in Workers, Stage(s), pc'[s] = "gone",
         pc[s] # "errResult"
  PROVE  pc[s] = "close" /\ Close(s)
<1> USE DEF flagVars, resultVars, queueVars, stageVars, muxVars, clientVars
<1> /\ pc \in [Stages -> StagePcs] /\ Hands /\ s \in Stages /\ s # "demux"
    /\ s \notin Writers
  BY Ways DEF IInv, Types, TypeOK, Workers, Writers
<1>1. \A l : Goto(s, l) => pc'[s] = l
  BY DEF Goto
<1>2. /\ Exit(s) \in {"close", "flush"}
      /\ \A items : /\ Return(s, items) \in {"gate", "top", "wait", "close",
                                            "flush"}
                    /\ \A l : Front(s, items, l) \in {"wait", l}
  BY DEF Return, Front, Exit, Workers
<1>3. ~(Leave(s) \/ PassGate(s) \/ Starve(s) \/ Pausing(s))
  BY <1>1, <1>2 DEF Leave, PassGate, Starve, Pausing, SeePause,
     StorePaused, WakeUp, StoreRunning, Moves
<1>4. ~Failing(s)
  BY <1>1 DEF Failing, Raise, StoreError, ErrorCloses, ErrorClosed,
     ErrorResult, Moves
<1>5. ~(Convert(s) \/ Flush(s))
  <2>1. Convert(s) \/ Flush(s) =>
          \E l \in {Return(s, Tail(InQueue(s))), "err", "push", "skip",
                    "drain", "close"} : Goto(s, l)
    BY DEF Convert, Flush, Fail
  <2>2. QED
    BY <1>1, <1>2, <2>1
<1>6. ~(Pushed(s) \/ Dropped(s))
  <2>1. Pushed(s) \/ Dropped(s) =>
          \/ UNCHANGED pc /\ pc[s] = "drain"
          \/ \E l \in {Return(s, InQueue(s)), Exit(s), "count", "close"} :
               Goto(s, l)
    BY DEF Pushed, Dropped, Again
  <2>2. QED
    BY <1>1, <1>2, <2>1
<1>7. ~(s = "encode" /\ Count)
  BY <1>1, <1>2 DEF Count, Again
<1>8. Close(s)
  BY <1>3, <1>4, <1>5, <1>6, <1>7
     DEF Stage, Loops, Worker, Produces, Workers
<1>9. QED
  BY <1>8 DEF Close, Hands, Places, InLoop, Error, Workers

LEMMA AudioEnds ==
  ASSUME IInv, ShouldRun, Stage("audio"), pc'["audio"] = "gone"
  PROVE  closed["sound"]
<1> USE DEF flagVars, resultVars, queueVars, stageVars, muxVars, clientVars
<1> /\ pc \in [Stages -> StagePcs] /\ Hands /\ "audio" \in Stages
  BY DEF IInv, Types, TypeOK, Stages
<1>1. \A l : Goto("audio", l) => pc'["audio"] = l
  BY DEF Goto
<1>2. \A items : /\ Return("audio", items) \in {"gate", "top", "wait"}
                 /\ \A l : Front("audio", items, l) \in {"wait", l}
  BY DEF Return, Front
<1>3. ~(Leave("audio") \/ PassGate("audio") \/ Pausing("audio"))
  BY <1>1, <1>2 DEF Leave, PassGate, Pausing, SeePause,
     StorePaused, WakeUp, StoreRunning, Moves
<1>4. ~Failing("audio")
  BY DEF Failing, Raise, StoreError, ErrorCloses, ErrorClosed,
     ErrorResult, Hands, Places, InLoop
<1>5. ~(Take("audio") \/ Write("audio"))
  BY <1>1, <1>2 DEF Take, Write, Again
<1>6. Starve("audio")
  BY <1>3, <1>4, <1>5 DEF Stage, Loops, Writer, Workers
<1>7. QED
  BY <1>6 DEF Starve, InOf

LEMMA SupplyStep ==
  ASSUME IInv, [Next]_vars
  PROVE  Supply'
<1> USE DEF flagVars, resultVars, queueVars, stageVars, muxVars, clientVars
<1> /\ Supply /\ pc \in [Stages -> StagePcs] /\ Hands /\ Launched
    /\ closed \in [Queues -> BOOLEAN] /\ {"demux", "audio"} \subseteq Stages
  BY DEF IInv, Types, TypeOK, Stages
<1>1. Cancelled' \/ errorFlag' => Shutting'
  <2>1. ASSUME NEW s \in Stages, Stage(s)
        PROVE Cancelled' \/ errorFlag' => Shutting'
    <3>1. StageStep(s)
      BY <2>1, StageSteps
    <3>2. QED
      BY <2>1, <3>1, ShuttingStays DEF StageStep, Supply, Next, Shutting
  <2>2. CASE User
    <3>1. UNCHANGED errorFlag /\ (Cancelled' => Cancelled \/ ui' # "idle")
      BY <2>2 DEF User, Pause, Resume, Cancel, Cancelling, CancelResumes,
         CancelCloses, CancelDone, NotUi, Trouble, Cancelled
    <3>2. QED
      BY <3>1, ShuttingStays DEF Supply, Shutting
  <2>3. CASE Runner \/ SpuriousWakeUp \/ UNCHANGED vars
    <3>1. /\ errorFlag' => errorFlag
          /\ Cancelled' => Cancelled
      BY <2>3 DEF Runner, Configure, StartReset, ResetFlags, StartMuxer,
         Launch, Wait, SpuriousWakeUp, NoTrouble, Trouble, Cancelled, vars
    <3>2. QED
      BY <3>1, ShuttingStays DEF Supply
  <2>4. QED
    BY <2>1, <2>2, <2>3 DEF Next
<1>2. ASSUME ~Shutting'
      PROVE  /\ pc'["demux"] \in {"endSound", "gone"} => closed'["video"]
             /\ pc'["demux"] = "gone" => closed'["sound"]
             /\ \A s \in Workers : pc'[s] = "gone" => closed'[OutQueue(s)]
             /\ HasAudio /\ pc'["audio"] = "gone" => closed'["sound"]
  <2>1. ~Shutting /\ Sound'
    BY <1>1, <1>2, ShuttingStays DEF Sound
  <2>2. /\ Closers /\ ShouldRun
        /\ \A s \in Stages : pc[s] \notin {"errState", "errClose",
             "errResult"}
    BY <2>1, StillSound
  <2>3. \A q \in Queues : closed[q] => closed'[q]
    BY QueueEnds
  <2>4. \A s \in Workers : s \in Stages /\ OutQueue(s) \in Queues
    BY DEF Workers, Stages, OutQueue, Queues
  <2>5. ASSUME UNCHANGED pc
        PROVE  /\ pc'["demux"] \in {"endSound", "gone"} => closed'["video"]
               /\ pc'["demux"] = "gone" => closed'["sound"]
               /\ \A s \in Workers : pc'[s] = "gone" => closed'[OutQueue(s)]
               /\ HasAudio /\ pc'["audio"] = "gone" => closed'["sound"]
    BY <2>1, <2>3, <2>4, <2>5 DEF Supply, Queues
  <2>6. CASE Launch
    <3>1. \A s \in Stages : \A items :
            Return(s, items) \in {"gate", "top", "wait"}
      BY <2>2 DEF Return, Front
    <3>2. \A s \in Workers : pc'[s] # "gone"
      BY <2>4, <2>6, <3>1 DEF Launch, Workers
    <3>3. pc'["demux"] = "open" /\ (HasAudio => pc'["audio"] # "gone")
      BY <2>6, <3>1 DEF Launch
    <3>4. QED
      BY <3>2, <3>3
  <2>7. ASSUME NEW s \in Stages, Stage(s)
        PROVE  /\ pc'["demux"] \in {"endSound", "gone"} => closed'["video"]
               /\ pc'["demux"] = "gone" => closed'["sound"]
               /\ \A r \in Workers : pc'[r] = "gone" => closed'[OutQueue(r)]
               /\ HasAudio /\ pc'["audio"] = "gone" => closed'["sound"]
    <3>1. \A r \in Stages \ {s} : pc'[r] = pc[r]
      BY <2>7, StageSteps DEF StageStep
    <3>2. /\ pc'["demux"] \in {"endSound", "gone"} => closed'["video"]
          /\ pc'["demux"] = "gone" => closed'["sound"]
      <4>1. CASE s # "demux"
        BY <2>1, <2>3, <3>1, <4>1 DEF Supply, Queues
      <4>2. CASE s = "demux"
        <5>1. /\ pc'["demux"] \in {"endSound", "gone"} =>
                   pc["demux"] \in {"close", "endSound"}
              /\ pc["demux"] \in {"close", "endSound"} => Close("demux")
          <6>1. ReadEnd => pc'["demux"] = "close"
            BY DEF ReadEnd, Goto
          <6>2. QED
            BY <2>2, <2>7, <4>2, <6>1, DemuxEnds
        <5>2. CASE pc["demux"] = "close" /\ Close("demux")
          BY <5>2 DEF Close, Goto, OutQueue, Queues
        <5>3. CASE pc["demux"] = "endSound" /\ Close("demux")
          BY <2>1, <5>3 DEF Close, Goto, Supply, Queues
        <5>4. QED
          BY <5>1, <5>2, <5>3
      <4>3. QED
        BY <4>1, <4>2
    <3>3. ASSUME NEW r \in Workers, pc'[r] = "gone" PROVE closed'[OutQueue(r)]
      <4>1. CASE r # s
        BY <2>1, <2>3, <2>4, <3>1, <3>3, <4>1 DEF Supply
      <4>2. CASE r = s
        <5>1. pc[r] = "close" /\ Close(r)
          BY <2>2, <2>4, <2>7, <3>3, <4>2, WorkerCloses
        <5>2. QED
          BY <2>4, <5>1 DEF Close
      <4>3. QED
        BY <4>1, <4>2
    <3>4. ASSUME HasAudio, pc'["audio"] = "gone" PROVE closed'["sound"]
      <4>1. CASE s # "audio"
        BY <2>1, <2>3, <3>1, <3>4, <4>1 DEF Supply, Queues
      <4>2. CASE s = "audio"
        BY <2>2, <2>3, <2>7, <3>4, <4>2, AudioEnds DEF Queues
      <4>3. QED
        BY <4>1, <4>2
    <3>5. QED
      BY <3>2, <3>3, <3>4
  <2>8. CASE (Runner /\ ~Launch) \/ SpuriousWakeUp \/ User \/ UNCHANGED vars
    <3>1. UNCHANGED pc
      BY <2>8 DEF Runner, Configure, StartReset, StartMuxer, Wait,
         SpuriousWakeUp, User, Pause, Resume, Cancel, Cancelling,
         CancelResumes, CancelCloses, CancelDone, NotUi, vars
    <3>2. QED
      BY <2>5, <3>1
  <2>9. QED
    BY <2>6, <2>7, <2>8 DEF Next
<1>3. QED
  BY <1>1, <1>2 DEF Supply

-----------------------------------------------------------------------------
(* A step leaves the hands and the codecs of the other stages alone, and   *)
(* takes nothing from the queues in front of them.                         *)
LEMMA OthersKeep ==
  ASSUME IInv, NEW s \in Stages, Stage(s), NEW r \in Stages \ {s}
  PROVE  /\ hand'[r] = hand[r]
         /\ r \in Workers => held'[r] = held[r]
         /\ r # "demux" /\ InQueue(r) # <<>> => InQueue(r)' # <<>>
<1> USE DEF flagVars, resultVars, queueVars, stageVars, muxVars, clientVars
<1> /\ hand \in [Stages -> Seq(Positions)]
    /\ held \in [Workers -> Seq(Positions)]
    /\ queue \in [Queues -> Seq(Positions)]
  BY DEF IInv, Types, TypeOK
<1>1. CASE UNCHANGED <<hand, held, queue>>
  BY <1>1 DEF InQueue
<1>2. ASSUME NEW x, hand' = [hand EXCEPT ![s] = x]
      PROVE  hand'[r] = hand[r]
  BY <1>2
<1>3. ASSUME s # "demux",
             queue' = [queue EXCEPT ![InOf(s)] = Tail(@)]
      PROVE  r # "demux" /\ InQueue(r) # <<>> => InQueue(r)' # <<>>
  BY <1>3, Apart, Ways DEF InQueue
<1>4. CASE Loops(s) \/ (s = "demux" /\ Demux /\ ~ReadPacket)
             \/ (s \in Producers /\ Close(s)) \/ (s = "encode" /\ Count)
             \/ (s = "mux" /\ MuxEnd)
  <2>1. UNCHANGED <<hand, held, queue>>
    BY <1>4 DEF Loops, Leave, PassGate, Starve, Pausing, Failing, SeePause,
       StorePaused, WakeUp, StoreRunning, Raise, StoreError, ErrorCloses,
       ErrorClosed, ErrorResult, Finish, Moves, Demux, OpenInput, ReadEnd,
       NotDemux, Close, NotWorker, Count, MuxEnd, Finalize,
       CloseMuxer, Decide, StoreCompleted, CleanCheckpoint, Complete,
       NotMuxEnd, NotWriter
  <2>2. QED
    BY <1>1, <2>1
<1>5. CASE s = "demux" /\ ReadPacket
  BY <1>5 DEF ReadPacket, NotDemux, InQueue
<1>6. CASE s \in Workers /\ (Convert(s) \/ Flush(s))
  <2>1. /\ UNCHANGED hand \/ \E x : hand' = [hand EXCEPT ![s] = x]
        /\ UNCHANGED held \/ \E x : held' = [held EXCEPT ![s] = x]
        /\ UNCHANGED queue
             \/ queue' = [queue EXCEPT ![InOf(s)] = Tail(@)]
    BY <1>6 DEF Convert, Flush
  <2>2. s # "demux"
    BY <1>6 DEF Workers
  <2>3. QED
    BY <1>3, <2>1, <2>2 DEF InQueue
<1>7. CASE s \in Producers /\ Pushed(s)
  <2> DEFINE q == OutOf(s, Head(hand[s]))
             h == Head(hand[s])
  <2>1. /\ queue' = [queue EXCEPT ![q] = Append(@, h)]
        /\ UNCHANGED held /\ hand' = [hand EXCEPT ![s] = Tail(@)]
        /\ hand[s] # <<>>
    BY <1>7 DEF Pushed
  <2>2. h \in Positions
    BY <2>1, FrontAndRest
  <2> HIDE DEF q, h
  <2>3. ASSUME r # "demux", InQueue(r) # <<>> PROVE InQueue(r)' # <<>>
    <3>1. InOf(r) \in Queues
      BY <2>3, Ways
    <3>2. \A a \in Seq(Positions) : Append(a, h) # <<>>
      BY <2>2, AppendProperties
    <3>3. QED
      BY <2>1, <2>3, <3>1, <3>2 DEF InQueue
  <2>4. QED
    BY <2>1, <2>3
<1>8. CASE s \in Producers /\ Dropped(s)
  BY <1>8 DEF Dropped, NotWorker, InQueue
<1>9. CASE s \in Writers /\ Writer(s)
  <2>1. /\ \E x : hand' = [hand EXCEPT ![s] = x]
        /\ UNCHANGED held
        /\ UNCHANGED queue
             \/ queue' = [queue EXCEPT ![InOf(s)] = Tail(@)]
    BY <1>9 DEF Writer, Take, Write, NotWriter
  <2>2. s # "demux"
    BY <1>9 DEF Writers
  <2>3. QED
    BY <1>3, <2>1, <2>2 DEF InQueue
<1>10. QED
  BY <1>4, <1>5, <1>6, <1>7, <1>8, <1>9
     DEF Stage, Demux, Worker, Produces, Producers, Writers, Workers

(* A stage comes to its front, its flush or its drain with something to    *)
(* take, to flush or to pass on.                                           *)
LEMMA OwnLoad ==
  ASSUME IInv, NEW s \in Stages, Stage(s)
  PROVE  Loaded(s)'
<1> USE DEF flagVars, resultVars, queueVars, stageVars, muxVars, clientVars
<1> /\ pc \in [Stages -> StagePcs] /\ Hands /\ Loaded(s)
    /\ hand \in [Stages -> Seq(Positions)]
    /\ held \in [Workers -> Seq(Positions)]
    /\ queue \in [Queues -> Seq(Positions)]
  BY DEF IInv, Types, TypeOK, Loads
<1>0. \A l : Goto(s, l) => pc'[s] = l
  BY DEF Goto
<1>1. /\ \A items, l :
             \/ /\ Front(s, items, l) = l
                /\ items # <<>> \/ s = "demux"
             \/ Front(s, items, l) = "wait"
      /\ Exit(s) \notin {"top", "pop", "drain"}
      /\ Exit(s) = "flush" => s \in Workers /\ held[s] # <<>>
  BY DEF Front, Exit, Workers
<1>2. \A items : /\ Return(s, items) # "pop" /\ Return(s, items) # "drain"
                 /\ Return(s, items) = "top" => items # <<>> \/ s = "demux"
                 /\ Return(s, items) = "flush" =>
                      s \in Workers /\ held[s] # <<>>
  BY <1>1 DEF Return
<1>3. ASSUME UNCHANGED <<queue, held>>,
             \/ Goto(s, Exit(s)) \/ Goto(s, Return(s, InQueue(s)))
             \/ \E l \in {"top", "pop"} : Goto(s, Front(s, InQueue(s), l))
      PROVE  Loaded(s)'
  BY <1>0, <1>1, <1>2, <1>3 DEF Loaded, InQueue
<1>4. ASSUME pc'[s] \notin {"top", "pop", "flush", "drain"}
      PROVE  Loaded(s)'
  BY <1>4 DEF Loaded
<1>5. CASE Leave(s) \/ PassGate(s) \/ Starve(s) \/ Pausing(s)
  <2>1. UNCHANGED <<queue, held>>
    BY <1>5 DEF Leave, PassGate, Starve, Pausing, SeePause, StorePaused,
       WakeUp, StoreRunning, Moves
  <2>2. \/ Goto(s, Exit(s))
        \/ \E l \in {"top", "pop"} : Goto(s, Front(s, InQueue(s), l))
        \/ \E l \in {"pausing", "paused", "rerun"} : Goto(s, l)
    BY <1>5 DEF Leave, PassGate, Starve, Pausing, SeePause, StorePaused,
       WakeUp, StoreRunning, Moves
  <2>3. QED
    BY <1>0, <1>3, <1>4, <2>1, <2>2
<1>6. CASE Failing(s)
  <2>1. pc'[s] \in Error \cup {"gone"}
    BY <1>0, <1>6 DEF Failing, Raise, StoreError, ErrorCloses, ErrorClosed,
       ErrorResult, Finish, Moves, Error
  <2>2. QED
    BY <1>4, <2>1 DEF Error
<1>7. CASE s = "demux" /\ Demux
  <2>1. \E l \in {Return(s, InQueue(s)), "err", "push", "close"} : Goto(s, l)
    BY <1>7 DEF Demux, OpenInput, ReadPacket, ReadEnd, Again, Fail
  <2>2. QED
    BY <1>0, <1>2, <1>7, <2>1 DEF Loaded, Workers
<1>8. CASE s \in Workers /\ Convert(s)
  <2>1. s # "demux" /\ InOf(s) \in Queues
    BY <1>8, Ways DEF Workers
  <2>2. InQueue(s)' = Tail(InQueue(s))
    BY <1>8, <2>1 DEF Convert, InQueue
  <2>3. CASE Goto(s, Return(s, Tail(InQueue(s))))
    <3>1. pc[s] \in {"top", "wait", "pop"}
      BY <1>8 DEF Convert
    <3>2. Return(s, Tail(InQueue(s))) \notin {"push", "skip", "err"}
      BY DEF Return, Front, Exit, Workers, Stages
    <3>3. held' = [held EXCEPT ![s] = Append(held[s], Head(InQueue(s)))]
      BY <1>0, <1>8, <2>3, <3>2 DEF Convert, Fail
    <3>4. held'[s] # <<>>
      <4>1. InQueue(s) # <<>> /\ InQueue(s) \in Seq(Positions)
        BY <1>8, <2>1 DEF Convert, InQueue
      <4>2. Append(held[s], Head(InQueue(s))) # <<>>
        BY <1>8, <4>1, FrontAndRest, AppendProperties
      <4>3. QED
        BY <1>8, <3>3, <4>2
    <3>5. QED
      BY <1>0, <1>2, <2>1, <2>2, <2>3, <3>4 DEF Loaded
  <2>4. CASE ~Goto(s, Return(s, Tail(InQueue(s))))
    <3>1. \E l \in {"push", "skip", "err"} : Goto(s, l)
      BY <1>8, <2>4 DEF Convert, Fail
    <3>2. QED
      BY <1>0, <1>4, <3>1
  <2>5. QED
    BY <2>3, <2>4
<1>9. CASE s \in Workers /\ Flush(s)
  <2>1. held[s] # <<>>
    BY <1>9 DEF Flush, Loaded
  <2>2. \/ pc'[s] = "drain" /\ hand'[s] = held[s]
        \/ pc'[s] = "close"
    BY <1>0, <1>9 DEF Flush
  <2>3. QED
    BY <2>1, <2>2 DEF Loaded
<1>10. CASE s \in Producers /\ Pushed(s)
  <2>1. hand[s] # <<>> /\ hand'[s] = Tail(hand[s]) /\ UNCHANGED held
    BY <1>10 DEF Pushed
  <2>2. CASE pc[s] = "drain" /\ Len(hand[s]) # 1
    <3>1. pc'[s] = "drain"
      BY <1>10, <2>2 DEF Pushed
    <3>2. Len(hand'[s]) # 0
      BY <2>1, <2>2, FrontAndRest
    <3>3. QED
      BY <3>1, <3>2, EmptySeq DEF Loaded
  <2>3. CASE ~(pc[s] = "drain" /\ Len(hand[s]) # 1)
    <3>1. \E l \in {Return(s, InQueue(s)), "close", "count"} : Goto(s, l)
      BY <1>10, <2>3 DEF Pushed, Again
    <3>2. s # "demux" => InQueue(s)' = InQueue(s)
      <4>1. ASSUME s # "demux" PROVE InOf(s) # OutOf(s, Head(hand[s]))
        BY <1>10, <4>1 DEF Producers, Workers, InOf, OutOf
      <4>2. QED
        BY <1>10, <4>1 DEF Pushed, InQueue
    <3>3. QED
      BY <1>0, <1>2, <2>1, <3>1, <3>2 DEF Loaded
  <2>4. QED
    BY <2>2, <2>3
<1>11. CASE s \in Producers /\ (Dropped(s) \/ Close(s))
  <2>1. UNCHANGED <<queue, held>>
    BY <1>11 DEF Dropped, Close, NotWorker
  <2>2. \/ Goto(s, Exit(s)) \/ Goto(s, Return(s, InQueue(s)))
        \/ \E l \in {"close", "gone", "endSound"} : Goto(s, l)
    BY <1>11 DEF Dropped, Close, Again
  <2>3. QED
    BY <1>0, <1>3, <1>4, <2>1, <2>2
<1>12. CASE s = "encode" /\ Count
  <2>1. UNCHANGED <<queue, held>> /\ Goto(s, Return(s, InQueue(s)))
    BY <1>12 DEF Count, Again
  <2>2. QED
    BY <1>3, <2>1
<1>13. CASE s \in Writers /\ Writer(s)
  <2>1. CASE Take(s)
    BY <1>0, <1>4, <2>1 DEF Take
  <2>2. CASE Write(s)
    <3>1. UNCHANGED <<queue, held>>
      BY <2>2 DEF Write, NotWriter
    <3>2. Goto(s, Return(s, InQueue(s))) \/ Goto(s, "err")
      BY <2>2 DEF Write, Again, Fail
    <3>3. QED
      BY <1>0, <1>3, <1>4, <3>1, <3>2
  <2>3. QED
    BY <1>13, <2>1, <2>2 DEF Writer
<1>14. CASE s = "mux" /\ MuxEnd
  <2>1. \E l \in MuxOut \cup {"err", "gone"} : Goto("mux", l)
    BY <1>14 DEF MuxEnd, Finalize, CloseMuxer, Decide, StoreCompleted,
       CleanCheckpoint, Complete, Finish, Moves, Fail, MuxOut
  <2>2. QED
    BY <1>0, <1>4, <1>14, <2>1 DEF MuxOut
<1>15. QED
  BY <1>5, <1>6, <1>7, <1>8, <1>9, <1>10, <1>11, <1>12, <1>13, <1>14
     DEF Stage, Loops, Worker, Produces, Producers, Writers, Workers

LEMMA ReturnsNot ==
  ASSUME NEW items
  PROVE  Return("demux", items) # "push" /\ Exit("demux") # "push"
BY DEF Return, Exit, Front, Workers

LEMMA PushedBy ==
  ASSUME IInv, Stage("demux"), pc'["demux"] = "push"
  PROVE  ReadPacket
<1> USE DEF flagVars, resultVars, queueVars, stageVars, muxVars, clientVars
<1> /\ pc \in [Stages -> StagePcs] /\ Hands /\ "demux" \in Stages
  BY DEF IInv, Types, TypeOK, Stages
<1>1. \A l : Goto("demux", l) => l = "push"
  BY DEF Goto
<1>2. pc["demux"] # "drain"
  BY DEF Hands, Places, InLoop, Error
<1>3. ~(Leave("demux") \/ PassGate("demux") \/ Starve("demux")
          \/ Pausing("demux"))
  BY <1>1, ReturnsNot DEF Leave, PassGate, Starve, Pausing, SeePause,
     StorePaused, WakeUp, StoreRunning, Moves, Front
<1>4. ~Failing("demux")
  BY <1>1 DEF Failing, Raise, StoreError, ErrorCloses, ErrorClosed,
     ErrorResult, Finish, Moves
<1>5. ~(OpenInput \/ ReadEnd)
  BY <1>1, ReturnsNot DEF OpenInput, ReadEnd, Again, Fail
<1>6. ~(Pushed("demux") \/ Dropped("demux") \/ Close("demux"))
  BY <1>1, <1>2, ReturnsNot DEF Pushed, Dropped, Close, Again
<1>7. QED
  BY <1>3, <1>4, <1>5, <1>6
     DEF Stage, Loops, Demux, Produces, Workers, Stages

LEMMA LoadsStep ==
  ASSUME IInv, [Next]_vars
  PROVE  Loads'
<1> USE DEF flagVars, resultVars, queueVars, stageVars, muxVars, clientVars
<1> /\ Loads /\ pc \in [Stages -> StagePcs] /\ Hands /\ "demux" \in Stages
    /\ hand \in [Stages -> Seq(Positions)]
  BY DEF IInv, Types, TypeOK, Stages
<1>1. ASSUME NEW s \in Stages, Stage(s) PROVE Loads'
  <2>1. ASSUME NEW r \in Stages PROVE Loaded(r)'
    <3>1. CASE r = s
      BY <1>1, <3>1, OwnLoad
    <3>2. CASE r # s
      BY <1>1, <3>2, OthersKeep, StageSteps DEF StageStep, Loads, Loaded
    <3>3. QED
      BY <3>1, <3>2
  <2>2. ASSUME pc'["demux"] = "push"
        PROVE  Media[Head(hand'["demux"])] = "video" \/ HasAudio
    <3>1. CASE s # "demux"
      BY <1>1, <2>2, <3>1, OthersKeep, StageSteps DEF StageStep, Loads
    <3>2. CASE s = "demux"
      <4>1. ReadPacket
        BY <1>1, <2>2, <3>2, PushedBy
      <4>2. Media[next] = "video" \/ HasAudio
        BY <2>2, <4>1, ReturnsNot DEF ReadPacket, Again, Goto
      <4>3. hand'["demux"] = <<next>>
        BY <4>1, <4>2 DEF ReadPacket
      <4>4. QED
        BY <4>2, <4>3
    <3>3. QED
      BY <3>1, <3>2
  <2>3. QED
    BY <2>1, <2>2 DEF Loads
<1>2. CASE Launch
  <2>1. Fresh
    BY <1>2 DEF Launch, IInv, Launched, Setup
  <2>2. \A s \in Stages \ {"demux"} : InQueue(s) = <<>>
    BY <2>1, Ways DEF Fresh, InQueue
  <2>3. ASSUME NEW s \in Stages
        PROVE  pc'[s] \notin {"top", "pop", "flush", "drain", "push"}
    <3>1. s # "demux" => pc'[s] \in {"gone", Return(s, <<>>)}
      BY <1>2, <2>2 DEF Launch
    <3>2. s # "demux" =>
            Return(s, <<>>) \notin {"top", "pop", "flush", "drain", "push"}
      BY <2>1 DEF Return, Front, Exit, Fresh, Workers
    <3>3. pc'["demux"] = "open"
      BY <1>2 DEF Launch
    <3>4. QED
      BY <3>1, <3>2, <3>3
  <2>4. QED
    BY <2>3 DEF Loads, Loaded
<1>3. CASE (Runner /\ ~Launch) \/ SpuriousWakeUp \/ User \/ UNCHANGED vars
  <2>1. UNCHANGED <<pc, queue, hand, held>>
    BY <1>3 DEF Runner, Configure, StartReset, StartMuxer, Wait,
       SpuriousWakeUp, NotRunner, User, Pause, Resume, Cancel, Cancelling,
       CancelResumes, CancelCloses, CancelDone, NotUi, vars
  <2>2. QED
    BY <2>1 DEF Loads, Loaded, InQueue
<1>4. QED
  BY <1>1, <1>2, <1>3 DEF Next

-----------------------------------------------------------------------------
(* What is written of the film and of the sound.                           *)
LEMMA Prefixes ==
  ASSUME NEW a \in Seq(Positions), NEW b \in Seq(Positions)
  PROVE  /\ Prefix(a, a)
         /\ \A z \in Seq(Positions) : Prefix(a, Cat(a, z))
         /\ \A n \in Seq(Positions) : Prefix(a, b) => Prefix(a, Cat(b, n))
         /\ \A h \in Seq(Positions) : Prefix(Cat(a, h), b) => Prefix(a, b)
<1>1. ASSUME NEW z \in Seq(Positions) PROVE Prefix(a, Cat(a, z))
  BY DEF Prefix
<1>2. Prefix(a, a)
  <2>1. <<>> \in Seq(Positions) /\ Cat(a, <<>>) = a
    BY EmptySeq, ConcatEmptySeq DEF Cat
  <2>2. QED
    BY <2>1 DEF Prefix
<1>3. ASSUME NEW n \in Seq(Positions), Prefix(a, b) PROVE Prefix(a, Cat(b, n))
  <2>1. PICK z \in Seq(Positions) : Cat(a, z) = b
    BY <1>3 DEF Prefix
  <2>2. Cat(z, n) \in Seq(Positions) /\ Cat(a, Cat(z, n)) = Cat(b, n)
    BY <2>1, CatIs
  <2>3. QED
    BY <2>2 DEF Prefix
<1>4. ASSUME NEW h \in Seq(Positions), Prefix(Cat(a, h), b) PROVE Prefix(a, b)
  <2>1. PICK z \in Seq(Positions) : Cat(Cat(a, h), z) = b
    BY <1>4 DEF Prefix
  <2>2. Cat(h, z) \in Seq(Positions) /\ Cat(a, Cat(h, z)) = b
    BY <2>1, CatIs
  <2>3. QED
    BY <2>2 DEF Prefix
<1>5. QED
  BY <1>1, <1>2, <1>3, <1>4

LEMMA FilmTypes ==
  ASSUME Items
  PROVE  /\ Film \in Seq(Positions) /\ Film1 \in Seq(Positions)
         /\ Film2 \in Seq(Positions) /\ Film3 \in Seq(Positions)
         /\ Film4 \in Seq(Positions)
<1>1. /\ Part("mux") \in Seq(Positions) /\ Part("encode") \in Seq(Positions)
      /\ Part("vsr") \in Seq(Positions) /\ Part("decode") \in Seq(Positions)
  BY PartType DEF Stages
<1>2. Film \in Seq(Positions)
  BY SiftType DEF Items, Film
<1>3. Film1 \in Seq(Positions)
  BY <1>1, <1>2, CatIs DEF Film1
<1>4. Film2 \in Seq(Positions)
  BY <1>1, <1>3, CatIs DEF Film2
<1>5. Film3 \in Seq(Positions)
  BY <1>1, <1>4, CatIs DEF Film3
<1>6. Film4 \in Seq(Positions)
  BY <1>1, <1>5, CatIs DEF Film4
<1>7. QED
  BY <1>2, <1>3, <1>4, <1>5, <1>6

LEMMA ReadType ==
  ASSUME IInv, NEW t
  PROVE  OfStream(t, ReadSoFar) \in Seq(Positions)
<1>1. next \in 1 .. Len(Media) + 1 /\ Len(Media) \in Nat
  BY TranscodeAssumption, LenProperties DEF IInv, Types, TypeOK
<1>2. ReadSoFar \in Seq(Positions)
  BY <1>1 DEF ReadSoFar, Positions
<1>3. QED
  BY <1>2, SiftType

LEMMA AliveOnce ==
  ASSUME IInv, [Next]_vars, NEW r \in Stages, Alive(r)'
  PROVE  Alive(r)
<1> pc \in [Stages -> StagePcs] /\ Launched
  BY DEF IInv, Types, TypeOK
<1>1. ASSUME NEW s \in Stages, Stage(s) PROVE Alive(r)
  <2>1. CASE s = r
    BY <1>1, <2>1, ErrorMoves, StageSteps DEF StageStep, Alive, Error
  <2>2. CASE s # r
    BY <1>1, <2>2, StageSteps DEF StageStep, Alive
  <2>3. QED
    BY <2>1, <2>2
<1>2. CASE Launch
  BY <1>2 DEF Launch, Launched, Setup, Fresh, Alive, Error
<1>3. CASE (Runner /\ ~Launch) \/ SpuriousWakeUp \/ User \/ UNCHANGED vars
  <2>1. UNCHANGED pc
    BY <1>3 DEF Runner, Configure, StartReset, StartMuxer, Wait,
       SpuriousWakeUp, User, Pause, Resume, Cancel, Cancelling,
       CancelResumes, CancelCloses, CancelDone, NotUi, vars, stageVars
  <2>2. QED
    BY <2>1 DEF Alive
<1>4. QED
  BY <1>1, <1>2, <1>3 DEF Next

LEMMA OpenOnce ==
  ASSUME IInv, [Next]_vars
  PROVE  /\ Open1' => Open1
         /\ Open2' => Open2
         /\ Open3' => Open3
         /\ Open4' => Open4
         /\ Open5' => Open5
<1> {"demux", "decode", "vsr", "encode", "mux"} \subseteq Stages
    /\ {"encoded", "upscaled", "decoded", "video"} \subseteq Queues
  BY DEF Stages, Queues
<1>1. \A q \in Queues : closed[q] => closed'[q]
  BY QueueEnds
<1>2. \A s \in Stages : Alive(s)' => Alive(s)
  BY AliveOnce
<1>3. QED
  BY <1>1, <1>2 DEF Open1, Open2, Open3, Open4, Open5

(* A packet goes from the front of one piece to the end of the one before. *)
LEMMA Passes ==
  \A a, m, h, e \in Seq(Positions) :
    /\ Cat(a, Cat(m, h)) = Cat(Cat(a, m), h)
    /\ Cat(Cat(a, Cat(m, h)), e) = Cat(Cat(a, m), Cat(h, e))
    /\ Cat(a, Cat(m, h)) \in Seq(Positions)
<1> TAKE a, m, h, e \in Seq(Positions)
<1>1. Cat(a, Cat(m, h)) = Cat(Cat(a, m), h) /\ Cat(a, m) \in Seq(Positions)
  BY CatIs
<1>2. Cat(Cat(Cat(a, m), h), e) = Cat(Cat(a, m), Cat(h, e))
      /\ Cat(Cat(a, m), h) \in Seq(Positions)
  BY <1>1, CatIs
<1>3. QED
  BY <1>1, <1>2

LEMMA OneItem ==
  ASSUME NEW q \in Seq(Positions), Len(q) = 1
  PROVE  \E i \in Positions : q = <<i>>
<1>1. q # <<>>
  BY EmptySeq
<1>2. /\ Head(q) \in Positions /\ Tail(q) \in Seq(Positions)
      /\ Len(Tail(q)) = Len(q) - 1 /\ <<Head(q)>> \o Tail(q) = q
  BY <1>1, FrontAndRest
<1>3. Tail(q) = <<>> /\ <<Head(q)>> \in Seq(Positions)
  BY <1>2, EmptySeq
<1>4. q = <<Head(q)>>
  BY <1>2, <1>3, ConcatEmptySeq
<1>5. QED
  BY <1>2, <1>4

LEMMA FilmStep ==
  ASSUME IInv, [Next]_vars
  PROVE  FilmRuns'
<1> Items /\ Items' /\ Kinded /\ Hands /\ pc \in [Stages -> StagePcs]
  BY ItemsStep DEF IInv, Types, TypeOK, Items
<1> {"demux", "decode", "vsr", "encode", "mux", "audio"} \subseteq Stages
  BY DEF Stages
<1> DEFINE m  == Part("mux")
           e  == Part("encode")
           v  == Part("vsr")
           d  == Part("decode")
           x  == OfStream("video", Part("demux"))
           x1 == OfStream("video", Part("demux")')
           o1 == OfStream("video", output'[0])
           r1 == OfStream("video", ReadSoFar)'
<1>1. /\ m \in Seq(Positions) /\ e \in Seq(Positions) /\ v \in Seq(Positions)
      /\ d \in Seq(Positions) /\ x \in Seq(Positions)
      /\ m' \in Seq(Positions) /\ e' \in Seq(Positions)
      /\ v' \in Seq(Positions) /\ d' \in Seq(Positions)
      /\ x1 \in Seq(Positions)
  BY PartType, PartTypeAfter, SiftType
<1>2. /\ Film \in Seq(Positions) /\ Film1 \in Seq(Positions)
      /\ Film2 \in Seq(Positions) /\ Film3 \in Seq(Positions)
      /\ Film4 \in Seq(Positions) /\ FilmRead \in Seq(Positions)
  BY FilmTypes, ReadType DEF FilmRead
<1>3. /\ Film1 = Cat(Film, m) /\ Film2 = Cat(Film1, e)
      /\ Film3 = Cat(Film2, v) /\ Film4 = Cat(Film3, d)
      /\ Film5 = Cat(Film4, x)
  BY DEF Film1, Film2, Film3, Film4, Film5
<1>4. /\ Film' = o1 /\ Film1' = Cat(Film', m') /\ Film2' = Cat(Film1', e')
      /\ Film3' = Cat(Film2', v') /\ Film4' = Cat(Film3', d')
      /\ Film5' = Cat(Film4', x1)
  BY DEF Film, Film1, Film2, Film3, Film4, Film5, OfStream, Cat
<1>5. UNCHANGED next => FilmRead' = FilmRead
  BY DEF FilmRead, ReadSoFar, OfStream
<1>6. UNCHANGED output => Film' = Film
  BY <1>4 DEF Film
<1>7. /\ Open1' => Open1
      /\ Open2' => Open2
      /\ Open3' => Open3
      /\ Open4' => Open4
      /\ Open5' => Open5
  BY OpenOnce
<1>8. /\ Prefix(Film, FilmRead)
      /\ Open1 => Prefix(Film1, FilmRead)
      /\ Open2 => Prefix(Film2, FilmRead)
      /\ Open3 => Prefix(Film3, FilmRead)
      /\ Open4 => Prefix(Film4, FilmRead)
      /\ Open5 => Film5 = FilmRead
  BY DEF IInv, Lines, FilmRuns
<1>9. ASSUME /\ Prefix(Film', FilmRead')
             /\ Open1' => Prefix(Film1', FilmRead')
             /\ Open2' => Prefix(Film2', FilmRead')
             /\ Open3' => Prefix(Film3', FilmRead')
             /\ Open4' => Prefix(Film4', FilmRead')
             /\ Open5' => Film5' = FilmRead'
      PROVE  FilmRuns'
  BY <1>9 DEF FilmRuns, Prefix, Cat
<1>10. /\ Open2' => Open1'
       /\ Open3' => Open2'
       /\ Open4' => Open3'
       /\ Open5' => Open4'
  BY DEF Open2, Open3, Open4, Open5
<1>11. ASSUME Film' = Film, UNCHANGED next, m' = m, e' = e, v' = v, d' = d,
              x1 = x
       PROVE  FilmRuns'
  <2> HIDE DEF m, e, v, d, x, x1, o1
  <2>1. /\ Film' = Film /\ Film1' = Film1 /\ Film2' = Film2
        /\ Film3' = Film3 /\ Film4' = Film4 /\ Film5' = Film5
        /\ FilmRead' = FilmRead
    BY <1>3, <1>4, <1>5, <1>11
  <2>2. QED
    BY <1>7, <1>8, <1>9, <2>1
<1>12. ASSUME Rest({}), UNCHANGED <<output, next>>
       PROVE  FilmRuns'
  BY <1>6, <1>11, <1>12 DEF Rest
<1>13. CASE ReadPacket
  <2>1. /\ next \in Positions /\ UNCHANGED output /\ Rest({"demux"})
        /\ Part("demux") = <<>>
        /\ IF Media[next] = "video" \/ HasAudio
           THEN Part("demux")' = <<next>> ELSE Part("demux")' = <<>>
    BY <1>13, ReadFlow
  <2>2. m' = m /\ e' = e /\ v' = v /\ d' = d /\ Film' = Film
    BY <1>6, <2>1 DEF Rest
  <2> DEFINE n == IF Media[next] = "video" THEN <<next>> ELSE <<>>
  <2>3. n \in Seq(Positions) /\ <<>> \in Seq(Positions)
    BY <2>1, EmptySeq
  <2>4. x = <<>> /\ x1 = n
    BY <2>1, SiftEmpty, OneSifted
  <2>5. FilmRead' = Cat(FilmRead, n)
    <3>1. FilmRead' = IF Media[next] = "video" THEN FilmRead \o <<next>>
                      ELSE FilmRead
      BY <1>13, ReadMore DEF FilmRead
    <3>2. FilmRead \o <<>> = FilmRead
      BY <1>2, ConcatEmptySeq
    <3>3. QED
      BY <3>1, <3>2 DEF Cat
  <2>6. Cat(Film4, <<>>) = Film4
    BY <1>2, ConcatEmptySeq DEF Cat
  <2> HIDE DEF m, e, v, d, x, x1, o1, n
  <2>7. /\ Film1' = Film1 /\ Film2' = Film2 /\ Film3' = Film3
        /\ Film4' = Film4
    BY <1>3, <1>4, <2>2
  <2>8. Film5' = Cat(Film4, n) /\ Film5 = Film4
    BY <1>3, <1>4, <2>4, <2>6, <2>7
  <2>9. \A a \in Seq(Positions) :
          Prefix(a, FilmRead) => Prefix(a, FilmRead')
    BY <1>2, <2>3, <2>5, Prefixes
  <2>10. Film5 = FilmRead => Film5' = FilmRead'
    BY <2>5, <2>8
  <2>11. QED
    BY <1>2, <1>7, <1>8, <1>9, <2>2, <2>7, <2>9, <2>10
<1>14. ASSUME NEW s \in Workers, Convert(s) \/ Flush(s)
       PROVE  FilmRuns'
  <2>1. /\ UNCHANGED <<output, next>> /\ Rest({s})
        /\ Part(s)' = Part(s) \/ pc'[s] = "err"
    BY <1>14, WorkFlow
  <2>2. CASE Part(s)' = Part(s)
    BY <1>12, <2>1, <2>2, Ways DEF Rest
  <2>3. CASE pc'[s] = "err"
    <3>1. ~Alive(s)' /\ Film' = Film /\ m' = m /\ x1 = x
      BY <1>6, <2>1, <2>3 DEF Alive, Error, Rest, Workers
    <3>2. /\ s # "encode" => e' = e
          /\ s = "decode" => v' = v
          /\ s = "encode" => ~Open2'
          /\ s = "vsr" => ~Open3'
          /\ s = "decode" => ~Open4'
      BY <2>1, <3>1 DEF Rest, Open2, Open3, Open4
    <3> HIDE DEF m, e, v, d, x, x1, o1
    <3>3. /\ Film1' = Film1 /\ FilmRead' = FilmRead
          /\ s # "encode" => Film2' = Film2
          /\ s = "decode" => Film3' = Film3
      BY <1>3, <1>4, <1>5, <2>1, <3>1, <3>2
    <3>4. s = "encode" \/ s = "vsr" \/ s = "decode"
      BY DEF Workers
    <3>5. QED
      BY <1>7, <1>8, <1>9, <1>10, <3>1, <3>2, <3>3, <3>4
  <2>4. QED
    BY <2>1, <2>2, <2>3
<1>15. ASSUME NEW s \in Producers, Pushed(s)
       PROVE  FilmRuns'
  <2>1. PICK i \in Positions :
           /\ <<i>> \in Seq(Positions) /\ ~closed[OutOf(s, i)]
           /\ Part(s) = Cat(<<i>>, Part(s)')
           /\ Part(To(s, i))' = Cat(Part(To(s, i)), <<i>>)
           /\ Rest({s, To(s, i)}) /\ UNCHANGED <<output, next>>
           /\ \A t : OfStream(t, Part(s))
                = IF Media[i] = t THEN Cat(<<i>>, OfStream(t, Part(s)'))
                  ELSE OfStream(t, Part(s)')
           /\ Media[i] \in {"video", "audio"}
    BY <1>15, PushParts
  <2> DEFINE h == <<i>>
  <2>2. Film' = Film /\ FilmRead' = FilmRead /\ h \in Seq(Positions)
    BY <1>5, <1>6, <2>1
  <2>3. pc[s] \in {"push", "skip", "drain"}
    BY <1>15 DEF Pushed
  <2>4. CASE s = "encode"
    <3>1. To(s, i) = "mux" /\ OutOf(s, i) = "encoded"
      BY <2>4 DEF To, OutOf
    <3>2. m' = Cat(m, h) /\ e = Cat(h, e') /\ v' = v /\ d' = d /\ x1 = x
      BY <2>1, <2>4, <3>1 DEF Rest
    <3>3. Open1' => Open2
      BY <1>7, <2>1, <2>3, <2>4, <3>1 DEF Open2, Alive, Error
    <3> HIDE DEF m, e, v, d, x, x1, o1, h
    <3>4. Film1' = Cat(Film1, h) /\ Film2' = Film2 /\ Film2 = Cat(Film1', e')
          /\ Film1' \in Seq(Positions)
      BY SMTT(30), <1>1, <1>2, <1>3, <1>4, <2>2, <3>2, Passes
    <3>5. Film3' = Film3 /\ Film4' = Film4 /\ Film5' = Film5
      BY <1>3, <1>4, <3>2, <3>4
    <3>6. Prefix(Film2, FilmRead) => Prefix(Film1', FilmRead')
      BY <1>1, <1>2, <2>2, <3>4, Prefixes
    <3>7. QED
      BY <1>7, <1>8, <1>9, <2>2, <3>3, <3>4, <3>5, <3>6
  <2>5. CASE s = "vsr"
    <3>1. To(s, i) = "encode" /\ OutOf(s, i) = "upscaled"
      BY <2>5 DEF To, OutOf
    <3>2. e' = Cat(e, h) /\ v = Cat(h, v') /\ m' = m /\ d' = d /\ x1 = x
      BY <2>1, <2>5, <3>1 DEF Rest
    <3>3. Open2' => Open3
      BY <1>7, <2>1, <2>3, <2>5, <3>1 DEF Open3, Alive, Error
    <3> HIDE DEF m, e, v, d, x, x1, o1, h
    <3>4. Film1' = Film1
      BY <1>3, <1>4, <2>2, <3>2
    <3>5. Film2' = Cat(Film2, h) /\ Film3' = Film3 /\ Film3 = Cat(Film2', v')
          /\ Film2' \in Seq(Positions)
      BY <1>1, <1>2, <1>3, <1>4, <2>2, <3>2, <3>4, Passes
    <3>6. Film4' = Film4 /\ Film5' = Film5
      BY <1>3, <1>4, <3>2, <3>5
    <3>7. Prefix(Film3, FilmRead) => Prefix(Film2', FilmRead')
      BY <1>1, <1>2, <2>2, <3>5, Prefixes
    <3>8. QED
      BY <1>7, <1>8, <1>9, <2>2, <3>3, <3>4, <3>5, <3>6, <3>7
  <2>6. CASE s = "decode"
    <3>1. To(s, i) = "vsr" /\ OutOf(s, i) = "decoded"
      BY <2>6 DEF To, OutOf
    <3>2. v' = Cat(v, h) /\ d = Cat(h, d') /\ m' = m /\ e' = e /\ x1 = x
      BY <2>1, <2>6, <3>1 DEF Rest
    <3>3. Open3' => Open4
      BY <1>7, <2>1, <2>3, <2>6, <3>1 DEF Open4, Alive, Error
    <3> HIDE DEF m, e, v, d, x, x1, o1, h
    <3>4. Film1' = Film1 /\ Film2' = Film2
      BY <1>3, <1>4, <2>2, <3>2
    <3>5. Film3' = Cat(Film3, h) /\ Film4' = Film4 /\ Film4 = Cat(Film3', d')
          /\ Film3' \in Seq(Positions)
      BY <1>1, <1>2, <1>3, <1>4, <2>2, <3>2, <3>4, Passes
    <3>6. Film5' = Film5
      BY <1>3, <1>4, <3>2, <3>5
    <3>7. Prefix(Film4, FilmRead) => Prefix(Film3', FilmRead')
      BY <1>1, <1>2, <2>2, <3>5, Prefixes
    <3>8. QED
      BY <1>7, <1>8, <1>9, <2>2, <3>3, <3>4, <3>5, <3>6, <3>7
  <2>7. CASE s = "demux" /\ Media[i] = "video"
    <3>1. To(s, i) = "decode" /\ OutOf(s, i) = "video"
      BY <2>7 DEF To, OutOf
    <3>2. d' = Cat(d, h) /\ x = Cat(h, x1) /\ m' = m /\ e' = e /\ v' = v
      BY <2>1, <2>7, <3>1 DEF Rest
    <3>3. Open4' => Open5
      BY <1>7, <2>1, <2>7, <3>1 DEF Open5
    <3> HIDE DEF m, e, v, d, x, x1, o1, h
    <3>4. Film1' = Film1 /\ Film2' = Film2 /\ Film3' = Film3
      BY <1>3, <1>4, <2>2, <3>2
    <3>5. Film4' = Cat(Film4, h) /\ Film5' = Film5 /\ Film5 = Cat(Film4', x1)
          /\ Film4' \in Seq(Positions)
      BY <1>1, <1>2, <1>3, <1>4, <2>2, <3>2, <3>4, Passes
    <3>6. Film5 = FilmRead => Prefix(Film4', FilmRead')
      <4>1. Prefix(Film4', Cat(Film4', x1))
        BY <1>1, <3>5, Prefixes
      <4>2. QED
        BY <2>2, <3>5, <4>1
    <3>7. QED
      BY <1>7, <1>8, <1>9, <2>2, <3>3, <3>4, <3>5, <3>6
  <2>8. CASE s = "demux" /\ Media[i] # "video"
    <3>1. To(s, i) = "audio"
      BY <2>8 DEF To
    <3>2. d' = d /\ x = x1 /\ m' = m /\ e' = e /\ v' = v
      BY <2>1, <2>8, <3>1 DEF Rest
    <3>3. QED
      BY <1>11, <2>1, <2>2, <3>2
  <2>9. QED
    BY <2>4, <2>5, <2>6, <2>7, <2>8 DEF Producers, Workers
<1>16. ASSUME NEW s \in Producers, Dropped(s)
       PROVE  FilmRuns'
  <2>1. /\ Part(s) = hand[s] \o Part(s)' /\ Rest({s})
        /\ UNCHANGED <<output, next, closed>>
    BY <1>16, DropFlow DEF Dropped, queueVars
  <2>2. Film' = Film /\ FilmRead' = FilmRead
    BY <1>5, <1>6, <2>1
  <2>3. CASE s \in Workers
    <3>1. /\ m' = m /\ x1 = x
          /\ s # "encode" => e' = e
          /\ s = "decode" => v' = v
      BY <2>1, <2>3 DEF Rest, Workers
    <3>2. closed'[OutOf(s, Head(hand[s]))]
      BY <1>16, <2>1 DEF Dropped
    <3>3. /\ s = "encode" => ~Open2'
          /\ s = "vsr" => ~Open3'
          /\ s = "decode" => ~Open4'
      BY <3>2 DEF OutOf, Open2, Open3, Open4
    <3> HIDE DEF m, e, v, d, x, x1, o1
    <3>4. /\ Film1' = Film1
          /\ s # "encode" => Film2' = Film2
          /\ s = "decode" => Film3' = Film3
      BY <1>3, <1>4, <2>2, <3>1
    <3>5. s = "encode" \/ s = "vsr" \/ s = "decode"
      BY <2>3 DEF Workers
    <3>6. QED
      BY <1>7, <1>8, <1>9, <1>10, <2>2, <3>3, <3>4, <3>5
  <2>4. CASE s = "demux"
    <3>1. m' = m /\ e' = e /\ v' = v /\ d' = d
      BY <2>1, <2>4 DEF Rest
    <3>2. PICK i \in Positions : hand["demux"] = <<i>>
      <4>1. Len(hand["demux"]) = 1 /\ hand["demux"] \in Seq(Positions)
        BY <1>16, <2>4 DEF Dropped, Hands, Places, InLoop, Error, Items
      <4>2. QED
        BY <4>1, OneItem
    <3>3. Part("demux")' \in Seq(Positions)
      BY PartTypeAfter
    <3>4. CASE Media[i] = "video"
      <4>1. closed'["video"]
        BY <1>16, <2>1, <2>4, <3>2, <3>4, Ways DEF Dropped
      <4>2. ~Open5'
        BY <4>1 DEF Open5
      <4> HIDE DEF m, e, v, d, x, x1, o1
      <4>3. Film1' = Film1 /\ Film2' = Film2 /\ Film3' = Film3
            /\ Film4' = Film4
        BY <1>3, <1>4, <2>2, <3>1
      <4>4. QED
        BY <1>7, <1>8, <1>9, <2>2, <4>2, <4>3
    <3>5. CASE Media[i] # "video"
      <4>1. Part("demux") = <<i>> \o Part("demux")'
        BY <2>1, <2>4, <3>2
      <4>2. OfStream("video", <<i>> \o Part("demux")')
              = OfStream("video", Part("demux")')
        BY <3>3, <3>5, SiftParts
      <4>3. x1 = x
        BY <4>1, <4>2
      <4>4. QED
        BY <1>11, <2>1, <2>2, <3>1, <4>3
    <3>6. QED
      BY <3>4, <3>5
  <2>5. QED
    BY <2>3, <2>4 DEF Producers
<1>17. CASE Write("mux")
  <2> "mux" \in Writers
    BY DEF Writers
  <2>1. /\ hand["mux"] \in Seq(Positions)
        /\ Part("mux") = hand["mux"] \o Part("mux")'
        /\ Rest({"mux"}) /\ UNCHANGED next
    BY <1>17, WriteFlow
  <2>2. FilmRead' = FilmRead /\ e' = e /\ v' = v /\ d' = d /\ x1 = x
    BY <1>5, <2>1 DEF Rest
  <2>3. CASE output'[0] = output[0] \o hand["mux"]
    <3> DEFINE h == hand["mux"]
    <3>1. All("video", h)
      <4>1. All("video", hand["mux"] \o Part("mux")')
        BY <2>1 DEF Kinded
      <4>2. QED
        BY <1>1, <2>1, <4>1, AllParts
    <3>2. Film' = Cat(Film, h)
      <4>1. output[0] \in Seq(Positions)
        BY DEF Items
      <4>2. OfStream("video", output[0] \o hand["mux"])
              = OfStream("video", output[0]) \o hand["mux"]
        BY <2>1, <3>1, <4>1, SiftMore
      <4>3. QED
        BY <1>4, <2>3, <4>2 DEF Film, Cat
    <3>3. m = Cat(h, m') /\ h \in Seq(Positions)
      BY <2>1 DEF Cat
    <3>4. Open1
      BY <1>17 DEF Write, Open1, Alive, Error
    <3> HIDE DEF m, e, v, d, x, x1, o1, h
    <3>5. Film1' = Film1 /\ Film1 = Cat(Film', m') /\ Film' \in Seq(Positions)
      BY SMTT(30), <1>1, <1>2, <1>3, <1>4, <3>2, <3>3, CatIs
    <3>6. /\ Film2' = Film2 /\ Film3' = Film3 /\ Film4' = Film4
          /\ Film5' = Film5
      BY <1>3, <1>4, <2>2, <3>5
    <3>7. Prefix(Film', FilmRead')
      BY <1>1, <1>2, <1>8, <2>2, <3>4, <3>5, Prefixes
    <3>8. QED
      BY <1>7, <1>8, <1>9, <2>2, <3>5, <3>6, <3>7
  <2>4. CASE UNCHANGED output /\ pc'["mux"] = "err"
    <3>1. ~Open1'
      BY <2>4 DEF Open1, Alive, Error
    <3>2. Film' = Film
      BY <1>6, <2>4
    <3>3. QED
      BY <1>8, <1>9, <1>10, <2>2, <3>1, <3>2
  <2>5. QED
    BY <1>17, <2>3, <2>4, WriteSplit DEF StreamOf
<1>18. CASE Write("audio")
  <2> "audio" \in Writers
    BY DEF Writers
  <2>1. /\ hand["audio"] \in Seq(Positions)
        /\ Part("audio") = hand["audio"] \o Part("audio")'
        /\ Rest({"audio"}) /\ UNCHANGED next
    BY <1>18, WriteFlow
  <2>2. All("audio", hand["audio"])
    <3>1. All("audio", hand["audio"] \o Part("audio")')
      BY <2>1 DEF Kinded
    <3>2. Part("audio")' \in Seq(Positions)
      BY PartTypeAfter
    <3>3. QED
      BY <2>1, <3>1, <3>2, AllParts
  <2>3. output'[0] = output[0] \o hand["audio"] \/ output'[0] = output[0]
    <3>1. StreamOf("audio") \in {0, 1}
      BY DEF StreamOf, IInv, Types, TypeOK
    <3>2. StreamOf("audio") = 0 \/ 1 - StreamOf("audio") = 0
      BY <3>1
    <3>3. QED
      BY <1>18, <3>2, WriteSplit
  <2>4. Film' = Film
    <3>1. OfStream("video", output[0] \o hand["audio"])
            = OfStream("video", output[0])
      BY <2>1, <2>2, SiftSame DEF Items
    <3>2. QED
      BY <1>4, <2>3, <3>1 DEF Film
  <2>5. QED
    BY <1>11, <2>1, <2>4 DEF Rest
<1>19. ASSUME NEW s \in Writers, Take(s)
       PROVE  FilmRuns'
  BY <1>12, <1>19, TakeFlow
<1>20. CASE Rest({}) /\ UNCHANGED <<output, next>>
  BY <1>12, <1>20
<1>21. QED
  BY <1>13, <1>14, <1>15, <1>16, <1>17, <1>18, <1>19, <1>20, Steps, StillFlow
     DEF Demux, Produces, Writer, Writers

LEMMA InsideCat ==
  ASSUME NEW a \in Seq(Positions), NEW b \in Seq(Positions)
  PROVE  /\ Inside(Cat(a, b)) = Inside(a) \cup Inside(b)
         /\ Rising(Cat(a, b)) <=>
              Rising(a) /\ Rising(b) /\ Before(Inside(a), Inside(b))
<1> DEFINE m == Len(a)
           n == Len(b)
           c == Cat(a, b)
<1>1. /\ m \in Nat /\ n \in Nat /\ m = Len(a) /\ n = Len(b)
      /\ Len(c) = m + n /\ c \in Seq(Positions)
      /\ \A i \in 1 .. m : c[i] = a[i] /\ a[i] \in Int
      /\ \A i \in m + 1 .. m + n : c[i] = b[i - m]
      /\ \A j \in 1 .. n : b[j] \in Int
  BY DEF Cat, Positions
<1> HIDE DEF m, n, c
<1>2. ASSUME NEW j \in 1 .. n
      PROVE  m + j \in m + 1 .. m + n /\ c[m + j] = b[j]
  <2>1. m + j \in m + 1 .. m + n /\ (m + j) - m = j
    BY <1>1
  <2>2. c[m + j] = b[(m + j) - m]
    BY <1>1, <2>1
  <2>3. QED
    BY <2>1, <2>2
<1>3. Inside(c) = Inside(a) \cup Inside(b)
  <2>1. ASSUME NEW i \in 1 .. m + n PROVE c[i] \in Inside(a) \cup Inside(b)
    <3>1. CASE i <= m
      <4>1. i \in 1 .. Len(a) /\ c[i] = a[i]
        BY <1>1, <3>1
      <4>2. QED
        BY <4>1 DEF Inside
    <3>2. CASE i > m
      <4>1. i - m \in 1 .. Len(b) /\ c[i] = b[i - m]
        BY <1>1, <3>2
      <4>2. QED
        BY <4>1 DEF Inside
    <3>3. QED
      BY <1>1, <3>1, <3>2
  <2>2. ASSUME NEW i \in 1 .. m PROVE a[i] \in Inside(c)
    <3>1. i \in 1 .. Len(c) /\ c[i] = a[i]
      BY <1>1
    <3>2. QED
      BY <3>1 DEF Inside
  <2>3. ASSUME NEW j \in 1 .. n PROVE b[j] \in Inside(c)
    <3>1. m + j \in 1 .. Len(c) /\ c[m + j] = b[j]
      BY <1>1, <1>2
    <3>2. QED
      BY <3>1 DEF Inside
  <2>4. Inside(c) \subseteq Inside(a) \cup Inside(b)
    BY <1>1, <2>1 DEF Inside
  <2>5. Inside(a) \subseteq Inside(c) /\ Inside(b) \subseteq Inside(c)
    BY <1>1, <2>2, <2>3 DEF Inside
  <2>6. QED
    BY <2>4, <2>5
<1>4. ASSUME Rising(c)
      PROVE  Rising(a) /\ Rising(b) /\ Before(Inside(a), Inside(b))
  <2>1. Rising(a)
    BY <1>1, <1>4 DEF Rising
  <2>2. Rising(b)
    <3> SUFFICES ASSUME NEW i \in 1 .. n, NEW j \in 1 .. n, i < j
                 PROVE  b[i] < b[j]
      BY <1>1 DEF Rising
    <3>1. m + i < m + j /\ m + i \in 1 .. Len(c) /\ m + j \in 1 .. Len(c)
      BY <1>1
    <3>2. QED
      BY <1>2, <1>4, <3>1 DEF Rising
  <2>3. Before(Inside(a), Inside(b))
    <3> SUFFICES ASSUME NEW i \in 1 .. m, NEW j \in 1 .. n
                 PROVE  a[i] < b[j]
      BY <1>1 DEF Before, Inside
    <3>1. i < m + j /\ i \in 1 .. Len(c) /\ m + j \in 1 .. Len(c)
      BY <1>1
    <3>2. QED
      BY <1>1, <1>2, <1>4, <3>1 DEF Rising
  <2>4. QED
    BY <2>1, <2>2, <2>3
<1>5. ASSUME Rising(a), Rising(b), Before(Inside(a), Inside(b))
      PROVE  Rising(c)
  <2> SUFFICES ASSUME NEW i \in 1 .. m + n, NEW j \in 1 .. m + n, i < j
               PROVE  c[i] < c[j]
    BY <1>1 DEF Rising
  <2>1. CASE j <= m
    <3>1. i \in 1 .. Len(a) /\ j \in 1 .. Len(a)
      BY <1>1, <2>1
    <3>2. QED
      BY <1>1, <1>5, <3>1 DEF Rising
  <2>2. CASE i > m
    <3>1. /\ i - m \in 1 .. Len(b) /\ j - m \in 1 .. Len(b) /\ i - m < j - m
          /\ i \in m + 1 .. m + n /\ j \in m + 1 .. m + n
      BY <1>1, <2>2
    <3>2. QED
      BY <1>1, <1>5, <3>1 DEF Rising
  <2>3. CASE i <= m /\ j > m
    <3>1. i \in 1 .. Len(a) /\ j - m \in 1 .. Len(b) /\ j \in m + 1 .. m + n
      BY <1>1, <2>3
    <3>2. c[i] = a[i] /\ c[j] = b[j - m]
      BY <1>1, <3>1
    <3>3. a[i] \in Inside(a) /\ b[j - m] \in Inside(b)
      BY <3>1 DEF Inside
    <3>4. QED
      BY <1>5, <3>2, <3>3 DEF Before
  <2>4. QED
    BY <1>1, <2>1, <2>2, <2>3
<1>6. QED
  BY <1>3, <1>4, <1>5 DEF c

LEMMA InsideOne ==
  /\ Inside(<<>>) = {} /\ Rising(<<>>)
  /\ \A p \in Positions : Inside(<<p>>) = {p} /\ Rising(<<p>>)
BY DEF Inside, Rising, Positions

LEMMA InsideType ==
  ASSUME NEW a \in Seq(Positions)
  PROVE  Inside(a) \subseteq Positions /\ Inside(a) \subseteq Nat
BY DEF Inside, Positions

(* A piece is cut out.                                                     *)
LEMMA RisingCut ==
  ASSUME NEW a \in Seq(Positions), NEW h \in Seq(Positions),
         NEW b \in Seq(Positions), Rising(Cat(a, Cat(h, b)))
  PROVE  /\ Rising(Cat(a, b))
         /\ Inside(Cat(a, b)) \subseteq Inside(Cat(a, Cat(h, b)))
<1>1. Cat(h, b) \in Seq(Positions)
  BY CatIs
<1>2. /\ Inside(Cat(h, b)) = Inside(h) \cup Inside(b)
      /\ Rising(Cat(h, b)) => Rising(b)
      /\ Inside(Cat(a, b)) = Inside(a) \cup Inside(b)
      /\ Rising(Cat(a, b)) <=>
              Rising(a) /\ Rising(b) /\ Before(Inside(a), Inside(b))
  BY InsideCat
<1>3. /\ Inside(Cat(a, Cat(h, b))) = Inside(a) \cup Inside(Cat(h, b))
      /\ Rising(a) /\ Rising(Cat(h, b))
      /\ Before(Inside(a), Inside(Cat(h, b)))
  BY <1>1, InsideCat
<1>4. QED
  BY <1>2, <1>3 DEF Before

LEMMA ReadIsInit ==
  ASSUME Init, NEW t
  PROVE  ReadIs(t)
<1>1. ReadSoFar = <<>> /\ next = 1
  BY DEF Init, ReadSoFar
<1>2. {p \in OfFile(t) : p < next} = {}
  BY <1>1 DEF OfFile, Positions
<1>3. QED
  BY <1>1, <1>2, SiftEmpty, InsideOne DEF ReadIs

LEMMA ReadIsStep ==
  ASSUME IInv, NEW t, ReadIs(t), [Next]_vars
  PROVE  ReadIs(t)'
<1> DEFINE r == OfStream(t, ReadSoFar)
<1>1. CASE ReadPacket
  <2>1. next \in Positions /\ next' = next + 1 /\ next \in Nat
    BY <1>1, ReadFlow DEF Positions
  <2>2. r' = IF Media[next] = t THEN Cat(r, <<next>>) ELSE r
    BY <1>1, ReadMore DEF Cat
  <2>3. /\ r \in Seq(Positions) /\ <<next>> \in Seq(Positions)
        /\ Rising(r) /\ Inside(r) = {p \in OfFile(t) : p < next}
    BY <2>1, ReadType DEF ReadIs
  <2>4. {p \in OfFile(t) : p < next + 1}
          = {p \in OfFile(t) : p < next}
              \cup (IF Media[next] = t THEN {next} ELSE {})
    BY <2>1 DEF OfFile, Positions
  <2> HIDE DEF r
  <2>5. CASE Media[next] = t
    <3> DEFINE n == <<next>>
    <3>a. Inside(n) = {next} /\ Rising(n) /\ n \in Seq(Positions)
      BY <2>1, <2>3, InsideOne
    <3> HIDE DEF n
    <3>b. /\ Inside(Cat(r, n)) = Inside(r) \cup Inside(n)
          /\ Rising(Cat(r, n)) <=>
               Rising(r) /\ Rising(n) /\ Before(Inside(r), Inside(n))
      BY <2>3, <3>a, InsideCat
    <3>1. /\ Inside(Cat(r, <<next>>)) = Inside(r) \cup {next}
          /\ Rising(Cat(r, <<next>>)) <=>
               Rising(r) /\ Before(Inside(r), {next})
      BY <3>a, <3>b DEF n
    <3>2. Before(Inside(r), {next})
      BY <2>3 DEF Before
    <3>3. Rising(r') /\ Inside(r') = {p \in OfFile(t) : p < next'}
      BY <2>1, <2>2, <2>3, <2>4, <2>5, <3>1, <3>2
    <3>4. QED
      BY <3>3 DEF ReadIs, r, Rising, Inside, OfFile
  <2>6. CASE Media[next] # t
    <3>1. Rising(r') /\ Inside(r') = {p \in OfFile(t) : p < next'}
      BY <2>1, <2>2, <2>3, <2>4, <2>6
    <3>2. QED
      BY <3>1 DEF ReadIs, r, Rising, Inside, OfFile
  <2>7. QED
    BY <2>5, <2>6
<1>2. CASE ~ReadPacket
  <2>1. UNCHANGED next
    BY <1>2, NextStep
  <2>2. r' = r
    BY <2>1 DEF ReadSoFar, OfStream
  <2>3. ReadIs(t)' <=> Rising(r') /\ Inside(r') = {p \in OfFile(t) : p < next'}
    BY DEF ReadIs, Rising, Inside, OfFile
  <2>4. Rising(r) /\ Inside(r) = {p \in OfFile(t) : p < next}
    BY DEF ReadIs
  <2> HIDE DEF r
  <2>5. QED
    BY <2>1, <2>2, <2>3, <2>4
<1>3. QED
  BY <1>1, <1>2

LEMMA TrackTypes ==
  ASSUME IInv, [Next]_vars
  PROVE  /\ Track \in Seq(Positions) /\ Coming \in Seq(Positions)
         /\ Onward \in Seq(Positions) /\ TrackRead \in Seq(Positions)
         /\ Track' \in Seq(Positions) /\ Coming' \in Seq(Positions)
         /\ Onward' \in Seq(Positions)
         /\ Onward' = OfStream("audio", Part("demux")')
         /\ Track' = OfStream("audio", output'[audioStream'])
<1> Items /\ Items' /\ audioStream \in {0, 1}
  BY ItemsStep DEF IInv, Types, TypeOK, Items
<1> "demux" \in Stages /\ "audio" \in Stages
  BY DEF Stages
<1>1. audioStream' \in {0, 1}
  BY SwitchesStep DEF Switches
<1>2. /\ Part("audio") \in Seq(Positions) /\ Part("demux") \in Seq(Positions)
      /\ Part("audio")' \in Seq(Positions)
      /\ Part("demux")' \in Seq(Positions)
  BY PartType, PartTypeAfter
<1>3. /\ output[audioStream] \in Seq(Positions)
      /\ output'[audioStream'] \in Seq(Positions)
  BY <1>1 DEF Items
<1>4. /\ Onward' = OfStream("audio", Part("demux")')
      /\ Track' = OfStream("audio", output'[audioStream'])
  BY DEF Onward, Track, OfStream
<1>5. TrackRead \in Seq(Positions)
  BY ReadType DEF TrackRead
<1>6. /\ OfStream("audio", output[audioStream]) \in Seq(Positions)
      /\ OfStream("audio", Part("demux")) \in Seq(Positions)
      /\ OfStream("audio", output'[audioStream']) \in Seq(Positions)
      /\ OfStream("audio", Part("demux")') \in Seq(Positions)
  BY <1>2, <1>3, SiftType
<1>7. QED
  BY <1>2, <1>4, <1>5, <1>6 DEF Track, Onward, Coming

(* Once the muxer is open its stream of the sound stays, and it may only   *)
(* be closed; so may the queue of the sound.                               *)
LEMMA MuxerStays ==
  ASSUME IInv, [Next]_vars, ~StartMuxer
  PROVE  /\ audioStream' = audioStream
         /\ muxer' # "closed" => muxer # "closed"
         /\ closed["sound"] => closed'["sound"]
<1>1. ASSUME NEW s \in Stages, Stage(s)
      PROVE  /\ audioStream' = audioStream
             /\ muxer' # "closed" => muxer # "closed"
  BY <1>1, StageSteps DEF StageStep
<1>2. ASSUME Runner \/ SpuriousWakeUp \/ User \/ UNCHANGED vars
      PROVE  /\ audioStream' = audioStream
             /\ muxer' # "closed" => muxer # "closed"
  BY <1>2 DEF Runner, Configure, StartReset, Launch, Wait,
     SpuriousWakeUp, User, Pause, Resume, Cancel, Cancelling,
     CancelResumes, CancelCloses, CancelDone, NotUi, vars, muxVars
<1>3. closed["sound"] => closed'["sound"]
  BY QueueEnds DEF Queues
<1>4. QED
  BY <1>1, <1>2, <1>3 DEF Next

(* When the muxer is opened there is no packet of the sound yet.           *)
LEMMA TrackStarts ==
  ASSUME IInv, StartMuxer
  PROVE  /\ Track' = <<>> /\ Coming' = <<>> /\ Onward' = <<>>
         /\ TrackRead' = <<>> /\ next' = 1
<1> Next
  BY DEF Next, Runner
<1> "demux" \in Stages /\ "audio" \in Stages
  BY DEF Stages
<1>1. Fresh /\ Rest({}) /\ UNCHANGED <<output, next>>
  BY StillFlow DEF StartMuxer, IInv, Launched, Setup, Runner
<1>2. audioStream' \in {0, 1}
  BY SwitchesStep DEF Switches
<1>3. output'[audioStream'] = <<>>
  BY <1>1, <1>2 DEF Fresh
<1>4. /\ Part("audio") = (<<>> \o <<>>) \o <<>>
      /\ Part("demux") = (<<>> \o <<>>) \o <<>>
  BY <1>1 DEF Fresh, Part, Held, InQueue, InOf, Queues, Workers
<1>5. <<>> \in Seq(Positions) /\ \A a \in Seq(Positions) : a \o <<>> = a
  BY ConcatEmptySeq, EmptySeq
<1>6. Part("audio") = <<>> /\ Part("demux") = <<>>
  BY <1>4, <1>5
<1>7. Part("audio")' = <<>> /\ Part("demux")' = <<>>
  BY <1>1, <1>6 DEF Rest
<1>8. Track' = <<>> /\ Onward' = <<>>
  BY <1>3, <1>7, TrackTypes, SiftEmpty
<1>9. ReadSoFar' = <<>> /\ next' = 1
  BY <1>1, EmptySeq DEF Fresh, ReadSoFar
<1>10. TrackRead' = OfStream("audio", <<>>)
  BY <1>9 DEF TrackRead, OfStream
<1>11. QED
  BY <1>7, <1>8, <1>9, <1>10, SiftEmpty DEF Coming

(* What a step does to the sound: nothing, or a packet is read, handed     *)
(* over, dropped in front of a queue that was shut down, written, or lost  *)
(* by a write that failed.                                                 *)
TrackMove(h) ==
  \/ /\ Track' = Track /\ Coming' = Coming /\ Onward' = Onward
     /\ HasAudio => TrackRead' = TrackRead
     /\ next <= next'
  \/ /\ Track' = Track /\ Coming' = Coming
     /\ Onward = <<>> /\ Onward' = h /\ h = <<next>> /\ next' = next + 1
     /\ TrackRead' = Cat(TrackRead, h)
  \/ /\ Track' = Track /\ Coming' = Cat(Coming, h) /\ Onward = Cat(h, Onward')
     /\ ~closed["sound"] /\ TrackRead' = TrackRead /\ next' = next
  \/ /\ Track' = Track /\ Coming' = Coming /\ Onward = Cat(h, Onward')
     /\ closed'["sound"] /\ TrackRead' = TrackRead /\ next' = next
  \/ /\ Track' = Cat(Track, h) /\ Coming = Cat(h, Coming') /\ Onward' = Onward
     /\ muxer # "closed" /\ TrackRead' = TrackRead /\ next' = next
  \/ /\ Track' = Track /\ Coming = Cat(h, Coming') /\ Onward' = Onward
     /\ muxer' = "closed" \/ "write" \in troubles'
     /\ TrackRead' = TrackRead /\ next' = next

LEMMA TrackMoves ==
  ASSUME IInv, [Next]_vars, ~StartMuxer
  PROVE  \E h \in Seq(Positions) : TrackMove(h)
<1> Items /\ Items' /\ Kinded /\ Hands /\ Launched
    /\ pc \in [Stages -> StagePcs] /\ audioStream \in {0, 1}
  BY ItemsStep DEF IInv, Types, TypeOK, Items
<1> {"demux", "decode", "vsr", "encode", "mux", "audio"} \subseteq Stages
  BY DEF Stages
<1>1. /\ Track \in Seq(Positions) /\ Coming \in Seq(Positions)
      /\ Onward \in Seq(Positions) /\ TrackRead \in Seq(Positions)
      /\ Coming' \in Seq(Positions) /\ Onward' \in Seq(Positions)
      /\ Onward' = OfStream("audio", Part("demux")')
      /\ Track' = OfStream("audio", output'[audioStream])
      /\ <<>> \in Seq(Positions)
  BY TrackTypes, MuxerStays, EmptySeq
<1>2. UNCHANGED next => TrackRead' = TrackRead
  BY DEF TrackRead, ReadSoFar, OfStream
<1>3. UNCHANGED output => Track' = Track
  BY <1>1 DEF Track
<1>4. UNCHANGED next => next <= next'
  <2>1. next \in Int
    BY DEF IInv, Types, TypeOK
  <2>2. QED
    BY <2>1
<1>5. ASSUME Rest({}), UNCHANGED <<output, next>>
      PROVE  \E h \in Seq(Positions) : TrackMove(h)
  <2>1. Coming' = Coming /\ Onward' = Onward
    BY <1>1, <1>5 DEF Rest, Coming, Onward
  <2>2. TrackMove(<<>>)
    BY <1>2, <1>3, <1>4, <1>5, <2>1 DEF TrackMove
  <2>3. QED
    BY <1>1, <2>2
<1>6. CASE ReadPacket
  <2>1. /\ next \in Positions /\ UNCHANGED output /\ Rest({"demux"})
        /\ Part("demux") = <<>> /\ next' = next + 1
        /\ IF Media[next] = "video" \/ HasAudio
           THEN Part("demux")' = <<next>> ELSE Part("demux")' = <<>>
    BY <1>6, ReadFlow
  <2>2. Track' = Track /\ Coming' = Coming /\ Onward = <<>>
    BY <1>3, <2>1, SiftEmpty DEF Rest, Coming, Onward
  <2>3. TrackRead' = IF Media[next] = "audio" THEN TrackRead \o <<next>>
                     ELSE TrackRead
    BY <1>6, ReadMore DEF TrackRead
  <2>4. next <= next'
    BY <2>1 DEF Positions
  <2>5. CASE Media[next] = "audio" /\ HasAudio
    <3>1. Onward' = <<next>> /\ <<next>> \in Seq(Positions)
      BY <1>1, <2>1, <2>5, OneSifted
    <3>2. TrackMove(<<next>>)
      BY <2>1, <2>2, <2>3, <2>5, <3>1 DEF TrackMove, Cat
    <3>3. QED
      BY <3>1, <3>2
  <2>6. CASE Media[next] # "audio" \/ ~HasAudio
    <3>1. Onward' = <<>>
      BY <1>1, <2>1, <2>6, OneSifted, SiftEmpty
    <3>2. HasAudio => TrackRead' = TrackRead
      BY <2>3, <2>6
    <3>3. TrackMove(<<>>)
      BY <2>2, <2>4, <3>1, <3>2 DEF TrackMove
    <3>4. QED
      BY <1>1, <3>3
  <2>7. QED
    BY <2>5, <2>6
<1>7. ASSUME NEW s \in Workers, Convert(s) \/ Flush(s)
      PROVE  \E h \in Seq(Positions) : TrackMove(h)
  <2>1. Rest({s}) /\ UNCHANGED <<output, next>>
    BY <1>7, WorkFlow
  <2>2. Coming' = Coming /\ Onward' = Onward
    BY <1>1, <2>1 DEF Rest, Coming, Onward, Workers
  <2>3. TrackMove(<<>>)
    BY <1>2, <1>3, <1>4, <2>1, <2>2 DEF TrackMove
  <2>4. QED
    BY <1>1, <2>3
<1>8. ASSUME NEW s \in Producers, Pushed(s)
      PROVE  \E h \in Seq(Positions) : TrackMove(h)
  <2>1. PICK i \in Positions :
           /\ <<i>> \in Seq(Positions) /\ ~closed[OutOf(s, i)]
           /\ Part(s) = Cat(<<i>>, Part(s)')
           /\ Part(To(s, i))' = Cat(Part(To(s, i)), <<i>>)
           /\ Rest({s, To(s, i)}) /\ UNCHANGED <<output, next>>
           /\ \A t : OfStream(t, Part(s))
                = IF Media[i] = t THEN Cat(<<i>>, OfStream(t, Part(s)'))
                  ELSE OfStream(t, Part(s)')
           /\ Media[i] \in {"video", "audio"}
    BY <1>8, PushParts
  <2>2. /\ Track' = Track /\ TrackRead' = TrackRead /\ next' = next
        /\ next <= next'
    BY <1>2, <1>3, <1>4, <2>1
  <2>3. CASE s # "demux"
    <3>1. To(s, i) # "audio" /\ To(s, i) # "demux" /\ s # "audio"
      BY <2>3 DEF To, Producers, Workers
    <3>2. Coming' = Coming /\ Onward' = Onward
      BY <1>1, <2>1, <2>3, <3>1 DEF Rest, Coming, Onward
    <3>3. TrackMove(<<>>)
      BY <2>2, <3>2 DEF TrackMove
    <3>4. QED
      BY <1>1, <3>3
  <2>4. CASE s = "demux" /\ Media[i] # "audio"
    <3>1. To(s, i) = "decode"
      BY <2>1, <2>4 DEF To
    <3>2. Coming' = Coming
      BY <2>1, <2>4, <3>1 DEF Rest, Coming
    <3>3. Onward' = Onward
      BY <1>1, <2>1, <2>4 DEF Onward
    <3>4. TrackMove(<<>>)
      BY <2>2, <3>2, <3>3 DEF TrackMove
    <3>5. QED
      BY <1>1, <3>4
  <2>5. CASE s = "demux" /\ Media[i] = "audio"
    <3>1. To(s, i) = "audio" /\ OutOf(s, i) = "sound"
      BY <2>5 DEF To, OutOf
    <3>2. Coming' = Cat(Coming, <<i>>)
      BY <2>1, <3>1 DEF Coming
    <3>3. Onward = Cat(<<i>>, Onward')
      BY <1>1, <2>1, <2>5 DEF Onward
    <3>4. TrackMove(<<i>>)
      BY <2>1, <2>2, <3>1, <3>2, <3>3 DEF TrackMove
    <3>5. QED
      BY <2>1, <3>4
  <2>6. QED
    BY <2>3, <2>4, <2>5
<1>9. ASSUME NEW s \in Producers, Dropped(s)
      PROVE  \E h \in Seq(Positions) : TrackMove(h)
  <2>1. /\ Part(s) = hand[s] \o Part(s)' /\ Rest({s})
        /\ UNCHANGED <<output, next, closed>>
    BY <1>9, DropFlow DEF Dropped, queueVars
  <2>2. /\ Track' = Track /\ TrackRead' = TrackRead /\ next' = next
        /\ next <= next'
    BY <1>2, <1>3, <1>4, <2>1
  <2>3. s # "audio" /\ Coming' = Coming
    BY <2>1 DEF Rest, Coming, Producers, Workers
  <2>4. CASE s # "demux"
    <3>1. Onward' = Onward
      BY <1>1, <2>1, <2>4 DEF Rest, Onward
    <3>2. TrackMove(<<>>)
      BY <2>2, <2>3, <3>1 DEF TrackMove
    <3>3. QED
      BY <1>1, <3>2
  <2>5. CASE s = "demux"
    <3>1. PICK i \in Positions : hand["demux"] = <<i>>
      <4>1. Len(hand["demux"]) = 1 /\ hand["demux"] \in Seq(Positions)
        BY <1>9, <2>5 DEF Dropped, Hands, Places, InLoop, Error, Items
      <4>2. QED
        BY <4>1, OneItem
    <3>2. Part("demux")' \in Seq(Positions) /\ <<i>> \in Seq(Positions)
      BY PartTypeAfter
    <3>3. Part("demux") = <<i>> \o Part("demux")'
      BY <2>1, <2>5, <3>1
    <3>4. Onward = IF Media[i] = "audio" THEN Cat(<<i>>, Onward')
                   ELSE Onward'
      <4> DEFINE rest == Part("demux")'
                 one  == <<i>>
      <4>1. /\ Onward' = OfStream("audio", rest) /\ rest \in Seq(Positions)
            /\ Onward = OfStream("audio", one \o rest)
        BY <1>1, <3>2, <3>3 DEF Onward
      <4> HIDE DEF rest
      <4>2. OfStream("audio", one \o rest)
              = IF Media[i] = "audio" THEN Cat(one, OfStream("audio", rest))
                ELSE OfStream("audio", rest)
        BY <4>1, SiftParts
      <4> HIDE DEF one
      <4>3. Onward = IF Media[i] = "audio" THEN Cat(one, Onward')
                     ELSE Onward'
        BY <4>1, <4>2
      <4>4. QED
        BY <4>3 DEF one
    <3>5. CASE Media[i] = "audio"
      <4>1. closed'["sound"]
        BY <1>9, <2>1, <2>5, <3>1, <3>5, Ways DEF Dropped
      <4>2. TrackMove(<<i>>)
        BY <2>2, <2>3, <3>4, <3>5, <4>1 DEF TrackMove
      <4>3. QED
        BY <3>2, <4>2
    <3>6. CASE Media[i] # "audio"
      <4>1. TrackMove(<<>>)
        BY <2>2, <2>3, <3>4, <3>6 DEF TrackMove
      <4>2. QED
        BY <1>1, <4>1
    <3>7. QED
      BY <3>5, <3>6
  <2>6. QED
    BY <2>4, <2>5
<1>10. CASE Write("mux")
  <2> "mux" \in Writers
    BY DEF Writers
  <2>1. /\ hand["mux"] \in Seq(Positions)
        /\ Part("mux") = hand["mux"] \o Part("mux")'
        /\ Rest({"mux"}) /\ UNCHANGED next
    BY <1>10, WriteFlow
  <2>2. \/ /\ output'[0] = output[0] \o hand["mux"]
           /\ output'[1] = output[1]
        \/ UNCHANGED output
    <3>1. StreamOf("mux") = 0 /\ 1 - 0 = 1
      BY DEF StreamOf
    <3>2. QED
      BY <1>10, <3>1, WriteSplit
  <2>3. All("video", hand["mux"])
    <3>1. All("video", hand["mux"] \o Part("mux")')
      BY <2>1 DEF Kinded
    <3>2. Part("mux")' \in Seq(Positions)
      BY PartTypeAfter
    <3>3. QED
      BY <2>1, <3>1, <3>2, AllParts
  <2>4. Track' = Track
    <3>1. OfStream("audio", output[0] \o hand["mux"])
            = OfStream("audio", output[0])
      BY <2>1, <2>3, SiftSame DEF Items
    <3>2. CASE audioStream = 0
      BY <1>1, <1>3, <2>2, <3>1, <3>2 DEF Track
    <3>3. CASE audioStream = 1
      BY <1>1, <1>3, <2>2, <3>3 DEF Track
    <3>4. QED
      BY <3>2, <3>3
  <2>5. Coming' = Coming /\ Onward' = Onward
    BY <1>1, <2>1 DEF Rest, Coming, Onward
  <2>6. TrackMove(<<>>)
    BY <1>2, <1>4, <2>1, <2>4, <2>5 DEF TrackMove
  <2>7. QED
    BY <1>1, <2>6
<1>11. CASE Write("audio")
  <2> "audio" \in Writers
    BY DEF Writers
  <2>1. /\ hand["audio"] \in Seq(Positions)
        /\ Part("audio") = hand["audio"] \o Part("audio")'
        /\ Rest({"audio"}) /\ UNCHANGED next
    BY <1>11, WriteFlow
  <2>2. All("audio", hand["audio"])
    <3>1. All("audio", hand["audio"] \o Part("audio")')
      BY <2>1 DEF Kinded
    <3>2. Part("audio")' \in Seq(Positions)
      BY PartTypeAfter
    <3>3. QED
      BY <2>1, <3>1, <3>2, AllParts
  <2>3. /\ Coming = Cat(hand["audio"], Coming') /\ Onward' = Onward
        /\ TrackRead' = TrackRead /\ next' = next
    BY <1>1, <1>2, <2>1 DEF Rest, Coming, Onward, Cat
  <2>4. CASE /\ output'[audioStream] = output[audioStream] \o hand["audio"]
             /\ muxer # "closed"
    <3>1. Track' = Cat(Track, hand["audio"])
      <4>1. output[audioStream] \in Seq(Positions)
        BY DEF Items
      <4>2. OfStream("audio", output[audioStream] \o hand["audio"])
              = OfStream("audio", output[audioStream]) \o hand["audio"]
        BY <2>1, <2>2, <4>1, SiftMore
      <4>3. QED
        BY <1>1, <2>4, <4>2 DEF Cat, Track
    <3>2. TrackMove(hand["audio"])
      BY <2>3, <2>4, <3>1 DEF TrackMove
    <3>3. QED
      BY <2>1, <3>2
  <2>5. CASE /\ UNCHANGED output /\ (muxer' = "closed" <=> muxer = "closed")
             /\ muxer = "closed" \/ "write" \in troubles'
    <3>1. TrackMove(hand["audio"])
      BY <1>3, <2>3, <2>5 DEF TrackMove
    <3>2. QED
      BY <2>1, <3>1
  <2>6. QED
    BY <1>11, <2>4, <2>5, WriteSplit DEF StreamOf
<1>12. ASSUME NEW s \in Writers, Take(s)
       PROVE  \E h \in Seq(Positions) : TrackMove(h)
  BY <1>5, <1>12, TakeFlow
<1>13. CASE Rest({}) /\ UNCHANGED <<output, next>>
  BY <1>5, <1>13
<1>14. QED
  BY <1>6, <1>7, <1>8, <1>9, <1>10, <1>11, <1>12, <1>13, Steps, StillFlow
     DEF Demux, Produces, Writer, Writers

(* One packet h goes from the front of a piece c to the end of a.          *)
LEMMA Passing ==
  \A a, c, h, x \in Seq(Positions) :
    /\ Cat(Cat(a, h), c) = Cat(a, Cat(h, c))
    /\ Cat(Cat(a, Cat(h, c)), x) = Cat(a, Cat(h, Cat(c, x)))
    /\ Cat(Cat(a, c), x) = Cat(a, Cat(c, x))
    /\ Cat(a, c) \in Seq(Positions) /\ Cat(Cat(a, c), x) \in Seq(Positions)
<1> TAKE a, c, h, x \in Seq(Positions)
<1>1. Cat(h, c) \in Seq(Positions) /\ Cat(a, c) \in Seq(Positions)
      /\ Cat(Cat(a, c), x) \in Seq(Positions)
  BY CatIs
<1>2. /\ Cat(Cat(a, Cat(h, c)), x) = Cat(a, Cat(Cat(h, c), x))
      /\ Cat(Cat(h, c), x) = Cat(h, Cat(c, x))
  BY <1>1, CatIs
<1>3. QED
  BY <1>1, <1>2, CatIs

LEMMA TrackStep ==
  ASSUME IInv, [Next]_vars
  PROVE  TrackRuns' /\ TrackRises'
<1> DEFINE o == Track
           c == Coming
           x == Onward
           r == TrackRead
           y == Cat(o, c)
           z == Cat(y, x)
<1>1. /\ o \in Seq(Positions) /\ c \in Seq(Positions) /\ x \in Seq(Positions)
      /\ r \in Seq(Positions) /\ o' \in Seq(Positions)
      /\ c' \in Seq(Positions) /\ x' \in Seq(Positions)
      /\ <<>> \in Seq(Positions) /\ Cat(<<>>, <<>>) = <<>>
  BY TrackTypes, EmptySeq, ConcatEmptySeq DEF Cat
<1>2. y \in Seq(Positions) /\ z \in Seq(Positions)
  BY <1>1, Passing
<1>3. Track1 = y /\ Track2 = z
  BY DEF Track1, Track2
<1>4. y' = Cat(o', c') /\ z' = Cat(y', x')
  BY DEF Cat
<1>5. HasAudio /\ "write" \notin troubles =>
        /\ Prefix(o, r)
        /\ muxer # "closed" => Prefix(y, r)
        /\ muxer # "closed" /\ ~closed["sound"] => z = r
  BY <1>3 DEF IInv, Lines, TrackRuns
<1>6. Rising(z) /\ \A p \in Inside(z) : p < next
  BY <1>3 DEF IInv, Lines, TrackRises
<1>7. next \in Int /\ Inside(z) \subseteq Int
  BY <1>2, InsideType DEF IInv, Types, TypeOK
<1> DEFINE Runs == HasAudio /\ "write" \notin troubles' =>
                     /\ Prefix(o', r')
                     /\ muxer' # "closed" => Prefix(y', r')
                     /\ muxer' # "closed" /\ ~closed'["sound"] => z' = r'
           Rises == Rising(z') /\ \A p \in Inside(z') : p < next'
<1>8. SUFFICES Runs /\ Rises
  <2>1. TrackRuns' <=> Runs
    BY DEF TrackRuns, Track1, Track2, Prefix, Cat
  <2>2. TrackRises' <=> Rises
    BY DEF TrackRises, Track1, Track2, Rising, Inside, Cat
  <2>3. QED
    BY <2>1, <2>2
<1>9. "write" \notin troubles' => "write" \notin troubles
  BY TroublesGrow
<1>10. CASE StartMuxer
  <2>1. /\ o' = <<>> /\ c' = <<>> /\ x' = <<>> /\ r' = <<>>
    BY <1>10, TrackStarts
  <2>2. y' = <<>> /\ z' = <<>>
    BY <1>1, <1>4, <2>1
  <2>3. Prefix(<<>>, <<>>) /\ Rising(<<>>) /\ Inside(<<>>) = {}
    BY <1>1, Prefixes, InsideOne
  <2> HIDE DEF y, z, o, c, x, r
  <2>4. QED
    BY <2>1, <2>2, <2>3
<1>11. CASE ~StartMuxer
  <2>1. PICK h \in Seq(Positions) : TrackMove(h)
    BY <1>11, TrackMoves
  <2>2. /\ muxer' # "closed" => muxer # "closed"
        /\ closed["sound"] => closed'["sound"]
    BY <1>11, MuxerStays
  <2> HIDE DEF y, z, o, c, x, r
  <2>3. CASE /\ o' = o /\ c' = c /\ x' = x
             /\ HasAudio => r' = r
             /\ next <= next'
    <3>1. y' = y /\ z' = z
      BY <1>4, <2>3 DEF y, z
    <3>2. next' \in Int
      BY NumberTypes
    <3>3. Runs
      BY <1>5, <1>9, <2>2, <2>3, <3>1
    <3>4. Rises
      BY <1>6, <1>7, <2>3, <3>1, <3>2
    <3>5. QED
      BY <3>3, <3>4
  <2>4. CASE /\ o' = o /\ c' = c /\ x = <<>> /\ x' = h /\ h = <<next>>
             /\ next' = next + 1 /\ r' = Cat(r, h)
    <3>1. y' = y /\ z = y /\ z' = Cat(z, h)
      <4>1. Cat(y, <<>>) = y
        BY <1>2, ConcatEmptySeq DEF Cat
      <4>2. QED
        BY <1>4, <2>4, <4>1 DEF y, z
    <3>2. \A s \in Seq(Positions) : Prefix(s, r) => Prefix(s, r')
      BY <1>1, <2>4, Prefixes
    <3>3. Runs
      BY <1>1, <1>2, <1>5, <1>9, <2>2, <2>4, <3>1, <3>2
    <3>4. Inside(h) = {next} /\ Rising(h)
      <4>1. h[1] \in Positions
        <5>1. Len(h) = 1 /\ 1 \in 1 .. 1
          BY <2>4
        <5>2. QED
          BY <5>1, ElementOfSeq
      <4>2. next \in Positions
        BY <2>4, <4>1
      <4>3. QED
        BY <2>4, <4>2, InsideOne
    <3>5. /\ Inside(z') = Inside(z) \cup Inside(h)
          /\ Rising(z') <=>
               Rising(z) /\ Rising(h) /\ Before(Inside(z), Inside(h))
      BY <1>2, <3>1, InsideCat
    <3>6. Before(Inside(z), Inside(h))
      BY <1>6, <3>4 DEF Before
    <3>7. Rises
      BY <1>6, <1>7, <2>4, <3>4, <3>5, <3>6
    <3>8. QED
      BY <3>3, <3>7
  <2>5. CASE /\ o' = o /\ c' = Cat(c, h) /\ x = Cat(h, x')
             /\ ~closed["sound"] /\ r' = r /\ next' = next
    <3>1. y' = Cat(y, h) /\ z' = z /\ y' \in Seq(Positions)
      <4>1. Cat(o, Cat(c, h)) = Cat(Cat(o, c), h)
        BY <1>1, Passing
      <4>2. Cat(Cat(y, h), x') = Cat(y, Cat(h, x'))
            /\ Cat(y, h) \in Seq(Positions)
        BY <1>1, <1>2, CatIs
      <4>3. QED
        BY <1>4, <2>5, <4>1, <4>2 DEF y, z
    <3>2. Prefix(y', z')
      <4>1. Prefix(y', Cat(y', x'))
        BY <1>1, <3>1, Prefixes
      <4>2. QED
        BY <1>4, <4>1
    <3>3. Runs
      BY <1>5, <1>9, <2>2, <2>5, <3>1, <3>2
    <3>4. Rises
      BY <1>6, <2>5, <3>1
    <3>5. QED
      BY <3>3, <3>4
  <2>6. CASE /\ o' = o /\ c' = c /\ x = Cat(h, x')
             /\ closed'["sound"] /\ r' = r /\ next' = next
    <3>1. y' = y /\ z = Cat(y, Cat(h, x')) /\ z' = Cat(y, x')
      BY <1>4, <2>6 DEF y, z
    <3>2. Runs
      BY <1>5, <1>9, <2>2, <2>6, <3>1
    <3>3. Rising(z') /\ Inside(z') \subseteq Inside(z)
      BY <1>1, <1>2, <1>6, <3>1, RisingCut
    <3>4. Rises
      BY <1>6, <2>6, <3>3
    <3>5. QED
      BY <3>2, <3>4
  <2>7. CASE /\ o' = Cat(o, h) /\ c = Cat(h, c') /\ x' = x
             /\ muxer # "closed" /\ r' = r /\ next' = next
    <3>1. y' = y /\ z' = z
      <4>1. Cat(Cat(o, h), c') = Cat(o, Cat(h, c'))
        BY <1>1, Passing
      <4>2. QED
        BY <1>4, <2>7, <4>1 DEF y, z
    <3>2. Prefix(y, r) => Prefix(o', r)
      <4>1. Prefix(Cat(o', c'), r) => Prefix(o', r)
        BY <1>1, Prefixes
      <4>2. QED
        BY <1>4, <3>1, <4>1
    <3>3. Runs
      BY <1>5, <1>9, <2>2, <2>7, <3>1, <3>2
    <3>4. Rises
      BY <1>6, <2>7, <3>1
    <3>5. QED
      BY <3>3, <3>4
  <2>8. CASE /\ o' = o /\ c = Cat(h, c') /\ x' = x
             /\ muxer' = "closed" \/ "write" \in troubles'
             /\ r' = r /\ next' = next
    <3>1. Runs
      BY <1>5, <1>9, <2>8
    <3>2. z = Cat(o, Cat(h, Cat(c', x))) /\ z' = Cat(o, Cat(c', x))
      <4>1. /\ Cat(Cat(o, Cat(h, c')), x) = Cat(o, Cat(h, Cat(c', x)))
            /\ Cat(Cat(o, c'), x) = Cat(o, Cat(c', x))
        BY <1>1, Passing
      <4>2. QED
        BY <1>4, <2>8, <4>1 DEF y, z
    <3>3. Cat(c', x) \in Seq(Positions)
      BY <1>1, Passing
    <3>4. Rising(z') /\ Inside(z') \subseteq Inside(z)
      BY <1>1, <1>6, <3>2, <3>3, RisingCut
    <3>5. Rises
      BY <1>6, <2>8, <3>4
    <3>6. QED
      BY <3>1, <3>5
  <2>9. QED
    BY <2>1, <2>3, <2>4, <2>5, <2>6, <2>7, <2>8 DEF TrackMove, o, c, x, r
<1>12. QED
  BY <1>10, <1>11

LEMMA LinesInit ==
  ASSUME Init
  PROVE  Lines
<1>1. <<>> \in Seq(Positions) /\ <<>> \o <<>> = <<>>
  BY ConcatEmptySeq, EmptySeq
<1>2. \A s \in Stages : Part(s) = <<>>
  <2>1. \A s \in Stages : Held(s) = <<>> /\ InQueue(s) = <<>>
    BY Ways DEF Init, Held, InQueue
  <2>2. QED
    BY <1>1, <2>1 DEF Init, Part
<1>3. output[0] = <<>> /\ output[audioStream] = <<>> /\ ReadSoFar = <<>>
  BY EmptySeq DEF Init, ReadSoFar
<1>4. /\ Film = <<>> /\ FilmRead = <<>> /\ Track = <<>> /\ TrackRead = <<>>
      /\ Coming = <<>> /\ Onward = <<>>
      /\ OfStream("video", Part("demux")) = <<>>
  BY <1>2, <1>3, SiftEmpty DEF Film, FilmRead, Track, TrackRead, Coming,
     Onward, Stages
<1>5. /\ Film1 = <<>> /\ Film2 = <<>> /\ Film3 = <<>> /\ Film4 = <<>>
      /\ Film5 = <<>> /\ Track1 = <<>> /\ Track2 = <<>>
  BY <1>1, <1>2, <1>4 DEF Film1, Film2, Film3, Film4, Film5, Track1, Track2,
     Cat, Stages
<1>6. Prefix(<<>>, <<>>) /\ Rising(<<>>) /\ Inside(<<>>) = {}
  BY <1>1, Prefixes, InsideOne
<1>7. FilmRuns /\ TrackRuns /\ TrackRises
  BY <1>4, <1>5, <1>6 DEF FilmRuns, TrackRuns, TrackRises
<1>8. QED
  BY <1>7, ReadIsInit DEF Lines

LEMMA LinesStep ==
  ASSUME IInv, [Next]_vars
  PROVE  Lines'
<1>1. ReadIs("video") /\ ReadIs("audio")
  BY DEF IInv, Lines
<1>2. QED
  BY <1>1, FilmStep, TrackStep, ReadIsStep DEF Lines

-----------------------------------------------------------------------------
(* The inductive invariant.                                                *)
LEMMA InitIInv ==
  ASSUME Init
  PROVE  IInv
<1> /\ Media \in Seq({"video", "audio"}) /\ Len(Media) \in Nat
    /\ Capacity \in Nat \ {0} /\ MaxTroubles \in Nat
  BY TranscodeAssumption, LenProperties
<1> <<>> \in Seq(Positions) /\ Len(<<>>) = 0 /\ <<>> \o <<>> = <<>>
  BY EmptySeq, ConcatEmptySeq
<1>1. Types
  <2>1. IsFiniteSet({}) /\ Cardinality({}) = 0
    BY FS_EmptySet
  <2>2. /\ queue \in [Queues -> Seq(Positions)]
        /\ \A q \in Queues : Len(queue[q]) <= Capacity
        /\ closed \in [Queues -> BOOLEAN]
    BY DEF Init
  <2>3. /\ hand \in [Stages -> Seq(Positions)]
        /\ held \in [Workers -> Seq(Positions)]
        /\ pc \in [Stages -> StagePcs]
    BY DEF Init, StagePcs
  <2>4. output \in [{0, 1} -> Seq(Positions)]
    BY DEF Init
  <2>5. /\ state \in States /\ runner \in RunnerPcs
        /\ framesProcessed \in 0 .. Len(Media)
        /\ checkpoint \in 0 .. Len(Media) /\ next \in 1 .. Len(Media) + 1
    BY DEF Init, States, RunnerPcs
  <2>6. /\ cancelRequested \in BOOLEAN /\ pauseRequested \in BOOLEAN
        /\ errorFlag \in BOOLEAN /\ completionResult \in {"success", "error"}
        /\ muxer \in {"closed", "open", "header", "finalized"}
        /\ audioStream \in {0, 1}
        /\ ui \in {"idle", "cancelResume", "cancelClose"}
        /\ uiState \in {"Ready", "Processing", "Paused", "Idle"}
        /\ troubles = {}
    BY DEF Init
  <2>7. QED
    BY <2>1, <2>2, <2>3, <2>4, <2>5, <2>6 DEF Types, TypeOK
<1>2. /\ \A s \in Stages : pc[s] = "none" /\ hand[s] = <<>>
      /\ output[0] = <<>> /\ output[1] = <<>>
      /\ ~Cancelled /\ runner = "new" /\ muxer = "closed"
  BY DEF Init, Cancelled
<1>3. \A s \in Stages : Part(s) = <<>>
  <2>1. \A s \in Stages : Held(s) = <<>> /\ InQueue(s) = <<>>
    BY Ways DEF Init, Held, InQueue
  <2>2. QED
    BY <1>2, <2>1 DEF Part
<1>4. ReadSoFar = <<>>
  BY DEF Init, ReadSoFar
<1>5. {"demux", "decode", "vsr", "encode", "mux", "audio"} \subseteq Stages
      /\ Workers \subseteq Stages
  BY Ways DEF Stages
<1>6. Hands /\ Launched
  <2>1. Fresh
    BY DEF Init, Fresh
  <2>2. QED
    BY <1>2, <1>5, <2>1 DEF Hands, Places, Busy, Launched, Setup
<1>7. Kinded
  BY <1>2, <1>3, <1>5, AllEmpty DEF Kinded
<1>8. Backlog /\ Counting
  BY <1>2, <1>3, <1>5, SiftEmpty DEF Init, Backlog, Counting, Uncounted
<1>9. Flags /\ EndChain /\ Over /\ Telling
  BY <1>2, <1>5 DEF Init, Flags, EndChain, Closers, Ended, Over, Telling,
     MuxOut, Queues
<1>10. Kept
  BY <1>2, <1>3, <1>4, <1>5, SiftEmpty DEF Kept, VideoLine
<1>11. Supply /\ Loads
  BY <1>2, <1>5 DEF Init, Supply, Loads, Loaded
<1>12. QED
  BY <1>1, <1>6, <1>7, <1>8, <1>9, <1>10, <1>11, LinesInit DEF IInv

(* Every step of every thread keeps the invariant.                         *)
THEOREM Invariance == Spec => []IInv
<1>1. IInv /\ [Next]_vars => IInv'
  <2> SUFFICES ASSUME IInv, [Next]_vars PROVE IInv'
    OBVIOUS
  <2>1. QED
    BY TypesStep, HandsStep, LaunchedStep, KindedStep, BacklogStep,
       CountingStep, FlagsStep, EndChainStep, OverStep, TellingStep, KeptStep,
       SupplyStep, LoadsStep, LinesStep DEF IInv
<1>2. QED
  BY InitIInv, <1>1, PTL DEF Spec

-----------------------------------------------------------------------------
(* The properties.                                                         *)

(* No queue of the pipeline is ever longer than its capacity, nor the      *)
(* count of frames longer than the input.                                  *)
THEOREM TypeCorrect == Spec => []TypeOK
<1>1. IInv => TypeOK
  BY DEF IInv, Types
<1>2. QED
  BY <1>1, Invariance, PTL

(* The stages never wait for one another for ever: as long as one of them  *)
(* is left some stage can go on, for every capacity of the queues and      *)
(* every lag of the codecs.                                                *)
THEOREM NoDeadlock == Spec => []SomeStageMoves
BY Invariance, NoneStuck, PTL

(* A part of three pieces behind what is in front of it.                   *)
LEMMA CatThree ==
  \A p, a, b, c \in Seq(Positions) :
    Cat(Cat(Cat(p, a), b), c) = Cat(p, Cat(Cat(a, b), c))
<1> TAKE p, a, b, c \in Seq(Positions)
<1>1. Cat(a, b) \in Seq(Positions)
  BY CatIs
<1>2. Cat(Cat(p, a), b) = Cat(p, Cat(a, b))
  BY CatIs
<1>3. Cat(Cat(p, Cat(a, b)), c) = Cat(p, Cat(Cat(a, b), c))
  BY <1>1, CatIs
<1>4. QED
  BY <1>2, <1>3

LEMMA SiftCat ==
  ASSUME NEW t
  PROVE  \A a, b \in Seq(Positions) :
           OfStream(t, Cat(a, b)) = Cat(OfStream(t, a), OfStream(t, b))
BY SiftConcat DEF Cat

LEMMA PartIs ==
  ASSUME Items
  PROVE  /\ Part("mux") = Cat(hand["mux"], queue["encoded"])
         /\ Part("audio") = Cat(hand["audio"], queue["sound"])
         /\ Part("demux") = hand["demux"]
         /\ Part("encode")
              = Cat(Cat(hand["encode"], held["encode"]), queue["upscaled"])
         /\ Part("vsr") = Cat(Cat(hand["vsr"], held["vsr"]), queue["decoded"])
         /\ Part("decode")
              = Cat(Cat(hand["decode"], held["decode"]), queue["video"])
<1>1. \A s \in Stages : hand[s] \in Seq(Positions)
  BY DEF Items
<1>2. \A s \in Stages : hand[s] \o <<>> = hand[s]
  BY <1>1, ConcatEmptySeq
<1>3. QED
  BY <1>2 DEF Part, Held, InQueue, InOf, Cat, Stages, Workers

(* A part that holds packets of one stream only is kept as it is.          *)
LEMMA SiftPart ==
  ASSUME NEW t, NEW p \in Seq(Positions), NEW e \in Seq(Positions), All(t, e)
  PROVE  /\ Cat(p, e) \in Seq(Positions)
         /\ OfStream(t, Cat(p, e)) = Cat(OfStream(t, p), e)
<1>1. OfStream(t, e) = e
  BY SiftAll
<1>2. OfStream(t, Cat(p, e)) = Cat(OfStream(t, p), OfStream(t, e))
  BY SiftCat
<1>3. QED
  BY <1>1, <1>2, CatIs

LEMMA VideoPathIs ==
  ASSUME Items, Kinded
  PROVE  VideoPath = VideoLine
<1> DEFINE w == output[0]
           m == Part("mux")
           e == Part("encode")
           v == Part("vsr")
           d == Part("decode")
           h == hand["demux"]
           o == OfStream("video", w)
           x == OfStream("video", h)
           p1 == Cat(w, m)
           p2 == Cat(p1, e)
           p3 == Cat(p2, v)
           p4 == Cat(p3, d)
<1>1. w \in Seq(Positions) /\ h \in Seq(Positions)
  BY DEF Items, Stages
<1>2. m \in Seq(Positions) /\ All("video", m)
  BY PartType DEF Kinded, Stages
<1>3. e \in Seq(Positions) /\ All("video", e)
  BY PartType DEF Kinded, Workers, Stages
<1>4. v \in Seq(Positions) /\ All("video", v)
  BY PartType DEF Kinded, Workers, Stages
<1>5. d \in Seq(Positions) /\ All("video", d)
  BY PartType DEF Kinded, Workers, Stages
<1>6. p1 \in Seq(Positions) /\ OfStream("video", p1) = Cat(o, m)
  <2> HIDE DEF w, m
  <2>1. QED
    BY <1>1, <1>2, SiftPart
<1>7. p2 \in Seq(Positions)
      /\ OfStream("video", p2) = Cat(OfStream("video", p1), e)
  <2> HIDE DEF p1, e
  <2>1. QED
    BY <1>3, <1>6, SiftPart
<1>8. p3 \in Seq(Positions)
      /\ OfStream("video", p3) = Cat(OfStream("video", p2), v)
  <2> HIDE DEF p2, v
  <2>1. QED
    BY <1>4, <1>7, SiftPart
<1>9. p4 \in Seq(Positions)
      /\ OfStream("video", p4) = Cat(OfStream("video", p3), d)
  <2> HIDE DEF p3, d
  <2>1. QED
    BY <1>5, <1>8, SiftPart
<1>10. OfStream("video", Cat(p4, h)) = Cat(OfStream("video", p4), x)
  <2> HIDE DEF p4, h
  <2>1. QED
    BY <1>1, <1>9, SiftCat
<1>11. Cat(w, Cat(hand["mux"], queue["encoded"]))
         = Cat(Cat(w, hand["mux"]), queue["encoded"])
  <2> DEFINE a == hand["mux"]
             b == queue["encoded"]
  <2>1. a \in Seq(Positions) /\ b \in Seq(Positions)
    BY DEF Items, Stages, Queues
  <2> HIDE DEF w, a, b
  <2>2. Cat(w, Cat(a, b)) = Cat(Cat(w, a), b)
    BY <1>1, <2>1, CatIs
  <2>3. QED
    BY <2>2 DEF a, b
<1>12. ASSUME NEW s \in Workers
       PROVE  \A p \in Seq(Positions) :
                Cat(p, Cat(Cat(hand[s], held[s]), queue[InOf(s)]))
                  = Cat(Cat(Cat(p, hand[s]), held[s]), queue[InOf(s)])
  <2> DEFINE a == hand[s]
             b == held[s]
             c == queue[InOf(s)]
  <2>1. /\ a \in Seq(Positions) /\ b \in Seq(Positions)
        /\ c \in Seq(Positions)
    BY Ways DEF Items, Stages, Queues, VideoQueues
  <2> HIDE DEF a, b, c
  <2>2. \A p \in Seq(Positions) :
          Cat(p, Cat(Cat(a, b), c)) = Cat(Cat(Cat(p, a), b), c)
    BY <2>1, CatThree
  <2>3. QED
    BY <2>2 DEF a, b, c
<1>13. /\ p1 = Cat(Cat(w, hand["mux"]), queue["encoded"])
       /\ p2 = Cat(Cat(Cat(p1, hand["encode"]), held["encode"]),
                   queue["upscaled"])
       /\ p3 = Cat(Cat(Cat(p2, hand["vsr"]), held["vsr"]), queue["decoded"])
       /\ p4 = Cat(Cat(Cat(p3, hand["decode"]), held["decode"]),
                   queue["video"])
  <2>1. /\ InOf("encode") = "upscaled" /\ InOf("vsr") = "decoded"
        /\ InOf("decode") = "video"
        /\ "encode" \in Workers /\ "vsr" \in Workers /\ "decode" \in Workers
    BY DEF InOf, Workers
  <2>2. p1 = Cat(Cat(w, hand["mux"]), queue["encoded"])
    BY <1>11, PartIs
  <2>3. p2 = Cat(Cat(Cat(p1, hand["encode"]), held["encode"]),
                 queue["upscaled"])
    <3> HIDE DEF p1
    <3>1. QED
      BY <1>6, <1>12, <2>1, PartIs
  <2>4. p3 = Cat(Cat(Cat(p2, hand["vsr"]), held["vsr"]), queue["decoded"])
    <3> HIDE DEF p2
    <3>1. QED
      BY <1>7, <1>12, <2>1, PartIs
  <2>5. p4 = Cat(Cat(Cat(p3, hand["decode"]), held["decode"]),
                 queue["video"])
    <3> HIDE DEF p3
    <3>1. QED
      BY SMTT(30), <1>8, <1>12, <2>1, PartIs
  <2>6. QED
    BY <2>2, <2>3, <2>4, <2>5
<1>14. VideoPath = OfStream("video", Cat(p4, h))
  <2> HIDE DEF p1, p2, p3, p4
  <2>1. QED
    BY <1>13 DEF VideoPath, Cat
<1>15. VideoPath = Cat(Cat(Cat(Cat(Cat(o, m), e), v), d), x)
  <2> HIDE DEF p1, p2, p3, p4, o, m, e, v, d, x
  <2>1. QED
    BY <1>6, <1>7, <1>8, <1>9, <1>10, <1>14
<1>16. VideoLine = Cat(o, Cat(m, Cat(e, Cat(v, Cat(d, x)))))
  BY PartIs DEF VideoLine, Cat
<1>17. o \in Seq(Positions) /\ x \in Seq(Positions)
  BY <1>1, SiftType
<1> DEFINE c1 == Cat(o, m)
           c2 == Cat(c1, e)
           c3 == Cat(c2, v)
           dx == Cat(d, x)
           vx == Cat(v, dx)
           ex == Cat(e, vx)
<1> HIDE DEF w, m, e, v, d, h, o, x, p1, p2, p3, p4
<1>18. c1 \in Seq(Positions)
  BY <1>2, <1>17, CatIs
<1>19. c2 \in Seq(Positions)
  <2> HIDE DEF c1
  <2>1. QED
    BY <1>3, <1>18, CatIs
<1>20. c3 \in Seq(Positions)
  <2> HIDE DEF c2
  <2>1. QED
    BY <1>4, <1>19, CatIs
<1>21. Cat(Cat(c3, d), x) = Cat(c3, dx) /\ dx \in Seq(Positions)
  <2> HIDE DEF c3
  <2>1. QED
    BY <1>5, <1>17, <1>20, CatIs
<1>22. Cat(c3, dx) = Cat(c2, vx) /\ vx \in Seq(Positions)
  <2> HIDE DEF c2, dx
  <2>1. QED
    BY <1>4, <1>19, <1>21, CatIs
<1>23. Cat(c2, vx) = Cat(c1, ex) /\ ex \in Seq(Positions)
  <2> HIDE DEF c1, vx
  <2>1. QED
    BY <1>3, <1>18, <1>22, CatIs
<1>24. Cat(c1, ex) = Cat(o, Cat(m, ex))
  <2> HIDE DEF ex
  <2>1. QED
    BY <1>2, <1>17, <1>23, CatIs
<1>25. QED
  BY <1>15, <1>16, <1>21, <1>22, <1>23, <1>24

LEMMA AudioPathIs ==
  ASSUME Items, Kinded, audioStream \in {0, 1}
  PROVE  AudioPath = AudioLine
<1> DEFINE w == output[audioStream]
           a == Part("audio")
           k == hand["demux"]
           o == OfStream("audio", w)
           x == OfStream("audio", k)
           p == Cat(w, a)
<1>1. w \in Seq(Positions) /\ k \in Seq(Positions)
  BY DEF Items, Stages
<1>2. a \in Seq(Positions) /\ All("audio", a)
  BY PartType DEF Kinded, Stages
<1>3. o \in Seq(Positions) /\ x \in Seq(Positions)
  BY <1>1, SiftType
<1>4. p = Cat(Cat(w, hand["audio"]), queue["sound"])
  <2> DEFINE h == hand["audio"]
             q == queue["sound"]
  <2>1. h \in Seq(Positions) /\ q \in Seq(Positions) /\ a = Cat(h, q)
    BY PartIs DEF Items, Stages, Queues
  <2> HIDE DEF w, a, h, q
  <2>2. Cat(w, Cat(h, q)) = Cat(Cat(w, h), q)
    BY <1>1, <2>1, CatIs
  <2>3. QED
    BY <2>1, <2>2 DEF h, q
<1>5. AudioPath = OfStream("audio", Cat(p, k))
  <2> HIDE DEF p
  <2>1. QED
    BY <1>4 DEF AudioPath, Cat
<1>6. AudioLine = Cat(o, Cat(a, x))
  BY PartIs DEF AudioLine, Cat
<1> HIDE DEF w, a, k
<1>7. p \in Seq(Positions) /\ OfStream("audio", p) = Cat(o, a)
  BY <1>1, <1>2, SiftPart
<1>8. OfStream("audio", Cat(p, k)) = Cat(OfStream("audio", p), x)
  <2> HIDE DEF p
  <2>1. QED
    BY <1>1, <1>7, SiftCat
<1> HIDE DEF o, x, p
<1>9. Cat(Cat(o, a), x) = Cat(o, Cat(a, x))
  BY <1>2, <1>3, CatIs
<1>10. QED
  BY <1>5, <1>6, <1>7, <1>8, <1>9

(* Through six threads and five queues no packet is lost, doubled or       *)
(* overtaken, for every input, capacity and lag.                           *)
THEOREM PacketsKept == Spec => []NothingLost
<1>1. IInv => NothingLost
  <2> SUFFICES ASSUME IInv PROVE NothingLost
    OBVIOUS
  <2>1. Items /\ Kinded /\ audioStream \in {0, 1}
    BY DEF IInv, Types, TypeOK, Items
  <2>2. QED
    BY <2>1, VideoPathIs, AudioPathIs DEF IInv, Kept, NothingLost
<1>2. QED
  BY <1>1, Invariance, PTL

(* What is true of a job whose state is Completed.                         *)
LEMMA CompletedJobs ==
  ASSUME IInv, state = "Completed", ~Cancelled
  PROVE  /\ ~Failed
         /\ pc["demux"] \in {"endSound", "gone"}
         /\ \A s \in Workers : pc[s] = "gone"
         /\ pc["mux"] \in {"notify", "gone"} => checkpoint = 0
         /\ troubles \cap {"read", "timeout", "flush"} = {} =>
              /\ next = Len(Media) + 1
              /\ ReadSoFar = [i \in Positions |-> i]
              /\ OfStream("video", output[0]) = OfStream("video", ReadSoFar)
<1>1. Sound /\ pc["mux"] \in {"clean", "notify", "gone"}
  BY DEF IInv, Over, Sound
<1>2. /\ \A s \in Workers : pc[s] = "gone"
      /\ pc["demux"] \in {"endSound", "gone"}
      /\ \A q \in VideoQueues : Starved(q)
  BY <1>1, AllOver DEF IInv, MuxOut
<1>3. ~Failed
  <2>1. pc["audio"] # "err"
    BY DEF IInv, Hands, Places, InLoop, Stages
  <2>2. QED
    BY <1>1, <1>2, <2>1 DEF Sound, Failed, Stages, Workers
<1>4. pc["mux"] \in {"notify", "gone"} => checkpoint = 0
  BY DEF IInv, Over
<1>5. ASSUME troubles \cap {"read", "timeout", "flush"} = {}
      PROVE  /\ next = Len(Media) + 1
             /\ ReadSoFar = [i \in Positions |-> i]
             /\ OfStream("video", output[0]) = OfStream("video", ReadSoFar)
  <2>1. "read" \notin troubles /\ "timeout" \notin troubles
        /\ "flush" \notin troubles
    BY <1>5
  <2>2. \A s \in Stages \ {"audio"} : hand[s] = <<>>
    BY <1>1, <1>2 DEF IInv, Hands, Busy, Stages, Workers
  <2>3. \A s \in Workers : held[s] = <<>>
    BY <1>1, <1>2, <2>1 DEF IInv, EndChain, Ended
  <2>4. \A q \in VideoQueues : queue[q] = <<>>
    BY <1>2, <2>1 DEF Starved
  <2>5. \A s \in Stages \ {"audio"} : Part(s) = <<>>
    <3>1. \A s \in Stages \ {"audio"} : Held(s) = <<>> /\ InQueue(s) = <<>>
      BY <2>3, <2>4, Ways DEF Held, InQueue, Stages, Workers, VideoQueues
    <3>2. <<>> \o <<>> = <<>>
      BY EmptySeq, ConcatEmptySeq
    <3>3. QED
      BY <2>2, <3>1, <3>2 DEF Part
  <2>6. next = Len(Media) + 1 /\ ReadSoFar = [i \in Positions |-> i]
    <3>1. next > Len(Media) /\ next \in 1 .. Len(Media) + 1
          /\ Len(Media) \in Nat
      BY <1>1, <1>2, <2>1, TranscodeAssumption, LenProperties
         DEF IInv, EndChain, Ended, Types, TypeOK
    <3>2. next = Len(Media) + 1 /\ next - 1 = Len(Media)
      BY <3>1
    <3>3. QED
      BY <3>2 DEF ReadSoFar, Positions
  <2>7. VideoLine = OfStream("video", ReadSoFar)
    BY <1>3 DEF IInv, Kept
  <2>8. OfStream("video", output[0]) \in Seq(Positions)
    BY SiftType DEF IInv, Types, TypeOK
  <2>9. VideoLine = OfStream("video", output[0])
    <3>1. VideoLine = OfStream("video", output[0])
            \o (<<>> \o (<<>> \o (<<>> \o (<<>> \o <<>>))))
      BY <2>5, SiftEmpty DEF VideoLine, Stages
    <3>2. <<>> \o <<>> = <<>>
      BY EmptySeq, ConcatEmptySeq
    <3>3. QED
      BY <2>8, <3>1, <3>2, ConcatEmptySeq
  <2>10. QED
    BY <2>6, <2>7, <2>9
<1>6. QED
  BY <1>2, <1>3, <1>4, <1>5

(* A completed job has failed nowhere, all of its video stages are over,   *)
(* and the file holds every video packet of the input.                     *)
THEOREM CompletedJobsAreWhole == Spec => []CompletedIsOver
<1>1. IInv => CompletedIsOver
  BY CompletedJobs DEF CompletedIsOver
<1>2. QED
  BY <1>1, Invariance, PTL

(* The saved checkpoint is never further ahead of the file than what is    *)
(* between the encoder and the file, whatever Interval is and wherever a   *)
(* cancel() stops the stages.                                              *)
THEOREM CheckpointsLag == Spec => []CheckpointBehind
<1>1. IInv => CheckpointBehind
  <2> SUFFICES ASSUME IInv, "write" \notin troubles
               PROVE  checkpoint <= Len(OfStream("video", output[0]))
                                      + Len(hand["mux"])
                                        + Len(queue["encoded"])
    BY DEF CheckpointBehind
  <2>1. Items /\ framesProcessed \in Nat /\ checkpoint \in Nat
        /\ checkpoint <= framesProcessed
        /\ framesProcessed + Uncounted
             = Len(OfStream("video", output[0])) + Len(Part("mux"))
    BY DEF IInv, Types, TypeOK, Items, Counting
  <2> DEFINE n == Len(OfStream("video", output[0]))
             h == Len(hand["mux"])
             q == Len(queue["encoded"])
  <2>2. n \in Nat /\ h \in Nat /\ q \in Nat
    BY <2>1, SiftType, LenProperties DEF Items, Stages, Queues
  <2>3. Len(Part("mux")) = h + q
    <3>1. hand["mux"] \in Seq(Positions) /\ queue["encoded"] \in Seq(Positions)
      BY <2>1 DEF Items, Stages, Queues
    <3>2. Part("mux") = hand["mux"] \o queue["encoded"]
      BY <2>1, PartIs DEF Cat
    <3>3. QED
      BY <3>1, <3>2, ConcatProperties
  <2>4. Uncounted \in Nat
    BY DEF Uncounted
  <2> HIDE DEF n, h, q
  <2>5. checkpoint <= n + h + q
    BY <2>1, <2>2, <2>3, <2>4 DEF n
  <2>6. QED
    BY <2>5 DEF n, h, q
<1>2. QED
  BY <1>1, Invariance, PTL

(* waitUntilComplete calls a failed job a success only if it looks between *)
(* setError's store of the state and its store of the result.              *)
THEOREM ResultsAreHonest == Spec => ResultIsHonest
<1>1. IInv /\ [Next]_vars =>
        [runner = "wait" /\ runner' = "success" /\ errorFlag /\ ~Cancelled =>
           \E s \in Stages : pc[s] \in {"errClose", "errResult"}]_vars
  <2> SUFFICES ASSUME IInv, [Next]_vars, runner = "wait",
                      runner' = "success", errorFlag, ~Cancelled
               PROVE  \E s \in Stages : pc[s] \in {"errClose", "errResult"}
    OBVIOUS
  <2>1. Wait
    <3>1. ASSUME NEW s \in Stages, Stage(s) PROVE FALSE
      <4>1. runner' \in {runner, "wait"}
        BY <3>1, StageSteps DEF StageStep
      <4>2. QED
        BY <4>1
    <3>2. CASE SpuriousWakeUp \/ User \/ UNCHANGED vars
      BY <3>2 DEF SpuriousWakeUp, User, Pause, Resume, Cancel, Cancelling,
         CancelResumes, CancelCloses, CancelDone, NotUi, vars, clientVars
    <3>3. CASE Runner /\ ~Wait
      BY <3>3 DEF Runner, Configure, StartReset, StartMuxer, Launch
    <3>4. QED
      BY <3>1, <3>2, <3>3 DEF Next
  <2>2. state \in Final /\ completionResult = "success"
    BY <2>1 DEF Wait
  <2>3. state = "Error"
    BY <2>2 DEF IInv, Over, Final
  <2>4. QED
    BY <2>2, <2>3 DEF IInv, Telling
<1>2. QED
  BY <1>1, Invariance, PTL DEF ResultIsHonest, Spec

-----------------------------------------------------------------------------
(* The job of TranscodeJob.                                                *)
(* A packet right behind what is written of its stream is the next of it.  *)
LEMMA NextOfFile ==
  ASSUME NEW a \in Seq(Positions), NEW r \in Seq(Positions),
         NEW p \in Positions, NEW t, NEW n \in Int,
         Prefix(Cat(a, <<p>>), r), Rising(r),
         Inside(r) = {q \in OfFile(t) : q < n}
  PROVE  /\ Media[p] = t
         /\ Job!Follows(a, p)
<1> DEFINE h == <<p>>
<1>1. h \in Seq(Positions) /\ Inside(h) = {p}
  BY InsideOne
<1>2. PICK z \in Seq(Positions) : Cat(Cat(a, h), z) = r
  BY DEF Prefix
<1> HIDE DEF h
<1>3. Cat(a, h) \in Seq(Positions)
  BY <1>1, CatIs
<1>4. /\ Inside(Cat(a, h)) = Inside(a) \cup Inside(h)
      /\ Rising(Cat(a, h)) => Before(Inside(a), Inside(h))
  BY <1>1, InsideCat
<1>5. /\ Inside(r) = Inside(Cat(a, h)) \cup Inside(z)
      /\ Rising(Cat(a, h)) /\ Before(Inside(Cat(a, h)), Inside(z))
  BY <1>2, <1>3, InsideCat
<1>6. p \in Inside(r) /\ Media[p] = t /\ p < n
  BY <1>1, <1>4, <1>5 DEF OfFile
<1>7. /\ \A q \in Inside(a) : q < p
      /\ \A q \in Inside(z) : p < q
      /\ Inside(r) = Inside(a) \cup {p} \cup Inside(z)
  BY <1>1, <1>4, <1>5 DEF Before
<1>8. ASSUME NEW q \in Positions, Media[q] = t, q < p
      PROVE  q \in Inside(a)
  <2>1. p \in Int /\ q \in Int
    BY DEF Positions
  <2>2. q \in Inside(r)
    BY <1>6, <1>8, <2>1 DEF OfFile
  <2>3. q # p /\ ~(p < q)
    BY <1>8, <2>1
  <2>4. QED
    BY <1>7, <2>2, <2>3
<1>9. \A q \in Positions :
        Media[q] = Media[p] => (q < p <=> q \in Inside(a))
  BY <1>6, <1>7, <1>8
<1>10. QED
  BY <1>6, <1>9 DEF Job!Follows, Job!Positions, Job!Written, Positions, Inside

(* A step that writes a packet, and any other.                             *)
Writes(s) ==
  /\ Write(s) /\ muxer # "closed"
  /\ output'[StreamOf(s)] = output[StreamOf(s)] \o hand[s]
  /\ output'[1 - StreamOf(s)] = output[1 - StreamOf(s)]
  /\ Again(s) /\ UNCHANGED troubles

LEMMA OutputStep ==
  ASSUME IInv, [Next]_vars
  PROVE  \/ \E s \in Writers : Writes(s)
         \/ Film' = Film /\ Track' = Track
<1> Items /\ output \in [{0, 1} -> Seq(Positions)] /\ audioStream \in {0, 1}
  BY DEF IInv, Types, TypeOK, Items
<1>1. Film' = OfStream("video", output'[0])
      /\ Track' = OfStream("audio", output'[audioStream'])
  BY DEF Film, Track, OfStream
<1>2. CASE StartMuxer
  <2>1. Fresh /\ UNCHANGED output
    BY <1>2 DEF StartMuxer, NotRunner, IInv, Launched, Setup
  <2>2. audioStream' \in {0, 1}
    BY SwitchesStep DEF Switches
  <2>3. QED
    BY <1>1, <2>1, <2>2 DEF Film, Track, Fresh
<1>3. ASSUME ~StartMuxer, UNCHANGED output
      PROVE  Film' = Film /\ Track' = Track
  BY <1>1, <1>3, MuxerStays DEF Film, Track
<1>4. ASSUME NEW s \in Writers, Write(s)
      PROVE  Writes(s) \/ UNCHANGED output
  <2>1. CASE UNCHANGED output
    BY <2>1
  <2>2. CASE ~UNCHANGED output
    <3>1. WritePacket(s) /\ Again(s) /\ UNCHANGED troubles
      BY <1>4, <2>2 DEF Write, NoTrouble
    <3>2. /\ output'[StreamOf(s)] = output[StreamOf(s)] \o hand[s]
          /\ output'[1 - StreamOf(s)] = output[1 - StreamOf(s)]
          /\ muxer # "closed"
      BY <1>4, <2>2, WriteSplit
    <3>3. QED
      BY <1>4, <3>1, <3>2 DEF Writes
  <2>3. QED
    BY <2>1, <2>2
<1>5. \/ \E s \in Writers : Write(s)
      \/ UNCHANGED output
  <2>1. ASSUME NEW s \in Workers, Convert(s) \/ Flush(s)
        PROVE  UNCHANGED output
    BY <2>1, WorkFlow
  <2>2. ASSUME NEW s \in Producers, Pushed(s) \/ Dropped(s)
        PROVE  UNCHANGED output
    BY <2>2, PushFlow, DropFlow
  <2>3. ASSUME NEW s \in Writers, Take(s)
        PROVE  UNCHANGED output
    BY <2>3, TakeFlow
  <2>4. ReadPacket => UNCHANGED output
    BY ReadFlow
  <2>5. QED
    BY <2>1, <2>2, <2>3, <2>4, Steps, StillFlow DEF Demux, Produces, Writer
<1>6. QED
  BY <1>2, <1>3, <1>4, <1>5

(* What the client is told.                                                *)
Bad == Cancelled \/ Failed \/ troubles \cap {"read", "timeout", "flush"} # {}

LEMMA BadStays ==
  ASSUME IInv, [Next]_vars
  PROVE  /\ Bad => Bad'
         /\ "write" \in troubles => "write" \in troubles'
<1>1. troubles \subseteq troubles'
  BY TroublesGrow
<1>2. Cancelled \/ Failed => Cancelled' \/ Failed'
  BY StillClean DEF Clean
<1>3. QED
  BY <1>1, <1>2 DEF Bad

LEMMA RunnerStep ==
  ASSUME IInv, [Next]_vars
  PROVE  \/ runner' = runner
         \/ Wait
         \/ /\ runner \notin {"success", "error"}
            /\ runner' \notin {"success", "error"}
<1>1. ASSUME NEW s \in Stages, Stage(s)
      PROVE  runner' = runner \/ (runner = "asleep" /\ runner' = "wait")
  BY <1>1, StageSteps DEF StageStep
<1>2. CASE SpuriousWakeUp \/ User \/ UNCHANGED vars
  BY <1>2 DEF SpuriousWakeUp, User, Pause, Resume, Cancel, Cancelling,
     CancelResumes, CancelCloses, CancelDone, NotUi, vars, clientVars
<1>3. CASE Runner /\ ~Wait
  BY <1>3 DEF Runner, Configure, StartReset, StartMuxer, Launch
<1>4. QED
  BY <1>1, <1>2, <1>3 DEF Next

(* Success is the answer for a whole film, or after trouble; an error only *)
(* after trouble.                                                          *)
LEMMA AnswerIs ==
  ASSUME IInv, Wait, state \in Final
  PROVE  /\ completionResult = "error" => Bad
         /\ completionResult = "success" =>
              Bad \/ \A p \in Positions : Media[p] = "video"
                => p \in Inside(Film)
<1>1. completionResult = "error" => Bad
  BY DEF IInv, Flags, Bad, Failed
<1>2. ASSUME completionResult = "success", ~Bad
      PROVE  \A p \in Positions : Media[p] = "video" => p \in Inside(Film)
  <2>1. ~Cancelled /\ ~Failed
          /\ troubles \cap {"read", "timeout", "flush"} = {}
    BY <1>2 DEF Bad
  <2>2. state = "Completed"
    <3>1. state # "Cancelled"
      BY DEF IInv, Over
    <3>2. state = "Error" => errorFlag
      BY <1>2, <2>1 DEF IInv, Telling, Flags
    <3>3. QED
      BY <2>1, <3>1, <3>2 DEF Final, Failed
  <2>3. next = Len(Media) + 1 /\ Film = FilmRead
    BY <2>1, <2>2, CompletedJobs DEF Film, FilmRead
  <2>4. Inside(FilmRead) = {p \in OfFile("video") : p < next}
    BY DEF IInv, Lines, ReadIs, FilmRead
  <2>5. \A p \in Positions : p < Len(Media) + 1
    BY TranscodeAssumption, LenProperties DEF Positions
  <2>6. QED
    BY <2>3, <2>4, <2>5 DEF OfFile
<1>3. QED
  BY <1>1, <1>2

(* A write adds a packet to the film, or to the sound, and nothing else.   *)
LEMMA WriteAdds ==
  ASSUME IInv, [Next]_vars, NEW s \in Writers, Writes(s)
  PROVE  /\ Bad' = Bad /\ runner' = runner /\ troubles' = troubles
         /\ \E p \in Positions :
              \/ Film' = Append(Film, p) /\ Track' = Track
              \/ /\ Film' = Film /\ Track' = Append(Track, p)
                 /\ HasAudio /\ Coming = Cat(<<p>>, Coming')
                 /\ Media[p] = "audio"
<1> /\ Items /\ Items' /\ Kinded /\ Hands /\ Launched
    /\ pc \in [Stages -> StagePcs] /\ audioStream \in {0, 1}
  BY ItemsStep DEF IInv, Types, TypeOK, Items
<1> s \in Stages
  BY Ways
<1>1. /\ hand[s] \in Seq(Positions) /\ Len(hand[s]) = 1
      /\ Part(s) = hand[s] \o Part(s)' /\ Part(s)' \in Seq(Positions)
      /\ Rest({s}) /\ UNCHANGED <<next, audioStream>>
  BY WriteFlow, PartTypeAfter DEF Writes, Write, NotWriter
<1>2. PICK p \in Positions : hand[s] = <<p>>
  BY <1>1, OneItem
<1>3. <<p>> \in Seq(Positions)
  OBVIOUS
<1>4. /\ Film \in Seq(Positions) /\ Track \in Seq(Positions)
      /\ Film' = OfStream("video", output'[0])
      /\ Track' = OfStream("audio", output'[audioStream])
  BY <1>1, FilmTypes, TrackTypes DEF Film, OfStream
<1>5. Bad' = Bad /\ runner' = runner /\ troubles' = troubles
  <2>1. pc[s] = "write" /\ UNCHANGED <<errorFlag, runner, troubles>>
    BY DEF Writes, Write, NotWriter, clientVars
  <2>2. pc'[s] # "err" /\ \A r \in Stages \ {s} : pc'[r] = pc[r]
    <3>1. Return(s, InQueue(s)) \notin Error
      BY Leaving DEF Error
    <3>2. QED
      BY <3>1 DEF Writes, Again, Goto, Error
  <2>3. Failed' <=> Failed
    BY <2>1, <2>2 DEF Failed
  <2>4. QED
    BY <2>1, <2>3 DEF Bad, Cancelled
<1>6. ASSUME NEW t, All(t, Part(s)) PROVE All(t, <<p>>)
  BY <1>1, <1>2, <1>3, <1>6, AllParts
<1>7. CASE s = "mux"
  <2>1. output'[0] = output[0] \o <<p>> /\ output'[1] = output[1]
    <3>1. StreamOf("mux") = 0 /\ 1 - 0 = 1
      BY DEF StreamOf
    <3>2. QED
      BY <1>2, <1>7, <3>1 DEF Writes
  <2>2. All("video", <<p>>)
    BY <1>6, <1>7 DEF Kinded
  <2>3. output[0] \in Seq(Positions)
    BY DEF Items
  <2>4. OfStream("video", output[0] \o <<p>>)
          = OfStream("video", output[0]) \o <<p>>
    BY <1>3, <2>2, <2>3, SiftMore
  <2>5. OfStream("audio", output[0] \o <<p>>) = OfStream("audio", output[0])
    BY <1>3, <2>2, <2>3, SiftSame
  <2>6. Film' = Append(Film, p)
    BY <1>4, <2>1, <2>4, AppendIsConcat DEF Film
  <2>7. Track' = Track
    <3>1. CASE audioStream = 0
      BY <1>4, <2>1, <2>5, <3>1 DEF Track
    <3>2. CASE audioStream = 1
      BY <1>4, <2>1, <3>2 DEF Track
    <3>3. QED
      BY <3>1, <3>2
  <2>8. QED
    BY <1>5, <2>6, <2>7
<1>8. CASE s = "audio"
  <2>1. output'[audioStream] = output[audioStream] \o <<p>>
        /\ output'[1 - audioStream] = output[1 - audioStream]
    BY <1>2, <1>8 DEF Writes, StreamOf
  <2>2. All("audio", <<p>>)
    BY <1>6, <1>8 DEF Kinded
  <2>3. output[audioStream] \in Seq(Positions) /\ output[0] \in Seq(Positions)
    BY DEF Items
  <2>4. OfStream("audio", output[audioStream] \o <<p>>)
          = OfStream("audio", output[audioStream]) \o <<p>>
    BY <1>3, <2>2, <2>3, SiftMore
  <2>5. OfStream("video", output[0] \o <<p>>) = OfStream("video", output[0])
    BY <1>3, <2>2, <2>3, SiftSame
  <2>6. Track' = Append(Track, p)
    BY <1>4, <2>1, <2>4, AppendIsConcat DEF Track
  <2>7. Film' = Film
    <3>1. CASE audioStream = 0
      BY <1>4, <2>1, <2>5, <3>1 DEF Film
    <3>2. CASE audioStream = 1
      <4>1. 1 - 1 = 0
        OBVIOUS
      <4>2. QED
        BY <1>4, <2>1, <3>2, <4>1 DEF Film
    <3>3. QED
      BY <3>1, <3>2
  <2>8. HasAudio
    BY <1>8 DEF Writes, Write, Launched
  <2>9. Coming = Cat(<<p>>, Coming')
    BY <1>1, <1>2, <1>8 DEF Coming, Cat
  <2>10. Media[p] = "audio"
    BY <2>2 DEF All
  <2>11. QED
    BY <1>5, <2>6, <2>7, <2>8, <2>9, <2>10
<1>9. QED
  BY <1>7, <1>8 DEF Writers

(* Each step of the pipeline is a step of the job, or none of it.          *)
LEMMA JobStep ==
  ASSUME IInv, IInv', [Next]_vars
  PROVE  [Job!Next]_(Job!vars)
<1> Lines /\ Lines'
  BY DEF IInv
<1> DEFINE Told  == IF runner \in {"success", "error"} THEN runner ELSE "none"
           Lossy == "write" \in troubles
<1>1. /\ Film \in Seq(Positions) /\ Track \in Seq(Positions)
      /\ FilmRead \in Seq(Positions) /\ TrackRead \in Seq(Positions)
      /\ Coming \in Seq(Positions) /\ Onward \in Seq(Positions)
      /\ Coming' \in Seq(Positions) /\ Onward' \in Seq(Positions)
      /\ next \in Int
  <2>1. Items /\ next \in Int
    BY DEF IInv, Types, TypeOK, Items
  <2>2. QED
    BY <2>1, TrackTypes, FilmTypes, ReadType DEF FilmRead
<1>2. Bad \in BOOLEAN /\ Bad' \in BOOLEAN
  BY DEF Bad
<1>3. Job!vars = <<Film, Track, Bad, Lossy, Told>>
  BY DEF Job!vars, Film, Track, Bad
<1>4. CASE Film' = Film /\ Track' = Track
  <2>1. CASE Wait /\ state \in Final
    <3>1. /\ Told = "none" /\ Told' = completionResult
          /\ completionResult \in {"success", "error"}
          /\ Bad' = Bad /\ Lossy' = Lossy
      BY <2>1 DEF Wait, NoTrouble, flagVars, resultVars, Bad, Failed,
         Cancelled, IInv, Types, TypeOK
    <3>2. /\ completionResult = "error" => Bad
          /\ completionResult = "success" => Bad \/ Job!Whole
      BY <2>1, AnswerIs DEF Job!Whole, Job!Written, Job!Positions,
         Positions, Inside, Film
    <3>3. Job!Answer(completionResult)
      BY <1>4, <3>1, <3>2 DEF Job!Answer, Film, Track, Bad
    <3>4. QED
      BY <3>1, <3>3 DEF Job!Next
  <2>2. CASE ~(Wait /\ state \in Final)
    <3>1. Told' = Told
      BY <2>2, RunnerStep DEF Wait
    <3>2. /\ Bad => Bad'
          /\ Lossy => Lossy'
      BY BadStays
    <3>3. Job!Suffer
      BY <1>2, <1>4, <3>1, <3>2 DEF Job!Suffer, Film, Track, Bad
    <3>4. QED
      BY <3>3 DEF Job!Next
  <2>3. QED
    BY <2>1, <2>2
<1>5. ASSUME NEW s \in Writers, Writes(s)
      PROVE  Job!Next
  <2>1. /\ Bad' = Bad /\ Lossy' = Lossy /\ Told' = Told
        /\ "write" \in troubles' <=> "write" \in troubles
        /\ next' = next
    BY <1>5, WriteAdds, WriteFlow DEF Writes
  <2>2. PICK p \in Positions :
          \/ Film' = Append(Film, p) /\ Track' = Track
          \/ /\ Film' = Film /\ Track' = Append(Track, p)
             /\ HasAudio /\ Coming = Cat(<<p>>, Coming')
             /\ Media[p] = "audio"
    BY <1>5, WriteAdds
  <2>3. FilmRead' = FilmRead /\ TrackRead' = TrackRead
    BY <2>1 DEF FilmRead, TrackRead, ReadSoFar, OfStream
  <2>4. p \in Job!Positions
    BY DEF Job!Positions, Positions
  <2>5. CASE Film' = Append(Film, p) /\ Track' = Track
    <3>1. Prefix(Film', FilmRead')
      BY DEF Lines, FilmRuns, Prefix, Cat
    <3>2. Prefix(Cat(Film, <<p>>), FilmRead)
      BY <1>1, <2>3, <2>5, <3>1, AppendIsConcat DEF Cat
    <3>3. /\ Rising(FilmRead)
          /\ Inside(FilmRead) = {q \in OfFile("video") : q < next}
      BY DEF Lines, ReadIs, FilmRead
    <3>4. Media[p] = "video" /\ Job!Follows(Film, p)
      BY <1>1, <3>2, <3>3, NextOfFile
    <3>5. Job!AddFrame(p)
      BY <2>1, <2>5, <3>4 DEF Job!AddFrame, Film, Track, Bad
    <3>6. QED
      BY <2>4, <3>5 DEF Job!Next
  <2>6. CASE /\ Film' = Film /\ Track' = Append(Track, p)
             /\ HasAudio /\ Coming = Cat(<<p>>, Coming')
             /\ Media[p] = "audio"
    <3>1. CASE Lossy
      <4> DEFINE h == <<p>>
      <4>1. h \in Seq(Positions) /\ Inside(h) = {p}
        BY InsideOne
      <4>2. Track2 = Cat(Track, Cat(h, Cat(Coming', Onward)))
        <5> HIDE DEF h
        <5>1. Cat(Cat(Track, Cat(h, Coming')), Onward)
                = Cat(Track, Cat(h, Cat(Coming', Onward)))
          BY <1>1, <4>1, Passing
        <5>2. Coming = Cat(h, Coming')
          BY <2>6 DEF h
        <5>3. QED
          BY <5>1, <5>2 DEF Track2, Track1
      <4> HIDE DEF h
      <4>3. Cat(Coming', Onward) \in Seq(Positions)
            /\ Cat(h, Cat(Coming', Onward)) \in Seq(Positions)
        BY <1>1, <4>1, CatIs
      <4>4. Before(Inside(Track), Inside(Cat(h, Cat(Coming', Onward))))
        BY <1>1, <4>2, <4>3, InsideCat DEF Lines, TrackRises
      <4>5. Inside(h) \subseteq Inside(Cat(h, Cat(Coming', Onward)))
        BY <4>1, <4>3, InsideCat
      <4>6. \A q \in Inside(Track) : q < p
        BY <4>1, <4>4, <4>5 DEF Before
      <4>7. Job!Later(Track, p)
        BY <4>6 DEF Job!Later, Job!Written, Inside
      <4>8. Job!AddSound(p)
        BY <2>1, <2>6, <3>1, <4>7 DEF Job!AddSound, Film, Track, Bad
      <4>9. QED
        BY <2>4, <4>8 DEF Job!Next
    <3>2. CASE ~Lossy
      <4>1. Prefix(Track', TrackRead')
        BY <2>1, <2>6, <3>2 DEF Lines, TrackRuns, Prefix, Cat
      <4>2. Prefix(Cat(Track, <<p>>), TrackRead)
        BY <1>1, <2>3, <2>6, <4>1, AppendIsConcat DEF Cat
      <4>3. /\ Rising(TrackRead)
            /\ Inside(TrackRead) = {q \in OfFile("audio") : q < next}
        BY DEF Lines, ReadIs, TrackRead
      <4>4. Job!Follows(Track, p)
        BY <1>1, <4>2, <4>3, NextOfFile
      <4>5. Job!AddSound(p)
        BY <2>1, <2>6, <3>2, <4>4 DEF Job!AddSound, Film, Track, Bad
      <4>6. QED
        BY <2>4, <4>5 DEF Job!Next
    <3>3. QED
      BY <3>1, <3>2
  <2>7. QED
    BY <2>2, <2>5, <2>6
<1>6. QED
  BY <1>4, <1>5, OutputStep

(***************************************************************************)
(* The pipeline keeps the promise of TranscodeJob, for every input, every  *)
(* capacity and lag, and all troubles: at any time the film and the sound  *)
(* in the file are the beginning of those of the input, without a gap, and *)
(* success is answered for a whole film, or after trouble.                 *)
(***************************************************************************)
THEOREM JobIsKept == Spec => ImplementsJob
<1>1. Init => Job!Init
  <2> SUFFICES ASSUME Init PROVE Job!Init
    OBVIOUS
  <2>1. Film = <<>> /\ Track = <<>>
    BY SiftEmpty DEF Init, Film, Track
  <2>2. ~Bad /\ "write" \notin troubles /\ runner = "new"
    BY DEF Init, Bad, Cancelled, Failed
  <2>3. Bad = FALSE
    BY <2>2 DEF Bad
  <2>4. QED
    BY <2>1, <2>2, <2>3 DEF Job!Init, Film, Track, Bad
<1>2. IInv /\ IInv' /\ [Next]_vars => [Job!Next]_(Job!vars)
  BY JobStep
<1>3. QED
  BY <1>1, <1>2, Invariance, PTL DEF Spec, ImplementsJob, Job!Spec
=============================================================================
