---------------------- MODULE ThreadServices_proofs ----------------------
(***************************************************************************)
(* Proofs about the services that run threads of their own: the recording   *)
(* of a camera, the stream to a server, the extraction of a stream's        *)
(* address, speech recognition, super resolution, and the player of the     *)
(* SDK, for every number of frames, sounds, packets, retries and calls,     *)
(* and every capacity. Each has an inductive invariant of its own, named    *)
(* <prefix>IInv; the last lemma of each draws from it what the runs         *)
(* check, and the theorem says it of its specification.                     *)
(***************************************************************************)
EXTENDS RecordingPipeline, StreamingPipeline, StreamExtractor, ASRPipeline,
        RealtimeVSRPipeline, PlayerFacade, FiniteSetTheorems,
        SequenceTheorems, TLAPS

-----------------------------------------------------------------------------
(* Sequences of frames.                                                    *)

(* What is in a sequence; that its frames, which are above 0, rise; that   *)
(* those of one set are below those of another.                            *)
Inside(s) == {s[i] : i \in 1 .. Len(s)}
Rising(s) ==
  \A i, j \in 1 .. Len(s) : i < j /\ s[i] > 0 /\ s[j] > 0 => s[i] < s[j]
Ahead(S, T) == \A x \in S, y \in T : x > 0 /\ y > 0 => x < y

(* Of no frame, ...                                                        *)
LEMMA OfEmpty == Inside(<<>>) = {} /\ Rising(<<>>)
  BY DEF Inside, Rising

(* ... of one, ...                                                         *)
LEMMA OfOne == ASSUME NEW x \in Int PROVE Inside(<<x>>) = {x} /\ Rising(<<x>>)
  BY DEF Inside, Rising

(* ... of two sequences, one after the other, ...                          *)
LEMMA OfConcat ==
  ASSUME NEW s \in Seq(Int), NEW t \in Seq(Int)
  PROVE  /\ s \o t \in Seq(Int) /\ Len(s \o t) = Len(s) + Len(t)
         /\ Inside(s \o t) = Inside(s) \cup Inside(t)
         /\ Rising(s \o t) <=>
              Rising(s) /\ Rising(t) /\ Ahead(Inside(s), Inside(t))
<1> DEFINE m == Len(s)
           n == Len(t)
           c == s \o t
<1>1. /\ m \in Nat /\ n \in Nat /\ m = Len(s) /\ n = Len(t)
           /\ Len(c) = m + n /\ c \in Seq(Int)
      /\ \A i \in 1 .. m : c[i] = s[i] /\ s[i] \in Int
      /\ \A i \in m + 1 .. m + n : c[i] = t[i - m]
      /\ \A j \in 1 .. n : t[j] \in Int
  OBVIOUS
<1>2. \A j \in 1 .. n : m + j \in m + 1 .. m + n /\ c[m + j] = t[j]
  BY <1>1
<1> HIDE DEF m, n, c
<1>3. Inside(c) = Inside(s) \cup Inside(t)
  <2>1. Inside(c) \subseteq Inside(s) \cup Inside(t)
    <3> SUFFICES ASSUME NEW i \in 1 .. m + n
                 PROVE c[i] \in Inside(s) \cup Inside(t)
      BY <1>1 DEF Inside
    <3>1. CASE i <= m
      <4>1. i \in 1 .. m /\ c[i] = s[i]
        BY <3>1, <1>1
      <4>2. QED
        BY <4>1, <1>1 DEF Inside
    <3>2. CASE i > m
      <4>1. i - m \in 1 .. n /\ c[i] = t[i - m]
        BY <3>2, <1>1
      <4>2. QED
        BY <4>1, <1>1 DEF Inside
    <3>3. QED
      BY <3>1, <3>2, <1>1
  <2>2. Inside(s) \subseteq Inside(c)
    <3> SUFFICES ASSUME NEW i \in 1 .. m PROVE s[i] \in Inside(c)
      BY <1>1 DEF Inside
    <3>1. i \in 1 .. Len(c) /\ c[i] = s[i]
      BY <1>1
    <3>2. QED
      BY <3>1 DEF Inside
  <2>3. Inside(t) \subseteq Inside(c)
    <3> SUFFICES ASSUME NEW j \in 1 .. n PROVE t[j] \in Inside(c)
      BY <1>1 DEF Inside
    <3>1. m + j \in 1 .. Len(c) /\ c[m + j] = t[j]
      BY <1>1, <1>2
    <3>2. QED
      BY <3>1 DEF Inside
  <2>4. QED
    BY <2>1, <2>2, <2>3
<1>4. ASSUME Rising(c)
      PROVE  Rising(s) /\ Rising(t) /\ Ahead(Inside(s), Inside(t))
  <2>1. Rising(s)
    BY <1>4, <1>1 DEF Rising
  <2>2. Rising(t)
    <3> SUFFICES ASSUME NEW i \in 1 .. n, NEW j \in 1 .. n, i < j, t[i] > 0,
                          t[j] > 0
                 PROVE  t[i] < t[j]
      BY <1>1 DEF Rising
    <3>1. m + i < m + j /\ m + i \in 1 .. Len(c) /\ m + j \in 1 .. Len(c)
      BY SMTT(30), <1>1
    <3>2. c[m + i] = t[i] /\ c[m + j] = t[j]
      BY <1>1, <1>2
    <3>3. QED
      BY <3>1, <3>2, <1>4 DEF Rising
  <2>3. Ahead(Inside(s), Inside(t))
    <3> SUFFICES ASSUME NEW i \in 1 .. m, NEW j \in 1 .. n, s[i] > 0, t[j] > 0
                 PROVE  s[i] < t[j]
      BY <1>1 DEF Ahead, Inside
    <3>1. i < m + j /\ i \in 1 .. m + n /\ m + j \in 1 .. m + n
      BY SMTT(30), <1>1
    <3>2. QED
      BY <3>1, <1>1, <1>2, <1>4 DEF Rising
  <2>4. QED
    BY <2>1, <2>2, <2>3
<1>5. ASSUME Rising(s), Rising(t), Ahead(Inside(s), Inside(t))
      PROVE  Rising(c)
  <2> SUFFICES ASSUME NEW i \in 1 .. m + n, NEW j \in 1 .. m
                        + n, i < j, c[i] > 0, c[j] > 0
               PROVE  c[i] < c[j]
    BY <1>1 DEF Rising
  <2>1. CASE j <= m
    <3>1. i \in 1 .. Len(s) /\ j \in 1 .. Len(s) /\ c[i] = s[i] /\ c[j] = s[j]
      BY <2>1, <1>1
    <3>2. QED
      BY <3>1, <1>5 DEF Rising
  <2>2. CASE i > m
    <3>1. i - m \in 1 .. Len(t) /\ j - m \in 1 .. Len(t) /\ i - m < j - m
      BY <2>2, <1>1
    <3>2. c[i] = t[i - m] /\ c[j] = t[j - m]
      <4>1. i \in m + 1 .. m + n /\ j \in m + 1 .. m + n
        BY <2>2, <1>1
      <4>2. QED
        BY <4>1, <1>1
    <3>3. QED
      BY <3>1, <3>2, <1>5 DEF Rising
  <2>3. CASE i <= m /\ j > m
    <3>1. i \in 1 .. Len(s) /\ j - m \in 1 .. Len(t) /\ j \in m + 1 .. m + n
      BY <2>3, <1>1
    <3>2. c[j] = t[j - m] /\ c[i] = s[i]
      BY <3>1, <1>1
    <3>3. s[i] \in Inside(s) /\ t[j - m] \in Inside(t)
      BY <3>1 DEF Inside
    <3>4. QED
      BY <3>2, <3>3, <1>5 DEF Ahead
  <2>4. QED
    BY <2>1, <2>2, <2>3, <1>1
<1>6. QED
  BY <1>1, <1>3, <1>4, <1>5 DEF m, n, c

(* ... of all but the first, ...                                           *)
LEMMA OfTail ==
  ASSUME NEW s \in Seq(Int), s # <<>>
  PROVE  /\ Head(s) \in Int /\ Tail(s) \in Seq(Int)
           /\ Len(Tail(s)) = Len(s) - 1
         /\ Inside(s) = {Head(s)} \cup Inside(Tail(s))
         /\ Rising(s) => Rising(Tail(s)) /\ Ahead({Head(s)}, Inside(Tail(s)))
<1> DEFINE h == Head(s)
           t == Tail(s)
<1>1. /\ Len(s) \in Nat /\ Len(s) > 0 /\ h = s[1] /\ h \in Int
      /\ t \in Seq(Int) /\ Len(t) = Len(s) - 1
      /\ \A i \in 1 .. Len(s) - 1 : t[i] = s[i + 1] /\ s[i + 1] \in Int
  OBVIOUS
<1> HIDE DEF h, t
<1>2. Inside(s) = {h} \cup Inside(t)
  <2>1. Inside(s) \subseteq {h} \cup Inside(t)
    <3> SUFFICES ASSUME NEW i \in 1 .. Len(s)
                 PROVE s[i] = h \/ s[i] \in Inside(t)
      BY DEF Inside
    <3>1. CASE i = 1
      BY <3>1, <1>1
    <3>2. CASE i # 1
      <4>1. i - 1 \in 1 .. Len(t) /\ t[i - 1] = s[i]
        BY <3>2, <1>1
      <4>2. QED
        BY <4>1 DEF Inside
    <3>3. QED
      BY <3>1, <3>2
  <2>2. h \in Inside(s)
    BY <1>1 DEF Inside
  <2>3. Inside(t) \subseteq Inside(s)
    <3> SUFFICES ASSUME NEW i \in 1 .. Len(t) PROVE t[i] \in Inside(s)
      BY DEF Inside
    <3>1. i + 1 \in 1 .. Len(s) /\ t[i] = s[i + 1]
      BY <1>1
    <3>2. QED
      BY <3>1 DEF Inside
  <2>4. QED
    BY <2>1, <2>2, <2>3
<1>3. ASSUME Rising(s) PROVE Rising(t) /\ Ahead({h}, Inside(t))
  <2>1. Rising(t)
    <3> SUFFICES ASSUME NEW i \in 1 .. Len(t), NEW j \in 1 .. Len(t), i < j,
                          t[i] > 0, t[j] > 0
                 PROVE  t[i] < t[j]
      BY DEF Rising
    <3>1. i + 1 < j + 1 /\ i + 1 \in 1 .. Len(s) /\ j + 1 \in 1 .. Len(s)
      BY <1>1
    <3>2. QED
      BY <3>1, <1>1, <1>3 DEF Rising
  <2>2. Ahead({h}, Inside(t))
    <3> SUFFICES ASSUME NEW j \in 1 .. Len(t), h > 0, t[j] > 0 PROVE h < t[j]
      BY DEF Ahead, Inside
    <3>1. 1 < j + 1 /\ 1 \in 1 .. Len(s) /\ j + 1 \in 1 .. Len(s)
      BY <1>1
    <3>2. QED
      BY <3>1, <1>1, <1>3 DEF Rising
  <2>3. QED
    BY <2>1, <2>2
<1>4. QED
  BY <1>1, <1>2, <1>3 DEF h, t

(* ... and of one more.                                                    *)
LEMMA OfAppend ==
  ASSUME NEW s \in Seq(Int), NEW x \in Int
  PROVE  /\ Append(s, x) \in Seq(Int) /\ Len(Append(s, x)) = Len(s) + 1
         /\ Inside(Append(s, x)) = Inside(s) \cup {x}
         /\ Rising(Append(s, x)) <=> Rising(s) /\ Ahead(Inside(s), {x})
<1>1. Append(s, x) = s \o <<x>>
  OBVIOUS
<1>2. <<x>> \in Seq(Int) /\ Len(<<x>>) = 1
  OBVIOUS
<1> DEFINE o == <<x>>
<1>3. Inside(o) = {x} /\ Rising(o)
  BY OfOne
<1>4. o \in Seq(Int) /\ Len(o) = 1 /\ Append(s, x) = s \o o
  BY <1>1, <1>2
<1> HIDE DEF o
<1>5. /\ s \o o \in Seq(Int) /\ Len(s \o o) = Len(s) + Len(o)
      /\ Inside(s \o o) = Inside(s) \cup Inside(o)
      /\ Rising(s \o o) <=> Rising(s) /\ Rising(o)
           /\ Ahead(Inside(s), Inside(o))
  BY <1>4, OfConcat
<1>6. QED
  BY <1>3, <1>4, <1>5, Zenon

(* A sequence of frames, by its integers.                                  *)
LEMMA OfFrames ==
  ASSUME NEW s, NEW n \in Nat
  PROVE  s \in Seq(1 .. n) <=> s \in Seq(Int) /\ Inside(s) \subseteq 1 .. n
<1>1. ASSUME s \in Seq(1 .. n)
      PROVE s \in Seq(Int) /\ Inside(s) \subseteq 1 .. n
  BY <1>1 DEF Inside
<1>2. ASSUME s \in Seq(Int), Inside(s) \subseteq 1 .. n PROVE s \in Seq(1 .. n)
  <2>1. \A i \in 1 .. Len(s) : s[i] \in 1 .. n
    BY <1>2 DEF Inside
  <2>2. QED
    BY <1>2, <2>1
<1>3. QED
  BY <1>1, <1>2

(* What is where in two sequences, one after the other, ...                *)
LEMMA OfParts ==
  ASSUME NEW s \in Seq(Int), NEW r \in Seq(Int)
  PROVE  /\ Len(s) \in Nat /\ Len(r) \in Nat /\ Len(s \o r) = Len(s) + Len(r)
         /\ \A i \in 1 .. Len(s) : (s \o r)[i] = s[i]
         /\ \A i \in Len(s) + 1 .. Len(s) + Len(r) : (s \o r)[i]
              = r[i - Len(s)]
  OBVIOUS

(* ... the first of one element.                                           *)
LEMMA OfFirst ==
  ASSUME NEW s \in Seq(Int), NEW r \in Seq(Int), Len(s) = 1
  PROVE  /\ (s \o r)[1] = s[1]
         /\ \A j \in 2 .. Len(s \o r) : j - 1 \in 1 .. Len(r)
              /\ (s \o r)[j] = r[j - 1]
<1> DEFINE c == s \o r
           m == Len(s)
           n == Len(r)
<1>1. /\ m \in Nat /\ n \in Nat /\ Len(c) = m + n
      /\ \A i \in 1 .. m : c[i] = s[i]
      /\ \A i \in m + 1 .. m + n : c[i] = r[i - m]
  BY OfParts, Zenon
<1>2. m = 1
  OBVIOUS
<1> HIDE DEF c, m, n
<1>3. c[1] = s[1]
  BY <1>1, <1>2
<1>4. ASSUME NEW j \in 2 .. Len(c) PROVE j - 1 \in 1 .. n /\ c[j] = r[j - 1]
  <2>1. j \in m + 1 .. m + n /\ j - 1 \in 1 .. n /\ j - m = j - 1
    BY <1>1, <1>2
  <2>2. QED
    BY <1>1, <2>1
<1>5. QED
  BY <1>3, <1>4 DEF c, n

(* A sequence of at most one element.                                      *)
LEMMA OfSingle ==
  ASSUME NEW s \in Seq(Int), s # <<>>, Len(s) <= 1
  PROVE  Len(s) = 1 /\ s[1] \in Int /\ s = <<s[1]>>
<1>1. Len(s) \in Nat /\ Len(s) # 0
  OBVIOUS
<1> DEFINE n == Len(s)
<1>a. n \in Nat /\ n # 0 /\ n <= 1
  BY <1>1
<1> HIDE DEF n
<1>b. n = 1
  BY <1>a
<1>2. Len(s) = 1
  BY <1>b DEF n
<1>3. s[1] \in Int
  BY <1>2
<1>4. s = <<s[1]>>
  BY <1>2
<1>5. QED
  BY <1>2, <1>3, <1>4

-----------------------------------------------------------------------------
(* RecordingPipeline.                                                      *)

RecPlaces ==
  /\ recState \in RecStates /\ recMode \in {"File", "Stream", "Both"}
  /\ recRunning \in BOOLEAN /\ recPaused \in BOOLEAN /\ recAborted \in BOOLEAN
  /\ recDown \in BOOLEAN /\ recTrailer \in BOOLEAN /\ recShown \in BOOLEAN
  /\ recThread \in [RecThreads -> {"none", "loop", "read", "push", "pop",
       "write", "flush", "ended"}]
  /\ recUi \in {"idle", "flags", "abort", "join", "close"}

RecNumbers ==
  /\ recCaptured \in 0 .. RecFrames /\ recHeard \in 0 .. RecSounds
  /\ recCount \in 0 .. RecStarts
  /\ recThread["capture"] = "push" => recCaptured >= 1

(* A recording has threads, an open file and a queue that is not shut down *)
(* from start() until stop() has done with each of them.                   *)
RecRuns ==
  /\ recShown <=> recState \in {"Recording", "Paused"}
  /\ recUi # "idle" <=> recState = "Stopping"
  /\ recState \in {"Idle", "Error"} \/ recUi = "close" =>
       \A t \in RecThreads : recThread[t] = "none"
  /\ recState \in {"Recording", "Paused"} => ~recDown
  /\ recUi \in {"join", "close"} => recDown
  /\ recTrailer <=> recState \in {"Idle", "Error"}

(* What the encode thread has in hand and in its encoder.                  *)
RecHolds ==
  /\ recHand # <<>> <=> recThread["encode"] = "write"
  /\ recHeld # <<>> => recThread["encode"] \notin {"none", "ended"}
  /\ recState \in {"Idle", "Error"} => recQueue = <<>>

RecQueues ==
  /\ recQueue \in Seq(Int) /\ Len(recQueue) <= RecCapacity
  /\ recHand \in Seq(Int) /\ Len(recHand) <= 1
  /\ recHeld \in Seq(Int) /\ Len(recHeld) <= RecBFrames
RecBounds ==
  /\ \A x \in Inside(recQueue) \cup Inside(recHand) \cup Inside(recHeld) :
       x \in 1 .. RecFrames
  /\ recLost \subseteq (1 .. RecFrames) \cup {Trailer}
  /\ recFile \in Seq(Int)
  /\ \A x \in Inside(recFile) : x \in (1 .. RecFrames) \cup {Header, Sound,
       Trailer}

RecWhole ==
  RecFileWhole /\ (~recTrailer => recFile # <<>> /\ Trailer \notin recLost)

(* The frames written, held and in hand rise, and then those queued; ...   *)
RecBefore == Inside(recFile) \cup Inside(recHeld) \cup Inside(recHand)
RecOrdered ==
  /\ Rising(recFile) /\ Rising(recHeld)
       /\ Ahead(Inside(recFile), Inside(recHeld))
  /\ Ahead(Inside(recFile), Inside(recHand))
       /\ Ahead(Inside(recHeld), Inside(recHand))
RecOrder ==
  RecOrdered /\ Rising(recQueue) /\ Ahead(RecBefore, Inside(recQueue))

(* ... what precedes one of them went the same way, or was lost; ...       *)
RecEncoded == (RecBefore \cup recLost) \cap (1 .. RecFrames)
RecKnown   == RecEncoded \cup Inside(recQueue)
RecUnbroken ==
  /\ \A x \in RecBefore : x > 0 => 1 .. x \subseteq RecEncoded
  /\ \A x \in Inside(recQueue) : 1 .. x \subseteq RecKnown

(* ... and these are the frames captured, but for the one to be pushed.    *)
RecPushes == recThread["capture"] = "push"
RecSeen ==
  /\ \A x \in RecKnown : x <= recCaptured /\ (RecPushes => x # recCaptured)
  /\ ~recDown => \A x \in 1 .. recCaptured :
                   x \in RecKnown \/ (RecPushes /\ x = recCaptured)

RecVideo == recMode # "Stream" => RecOrder /\ RecUnbroken /\ RecSeen

RecIInv == RecPlaces /\ RecNumbers /\ RecRuns /\ RecHolds /\ RecQueues
           /\ RecBounds /\ RecWhole /\ RecVideo


(* Of no frame all is said, ...                                            *)
RecEmpty ==
  /\ recHeld = <<>> /\ recHand = <<>> /\ recQueue = <<>> /\ recCaptured = 0
  /\ recFile \in {<<>>, <<Header>>, <<Header, Trailer>>}
  /\ recLost \subseteq {Trailer}

LEMMA RecNothing == RecEmpty => RecVideo
<1> SUFFICES ASSUME RecEmpty PROVE RecOrder /\ RecUnbroken /\ RecSeen
  BY DEF RecVideo
<1> USE DEF RecEmpty
<1>e. Inside(<<>>) = {} /\ Rising(<<>>)
  BY OfEmpty
<1>1. \A x \in Inside(recFile) : x \in {-1, -2}
  <2>1. \A i \in 1 .. Len(recFile) : recFile[i] \in {-1, -2}
    BY DEF Header, Trailer
  <2>2. QED
    BY <2>1 DEF Inside
<1>2. Rising(recFile)
  <2>1. \A i \in 1 .. Len(recFile) : recFile[i] \in {-1, -2}
    BY <1>1 DEF Inside
  <2>2. QED
    BY <2>1 DEF Rising
<1>3. RecBefore = Inside(recFile) /\ Inside(recQueue) = {}
  BY <1>e DEF RecBefore
<1>4. RecEncoded = {} /\ RecKnown = {}
  BY <1>1, <1>3 DEF RecEncoded, RecKnown, Trailer
<1>5. RecOrder
  BY <1>e, <1>2, <1>3 DEF RecOrder, RecOrdered, Ahead
<1>6. RecUnbroken
  BY <1>1, <1>3, <1>4 DEF RecUnbroken
<1>7. RecSeen
  BY <1>4 DEF RecSeen
<1>8. QED
  BY <1>5, <1>6, <1>7

(* ... then as now.                                                        *)
LEMMA RecNothingNext == RecEmpty' => RecVideo'
BY RecNothing, PTL

(* It holds at first ...                                                   *)
LEMMA RecInitIInv == RecInit => RecIInv
<1> SUFFICES ASSUME RecInit PROVE RecIInv
  OBVIOUS
<1> USE RecordingAssumption DEF RecInit
<1>e. Inside(<<>>) = {} /\ Rising(<<>>)
  BY OfEmpty
<1>1. RecPlaces
  BY DEF RecPlaces, RecStates, RecThreads
<1>2. RecNumbers
  <2>1. recThread["capture"] = "none"
    BY DEF RecThreads
  <2>2. QED
    BY <2>1 DEF RecNumbers
<1>3. RecRuns /\ RecHolds
  BY DEF RecRuns, RecHolds, RecThreads
<1>4. RecQueues
  BY DEF RecQueues
<1>5. RecBounds /\ RecWhole
  BY <1>e DEF RecBounds, RecWhole, RecFileWhole
<1>6. RecVideo
  <2>1. /\ recFile = <<>> /\ recHeld = <<>> /\ recHand = <<>> /\ recQueue = <<>>
        /\ recLost = {} /\ recCaptured = 0
    OBVIOUS
  <2>2. QED
    BY <2>1, RecNothing DEF RecEmpty
<1>7. QED
  BY <1>1, <1>2, <1>3, <1>4, <1>5, <1>6 DEF RecIInv

(* The threads and the flags: every step keeps what is said of them, ...   *)
LEMMA RecNextRest ==
  RecIInv /\ [RecNext]_RecVars
    => RecPlaces' /\ RecNumbers' /\ RecRuns' /\ RecHolds'
<1> SUFFICES ASSUME RecIInv, [RecNext]_RecVars
             PROVE  RecPlaces' /\ RecNumbers' /\ RecRuns' /\ RecHolds'
  OBVIOUS
<1> USE RecordingAssumption
    DEF RecIInv, RecPlaces, RecNumbers, RecRuns, RecHolds, recFlags, recData,
        RecThreads, RecStates, RecGo, RecNotify
<1> RecPop => RecHolds'
  <2> SUFFICES ASSUME RecPop PROVE RecHolds'
    OBVIOUS
  <2>1. CASE recQueue = <<>>
    BY <2>1 DEF RecPop
  <2>2. CASE recQueue # <<>>
    <3>1. recHand' # <<>>
      <4>1. recHand' = <<Head(recQueue)>>
        BY <2>2 DEF RecPop
      <4>2. QED
        BY <4>1
    <3>2. /\ recThread["encode"] = "pop" /\ UNCHANGED <<recState, recHeld>>
          /\ recThread' = [recThread EXCEPT !["encode"] = "write"]
      BY <2>2 DEF RecPop
    <3>3. recState \notin {"Idle", "Error"}
      BY <3>2
    <3>4. QED
      BY <3>1, <3>2, <3>3
  <2>3. QED
    BY <2>1, <2>2
<1> RecStartFails => RecPlaces'
  <2> SUFFICES ASSUME RecStartFails PROVE RecPlaces'
    OBVIOUS
  <2>1. /\ recState' = "Error" /\ recPaused' = FALSE /\ recRunning' = FALSE
        /\ recTrailer' = TRUE /\ recShown' = FALSE
        /\ UNCHANGED <<recMode, recAborted, recDown, recThread, recUi>>
    BY DEF RecStartFails
  <2> HIDE DEF RecNumbers, RecRuns, RecHolds
  <2>2. recState' \in RecStates /\ recMode' \in {"File", "Stream", "Both"}
    BY <2>1
  <2>3. /\ recPaused' \in BOOLEAN /\ recRunning' \in BOOLEAN
             /\ recTrailer' \in BOOLEAN
        /\ recShown' \in BOOLEAN
    BY <2>1, Zenon
  <2>4. QED
    BY <2>1, <2>2, <2>3
<1>1. CASE RecStartFails
  BY <1>1 DEF RecStartFails
<1>2. CASE (\E m \in {"File", "Stream", "Both"},
             sound \in BOOLEAN : RecStart(m, sound))
  <2>1. RecPlaces'
    BY <1>2 DEF RecStart
  <2>2. RecNumbers'
    BY <1>2 DEF RecStart
  <2>3. RecRuns' /\ RecHolds'
    BY <1>2 DEF RecStart
  <2>4. QED
    BY <2>1, <2>2, <2>3
<1>3. CASE RecPause \/ RecResume
  <2>1. RecPlaces' /\ RecNumbers'
    BY <1>3 DEF RecPause, RecResume
  <2>2. RecRuns' /\ RecHolds'
    BY <1>3 DEF RecPause, RecResume
  <2>3. QED
    BY <2>1, <2>2
<1>4. CASE RecStop
  BY <1>4 DEF RecStop
<1>5. CASE RecStopFlags
  BY <1>5 DEF RecStopFlags
<1>6. CASE RecStopAborts
  BY <1>6 DEF RecStopAborts
<1>7. CASE RecStopJoins
  BY <1>7 DEF RecStopJoins
<1>8. CASE RecStopped
  BY <1>8 DEF RecStopped
<1>9. CASE (\E t \in RecThreads : RecLoops(t))
  BY <1>9 DEF RecLoops
<1>10. CASE (\E t \in {"capture", "audio"} : RecDeviceFails(t))
  BY <1>10 DEF RecDeviceFails
<1>11. CASE RecCaptures
  BY <1>11 DEF RecCaptures
<1>12. CASE RecPush
  BY <1>12 DEF RecPush
<1>13. CASE RecPop
  BY <1>13 DEF RecPop
<1>14. CASE RecEncodes
  BY <1>14 DEF RecEncodes
<1>15. CASE RecFlushes
  BY <1>15 DEF RecFlushes
<1>16. CASE RecHears \/ RecAudioFlushes
  BY <1>16 DEF RecHears, RecAudioFlushes
<1>17. CASE UNCHANGED RecVars
  BY <1>17 DEF RecVars
<1>18. QED
  BY <1>1, <1>2, <1>3, <1>4, <1>5, <1>6, <1>7, <1>8, <1>9, <1>10, <1>11,
     <1>12, <1>13, <1>14, <1>15, <1>16, <1>17 DEF RecNext, RecUiMoves,
     RecCaptureMoves, RecEncodeMoves, RecAudioMoves, RecDeviceAborted

(* What a write leaves of the file.                                        *)
LEMMA RecWrites ==
  ASSUME RecBounds, RecWhole, ~recTrailer, recState \notin {"Idle", "Error"},
         recState' \notin {"Idle", "Error"},
         NEW items \in Seq(Int), \A x \in Inside(items) : x \in 0 .. RecFrames,
         RecWrite(items)
  PROVE  /\ recFile' \in Seq(Int) /\ recFile' # <<>> /\ RecFileWhole'
         /\ \A x \in Inside(recFile') : x \in (1 .. RecFrames) \cup {Header,
              Sound, Trailer}
         /\ recMode # "Stream" =>
              /\ Inside(recFile') = Inside(recFile) \cup Inside(items)
              /\ Rising(recFile') <=> Rising(recFile) /\ Rising(items)
                                      /\ Ahead(Inside(recFile), Inside(items))
<1> USE RecordingAssumption DEF Header, Sound, Trailer
<1>1. CASE recMode = "Stream"
  <2>1. recFile' = recFile
    BY <1>1 DEF RecWrite
  <2>2. QED
    BY <1>1, <2>1 DEF RecBounds, RecWhole, RecFileWhole
<1>2. CASE recMode # "Stream"
  <2>1. recFile' = recFile \o items /\ recFile \in Seq(Int)
    BY <1>2 DEF RecWrite, RecBounds
  <2>2. /\ recFile' \in Seq(Int) /\ Len(recFile') = Len(recFile) + Len(items)
        /\ Inside(recFile') = Inside(recFile) \cup Inside(items)
        /\ Rising(recFile') <=> Rising(recFile) /\ Rising(items)
                                /\ Ahead(Inside(recFile), Inside(items))
    BY <2>1, OfConcat
  <2>3. /\ Len(recFile) \in Nat /\ Len(items) \in Nat
        /\ \A i \in 1 .. Len(recFile) : recFile'[i] = recFile[i]
        /\ \A i \in Len(recFile) + 1 .. Len(recFile) + Len(items) :
             recFile'[i] = items[i - Len(recFile)]
    BY <2>1, OfParts, Zenon
  <2>4. Len(recFile) >= 1
    BY <2>1, <2>3 DEF RecWhole
  <2>5. \A j \in 1 .. Len(items) : items[j] \in Int /\ items[j] >= 0
    BY DEF Inside
  <2>6. RecFileWhole'
    <3> SUFFICES ASSUME NEW i \in 1 .. Len(recFile')
                 PROVE  /\ recFile'[i] = Header <=> i = 1
                        /\ recFile'[i] # Trailer
      BY DEF RecFileWhole
    <3>1. CASE i <= Len(recFile)
      <4>1. i \in 1 .. Len(recFile) /\ recFile'[i] = recFile[i]
        BY <2>3, <3>1
      <4>2. QED
        BY <4>1 DEF RecWhole, RecFileWhole
    <3>2. CASE i > Len(recFile)
      <4>1. i \in Len(recFile) + 1 .. Len(recFile) + Len(items) /\ i # 1
        BY <2>2, <2>3, <2>4, <3>2
      <4>2. i - Len(recFile) \in 1 .. Len(items)
        BY <2>3, <4>1
      <4>3. recFile'[i] = items[i - Len(recFile)]
        BY <2>3, <4>1
      <4>4. QED
        BY <2>5, <4>1, <4>2, <4>3
    <3>3. QED
      BY <2>2, <2>3, <3>1, <3>2
  <2>7. recFile' # <<>>
    BY <2>2, <2>3, <2>4
  <2>8. \A x \in Inside(recFile') : x \in (1 .. RecFrames) \cup {Header,
          Sound, Trailer}
    BY <2>2 DEF RecBounds
  <2>9. QED
    BY <2>2, <2>6, <2>7, <2>8
<1>3. QED
  BY <1>1, <1>2

(* What depends on what.                                                   *)
LEMMA RecSame ==
  ASSUME RecIInv, UNCHANGED <<recMode, recQueue, recHand, recHeld, recLost,
  recFile>>
  PROVE  /\ RecQueues'
         /\ RecBounds'
         /\ (recTrailer' = recTrailer /\
             (recState' \in {"Idle", "Error"} <=> recState \in {"Idle",
               "Error"})) => RecWhole'
         /\ (RecSeen => RecSeen') => RecVideo'
<1> USE DEF RecIInv
<1>1. RecQueues' /\ RecBounds'
  BY DEF RecQueues, RecBounds
<1>2. ASSUME recTrailer' = recTrailer,
             recState' \in {"Idle", "Error"} <=> recState \in {"Idle", "Error"}
      PROVE  RecWhole'
  BY <1>2 DEF RecWhole, RecFileWhole
<1>3. ASSUME RecSeen => RecSeen'
      PROVE  RecVideo'
  <2>1. RecBefore' = RecBefore /\ RecEncoded' = RecEncoded
          /\ RecKnown' = RecKnown
    BY DEF RecBefore, RecEncoded, RecKnown
  <2>2. RecOrder' <=> RecOrder
    BY <2>1 DEF RecOrder, RecOrdered
  <2>3. RecUnbroken' <=> RecUnbroken
    BY <2>1 DEF RecUnbroken
  <2>4. QED
    BY <1>3, <2>2, <2>3 DEF RecVideo
<1>4. QED
  BY <1>1, <1>2, <1>3

(* What a step that moves frames towards the file keeps.                   *)
LEMMA RecMoved ==
  ASSUME RecIInv, UNCHANGED <<recMode, recQueue, recDown, recCaptured>>,
         recThread'["capture"] = recThread["capture"],
         recMode # "Stream" =>
           /\ RecOrdered' /\ RecEncoded' = RecEncoded
           /\ \A x \in RecBefore' : x > 0 => x \in RecBefore
  PROVE  RecVideo'
<1> SUFFICES ASSUME recMode # "Stream"
             PROVE  RecOrder' /\ RecUnbroken' /\ RecSeen'
  BY DEF RecVideo
<1>1. RecOrder /\ RecUnbroken /\ RecSeen
  BY DEF RecIInv, RecVideo
<1>2. RecKnown' = RecKnown /\ RecPushes' = RecPushes
  BY DEF RecKnown, RecPushes
<1>3. RecOrder'
  BY <1>1 DEF RecOrder, Ahead
<1>4. RecUnbroken'
  BY <1>1, <1>2 DEF RecUnbroken
<1>5. RecSeen'
  BY <1>1, <1>2 DEF RecSeen
<1>6. QED
  BY <1>3, <1>4, <1>5

(* ... and of the frames and the file.                                     *)
LEMMA RecNextFlow ==
  RecIInv /\ [RecNext]_RecVars
    => RecQueues' /\ RecBounds' /\ RecWhole' /\ RecVideo'
<1> SUFFICES ASSUME RecIInv, [RecNext]_RecVars
             PROVE  RecQueues' /\ RecBounds' /\ RecWhole' /\ RecVideo'
  OBVIOUS
<1> USE RecordingAssumption DEF RecIInv, recFlags, recData
<1>e. Inside(<<>>) = {} /\ Rising(<<>>)
  BY OfEmpty
<1>1. CASE RecStartFails
  <2>1. /\ \/ recFile' \in {<<>>, <<Header, Trailer>>} /\ recLost' = {}
           \/ recFile' = <<Header>> /\ recLost' = {Trailer}
        /\ recState' = "Error" /\ recTrailer' = TRUE /\ recCaptured' = 0
        /\ UNCHANGED <<recMode, recQueue, recHand, recHeld, recThread>>
    BY <1>1 DEF RecStartFails
  <2>2. recQueue = <<>> /\ recHand = <<>> /\ recHeld = <<>>
          /\ recThread["capture"] = "none"
    BY <1>1 DEF RecStartFails, RecRuns, RecHolds, RecThreads
  <2>3. /\ recFile' \in Seq(Int)
             /\ Inside(recFile') \subseteq {Header, Trailer}
        /\ RecFileWhole'
    <3>1. CASE recFile' = <<>>
      BY <1>e, <3>1 DEF RecFileWhole
    <3>2. CASE recFile' = <<Header, Trailer>>
      <4>1. /\ recFile' \in Seq(Int) /\ Len(recFile') = 2
            /\ recFile'[1] = Header /\ recFile'[2] = Trailer
        BY <3>2 DEF Header, Trailer
      <4>2. recLost' = {}
        BY <2>1, <3>2
      <4>3. QED
        BY <2>1, <4>1, <4>2 DEF RecFileWhole, Inside, Header, Trailer
    <3>3. CASE recFile' = <<Header>>
      <4>1. recFile' \in Seq(Int) /\ Len(recFile') = 1 /\ recFile'[1] = Header
        BY <3>3 DEF Header
      <4>2. recLost' = {Trailer}
        BY <2>1, <3>3
      <4>3. QED
        BY <4>1, <4>2 DEF RecFileWhole, Inside, Header, Trailer
    <3>4. QED
      BY <2>1, <3>1, <3>2, <3>3
  <2>4. RecQueues' /\ RecBounds' /\ RecWhole'
    BY <1>e, <2>1, <2>2, <2>3 DEF RecQueues, RecBounds, RecWhole
  <2>5. RecEmpty'
    BY <2>1, <2>2 DEF RecEmpty
  <2>6. QED
    BY <2>4, <2>5, RecNothingNext
<1>2. CASE \E m \in {"File", "Stream", "Both"},
             sound \in BOOLEAN : RecStart(m, sound)
  <2>1. /\ recFile' = <<Header>> /\ recLost' = {} /\ recQueue' = <<>>
        /\ recHand' = <<>> /\ recHeld' = <<>> /\ recCaptured' = 0
        /\ recState' = "Recording" /\ recTrailer' = FALSE
        /\ recThread'["capture"] = "loop"
    BY <1>2 DEF RecStart, RecThreads
  <2>2. /\ Inside(recFile') = {Header} /\ recFile' # <<>>
        /\ recFile' \in Seq(Int) /\ RecFileWhole'
    <3>1. recFile' \in Seq(Int) /\ Len(recFile') = 1 /\ recFile'[1] = Header
      BY <2>1 DEF Header
    <3>2. QED
      BY <2>1, <3>1 DEF RecFileWhole, Inside, Header, Trailer
  <2>3. RecQueues'
    BY <2>1 DEF RecQueues
  <2>4. RecBounds' /\ RecWhole'
    BY <1>e, <2>1, <2>2 DEF RecBounds, RecWhole
  <2>5. RecEmpty'
    BY <2>1 DEF RecEmpty
  <2>6. QED
    BY <2>3, <2>4, <2>5, RecNothingNext
<1>3. CASE RecPause \/ RecResume \/ RecStop \/ RecStopFlags
  <2>1. /\ UNCHANGED <<recMode, recQueue, recHand, recHeld, recLost, recFile>>
        /\ UNCHANGED <<recTrailer, recDown, recThread, recCaptured>>
        /\ recState' \in {"Idle", "Error"} <=> recState \in {"Idle", "Error"}
    BY <1>3 DEF RecPause, RecResume, RecStop, RecStopFlags
  <2>2. RecSeen => RecSeen'
    <3>1. RecKnown' = RecKnown /\ RecPushes' = RecPushes
      BY <2>1 DEF RecKnown, RecEncoded, RecBefore, RecPushes
    <3>2. QED
      BY <2>1, <3>1 DEF RecSeen
  <2>3. QED
    BY <2>1, <2>2, RecSame
<1>4. CASE RecStopAborts \/ RecStopJoins
  <2>1. /\ UNCHANGED <<recMode, recQueue, recHand, recHeld, recLost, recFile>>
        /\ UNCHANGED <<recTrailer, recState, recCaptured>>
        /\ recDown' /\ (RecPushes' => RecPushes)
    BY <1>4 DEF RecStopAborts, RecStopJoins, RecRuns, RecPushes, RecThreads
  <2>2. RecSeen => RecSeen'
    <3>1. RecKnown' = RecKnown
      BY <2>1 DEF RecKnown, RecEncoded, RecBefore
    <3>2. QED
      BY <2>1, <3>1 DEF RecSeen
  <2>3. QED
    BY <2>1, <2>2, RecSame
<1>5. CASE RecStopped
  <2>1. /\ recState = "Stopping" /\ recUi = "close" /\ recDown /\ ~recTrailer
        /\ recHand = <<>> /\ recHeld = <<>>
    BY <1>5 DEF RecStopped, RecRuns, RecHolds, RecThreads
  <2>2. /\ \/ recFile' = Append(recFile, Trailer) /\ recLost' = recLost
           \/ recFile' = recFile /\ recLost' = recLost \cup {Trailer}
        /\ recTrailer' = TRUE
        /\ recQueue' = <<>> /\ recHeld' = <<>> /\ recState' = "Idle"
        /\ UNCHANGED <<recMode, recHand, recDown, recCaptured, recThread>>
    BY <1>5, <2>1 DEF RecStopped, RecLoses
  <2>3. recFile \in Seq(Int) /\ Trailer \in Int
    BY DEF RecBounds, Trailer
  <2>4. /\ recFile' \in Seq(Int)
        /\ Inside(recFile') \subseteq Inside(recFile) \cup {Trailer}
        /\ Inside(recFile) \subseteq Inside(recFile')
        /\ Rising(recFile) => Rising(recFile')
    <3>1. CASE recFile' = recFile
      BY <2>3, <3>1
    <3>2. CASE recFile' = Append(recFile, Trailer)
      <4>1. /\ recFile' \in Seq(Int)
            /\ Inside(recFile') = Inside(recFile) \cup {Trailer}
            /\ Rising(recFile') <=> Rising(recFile)
                 /\ Ahead(Inside(recFile), {Trailer})
        BY <2>3, <3>2, OfAppend
      <4>2. Ahead(Inside(recFile), {Trailer})
        BY DEF Ahead, Trailer
      <4>3. QED
        BY <4>1, <4>2
    <3>3. QED
      BY <2>2, <3>1, <3>2
  <2>5. RecQueues'
    BY <2>2 DEF RecQueues
  <2>6. RecBounds'
    BY <1>e, <2>1, <2>2, <2>4 DEF RecBounds
  <2>7. RecWhole'
    <3>1. CASE recFile' = Append(recFile, Trailer) /\ recLost' = recLost
      <4>1. /\ Len(recFile) \in Nat /\ recFile'[Len(recFile) + 1] = Trailer
            /\ Len(recFile') = Len(recFile) + 1
            /\ \A i \in 1 .. Len(recFile) : recFile'[i] = recFile[i]
        BY <2>3, <3>1
      <4>2. Len(recFile) >= 1
        BY <2>1, <2>3, <4>1 DEF RecWhole
      <4>3. Trailer \notin recLost
        BY <2>1 DEF RecWhole
      <4>4. QED
        BY <2>1, <2>2, <3>1, <4>1, <4>2, <4>3 DEF RecWhole, RecFileWhole,
           Header, Trailer
    <3>2. CASE recFile' = recFile /\ recLost' = recLost \cup {Trailer}
      BY <2>1, <2>2, <3>2 DEF RecWhole, RecFileWhole
    <3>3. QED
      BY <2>2, <3>1, <3>2
  <2>8. ASSUME recMode # "Stream"
        PROVE  RecOrder' /\ RecUnbroken' /\ RecSeen'
    <3>1. RecOrder /\ RecUnbroken /\ RecSeen
      BY <2>8 DEF RecVideo
    <3>2. /\ RecBefore' \subseteq RecBefore \cup {Trailer}
          /\ RecBefore \subseteq RecBefore' /\ Inside(recQueue') = {}
      BY <1>e, <2>1, <2>2, <2>4 DEF RecBefore
    <3>3. RecEncoded' = RecEncoded /\ RecKnown' = RecEncoded
      BY <2>2, <3>2 DEF RecEncoded, RecKnown, Trailer
    <3>4. RecOrder'
      <4>1. RecOrdered'
        BY <1>e, <2>1, <2>2, <2>4, <3>1 DEF RecOrder, RecOrdered, Ahead
      <4>2. QED
        BY <1>e, <2>2, <3>2, <4>1 DEF RecOrder, Ahead
    <3>5. RecUnbroken'
      BY <3>1, <3>2, <3>3 DEF RecUnbroken, Trailer
    <3>6. RecSeen'
      BY <2>1, <2>2, <3>1, <3>3 DEF RecSeen, RecKnown, RecPushes
    <3>7. QED
      BY <3>4, <3>5, <3>6
  <2>9. QED
    BY <2>2, <2>5, <2>6, <2>7, <2>8 DEF RecVideo
<1>6. CASE \E t \in RecThreads : RecLoops(t)
  <2> PICK t \in RecThreads : RecLoops(t)
    BY <1>6
  <2>1. /\ UNCHANGED <<recMode, recQueue, recHand, recHeld, recLost, recFile>>
        /\ UNCHANGED <<recTrailer, recState, recCaptured, recDown>>
        /\ recThread[t] = "loop"
    BY DEF RecLoops
  <2>2. recThread'["capture"] = "push" <=> recThread["capture"] = "push"
    <3>1. CASE t = "capture"
      BY <3>1 DEF RecLoops, RecGo, RecPlaces, RecThreads
    <3>2. CASE t # "capture"
      BY <3>2 DEF RecLoops, RecGo, RecPlaces, RecThreads
    <3>3. QED
      BY <3>1, <3>2
  <2>3. RecSeen => RecSeen'
    BY <2>1, <2>2 DEF RecSeen, RecKnown, RecEncoded, RecBefore, RecPushes
  <2>4. QED
    BY <2>1, <2>3, RecSame
<1>7. CASE \E t \in {"capture", "audio"} : RecDeviceFails(t)
  <2>1. /\ UNCHANGED <<recMode, recQueue, recHand, recHeld, recLost, recFile>>
        /\ UNCHANGED <<recTrailer, recState, recCaptured, recDown>>
    BY <1>7 DEF RecDeviceFails
  <2>2. recThread'["capture"] = "push" <=> recThread["capture"] = "push"
    BY <1>7 DEF RecDeviceFails, RecGo, RecPlaces, RecThreads
  <2>3. RecSeen => RecSeen'
    BY <2>1, <2>2 DEF RecSeen, RecKnown, RecEncoded, RecBefore, RecPushes
  <2>4. QED
    BY <2>1, <2>3, RecSame
<1>8. CASE RecCaptures
  <2>1. /\ UNCHANGED <<recMode, recQueue, recHand, recHeld, recLost, recFile>>
        /\ UNCHANGED <<recTrailer, recState, recDown>>
        /\ recThread["capture"] = "read"
        /\ \/ recThread'["capture"] = "loop" /\ recCaptured' = recCaptured
           \/ recThread'["capture"] = "push" /\ recCaptured' = recCaptured + 1
    BY <1>8 DEF RecCaptures, RecGo, RecPlaces, RecThreads
  <2>2. RecSeen => RecSeen'
    <3>1. recCaptured \in Nat /\ ~RecPushes
      BY <2>1 DEF RecNumbers, RecPushes
    <3>2. RecKnown' = RecKnown /\ \A x \in RecKnown : x \in Int
      BY <2>1 DEF RecKnown, RecEncoded, RecBefore, RecBounds
    <3>3. QED
      BY <2>1, <3>1, <3>2 DEF RecSeen, RecPushes
  <2>3. QED
    BY <2>1, <2>2, RecSame
<1>9. CASE RecPush
  <2>1. /\ UNCHANGED <<recMode, recHand, recHeld, recFile>>
        /\ UNCHANGED <<recTrailer, recState, recDown, recCaptured>>
        /\ RecPushes /\ ~RecPushes'
        /\ \/ recDown /\ UNCHANGED <<recQueue, recLost>>
           \/ /\ ~recDown /\ Len(recQueue) < RecCapacity /\ recLost' = recLost
              /\ recQueue' = Append(recQueue, recCaptured)
           \/ /\ ~recDown /\ recQueue' = recQueue
              /\ recLost' = recLost \cup {recCaptured}
    BY <1>9 DEF RecPush, RecGo, RecPlaces, RecThreads, RecPushes, RecLoses
  <2>2. CASE recDown
    <3>1. UNCHANGED <<recQueue, recLost>>
      BY <2>1, <2>2
    <3>2. RecSeen => RecSeen'
      BY <2>1, <2>2, <3>1 DEF RecSeen, RecKnown, RecEncoded, RecBefore
    <3>3. QED
      BY <2>1, <3>1, <3>2, RecSame
  <2>3. recCaptured \in 1 .. RecFrames /\ recCaptured \in Int
          /\ recQueue \in Seq(Int)
    BY <2>1 DEF RecNumbers, RecQueues, RecPushes
  <2>4. ASSUME recMode # "Stream", ~recDown
        PROVE  /\ RecOrder /\ RecUnbroken
               /\ \A x \in RecKnown : x < recCaptured /\ x \in Int
               /\ \A x \in 1 .. recCaptured : x \in RecKnown \/ x = recCaptured
               /\ \A x \in RecBefore : x > 0 => x \in RecEncoded
    <3>1. \A x \in RecKnown : x \in Int
      BY DEF RecKnown, RecEncoded, RecBounds
    <3>2. \A x \in RecBefore : x > 0 => x \in RecEncoded
      BY DEF RecBounds, RecEncoded, RecBefore, Header, Sound, Trailer
    <3>3. QED
      BY <2>1, <2>3, <2>4, <3>1, <3>2 DEF RecVideo, RecSeen
  <2>5. CASE ~recDown /\ recQueue' = Append(recQueue, recCaptured)
               /\ Len(recQueue) < RecCapacity /\ recLost' = recLost
    <3>1. /\ recQueue' \in Seq(Int) /\ Len(recQueue') = Len(recQueue) + 1
          /\ Inside(recQueue') = Inside(recQueue) \cup {recCaptured}
          /\ Rising(recQueue') <=> Rising(recQueue)
               /\ Ahead(Inside(recQueue), {recCaptured})
      BY <2>3, <2>5, OfAppend
    <3>2. Len(recQueue) \in Nat
      BY <2>3
    <3>3. RecQueues'
      BY <2>1, <2>5, <3>1, <3>2 DEF RecQueues
    <3>4. RecBounds'
      BY <2>1, <2>3, <2>5, <3>1 DEF RecBounds
    <3>5. RecWhole'
      BY <2>1, <2>5 DEF RecWhole, RecFileWhole
    <3>6. ASSUME recMode # "Stream"
          PROVE  RecOrder' /\ RecUnbroken' /\ RecSeen'
      <4>1. RecBefore' = RecBefore /\ RecEncoded' = RecEncoded
              /\ RecKnown' = RecKnown \cup {recCaptured}
        BY <2>1, <2>5, <3>1 DEF RecBefore, RecEncoded, RecKnown
      <4>2. Inside(recQueue) \subseteq RecKnown /\ RecEncoded \subseteq RecKnown
        BY DEF RecKnown
      <4>3. RecOrder'
        BY <2>1, <2>4, <2>5, <3>1, <3>6, <4>1, <4>2 DEF RecOrder, RecOrdered,
           Ahead
      <4>4. RecUnbroken'
        BY <2>3, <2>4, <2>5, <3>1, <3>6, <4>1 DEF RecUnbroken
      <4>5. RecSeen'
        <5>1. \A x \in RecKnown' : x <= recCaptured
          BY <2>3, <2>4, <2>5, <3>6, <4>1
        <5>2. \A x \in 1 .. recCaptured : x \in RecKnown'
          BY <2>4, <2>5, <3>6, <4>1
        <5>3. QED
          BY <2>1, <5>1, <5>2 DEF RecSeen
      <4>6. QED
        BY <4>3, <4>4, <4>5
    <3>7. QED
      BY <2>1, <3>3, <3>4, <3>5, <3>6 DEF RecVideo
  <2>6. CASE ~recDown /\ recQueue' = recQueue
               /\ recLost' = recLost \cup {recCaptured}
    <3>1. RecQueues'
      BY <2>1, <2>6 DEF RecQueues
    <3>2. RecBounds'
      BY <2>1, <2>3, <2>6 DEF RecBounds
    <3>3. RecWhole'
      <4>1. Trailer \notin {recCaptured}
        BY <2>3 DEF Trailer
      <4>2. QED
        BY <2>1, <2>6, <4>1 DEF RecWhole, RecFileWhole
    <3>4. ASSUME recMode # "Stream"
          PROVE  RecOrder' /\ RecUnbroken' /\ RecSeen'
      <4>1. RecBefore' = RecBefore
              /\ RecEncoded' = RecEncoded \cup {recCaptured}
              /\ RecKnown' = RecKnown \cup {recCaptured}
        BY <2>1, <2>3, <2>6 DEF RecBefore, RecEncoded, RecKnown
      <4>2. RecOrder'
        BY <2>1, <2>4, <2>6, <3>4, <4>1 DEF RecOrder, RecOrdered
      <4>3. RecUnbroken'
        BY <2>4, <2>6, <3>4, <4>1 DEF RecUnbroken
      <4>4. RecSeen'
        <5>1. \A x \in RecKnown' : x <= recCaptured
          BY <2>3, <2>4, <2>6, <3>4, <4>1
        <5>2. \A x \in 1 .. recCaptured : x \in RecKnown'
          BY <2>4, <2>6, <3>4, <4>1
        <5>3. QED
          BY <2>1, <5>1, <5>2 DEF RecSeen
      <4>5. QED
        BY <4>2, <4>3, <4>4
    <3>5. QED
      BY <2>1, <3>1, <3>2, <3>3, <3>4 DEF RecVideo
  <2>7. QED
    BY <2>1, <2>2, <2>5, <2>6
<1>10. CASE RecPop
  <2>1. /\ UNCHANGED <<recMode, recHeld, recLost, recFile>>
        /\ UNCHANGED <<recTrailer, recState, recDown, recCaptured>>
        /\ RecPushes' = RecPushes
        /\ IF recQueue = <<>> THEN UNCHANGED <<recQueue, recHand>>
           ELSE recHand' = <<Head(recQueue)>> /\ recQueue' = Tail(recQueue)
        /\ recHand = <<>>
    BY <1>10 DEF RecPop, RecGo, RecPlaces, RecThreads, RecHolds, RecPushes
  <2>2. CASE recQueue = <<>>
    <3>1. UNCHANGED <<recQueue, recHand>>
      BY <2>1, <2>2
    <3>2. RecSeen => RecSeen'
      BY <2>1, <3>1 DEF RecSeen, RecKnown, RecEncoded, RecBefore
    <3>3. QED
      BY <2>1, <3>1, <3>2, RecSame
  <2>3. CASE recQueue # <<>>
    <3> DEFINE h == Head(recQueue)
    <3>1. recHand' = <<h>> /\ recQueue' = Tail(recQueue)
            /\ recQueue \in Seq(Int)
      BY <2>1, <2>3 DEF RecQueues
    <3>2. /\ h \in Int /\ recQueue' \in Seq(Int)
               /\ Len(recQueue') = Len(recQueue) - 1
          /\ Inside(recQueue) = {h} \cup Inside(recQueue')
          /\ Rising(recQueue)
               => Rising(recQueue') /\ Ahead({h}, Inside(recQueue'))
      BY <2>3, <3>1, OfTail
    <3>3. Len(recQueue) \in Nat
      BY <3>1
    <3> HIDE DEF h
    <3>4. recHand' \in Seq(Int) /\ Len(recHand') = 1 /\ Inside(recHand') = {h}
      BY <3>1, <3>2, OfOne
    <3>5. RecQueues'
      BY <2>1, <3>2, <3>3, <3>4 DEF RecQueues
    <3>6. RecBounds'
      BY <2>1, <3>2, <3>4 DEF RecBounds
    <3>7. RecWhole'
      BY <2>1 DEF RecWhole, RecFileWhole
    <3>8. ASSUME recMode # "Stream"
          PROVE  RecOrder' /\ RecUnbroken' /\ RecSeen'
      <4>1. RecOrder /\ RecUnbroken /\ RecSeen /\ h \in 1 .. RecFrames
        BY <3>2, <3>8 DEF RecVideo, RecBounds
      <4>2. RecBefore' = RecBefore \cup {h}
              /\ RecEncoded' = RecEncoded \cup {h} /\ RecKnown' = RecKnown
        BY <1>e, <2>1, <3>2, <3>4, <4>1 DEF RecBefore, RecEncoded, RecKnown
      <4>3. /\ Ahead(Inside(recFile), {h}) /\ Ahead(Inside(recHeld), {h})
            /\ Ahead(RecBefore, Inside(recQueue'))
        BY <3>2, <4>1 DEF RecOrder, RecBefore, Ahead
      <4>4. RecOrder'
        <5>1. RecOrdered'
          BY <2>1, <3>4, <4>1, <4>3 DEF RecOrder, RecOrdered
        <5>2. Ahead(RecBefore', Inside(recQueue'))
          BY <3>2, <4>1, <4>2, <4>3 DEF RecOrder, Ahead
        <5>3. QED
          BY <3>2, <4>1, <5>1, <5>2 DEF RecOrder
      <4>5. 1 .. h \subseteq RecEncoded'
        <5> SUFFICES ASSUME NEW y \in 1 .. h, y # h PROVE y \in RecEncoded
          BY <4>2
        <5>1. y \in RecEncoded \/ y \in Inside(recQueue')
          BY <3>2, <4>1 DEF RecUnbroken, RecKnown
        <5>2. ASSUME y \in Inside(recQueue') PROVE FALSE
          <6>1. h < y
            BY <3>2, <4>1, <5>2 DEF RecOrder, Ahead
          <6>2. QED
            BY <4>1, <6>1
        <5>3. QED
          BY <5>1, <5>2
      <4>6. RecUnbroken'
        <5>1. \A x \in RecBefore' : x > 0 => 1 .. x \subseteq RecEncoded'
          BY <4>1, <4>2, <4>5 DEF RecUnbroken
        <5>2. \A x \in Inside(recQueue') : 1 .. x \subseteq RecKnown'
          BY <3>2, <4>1, <4>2 DEF RecUnbroken
        <5>3. QED
          BY <5>1, <5>2 DEF RecUnbroken
      <4>7. RecSeen'
        BY <2>1, <4>1, <4>2 DEF RecSeen
      <4>8. QED
        BY <4>4, <4>6, <4>7
    <3>9. QED
      BY <2>1, <3>5, <3>6, <3>7, <3>8 DEF RecVideo
  <2>4. QED
    BY <2>2, <2>3
<1>11. CASE RecEncodes
  <2> DEFINE h == recHand[1]
             all == recHeld \o recHand
  <2>1. /\ recThread["encode"] = "write" /\ recHand' = <<>>
        /\ recThread'["capture"] = recThread["capture"]
        /\ UNCHANGED <<recMode, recQueue, recTrailer, recState, recDown,
             recCaptured>>
    BY <1>11 DEF RecEncodes, RecGo, RecPlaces, RecThreads
  <2>2. /\ recHand \in Seq(Int) /\ Len(recHand) = 1 /\ h \in Int
             /\ recHand = <<h>>
        /\ h \in 1 .. RecFrames
    <3>0. recHand \in Seq(Int) /\ Len(recHand) <= 1 /\ recHand # <<>>
      BY <2>1 DEF RecHolds, RecQueues
    <3>1. recHand \in Seq(Int) /\ Len(recHand) = 1
      BY <3>0, OfSingle
    <3>2. h \in Int /\ recHand = <<h>>
      BY <3>0, OfSingle
    <3>3. h \in Inside(recHand)
      BY <3>1 DEF Inside
    <3>4. QED
      BY <3>1, <3>2, <3>3 DEF RecBounds
  <2>3. Inside(recHand) = {h}
    BY <2>2, OfOne
  <2>4. recState \notin {"Idle", "Error"} /\ ~recTrailer
    BY <2>1 DEF RecRuns, RecThreads
  <2>5. /\ all \in Seq(Int) /\ Len(all) = Len(recHeld) + 1
        /\ Inside(all) = Inside(recHeld) \cup {h}
        /\ Rising(all) <=> Rising(recHeld) /\ Rising(recHand)
             /\ Ahead(Inside(recHeld), Inside(recHand))
    BY <2>2, <2>3, OfConcat DEF RecQueues
  <2>6. Rising(recHand)
    BY <2>2, OfOne
  <2>7. Len(recHeld) \in Nat /\ Len(recHeld) <= RecBFrames
    BY DEF RecQueues
  <2>8. CASE recLost' = recLost \cup {h} /\ UNCHANGED <<recHeld, recFile>>
    <3>1. RecQueues' /\ RecWhole'
      <4>1. Trailer # h
        BY <2>2 DEF Trailer
      <4>2. QED
        BY <2>1, <2>4, <2>8, <4>1 DEF RecQueues, RecWhole, RecFileWhole
    <3>2. RecBounds'
      BY <1>e, <2>1, <2>2, <2>8 DEF RecBounds
    <3>3. ASSUME recMode # "Stream"
          PROVE  /\ RecOrdered' /\ RecEncoded' = RecEncoded
                 /\ \A x \in RecBefore' : x > 0 => x \in RecBefore
      <4>1. RecOrdered'
        BY <1>e, <2>1, <2>8, <3>3 DEF RecVideo, RecOrder, RecOrdered, Ahead
      <4>2. RecEncoded' = RecEncoded
        BY <1>e, <2>1, <2>2, <2>3, <2>8 DEF RecEncoded, RecBefore
      <4>3. \A x \in RecBefore' : x > 0 => x \in RecBefore
        BY <1>e, <2>1, <2>8 DEF RecBefore
      <4>4. QED
        BY <4>1, <4>2, <4>3
    <3>4. RecVideo'
      BY <2>1, <3>3, RecMoved
    <3>5. QED
      BY <3>1, <3>2, <3>4
  <2>9. ASSUME NEW items \in Seq(Int), recHeld' \in Seq(Int), RecWrite(items),
               Len(recHeld') <= RecBFrames, recLost' = recLost,
               Inside(items) \cup Inside(recHeld') = Inside(all),
               Rising(all) => /\ Rising(items) /\ Rising(recHeld')
                              /\ Ahead(Inside(items), Inside(recHeld'))
        PROVE  RecQueues' /\ RecBounds' /\ RecWhole' /\ RecVideo'
    <3>1. \A x \in Inside(all) : x \in 1 .. RecFrames
      BY <2>2, <2>5 DEF RecBounds
    <3>2. \A x \in Inside(items) : x \in 0 .. RecFrames
      BY <2>9, <3>1
    <3>3. /\ recFile' \in Seq(Int) /\ recFile' # <<>> /\ RecFileWhole'
          /\ \A x \in Inside(recFile') : x \in (1 .. RecFrames) \cup {Header,
               Sound, Trailer}
          /\ recMode # "Stream" =>
               /\ Inside(recFile') = Inside(recFile) \cup Inside(items)
               /\ Rising(recFile') <=> Rising(recFile) /\ Rising(items)
                                       /\ Ahead(Inside(recFile), Inside(items))
      BY <2>1, <2>4, <2>9, <3>2, RecWrites
    <3> HIDE DEF all
    <3>4. RecQueues'
      BY <2>1, <2>9 DEF RecQueues
    <3>5. RecBounds'
      BY <1>e, <2>1, <2>9, <3>1, <3>3 DEF RecBounds
    <3>6. RecWhole'
      BY <2>4, <2>9, <3>3 DEF RecWhole
    <3>7. ASSUME recMode # "Stream"
          PROVE  /\ RecOrdered' /\ RecEncoded' = RecEncoded
                 /\ \A x \in RecBefore' : x > 0 => x \in RecBefore
      <4>1. /\ Rising(all) /\ Rising(recFile)
                 /\ Ahead(Inside(recFile), Inside(all))
        BY <2>3, <2>5, <2>6, <3>7 DEF RecVideo, RecOrder, RecOrdered, Ahead
      <4>2. Rising(recFile')
              /\ Inside(recFile') = Inside(recFile) \cup Inside(items)
        BY <2>9, <3>3, <3>7, <4>1 DEF Ahead
      <4>3. RecOrdered'
        BY <1>e, <2>1, <2>9, <4>1, <4>2 DEF RecOrdered, Ahead
      <4>4. RecBefore' = RecBefore
        BY <1>e, <2>1, <2>3, <2>5, <2>9, <4>2 DEF RecBefore
      <4>5. RecEncoded' = RecEncoded
        BY <2>9, <4>4 DEF RecEncoded
      <4>6. QED
        BY <4>3, <4>4, <4>5
    <3>8. RecVideo'
      BY <2>1, <3>7, RecMoved
    <3>9. QED
      BY <3>4, <3>5, <3>6, <3>8
  <2>10. CASE /\ recLost' = recLost
              /\ \/ recHeld' = Tail(all) /\ RecWrite(<<Head(all)>>)
                 \/ recHeld' = all /\ RecWrite(<<>>) /\ Len(all) <= RecBFrames
    <3>1. CASE recHeld' = Tail(all) /\ RecWrite(<<Head(all)>>)
      <4>1. all # <<>>
        BY <2>5, <2>7
      <4> HIDE DEF all
      <4>2. /\ Head(all) \in Int /\ Tail(all) \in Seq(Int)
                 /\ Len(Tail(all)) = Len(all) - 1
            /\ Inside(all) = {Head(all)} \cup Inside(Tail(all))
            /\ Rising(all)
                 => Rising(Tail(all)) /\ Ahead({Head(all)}, Inside(Tail(all)))
        BY <2>5, <4>1, OfTail
      <4>3. <<Head(all)>> \in Seq(Int)
              /\ Inside(<<Head(all)>>) = {Head(all)} /\ Rising(<<Head(all)>>)
        BY <4>2, OfOne
      <4>4. Len(Tail(all)) <= RecBFrames
        BY <2>5, <2>7, <4>2
      <4> DEFINE t == Tail(all)
                 items == <<Head(all)>>
      <4>5. /\ items \in Seq(Int) /\ recHeld' \in Seq(Int) /\ RecWrite(items)
            /\ Len(recHeld') <= RecBFrames
            /\ Inside(items) \cup Inside(recHeld') = Inside(all)
            /\ Rising(all) => /\ Rising(items) /\ Rising(recHeld')
                              /\ Ahead(Inside(items), Inside(recHeld'))
        BY <3>1, <4>2, <4>3, <4>4, Zenon
      <4> HIDE DEF items
      <4>6. QED
        BY <2>9, <2>10, <4>5
    <3>2. CASE recHeld' = all /\ RecWrite(<<>>) /\ Len(all) <= RecBFrames
      <4> HIDE DEF all
      <4>1. /\ <<>> \in Seq(Int)
                 /\ Inside(<<>>) \cup Inside(recHeld') = Inside(all)
            /\ Ahead(Inside(<<>>), Inside(recHeld'))
        BY <1>e, <3>2 DEF Ahead
      <4>2. QED
        BY <1>e, <2>5, <2>9, <2>10, <3>2, <4>1
    <3>3. QED
      BY <2>10, <3>1, <3>2
  <2>11. CASE all # <<>> /\ recHeld' = Tail(all) /\ recFile' = recFile
                /\ recLost' = recLost \cup {Head(all)}
    <3> DEFINE x == Head(all)
               t == Tail(all)
    <3> HIDE DEF all
    <3>1. /\ x \in Int /\ t \in Seq(Int) /\ Len(t) = Len(all) - 1
          /\ Inside(all) = {x} \cup Inside(t)
          /\ Rising(all) => Rising(t) /\ Ahead({x}, Inside(t))
      BY <2>5, <2>11, OfTail
    <3>2. recHeld' = t /\ recLost' = recLost \cup {x} /\ recFile' = recFile
      BY <2>11
    <3> HIDE DEF x, t
    <3>3. \A y \in Inside(all) : y \in 1 .. RecFrames
      BY <2>2, <2>5 DEF RecBounds
    <3>4. RecQueues'
      BY <2>1, <2>5, <2>7, <3>1, <3>2 DEF RecQueues
    <3>5. RecBounds'
      BY <1>e, <2>1, <3>1, <3>2, <3>3 DEF RecBounds
    <3>6. RecWhole'
      <4>1. Trailer # x
        BY <3>1, <3>3 DEF Trailer
      <4>2. QED
        BY <2>1, <2>4, <3>2, <4>1 DEF RecWhole, RecFileWhole
    <3>7. ASSUME recMode # "Stream"
          PROVE  /\ RecOrdered' /\ RecEncoded' = RecEncoded
                 /\ \A y \in RecBefore' : y > 0 => y \in RecBefore
      <4>1. /\ Rising(all) /\ Rising(recFile)
                 /\ Ahead(Inside(recFile), Inside(all))
        BY <2>3, <2>5, <2>6, <3>7 DEF RecVideo, RecOrder, RecOrdered, Ahead
      <4>2. RecOrdered'
        BY <1>e, <2>1, <3>1, <3>2, <4>1 DEF RecOrdered, Ahead
      <4>3. RecBefore = Inside(recFile) \cup {x} \cup Inside(t)
              /\ RecBefore' = Inside(recFile) \cup Inside(t)
        BY <1>e, <2>1, <2>3, <2>5, <3>1, <3>2 DEF RecBefore
      <4>4. RecEncoded' = RecEncoded
        BY <3>1, <3>2, <3>3, <4>3 DEF RecEncoded
      <4>5. QED
        BY <4>2, <4>3, <4>4
    <3>8. RecVideo'
      BY <2>1, <3>7, RecMoved
    <3>9. QED
      BY <3>4, <3>5, <3>6, <3>8
  <2>12. \/ recLost' = recLost \cup {h} /\ UNCHANGED <<recHeld, recFile>>
         \/ /\ recLost' = recLost
            /\ \/ recHeld' = Tail(all) /\ RecWrite(<<Head(all)>>)
               \/ recHeld' = all /\ RecWrite(<<>>) /\ Len(all) <= RecBFrames
         \/ /\ all # <<>> /\ recHeld' = Tail(all) /\ recFile' = recFile
            /\ recLost' = recLost \cup {Head(all)}
    <3> DEFINE full == Len(all) > IF recMode = "File" THEN RecBFrames ELSE 0
    <3>1. \/ recLost' = recLost \cup {h} /\ UNCHANGED <<recHeld, recFile>>
          \/ /\ recHeld' = IF full THEN Tail(all) ELSE all
             /\ \/ /\ RecWrite(IF full THEN <<Head(all)>> ELSE <<>>)
                   /\ recLost' = recLost
                \/ /\ full /\ recFile' = recFile
                   /\ recLost' = recLost \cup {Head(all)}
      BY <1>11, Zenon DEF RecEncodes, RecLoses
    <3>2. ~full => Len(all) <= RecBFrames
      BY <2>5, <2>7
    <3>e. all # <<>>
      BY <2>5, <2>7
    <3> HIDE DEF all
    <3>3. CASE full
      BY <3>1, <3>3, <3>e
    <3>4. CASE ~full
      BY <3>1, <3>2, <3>4
    <3>5. QED
      BY <3>3, <3>4
  <2>13. QED
    BY <2>8, <2>10, <2>11, <2>12
<1>12. CASE RecFlushes
  <2>1. /\ recThread["encode"] = "flush"
        /\ recThread'["capture"] = recThread["capture"]
        /\ UNCHANGED <<recMode, recQueue, recHand, recTrailer, recState,
             recDown, recCaptured>>
    BY <1>12 DEF RecFlushes, RecGo, RecPlaces, RecThreads
  <2>2. recHand = <<>> /\ recState \notin {"Idle", "Error"} /\ ~recTrailer
    BY <2>1 DEF RecHolds, RecRuns, RecThreads
  <2>3. CASE UNCHANGED <<recHeld, recLost, recFile>>
    <3>1. RecSeen => RecSeen'
      BY <2>1, <2>3 DEF RecSeen, RecKnown, RecEncoded, RecBefore, RecPushes
    <3>2. QED
      BY <2>1, <2>3, <3>1, RecSame
  <2>4. CASE recHeld # <<>> /\ RecWrite(<<Head(recHeld)>>)
               /\ recHeld' = Tail(recHeld) /\ recLost' = recLost
    <3> DEFINE x == Head(recHeld)
               items == <<x>>
    <3>1. recHeld \in Seq(Int) /\ Len(recHeld) \in Nat
            /\ Len(recHeld) <= RecBFrames
      BY DEF RecQueues
    <3>2. /\ x \in Int /\ recHeld' \in Seq(Int)
               /\ Len(recHeld') = Len(recHeld) - 1
          /\ Inside(recHeld) = {x} \cup Inside(recHeld')
          /\ Rising(recHeld)
               => Rising(recHeld') /\ Ahead({x}, Inside(recHeld'))
      BY <2>4, <3>1, OfTail
    <3> HIDE DEF x
    <3>3. items \in Seq(Int) /\ Inside(items) = {x} /\ Rising(items)
      BY <3>2, OfOne
    <3>4. RecWrite(items)
      BY <2>4 DEF x
    <3>5. x \in 1 .. RecFrames
      BY <3>2 DEF RecBounds
    <3> HIDE DEF items
    <3>6. /\ recFile' \in Seq(Int) /\ recFile' # <<>> /\ RecFileWhole'
          /\ \A y \in Inside(recFile') : y \in (1 .. RecFrames) \cup {Header,
               Sound, Trailer}
          /\ recMode # "Stream" =>
               /\ Inside(recFile') = Inside(recFile) \cup Inside(items)
               /\ Rising(recFile') <=> Rising(recFile) /\ Rising(items)
                                       /\ Ahead(Inside(recFile), Inside(items))
      <4>1. \A y \in Inside(items) : y \in 0 .. RecFrames
        BY <3>3, <3>5
      <4>2. QED
        BY <2>1, <2>2, <3>3, <3>4, <4>1, RecWrites
    <3>7. RecQueues'
      BY <2>1, <3>1, <3>2 DEF RecQueues
    <3>8. RecBounds'
      BY <2>1, <2>4, <3>2, <3>6 DEF RecBounds
    <3>9. RecWhole'
      BY <2>2, <2>4, <3>6 DEF RecWhole
    <3>10. ASSUME recMode # "Stream"
           PROVE  /\ RecOrdered' /\ RecEncoded' = RecEncoded
                  /\ \A y \in RecBefore' : y > 0 => y \in RecBefore
      <4>1. Rising(recFile') /\ Inside(recFile') = Inside(recFile) \cup {x}
        BY <3>2, <3>3, <3>6, <3>10 DEF RecVideo, RecOrder, RecOrdered, Ahead
      <4>2. RecOrdered'
        BY <1>e, <2>1, <2>2, <3>2, <3>10, <4>1 DEF RecVideo, RecOrder,
           RecOrdered, Ahead
      <4>3. RecBefore' = RecBefore
        BY <2>1, <2>4, <3>2, <4>1 DEF RecBefore
      <4>4. RecEncoded' = RecEncoded
        BY <2>4, <4>3 DEF RecEncoded
      <4>5. QED
        BY <4>2, <4>3, <4>4
    <3>11. RecVideo'
      BY <2>1, <3>10, RecMoved
    <3>12. QED
      BY <3>7, <3>8, <3>9, <3>11
  <2>5. CASE recHeld # <<>> /\ recFile' = recFile
               /\ recHeld' \in {Tail(recHeld), <<>>}
               /\ \E lost \in SUBSET Inside(recHeld) :
                    /\ recLost' = recLost \cup lost
                    /\ Inside(recHeld) \subseteq lost \cup Inside(recHeld')
    <3> PICK lost \in SUBSET Inside(recHeld) :
               /\ recLost' = recLost \cup lost
               /\ Inside(recHeld) \subseteq lost \cup Inside(recHeld')
      BY <2>5
    <3>1. recHeld \in Seq(Int) /\ Len(recHeld) \in Nat
            /\ Len(recHeld) <= RecBFrames
      BY DEF RecQueues
    <3>2. /\ recHeld' \in Seq(Int) /\ Len(recHeld') <= RecBFrames
          /\ Inside(recHeld') \subseteq Inside(recHeld)
          /\ Rising(recHeld) => Rising(recHeld')
      <4>1. CASE recHeld' = <<>>
        BY <1>e, <4>1
      <4>2. CASE recHeld' = Tail(recHeld)
        <5>1. /\ recHeld' \in Seq(Int) /\ Len(recHeld') = Len(recHeld) - 1
              /\ Inside(recHeld) = {Head(recHeld)} \cup Inside(recHeld')
              /\ Rising(recHeld) => Rising(recHeld')
          BY <2>5, <3>1, <4>2, OfTail
        <5>2. QED
          BY <3>1, <5>1
      <4>3. QED
        BY <2>5, <4>1, <4>2
    <3>3. \A x \in Inside(recHeld) : x \in 1 .. RecFrames
      BY DEF RecBounds
    <3>4. RecQueues'
      BY <2>1, <3>2 DEF RecQueues
    <3>5. RecBounds'
      BY <2>1, <2>5, <3>2, <3>3 DEF RecBounds
    <3>6. RecWhole'
      <4>1. Trailer \notin lost
        BY <3>3 DEF Trailer
      <4>2. QED
        BY <2>1, <2>2, <2>5, <4>1 DEF RecWhole, RecFileWhole
    <3>7. ASSUME recMode # "Stream"
          PROVE  /\ RecOrdered' /\ RecEncoded' = RecEncoded
                 /\ \A x \in RecBefore' : x > 0 => x \in RecBefore
      <4>1. RecOrdered'
        BY <2>1, <2>2, <2>5, <3>2, <3>7 DEF RecVideo, RecOrder, RecOrdered,
           Ahead
      <4>2. RecEncoded' = RecEncoded
        BY <2>1, <2>5, <3>2, <3>3 DEF RecEncoded, RecBefore
      <4>3. \A x \in RecBefore' : x > 0 => x \in RecBefore
        BY <2>1, <2>5, <3>2 DEF RecBefore
      <4>4. QED
        BY <4>1, <4>2, <4>3
    <3>8. RecVideo'
      BY <2>1, <3>7, RecMoved
    <3>9. QED
      BY <3>4, <3>5, <3>6, <3>8
  <2>6. CASE recHeld # <<>> /\ recHeld' = Tail(recHeld) /\ recFile' = recFile
               /\ recLost' = recLost \cup {Head(recHeld)}
    <3>1. recHeld \in Seq(Int)
      BY DEF RecQueues
    <3>2. Inside(recHeld) = {Head(recHeld)} \cup Inside(Tail(recHeld))
      BY <2>6, <3>1, OfTail
    <3>3. QED
      BY <2>5, <2>6, <3>2
  <2>7. CASE recHeld # <<>> /\ recHeld' = <<>> /\ recFile' = recFile
               /\ recLost' = recLost \cup Inside(recHeld)
    BY <2>5, <2>7
  <2>8. QED
    BY <1>12, <2>3, <2>4, <2>6, <2>7 DEF RecFlushes, RecLoses, Inside
<1>13. CASE RecHears \/ RecAudioFlushes
  <2>1. /\ recThread["audio"] \in {"read", "flush"}
        /\ recThread'["capture"] = recThread["capture"]
        /\ UNCHANGED <<recMode, recQueue, recHand, recHeld, recLost,
             recTrailer, recState,
                       recDown, recCaptured>>
    BY <1>13 DEF RecHears, RecAudioFlushes, RecGo, RecPlaces, RecThreads
  <2>2. recState \notin {"Idle", "Error"} /\ ~recTrailer
    BY <2>1 DEF RecRuns, RecThreads
  <2> PICK items \in {<<>>, <<Sound>>} : RecWrite(items)
    BY <1>13 DEF RecHears, RecAudioFlushes
  <2>3. items \in Seq(Int) /\ Inside(items) \subseteq {0} /\ Rising(items)
    <3>1. CASE items = <<>>
      BY <1>e, <3>1
    <3>2. CASE items = <<Sound>>
      <4>1. Sound \in Int /\ Sound = 0
        BY DEF Sound
      <4>2. Inside(items) = {Sound} /\ Rising(items)
        BY <3>2, <4>1, OfOne
      <4>3. QED
        BY <3>2, <4>1, <4>2
    <3>3. QED
      BY <3>1, <3>2
  <2>4. /\ recFile' \in Seq(Int) /\ recFile' # <<>> /\ RecFileWhole'
        /\ \A y \in Inside(recFile') : y \in (1 .. RecFrames) \cup {Header,
             Sound, Trailer}
        /\ recMode # "Stream" =>
             /\ Inside(recFile') = Inside(recFile) \cup Inside(items)
             /\ Rising(recFile') <=> Rising(recFile) /\ Rising(items)
                                     /\ Ahead(Inside(recFile), Inside(items))
    <3>1. \A y \in Inside(items) : y \in 0 .. RecFrames
      BY <2>3
    <3>2. QED
      BY <2>1, <2>2, <2>3, <3>1, RecWrites
  <2>5. RecQueues'
    BY <2>1 DEF RecQueues
  <2>6. RecBounds'
    BY <2>1, <2>4 DEF RecBounds
  <2>7. RecWhole'
    BY <2>1, <2>2, <2>4 DEF RecWhole
  <2>8. ASSUME recMode # "Stream"
        PROVE  /\ RecOrdered' /\ RecEncoded' = RecEncoded
               /\ \A x \in RecBefore' : x > 0 => x \in RecBefore
    <3>1. Ahead(Inside(recFile), Inside(items))
      BY <2>3 DEF Ahead
    <3>2. Rising(recFile')
            /\ Inside(recFile') = Inside(recFile) \cup Inside(items)
      BY <2>3, <2>4, <2>8, <3>1 DEF RecVideo, RecOrder, RecOrdered
    <3>3. RecOrdered'
      BY <2>1, <2>3, <2>8, <3>2 DEF RecVideo, RecOrder, RecOrdered, Ahead
    <3>4. RecEncoded' = RecEncoded
      BY <2>1, <2>3, <3>2 DEF RecEncoded, RecBefore
    <3>5. \A x \in RecBefore' : x > 0 => x \in RecBefore
      BY <2>1, <2>3, <3>2 DEF RecBefore
    <3>6. QED
      BY <3>3, <3>4, <3>5
  <2>9. RecVideo'
    BY <2>1, <2>8, RecMoved
  <2>10. QED
    BY <2>5, <2>6, <2>7, <2>9
<1>14. CASE UNCHANGED RecVars
  <2>1. /\ UNCHANGED <<recMode, recQueue, recHand, recHeld, recLost, recFile>>
        /\ UNCHANGED <<recTrailer, recState, recCaptured, recDown, recThread>>
    BY <1>14 DEF RecVars
  <2>2. RecSeen => RecSeen'
    BY <2>1 DEF RecSeen, RecKnown, RecEncoded, RecBefore, RecPushes
  <2>3. QED
    BY <2>1, <2>2, RecSame
<1>15. QED
  BY <1>1, <1>2, <1>3, <1>4, <1>5, <1>6, <1>7, <1>8, <1>9, <1>10, <1>11,
     <1>12, <1>13, <1>14
     DEF RecNext, RecUiMoves, RecCaptureMoves, RecEncodeMoves, RecAudioMoves,
     RecDeviceAborted,
         RecThreads

(* ... and every step keeps it, action by action.                          *)
LEMMA RecNextIInv == RecIInv /\ [RecNext]_RecVars => RecIInv'
  BY RecNextFlow, RecNextRest DEF RecIInv

(* The last clause of the invariant, as the property states it.            *)
LEMMA RecVideoWhole == RecIInv => RecNoGap
<1> SUFFICES ASSUME RecIInv, recMode # "Stream" PROVE RecNoGap
  BY DEF RecNoGap
<1> USE RecordingAssumption DEF RecIInv
<1> DEFINE part == recFile \o recHeld
           written == part \o recHand
           video == {i \in 1 .. Len(written) : written[i] \in 1 .. RecFrames}
           encoded == {written[i] : i \in video} \cup (recLost \ {Trailer})
           queued == {recQueue[i] : i \in 1 .. Len(recQueue)}
<1>1. /\ part \in Seq(Int)
           /\ Inside(part) = Inside(recFile) \cup Inside(recHeld)
      /\ Rising(part)
  BY OfConcat DEF RecQueues, RecBounds, RecVideo, RecOrder, RecOrdered
<1> HIDE DEF part
<1>2. Rising(recHand)
  <2>1. CASE recHand = <<>>
    BY <2>1, OfEmpty
  <2>2. CASE recHand # <<>>
    <3>1. recHand \in Seq(Int) /\ Len(recHand) <= 1
      BY DEF RecQueues
    <3>2. recHand[1] \in Int /\ recHand = <<recHand[1]>>
      BY <2>2, <3>1, OfSingle
    <3> DEFINE h == recHand[1]
    <3>3. h \in Int /\ recHand = <<h>>
      BY <3>2
    <3> HIDE DEF h
    <3>4. QED
      BY <3>3, OfOne
  <2>3. QED
    BY <2>1, <2>2
<1>3. /\ written \in Seq(Int)
           /\ Inside(written) = Inside(part) \cup Inside(recHand)
      /\ Rising(written)
  <2>1. Ahead(Inside(part), Inside(recHand)) /\ recHand \in Seq(Int)
    BY <1>1 DEF RecVideo, RecOrder, RecOrdered, RecQueues, Ahead
  <2>2. QED
    BY <1>1, <1>2, <2>1, OfConcat
<1>w. written = (recFile \o recHeld) \o recHand
  BY DEF part
<1> HIDE DEF written
<1>4. encoded = RecEncoded
  <2>1. {written[i] : i \in video} = Inside(written) \cap (1 .. RecFrames)
    BY DEF Inside
  <2>2. recLost \ {Trailer} = recLost \cap (1 .. RecFrames)
    <3>1. Trailer \notin 1 .. RecFrames
      BY DEF Trailer
    <3>2. recLost \subseteq (1 .. RecFrames) \cup {Trailer}
      BY DEF RecBounds
    <3>3. QED
      BY <3>1, <3>2, Zenon
  <2>3. QED
    BY <1>1, <1>3, <2>1, <2>2 DEF RecEncoded, RecBefore
<1>5. \A i, j \in video : i < j => written[i] < written[j]
  BY <1>3 DEF Rising
<1>6. \A i \in video : 1 .. written[i] \subseteq encoded
  <2> SUFFICES ASSUME NEW i \in video PROVE 1 .. written[i] \subseteq encoded
    OBVIOUS
  <2>1. written[i] \in Inside(written) /\ written[i] \in 1 .. RecFrames
    BY DEF Inside
  <2>2. written[i] \in RecBefore /\ written[i] > 0
    BY <1>1, <1>3, <2>1 DEF RecBefore
  <2>3. QED
    BY <1>4, <2>2 DEF RecVideo, RecUnbroken
<1> HIDE DEF video, encoded, queued
<1>7. ASSUME recState \in {"Recording", "Paused"}
      PROVE  1 .. recCaptured \ (encoded \cup queued) \subseteq
               IF recThread["capture"] = "push" THEN {recCaptured} ELSE {}
  <2>1. queued = Inside(recQueue) /\ ~recDown
    BY <1>7 DEF queued, Inside, RecRuns
  <2>2. QED
    BY <1>4, <2>1 DEF RecVideo, RecSeen, RecKnown, RecPushes
<1>8. QED
  BY <1>5, <1>6, <1>7, <1>w DEF RecNoGap, video, encoded, queued

(* It implies what is claimed.                                             *)
LEMMA RecSafe == RecIInv => RecTypeOK /\ RecQuiet /\ RecFileWhole /\ RecNoGap
<1> SUFFICES ASSUME RecIInv PROVE RecTypeOK /\ RecQuiet
  BY RecVideoWhole DEF RecIInv, RecWhole
<1> USE RecordingAssumption DEF RecIInv
<1>1. RecTypeOK
  <2>1. /\ recQueue \in Seq(1 .. RecFrames) /\ recHand \in Seq(1 .. RecFrames)
        /\ recHeld \in Seq(1 .. RecFrames)
        /\ recLost \subseteq (1 .. RecFrames) \cup {Trailer}
    BY OfFrames DEF RecQueues, RecBounds
  <2>2. recFile \in Seq((1 .. RecFrames) \cup {Header, Sound, Trailer})
    <3>1. \A i \in 1 .. Len(recFile) : recFile[i] \in (1 .. RecFrames) \cup {Header, Sound, Trailer}
      BY DEF RecBounds, Inside
    <3>2. QED
      BY <3>1 DEF RecBounds
  <2>3. QED
    BY <2>1, <2>2 DEF RecTypeOK, RecPlaces, RecNumbers, RecQueues
<1>2. RecQuiet
  BY DEF RecQuiet, RecRuns, RecHolds, RecThreads
<1>3. QED
  BY <1>1, <1>2

(* A recording that is over has no thread; its file is a header, packets   *)
(* and one trailer, if that could be written; the frames in it are in      *)
(* order, and queue, encoder or muxer failed on each that is missing among *)
(* them (RecordingPipeline).                                               *)
THEOREM RecordingSafety ==
  RecSpec => [](RecTypeOK /\ RecQuiet /\ RecFileWhole /\ RecNoGap)
BY RecInitIInv, RecNextIInv, RecSafe, PTL DEF RecSpec

-----------------------------------------------------------------------------
(* StreamingPipeline.                                                      *)

StrPlaces ==
  /\ strState \in StrStates
  /\ strAudio \in {"none", "added", "refused"}
  /\ strPc \in {"none", "top", "enter", "write", "failed", "close", "end",
       "ended"}
  /\ strUi \in {"idle", "abort", "disconnect", "join", "clean"}

StrFlags ==
  /\ strCancel \in BOOLEAN /\ strCleaned \in BOOLEAN /\ strSource \in BOOLEAN
  /\ strShown \in BOOLEAN /\ strGone \in BOOLEAN /\ strNoIo \in BOOLEAN

StrNumbers == strRead \in 0 .. StrPackets /\ strIdx \in {0, 1}

StrMuxed   == strMux \in Muxers
StrQueued  == strEvents \in Seq(StrStates)

(* The source and the muxer are there while the loop uses them, and gone   *)
(* once somebody has cleaned up; nobody does under the loop.               *)
StrHeld ==
  /\ strPc \in {"top", "enter", "write", "failed", "close"} =>
       strSource /\ strMux.open /\ ~strCleaned
  /\ strPc \in {"end", "ended"} => strCleaned
  /\ strCleaned => ~strSource /\ ~strMux.open

(* cancel() sets the flag, waits for the loop and cleans up.               *)
StrCancels ==
  /\ strUi # "idle" => strCancel
  /\ strUi = "clean" => strPc = "none"
  /\ strUi = "idle" /\ strCancel => strPc = "none" /\ strCleaned
  /\ strMux.open /\ ~strMux.io => strCancel
  /\ strNoIo => strCancel

(* Nothing was done to an Idle pipeline; a loop that is over has left a    *)
(* last state.                                                             *)
StrOver ==
  /\ strState = "Idle" =>
       strPc = "none" /\ ~strCancel /\ strUi = "idle" /\ ~strMux.open
         /\ ~strCleaned
  /\ strPc \in {"none", "ended"} /\ strState # "Idle" =>
       strState \in {"Completed", "Failed", "Cancelled"}

(* The last that is shown, or will be, is a stream.                        *)
StrLast(events, shown) ==
  \/ events = <<>> /\ shown
  \/ events # <<>> /\ events[Len(events)] = "Streaming"

StrToldOver == strPc \in {"none", "ended"} => ~StrLast(strEvents, strShown)

StrIInv ==
  /\ StrPlaces /\ StrFlags /\ StrNumbers /\ StrMuxed /\ StrQueued
  /\ StrHeld /\ StrCancels /\ StrOver /\ StrToldOver

(* What is posted is the last ...                                          *)
LEMMA StrPosted ==
  ASSUME NEW events \in Seq(StrStates), NEW states \in Seq(StrStates),
         states # <<>>, NEW shown
  PROVE  /\ events \o states \in Seq(StrStates)
         /\ StrLast(events \o states, shown) <=> states[Len(states)]
              = "Streaming"
<1>1. /\ Len(events) \in Nat /\ Len(states) \in Nat /\ Len(states) > 0
      /\ events \o states \in Seq(StrStates)
  BY EmptySeq
<1>2. /\ Len(events \o states) = Len(events) + Len(states)
      /\ \A i \in 1 .. Len(events) + Len(states) :
           (events \o states)[i] = IF i <= Len(events) THEN events[i]
                                   ELSE states[i - Len(events)]
  BY ConcatProperties, Zenon
<1> DEFINE n == Len(events)
           m == Len(states)
           s == events \o states
<1> HIDE DEF n, m, s
<1>3. n \in Nat /\ m \in Nat /\ m > 0 /\ Len(s) = n + m
  BY <1>1, <1>2 DEF n, m, s
<1>4. n + m \in 1 .. n + m /\ ~(n + m <= n) /\ (n + m) - n = m
  BY <1>3
<1>5. s[n + m] = states[m]
  BY <1>2, <1>4 DEF n, m, s
<1>6. s # <<>>
  BY <1>3
<1>7. QED
  BY <1>1, <1>3, <1>5, <1>6 DEF StrLast, n, m, s

(* ... and what is shown next does not change it.                          *)
LEMMA StrShownNext ==
  ASSUME NEW events \in Seq(StrStates), events # <<>>, NEW shown
  PROVE  /\ Tail(events) \in Seq(StrStates)
         /\ StrLast(Tail(events), Head(events) = "Streaming")
             <=> StrLast(events, shown)
<1>1. /\ Len(events) \in Nat /\ Len(events) > 0
           /\ Tail(events) \in Seq(StrStates)
      /\ Len(Tail(events)) = Len(events) - 1 /\ Head(events) = events[1]
      /\ \A i \in 1 .. Len(events) - 1 : Tail(events)[i] = events[i + 1]
  OBVIOUS
<1>2. CASE Len(events) = 1
  <2>1. Tail(events) = <<>>
    <3>1. Len(Tail(events)) = 0
      BY <1>1, <1>2
    <3>2. QED
      BY <1>1, <3>1, EmptySeq, Zenon
  <2>2. QED
    BY <1>1, <1>2, <2>1 DEF StrLast
<1>3. CASE Len(events) # 1
  <2> DEFINE n == Len(events) - 1
  <2>1. n \in 1 .. Len(events) - 1 /\ n + 1 = Len(events) /\ n > 0
    BY <1>1, <1>3
  <2>2. Tail(events)[n] = events[n + 1]
    BY <1>1, <2>1
  <2>3. Tail(events) # <<>>
    BY SMTT(30), <1>1, <2>1, EmptySeq
  <2>4. QED
    BY <1>1, <2>1, <2>2, <2>3 DEF StrLast
<1>4. QED
  BY <1>2, <1>3

(* It holds at first ...                                                   *)
LEMMA StrInitIInv == StrInit => StrIInv
<1> SUFFICES ASSUME StrInit PROVE StrIInv
  OBVIOUS
<1> USE StreamingAssumption, StreamMuxerAssumption DEF StrInit
<1>1. StrPlaces
  BY DEF StrPlaces, StrStates
<1>2. StrFlags
  BY DEF StrFlags
<1>3. StrNumbers
  BY DEF StrNumbers
<1>4. StrMuxed
  BY DEF StrMuxed, Muxers, MuxNew
<1>5. StrQueued
  BY DEF StrQueued
<1>6. StrHeld /\ StrCancels /\ StrOver /\ StrToldOver
  BY DEF StrHeld, StrCancels, StrOver, StrToldOver, StrLast, MuxNew
<1>7. QED
  BY <1>1, <1>2, <1>3, <1>4, <1>5, <1>6 DEF StrIInv

(* What a cleanup leaves.                                                  *)
LEMMA StrCleansUp ==
  ASSUME StrMuxed, StrFlags, StrCleanUp, strCleaned
           => ~strSource /\ ~strMux.open,
         strMux.open /\ ~strMux.io => strCancel, strNoIo => strCancel
  PROVE  /\ strCleaned' = TRUE /\ ~strMux'.open /\ ~strSource'
         /\ StrMuxed' /\ strSource' \in BOOLEAN /\ strNoIo' \in BOOLEAN
         /\ strNoIo' => strCancel
<1>1. CASE strCleaned
  BY <1>1 DEF StrCleanUp, StrMuxed, StrFlags
<1>2. CASE ~strCleaned
  <2>1. /\ strCleaned' = TRUE /\ strMux' = MuxClosed(strMux)
             /\ strSource' = FALSE
        /\ strNoIo' = (strNoIo \/ (MuxWritesTrailer(strMux) /\ ~strMux.io))
    BY <1>2 DEF StrCleanUp
  <2>2. StrMuxed' /\ ~strMux'.open
    <3>1. CASE strMux.open
      <4>1. strMux' = [strMux EXCEPT !.open = FALSE, !.io = FALSE,
                         !.aborted = FALSE, !.header = FALSE, !.streams = 0]
        BY <2>1, <3>1 DEF MuxClosed
      <4> DEFINE a == [strMux EXCEPT !.open = FALSE, !.io = FALSE]
                 b == [a EXCEPT !.aborted = FALSE, !.header = FALSE]
      <4>2. a \in Muxers /\ ~a.open
        BY DEF StrMuxed, Muxers
      <4>3. strMux' = [b EXCEPT !.streams = 0]
        BY <4>1
      <4> HIDE DEF a
      <4>4. b \in Muxers /\ ~b.open
        BY <4>2 DEF Muxers
      <4> HIDE DEF b
      <4>5. QED
        BY <4>3, <4>4 DEF StrMuxed, Muxers
    <3>2. CASE ~strMux.open
      BY <2>1, <3>2 DEF StrMuxed, Muxers, MuxClosed
    <3>3. QED
      BY <3>1, <3>2
  <2>3. strNoIo' \in BOOLEAN /\ (strNoIo' => strCancel)
    BY <2>1 DEF StrFlags, MuxWritesTrailer
  <2>4. QED
    BY <2>1, <2>2, <2>3
<1>3. QED
  BY <1>1, <1>2

(* What a post does to the queue.                                          *)
LEMMA StrPosts1 ==
  ASSUME StrQueued, NEW x \in StrStates, StrPost(<<x>>)
  PROVE  StrQueued' /\ (StrLast(strEvents', strShown) <=> x = "Streaming")
<1>1. /\ <<x>> \in Seq(StrStates) /\ <<x>> # <<>> /\ Len(<<x>>) = 1
      /\ <<x>>[Len(<<x>>)] = x
  OBVIOUS
<1>2. QED
  BY <1>1, StrPosted DEF StrPost, StrQueued

(* ... and that of two.                                                    *)
LEMMA StrPosts2 ==
  ASSUME StrQueued, StrPost(<<"Connecting", "Failed">>)
  PROVE  StrQueued' /\ ~StrLast(strEvents', strShown)
<1> DEFINE s == <<"Connecting", "Failed">>
<1>1. s \in Seq(StrStates) /\ s # <<>> /\ Len(s) = 2 /\ s[2] = "Failed"
  BY DEF StrStates
<1>2. strEvents' = strEvents \o s /\ strEvents \in Seq(StrStates)
  BY DEF StrPost, StrQueued
<1> HIDE DEF s
<1>3. /\ strEvents \o s \in Seq(StrStates)
      /\ StrLast(strEvents \o s, strShown) <=> s[Len(s)] = "Streaming"
  BY <1>1, <1>2, StrPosted
<1>4. QED
  BY <1>1, <1>2, <1>3 DEF StrQueued

(* The muxer after each of its calls.                                      *)
LEMMA MuxSteps ==
  ASSUME NEW m \in Muxers
  PROVE  /\ \A streams \in 0 .. 2 :
              /\ MuxOpen(m, streams) \in Muxers
              /\ MuxOpen(m, streams).open /\ MuxOpen(m, streams).io
         /\ \A w \in {MuxWritten(m), MuxHeaderFailed(m), MuxWriteFailed(m),
                      [m EXCEPT !.aborted = TRUE]} :
              w \in Muxers /\ w.open = m.open /\ w.io = m.io
         /\ MuxDisconnected(m) \in Muxers /\ MuxDisconnected(m).open = m.open
<1> USE StreamMuxerAssumption DEF Muxers
<1>1. MuxWriteFailed(m) \in Muxers
  <2> DEFINE e == IF m.errors < MaxWriteErrors THEN m.errors + 1 ELSE m.errors
  <2>1. e \in 0 .. MaxWriteErrors
    OBVIOUS
  <2>2. (m.failed \/ e = MaxWriteErrors) \in BOOLEAN
    OBVIOUS
  <2> HIDE DEF e
  <2>3. MuxWriteFailed(m) = [m EXCEPT !.header = TRUE, !.errors = e,
                                      !.failed = m.failed
                                        \/ e = MaxWriteErrors]
    BY Zenon DEF MuxWriteFailed, e
  <2>4. QED
    BY <2>1, <2>2, <2>3
<1>2. MuxWriteFailed(m).open = m.open /\ MuxWriteFailed(m).io = m.io
  BY DEF MuxWriteFailed
<1>3. /\ \A streams \in 0 .. 2 : MuxOpen(m, streams) \in Muxers
      /\ MuxWritten(m) \in Muxers /\ MuxHeaderFailed(m) \in Muxers
      /\ [m EXCEPT !.aborted = TRUE] \in Muxers
           /\ MuxDisconnected(m) \in Muxers
  <2>1. \A streams \in 0 .. 2 : MuxOpen(m, streams) \in Muxers
    BY DEF MuxOpen
  <2>2. MuxWritten(m) \in Muxers
    <3>1. 0 \in 0 .. MaxWriteErrors
      OBVIOUS
    <3>2. QED
      BY <3>1 DEF MuxWritten
  <2>3. MuxHeaderFailed(m) \in Muxers
    BY DEF MuxHeaderFailed
  <2>4. [m EXCEPT !.aborted = TRUE] \in Muxers /\ MuxDisconnected(m) \in Muxers
    BY DEF MuxDisconnected
  <2>5. QED
    BY <2>1, <2>2, <2>3, <2>4
<1>4. /\ \A streams \in 0 .. 2 :
           MuxOpen(m, streams).open /\ MuxOpen(m, streams).io
      /\ MuxWritten(m).open = m.open /\ MuxWritten(m).io = m.io
      /\ MuxHeaderFailed(m).open = m.open /\ MuxHeaderFailed(m).io = m.io
      /\ [m EXCEPT !.aborted = TRUE].open = m.open
      /\ [m EXCEPT !.aborted = TRUE].io = m.io
      /\ MuxDisconnected(m).open = m.open
  BY DEF MuxOpen, MuxWritten, MuxHeaderFailed, MuxDisconnected
<1> HIDE DEF Muxers
<1>5. QED
  BY <1>1, <1>2, <1>3, <1>4

(* What start() and the UI thread do to them.                              *)
LEMMA StrStarts ==
  ASSUME StrMuxed, NEW a \in {"none", "added", "refused"}, StrStart(a)
  PROVE  StrMuxed' /\ strMux'.open /\ strMux'.io
<1> DEFINE n == IF a = "added" THEN 2 ELSE 1
<1>1. n \in 0 .. 2
  OBVIOUS
<1> HIDE DEF n
<1>2. strMux' = MuxOpen(strMux, n)
  BY Zenon DEF StrStart, n
<1>3. QED
  BY <1>1, <1>2, MuxSteps DEF StrMuxed

(* What the UI thread shows.                                               *)
LEMMA StrShows ==
  ASSUME StrQueued, StrShow
  PROVE  StrQueued'
           /\ (StrLast(strEvents', strShown') <=> StrLast(strEvents, strShown))
<1>1. /\ strEvents # <<>> /\ strEvents \in Seq(StrStates)
      /\ strShown' = (Head(strEvents) = "Streaming")
      /\ strEvents' = Tail(strEvents)
  BY DEF StrShow, StrQueued
<1>2. QED
  BY <1>1, StrShownNext, Zenon DEF StrQueued

(* ... and every step keeps it, action by action.                          *)
LEMMA StrNextIInv == StrIInv /\ [StrNext]_StrVars => StrIInv'
<1> SUFFICES ASSUME StrIInv, [StrNext]_StrVars PROVE StrIInv'
  OBVIOUS
<1> USE StreamingAssumption, StreamMuxerAssumption, StrCleansUp, StrPosts1,
        StrPosts2, MuxSteps, StrStarts, StrShows
    DEF StrIInv, StrPlaces, StrFlags, StrNumbers, StrMuxed, StrQueued, StrHeld,
        StrCancels, StrOver, StrToldOver, StrStates, strLoopVars
<1>1. CASE StrStartNoSource
  BY <1>1 DEF StrStartNoSource
<1>2. CASE StrStartNoNetwork
  BY <1>2 DEF StrStartNoNetwork
<1>3. CASE (\E a \in {"none", "added", "refused"} : StrStart(a))
  BY <1>3 DEF StrStart
<1>4. CASE (\E l \in BOOLEAN : StrCancel(l))
  BY <1>4 DEF StrCancel
<1>5. CASE StrLoopEnds \/ StrReadFails
  BY <1>5 DEF StrLoopEnds, StrReadFails
<1>6. CASE (\E s \in {0, 1} : StrReads(s))
  BY <1>6 DEF StrReads
<1>7. CASE StrEntersWrite
  BY <1>7 DEF StrEntersWrite
<1>8. CASE StrWrites
  <2>1. StrPlaces' /\ StrFlags' /\ StrNumbers'
    BY <1>8 DEF StrWrites
  <2>2. StrMuxed' /\ StrQueued'
    BY <1>8 DEF StrWrites
  <2>3. StrHeld' /\ StrCancels' /\ StrOver' /\ StrToldOver'
    BY <1>8 DEF StrWrites
  <2>4. QED
    BY <2>1, <2>2, <2>3
<1>9. CASE StrWriteFails
  <2>1. StrPlaces' /\ StrFlags' /\ StrNumbers'
    BY <1>9 DEF StrWriteFails
  <2>2. StrMuxed' /\ StrQueued'
    BY <1>9 DEF StrWriteFails
  <2>3. StrHeld' /\ StrCancels' /\ StrOver' /\ StrToldOver'
    BY <1>9 DEF StrWriteFails
  <2>4. QED
    BY <2>1, <2>2, <2>3
<1>10. CASE StrFails
  BY <1>10 DEF StrFails
<1>11. CASE StrCloses
  <2>1. StrPlaces' /\ StrFlags'
    BY <1>11 DEF StrCloses
  <2>2. StrNumbers'
    BY <1>11 DEF StrCloses
  <2>3. StrMuxed' /\ StrQueued'
    BY <1>11 DEF StrCloses
  <2>4. StrHeld' /\ StrCancels' /\ StrOver' /\ StrToldOver'
    BY <1>11 DEF StrCloses
  <2>5. QED
    BY <2>1, <2>2, <2>3, <2>4
<1>12. CASE StrEnds
  BY <1>12 DEF StrEnds
<1>13. CASE StrAborts
  <2>1. StrPlaces' /\ StrFlags' /\ StrNumbers'
    BY <1>13 DEF StrAborts
  <2>2. StrMuxed' /\ StrQueued'
    BY <1>13 DEF StrAborts
  <2>3. StrHeld' /\ StrCancels' /\ StrOver' /\ StrToldOver'
    BY <1>13 DEF StrAborts
  <2>4. QED
    BY <2>1, <2>2, <2>3
<1>14. CASE StrDisconnects
  <2>1. StrPlaces' /\ StrFlags' /\ StrNumbers'
    BY <1>14 DEF StrDisconnects
  <2>2. StrMuxed' /\ StrQueued'
    BY <1>14 DEF StrDisconnects
  <2>3. StrHeld' /\ StrCancels' /\ StrOver' /\ StrToldOver'
    BY <1>14 DEF StrDisconnects
  <2>4. QED
    BY <2>1, <2>2, <2>3
<1>15. CASE StrJoins
  BY <1>15 DEF StrJoins
<1>16. CASE StrCancelled
  <2>1. StrPlaces' /\ StrFlags' /\ StrNumbers'
    BY <1>16 DEF StrCancelled
  <2>2. StrMuxed'
    BY <1>16 DEF StrCancelled
  <2>3. StrQueued'
    BY <1>16 DEF StrCancelled
  <2>4. StrHeld' /\ StrCancels'
    BY <1>16 DEF StrCancelled
  <2>5. StrOver' /\ StrToldOver'
    BY <1>16 DEF StrCancelled
  <2>6. QED
    BY <2>1, <2>2, <2>3, <2>4, <2>5
<1>17. CASE StrShow
  BY <1>17 DEF StrShow
<1>18. CASE UNCHANGED StrVars
  BY <1>18 DEF StrVars
<1>19. QED
  BY <1>1, <1>2, <1>3, <1>4, <1>5, <1>6, <1>7, <1>8, <1>9, <1>10, <1>11,
     <1>12, <1>13, <1>14, <1>15, <1>16, <1>17, <1>18 DEF StrNext, StrUiMoves,
     StrLoop

(* It implies what is claimed.                                             *)
LEMMA StrSafe == StrIInv => StrTypeOK /\ StrOwned /\ StrShownIsOver
<1> SUFFICES ASSUME StrIInv PROVE StrTypeOK /\ StrOwned /\ StrShownIsOver
  OBVIOUS
<1>1. StrTypeOK
  BY DEF StrIInv, StrPlaces, StrFlags, StrNumbers, StrMuxed, StrQueued,
     StrTypeOK
<1>2. StrOwned
  BY DEF StrIInv, StrHeld, StrCancels, StrOwned
<1>3. StrShownIsOver
  BY DEF StrIInv, StrOver, StrToldOver, StrLast, StrShownIsOver
<1>4. QED
  BY <1>1, <1>2, <1>3

(* The source and the muxer are there while the loop uses them and gone    *)
(* after a cancel(), the library writes through a null pointer only during *)
(* one, and a stream that is over is not shown as running for good         *)
(* (StreamingPipeline, StreamMuxer).                                       *)
THEOREM StreamSafety ==
  StrSpec => [](StrTypeOK /\ StrOwned /\ StrShownIsOver)
BY StrInitIInv, StrNextIInv, StrSafe, PTL DEF StrSpec

-----------------------------------------------------------------------------
(* StreamExtractor.                                                        *)

(* There is a job from resolve() until the worker's last step.             *)
ExtRuns ==
  /\ extUi # "terminated" =>
       (extRunning <=> extAt \notin {"none", "ended"})
  /\ extUi = "terminated" => extAt = "ended"
  /\ extUi = "gone" => extAt = "none"

(* It tries ExtRetries + 1 times and answers once.                         *)
ExtTries ==
  /\ extTry <= ExtRetries + 1
  /\ extAt \in {"spawn", "store", "read", "over", "wait", "clear", "check"} =>
       extTry <= ExtRetries
  /\ extAt \in {"stop", "ended"} => extAnswers = 1
  /\ extAt \notin {"none", "stop", "ended"} => extAnswers = 0

(* The child is there from its birth to the wait, its id until it is       *)
(* cleared.                                                                *)
ExtChildren ==
  /\ extAt \notin {"store", "read", "over", "wait"} => extChild = "none"
  /\ extPid <=> extAt \in {"read", "over", "wait", "clear"}

ExtNumbers == extTry \in Nat /\ extAnswers \in 0 .. 1

ExtPlaces ==
  /\ extRunning \in BOOLEAN /\ extCancelled \in BOOLEAN /\ extPid \in BOOLEAN
  /\ extChild \in {"none", "runs", "closed", "dead"}
  /\ extAt \in {"none", "attempt", "spawn", "store", "read", "over", "wait",
                "clear", "check", "answer", "stop", "ended"}
  /\ extUi \in {"idle", "flag", "kill", "join", "gone", "terminated"}
  /\ extLeaving \in BOOLEAN

ExtIInv == ExtNumbers /\ ExtPlaces /\ ExtRuns /\ ExtTries /\ ExtChildren

(* It holds at first ...                                                   *)
LEMMA ExtInitIInv == ExtInit => ExtIInv
<1> SUFFICES ASSUME ExtInit PROVE ExtIInv
  OBVIOUS
<1> USE ExtractorAssumption DEF ExtInit
<1>1. ExtNumbers
  BY DEF ExtNumbers
<1>2. ExtPlaces
  BY DEF ExtPlaces
<1>3. ExtRuns /\ ExtTries /\ ExtChildren
  BY DEF ExtRuns, ExtTries, ExtChildren
<1>4. QED
  BY <1>1, <1>2, <1>3 DEF ExtIInv

(* ... and every step keeps it, action by action.                          *)
LEMMA ExtNextIInv == ExtIInv /\ [ExtNext]_ExtVars => ExtIInv'
<1> SUFFICES ASSUME ExtIInv, [ExtNext]_ExtVars PROVE ExtIInv'
  OBVIOUS
<1> USE ExtractorAssumption
    DEF ExtIInv, ExtNumbers, ExtPlaces, ExtRuns, ExtTries, ExtChildren,
    extFlags,
        ExtGo, ExtWorker, ExtOthers, ExtKilled
<1>1. CASE ExtResolve
  <2>1. ExtNumbers'
    BY <1>1 DEF ExtResolve
  <2>2. ExtPlaces'
    BY <1>1 DEF ExtResolve
  <2>3. ExtRuns'
    BY <1>1 DEF ExtResolve
  <2>4. ExtTries' /\ ExtChildren'
    BY <1>1 DEF ExtResolve
  <2>5. QED
    BY <2>1, <2>2, <2>3, <2>4
<1>2. CASE ExtResolveAgain
  BY <1>2 DEF ExtResolveAgain
<1>3. CASE (\E leaving \in BOOLEAN : ExtCancel(leaving))
  BY <1>3 DEF ExtCancel
<1>4. CASE ExtFlag \/ ExtKill \/ ExtJoin
  <2>1. ExtNumbers' /\ ExtPlaces'
    BY <1>4 DEF ExtFlag, ExtKill, ExtJoin
  <2>2. ExtRuns'
    BY <1>4 DEF ExtFlag, ExtKill, ExtJoin
  <2>3. ExtTries' /\ ExtChildren'
    BY <1>4 DEF ExtFlag, ExtKill, ExtJoin
  <2>4. QED
    BY <2>1, <2>2, <2>3
<1>5. CASE ExtGivesUp \/ ExtAttempts
  BY <1>5 DEF ExtGivesUp, ExtAttempts
<1>6. CASE ExtSpawnFails \/ ExtSpawns
  BY <1>6 DEF ExtSpawnFails, ExtSpawns
<1>7. CASE ExtStores \/ ExtReadEnds
  BY ZenonT(30), <1>7 DEF ExtStores, ExtReadEnds
<1>8. CASE ExtTimesOut \/ ExtOver
  BY <1>8 DEF ExtTimesOut, ExtOver
<1>9. CASE ExtWaits \/ ExtClears
  BY <1>9 DEF ExtWaits, ExtClears
<1>10. CASE ExtChecks
  BY <1>10 DEF ExtChecks
<1>11. CASE ExtAnswers \/ ExtStops
  <2>1. ExtNumbers'
    BY <1>11 DEF ExtAnswers, ExtStops
  <2>2. ExtPlaces'
    BY <1>11 DEF ExtAnswers, ExtStops
  <2>3. ExtRuns'
    BY <1>11 DEF ExtAnswers, ExtStops
  <2>4. ExtTries' /\ ExtChildren'
    BY <1>11 DEF ExtAnswers, ExtStops
  <2>5. QED
    BY <2>1, <2>2, <2>3, <2>4
<1>12. CASE ExtChildMoves
  BY <1>12 DEF ExtChildMoves
<1>13. CASE UNCHANGED ExtVars
  BY <1>13 DEF ExtVars
<1>14. QED
  BY <1>1, <1>2, <1>3, <1>4, <1>5, <1>6, <1>7, <1>8, <1>9, <1>10, <1>11,
     <1>12, <1>13 DEF ExtNext, ExtUiMoves, ExtWorkerMoves

(* It implies what is claimed.                                             *)
LEMMA ExtSafe == ExtIInv => ExtTypeOK /\ ExtOwned
<1> SUFFICES ASSUME ExtIInv PROVE ExtTypeOK /\ ExtOwned
  OBVIOUS
<1> USE ExtractorAssumption
<1>1. ExtTypeOK
  <2>1. extTry \in 0 .. ExtRetries + 1
    BY DEF ExtIInv, ExtNumbers, ExtTries
  <2>2. QED
    BY <2>1 DEF ExtIInv, ExtNumbers, ExtPlaces, ExtTypeOK
<1>2. ExtOwned
  BY DEF ExtIInv, ExtPlaces, ExtRuns, ExtTries, ExtChildren, ExtOwned
<1>3. QED
  BY <1>1, <1>2

(* A job that is over has answered once and has left no child process      *)
(* (StreamExtractor).                                                      *)
THEOREM ExtractionSafety ==
  ExtSpec => [](ExtTypeOK /\ ExtOwned)
BY ExtInitIInv, ExtNextIInv, ExtSafe, PTL DEF ExtSpec

-----------------------------------------------------------------------------
(* ASRPipeline.                                                            *)

AsrNumbers == asrQueue \in 0 .. AsrQueueSize /\ asrCount \in 0 .. AsrToggles

AsrPlaces ==
  /\ asrState \in {"Idle", "Ready", "Running", "Error"}
  /\ asrEngine \in {"none", "loaded", "failed"}
  /\ asrPreload \in {"none", "due", "loading", "loaded", "done"}
  /\ asrWorker \in {"none", "load", "failed", "loaded", "stale", "loop",
       "ended"}
  /\ asrUi \in {"idle", "wait", "init", "start", "set", "stop", "close"}

AsrFlags ==
  /\ asrRunning \in BOOLEAN /\ asrCached \in BOOLEAN
       /\ asrPreloading \in BOOLEAN
  /\ asrTerminated \in BOOLEAN /\ asrFeed \in BOOLEAN
  /\ asrRegistered \in BOOLEAN /\ asrEnabled \in BOOLEAN

(* The preload thread has the engine until preloading_ is cleared, and the *)
(* worker is started after it.                                             *)
AsrPreloadFirst ==
  /\ asrPreloading <=> asrPreload \in {"loading", "loaded"}
  /\ asrUi \in {"init", "start", "set"} \/ asrWorker # "none"
       => asrPreload = "done"
  /\ asrPreload \in {"none", "due"} => ~asrEnabled /\ asrUi = "idle"

(* The worker is between start() and the join of stop().                   *)
AsrWorks ==
  /\ asrUi \in {"wait", "init", "start", "set"} => asrEnabled
  /\ asrUi \in {"stop", "close"} => ~asrEnabled
  /\ asrUi \in {"wait", "init", "start", "close"} => asrWorker = "none"
  /\ ~asrEnabled /\ asrUi # "stop" =>
       asrWorker = "none" /\ asrState \in {"Idle", "Ready"}
  /\ ~asrTerminated

(* feedAudioFrame() has made room for what it adds.                        *)
AsrRoom == asrFeed => asrQueue < AsrQueueSize

AsrIInv ==
  /\ AsrNumbers /\ AsrPlaces /\ AsrFlags
  /\ AsrPreloadFirst /\ AsrWorks /\ AsrRoom

(* It holds at first ...                                                   *)
LEMMA AsrInitIInv == AsrInit => AsrIInv
<1> SUFFICES ASSUME AsrInit PROVE AsrIInv
  OBVIOUS
<1> USE AsrAssumption DEF AsrInit
<1>1. AsrNumbers
  BY DEF AsrNumbers
<1>2. AsrPlaces
  BY DEF AsrPlaces
<1>3. AsrFlags
  BY DEF AsrFlags
<1>4. AsrPreloadFirst /\ AsrWorks /\ AsrRoom
  BY DEF AsrPreloadFirst, AsrWorks, AsrRoom
<1>5. QED
  BY <1>1, <1>2, <1>3, <1>4 DEF AsrIInv

(* ... and every step keeps it, action by action.                          *)
LEMMA AsrNextIInv == AsrIInv /\ [AsrNext]_AsrVars => AsrIInv'
<1> SUFFICES ASSUME AsrIInv, [AsrNext]_AsrVars PROVE AsrIInv'
  OBVIOUS
<1> USE AsrAssumption
    DEF AsrIInv, AsrNumbers, AsrPlaces, AsrFlags, AsrPreloadFirst, AsrWorks,
    AsrRoom,
        asrSound, asrModel, asrThread
<1>1. CASE AsrSetModelDirectory
  BY <1>1 DEF AsrSetModelDirectory
<1>2. CASE AsrPreloadModel
  BY <1>2 DEF AsrPreloadModel
<1>3. CASE AsrPreloads
  <2>1. AsrNumbers' /\ AsrPlaces'
    BY <1>3 DEF AsrPreloads
  <2>2. AsrFlags'
    BY <1>3 DEF AsrPreloads
  <2>3. AsrPreloadFirst' /\ AsrWorks' /\ AsrRoom'
    BY <1>3 DEF AsrPreloads
  <2>4. QED
    BY <2>1, <2>2, <2>3
<1>4. CASE AsrPreloaded
  <2>1. AsrNumbers' /\ AsrPlaces'
    BY <1>4 DEF AsrPreloaded
  <2>2. AsrFlags'
    BY <1>4 DEF AsrPreloaded
  <2>3. AsrPreloadFirst' /\ AsrWorks' /\ AsrRoom'
    BY <1>4 DEF AsrPreloaded
  <2>4. QED
    BY <2>1, <2>2, <2>3
<1>5. CASE AsrEnable
  BY <1>5 DEF AsrEnable
<1>6. CASE AsrAwaitsPreload
  BY <1>6 DEF AsrAwaitsPreload
<1>7. CASE AsrInitialized
  BY <1>7 DEF AsrInitialized
<1>8. CASE AsrStart
  BY <1>8 DEF AsrStart
<1>9. CASE AsrStarted
  BY <1>9 DEF AsrStarted
<1>10. CASE AsrDisable
  <2>1. AsrNumbers' /\ AsrPlaces' /\ AsrFlags'
    BY <1>10 DEF AsrDisable
  <2>2. AsrPreloadFirst' /\ AsrWorks' /\ AsrRoom'
    BY <1>10 DEF AsrDisable
  <2>3. QED
    BY <2>1, <2>2
<1>11. CASE AsrStops
  BY <1>11 DEF AsrStops
<1>12. CASE AsrShutDown
  BY <1>12 DEF AsrShutDown
<1>13. CASE AsrRegister
  BY <1>13 DEF AsrRegister
<1>14. CASE AsrMakesRoom
  BY <1>14 DEF AsrMakesRoom
<1>15. CASE AsrFeeds
  <2>1. AsrNumbers' /\ AsrPlaces'
    BY <1>15 DEF AsrFeeds
  <2>2. AsrFlags'
    BY <1>15 DEF AsrFeeds
  <2>3. AsrPreloadFirst' /\ AsrWorks' /\ AsrRoom'
    BY <1>15 DEF AsrFeeds
  <2>4. QED
    BY <2>1, <2>2, <2>3
<1>16. CASE AsrLoads
  BY <1>16 DEF AsrLoads
<1>17. CASE AsrReports
  BY <1>17 DEF AsrReports
<1>18. CASE AsrDropsStale
  BY <1>18 DEF AsrDropsStale
<1>19. CASE AsrRecognises
  BY <1>19 DEF AsrRecognises
<1>20. CASE AsrWorkerEnds
  BY <1>20 DEF AsrWorkerEnds
<1>21. CASE UNCHANGED AsrVars
  BY <1>21 DEF AsrVars
<1>22. QED
  BY <1>1, <1>2, <1>3, <1>4, <1>5, <1>6, <1>7, <1>8, <1>9, <1>10, <1>11,
     <1>12, <1>13, <1>14, <1>15, <1>16, <1>17, <1>18, <1>19, <1>20, <1>21
     DEF AsrNext, AsrUiMoves, AsrPreloadMoves, AsrWorkerMoves

(* It implies what is claimed.                                             *)
LEMMA AsrSafe == AsrIInv => AsrTypeOK /\ AsrOwned
<1> SUFFICES ASSUME AsrIInv PROVE AsrTypeOK /\ AsrOwned
  OBVIOUS
<1>1. AsrTypeOK
  BY DEF AsrIInv, AsrNumbers, AsrPlaces, AsrFlags, AsrTypeOK
<1>2. AsrOwned
  BY DEF AsrIInv, AsrPlaces, AsrFlags, AsrPreloadFirst, AsrWorks, AsrOwned
<1>3. QED
  BY <1>1, <1>2

(* No thread is destroyed while it may run, the engine is not loaded by    *)
(* two threads at once, and a recognition that is off has no worker        *)
(* (ASRPipeline).                                                          *)
THEOREM RecognitionSafety ==
  AsrSpec => [](AsrTypeOK /\ AsrOwned)
BY AsrInitIInv, AsrNextIInv, AsrSafe, PTL DEF AsrSpec

-----------------------------------------------------------------------------
(* RealtimeVSRPipeline.                                                    *)

VsrPlaces ==
  /\ vsrRunning \in BOOLEAN /\ vsrStop \in BOOLEAN /\ vsrPaused \in BOOLEAN
  /\ vsrPc \in [VsrThreads -> {"none", "loop", "work", "infer", "push",
       "flush", "ended"}]
  /\ vsrDown \in BOOLEAN /\ vsrCooled \in BOOLEAN
  /\ vsrBreaker \in {"Active", "CircuitOpen", "Probing"}
  /\ vsrUi \in {"idle", "shutdown", "join"}

VsrNumbers == vsrSlow \in 0 .. VsrSlowFrames - 1 /\ vsrCalls \in 0 .. VsrCalls

(* The VSR stage has a frame in hand between its pop and its push.         *)
VsrHolds == vsrHand # <<>> => vsrPc["vsr"] \in {"infer", "push"}

(* What is shown is behind the queue to the renderer, this behind the      *)
(* frame in hand, this behind the queue to the VSR stage; none is new.     *)
VsrQueues ==
  /\ vsrIn \in Seq(Int) /\ Len(vsrIn) <= VsrInputCap
  /\ vsrOut \in Seq(Int) /\ Len(vsrOut) <= VsrOutputCap
  /\ vsrHand \in Seq(Int) /\ Len(vsrHand) <= 1
VsrBounds ==
  /\ vsrNext \in 0 .. VsrFrames /\ vsrShown \in 0 .. VsrFrames
  /\ vsrShown <= vsrNext
  /\ \A x \in Inside(vsrIn) \cup Inside(vsrOut) \cup Inside(vsrHand) : x \in 1 .. vsrNext
VsrOrder ==
  /\ Rising(vsrIn) /\ Rising(vsrOut) /\ Rising(vsrHand)
  /\ Ahead({vsrShown}, Inside(vsrOut)) /\ Ahead({vsrShown}, Inside(vsrHand))
  /\ Ahead({vsrShown}, Inside(vsrIn)) /\ Ahead(Inside(vsrOut), Inside(vsrHand))
  /\ Ahead(Inside(vsrOut), Inside(vsrIn))
       /\ Ahead(Inside(vsrHand), Inside(vsrIn))

VsrIInv == VsrPlaces /\ VsrNumbers /\ VsrReleases /\ VsrOwned /\ VsrHolds
           /\ VsrQueues /\ VsrBounds /\ VsrOrder

(* The constants, one by one.                                              *)
LEMMA VsrPositive ==
  /\ VsrFrames \in Nat /\ VsrCalls \in Nat
  /\ VsrInputCap \in Nat /\ VsrInputCap > 0
  /\ VsrOutputCap \in Nat /\ VsrOutputCap > 0
  /\ VsrSlowFrames \in Nat /\ VsrSlowFrames > 0
  BY VsrAssumption

(* What a measured frame does to the breaker.                              *)
LEMMA VsrMeasures ==
  ASSUME vsrBreaker \in {"Active", "Probing"},
           vsrSlow \in 0 .. VsrSlowFrames - 1,
         vsrCooled \in BOOLEAN, vsrBreaker = "Probing" => vsrCooled,
         UNCHANGED vsrSwitch \/ \E slow \in BOOLEAN : VsrBreaks(slow)
  PROVE  /\ vsrBreaker' \in {"Active", "CircuitOpen", "Probing"}
         /\ vsrSlow' \in 0 .. VsrSlowFrames - 1 /\ vsrCooled' \in BOOLEAN
         /\ vsrBreaker' = "Probing" => vsrCooled'
<1> USE VsrPositive
<1>1. CASE UNCHANGED vsrSwitch
  BY <1>1 DEF vsrSwitch
<1>2. ASSUME NEW slow \in BOOLEAN, VsrBreaks(slow)
      PROVE  /\ vsrBreaker' \in {"Active", "CircuitOpen", "Probing"}
             /\ vsrSlow' \in 0 .. VsrSlowFrames - 1 /\ vsrCooled' \in BOOLEAN
             /\ vsrBreaker' = "Probing" => vsrCooled'
  <2>1. CASE vsrBreaker = "Active" /\ slow /\ vsrSlow + 1 >= VsrSlowFrames
    <3>1. ~(vsrSlow + 1 < VsrSlowFrames)
      BY <2>1
    <3>2. vsrBreaker' = "CircuitOpen" /\ vsrCooled' = FALSE /\ vsrSlow' = 0
      BY <1>2, <2>1, <3>1, Zenon DEF VsrBreaks
    <3>3. vsrCooled' \in BOOLEAN
      BY <3>2, Zenon
    <3>4. vsrSlow' \in 0 .. VsrSlowFrames - 1
      BY <3>2
    <3>5. QED
      BY <3>2, <3>3, <3>4, Zenon
  <2>2. CASE vsrBreaker = "Active" /\ slow /\ vsrSlow + 1 < VsrSlowFrames
    <3>1. vsrSlow' = vsrSlow + 1 /\ UNCHANGED <<vsrBreaker, vsrCooled>>
      BY <1>2, <2>2 DEF VsrBreaks
    <3>2. QED
      BY <2>2, <3>1
  <2>3. CASE vsrBreaker = "Active" /\ ~slow
    <3>1. vsrSlow' = 0 /\ UNCHANGED <<vsrBreaker, vsrCooled>>
      BY <1>2, <2>3 DEF VsrBreaks
    <3>2. QED
      BY <3>1
  <2>4. CASE vsrBreaker = "Probing"
    <3>1. /\ vsrBreaker' = IF slow THEN "CircuitOpen" ELSE "Active"
          /\ vsrCooled' = (vsrCooled /\ ~slow) /\ UNCHANGED vsrSlow
      BY <1>2, <2>4 DEF VsrBreaks
    <3>2. CASE slow
      BY <3>1, <3>2
    <3>3. CASE ~slow
      BY <3>1, <3>3
    <3>4. QED
      BY <3>2, <3>3
  <2>5. QED
    BY <2>1, <2>2, <2>3, <2>4
<1>3. QED
  BY <1>1, <1>2

(* It holds at first ...                                                   *)
LEMMA VsrInitIInv == VsrInit => VsrIInv
<1> SUFFICES ASSUME VsrInit PROVE VsrIInv
  OBVIOUS
<1> USE VsrPositive DEF VsrInit
<1>1. VsrPlaces /\ VsrNumbers /\ VsrReleases /\ VsrOwned /\ VsrHolds
  <2>1. VsrPlaces /\ VsrOwned /\ VsrHolds
    BY DEF VsrPlaces, VsrOwned, VsrHolds, VsrThreads
  <2>2. VsrNumbers
    BY DEF VsrNumbers
  <2>3. VsrReleases
    BY DEF VsrReleases, VsrThreads
  <2>4. QED
    BY <2>1, <2>2, <2>3
<1>2. VsrQueues
  BY DEF VsrQueues
<1>3. VsrBounds /\ VsrOrder
  BY OfEmpty DEF VsrBounds, VsrOrder, Ahead
<1>4. QED
  BY <1>1, <1>2, <1>3 DEF VsrIInv

(* The end of an inference.                                                *)
LEMMA VsrNextInfers ==
  VsrIInv /\ VsrInfers =>
    VsrPlaces' /\ VsrNumbers' /\ VsrReleases' /\ VsrOwned' /\ VsrHolds'
<1> SUFFICES ASSUME VsrIInv, VsrInfers
             PROVE  VsrPlaces' /\ VsrNumbers' /\ VsrReleases'
                      /\ VsrOwned' /\ VsrHolds'
  OBVIOUS
<1> USE DEF VsrIInv, vsrControl, vsrFlow
<1>1. /\ vsrBreaker' \in {"Active", "CircuitOpen", "Probing"}
      /\ vsrSlow' \in 0 .. VsrSlowFrames - 1 /\ vsrCooled' \in BOOLEAN
      /\ vsrBreaker' = "Probing" => vsrCooled'
  <2>1. vsrBreaker \in {"Active", "Probing"}
          /\ (vsrBreaker = "Probing" => vsrCooled)
    BY DEF VsrInfers, VsrReleases, VsrPlaces
  <2>2. vsrSlow \in 0 .. VsrSlowFrames - 1 /\ vsrCooled \in BOOLEAN
    BY DEF VsrNumbers, VsrPlaces
  <2>3. UNCHANGED vsrSwitch \/ \E slow \in BOOLEAN : VsrBreaks(slow)
    BY DEF VsrInfers
  <2>4. QED
    BY <2>1, <2>2, <2>3, VsrMeasures
<1>2. /\ vsrPc' = [vsrPc EXCEPT !["vsr"] = "push"] /\ vsrUsed' = vsrUsed - 1
      /\ UNCHANGED <<vsrControl, vsrHand>> /\ vsrPc["vsr"] = "infer"
  BY DEF VsrInfers, VsrGo
<1>3. VsrPlaces' /\ VsrNumbers'
  BY <1>1, <1>2 DEF VsrPlaces, VsrNumbers, VsrThreads
<1>4. VsrReleases'
  BY <1>1, <1>2 DEF VsrPlaces, VsrReleases, VsrThreads
<1>5. VsrOwned' /\ VsrHolds'
  BY <1>2 DEF VsrPlaces, VsrOwned, VsrHolds, VsrThreads
<1>6. QED
  BY <1>3, <1>4, <1>5

(* The threads, the breaker and the memory: every step keeps what is said  *)
(* of them, ...                                                            *)
LEMMA VsrNextRest ==
  VsrIInv /\ [VsrNextStep]_VsrVars =>
    VsrPlaces' /\ VsrNumbers' /\ VsrReleases' /\ VsrOwned' /\ VsrHolds'
<1> SUFFICES ASSUME VsrIInv, [VsrNextStep]_VsrVars
             PROVE  VsrPlaces' /\ VsrNumbers' /\ VsrReleases'
                      /\ VsrOwned' /\ VsrHolds'
  OBVIOUS
<1> USE VsrPositive
    DEF VsrIInv, VsrPlaces, VsrNumbers, VsrReleases, VsrOwned, VsrHolds,
    vsrFlow,
        vsrControl, vsrSwitch, VsrThreads, VsrGo
<1> VsrInfers
      => VsrPlaces' /\ VsrNumbers' /\ VsrReleases' /\ VsrOwned' /\ VsrHolds'
  BY VsrNextInfers
<1>1. CASE VsrStart
  <2>1. VsrPlaces'
    BY <1>1 DEF VsrStart
  <2>2. VsrNumbers'
    BY <1>1 DEF VsrStart
  <2>3. VsrReleases'
    BY <1>1 DEF VsrStart
  <2>4. VsrOwned' /\ VsrHolds'
    BY <1>1 DEF VsrStart
  <2>5. QED
    BY <2>1, <2>2, <2>3, <2>4
<1>2. CASE VsrPause \/ VsrResume \/ VsrFlush
  <2>1. VsrPlaces'
    BY <1>2 DEF VsrPause, VsrResume, VsrFlush
  <2>2. VsrNumbers'
    BY <1>2 DEF VsrPause, VsrResume, VsrFlush
  <2>3. VsrReleases'
    BY <1>2 DEF VsrPause, VsrResume, VsrFlush
  <2>4. VsrOwned' /\ VsrHolds'
    BY <1>2 DEF VsrPause, VsrResume, VsrFlush
  <2>5. QED
    BY <2>1, <2>2, <2>3, <2>4
<1>3. CASE VsrStop \/ VsrCools
  BY ZenonT(30), <1>3 DEF VsrStop, VsrCools
<1>4. CASE VsrShutsDown \/ VsrJoins
  <2>1. VsrPlaces'
    BY <1>4 DEF VsrShutsDown, VsrJoins
  <2>2. VsrNumbers'
    BY <1>4 DEF VsrShutsDown, VsrJoins
  <2>3. VsrReleases'
    BY <1>4 DEF VsrShutsDown, VsrJoins
  <2>4. VsrOwned' /\ VsrHolds'
    BY <1>4 DEF VsrShutsDown, VsrJoins
  <2>5. QED
    BY <2>1, <2>2, <2>3, <2>4
<1>5. CASE (\E t \in VsrThreads : VsrLoops(t))
  BY <1>5 DEF VsrLoops
<1>6. CASE (\E t \in VsrThreads : VsrNothing(t))
  BY <1>6 DEF VsrNothing
<1>7. CASE VsrDecodes
  BY <1>7 DEF VsrDecodes
<1>8. CASE VsrSkips
  BY <1>8 DEF VsrSkips
<1>9. CASE VsrTakes
  BY <1>9 DEF VsrTakes
<1>10. CASE VsrPushes
  BY <1>10 DEF VsrPushes
<1>11. CASE VsrFlushes \/ VsrPresents
  BY <1>11 DEF VsrFlushes, VsrPresents
<1>12. CASE UNCHANGED VsrVars
  BY <1>12 DEF VsrVars
<1>13. QED
  BY <1>1, <1>2, <1>3, <1>4, <1>5, <1>6, <1>7, <1>8, <1>9, <1>10, <1>11,
     <1>12 DEF VsrNextStep, VsrUiMoves, VsrDecodeMoves, VsrVsrMoves,
     VsrRenderMoves

(* ... and of the frames.                                                  *)
LEMMA VsrNextFlow ==
  VsrIInv /\ [VsrNextStep]_VsrVars => VsrQueues' /\ VsrBounds' /\ VsrOrder'
<1> SUFFICES ASSUME VsrIInv, [VsrNextStep]_VsrVars
             PROVE  VsrQueues' /\ VsrBounds' /\ VsrOrder'
  OBVIOUS
<1> USE VsrPositive DEF VsrIInv, vsrFlow, vsrControl, vsrSwitch
<1>e. Inside(<<>>) = {} /\ Rising(<<>>)
  BY OfEmpty
<1>1. CASE VsrStart \/ VsrFlush
  <2>1. vsrIn' = <<>> /\ vsrOut' = <<>>
          /\ UNCHANGED <<vsrHand, vsrNext, vsrShown>>
    BY <1>1 DEF VsrStart, VsrFlush
  <2>2. VsrQueues'
    BY <2>1 DEF VsrQueues
  <2>3. VsrBounds' /\ VsrOrder'
    BY <2>1, <1>e DEF VsrBounds, VsrOrder, Ahead
  <2>4. QED
    BY <2>2, <2>3
<1>2. CASE VsrDecodes
  <2> DEFINE rest == IF Len(vsrIn) >= VsrInputCap THEN Tail(vsrIn) ELSE vsrIn
  <2>1. /\ vsrIn' = Append(rest, vsrNext + 1) /\ vsrNext' = vsrNext + 1
        /\ vsrNext < VsrFrames /\ UNCHANGED <<vsrOut, vsrHand, vsrShown>>
    BY <1>2 DEF VsrDecodes
  <2>2. /\ rest \in Seq(Int) /\ Len(rest) + 1 <= VsrInputCap
        /\ Inside(rest) \subseteq Inside(vsrIn) /\ Rising(rest)
    <3>1. CASE Len(vsrIn) >= VsrInputCap
      <4>1. vsrIn # <<>>
        BY <3>1 DEF VsrQueues
      <4>2. /\ Tail(vsrIn) \in Seq(Int) /\ Len(Tail(vsrIn)) = Len(vsrIn) - 1
            /\ Inside(Tail(vsrIn)) \subseteq Inside(vsrIn)
                 /\ Rising(Tail(vsrIn))
        BY <4>1, OfTail DEF VsrQueues, VsrOrder
      <4>3. Len(vsrIn) \in Nat
        BY DEF VsrQueues
      <4>4. rest = Tail(vsrIn)
        BY <3>1
      <4> HIDE DEF rest
      <4>5. QED
        BY <4>2, <4>3, <4>4 DEF VsrQueues
    <3>2. CASE ~(Len(vsrIn) >= VsrInputCap)
      <4>1. Len(vsrIn) \in Nat /\ rest = vsrIn
        BY <3>2 DEF VsrQueues
      <4> HIDE DEF rest
      <4>2. QED
        BY <3>2, <4>1 DEF VsrQueues, VsrOrder
    <3>3. QED
      BY <3>1, <3>2
  <2> HIDE DEF rest
  <2>3. vsrNext + 1 \in Int
    BY DEF VsrBounds
  <2>4. /\ vsrIn' \in Seq(Int) /\ Len(vsrIn') = Len(rest) + 1
        /\ Inside(vsrIn') = Inside(rest) \cup {vsrNext + 1}
        /\ Rising(vsrIn') <=> Rising(rest)
             /\ Ahead(Inside(rest), {vsrNext + 1})
    BY <2>1, <2>2, <2>3, OfAppend
  <2>5. VsrQueues'
    BY <2>1, <2>2, <2>4 DEF VsrQueues
  <2>6. VsrBounds'
    BY <2>1, <2>2, <2>4 DEF VsrBounds
  <2>7. Rising(vsrIn')
    BY <2>2, <2>4 DEF VsrBounds, Ahead
  <2>8. VsrOrder'
    BY <2>1, <2>2, <2>4, <2>7 DEF VsrOrder, VsrBounds, Ahead
  <2>9. QED
    BY <2>5, <2>6, <2>8
<1>3. CASE VsrSkips
  <2>1. CASE vsrIn # <<>> /\ vsrIn' = Tail(vsrIn) /\ vsrOut' = vsrOut
    <3>1. UNCHANGED <<vsrHand, vsrNext, vsrShown>>
      BY <1>3 DEF VsrSkips
    <3>2. /\ vsrIn' \in Seq(Int) /\ Len(vsrIn') = Len(vsrIn) - 1
          /\ Inside(vsrIn') \subseteq Inside(vsrIn) /\ Rising(vsrIn')
      BY <2>1, OfTail DEF VsrQueues, VsrOrder
    <3>3. QED
      BY <2>1, <3>1, <3>2 DEF VsrQueues, VsrBounds, VsrOrder, Ahead
  <2>2. CASE vsrOut # <<>> /\ vsrOut' = Tail(vsrOut) /\ vsrIn' = vsrIn
    <3>1. UNCHANGED <<vsrHand, vsrNext, vsrShown>>
      BY <1>3 DEF VsrSkips
    <3>2. /\ vsrOut' \in Seq(Int) /\ Len(vsrOut') = Len(vsrOut) - 1
          /\ Inside(vsrOut') \subseteq Inside(vsrOut) /\ Rising(vsrOut')
      BY <2>2, OfTail DEF VsrQueues, VsrOrder
    <3>3. QED
      BY <2>2, <3>1, <3>2 DEF VsrQueues, VsrBounds, VsrOrder, Ahead
  <2>3. QED
    BY <1>3, <2>1, <2>2 DEF VsrSkips
<1>4. CASE VsrTakes
  <2>1. /\ vsrIn # <<>> /\ vsrHand' = <<Head(vsrIn)>> /\ vsrIn' = Tail(vsrIn)
        /\ UNCHANGED <<vsrOut, vsrNext, vsrShown>>
    BY <1>4 DEF VsrTakes
  <2> DEFINE h == Head(vsrIn)
  <2>2. /\ h \in Int /\ vsrIn' \in Seq(Int) /\ Len(vsrIn') = Len(vsrIn) - 1
        /\ Inside(vsrIn) = {h} \cup Inside(vsrIn') /\ Rising(vsrIn')
        /\ Ahead({h}, Inside(vsrIn'))
    BY <2>1, OfTail DEF VsrQueues, VsrOrder
  <2>3. vsrHand' = <<h>>
    BY <2>1
  <2> HIDE DEF h
  <2>4. Inside(vsrHand') = {h} /\ Rising(vsrHand')
    BY <2>2, <2>3, OfOne
  <2>5. vsrHand' \in Seq(Int) /\ Len(vsrHand') = 1
    BY <2>2, <2>3
  <2>6. VsrQueues'
    BY <2>1, <2>2, <2>5 DEF VsrQueues
  <2>7. VsrBounds'
    BY <2>1, <2>2, <2>4 DEF VsrBounds
  <2>8. VsrOrder'
    BY <2>1, <2>2, <2>4 DEF VsrOrder, Ahead
  <2>9. QED
    BY <2>6, <2>7, <2>8
<1>5. CASE VsrPushes
  <2>1. /\ vsrHand' = <<>> /\ UNCHANGED <<vsrIn, vsrNext, vsrShown>>
        /\ vsrOut' = IF vsrDown THEN vsrOut ELSE vsrOut \o vsrHand
        /\ vsrDown \/ Len(vsrOut) < VsrOutputCap
    BY <1>5 DEF VsrPushes
  <2>2. CASE vsrDown
    <3>1. vsrOut' = vsrOut
      BY <2>1, <2>2
    <3>2. VsrQueues'
      BY <2>1, <3>1 DEF VsrQueues
    <3>3. VsrBounds' /\ VsrOrder'
      BY <2>1, <3>1, <1>e DEF VsrBounds, VsrOrder, Ahead
    <3>4. QED
      BY <3>2, <3>3
  <2>3. CASE ~vsrDown
    <3>1. vsrOut' = vsrOut \o vsrHand /\ Len(vsrOut) < VsrOutputCap
      BY <2>1, <2>3
    <3>2. /\ vsrOut' \in Seq(Int) /\ Len(vsrOut') = Len(vsrOut) + Len(vsrHand)
          /\ Inside(vsrOut') = Inside(vsrOut) \cup Inside(vsrHand)
          /\ Rising(vsrOut')
      BY <3>1, OfConcat DEF VsrQueues, VsrOrder
    <3>3. VsrQueues'
      <4>1. Len(vsrOut) \in Nat /\ Len(vsrHand) \in Nat
        BY DEF VsrQueues
      <4>2. QED
        BY <2>1, <3>1, <3>2, <4>1 DEF VsrQueues
    <3>4. VsrBounds' /\ VsrOrder'
      BY <2>1, <3>2, <1>e DEF VsrBounds, VsrOrder, Ahead
    <3>5. QED
      BY <3>3, <3>4
  <2>4. QED
    BY <2>2, <2>3
<1>6. CASE VsrPresents
  <2>1. /\ vsrOut # <<>> /\ vsrShown' = Head(vsrOut) /\ vsrOut' = Tail(vsrOut)
        /\ UNCHANGED <<vsrIn, vsrHand, vsrNext>>
    BY <1>6 DEF VsrPresents
  <2>2. /\ vsrShown' \in Int /\ vsrOut' \in Seq(Int)
             /\ Len(vsrOut') = Len(vsrOut) - 1
        /\ Inside(vsrOut) = {vsrShown'} \cup Inside(vsrOut') /\ Rising(vsrOut')
        /\ Ahead({vsrShown'}, Inside(vsrOut'))
    BY <2>1, OfTail DEF VsrQueues, VsrOrder
  <2>3. VsrQueues'
    BY <2>1, <2>2 DEF VsrQueues
  <2>4. VsrBounds'
    BY <2>1, <2>2 DEF VsrBounds
  <2>5. VsrOrder'
    BY <2>1, <2>2 DEF VsrOrder, Ahead
  <2>6. QED
    BY <2>3, <2>4, <2>5
<1>7. CASE UNCHANGED vsrFlow
  BY <1>7 DEF VsrQueues, VsrBounds, VsrOrder
<1>8. CASE VsrPause \/ VsrResume \/ VsrStop \/ VsrCools \/ VsrUiMoves
  BY <1>7, <1>8 DEF VsrPause, VsrResume, VsrStop, VsrCools, VsrUiMoves,
     VsrShutsDown, VsrJoins
<1>9. CASE VsrInfers \/ VsrFlushes \/ (\E t \in VsrThreads : VsrLoops(t) \/ VsrNothing(t))
  BY <1>7, <1>9 DEF VsrInfers, VsrFlushes, VsrLoops, VsrNothing
<1>10. QED
  BY <1>1, <1>2, <1>3, <1>4, <1>5, <1>6, <1>7, <1>8, <1>9
     DEF VsrNextStep, VsrDecodeMoves, VsrVsrMoves, VsrRenderMoves, VsrVars,
     VsrThreads


(* ... and every step keeps it, action by action.                          *)
LEMMA VsrNextIInv == VsrIInv /\ [VsrNextStep]_VsrVars => VsrIInv'
  BY VsrNextFlow, VsrNextRest DEF VsrIInv

(* It implies what is claimed.                                             *)
LEMMA VsrSafe == VsrIInv => VsrTypeOK /\ VsrOwned /\ VsrInOrder /\ VsrReleases
<1> SUFFICES ASSUME VsrIInv PROVE VsrTypeOK /\ VsrInOrder
  BY DEF VsrIInv
<1> USE VsrPositive DEF VsrIInv
<1>1. VsrTypeOK
  <2>1. /\ vsrIn \in Seq(1 .. VsrFrames) /\ vsrOut \in Seq(1 .. VsrFrames)
        /\ vsrHand \in Seq(1 .. VsrFrames)
    <3>1. /\ Inside(vsrIn) \subseteq 1 .. VsrFrames
               /\ Inside(vsrOut) \subseteq 1 .. VsrFrames
          /\ Inside(vsrHand) \subseteq 1 .. VsrFrames
      BY DEF VsrBounds
    <3>2. QED
      BY <3>1, OfFrames DEF VsrQueues
  <2>2. vsrUsed \in Nat
    BY DEF VsrReleases
  <2>3. QED
    BY <2>1, <2>2 DEF VsrTypeOK, VsrPlaces, VsrNumbers, VsrQueues, VsrBounds
<1>2. VsrInOrder
  <2> DEFINE s == <<vsrShown>>
             a == s \o vsrOut
             b == a \o vsrHand
             c == b \o vsrIn
  <2>1. s \in Seq(Int) /\ Inside(s) = {vsrShown} /\ Rising(s)
    <3>1. vsrShown \in Int
      BY DEF VsrBounds
    <3>2. QED
      BY <3>1, OfOne
  <2>s. Len(s) = 1 /\ s[1] = vsrShown
    OBVIOUS
  <2> HIDE DEF s
  <2>2. a \in Seq(Int) /\ Inside(a) = {vsrShown} \cup Inside(vsrOut)
          /\ Rising(a)
    BY ZenonT(30), <2>1, OfConcat DEF VsrQueues, VsrOrder
  <2> HIDE DEF a
  <2>3. /\ b \in Seq(Int) /\ Inside(b) = Inside(a) \cup Inside(vsrHand)
        /\ Rising(b) <=> Rising(a) /\ Rising(vsrHand)
             /\ Ahead(Inside(a), Inside(vsrHand))
    BY <2>2, OfConcat DEF VsrQueues
  <2>4. Rising(b)
    BY <2>2, <2>3 DEF VsrOrder, Ahead
  <2> HIDE DEF b
  <2>5. /\ c \in Seq(Int) /\ Inside(c) = Inside(b) \cup Inside(vsrIn)
        /\ Rising(c) <=> Rising(b) /\ Rising(vsrIn)
             /\ Ahead(Inside(b), Inside(vsrIn))
    BY <2>3, OfConcat DEF VsrQueues
  <2>6. Rising(c)
    BY <2>2, <2>3, <2>4, <2>5 DEF VsrOrder, Ahead
  <2>7. (\A j \in 2 .. Len(c) : c[j] > 0) /\ c[1] = vsrShown
    <3> DEFINE r == (vsrOut \o vsrHand) \o vsrIn
    <3>1. c = s \o r
      BY SMTT(30) DEF VsrQueues, a, b, s
    <3>2. r \in Seq(Int) /\ \A x \in Inside(r) : x > 0
      <4>1. /\ vsrOut \o vsrHand \in Seq(Int)
            /\ Inside(vsrOut \o vsrHand) = Inside(vsrOut) \cup Inside(vsrHand)
        BY OfConcat DEF VsrQueues
      <4>2. r \in Seq(Int)
              /\ Inside(r)
                   = Inside(vsrOut) \cup Inside(vsrHand) \cup Inside(vsrIn)
        BY <4>1, OfConcat DEF VsrQueues
      <4> HIDE DEF r
      <4>3. QED
        BY <4>2 DEF VsrBounds
    <3> HIDE DEF r, c
    <3>3. s \in Seq(Int) /\ r \in Seq(Int)
      BY <2>1, <3>2
    <3>4. c[1] = s[1] /\ \A j \in 2 .. Len(c) : j - 1 \in 1 .. Len(r)
            /\ c[j] = r[j - 1]
      BY <2>s, <3>1, <3>3, OfFirst
    <3>5. \A j \in 1 .. Len(r) : r[j] > 0
      BY <3>2 DEF Inside
    <3>6. QED
      BY <2>s, <3>4, <3>5
  <2>8. \A j \in 1 .. Len(c) : c[j] \in Int
    BY <2>5
  <2>10. c = <<vsrShown>> \o vsrOut \o vsrHand \o vsrIn
    BY DEF a, b, s
  <2> HIDE DEF c
  <2>11. ASSUME NEW i \in 1 .. Len(c), NEW j \in 1 .. Len(c), i < j
         PROVE c[i] < c[j]
    <3>1. Len(c) \in Nat /\ j \in 2 .. Len(c)
      BY <2>5, <2>11
    <3>2. c[j] > 0 /\ c[i] \in Int /\ c[j] \in Int
      BY <3>1, <2>7, <2>8
    <3>3. CASE c[i] > 0
      BY <2>6, <2>11, <3>2, <3>3 DEF Rising
    <3>4. CASE ~(c[i] > 0)
      BY <3>2, <3>4
    <3>5. QED
      BY <3>3, <3>4
  <2>12. QED
    BY <2>10, <2>11 DEF VsrInOrder
<1>3. QED
  BY <1>1, <1>2

(* Frames are shown in their order whatever is dropped, the memory of a    *)
(* frame is given back, and a pipeline that is stopped has no thread       *)
(* (RealtimeVSRPipeline).                                                  *)
THEOREM ResolutionSafety ==
  VsrSpec => [](VsrTypeOK /\ VsrOwned /\ VsrInOrder /\ VsrReleases)
BY VsrInitIInv, VsrNextIInv, VsrSafe, PTL DEF VsrSpec

-----------------------------------------------------------------------------
(* PlayerFacade.                                                           *)

(* Who has apiMutex: the client in a call that waits, or a loop in its     *)
(* callback.                                                               *)
FacHolds ==
  /\ facHolder = -1 <=> facClient # "idle"
  /\ \A l \in FacLoops :
       facHolder = l <=> facLoop[l] \in {"deliver", "join", "show"}

(* The state and the demuxer's: an error leaves the first before it stops  *)
(* the second.  A player that plays has its loop, until one that opened    *)
(* the media again in vain has left.                                       *)
FacStates ==
  /\ facState \in {"Idle", "ResolvingURL"} => facDemux = "Idle"
  /\ facState = "Prepared" => facDemux = "Prepared"
  /\ \A l \in FacLoops :
       facLoop[l] = "join" => facState \notin {"Prepared", "Playing", "Paused"}
  /\ facState \in {"Playing", "Paused"} /\ facClient \in {"idle", "seek"} =>
       facDemux = "Playing" /\ ~facStop /\ (FacRunning # {} \/ ~facMedia)

(* Which loop there is, while none has detached itself.                    *)
FacLives ==
  ~facDetached =>
    /\ FacRunning \subseteq {facThread}
    /\ facDemux # "Playing" => FacRunning = {}

FacNumbers ==
  /\ facHolder \in {-1, 0} \cup FacLoops /\ facThread \in {0} \cup FacLoops
  /\ facCalls \in 0 .. FacCalls
FacPlaces ==
  /\ facState \in {"Idle", "ResolvingURL", "Prepared", "Playing", "Paused",
                   "End", "Error"}
  /\ facClient \in {"idle", "reopen", "stop", "seek"}
  /\ facDemux \in {"Idle", "Prepared", "Playing"}
  /\ facLoop \in [FacLoops -> {"over", "top", "packet", "broken", "eof",
                               "deliver", "join", "parked", "probe", "show",
                               "reopened"}]
FacFlags ==
  /\ facStop \in BOOLEAN /\ facSeek \in BOOLEAN /\ facDone \in BOOLEAN
  /\ facMedia \in BOOLEAN /\ facEof \in BOOLEAN /\ facDetached \in BOOLEAN

FacIInv == FacNumbers /\ FacPlaces /\ FacFlags /\ FacHolds /\ FacStates
  /\ FacLives

(* It holds at first ...                                                   *)
LEMMA FacInitIInv == FacInit => FacIInv
<1> SUFFICES ASSUME FacInit PROVE FacIInv
  OBVIOUS
<1> USE FacadeAssumption DEF FacInit
<1>1. FacNumbers
  BY DEF FacNumbers
<1>2. FacPlaces
  BY DEF FacPlaces
<1>3. FacFlags
  BY DEF FacFlags
<1>4. FacHolds
  BY DEF FacHolds, FacLoops
<1>5. FacStates
  BY DEF FacStates, FacLoops
<1>6. FacLives
  BY DEF FacLives, FacRunning
<1>7. QED
  BY <1>1, <1>2, <1>3, <1>4, <1>5, <1>6 DEF FacIInv

(* ... and every step keeps it, action by action.                          *)
LEMMA FacNextIInv == FacIInv /\ [FacNext]_FacVars => FacIInv'
<1> SUFFICES ASSUME FacIInv, [FacNext]_FacVars PROVE FacIInv'
  OBVIOUS
<1> USE FacadeAssumption
    DEF FacIInv, FacNumbers, FacPlaces, FacFlags, FacHolds, FacStates,
        FacLives, FacRunning, FacLoops, facCall, facFlags, facFile, FacGo,
        FacEnters, FacDemuxStop, FacForget, FacCloses, FacAnswers
<1>1. CASE FacOpen
  BY <1>1 DEF FacOpen
<1>2. CASE (\E outcome \in FacOutcomes : FacOpened(outcome))
  <2>1. FacNumbers' /\ FacPlaces' /\ FacFlags'
    BY <1>2 DEF FacOpened, FacOutcomes, FacJoined
  <2>2. FacHolds' /\ FacStates' /\ FacLives'
    BY <1>2 DEF FacOpened, FacOutcomes, FacJoined
  <2>3. QED
    BY <2>1, <2>2
<1>3. CASE FacPlay
  <2>1. FacNumbers' /\ FacPlaces'
    BY <1>3 DEF FacPlay
  <2>2. FacFlags'
    BY <1>3 DEF FacPlay
  <2>3. FacHolds' /\ FacStates' /\ FacLives'
    BY <1>3 DEF FacPlay
  <2>4. QED
    BY <2>1, <2>2, <2>3
<1>4. CASE FacPause
  BY <1>4 DEF FacPause
<1>5. CASE FacStopCalled
  BY <1>5 DEF FacStopCalled
<1>6. CASE FacStopped
  BY <1>6 DEF FacStopped, FacAfterStop, FacJoined
<1>7. CASE FacSeekCalled \/ FacSeekAnswered
  <2>1. FacNumbers' /\ FacPlaces'
    BY <1>7 DEF FacSeekCalled, FacSeekAnswered
  <2>2. FacFlags'
    BY <1>7 DEF FacSeekCalled, FacSeekAnswered
  <2>3. FacHolds' /\ FacStates' /\ FacLives'
    BY <1>7 DEF FacSeekCalled, FacSeekAnswered
  <2>4. QED
    BY <2>1, <2>2, <2>3
<1>8. CASE (\E l \in FacLoops : FacEnds(l))
  BY <1>8 DEF FacEnds
<1>9. CASE (\E l \in FacLoops : FacSeeks(l))
  <2>1. FacNumbers' /\ FacPlaces' /\ FacFlags'
    BY ZenonT(30), <1>9 DEF FacSeeks
  <2>2. FacHolds' /\ FacStates' /\ FacLives'
    BY <1>9 DEF FacSeeks
  <2>3. QED
    BY <2>1, <2>2
<1>10. CASE (\E l \in FacLoops : FacReads(l))
  BY <1>10 DEF FacReads
<1>11. CASE (\E l \in FacLoops : FacDelivers(l))
  BY <1>11 DEF FacDelivers
<1>12. CASE (\E l \in FacLoops : FacDelivered(l))
  BY <1>12 DEF FacDelivered
<1>13. CASE (\E l \in FacLoops : FacFails(l))
  BY <1>13 DEF FacFails
<1>14. CASE (\E l \in FacLoops : FacFailed(l))
  <2>1. FacNumbers' /\ FacPlaces' /\ FacFlags'
    BY <1>14 DEF FacFailed, FacJoined
  <2>2. FacHolds' /\ FacStates'
    BY <1>14 DEF FacFailed, FacJoined
  <2>3. FacLives'
    BY <1>14 DEF FacFailed, FacJoined
  <2>4. QED
    BY <2>1, <2>2, <2>3
<1>15. CASE (\E l \in FacLoops : FacFinishes(l))
  BY <1>15 DEF FacFinishes
<1>16. CASE (\E l \in FacLoops : FacUnparks(l))
  BY <1>16 DEF FacUnparks
<1>17. CASE (\E l \in FacLoops : FacReopens(l) \/ FacReopened(l))
  <2>1. FacNumbers' /\ FacPlaces'
    BY <1>17 DEF FacReopens, FacReopened
  <2>f. FacFlags'
    BY <1>17 DEF FacReopens, FacReopened
  <2>2. FacHolds'
    BY <1>17 DEF FacReopens, FacReopened
  <2>3. FacStates'
    BY <1>17 DEF FacReopens, FacReopened
  <2>4. FacLives'
    BY <1>17 DEF FacReopens, FacReopened
  <2>5. QED
    BY <2>1, <2>f, <2>2, <2>3, <2>4
<1>18. CASE UNCHANGED FacVars
  BY <1>18 DEF FacVars
<1>19. QED
  BY <1>1, <1>2, <1>3, <1>4, <1>5, <1>6, <1>7, <1>8, <1>9, <1>10, <1>11,
     <1>12, <1>13, <1>14, <1>15, <1>16, <1>17, <1>18 DEF FacNext

(* It implies what is claimed.                                             *)
LEMMA FacSafe == FacIInv => FacTypeOK /\ FacOneLoop
  BY DEF FacIInv, FacOneLoop, FacStates, FacLives, FacTypeOK, FacNumbers,
     FacPlaces, FacFlags

(* One loop reads the media, and none after a stop(), unless an error has  *)
(* made a loop detach itself; and a player that says Playing or Paused has *)
(* one, unless a seek behind the end of the media failed to open them      *)
(* again (PlayerFacade).                                                   *)
THEOREM FacadeSafety ==
  FacSpec => [](FacTypeOK /\ FacOneLoop)
BY FacInitIInv, FacNextIInv, FacSafe, PTL DEF FacSpec

=============================================================================
