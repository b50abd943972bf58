------------------------- MODULE MediaQueues_proofs -------------------------
(***************************************************************************)
(* Proofs of the safety of MediaQueues, for every number and size of the   *)
(* packets, every limit of the two queues and every number of calls.       *)
(*                                                                         *)
(* The inductive invariant IInv ties the byte counter to the packets       *)
(* really queued (Bytes), the slots of the ring to its head and count      *)
(* (Filled), the condition variables to the state of the queue (Sleepers)  *)
(* and the hands of the threads to their program points (Threads); Ordered *)
(* says of each two places between the demuxer and the screen that the     *)
(* numbers in the one are below those in the other.  That order needs no   *)
(* more of a step than which item it moves (Way), and the bytes in a queue *)
(* and the frames in a ring are reasoned about once, in lemmas on their    *)
(* own.                                                                    *)
(***************************************************************************)
EXTENDS MediaQueues, SequenceTheorems, WellFoundedInduction, TLAPS

(* A set of naturals that holds 0 and each successor holds them all: the   *)
(* induction principle, from the least number that would not be in it.     *)

LEMMA Induction ==
  ASSUME NEW T, T \subseteq Nat, 0 \in T, \A n \in T : n + 1 \in T
  PROVE  T = Nat
<1> DEFINE R == OpToRel(<, Nat)
           Others == Nat \ T
<1> SUFFICES ASSUME Others # {} PROVE FALSE
  OBVIOUS
<1>1. IsWellFoundedOn(R, Nat)
  BY NatLessThanWellFounded
<1>2. \A x, y \in Nat : y < x => <<y, x>> \in R
  BY DEF OpToRel
<1> HIDE DEF R
<1>3. PICK n \in Others : \A m \in Others : ~ (<<m, n>> \in R)
  BY <1>1, WFMin
<1>4. n # 0 /\ n - 1 \in Nat /\ n - 1 < n
  BY <1>3
<1>5. n - 1 \in T
  BY <1>2, <1>3, <1>4
<1>6. (n - 1) + 1 \in T
  BY <1>5
<1>7. QED
  BY <1>3, <1>4, <1>6

(* The sums of the sizes of the first packets of s.                        *)
Sums(g, s, n) ==
  g = [i \in 0 .. n |-> IF i = 0 THEN 0 ELSE g[i - 1] + Size[s[i]]]

(* Load(s), without its LET.                                               *)
LEMMA LoadIsSum ==
  ASSUME NEW s
  PROVE  Channels!Load(s) = (CHOOSE g : Sums(g, s, Len(s)))[Len(s)]
BY DEF Channels!Load, Sums

(* The recursion of Load defines a function.                               *)
LEMMA SumsExist ==
  ASSUME NEW s \in Seq(Packets)
  PROVE  \A n \in Nat : n <= Len(s) => \E g : Sums(g, s, n)
<1> DEFINE T == {n \in Nat : n <= Len(s) => \E g : Sums(g, s, n)}
<1>1. 0 \in T
  <2> DEFINE g == [i \in 0 .. 0 |-> 0]
  <2>1. Sums(g, s, 0)
    BY DEF Sums
  <2>2. QED
    BY <2>1
<1>2. ASSUME NEW n \in T PROVE n + 1 \in T
  <2> SUFFICES ASSUME n + 1 <= Len(s) PROVE \E g : Sums(g, s, n + 1)
    OBVIOUS
  <2>1. PICK h : Sums(h, s, n)
    OBVIOUS
  <2> DEFINE g == [i \in 0 .. n + 1 |->
                     IF i = 0 THEN 0 ELSE h[i - 1] + Size[s[i]]]
  <2>2. \A i \in 0 .. n : g[i] = h[i]
    BY <2>1 DEF Sums
  <2>3. g = [i \in 0 .. n + 1 |->
               IF i = 0 THEN 0 ELSE h[i - 1] + Size[s[i]]]
    OBVIOUS
  <2> HIDE DEF g
  <2>4. \A i \in 0 .. n + 1 : i # 0 => i - 1 \in 0 .. n
    OBVIOUS
  <2>5. \A i \in 0 .. n + 1 : i # 0 => h[i - 1] = g[i - 1]
    BY <2>2, <2>4
  <2>6. Sums(g, s, n + 1)
    BY <2>3, <2>5 DEF Sums
  <2>7. QED
    BY <2>6
<1>3. T = Nat
  <2> HIDE DEF T
  <2>1. T \subseteq Nat
    BY DEF T
  <2>2. QED
    BY <1>1, <1>2, <2>1, Induction
<1>4. QED
  BY <1>3

(* One step of the recursion.                                              *)
LEMMA SumsStep ==
  ASSUME NEW g, NEW s, NEW n \in Nat, Sums(g, s, n)
  PROVE  /\ g[0] = 0
         /\ \A i \in 1 .. n : g[i] = g[i - 1] + Size[s[i]]
BY DEF Sums

(* A sum of sizes is a natural.                                            *)
LEMMA SumsNat ==
  ASSUME NEW s \in Seq(Packets), NEW n \in 0 .. Len(s), NEW g, Sums(g, s, n)
  PROVE  \A k \in 0 .. n : g[k] \in Nat
<1> DEFINE T == {k \in Nat : k <= n => g[k] \in Nat}
<1>1. 0 \in T
  BY SumsStep
<1>2. ASSUME NEW k \in T PROVE k + 1 \in T
  <2> SUFFICES ASSUME k + 1 <= n PROVE g[k + 1] \in Nat
    OBVIOUS
  <2>1. k + 1 \in 1 .. n /\ (k + 1) - 1 = k /\ g[k] \in Nat
    OBVIOUS
  <2>2. Size[s[k + 1]] \in Nat
    BY <2>1, PacketQueueAssumption DEF PacketQueueAssumption
  <2>3. g[k + 1] = g[k] + Size[s[k + 1]]
    BY <2>1, SumsStep
  <2>4. QED
    BY <2>1, <2>2, <2>3
<1> HIDE DEF T
<1>3. T \subseteq Nat
  BY DEF T
<1>4. T = Nat
  BY <1>1, <1>2, <1>3, Induction
<1>5. QED
  BY <1>4 DEF T

(* The sum over a sequence that begins with d other packets.               *)
LEMMA SumsShift ==
  ASSUME NEW s \in Seq(Packets), NEW m \in 0 .. Len(s), NEW g, Sums(g, s, m),
         NEW t \in Seq(Packets), NEW n \in 0 .. Len(t), NEW h, Sums(h, t, n),
         NEW d \in Nat, d + n <= m,
         \A i \in 1 .. n : t[i] = s[i + d]
  PROVE  g[n + d] = g[d] + h[n]
<1>1. ASSUME NEW k \in Nat, k + 1 <= n, g[k + d] = g[d] + h[k]
      PROVE  g[(k + 1) + d] = g[d] + h[k + 1]
  <2>1. /\ k + 1 \in 1 .. n /\ (k + 1) - 1 = k
        /\ (k + 1) + d \in 1 .. m /\ ((k + 1) + d) - 1 = k + d
        /\ d \in 0 .. m /\ k \in 0 .. n /\ k + 1 \in 1 .. Len(t)
    BY <1>1
  <2>2. t[k + 1] \in Packets
    BY <2>1
  <2>3. Size[t[k + 1]] \in Nat
    BY <2>2, PacketQueueAssumption DEF PacketQueueAssumption
  <2>4. h[k] \in Nat /\ g[d] \in Nat
    BY <2>1, SumsNat
  <2>5. h[k + 1] = h[k] + Size[t[k + 1]]
    BY <2>1, SumsStep
  <2>6. g[(k + 1) + d] = g[((k + 1) + d) - 1] + Size[s[(k + 1) + d]]
    BY <2>1, SumsStep
  <2>7. s[(k + 1) + d] = t[k + 1]
    BY <2>1
  <2>8. g[(k + 1) + d] = g[k + d] + Size[t[k + 1]]
    BY <2>1, <2>6, <2>7
  <2> DEFINE x == Size[t[k + 1]]
             y == h[k]
             z == g[d]
             v == g[k + d]
             w == g[(k + 1) + d]
             u == h[k + 1]
  <2>9. v = z + y /\ u = y + x /\ w = v + x
        /\ x \in Nat /\ y \in Nat /\ z \in Nat
    BY <1>1, <2>3, <2>4, <2>5, <2>8
  <2> HIDE DEF u, v, w, x, y, z
  <2>10. w = z + u
    BY <2>9
  <2>11. QED
    BY <2>10 DEF u, w, z
<1> DEFINE T == {k \in Nat : k <= n => g[k + d] = g[d] + h[k]}
<1>2. 0 \in T
  <2>1. h[0] = 0
    BY SumsStep
  <2>2. d \in 0 .. m
    OBVIOUS
  <2>3. g[d] \in Nat
    BY <2>2, SumsNat
  <2> DEFINE z == g[d]
             y == h[0]
  <2>4. g[0 + d] = z
    OBVIOUS
  <2> HIDE DEF z
  <2>5. z = z + y
    BY <2>1, <2>3 DEF z
  <2>6. QED
    BY <2>4, <2>5 DEF z
<1>3. \A k \in T : k + 1 \in T
  BY <1>1
<1> HIDE DEF T
<1>4. T \subseteq Nat
  BY DEF T
<1>5. T = Nat
  BY <1>2, <1>3, <1>4, Induction
<1>6. QED
  BY <1>5 DEF T

(* Load(s) is the last of the sums.                                        *)
LEMMA LoadOf ==
  ASSUME NEW s \in Seq(Packets)
  PROVE  \E g : Sums(g, s, Len(s)) /\ Channels!Load(s) = g[Len(s)]
<1>1. \E g : Sums(g, s, Len(s))
  BY SumsExist
<1>2. QED
  BY <1>1, LoadIsSum

(* The bytes of an empty queue ...                                         *)
LEMMA LoadEmpty == Channels!Load(<<>>) = 0
<1> <<>> \in Seq(Packets) /\ Len(<<>>) = 0
  OBVIOUS
<1>1. PICK g : Sums(g, <<>>, 0) /\ Channels!Load(<<>>) = g[0]
  BY LoadOf
<1>2. QED
  BY <1>1, SumsStep

(* ... of one that takes a packet ...                                      *)
LEMMA LoadAppend ==
  ASSUME NEW s \in Seq(Packets), NEW p \in Packets
  PROVE  Channels!Load(Append(s, p)) = Channels!Load(s) + Size[p]
<1> DEFINE t == Append(s, p)
           n == Len(s)
<1>1. PICK h : Sums(h, s, n) /\ Channels!Load(s) = h[n]
  BY LoadOf
<1>2. t \in Seq(Packets) /\ Len(t) = n + 1 /\ t[n + 1] = p
      /\ \A i \in 1 .. n : s[i] = t[i + 0]
  OBVIOUS
<1> HIDE DEF t
<1>3. PICK g : Sums(g, t, n + 1) /\ Channels!Load(t) = g[n + 1]
  BY <1>2, LoadOf
<1>4. g[n + 1] = g[n] + Size[p] /\ g[0] = 0
  BY <1>2, <1>3, SumsStep
<1>5. g[n + 0] = g[0] + h[n]
  <2>1. /\ n \in 0 .. Len(s) /\ n + 1 \in 0 .. Len(t)
        /\ 0 \in Nat /\ 0 + n <= n + 1
    BY <1>2
  <2>2. QED
    BY <1>1, <1>2, <1>3, <2>1, SumsShift
<1>6. h[n] \in Nat
  BY <1>1, SumsNat
<1>7. Channels!Load(t) = Channels!Load(s) + Size[p]
  BY <1>1, <1>3, <1>4, <1>5, <1>6
<1>8. QED
  BY <1>7 DEF t

(* ... and of one that gives its first packet back.                        *)
LEMMA LoadTail ==
  ASSUME NEW s \in Seq(Packets), s # <<>>
  PROVE  /\ Channels!Load(s) = Size[Head(s)] + Channels!Load(Tail(s))
         /\ Channels!Load(Tail(s)) \in Nat
<1> DEFINE t == Tail(s)
           n == Len(t)
<1>1. t \in Seq(Packets) /\ Len(s) = n + 1 /\ Head(s) = s[1]
      /\ Head(s) \in Packets /\ \A i \in 1 .. n : t[i] = s[i + 1]
  OBVIOUS
<1> HIDE DEF t
<1>2. PICK h : Sums(h, t, n) /\ Channels!Load(t) = h[n]
  BY <1>1, LoadOf
<1>3. PICK g : Sums(g, s, n + 1) /\ Channels!Load(s) = g[n + 1]
  BY <1>1, LoadOf
<1>4. g[1] = g[0] + Size[Head(s)] /\ g[0] = 0
  BY <1>1, <1>3, SumsStep
<1>5. g[n + 1] = g[1] + h[n]
  BY <1>1, <1>2, <1>3, SumsShift
<1>6. h[n] \in Nat
  BY <1>1, <1>2, SumsNat
<1>7. Size[Head(s)] \in Nat
  BY <1>1, PacketQueueAssumption DEF PacketQueueAssumption
<1>8. QED
  BY <1>2, <1>3, <1>4, <1>5, <1>6, <1>7 DEF t

-----------------------------------------------------------------------------
(* The counter of bytes is what is queued.                                 *)
Bytes == totalBytes = Channels!Load(queue)

(* The slots within the ring's count hold frames.                          *)
Filled == Content \in Seq(Frames)

(* What a thread has in its hands goes with its program point, and a       *)
(* thread that stop() has joined is gone until play() creates the next.    *)
Threads ==
  /\ decode = "push" => decoding \in Packets
  /\ decode = "pushing" => framePushing \in Frames
  /\ demux = "gone" => pushing = None
  /\ api \in {"joinDemux", "flush", "flushFrames", "restart",
              "restartFrames",
                "threads"} => decode = "gone" /\ refresh = "gone"
  /\ api \in {"flush", "flushFrames", "restart", "restartFrames", "threads"}
       => demux = "gone"
  /\ decode = "gone" => ~popAsleep /\ ~framePushAsleep
  /\ refresh = "gone" => ~framePopAsleep

(* A sleeper's reason, with the counter of bytes for the bytes.            *)
Sleepers ==
  /\ pushAsleep => pushing # None /\ Full /\ ~shutdown
  /\ popAsleep => decode = "pop" /\ queue = <<>> /\ ~shutdown
  /\ framePushAsleep => decode = "pushing" /\ ~FrameRoom /\ ~frameShutdown
  /\ framePopAsleep => refresh = "pop" /\ count = 0 /\ ~frameShutdown

(* From the screen to the demuxer the numbers increase, place by place.    *)
Ahead ==
  /\ \A k \in 1 .. Len(Content) : shown < Content[k]
  /\ framePushing \in Packets => shown < framePushing
  /\ decoding \in Packets => shown < decoding
  /\ \A i \in 1 .. Len(queue) : shown < queue[i]
  /\ pushing \in Packets => shown < pushing
  /\ shown < nextRead

RingAhead ==
  \A k \in 1 .. Len(Content) :
    /\ \A l \in 1 .. Len(Content) : k < l => Content[k] < Content[l]
    /\ framePushing \in Packets => Content[k] < framePushing
    /\ decoding \in Packets => Content[k] < decoding
    /\ \A i \in 1 .. Len(queue) : Content[k] < queue[i]
    /\ pushing \in Packets => Content[k] < pushing
    /\ Content[k] < nextRead

HandsAhead ==
  /\ framePushing \in Packets =>
       /\ decoding \in Packets => framePushing < decoding
       /\ \A i \in 1 .. Len(queue) : framePushing < queue[i]
       /\ pushing \in Packets => framePushing < pushing
       /\ framePushing < nextRead
  /\ decoding \in Packets =>
       /\ \A i \in 1 .. Len(queue) : decoding < queue[i]
       /\ pushing \in Packets => decoding < pushing
       /\ decoding < nextRead

QueueAhead ==
  /\ \A i \in 1 .. Len(queue) :
       /\ \A j \in 1 .. Len(queue) : i < j => queue[i] < queue[j]
       /\ pushing \in Packets => queue[i] < pushing
       /\ queue[i] < nextRead
  /\ pushing \in Packets => pushing < nextRead

Ordered == Ahead /\ RingAhead /\ HandsAhead /\ QueueAhead

IInv == TypeOK /\ Bytes /\ Filled /\ Threads /\ Sleepers /\ Ordered

-----------------------------------------------------------------------------
(* The ring is a FIFO.                                                     *)
Wrap(x) == IF x < Capacity THEN x ELSE x - Capacity

RingOf(s, h, n) == [i \in 1 .. n |-> s[Wrap(h + i - 1)]]

RingSlots == [0 .. Capacity - 1 -> Frames \cup {NoFrame}]

(* What % does to an index that is at most once around the ring.           *)
LEMMA Modulo ==
  ASSUME NEW x \in 0 .. 2 * Capacity - 1
  PROVE  x % Capacity = Wrap(x)
BY FrameQueueAssumption, SMT DEF FrameQueueAssumption, Wrap

(* How SMT is told that a function on 1 .. n is a sequence.                *)
LEMMA FunctionIsSequence ==
  ASSUME NEW n \in Nat, NEW S, NEW f \in [1 .. n -> S]
  PROVE  f \in Seq(S) /\ Len(f) = n
<1>1. f \in Seq(S)
  BY SeqDef
<1>2. QED
  BY <1>1

(* A frame put behind the last one; the first frame taken.                 *)
LEMMA RingPush ==
  ASSUME NEW s \in RingSlots, NEW h \in 0 .. Capacity - 1,
         NEW n \in 0 .. Capacity - 1, NEW f \in Frames,
         RingOf(s, h, n) \in Seq(Frames)
  PROVE  RingOf([s EXCEPT ![Wrap(h + n)] = f], h, n + 1)
           = Append(RingOf(s, h, n), f)
<1> DEFINE r == RingOf(s, h, n)
           t == [s EXCEPT ![Wrap(h + n)] = f]
           q == RingOf(t, h, n + 1)
<1> USE FrameQueueAssumption DEF FrameQueueAssumption
<1>1. r \in Seq(Frames) /\ Len(r) = n /\ \A i \in 1 .. n : r[i] \in Frames
  BY DEF RingOf
<1>2. ASSUME NEW i \in 1 .. n + 1
      PROVE  q[i] = IF i = n + 1 THEN f ELSE r[i]
  <2>1. Wrap(h + i - 1) \in 0 .. Capacity - 1
    BY DEF Wrap
  <2>2. Wrap(h + i - 1) = Wrap(h + n) <=> i = n + 1
    BY DEF Wrap
  <2>3. q[i] = t[Wrap(h + i - 1)]
    BY DEF RingOf
  <2>4. i # n + 1 => r[i] = s[Wrap(h + i - 1)]
    BY DEF RingOf
  <2>5. QED
    BY <2>1, <2>2, <2>3, <2>4 DEF RingSlots
<1>3. DOMAIN q = 1 .. n + 1 /\ q = [i \in 1 .. n + 1 |-> q[i]]
  BY DEF RingOf
<1> HIDE DEF r, q
<1>4. q \in [1 .. n + 1 -> Frames]
  BY <1>1, <1>2, <1>3
<1>5. q \in Seq(Frames) /\ Len(q) = n + 1
  BY <1>4, FunctionIsSequence
<1>6. Append(r, f) \in Seq(Frames) /\ Len(Append(r, f)) = n + 1
      /\ \A i \in 1 .. n + 1 : Append(r, f)[i] = IF i = n + 1 THEN f ELSE r[i]
  BY <1>1
<1>7. q = Append(r, f)
  BY <1>2, <1>5, <1>6, SeqEqual
<1>8. QED
  BY <1>7 DEF q, r

LEMMA RingPop ==
  ASSUME NEW s \in RingSlots, NEW h \in 0 .. Capacity - 1,
         NEW n \in 1 .. Capacity, RingOf(s, h, n) \in Seq(Frames)
  PROVE  /\ RingOf([s EXCEPT ![h] = NoFrame], Wrap(h + 1), n - 1)
              = Tail(RingOf(s, h, n))
         /\ RingOf(s, h, n) # <<>>
         /\ s[h] = Head(RingOf(s, h, n))
<1> DEFINE r == RingOf(s, h, n)
           t == [s EXCEPT ![h] = NoFrame]
           q == RingOf(t, Wrap(h + 1), n - 1)
<1> USE FrameQueueAssumption DEF FrameQueueAssumption
<1>1. r \in Seq(Frames) /\ Len(r) = n /\ \A i \in 1 .. n : r[i] \in Frames
  BY DEF RingOf
<1>2. r[1] = s[h]
  BY DEF RingOf, Wrap
<1>3. ASSUME NEW i \in 1 .. n - 1
      PROVE  q[i] = r[i + 1]
  <2>1. Wrap(Wrap(h + 1) + i - 1) = Wrap(h + (i + 1) - 1)
    BY DEF Wrap
  <2>2. Wrap(h + (i + 1) - 1) \in (0 .. Capacity - 1) \ {h}
    BY DEF Wrap
  <2>3. q[i] = t[Wrap(Wrap(h + 1) + i - 1)]
    BY DEF RingOf
  <2>4. r[i + 1] = s[Wrap(h + (i + 1) - 1)]
    BY DEF RingOf
  <2>5. QED
    BY <2>1, <2>2, <2>3, <2>4 DEF RingSlots
<1>4. DOMAIN q = 1 .. n - 1 /\ q = [i \in 1 .. n - 1 |-> q[i]]
  BY DEF RingOf
<1> HIDE DEF r, q
<1>5. q \in [1 .. n - 1 -> Frames]
  <2>1. \A i \in 1 .. n - 1 : i + 1 \in 1 .. n
    OBVIOUS
  <2>2. \A i \in 1 .. n - 1 : q[i] \in Frames
    BY <1>1, <1>3, <2>1
  <2>3. QED
    BY <1>4, <2>2
<1>6. q \in Seq(Frames) /\ Len(q) = n - 1
  BY <1>5, FunctionIsSequence
<1>7. r # <<>>
  BY <1>1
<1>8. Tail(r) \in Seq(Frames) /\ Len(Tail(r)) = n - 1 /\ Head(r) = r[1]
      /\ \A i \in 1 .. n - 1 : Tail(r)[i] = r[i + 1]
  BY <1>1, <1>7, HeadTailProperties
<1>9. q = Tail(r)
  BY <1>3, <1>6, <1>8, SeqEqual
<1>10. QED
  BY <1>2, <1>7, <1>8, <1>9 DEF q, r

(* The same for the variables of FrameQueue.                               *)
LEMMA ContentSame ==
  ASSUME UNCHANGED <<slots, head, count>>
  PROVE  Content' = Content
BY DEF Content

LEMMA ContentCleared ==
  ASSUME ClearSlots
  PROVE  Content' = <<>>
BY DEF ClearSlots, Content

LEMMA ContentIsRing ==
  ASSUME FrameQueueTypeOK
  PROVE  Content = RingOf(slots, head, count)
<1>1. \A i \in 1 .. count : head + i - 1 \in 0 .. 2 * Capacity - 1
  BY FrameQueueAssumption DEF FrameQueueAssumption, FrameQueueTypeOK
<1>2. QED
  BY <1>1, Modulo DEF Content, RingOf

LEMMA ContentPushed ==
  ASSUME FrameQueueTypeOK, framePushing \in Frames, Filled, FramePushQueues
  PROVE  Content' = Append(Content, framePushing)
<1> USE FrameQueueAssumption DEF FrameQueueAssumption
<1>1. count \in 0 .. Capacity - 1 /\ head \in 0 .. Capacity - 1
      /\ slots \in RingSlots
  BY DEF FramePushQueues, FrameRoom, FrameQueueTypeOK, RingSlots
<1>2. Slot(count) = Wrap(head + count)
  BY <1>1, Modulo DEF Slot
<1>3. \A i \in 1 .. count + 1 : (head + i - 1) % Capacity = Wrap(head + i - 1)
  BY <1>1, Modulo
<1>4. Content' = RingOf([slots EXCEPT ![Wrap(head + count)] = framePushing],
                        head, count + 1)
  BY <1>2, <1>3 DEF Content, RingOf, FramePushQueues
<1>5. Content = RingOf(slots, head, count)
  BY ContentIsRing
<1>6. RingOf(slots, head, count) \in Seq(Frames)
  BY <1>5 DEF Filled
<1>7. Content' = Append(RingOf(slots, head, count), framePushing)
  BY <1>1, <1>4, <1>6, RingPush
<1>8. QED
  BY <1>5, <1>7

LEMMA ContentPopped ==
  ASSUME FrameQueueTypeOK, Filled, NEW f \in Frames, FramePop(f)
  PROVE  /\ Content # <<>>
         /\ f = Head(Content)
         /\ Content' = Tail(Content)
<1> USE FrameQueueAssumption DEF FrameQueueAssumption
<1>1. count \in 1 .. Capacity /\ head \in 0 .. Capacity - 1
      /\ slots \in RingSlots
  BY DEF FramePop, FrameQueueTypeOK, RingSlots
<1>2. (head + 1) % Capacity = Wrap(head + 1)
  BY <1>1, Modulo
<1>3. \A i \in 1 .. count - 1 :
        (Wrap(head + 1) + i - 1) % Capacity = Wrap(Wrap(head + 1) + i - 1)
  <2>1. Wrap(head + 1) \in 0 .. Capacity - 1
    BY <1>1 DEF Wrap
  <2>2. \A i \in 1 .. count - 1 :
          Wrap(head + 1) + i - 1 \in 0 .. 2 * Capacity - 1
    BY <1>1, <2>1
  <2>3. QED
    BY <2>2, Modulo
<1>4. Content' = RingOf([slots EXCEPT ![head] = NoFrame], Wrap(head + 1),
                        count - 1)
  BY <1>2, <1>3 DEF Content, RingOf, FramePop
<1>5. QED
  BY ZenonT(30), <1>1, <1>4, ContentIsRing, RingPop DEF Filled, FramePop

-----------------------------------------------------------------------------
(* What a step does to the way of a packet from the demuxer to the screen: *)
(* it moves one item to the next place, drops one, or empties a queue.     *)
Reads ==
  /\ nextRead \in Packets /\ pushing' = nextRead /\ nextRead' = nextRead + 1
  /\ UNCHANGED <<shown, Content, framePushing, decoding, queue>>

Queues ==
  /\ pushing \in Packets /\ queue' = Append(queue, pushing) /\ pushing' = None
  /\ UNCHANGED <<shown, Content, framePushing, decoding, nextRead>>

Decodes ==
  /\ queue # <<>> /\ decoding' = Head(queue) /\ queue' = Tail(queue)
  /\ UNCHANGED <<shown, Content, framePushing, pushing, nextRead>>

Hands ==
  /\ decoding \in Packets /\ framePushing' = decoding /\ decoding' = None
  /\ UNCHANGED <<shown, Content, queue, pushing, nextRead>>

QueuesFrame ==
  /\ framePushing \in Packets /\ framePushing' = None
  /\ Content' = Append(Content, framePushing)
  /\ UNCHANGED <<shown, decoding, queue, pushing, nextRead>>

Shows ==
  /\ Content # <<>> /\ shown' = Head(Content) /\ Content' = Tail(Content)
  /\ UNCHANGED <<framePushing, decoding, queue, pushing, nextRead>>

Moves == Reads \/ Queues \/ Decodes \/ Hands \/ QueuesFrame \/ Shows

Drops ==
  /\ \/ Content' = <<>> /\ UNCHANGED <<framePushing, queue, pushing>>
     \/ queue' = <<>> /\ UNCHANGED <<Content, framePushing, pushing>>
     \/ framePushing' = None /\ UNCHANGED <<Content, queue, pushing>>
     \/ pushing' = None /\ UNCHANGED <<Content, framePushing, queue>>
  /\ UNCHANGED <<shown, decoding, nextRead>>

Stays ==
  UNCHANGED <<shown, Content, framePushing, decoding, queue, pushing,
  nextRead>>

(* Every step is one of these.                                             *)
LEMMA Way ==
  ASSUME TypeOK, Filled, Threads, [Next]_vars
  PROVE  Moves \/ Drops \/ Stays
<1> USE MediaQueuesAssumption DEF MediaQueuesAssumption
<1>1. CASE DemuxThread
  <2>1. UNCHANGED Content
    BY <1>1, ContentSame
       DEF DemuxThread, DemuxReads, DemuxPushes, DemuxLeaves, frameVars
  <2>2. CASE DemuxReads
    BY <2>1, <2>2 DEF DemuxReads, CallPush, frameVars, Moves, Reads
  <2>3. CASE DemuxPushes
    BY <2>1, <2>3 DEF DemuxPushes, PushSleeps, PushDrops, PushQueues,
       frameVars,
       threadVars, Moves, Queues, Drops, Stays, TypeOK, PacketQueueTypeOK
  <2>4. CASE DemuxLeaves
    BY <2>1, <2>4 DEF DemuxLeaves, packetVars, frameVars, Stays
  <2>5. QED
    BY <1>1, <2>2, <2>3, <2>4 DEF DemuxThread
<1>2. CASE DecodeLoop
  BY <1>2, ContentSame DEF DecodeLoop, packetVars, frameVars, Stays
<1>3. CASE DecodePops
  <2>1. UNCHANGED Content
    BY <1>3, ContentSame DEF DecodePops, frameVars
  <2>2. QED
    BY <1>3, <2>1 DEF DecodePops, PopSleeps, PopNothing, PopPacket, frameVars,
       Moves, Decodes, Stays
<1>4. CASE DecodeCallsPush
  <2>1. UNCHANGED Content
    BY <1>4, ContentSame DEF DecodeCallsPush, FrameCallPush
  <2>2. QED
    BY <1>4, <2>1
       DEF DecodeCallsPush, FrameCallPush, packetVars, Moves, Hands, Threads
<1>5. CASE DecodePushes
  <2>1. CASE FramePushSleeps
    BY <1>5, <2>1, ContentSame
       DEF DecodePushes, FramePushSleeps, packetVars, Stays
  <2>2. CASE FramePushDrops
    BY <1>5, <2>2, ContentSame
       DEF DecodePushes, FramePushDrops, packetVars, Drops
  <2>3. CASE FramePushQueues
    <3>1. Content' = Append(Content, framePushing) /\ framePushing \in Packets
      BY <1>5, <2>3, ContentPushed DEF DecodePushes, Threads, TypeOK
    <3>2. QED
      BY <1>5, <2>3, <3>1
         DEF DecodePushes, FramePushQueues, packetVars, Moves,
             QueuesFrame
  <2>4. QED
    BY <1>5, <2>1, <2>2, <2>3 DEF DecodePushes
<1>6. CASE RefreshLoop
  BY <1>6, ContentSame DEF RefreshLoop, packetVars, frameVars, Stays
<1>7. CASE RefreshPops
  <2>1. CASE FramePopSleeps /\ UNCHANGED shown
    BY <1>7, <2>1, ContentSame
       DEF RefreshPops, FramePopSleeps, packetVars, Stays
  <2>2. CASE FramePopNothing /\ UNCHANGED shown
    BY <1>7, <2>2, ContentSame
       DEF RefreshPops, FramePopNothing, packetVars, Stays
  <2>3. ASSUME NEW f \in Frames, FramePop(f), shown' = f
        PROVE  Moves
    <3>1. Content # <<>> /\ f = Head(Content) /\ Content' = Tail(Content)
      BY <2>3, ContentPopped DEF TypeOK
    <3>2. QED
      BY <1>7, <2>3, <3>1 DEF RefreshPops, FramePop, packetVars, Moves, Shows
  <2>4. QED
    BY <1>7, <2>1, <2>2, <2>3 DEF RefreshPops
<1>8. CASE SeekFlushesPackets \/ StopClosesPackets
  BY <1>8, ContentSame
     DEF SeekFlushesPackets, StopClosesPackets, Call, FlushPackets,
         ShutdownPackets, EmptyPackets, frameVars, Drops, Stays
<1>9. CASE SeekFlushesFrames
  BY <1>9, ContentCleared
     DEF SeekFlushesFrames, ApiStep, FlushFrames, packetVars, Drops
<1>10. CASE StopClosesFrames
  BY <1>10, ContentSame
     DEF StopClosesFrames, ApiStep, ShutdownFrames, packetVars, Stays
<1>11. CASE StopJoins
  BY <1>11, ContentSame DEF StopJoins, ApiStep, packetVars, frameVars, Stays
<1>12. CASE StopFlushes
  BY <1>12, ContentSame, ContentCleared
     DEF StopFlushes, ApiStep, FlushPackets, EmptyPackets, FlushFrames,
         packetVars, frameVars, Drops
<1>13. CASE PlayRestarts
  BY <1>13, ContentSame, ContentCleared
     DEF PlayRestarts, ApiStep, RestartPackets, EmptyPackets, RestartFrames,
         packetVars, frameVars, Drops
<1>14. CASE PlayCreatesThreads
  BY <1>14, ContentSame
     DEF PlayCreatesThreads, ApiStep, packetVars, frameVars, Stays
<1>15. CASE Spurious
  BY <1>15, ContentSame
     DEF Spurious, PushWakes, PopWakes, FramePushWakes, FramePopWakes,
         packetVars, frameVars, threadVars, Stays
<1>16. CASE UNCHANGED vars
  BY <1>16, ContentSame DEF vars, packetVars, frameVars, threadVars, Stays
<1>17. QED
  BY <1>1, <1>2, <1>3, <1>4, <1>5, <1>6, <1>7, <1>8, <1>9, <1>10, <1>11,
     <1>12, <1>13, <1>14, <1>15, <1>16
     DEF Next, DecodeThread, RefreshThread, ApiContinues

(* The ring holds frames, and the order is kept.                           *)
LEMMA FilledStep ==
  ASSUME TypeOK, Filled, Threads, [Next]_vars
  PROVE  Filled'
<1> USE MediaQueuesAssumption DEF MediaQueuesAssumption, Filled
<1>1. Moves \/ Drops \/ Stays
  BY Way
<1>2. CASE QueuesFrame
  BY <1>2 DEF QueuesFrame
<1>3. CASE Shows
  BY <1>3 DEF Shows
<1>4. CASE Content' = Content
  BY <1>4
<1>5. CASE Content' = <<>>
  BY <1>5
<1>6. QED
  BY <1>1, <1>2, <1>3, <1>4, <1>5
     DEF Moves, Reads, Queues, Decodes, Hands, Drops, Stays

(* What sequences hold after Append and Tail, place by place.              *)
LEMMA Appended ==
  ASSUME NEW s \in Seq(Packets), NEW p \in Packets
  PROVE  /\ Len(Append(s, p)) = Len(s) + 1 /\ Len(s) \in Nat
         /\ \A i \in 1 .. Len(s) + 1 :
              Append(s, p)[i] = IF i = Len(s) + 1 THEN p ELSE s[i]
OBVIOUS

LEMMA Shortened ==
  ASSUME NEW s \in Seq(Packets), s # <<>>
  PROVE  /\ Len(Tail(s)) = Len(s) - 1 /\ Len(s) \in Nat \ {0}
         /\ Head(s) = s[1]
         /\ \A i \in 1 .. Len(s) - 1 : Tail(s)[i] = s[i + 1]
OBVIOUS

LEMMA OrderedStep ==
  ASSUME TypeOK, TypeOK', Filled, Filled', Threads, Ordered, [Next]_vars
  PROVE  Ordered'
<1> USE MediaQueuesAssumption, PacketQueueAssumption
    DEF MediaQueuesAssumption, PacketQueueAssumption,
        Ordered, Ahead, RingAhead, HandsAhead, QueueAhead
<1>1. Moves \/ Drops \/ Stays
  BY Way
<1>2. /\ queue \in Seq(Packets) /\ Content \in Seq(Packets)
      /\ nextRead \in Nat /\ shown \in Nat
      /\ \A i \in 1 .. Len(queue) : queue[i] \in Nat
      /\ \A i \in 1 .. Len(Content) : Content[i] \in Nat
  <2>1. queue \in Seq(Packets) /\ Content \in Seq(Packets)
        /\ nextRead \in Nat /\ shown \in Nat
    BY DEF TypeOK, PacketQueueTypeOK, Filled
  <2>2. \A i \in 1 .. Len(queue) : queue[i] \in Packets
    BY <2>1
  <2>3. \A i \in 1 .. Len(Content) : Content[i] \in Packets
    BY <2>1
  <2>4. QED
    BY <2>1, <2>2, <2>3
<1>3. CASE Reads
  <2>1. nextRead < nextRead' /\ nextRead' \in Nat
    BY <1>2, <1>3 DEF Reads
  <2>2. \A x \in Nat : x < nextRead => x < nextRead'
    BY <1>2, <2>1
  <2>3. framePushing \in Packets => framePushing \in Nat
    OBVIOUS
  <2>4. decoding \in Packets => decoding \in Nat
    OBVIOUS
  <2>5. Ahead' /\ HandsAhead'
    BY <1>2, <1>3, <2>1, <2>2, <2>3, <2>4 DEF Reads
  <2>6. RingAhead'
    BY <1>2, <1>3, <2>1, <2>2 DEF Reads
  <2>7. QueueAhead'
    BY <1>2, <1>3, <2>1, <2>2 DEF Reads
  <2>8. QED
    BY <2>5, <2>6, <2>7
<1>4. CASE Queues
  <2>1. Ahead'
    BY <1>2, <1>4, Appended DEF Queues
  <2>2. HandsAhead'
    BY <1>2, <1>4, Appended DEF Queues
  <2>3. RingAhead'
    BY <1>2, <1>4, Appended DEF Queues
  <2>4. QueueAhead'
    BY <1>2, <1>4, Appended DEF Queues
  <2>5. QED
    BY <2>1, <2>2, <2>3, <2>4
<1>5. CASE Decodes
  <2>1. Ahead'
    BY <1>2, <1>5, Shortened DEF Decodes
  <2>2. HandsAhead'
    BY <1>2, <1>5, Shortened DEF Decodes
  <2>3. RingAhead'
    BY <1>2, <1>5, Shortened DEF Decodes
  <2>4. QueueAhead'
    BY <1>2, <1>5, Shortened DEF Decodes
  <2>5. QED
    BY <2>1, <2>2, <2>3, <2>4
<1>6. CASE Hands
  BY <1>2, <1>6 DEF Hands
<1>7. CASE QueuesFrame
  <2>1. Ahead'
    BY <1>2, <1>7, Appended DEF QueuesFrame
  <2>2. HandsAhead'
    BY <1>2, <1>7, Appended DEF QueuesFrame
  <2>3. RingAhead'
    BY <1>2, <1>7, Appended DEF QueuesFrame
  <2>4. QueueAhead'
    BY <1>2, <1>7, Appended DEF QueuesFrame
  <2>5. QED
    BY <2>1, <2>2, <2>3, <2>4
<1>8. CASE Shows
  <2>1. Ahead'
    BY <1>2, <1>8, Shortened DEF Shows
  <2>2. HandsAhead'
    BY <1>2, <1>8, Shortened DEF Shows
  <2>3. RingAhead'
    BY <1>2, <1>8, Shortened DEF Shows
  <2>4. QueueAhead'
    BY <1>2, <1>8, Shortened DEF Shows
  <2>5. QED
    BY <2>1, <2>2, <2>3, <2>4
<1>9. CASE Drops
  <2>1. Ahead'
    BY <1>2, <1>9 DEF Drops
  <2>2. HandsAhead'
    BY <1>2, <1>9 DEF Drops
  <2>3. RingAhead'
    BY <1>2, <1>9 DEF Drops
  <2>4. QueueAhead'
    BY <1>2, <1>9 DEF Drops
  <2>5. QED
    BY <2>1, <2>2, <2>3, <2>4
<1>10. CASE Stays
  BY <1>10 DEF Stays
<1>11. QED
  BY <1>1, <1>3, <1>4, <1>5, <1>6, <1>7, <1>8, <1>9, <1>10 DEF Moves

-----------------------------------------------------------------------------
(* Types: the packet queue without its counter, the ring, and the threads. *)
PacketTypes ==
  /\ queue \in Seq(Packets)
  /\ shutdown \in BOOLEAN
  /\ pushing \in Packets \cup {None}
  /\ pushAsleep \in BOOLEAN
  /\ popAsleep \in BOOLEAN

ThreadTypes ==
  /\ running \in BOOLEAN
  /\ nextRead \in Nat
  /\ demux \in {"run", "gone"}
  /\ decode \in {"loop", "pop", "push", "pushing", "gone"}
  /\ decoding \in Packets \cup {None}
  /\ refresh \in {"loop", "pop", "gone"}
  /\ shown \in Nat
  /\ api \in ApiPcs
  /\ calls \in 0 .. MaxCalls

LEMMA TypeParts ==
  TypeOK <=> PacketTypes /\ totalBytes \in Nat /\ FrameQueueTypeOK
    /\ ThreadTypes
BY DEF TypeOK, PacketQueueTypeOK, PacketTypes, ThreadTypes

(* Each group of types, action by action.                                  *)
LEMMA PacketTypesStep ==
  ASSUME PacketTypes, [Next]_vars
  PROVE  PacketTypes'
<1> USE DEF PacketTypes, packetVars, frameVars, threadVars
<1> <<>> \in Seq(Packets) /\ (queue # <<>> => Tail(queue) \in Seq(Packets))
  OBVIOUS
<1> pushing \in Packets => Append(queue, pushing) \in Seq(Packets)
  OBVIOUS
<1>1. CASE DemuxReads
  BY <1>1 DEF DemuxReads, CallPush
<1>2. CASE DemuxPushes
  BY <1>2 DEF DemuxPushes, PushSleeps, PushDrops, PushQueues
<1>3. CASE DemuxLeaves
  BY <1>3 DEF DemuxLeaves
<1>4. CASE DecodeLoop
  BY <1>4 DEF DecodeLoop
<1>5. CASE DecodePops
  BY <1>5 DEF DecodePops, PopSleeps, PopNothing, PopPacket, NotifyNotFull
<1>6. CASE DecodeCallsPush
  BY <1>6 DEF DecodeCallsPush, FrameCallPush
<1>7. CASE DecodePushes
  BY <1>7 DEF DecodePushes, FramePushSleeps, FramePushDrops, FramePushQueues
<1>8. CASE RefreshLoop
  BY <1>8 DEF RefreshLoop
<1>9. CASE RefreshPops
  BY <1>9 DEF RefreshPops, FramePopSleeps, FramePopNothing, FramePop
<1>10. CASE SeekFlushesPackets
  BY <1>10 DEF SeekFlushesPackets, Call, FlushPackets, EmptyPackets
<1>11. CASE StopClosesPackets
  BY <1>11 DEF StopClosesPackets, Call, ShutdownPackets, NotifyBoth
<1>12. CASE SeekFlushesFrames
  BY <1>12 DEF SeekFlushesFrames, ApiStep, FlushFrames, ClearSlots
<1>13. CASE StopClosesFrames
  BY <1>13 DEF StopClosesFrames, ApiStep, ShutdownFrames
<1>14. CASE StopJoins
  BY <1>14 DEF StopJoins, ApiStep
<1>15. CASE StopFlushes
  BY <1>15 DEF StopFlushes, ApiStep, FlushPackets, EmptyPackets,
       FlushFrames, ClearSlots
<1>16. CASE PlayRestarts
  BY <1>16 DEF PlayRestarts, ApiStep, RestartPackets, EmptyPackets,
       RestartFrames, ClearSlots
<1>17. CASE PlayCreatesThreads
  BY <1>17 DEF PlayCreatesThreads, ApiStep
<1>18. CASE Spurious
  BY <1>18 DEF Spurious, PushWakes, PopWakes, FramePushWakes, FramePopWakes
<1>19. CASE UNCHANGED vars
  BY <1>19 DEF vars
<1>20. QED
  BY <1>1, <1>2, <1>3, <1>4, <1>5, <1>6, <1>7, <1>8, <1>9, <1>10, <1>11,
       <1>12, <1>13, <1>14, <1>15, <1>16, <1>17, <1>18, <1>19
     DEF Next, DemuxThread, DecodeThread, RefreshThread, ApiContinues

(* FrameQueueTypeOK, with a name for the set of rings.                     *)
FrameTypes ==
  /\ slots \in RingSlots
  /\ head \in 0 .. Capacity - 1
  /\ count \in 0 .. Capacity
  /\ frameShutdown \in BOOLEAN
  /\ framePushing \in Frames \cup {NoFrame}
  /\ framePushAsleep \in BOOLEAN
  /\ framePopAsleep \in BOOLEAN

LEMMA FrameTypesAre == FrameTypes <=> FrameQueueTypeOK
BY DEF FrameTypes, FrameQueueTypeOK, RingSlots

LEMMA FrameTypesStep ==
  ASSUME FrameTypes, Threads, ThreadTypes, [Next]_vars
  PROVE  FrameTypes'
<1> USE FrameQueueAssumption, MediaQueuesAssumption
    DEF FrameQueueAssumption, MediaQueuesAssumption, FrameTypes, Threads,
        ThreadTypes, packetVars, frameVars, threadVars
<1> ClearSlots => /\ slots' \in RingSlots /\ head' = 0 /\ count' = 0
                  /\ 0 \in 0 .. Capacity - 1 /\ 0 \in 0 .. Capacity
  BY DEF ClearSlots, RingSlots
<1>1. CASE DemuxReads
  BY <1>1 DEF DemuxReads, CallPush
<1>2. CASE DemuxPushes
  BY <1>2 DEF DemuxPushes, PushSleeps, PushDrops, PushQueues
<1>3. CASE DemuxLeaves
  BY <1>3 DEF DemuxLeaves
<1>4. CASE DecodeLoop
  BY <1>4 DEF DecodeLoop
<1>5. CASE DecodePops
  BY <1>5 DEF DecodePops, PopSleeps, PopNothing, PopPacket, NotifyNotFull
<1>6. CASE DecodeCallsPush
  BY <1>6 DEF DecodeCallsPush, FrameCallPush
<1>7. CASE DecodePushes
  <2>1. CASE FramePushQueues
    <3>1. slots' \in RingSlots
      BY <1>7, <2>1 DEF DecodePushes, FramePushQueues, RingSlots
    <3>2. count' \in 0 .. Capacity /\ head' \in 0 .. Capacity - 1
      BY <2>1 DEF FramePushQueues, FrameRoom
    <3>3. UNCHANGED <<frameShutdown, framePushAsleep>>
          /\ framePushing' = NoFrame /\ framePopAsleep' = FALSE
      BY <2>1 DEF FramePushQueues
    <3>4. QED
      BY <3>1, <3>2, <3>3
  <2>2. QED
    BY <1>7, <2>1 DEF DecodePushes, FramePushSleeps, FramePushDrops
<1>8. CASE RefreshLoop
  BY <1>8 DEF RefreshLoop
<1>9. CASE RefreshPops
  <2>1. (head + 1) % Capacity \in 0 .. Capacity - 1
    BY Modulo DEF Wrap
  <2>2. ASSUME NEW f \in Frames, FramePop(f)
        PROVE  FrameTypes'
    <3>1. slots' \in RingSlots
      BY <2>2 DEF FramePop, RingSlots
    <3>2. count' \in 0 .. Capacity /\ head' \in 0 .. Capacity - 1
      BY <2>1, <2>2 DEF FramePop
    <3>3. UNCHANGED <<frameShutdown, framePushing, framePopAsleep>>
          /\ framePushAsleep' = FALSE
      BY <2>2 DEF FramePop
    <3>4. QED
      BY <3>1, <3>2, <3>3
  <2>3. QED
    BY <1>9, <2>2 DEF RefreshPops, FramePopSleeps, FramePopNothing
<1>10. CASE SeekFlushesPackets
  BY <1>10 DEF SeekFlushesPackets, Call, FlushPackets, EmptyPackets
<1>11. CASE StopClosesPackets
  BY <1>11 DEF StopClosesPackets, Call, ShutdownPackets, NotifyBoth
<1>12. CASE SeekFlushesFrames
  BY <1>12 DEF SeekFlushesFrames, ApiStep, FlushFrames
<1>13. CASE StopClosesFrames
  BY <1>13 DEF StopClosesFrames, ApiStep, ShutdownFrames
<1>14. CASE StopJoins
  BY <1>14 DEF StopJoins, ApiStep
<1>15. CASE StopFlushes
  BY <1>15 DEF StopFlushes, ApiStep, FlushPackets, EmptyPackets,
       FlushFrames
<1>16. CASE PlayRestarts
  BY <1>16 DEF PlayRestarts, ApiStep, RestartPackets, EmptyPackets,
       RestartFrames
<1>17. CASE PlayCreatesThreads
  BY <1>17 DEF PlayCreatesThreads, ApiStep
<1>18. CASE Spurious
  BY <1>18 DEF Spurious, PushWakes, PopWakes, FramePushWakes, FramePopWakes
<1>19. CASE UNCHANGED vars
  BY <1>19 DEF vars
<1>20. QED
  BY <1>1, <1>2, <1>3, <1>4, <1>5, <1>6, <1>7, <1>8, <1>9, <1>10, <1>11,
       <1>12, <1>13, <1>14, <1>15, <1>16, <1>17, <1>18, <1>19
     DEF Next, DemuxThread, DecodeThread, RefreshThread, ApiContinues

LEMMA ThreadTypesStep ==
  ASSUME ThreadTypes, [Next]_vars
  PROVE  ThreadTypes'
<1> USE MediaQueuesAssumption
    DEF MediaQueuesAssumption, ThreadTypes, ApiPcs, packetVars, frameVars,
        threadVars
<1>1. CASE DemuxReads
  BY <1>1 DEF DemuxReads, CallPush
<1>2. CASE DemuxPushes
  BY <1>2 DEF DemuxPushes, PushSleeps, PushDrops, PushQueues
<1>3. CASE DemuxLeaves
  BY <1>3 DEF DemuxLeaves
<1>4. CASE DecodeLoop
  BY <1>4 DEF DecodeLoop
<1>5. CASE DecodePops
  BY <1>5 DEF DecodePops, PopSleeps, PopNothing, PopPacket, NotifyNotFull
<1>6. CASE DecodeCallsPush
  BY <1>6 DEF DecodeCallsPush, FrameCallPush
<1>7. CASE DecodePushes
  BY <1>7 DEF DecodePushes, FramePushSleeps, FramePushDrops, FramePushQueues
<1>8. CASE RefreshLoop
  BY <1>8 DEF RefreshLoop
<1>9. CASE RefreshPops
  BY <1>9 DEF RefreshPops, FramePopSleeps, FramePopNothing, FramePop
<1>10. CASE SeekFlushesPackets
  BY <1>10 DEF SeekFlushesPackets, Call, FlushPackets, EmptyPackets
<1>11. CASE StopClosesPackets
  <2>1. calls' \in 0 .. MaxCalls
    BY <1>11 DEF StopClosesPackets, Call
  <2>2. QED
    BY <1>11, <2>1 DEF StopClosesPackets, Call
<1>12. CASE SeekFlushesFrames
  BY <1>12 DEF SeekFlushesFrames, ApiStep, FlushFrames, ClearSlots
<1>13. CASE StopClosesFrames
  BY <1>13 DEF StopClosesFrames, ApiStep, ShutdownFrames
<1>14. CASE StopJoins
  BY <1>14 DEF StopJoins, ApiStep
<1>15. CASE StopFlushes
  BY <1>15 DEF StopFlushes, ApiStep, FlushPackets, EmptyPackets,
       FlushFrames, ClearSlots
<1>16. CASE PlayRestarts
  BY <1>16 DEF PlayRestarts, ApiStep, RestartPackets, EmptyPackets,
       RestartFrames, ClearSlots
<1>17. CASE PlayCreatesThreads
  BY <1>17 DEF PlayCreatesThreads, ApiStep
<1>18. CASE Spurious
  BY <1>18 DEF Spurious, PushWakes, PopWakes, FramePushWakes, FramePopWakes
<1>19. CASE UNCHANGED vars
  BY <1>19 DEF vars
<1>20. QED
  BY <1>1, <1>2, <1>3, <1>4, <1>5, <1>6, <1>7, <1>8, <1>9, <1>10, <1>11,
       <1>12, <1>13, <1>14, <1>15, <1>16, <1>17, <1>18, <1>19
     DEF Next, DemuxThread, DecodeThread, RefreshThread, ApiContinues

(* push() and pop() change the counter by what they move.                  *)
LEMMA BytesStep ==
  ASSUME PacketTypes, totalBytes \in Nat, Bytes, [Next]_vars
  PROVE  Bytes' /\ totalBytes' \in Nat
<1> USE DEF PacketTypes, Bytes, packetVars, frameVars, threadVars
<1>1. CASE DemuxReads
  BY <1>1 DEF DemuxReads, CallPush
<1>2. CASE DemuxPushes
  <2>1. CASE PushQueues
    <3>1. pushing \in Packets
      BY <2>1 DEF PushQueues
    <3>2. Size[pushing] \in Nat
      BY <3>1, PacketQueueAssumption DEF PacketQueueAssumption
    <3>3. Channels!Load(queue') = Channels!Load(queue) + Size[pushing]
      BY <2>1, <3>1, LoadAppend DEF PushQueues
    <3>4. QED
      BY <2>1, <3>2, <3>3 DEF PushQueues
  <2>2. QED
    BY <1>2, <2>1 DEF DemuxPushes, PushSleeps, PushDrops
<1>3. CASE DemuxLeaves
  BY <1>3 DEF DemuxLeaves
<1>4. CASE DecodeLoop
  BY <1>4 DEF DecodeLoop
<1>5. CASE DecodePops
  <2>1. ASSUME NEW p \in Packets, PopPacket(p)
        PROVE  Bytes' /\ totalBytes' \in Nat
    <3>1. queue # <<>> /\ p = Head(queue) /\ queue' = Tail(queue)
          /\ totalBytes' = totalBytes - Size[p]
      BY <2>1 DEF PopPacket
    <3>2. Size[p] \in Nat
      BY PacketQueueAssumption DEF PacketQueueAssumption
    <3>3. Channels!Load(queue) = Size[p] + Channels!Load(queue')
          /\ Channels!Load(queue') \in Nat
      BY <3>1, LoadTail
    <3>4. QED
      BY <3>1, <3>2, <3>3
  <2>2. QED
    BY <1>5, <2>1 DEF DecodePops, PopSleeps, PopNothing
<1>6. CASE DecodeCallsPush
  BY <1>6 DEF DecodeCallsPush, FrameCallPush
<1>7. CASE DecodePushes
  BY <1>7 DEF DecodePushes, FramePushSleeps, FramePushDrops, FramePushQueues
<1>8. CASE RefreshLoop
  BY <1>8 DEF RefreshLoop
<1>9. CASE RefreshPops
  BY <1>9 DEF RefreshPops, FramePopSleeps, FramePopNothing, FramePop
<1>10. CASE SeekFlushesPackets
  BY <1>10, LoadEmpty DEF SeekFlushesPackets, Call, FlushPackets, EmptyPackets
<1>11. CASE StopClosesPackets
  BY <1>11 DEF StopClosesPackets, Call, ShutdownPackets, NotifyBoth
<1>12. CASE SeekFlushesFrames
  BY <1>12 DEF SeekFlushesFrames, ApiStep, FlushFrames, ClearSlots
<1>13. CASE StopClosesFrames
  BY <1>13 DEF StopClosesFrames, ApiStep, ShutdownFrames
<1>14. CASE StopJoins
  BY <1>14 DEF StopJoins, ApiStep
<1>15. CASE StopFlushes
  BY <1>15, LoadEmpty DEF StopFlushes, ApiStep, FlushPackets, EmptyPackets
<1>16. CASE PlayRestarts
  BY <1>16, LoadEmpty DEF PlayRestarts, ApiStep, RestartPackets, EmptyPackets
<1>17. CASE PlayCreatesThreads
  BY <1>17 DEF PlayCreatesThreads, ApiStep
<1>18. CASE Spurious
  BY <1>18 DEF Spurious, PushWakes, PopWakes, FramePushWakes, FramePopWakes
<1>19. CASE UNCHANGED vars
  BY <1>19 DEF vars
<1>20. QED
  BY <1>1, <1>2, <1>3, <1>4, <1>5, <1>6, <1>7, <1>8, <1>9, <1>10, <1>11,
       <1>12, <1>13, <1>14, <1>15, <1>16, <1>17, <1>18, <1>19
     DEF Next, DemuxThread, DecodeThread, RefreshThread, ApiContinues

(* The hands of the threads, and who has been joined.                      *)
LEMMA ThreadsStep ==
  ASSUME PacketTypes, ThreadTypes, FrameQueueTypeOK, Threads, Sleepers,
         [Next]_vars
  PROVE  Threads'
<1> USE PacketQueueAssumption, MediaQueuesAssumption
    DEF PacketQueueAssumption, MediaQueuesAssumption, PacketTypes, ThreadTypes,
        FrameQueueTypeOK, Threads, Sleepers, ApiPcs, packetVars, frameVars,
        threadVars
<1>1. CASE DemuxReads
  BY <1>1 DEF DemuxReads, CallPush
<1>2. CASE DemuxPushes
  BY <1>2 DEF DemuxPushes, PushSleeps, PushDrops, PushQueues
<1>3. CASE DemuxLeaves
  BY <1>3 DEF DemuxLeaves
<1>4. CASE DecodeLoop
  BY <1>4 DEF DecodeLoop
<1>5. CASE DecodePops
  BY <1>5 DEF DecodePops, PopSleeps, PopNothing, PopPacket, NotifyNotFull
<1>6. CASE DecodeCallsPush
  BY <1>6 DEF DecodeCallsPush, FrameCallPush
<1>7. CASE DecodePushes
  BY <1>7 DEF DecodePushes, FramePushSleeps, FramePushDrops, FramePushQueues
<1>8. CASE RefreshLoop
  BY <1>8 DEF RefreshLoop
<1>9. CASE RefreshPops
  BY <1>9 DEF RefreshPops, FramePopSleeps, FramePopNothing, FramePop
<1>10. CASE SeekFlushesPackets
  BY <1>10 DEF SeekFlushesPackets, Call, FlushPackets, EmptyPackets
<1>11. CASE StopClosesPackets
  BY <1>11 DEF StopClosesPackets, Call, ShutdownPackets, NotifyBoth
<1>12. CASE SeekFlushesFrames
  BY <1>12 DEF SeekFlushesFrames, ApiStep, FlushFrames, ClearSlots
<1>13. CASE StopClosesFrames
  BY <1>13 DEF StopClosesFrames, ApiStep, ShutdownFrames
<1>14. CASE StopJoins
  BY <1>14 DEF StopJoins, ApiStep
<1>15. CASE StopFlushes
  BY <1>15 DEF StopFlushes, ApiStep, FlushPackets, EmptyPackets,
       FlushFrames, ClearSlots
<1>16. CASE PlayRestarts
  BY <1>16 DEF PlayRestarts, ApiStep, RestartPackets, EmptyPackets,
       RestartFrames, ClearSlots
<1>17. CASE PlayCreatesThreads
  BY <1>17 DEF PlayCreatesThreads, ApiStep
<1>18. CASE Spurious
  BY SMTT(30), <1>18 DEF Spurious, PushWakes, PopWakes, FramePushWakes,
     FramePopWakes
<1>19. CASE UNCHANGED vars
  BY <1>19 DEF vars
<1>20. QED
  BY <1>1, <1>2, <1>3, <1>4, <1>5, <1>6, <1>7, <1>8, <1>9, <1>10, <1>11,
       <1>12, <1>13, <1>14, <1>15, <1>16, <1>17, <1>18, <1>19
     DEF Next, DemuxThread, DecodeThread, RefreshThread, ApiContinues

(* Whoever removes the reason of a sleeper wakes it.                       *)
LEMMA SleepersStep ==
  ASSUME PacketTypes, totalBytes \in Nat, ThreadTypes, FrameQueueTypeOK,
         Threads, Sleepers, [Next]_vars
  PROVE  Sleepers'
<1> USE PacketQueueAssumption, FrameQueueAssumption, MediaQueuesAssumption
    DEF PacketQueueAssumption, FrameQueueAssumption, MediaQueuesAssumption,
        PacketTypes, ThreadTypes, FrameQueueTypeOK, Threads, Sleepers, Full,
        FrameRoom, packetVars, frameVars, threadVars
<1>1. CASE DemuxReads
  BY <1>1 DEF DemuxReads, CallPush
<1>2. CASE DemuxPushes
  BY <1>2 DEF DemuxPushes, PushSleeps, PushDrops, PushQueues
<1>3. CASE DemuxLeaves
  BY <1>3 DEF DemuxLeaves
<1>4. CASE DecodeLoop
  BY <1>4 DEF DecodeLoop
<1>5. CASE DecodePops
  BY <1>5 DEF DecodePops, PopSleeps, PopNothing, PopPacket, NotifyNotFull
<1>6. CASE DecodeCallsPush
  BY <1>6 DEF DecodeCallsPush, FrameCallPush
<1>7. CASE DecodePushes
  BY <1>7 DEF DecodePushes, FramePushSleeps, FramePushDrops, FramePushQueues
<1>8. CASE RefreshLoop
  BY <1>8 DEF RefreshLoop
<1>9. CASE RefreshPops
  BY <1>9 DEF RefreshPops, FramePopSleeps, FramePopNothing, FramePop
<1>10. CASE SeekFlushesPackets
  BY <1>10 DEF SeekFlushesPackets, Call, FlushPackets, EmptyPackets
<1>11. CASE StopClosesPackets
  BY <1>11 DEF StopClosesPackets, Call, ShutdownPackets, NotifyBoth
<1>12. CASE SeekFlushesFrames
  BY <1>12 DEF SeekFlushesFrames, ApiStep, FlushFrames, ClearSlots
<1>13. CASE StopClosesFrames
  BY <1>13 DEF StopClosesFrames, ApiStep, ShutdownFrames
<1>14. CASE StopJoins
  BY <1>14 DEF StopJoins, ApiStep
<1>15. CASE StopFlushes
  BY <1>15 DEF StopFlushes, ApiStep, FlushPackets, EmptyPackets,
       FlushFrames, ClearSlots
<1>16. CASE PlayRestarts
  BY <1>16 DEF PlayRestarts, ApiStep, RestartPackets, EmptyPackets,
       RestartFrames, ClearSlots
<1>17. CASE PlayCreatesThreads
  BY <1>17 DEF PlayCreatesThreads, ApiStep
<1>18. CASE Spurious
  BY SMTT(30), <1>18 DEF Spurious, PushWakes, PopWakes, FramePushWakes,
     FramePopWakes
<1>19. CASE UNCHANGED vars
  BY <1>19 DEF vars
<1>20. QED
  BY <1>1, <1>2, <1>3, <1>4, <1>5, <1>6, <1>7, <1>8, <1>9, <1>10, <1>11,
       <1>12, <1>13, <1>14, <1>15, <1>16, <1>17, <1>18, <1>19
     DEF Next, DemuxThread, DecodeThread, RefreshThread, ApiContinues

-----------------------------------------------------------------------------
(* The initial state.                                                      *)
LEMMA InitIInv == Init => IInv
<1> SUFFICES ASSUME Init PROVE IInv
  OBVIOUS
<1> USE PacketQueueAssumption, FrameQueueAssumption, MediaQueuesAssumption
    DEF PacketQueueAssumption, FrameQueueAssumption, MediaQueuesAssumption,
        Init, PacketQueueInit, FrameQueueInit
<1>1. PacketTypes /\ ThreadTypes /\ totalBytes \in Nat
  BY DEF PacketTypes, ThreadTypes, ApiPcs
<1>2. FrameTypes
  <2>1. slots \in RingSlots
    BY DEF RingSlots
  <2>2. head \in 0 .. Capacity - 1 /\ count \in 0 .. Capacity
    OBVIOUS
  <2>3. QED
    BY <2>1, <2>2 DEF FrameTypes
<1>3. Content = <<>>
  BY DEF Content
<1>4. Bytes
  BY LoadEmpty DEF Bytes
<1>5. Filled /\ Threads /\ Sleepers
  BY <1>3 DEF Filled, Threads, Sleepers
<1>6. Ordered
  BY <1>3 DEF Ordered, Ahead, RingAhead, HandsAhead, QueueAhead
<1>7. QED
  BY <1>1, <1>2, <1>4, <1>5, <1>6, TypeParts, FrameTypesAre DEF IInv

(***************************************************************************)
(* The inductive invariant of the two queues and their four threads.       *)
(***************************************************************************)
THEOREM Invariance == Spec => []IInv
<1>1. ASSUME IInv, [Next]_vars
      PROVE  IInv'
  <2>1. /\ TypeOK /\ Bytes /\ Filled /\ Threads /\ Sleepers /\ Ordered
        /\ PacketTypes /\ totalBytes \in Nat /\ FrameQueueTypeOK /\ ThreadTypes
        /\ FrameTypes
    BY <1>1, TypeParts, FrameTypesAre DEF IInv
  <2>2. PacketTypes' /\ ThreadTypes' /\ FrameTypes' /\ Bytes'
          /\ totalBytes' \in Nat
    BY <1>1, <2>1, PacketTypesStep, ThreadTypesStep, FrameTypesStep, BytesStep
  <2>3. Filled' /\ Threads' /\ Sleepers'
    BY <1>1, <2>1, FilledStep, ThreadsStep, SleepersStep
  <2>4. TypeOK'
    BY <2>2 DEF TypeOK, PacketQueueTypeOK, PacketTypes, ThreadTypes,
       FrameTypes,
       FrameQueueTypeOK, RingSlots
  <2>5. Ordered'
    BY <1>1, <2>1, <2>3, <2>4, OrderedStep
  <2>6. QED
    BY <2>2, <2>3, <2>4, <2>5 DEF IInv
<1>2. IInv /\ [Next]_vars => IInv'
  BY <1>1
<1>3. QED
  BY InitIInv, <1>2, PTL DEF Spec

(***************************************************************************)
(* Every variable keeps its type: the byte counter never goes below zero,  *)
(* and the ring's head and count stay within its capacity.                 *)
(***************************************************************************)
THEOREM TypeCorrect == Spec => []TypeOK
<1>1. IInv => TypeOK
  BY DEF IInv
<1>2. QED
  BY <1>1, Invariance, PTL

(***************************************************************************)
(* Nobody oversleeps: whoever sleeps on one of the four condition          *)
(* variables has the reason for it, the bytes really queued included.      *)
(***************************************************************************)
THEOREM SleepersHaveReasons == Spec => []NobodyOversleeps
<1>1. IInv => NobodyOversleeps
  BY DEF IInv, Bytes, Sleepers, Full, NobodyOversleeps
<1>2. QED
  BY <1>1, Invariance, PTL

-----------------------------------------------------------------------------
(* Increasing sequences, end to end.                                       *)
Increasing(s) == \A i, j \in DOMAIN s : i < j => s[i] < s[j]

Under(s, t) == \A i \in 1 .. Len(s), j \in 1 .. Len(t) : s[i] < t[j]

LEMMA IncreasingConcat ==
  ASSUME NEW s \in Seq(Nat), NEW t \in Seq(Nat),
         Increasing(s), Increasing(t), Under(s, t)
  PROVE  s \o t \in Seq(Nat) /\ Increasing(s \o t)
<1> DEFINE u == s \o t
           m == Len(s)
           n == Len(t)
<1>1. /\ u \in Seq(Nat) /\ Len(u) = m + n /\ m \in Nat /\ n \in Nat
      /\ \A i \in 1 .. m + n : u[i] = IF i <= m THEN s[i] ELSE t[i - m]
  BY ConcatProperties
<1>2. /\ \A i, j \in 1 .. m : i < j => s[i] < s[j]
      /\ \A i, j \in 1 .. n : i < j => t[i] < t[j]
      /\ \A i \in 1 .. m, j \in 1 .. n : s[i] < t[j]
  <2>1. DOMAIN s = 1 .. m /\ DOMAIN t = 1 .. n
    OBVIOUS
  <2>2. QED
    BY <2>1 DEF Increasing, Under
<1> HIDE DEF u, m, n
<1>3. ASSUME NEW i \in 1 .. m + n, NEW j \in 1 .. m + n, i < j
      PROVE  u[i] < u[j]
  <2>1. CASE j <= m
    <3>1. i \in 1 .. m /\ j \in 1 .. m
      BY <1>1, <1>3, <2>1
    <3>2. u[i] = s[i] /\ u[j] = s[j]
      BY SMTT(30), <1>1, <1>3, <2>1, <3>1
    <3>3. s[i] < s[j]
      BY <1>2, <1>3, <3>1
    <3>4. QED
      BY <3>2, <3>3
  <2>2. CASE i <= m /\ j > m
    <3>1. i \in 1 .. m /\ j - m \in 1 .. n
      BY <1>1, <2>2
    <3>2. u[i] = s[i] /\ u[j] = t[j - m]
      <4>1. u[i] = s[i]
        BY <1>1, <2>2
      <4>2. u[j] = t[j - m]
        BY <1>1, <2>2
      <4>3. QED
        BY <4>1, <4>2
    <3>3. s[i] < t[j - m]
      BY <1>2, <3>1
    <3>4. QED
      BY <3>2, <3>3
  <2>3. CASE i > m
    <3>1. i - m \in 1 .. n /\ j - m \in 1 .. n /\ i - m < j - m /\ j > m
      <4>1. m \in Nat /\ n \in Nat /\ i \in Int /\ j \in Int
        BY <1>1
      <4>2. QED
        BY <1>3, <2>3, <4>1
    <3>2. u[i] = t[i - m]
      BY <1>1, <2>3
    <3>3. u[j] = t[j - m]
      BY <1>1, <3>1
    <3>4. t[i - m] < t[j - m]
      BY <1>2, <3>1
    <3>5. QED
      BY <3>2, <3>3, <3>4
  <2>4. QED
    BY <1>1, <1>3, <2>1, <2>2, <2>3
<1>4. DOMAIN u = 1 .. m + n
  BY <1>1
<1>5. QED
  BY <1>1, <1>3, <1>4 DEF u, Increasing

(* Two sequences under a third one, joined, are under it.                  *)
LEMMA UnderConcat ==
  ASSUME NEW s \in Seq(Nat), NEW t \in Seq(Nat), NEW u,
         Under(s, u), Under(t, u)
  PROVE  Under(s \o t, u)
<1>1. /\ Len(s \o t) = Len(s) + Len(t)
      /\ Len(s) \in Nat /\ Len(t) \in Nat
      /\ \A i \in 1 .. Len(s) + Len(t) :
           (s \o t)[i] = IF i <= Len(s) THEN s[i] ELSE t[i - Len(s)]
  BY ConcatProperties
<1>2. \A i \in 1 .. Len(s) + Len(t) : i > Len(s) => i - Len(s) \in 1 .. Len(t)
  BY <1>1
<1>3. ASSUME NEW i \in 1 .. Len(s) + Len(t), NEW j \in 1 .. Len(u)
      PROVE  (s \o t)[i] < u[j]
  <2>1. CASE i <= Len(s)
    <3>1. i \in 1 .. Len(s) /\ (s \o t)[i] = s[i]
      BY <1>1, <2>1
    <3>2. QED
      BY <3>1 DEF Under
  <2>2. CASE i > Len(s)
    <3>1. (s \o t)[i] = t[i - Len(s)]
      BY <1>1, <2>2
    <3>2. QED
      BY <1>2, <2>2, <3>1 DEF Under
  <2>3. QED
    BY <1>1, <2>1, <2>2
<1>4. QED
  BY <1>1, <1>3 DEF Under

(* The order of the places, as InOrder states it of one sequence.          *)
LEMMA WayIncreases == IInv => InOrder
<1> SUFFICES ASSUME IInv PROVE InOrder
  OBVIOUS
<1> DEFINE one(x) == IF x = None THEN <<>> ELSE <<x>>
           a == <<shown>>
           b == Content
           c == one(framePushing)
           d == one(decoding)
           e == queue
           f == one(pushing)
           g == <<nextRead>>
<1> USE PacketQueueAssumption, MediaQueuesAssumption
    DEF PacketQueueAssumption, MediaQueuesAssumption
<1>1. /\ framePushing \in Packets \cup {None}
           /\ decoding \in Packets \cup {None}
      /\ pushing \in Packets \cup {None} /\ nextRead \in Nat /\ shown \in Nat
      /\ queue \in Seq(Packets) /\ Content \in Seq(Packets)
  BY DEF IInv, TypeOK, FrameQueueTypeOK, PacketQueueTypeOK, Filled
<1>2. /\ a \in Seq(Nat) /\ b \in Seq(Nat) /\ c \in Seq(Nat) /\ d \in Seq(Nat)
      /\ e \in Seq(Nat) /\ f \in Seq(Nat) /\ g \in Seq(Nat)
  <2>1. \A x \in Packets \cup {None} : one(x) \in Seq(Nat)
    OBVIOUS
  <2>2. <<shown>> \in Seq(Nat) /\ <<nextRead>> \in Seq(Nat)
    BY <1>1
  <2>3. Content \in Seq(Nat)
    BY <1>1, SeqMonotonic
  <2>4. queue \in Seq(Nat)
    BY <1>1, SeqMonotonic
  <2>5. QED
    BY <1>1, <2>1, <2>2, <2>3, <2>4
<1>3. \A x \in Packets \cup {None} :
        /\ Len(one(x)) = (IF x = None THEN 0 ELSE 1)
        /\ x # None => x \in Packets /\ one(x)[1] = x
  OBVIOUS
<1>4. Len(a) = 1 /\ a[1] = shown /\ Len(g) = 1 /\ g[1] = nextRead
  OBVIOUS
<1>5. /\ Increasing(a) /\ Increasing(c) /\ Increasing(d) /\ Increasing(f)
      /\ Increasing(g)
  BY <1>1 DEF Increasing
<1>6. Increasing(b) /\ Increasing(e)
  <2>1. DOMAIN Content = 1 .. Len(Content) /\ DOMAIN queue = 1 .. Len(queue)
    BY <1>1
  <2>2. Increasing(Content)
    BY <2>1 DEF Increasing, IInv, Ordered, RingAhead
  <2>3. Increasing(queue)
    BY <2>1 DEF Increasing, IInv, Ordered, QueueAhead
  <2>4. QED
    BY <2>2, <2>3
<1>7. /\ Under(a, b) /\ Under(a, c) /\ Under(a, d) /\ Under(a, e)
           /\ Under(a, f)
      /\ Under(a, g)
  <2> USE DEF Under, IInv, Ordered, Ahead
  <2>1. Under(a, b) /\ Under(a, e)
    BY <1>4
  <2>2. Under(a, c)
    BY <1>1, <1>3, <1>4
  <2>3. Under(a, d)
    BY <1>1, <1>3, <1>4
  <2>4. Under(a, f)
    BY <1>1, <1>3, <1>4
  <2>5. Under(a, g)
    BY <1>4
  <2>6. QED
    BY <2>1, <2>2, <2>3, <2>4, <2>5
<1>8. /\ Under(b, c) /\ Under(b, d) /\ Under(b, e) /\ Under(b, f)
      /\ Under(b, g)
  BY <1>1, <1>3, <1>4 DEF Under, IInv, Ordered, RingAhead
<1>9. Under(c, d) /\ Under(c, e) /\ Under(c, f) /\ Under(c, g)
  BY <1>1, <1>3, <1>4 DEF Under, IInv, Ordered, HandsAhead
<1>10. Under(d, e) /\ Under(d, f) /\ Under(d, g)
  BY <1>1, <1>3, <1>4 DEF Under, IInv, Ordered, HandsAhead
<1>11. Under(e, f) /\ Under(e, g) /\ Under(f, g)
  BY <1>1, <1>3, <1>4 DEF Under, IInv, Ordered, QueueAhead
<1> HIDE DEF a, b, c, d, e, f, g
<1> DEFINE ab == a \o b
           abc == ab \o c
           abcd == abc \o d
           abcde == abcd \o e
           abcdef == abcde \o f
           way == abcdef \o g
<1>12. /\ ab \in Seq(Nat) /\ Increasing(ab) /\ Under(ab, c) /\ Under(ab, d)
       /\ Under(ab, e) /\ Under(ab, f) /\ Under(ab, g)
  BY <1>2, <1>5, <1>6, <1>7, <1>8, IncreasingConcat, UnderConcat
<1> HIDE DEF ab
<1>13. /\ abc \in Seq(Nat) /\ Increasing(abc) /\ Under(abc, d)
       /\ Under(abc, e) /\ Under(abc, f) /\ Under(abc, g)
  BY <1>2, <1>5, <1>9, <1>12, IncreasingConcat, UnderConcat
<1> HIDE DEF abc
<1>14. /\ abcd \in Seq(Nat) /\ Increasing(abcd) /\ Under(abcd, e)
       /\ Under(abcd, f) /\ Under(abcd, g)
  BY <1>2, <1>5, <1>10, <1>13, IncreasingConcat, UnderConcat
<1> HIDE DEF abcd
<1>15. abcde \in Seq(Nat) /\ Increasing(abcde) /\ Under(abcde, f)
         /\ Under(abcde, g)
  BY <1>2, <1>6, <1>11, <1>14, IncreasingConcat, UnderConcat
<1> HIDE DEF abcde
<1>16. abcdef \in Seq(Nat) /\ Increasing(abcdef) /\ Under(abcdef, g)
  BY <1>2, <1>5, <1>11, <1>15, IncreasingConcat, UnderConcat
<1> HIDE DEF abcdef
<1>17. Increasing(way)
  BY <1>2, <1>5, <1>16, IncreasingConcat
<1>18. QED
  BY <1>17 DEF InOrder, Increasing, abcdef, abcde, abcd, abc, ab, a, b, c, d,
     e,
     f, g

(***************************************************************************)
(* A packet is shown at most once and never after a later one, through     *)
(* both queues, the hands of the threads, flushes and restarts.            *)
(***************************************************************************)
THEOREM PacketsInOrder == Spec => []InOrder
BY WayIncreases, Invariance, PTL

-----------------------------------------------------------------------------
(* The channels of MediaChannels: which of their actions a step is.        *)
LEMMA ChannelStep ==
  ASSUME IInv, [Next]_vars
  PROVE  [Channels!Next]_(Channels!vars)
<1> USE MediaQueuesAssumption
    DEF MediaQueuesAssumption, IInv, Channels!Next, Channels!vars, packetVars,
        frameVars, threadVars
<1>1. CASE DemuxReads
  BY <1>1, ContentSame DEF DemuxReads, CallPush
<1>2. CASE DemuxPushes
  <2>1. UNCHANGED Content
    BY <1>2, ContentSame DEF DemuxPushes
  <2>2. CASE PushQueues
    <3>1. pushing \in Packets
      BY <2>2 DEF PushQueues, TypeOK, PacketQueueTypeOK
    <3>2. Channels!PutPacket(pushing)
      BY <2>1, <2>2, <3>1, <1>2, PacketQueueAssumption
         DEF DemuxPushes, PushQueues, Full, Bytes,
         Channels!PutPacket, PacketQueueAssumption, TypeOK, PacketQueueTypeOK
    <3>3. QED
      BY <3>1, <3>2
  <2>3. QED
    BY <1>2, <2>1, <2>2 DEF DemuxPushes, PushSleeps, PushDrops
<1>3. CASE DemuxLeaves
  BY <1>3, ContentSame DEF DemuxLeaves
<1>4. CASE DecodeLoop
  BY <1>4, ContentSame DEF DecodeLoop
<1>5. CASE DecodePops
  <2>1. UNCHANGED Content
    BY <1>5, ContentSame DEF DecodePops
  <2>2. QED
    BY <1>5, <2>1 DEF DecodePops, PopSleeps, PopNothing, PopPacket,
       Channels!TakePacket
<1>6. CASE DecodeCallsPush
  BY <1>6, ContentSame DEF DecodeCallsPush, FrameCallPush
<1>7. CASE DecodePushes
  <2>1. CASE FramePushQueues
    <3>1. Content' = Append(Content, framePushing) /\ framePushing \in Packets
      BY <1>7, <2>1, ContentPushed DEF DecodePushes, Threads, TypeOK
    <3>2. Len(Content) = count
      BY ContentIsRing, FrameQueueAssumption
         DEF RingOf, TypeOK, FrameQueueTypeOK, Filled
    <3>3. Channels!PutFrame(framePushing)
      BY <1>7, <2>1, <3>1, <3>2 DEF DecodePushes, FramePushQueues, FrameRoom,
         Channels!PutFrame
    <3>4. QED
      BY <3>1, <3>3
  <2>2. QED
    BY <1>7, <2>1, ContentSame
       DEF DecodePushes, FramePushSleeps, FramePushDrops
<1>8. CASE RefreshLoop
  BY <1>8, ContentSame DEF RefreshLoop
<1>9. CASE RefreshPops
  <2>1. ASSUME NEW f \in Frames, FramePop(f)
        PROVE  Channels!TakeFrame
    <3>1. Content # <<>> /\ Content' = Tail(Content)
      BY <2>1, ContentPopped DEF TypeOK
    <3>2. QED
      BY <1>9, <2>1, <3>1 DEF RefreshPops, FramePop, Channels!TakeFrame
  <2>2. QED
    BY <1>9, <2>1, ContentSame DEF RefreshPops, FramePopSleeps, FramePopNothing
<1>10. CASE SeekFlushesPackets
  BY <1>10, ContentSame DEF SeekFlushesPackets, Call, FlushPackets,
       EmptyPackets, Channels!ClearPackets
<1>11. CASE StopClosesPackets
  BY <1>11, ContentSame DEF StopClosesPackets, Call, ShutdownPackets,
       NotifyBoth, Channels!ClosePackets
<1>12. CASE SeekFlushesFrames
  BY <1>12, ContentCleared DEF SeekFlushesFrames, ApiStep, FlushFrames,
       Channels!ClearFrames
<1>13. CASE StopClosesFrames
  BY <1>13, ContentSame DEF StopClosesFrames, ApiStep, ShutdownFrames,
       Channels!CloseFrames
<1>14. CASE StopJoins
  BY <1>14, ContentSame DEF StopJoins, ApiStep
<1>15. CASE StopFlushes
  BY <1>15, ContentSame, ContentCleared DEF StopFlushes, ApiStep,
       FlushPackets, EmptyPackets, FlushFrames, Channels!ClearPackets,
       Channels!ClearFrames
<1>16. CASE PlayRestarts
  BY <1>16, ContentSame, ContentCleared DEF PlayRestarts, ApiStep,
       RestartPackets, EmptyPackets, RestartFrames, Channels!ClearPackets,
       Channels!ClearFrames
<1>17. CASE PlayCreatesThreads
  BY <1>17, ContentSame DEF PlayCreatesThreads, ApiStep
<1>18. CASE Spurious
  BY <1>18, ContentSame DEF Spurious, PushWakes, PopWakes, FramePushWakes,
       FramePopWakes
<1>19. CASE UNCHANGED vars
  BY <1>19, ContentSame DEF vars
<1>20. QED
  BY <1>1, <1>2, <1>3, <1>4, <1>5, <1>6, <1>7, <1>8, <1>9, <1>10, <1>11,
       <1>12, <1>13, <1>14, <1>15, <1>16, <1>17, <1>18, <1>19
     DEF Next, DemuxThread, DecodeThread, RefreshThread, ApiContinues

(***************************************************************************)
(* The two queues implement the two channels that the model of the player  *)
(* assumes: each step of theirs is a step of the channels, or none.        *)
(***************************************************************************)
THEOREM QueuesImplementChannels == Spec => ImplementsChannels
<1>1. Init => Channels!Init
  BY DEF Init, PacketQueueInit, FrameQueueInit, Channels!Init, Content
<1>2. IInv /\ [Next]_vars => [Channels!Next]_(Channels!vars)
  BY ChannelStep
<1>3. QED
  BY <1>1, <1>2, Invariance, PTL DEF Spec, ImplementsChannels
=============================================================================
