------------------------------ MODULE EventBus ------------------------------
(***************************************************************************)
(* EventBus: threads publish into a lock-free queue; the thread that       *)
(* dispatches drains it and then, with subscribersMutex_ held, calls the   *)
(* subscribers back.  Subscribing and unsubscribing take the same mutex.   *)
(* One type of event: the lists of two types do not meet.  The queue keeps *)
(* the order of one publisher's events and no other: busQueue[p] counts    *)
(* those of p that wait, busTaken[p] those dispatch() has drained, and the *)
(* drained ones are in busBatch.  The callbacks of the program only post   *)
(* to Qt's event loop: none of them calls the bus.                         *)
(***************************************************************************)
EXTENDS Integers, FiniteSets, SequencesExt

CONSTANTS
  BusPublishers, BusSubscribers,
  BusEvents    (* bound: events of one publisher                            *)

ASSUME EventBusAssumption == BusEvents \in Nat

VARIABLES
  busQueue, busTaken,
  busBatch,    (* events: the publishers, in the order of the drain         *)
  busList,     (* subscribers_[type]                                        *)
  busAt,       (* where dispatch() is                                       *)
  busCursor,   (* the subscriber called next                                *)
  busSeen      (* busSeen[s][p]: the events of p that s was called with,    *)
               (* and those that were over when it subscribed               *)

BusVars == <<busQueue, busTaken, busBatch, busList, busAt, busCursor, busSeen>>

BusTypeOK ==
  /\ busQueue \in [BusPublishers -> 0 .. BusEvents]
  /\ busTaken \in [BusPublishers -> 0 .. BusEvents]
  /\ busBatch \in Seq(BusPublishers) /\ busList \in Seq(BusSubscribers)
  /\ busAt \in {"idle", "drained", "calling"} /\ busCursor \in Nat
  /\ busSeen \in [BusSubscribers -> [BusPublishers -> Nat]]

BusZero == [p \in BusPublishers |-> 0]

BusInit ==
  /\ busQueue = BusZero /\ busTaken = BusZero /\ busBatch = << >>
  /\ busList = << >> /\ busAt = "idle" /\ busCursor = 1
  /\ busSeen = [s \in BusSubscribers |-> BusZero]

BusSubscribed(s) == \E i \in DOMAIN busList : busList[i] = s

BusMutexFree == busAt # "calling"

(* publish().                                                              *)
BusPublish(p) ==
  /\ busQueue[p] + busTaken[p] < BusEvents
  /\ busQueue' = [busQueue EXCEPT ![p] = @ + 1]
  /\ UNCHANGED <<busTaken, busBatch, busList, busAt, busCursor, busSeen>>

(* Of the events drained, p's are the last ones of busTaken[p].            *)
BusInBatch(p) == Cardinality({i \in DOMAIN busBatch : busBatch[i] = p})

(* subscribe(): what was drained before is over for it, unless it waits    *)
(* in a batch whose callbacks have not begun.                              *)
BusSubscribe(s) ==
  /\ BusMutexFree /\ ~BusSubscribed(s)
  /\ busList' = Append(busList, s)
  /\ busSeen' = [busSeen EXCEPT
       ![s] = [p \in BusPublishers |-> busTaken[p] - BusInBatch(p)]]
  /\ UNCHANGED <<busQueue, busTaken, busBatch, busAt, busCursor>>

(* unsubscribe(): waits for a dispatch that is calling back.               *)
BusUnsubscribe(s) ==
  /\ BusMutexFree /\ BusSubscribed(s)
  /\ busList' = RemoveFirst(busList, s)
  /\ UNCHANGED <<busQueue, busTaken, busBatch, busAt, busCursor, busSeen>>

(* dispatch(): takes from the queue until it finds it empty ...            *)
BusDrain(p) ==
  /\ busAt = "idle" /\ busQueue[p] > 0
  /\ busQueue' = [busQueue EXCEPT ![p] = @ - 1]
  /\ busTaken' = [busTaken EXCEPT ![p] = @ + 1]
  /\ busBatch' = Append(busBatch, p)
  /\ UNCHANGED <<busList, busAt, busCursor, busSeen>>

BusDrained ==
  /\ busAt = "idle" /\ busQueue = BusZero /\ busBatch # << >>
  /\ busAt' = "drained"
  /\ UNCHANGED <<busQueue, busTaken, busBatch, busList, busCursor, busSeen>>

(* ... takes the mutex, and calls back every subscriber with each event.   *)
BusLock ==
  /\ busAt = "drained"
  /\ busAt' = "calling" /\ busCursor' = 1
  /\ UNCHANGED <<busQueue, busTaken, busBatch, busList, busSeen>>

BusCall ==
  /\ busAt = "calling" /\ busBatch # << >> /\ busCursor <= Len(busList)
  /\ busSeen' = [busSeen EXCEPT ![busList[busCursor]][Head(busBatch)] = @ + 1]
  /\ busCursor' = busCursor + 1
  /\ UNCHANGED <<busQueue, busTaken, busBatch, busList, busAt>>

BusNextEvent ==
  /\ busAt = "calling" /\ busBatch # << >> /\ busCursor > Len(busList)
  /\ busBatch' = Tail(busBatch) /\ busCursor' = 1
  /\ UNCHANGED <<busQueue, busTaken, busList, busAt, busSeen>>

BusUnlock ==
  /\ busAt = "calling" /\ busBatch = << >>
  /\ busAt' = "idle"
  /\ UNCHANGED <<busQueue, busTaken, busBatch, busList, busCursor, busSeen>>

BusDispatch ==
  \/ \E p \in BusPublishers : BusDrain(p)
  \/ BusDrained \/ BusLock \/ BusCall \/ BusNextEvent \/ BusUnlock

BusNext ==
  \/ \E p \in BusPublishers : BusPublish(p)
  \/ \E s \in BusSubscribers : BusSubscribe(s) \/ BusUnsubscribe(s)
  \/ BusDispatch

BusFairness == WF_BusVars(BusDispatch)

BusSpec == BusInit /\ [][BusNext]_BusVars /\ BusFairness

-----------------------------------------------------------------------------
(* Whoever subscribes and unsubscribes meanwhile, a dispatch that has made *)
(* its callbacks has called every subscriber with every event taken since  *)
(* it subscribed, once and whatever publisher it came from; one that has   *)
(* not is short of its batch by exactly that.                              *)
BusNothingMissed ==
  busAt # "calling" =>
    \A s \in BusSubscribers, p \in BusPublishers :
      BusSubscribed(s) => busSeen[s][p] = busTaken[p] - BusInBatch(p)
=============================================================================
