--------------------------- MODULE SessionKeyCache ---------------------------
(***************************************************************************)
(* The keys of the encrypted files a session has opened: SessionKeyCache   *)
(* as open() of FFmpegDemuxer uses it.  An entry is found by the header of *)
(* the file; keyClock orders the uses as steady_clock does.                *)
(*                                                                         *)
(* Left out: the reopening of a file for a seek after its end.  It looks   *)
(* into a static cache of its own, which nothing is ever put into.         *)
(***************************************************************************)
EXTENDS Integers, FiniteSets, SequencesExt

CONSTANTS
  KeyFiles,
  KeyEntries,   (* MAX_ENTRIES                                              *)
  KeyCalls      (* bound: calls of open()                                   *)

ASSUME KeyAssumption == KeyEntries \in Nat \ {0} /\ KeyCalls \in Nat

VARIABLES
  keyUsed,     (* lastUsed of the entries of open()'s cache                 *)
  keyClock,
  keyRecent    (* the files opened, the latest first                        *)

KeyVars == <<keyUsed, keyClock, keyRecent>>

KeyTypeOK ==
  /\ DOMAIN keyUsed \subseteq KeyFiles
  /\ \A f \in DOMAIN keyUsed : keyUsed[f] \in 0 .. KeyCalls
  /\ Cardinality(DOMAIN keyUsed) <= KeyEntries
  /\ keyClock \in 0 .. KeyCalls
  /\ keyRecent \in Seq(KeyFiles)

KeyInit ==
  /\ keyUsed = << >> /\ keyClock = 0
  /\ keyRecent = << >>

KeyTick == keyClock < KeyCalls /\ keyClock' = keyClock + 1

KeyLatest(f) == <<f>> \o RemoveFirst(keyRecent, f)

(* evictIfNeeded(): the entries that stay when one is to be put.           *)
KeyEvicted ==
  IF Cardinality(DOMAIN keyUsed) < KeyEntries THEN DOMAIN keyUsed
  ELSE {f \in DOMAIN keyUsed : \E g \in DOMAIN keyUsed : keyUsed[g] < keyUsed[f]}

(* open(): tryFindKey() finds the entry and notes its use ...              *)
KeyHit(f) ==
  /\ KeyTick /\ f \in DOMAIN keyUsed
  /\ keyUsed' = [keyUsed EXCEPT ![f] = keyClock]
  /\ keyRecent' = KeyLatest(f)

(* ... or the user is asked, and what matches the header's HMAC is kept.   *)
KeyAsked(f) ==
  /\ KeyTick /\ f \notin DOMAIN keyUsed
  /\ keyUsed' = [g \in KeyEvicted \cup {f} |->
                   IF g = f THEN keyClock ELSE keyUsed[g]]
  /\ keyRecent' = KeyLatest(f)

(* A wrong answer keeps nothing.                                           *)
KeyWrong(f) ==
  /\ KeyTick /\ f \notin DOMAIN keyUsed
  /\ UNCHANGED <<keyUsed, keyRecent>>

KeyNext ==
  \E f \in KeyFiles : KeyHit(f) \/ KeyAsked(f) \/ KeyWrong(f)

KeySpec == KeyInit /\ [][KeyNext]_KeyVars

-----------------------------------------------------------------------------
(* The user is not asked twice for a file among the last KeyEntries ones   *)
(* opened: the eviction removes what was used longest ago, and an open     *)
(* that finds its key counts as a use.                                     *)
KeyRecentKept ==
  DOMAIN keyUsed =
    {keyRecent[i] : i \in {j \in DOMAIN keyRecent : j <= KeyEntries}}
=============================================================================
