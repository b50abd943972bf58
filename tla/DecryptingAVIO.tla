--------------------------- MODULE DecryptingAVIO ---------------------------
(***************************************************************************)
(* DecryptingAVIOContext and AesCtr256: FFmpeg reads and seeks in an .hlv  *)
(* file, and every byte is decrypted with a byte of the keystream.  The    *)
(* keystream is made a block at a time, by one of two ways: the CTR mode   *)
(* of the platform's cipher, or ECB and a counter of the class's own when  *)
(* that mode is refused.  A read is decrypted a byte at a step: aesRight   *)
(* compares the keystream's position with the byte's.  logicalPos and      *)
(* aesLogicalPos are assigned together everywhere, so that the seek of     *)
(* readPacket() never happens: one variable.                               *)
(***************************************************************************)
EXTENDS Integers

CONSTANTS
  AesBlock,   (* 16                                                         *)
  AesSize     (* originalSize                                               *)

ASSUME AesAssumption == AesBlock \in Nat \ {0} /\ AesSize \in Nat

VARIABLES
  aesCtr,       (* m_useCtrMode                                             *)
  aesPos,       (* logicalPos                                               *)
  aesCounter,   (* m_counter                                                *)
  aesIv,        (* the counter in m_counterBlock                            *)
  aesSkip,      (* m_partialSkip                                            *)
  aesKs,        (* m_keystreamPos, or the position in a bulk call's block   *)
  aesKsBlock,   (* the block m_keystream was made of                        *)
  aesTodo,      (* bytes of this read still to decrypt                      *)
  aesRight,     (* since the last seek, each byte had its own keystream byte *)
  aesAligned    (* since the last seek, no bulk call ended within a block   *)

AesVars == <<aesCtr, aesPos, aesCounter, aesIv, aesSkip, aesKs, aesKsBlock,
             aesTodo, aesRight, aesAligned>>

AesBlocks == 0 .. AesSize \div AesBlock + 1

AesTypeOK ==
  /\ aesCtr \in BOOLEAN /\ aesPos \in 0 .. AesSize
  /\ aesCounter \in AesBlocks /\ aesIv \in 0 .. AesSize /\ aesKsBlock \in AesBlocks
  /\ aesSkip \in 0 .. AesBlock - 1 /\ aesKs \in 0 .. AesBlock
  /\ aesTodo \in 0 .. AesSize /\ aesPos + aesTodo <= AesSize
  /\ aesRight \in BOOLEAN /\ aesAligned \in BOOLEAN

(* init()                                                                  *)
AesInit ==
  /\ aesCtr \in BOOLEAN /\ aesPos = 0 /\ aesCounter = 0 /\ aesIv = 0
  /\ aesSkip = 0 /\ aesKs = (IF aesCtr THEN 0 ELSE AesBlock) /\ aesKsBlock = 0
  /\ aesTodo = 0 /\ aesRight = TRUE /\ aesAligned = TRUE

(* seek() of the context, to an offset within the bounds, and of the cipher*)
AesSeek(p) ==
  /\ aesTodo = 0
  /\ aesPos' = p
  /\ aesCounter' = p \div AesBlock /\ aesIv' = p \div AesBlock
  /\ aesSkip' = p % AesBlock
  /\ aesKs' = IF aesCtr THEN 0 ELSE AesBlock
  /\ aesAligned' = TRUE /\ aesRight' = TRUE
  /\ UNCHANGED <<aesCtr, aesKsBlock, aesTodo>>

(* readPacket(): as many bytes as asked for and there are; the file may    *)
(* give fewer.                                                             *)
AesRead(n) ==
  /\ aesTodo = 0 /\ aesPos + n <= AesSize
  /\ aesTodo' = n
  /\ UNCHANGED <<aesCtr, aesPos, aesCounter, aesIv, aesSkip, aesKs, aesKsBlock,
                 aesRight, aesAligned>>

AesDecrypts(block, offset) ==
  /\ aesTodo > 0
  /\ aesRight' = (aesRight /\ block * AesBlock + offset = aesPos)
  /\ aesPos' = aesPos + 1 /\ aesTodo' = aesTodo - 1

AesEcb_Mutant ==
  /\ ~aesCtr
  /\ LET new    == aesKs = AesBlock
         block  == IF new THEN aesCounter ELSE aesKsBlock
         offset == IF new THEN aesSkip ELSE aesKs
     IN  /\ AesDecrypts(block, offset)
         /\ aesKsBlock' = block /\ aesKs' = offset + 1
         /\ aesCounter' = IF new THEN aesCounter + 1 ELSE aesCounter
         /\ aesIv' = block
  /\ UNCHANGED <<aesCtr, aesAligned, aesSkip>>

(* processEcb(): a new block of keystream when the last one is used up;    *)
(* the first after a seek begins where the seek fell.                      *)
AesEcb ==
  /\ ~aesCtr
  /\ LET new    == aesKs = AesBlock
         block  == IF new THEN aesCounter ELSE aesKsBlock
         offset == IF new THEN aesSkip ELSE aesKs
     IN  /\ AesDecrypts(block, offset)
         /\ aesKsBlock' = block /\ aesKs' = offset + 1
         /\ aesCounter' = IF new THEN aesCounter + 1 ELSE aesCounter
         /\ aesIv' = IF new THEN block ELSE aesIv
         /\ aesSkip' = IF new THEN 0 ELSE aesSkip
  /\ UNCHANGED <<aesCtr, aesAligned>>

(* processCtr(): the rest of the block a seek fell into ...                *)
AesCtrRest ==
  /\ aesCtr /\ aesSkip > 0
  /\ AesDecrypts(aesIv, aesSkip)
  /\ LET over == aesSkip + 1 = AesBlock
     IN  /\ aesSkip' = IF over THEN 0 ELSE aesSkip + 1
         /\ aesCounter' = IF over THEN aesCounter + 1 ELSE aesCounter
         /\ aesIv' = IF over THEN aesCounter + 1 ELSE aesIv
  /\ UNCHANGED <<aesCtr, aesKs, aesKsBlock, aesAligned>>

(* ... and the platform's cipher for all that follows, which moves the     *)
(* counter block but not m_counter.  A call that ends within a block drops *)
(* its rest: the platform leaves the counter at that block or the next.    *)
AesCtrBulk ==
  /\ aesCtr /\ aesSkip = 0
  /\ AesDecrypts(aesIv, aesKs)
  /\ LET over == aesKs + 1 = AesBlock
         cut  == aesTodo = 1 /\ ~over
     IN  /\ aesKs' = IF over \/ cut THEN 0 ELSE aesKs + 1
         /\ aesIv' \in IF over THEN {aesIv + 1}
                       ELSE IF cut THEN {aesIv, aesIv + 1} ELSE {aesIv}
         /\ aesAligned' = (aesAligned /\ ~cut)
  /\ UNCHANGED <<aesCtr, aesCounter, aesKsBlock, aesSkip>>

AesNext ==
  \/ \E p \in 0 .. AesSize : AesSeek(p)
  \/ \E n \in 1 .. AesSize : AesRead(n)
  \/ AesEcb \/ AesCtrRest \/ AesCtrBulk

AesSpec == AesInit /\ [][AesNext]_AesVars

-----------------------------------------------------------------------------
(* Whatever reads and seeks came before, a byte is decrypted with the byte *)
(* of the keystream at its own position: the two seeks, the partial blocks *)
(* and the counter agree.  With the platform's CTR mode this needs that no *)
(* bulk call since the last seek ended within a block.                     *)
AesOwnKeystream ==
  (aesCtr => aesAligned) => aesRight
=============================================================================
