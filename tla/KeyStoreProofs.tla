--------------------------- MODULE KeyStoreProofs ---------------------------
(***************************************************************************)
(* Theorems about the key store, for every length of the certificate and   *)
(* every number of keys that are made before one of them stays.            *)
(***************************************************************************)
EXTENDS KeyStore, TLAPS

(* While the sector is written nothing was shown yet, and flash holds as   *)
(* much of the pair in RAM as the pages that are done.                     *)
Writing ==
  /\ phase = "erasing" => ~head.magic
  /\ phase \in {"erasing", "programming"} => pk \in Keys /\ cert = pk /\ shown = Nothing
  /\ (phase = "programming" /\ page = 1) => head = BlankHead /\ tail = BlankTail
  /\ (phase = "programming" /\ page > 1) =>
        head = Whole(pk) /\ \A p \in 2..Pages : p < page => tail[p] = pk

(* The magic vouches for a scalar, and a whole certificate for its key.    *)
Vouched == head.magic => /\ head.key # "none"
                         /\ StoredCert \in Keys => head.key = StoredCert

(* What was shown once is what every later boot finds.                     *)
Remembered ==
  /\ shown # Nothing => head.magic /\ shown = [key |-> head.key, cert |-> StoredCert]
  /\ phase = "ready" => pk = head.key /\ cert = StoredCert /\ shown # Nothing

KeyInv == KeyTypeOK /\ Writing /\ Vouched /\ Remembered

-----------------------------------------------------------------------------
LEMMA StoredCertType ==
  ASSUME KeyTypeOK
  PROVE  StoredCert \in Keys \cup {"none", "cut"}
BY DEF KeyTypeOK, Heads, StoredCert

LEMMA KeyInit_Inv == KeyInit => KeyInv
<1> SUFFICES ASSUME KeyInit PROVE KeyInv
  OBVIOUS
<1>1. KeyTypeOK
  BY KeyStoreAssumption
     DEF KeyInit, KeyTypeOK, Phases, BlankHead, BlankTail, Heads, Tails, Scalars
<1>2. Writing /\ Vouched /\ Remembered
  BY DEF KeyInit, Writing, Vouched, Remembered, BlankHead
<1>3. QED
  BY <1>1, <1>2 DEF KeyInv

(* A step that leaves flash and memory of the past alone, and does not     *)
(* start to write or come up.                                              *)
LEMMA Quiet_Inv ==
  ASSUME KeyInv, UNCHANGED <<flash, shown>>,
         phase' \in Phases \ {"erasing", "programming", "ready"},
         pk' \in Keys \cup {"none", "other"}, cert' \in Keys \cup {"none", "cut"},
         page' \in 1..Pages + 1, used' \subseteq Keys
  PROVE  KeyInv'
<1>1. StoredCert' = StoredCert
  BY DEF StoredCert, flash
<1>2. KeyTypeOK'
  BY DEF KeyInv, KeyTypeOK, flash
<1>3. Writing' /\ Vouched' /\ Remembered'
  BY <1>1 DEF KeyInv, Writing, Vouched, Remembered, flash
<1>4. QED
  BY <1>2, <1>3 DEF KeyInv

LEMMA Boot_Inv ==
  ASSUME KeyInv, PowerOn \/ Seed
  PROVE  KeyInv'
<1>1. UNCHANGED <<ram, flash, page, used, shown>> /\ phase' \in {"boot", "seeded", "hung"}
  BY DEF PowerOn, Seed
<1>2. QED
  BY <1>1, Quiet_Inv DEF KeyInv, KeyTypeOK, Phases, ram

LEMMA FlashLoad_Inv ==
  ASSUME KeyInv, FlashLoad
  PROVE  KeyInv'
<1>1. KeyTypeOK /\ StoredCert \in Keys \cup {"none", "cut"}
  BY StoredCertType DEF KeyInv
<1>2. head.key \in Keys \cup {"other", "bad"}
  BY <1>1 DEF KeyInv, Vouched, FlashLoad, KeyTypeOK, Heads, Scalars
<1>3. UNCHANGED <<flash, page, used>> /\ cert' = StoredCert /\ head.magic
  BY DEF FlashLoad
<1>4. CASE phase' = "hung" /\ pk' \in {pk, head.key} \ {"bad"} /\ UNCHANGED shown
  <2>1. pk' \in Keys \cup {"none", "other"}
    BY <1>1, <1>2, <1>4 DEF KeyTypeOK
  <2>2. QED
    BY <1>1, <1>3, <1>4, <2>1, Quiet_Inv DEF KeyTypeOK, Phases
<1>5. CASE head.key # "bad" /\ pk' = head.key /\ ComeUp(head.key, StoredCert)
  <2>1. StoredCert' = StoredCert
    BY <1>3 DEF StoredCert, flash
  <2>2. /\ phase' = "ready"
        /\ shown' = [key |-> head.key, cert |-> StoredCert]
    BY <1>5 DEF ComeUp, KeyInv, Remembered
  <2>3. shown' # Nothing /\ shown' \in Identities
    BY <1>1, <1>2, <1>5, <2>2, KeyStoreAssumption DEF Nothing, Identities
  <2>4. KeyTypeOK'
    BY <1>1, <1>2, <1>3, <1>5, <2>2, <2>3 DEF KeyTypeOK, Phases, flash
  <2>5. Writing' /\ Vouched' /\ Remembered'
    BY <1>3, <1>5, <2>1, <2>2, <2>3 DEF KeyInv, Writing, Vouched, Remembered, flash
  <2>6. QED
    BY <2>4, <2>5 DEF KeyInv
<1>6. QED
  BY <1>4, <1>5 DEF FlashLoad

LEMMA Generate_Inv ==
  ASSUME KeyInv, Generate
  PROVE  KeyInv'
<1>1. KeyTypeOK /\ ~head.magic /\ UNCHANGED <<flash, page, shown>> /\ shown = Nothing
  BY DEF KeyInv, Generate, Remembered
<1>2. /\ pk' \in Keys \cup {"none", "other"}
      /\ cert' \in Keys \cup {"none", "cut"}
      /\ used' \subseteq Keys
  BY <1>1 DEF Generate, KeyTypeOK, ram
<1>3. CASE phase' = "hung"
  BY <1>1, <1>2, <1>3, Quiet_Inv DEF KeyTypeOK, Phases
<1>4. CASE phase' = "erasing"
  <2>1. pk' \in Keys /\ cert' = pk'
    BY <1>4 DEF Generate
  <2>2. StoredCert' = StoredCert
    BY <1>1 DEF StoredCert, flash
  <2>3. KeyTypeOK'
    BY <1>1, <1>2, <1>4 DEF KeyTypeOK, Phases, flash
  <2>4. Writing' /\ Vouched' /\ Remembered'
    BY <1>1, <1>4, <2>1, <2>2 DEF Writing, Vouched, Remembered, flash
  <2>5. QED
    BY <2>3, <2>4 DEF KeyInv
<1>5. QED
  BY <1>3, <1>4 DEF Generate

LEMMA Erase_Inv ==
  ASSUME KeyInv, Erase
  PROVE  KeyInv'
<1>1. /\ phase' = "programming" /\ head' = BlankHead /\ tail' = BlankTail /\ page' = 1
      /\ UNCHANGED <<ram, used, shown>>
      /\ pk \in Keys /\ cert = pk /\ shown = Nothing
  BY DEF Erase, KeyInv, Writing
<1>2. KeyTypeOK'
  BY <1>1, KeyStoreAssumption
     DEF KeyInv, KeyTypeOK, Phases, BlankHead, BlankTail, Heads, Tails, Scalars, ram
<1>3. Writing' /\ Vouched' /\ Remembered'
  BY <1>1 DEF Writing, Vouched, Remembered, BlankHead, ram
<1>4. QED
  BY <1>2, <1>3 DEF KeyInv

LEMMA ProgramPage_Inv ==
  ASSUME KeyInv, ProgramPage
  PROVE  KeyInv'
<1>1. /\ KeyTypeOK /\ phase = "programming" /\ page \in 1..Pages /\ page' = page + 1
      /\ UNCHANGED <<phase, ram, used, shown>>
      /\ pk \in Keys /\ cert = pk /\ shown = Nothing
  BY KeyStoreAssumption DEF ProgramPage, KeyInv, Writing, KeyTypeOK
<1>2. head' = Whole(pk) /\ tail' \in Tails
  <2>1. CASE page = 1
    BY <1>1, <2>1 DEF ProgramPage, PageInHand, KeyTypeOK
  <2>2. CASE page # 1
    BY <1>1, <2>2, KeyStoreAssumption
       DEF ProgramPage, PageInHand, KeyInv, Writing, KeyTypeOK, Tails
  <2>3. QED
    BY <2>1, <2>2
<1>3. ASSUME NEW p \in 2..Pages, p < page'
      PROVE  tail'[p] = pk
  <2>1. page # 1 /\ tail' = [tail EXCEPT ![page] = pk]
    BY <1>1, <1>3 DEF ProgramPage, PageInHand
  <2>2. p = page \/ (p < page /\ tail[p] = pk)
    BY <1>1, <1>3, <2>1 DEF KeyInv, Writing
  <2>3. QED
    BY <1>1, <2>1, <2>2 DEF KeyTypeOK, Tails
<1>4. KeyTypeOK'
  BY <1>1, <1>2, KeyStoreAssumption DEF KeyTypeOK, Whole, Heads, Scalars, ram
<1>5. Writing'
  BY <1>1, <1>2, <1>3 DEF Writing, ram
<1>6. Vouched' /\ Remembered'
  BY <1>1, <1>2, KeyStoreAssumption DEF Vouched, Remembered, StoredCert, Whole
<1>7. QED
  BY <1>4, <1>5, <1>6 DEF KeyInv

LEMMA Saved_Inv ==
  ASSUME KeyInv, Saved
  PROVE  KeyInv'
<1>1. /\ KeyTypeOK /\ page = Pages + 1 /\ UNCHANGED <<ram, flash, page, used>>
      /\ pk \in Keys /\ cert = pk /\ shown = Nothing
  BY KeyStoreAssumption DEF Saved, KeyInv, Writing, KeyTypeOK
<1>2. head = Whole(pk) /\ \A p \in 2..Pages : tail[p] = pk
  BY <1>1, KeyStoreAssumption DEF Saved, KeyInv, Writing
<1>3. StoredCert = pk /\ StoredCert' = pk
  BY <1>1, <1>2 DEF StoredCert, Whole, flash
<1>4. phase' = "ready" /\ shown' = [key |-> pk, cert |-> pk]
  BY <1>1 DEF Saved, ComeUp
<1>5. shown' # Nothing /\ shown' \in Identities
  BY <1>1, <1>4, KeyStoreAssumption DEF Nothing, Identities
<1>6. KeyTypeOK'
  BY <1>1, <1>4, <1>5 DEF KeyTypeOK, Phases, ram, flash
<1>7. Writing' /\ Vouched' /\ Remembered'
  BY <1>1, <1>2, <1>3, <1>4, <1>5, KeyStoreAssumption
     DEF Writing, Vouched, Remembered, Whole, ram, flash
<1>8. QED
  BY <1>6, <1>7 DEF KeyInv

LEMMA PowerLoss_Inv ==
  ASSUME KeyInv, PowerLoss
  PROVE  KeyInv'
<1>1. /\ KeyTypeOK /\ phase' = "off" /\ pk' = "none" /\ cert' = "none" /\ page' = 1
      /\ UNCHANGED <<used, shown>>
  BY DEF PowerLoss, KeyInv
<1>2. CASE UNCHANGED flash
  BY <1>1, <1>2, Quiet_Inv, KeyStoreAssumption DEF KeyTypeOK, Phases
<1>3. ASSUME head' \in Heads, tail' \in Tails, shown = Nothing, Vouched'
      PROVE  KeyInv'
  BY <1>1, <1>3, KeyStoreAssumption DEF KeyInv, KeyTypeOK, Phases, Writing, Remembered
<1>4. CASE phase = "erasing"
  <2>1. ~head.magic /\ shown = Nothing
    BY <1>4 DEF KeyInv, Writing
  <2>2. ~head'.magic /\ head' \in Heads
    <3>1. head' \in {BlankHead, head} \cup [magic : {FALSE}, key : {"other", "bad"}, cert : {"cut"}]
      BY <1>4 DEF PowerLoss, PowerLossInFlash
    <3>2. CASE head' = BlankHead
      BY <3>2 DEF BlankHead, Heads, Scalars
    <3>3. CASE head' = head
      BY <1>1, <2>1, <3>3 DEF KeyTypeOK
    <3>4. CASE head' \in [magic : {FALSE}, key : {"other", "bad"}, cert : {"cut"}]
      BY <3>4, Zenon DEF Heads, Scalars
    <3>5. QED
      BY <3>1, <3>2, <3>3, <3>4
  <2>3. tail' \in Tails
    <3>1. PICK hit \in SUBSET (2..Pages), cleared \in SUBSET (2..Pages) :
            tail' = [p \in 2..Pages |-> IF p \in cleared THEN "none"
                                        ELSE IF p \in hit THEN "torn" ELSE tail[p]]
      BY <1>4 DEF PowerLoss, PowerLossInFlash
    <3>2. \A p \in 2..Pages : tail[p] \in Keys \cup {"none", "torn"}
      BY <1>1 DEF KeyTypeOK, Tails
    <3>3. QED
      BY <3>1, <3>2 DEF Tails
  <2>4. QED
    BY <1>3, <2>1, <2>2, <2>3 DEF Vouched
<1>5. CASE phase = "programming" /\ page = 1
  <2>1. shown = Nothing /\ pk \in Keys /\ tail = BlankTail
    BY <1>5 DEF KeyInv, Writing
  <2>2. head' \in {BlankHead} \cup TornHead(pk) /\ UNCHANGED tail
    BY <1>5, KeyStoreAssumption DEF PowerLoss, PowerLossInFlash, PageInHand
  <2>3. head' \in Heads /\ tail' \in Tails
    <3>1. CASE head' = BlankHead
      BY <1>1, <2>2, <3>1 DEF BlankHead, Heads, Scalars, KeyTypeOK
    <3>2. CASE head' \in TornHead(pk)
      <4>1. PICK m \in BOOLEAN, k \in {"other", "bad", pk}, c \in {"none", "cut", pk} :
              head' = [magic |-> m, key |-> k, cert |-> c]
        BY <3>2 DEF TornHead
      <4>2. k \in Scalars /\ c \in Keys \cup {"none", "cut"}
        BY <2>1 DEF Scalars
      <4>3. QED
        BY <1>1, <2>2, <4>1, <4>2 DEF Heads, KeyTypeOK
    <3>3. QED
      BY <2>2, <3>1, <3>2
  <2>4. tail'[2] = "none"
    BY <2>1, <2>2, KeyStoreAssumption DEF BlankTail
  <2>5. StoredCert' \in {"none", "cut"}
    BY <2>3, <2>4, KeyStoreAssumption DEF StoredCert, Heads
  <2>6. head'.magic => head'.key # "none"
    BY <2>1, <2>2, KeyStoreAssumption DEF BlankHead, TornHead
  <2>7. QED
    BY <1>3, <2>1, <2>3, <2>5, <2>6, KeyStoreAssumption DEF Vouched
<1>6. CASE phase = "programming" /\ page \in 2..Pages
  <2>1. shown = Nothing /\ pk \in Keys /\ head = Whole(pk)
    BY <1>6, KeyStoreAssumption DEF KeyInv, Writing
  <2>2. head' = head /\ tail' = [tail EXCEPT ![page] = "torn"]
    BY <1>6, KeyStoreAssumption DEF PowerLoss, PowerLossInFlash, PageInHand
  <2>3. head' \in Heads /\ tail' \in Tails
    BY <1>1, <2>2 DEF KeyTypeOK, Tails
  <2>4. Vouched'
    BY <2>1, <2>2, KeyStoreAssumption DEF Vouched, StoredCert, Whole
  <2>5. QED
    BY <1>3, <2>1, <2>3, <2>4
<1>7. page \in 1..Pages + 1
  BY <1>1 DEF KeyTypeOK
<1>8. CASE phase # "erasing" /\ (phase = "programming" => page > Pages)
  <2>1. phase # "erasing" /\ ~(phase = "programming" /\ page <= Pages)
    BY <1>7, <1>8, KeyStoreAssumption
  <2>2. UNCHANGED flash
    BY <2>1 DEF PowerLoss, PowerLossInFlash, flash
  <2>3. QED
    BY <1>2, <2>2
<1>9. QED
  BY <1>4, <1>5, <1>6, <1>7, <1>8, KeyStoreAssumption

LEMMA KeyStep ==
  ASSUME KeyInv, [KeyNext]_keyVars
  PROVE  KeyInv'
<1>1. CASE UNCHANGED keyVars
  BY <1>1 DEF keyVars, ram, flash, KeyInv, KeyTypeOK, Writing, Vouched, Remembered, StoredCert
<1>2. QED
  BY <1>1, Boot_Inv, FlashLoad_Inv, Generate_Inv, Erase_Inv, ProgramPage_Inv, Saved_Inv,
     PowerLoss_Inv DEF KeyNext

-----------------------------------------------------------------------------
(* The invariant holds of the key store.                                   *)
THEOREM KeyInvHolds == KeySpec => []KeyInv
<1>1. KeyInv /\ [KeyNext]_keyVars => KeyInv'
  BY KeyStep
<1>2. QED
  BY KeyInit_Inv, <1>1, PTL DEF KeySpec

(* The variables of the key store keep their types; in particular no boot  *)
(* takes a scalar for a key that mbedtls refuses.                          *)
THEOREM KeyTypeCorrect == KeySpec => []KeyTypeOK
<1>1. KeyInv => KeyTypeOK
  BY DEF KeyInv
<1>2. QED
  BY <1>1, KeyInvHolds, PTL

(* An undamaged certificate certifies the key that signs                   *)
(* (_flash_save() programs the key before the certificate).                *)
THEOREM KeyCertified == KeySpec => []CertMatchesKey
<1>1. KeyInv => CertMatchesKey
  BY DEF KeyInv, Vouched, Remembered, CertMatchesKey
<1>2. QED
  BY <1>1, KeyInvHolds, PTL

(* The magic is the point of no return (_flash_is_initialized()).          *)
THEOREM KeyStays == KeySpec => KeyNeverReplaced
<1>1. KeyInv /\ [KeyNext]_keyVars => [head.magic => head' = head]_keyVars
  <2> SUFFICES ASSUME KeyInv, KeyNext, head.magic
               PROVE  head' = head
    OBVIOUS
  <2>1. phase # "erasing"
    BY DEF KeyInv, Writing
  <2>2. ~(phase = "programming" /\ page = 1)
    BY DEF KeyInv, Writing, BlankHead
  <2>3. CASE ProgramPage
    BY <2>2, <2>3 DEF ProgramPage, PageInHand
  <2>4. CASE PowerLoss
    BY <2>1, <2>2, <2>4 DEF PowerLoss, PowerLossInFlash, PageInHand, flash
  <2>5. CASE PowerOn \/ Seed \/ FlashLoad \/ Generate \/ Saved
    BY <2>5 DEF PowerOn, Seed, FlashLoad, Generate, Saved, flash
  <2>6. QED
    BY <2>1, <2>3, <2>4, <2>5 DEF KeyNext, Erase
<1>2. QED
  BY <1>1, KeyInvHolds, PTL DEF KeySpec, KeyNeverReplaced

(* The key store implements TokenIdentity: what hosts are shown is settled *)
(* when the token first comes up, whatever power does.                     *)
THEOREM IdentityImplemented == KeySpec => ImplementsIdentity
<1> DEFINE Now == IF phase = "ready" THEN [key |-> pk, cert |-> cert] ELSE shown
<1>1. KeyInit => Identity!IdentityInit
  BY DEF KeyInit, Identity!IdentityInit
<1>2. KeyInv => Now = shown
  BY DEF KeyInv, Remembered
<1>3. KeyInv /\ KeyInv' /\ [KeyNext]_keyVars
        => [Identity!IdentityNext]_<<phase = "ready", Now>>
  <2> SUFFICES ASSUME KeyInv, KeyInv', [KeyNext]_keyVars
               PROVE  [Identity!IdentityNext]_<<phase = "ready", Now>>
    OBVIOUS
  <2>1. Now = shown /\ Now' = shown'
    BY DEF KeyInv, Remembered
  <2>2. shown' = shown \/ (shown = Nothing /\ phase # "ready" /\ phase' = "ready")
    BY DEF KeyNext, keyVars, PowerOn, Seed, FlashLoad, Generate, Erase, ProgramPage,
           Saved, PowerLoss, ComeUp
  <2>3. QED
    BY <2>1, <2>2 DEF Identity!IdentityNext, Identity!ComeUp, Identity!GoDown
<1>4. QED
  BY <1>1, <1>3, KeyInvHolds, PTL
     DEF KeySpec, ImplementsIdentity, Identity!IdentitySpec
=============================================================================
