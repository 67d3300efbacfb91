------------------------------ MODULE KeyStore ------------------------------
(***************************************************************************)
(* src/crypto_backend_soft.c up to the return of crypto_backend_init(),    *)
(* with main() around it: on the first boot a key pair and a certificate   *)
(* are made and written to the last sector of flash, later boots load them *)
(* from there, and power may fail at any point of it.                      *)
(*                                                                         *)
(* phase   where the boot is: off, boot (before the DRBG is seeded),       *)
(*         seeded, erasing, programming, ready (the main loop runs), hung  *)
(* pk      the key in _pk_9a                                               *)
(* cert    _cert_9a_der and _cert_9a_len: the key it certifies, cut if it  *)
(*         is damaged, none if the length is 0                             *)
(* head    the first page of the sector: does it carry the magic, the key  *)
(*         that privkey holds, the certificate that cert_len and the first *)
(*         bytes belong to                                                 *)
(* tail    the pages that hold the rest of the certificate                 *)
(* page    how many pages flash_range_program() has dealt with, plus one   *)
(* used    the keys that were ever generated                               *)
(* shown   the key and the certificate the token had when it first came up *)
(*                                                                         *)
(* Flash is programmed page by page, in ascending order.  A page or an     *)
(* erase that power interrupts is left with any mixture, which later reads *)
(* the same every time; no interrupted erase makes up the magic.           *)
(***************************************************************************)
EXTENDS Naturals

CONSTANTS Keys,   \* the keys mbedtls_ecp_gen_key() may produce
          Pages   \* pages of the sector that header and certificate reach

\* The certificate is longer than the 154 bytes that fit in the first page.
ASSUME KeyStoreAssumption ==
  /\ Pages \in 2..16
  /\ Keys \cap {"none", "nothing", "cut", "torn", "other", "bad"} = {}

VARIABLES phase, pk, cert, head, tail, page, used, shown

ram     == <<pk, cert>>
flash   == <<head, tail>>
keyVars == <<phase, ram, flash, page, used, shown>>

Phases == {"off", "boot", "seeded", "erasing", "programming", "ready", "hung"}

\* What privkey may read as: a key that was generated, another scalar that
\* mbedtls_ecp_read_key() takes, or one that it refuses.
Scalars == Keys \cup {"none", "other", "bad"}

Heads == [magic : BOOLEAN, key : Scalars, cert : Keys \cup {"none", "cut"}]
Tails == [2..Pages -> Keys \cup {"none", "torn"}]

BlankHead == [magic |-> FALSE, key |-> "none", cert |-> "none"]
BlankTail == [p \in 2..Pages |-> "none"]

\* The token never came up.
Nothing == [key |-> "none", cert |-> "nothing"]

Whole(k) == [magic |-> TRUE, key |-> k, cert |-> k]

KeyInit == /\ phase = "off"
           /\ pk = "none" /\ cert = "none"
           /\ head = BlankHead /\ tail = BlankTail
           /\ page = 1
           /\ used = {}
           /\ shown = Nothing

-----------------------------------------------------------------------------
PowerOn == /\ phase = "off"
           /\ phase' = "boot"
           /\ UNCHANGED <<ram, flash, page, used, shown>>

\* mbedtls_ctr_drbg_seed(); main() hangs if crypto_backend_init() fails.
Seed == /\ phase = "boot"
        /\ phase' \in {"seeded", "hung"}
        /\ UNCHANGED <<ram, flash, page, used, shown>>

\* _initialized is set, and main() goes on to tusb_init() and the loop.
ComeUp(k, c) == /\ phase' = "ready"
                /\ shown' = IF shown = Nothing THEN [key |-> k, cert |-> c] ELSE shown

\* What _flash_load() puts into _cert_9a_der: it believes cert_len.
StoredCert == IF head.cert \in {"none", "cut"} \/ \A p \in 2..Pages : tail[p] = head.cert
              THEN head.cert ELSE "cut"

(* Mutant: the scalar from flash is taken without looking at it. *)
FlashLoad_Unchecked == /\ phase = "seeded" /\ head.magic
                       /\ cert' = StoredCert
                       /\ pk' = head.key
                       /\ ComeUp(head.key, StoredCert)
                       /\ UNCHANGED <<flash, page, used>>

\* _flash_load(): the certificate is copied before the key is looked at, and
\* any call of mbedtls may fail.
FlashLoad == /\ phase = "seeded" /\ head.magic
             /\ cert' = StoredCert
             /\ \/ phase' = "hung" /\ pk' \in {pk, head.key} \ {"bad"} /\ UNCHANGED shown
                \/ head.key # "bad" /\ pk' = head.key /\ ComeUp(head.key, StoredCert)
             /\ UNCHANGED <<flash, page, used>>

(* Mutant: a key that cannot be loaded is replaced. *)
Generate_Anyway == /\ phase = "seeded"
                   /\ \/ phase' = "hung" /\ UNCHANGED <<ram, used>>
                      \/ \E k \in Keys \ used :
                           /\ pk' = k /\ cert' = k /\ used' = used \cup {k}
                           /\ phase' \in {"erasing", "hung"}
                   /\ UNCHANGED <<flash, page, shown>>

\* _generate_and_persist() up to _flash_save(); it may fail before the key is
\* there, or with the key made.
Generate == /\ phase = "seeded" /\ ~head.magic
            /\ \/ phase' = "hung" /\ UNCHANGED <<ram, used>>
               \/ \E k \in Keys \ used :
                    /\ pk' = k /\ used' = used \cup {k}
                    /\ \/ phase' = "erasing" /\ cert' = k
                       \/ phase' = "hung" /\ UNCHANGED cert
            /\ UNCHANGED <<flash, page, shown>>

Erase == /\ phase = "erasing"
         /\ phase' = "programming"
         /\ head' = BlankHead /\ tail' = BlankTail
         /\ page' = 1
         /\ UNCHANGED <<ram, used, shown>>

(* Mutant: the first page, with the magic, is written last. *)
PageInHand_HeadLast == Pages + 1 - page

\* flash_range_program() goes from the start of the sector to its end.
PageInHand == page

ProgramPage == /\ phase = "programming" /\ page <= Pages
               /\ page' = page + 1
               /\ \/ PageInHand = 1 /\ head' = Whole(pk) /\ UNCHANGED tail
                  \/ /\ PageInHand # 1
                     /\ tail' = [tail EXCEPT ![PageInHand] = pk]
                     /\ UNCHANGED head
               /\ UNCHANGED <<phase, ram, used, shown>>

(* Mutant: the token comes up while the sector is being written. *)
Saved_Early == /\ phase = "programming"
               /\ ComeUp(pk, cert)
               /\ UNCHANGED <<ram, flash, page, used>>

Saved == /\ phase = "programming" /\ page > Pages
         /\ ComeUp(pk, cert)
         /\ UNCHANGED <<ram, flash, page, used>>

\* The bits of a page are set in no particular order.
TornHead(k) == [magic : BOOLEAN, key : {"other", "bad", k}, cert : {"none", "cut", k}]

PowerLossInFlash ==
  \/ /\ phase = "erasing"
     /\ head' \in {BlankHead, head} \cup [magic : {FALSE}, key : {"other", "bad"}, cert : {"cut"}]
     /\ \E hit \in SUBSET (2..Pages), cleared \in SUBSET (2..Pages) :
          tail' = [p \in 2..Pages |-> IF p \in cleared THEN "none"
                                      ELSE IF p \in hit THEN "torn" ELSE tail[p]]
  \/ /\ phase = "programming" /\ page <= Pages /\ PageInHand = 1
     /\ head' \in {BlankHead} \cup TornHead(pk)
     /\ UNCHANGED tail
  \/ /\ phase = "programming" /\ page <= Pages /\ PageInHand # 1
     /\ UNCHANGED head
     /\ tail' = [tail EXCEPT ![PageInHand] = "torn"]
  \/ /\ phase # "erasing"
     /\ phase = "programming" => page > Pages
     /\ UNCHANGED flash

\* The cable is pulled, also to get a token going again that hangs.
PowerLoss == /\ phase # "off"
             /\ PowerLossInFlash
             /\ phase' = "off"
             /\ pk' = "none" /\ cert' = "none" /\ page' = 1
             /\ UNCHANGED <<used, shown>>

KeyNext == \/ PowerOn \/ Seed \/ FlashLoad \/ Generate
           \/ Erase \/ ProgramPage \/ Saved \/ PowerLoss

KeySpec == KeyInit /\ [][KeyNext]_keyVars

-----------------------------------------------------------------------------
Identities == [key : Keys \cup {"other"}, cert : Keys \cup {"none", "cut"}]

KeyTypeOK == /\ phase \in Phases
             /\ pk \in Keys \cup {"none", "other"}
             /\ cert \in Keys \cup {"none", "cut"}
             /\ head \in Heads
             /\ tail \in Tails
             /\ page \in 1..Pages + 1
             /\ used \subseteq Keys
             /\ shown \in Identities \cup {Nothing}

(* Once the magic is in flash the key beside it stays there: no later boot *)
(* erases or rewrites it, whatever fails and whenever power does           *)
(* (crypto_backend.h:33, new keys are made only "if flash is blank").      *)
KeyNeverReplaced == [][head.magic => head' = head]_keyVars

(* The certificate a token serves, if it is undamaged, certifies the key   *)
(* the token signs with, also when power failed while both were written.   *)
CertMatchesKey == (phase = "ready" /\ cert \in Keys) => cert = pk

(* Between restarts at any moment, failed boots and power losses, the      *)
(* token never shows a host another key or certificate than the first time *)
(* it came up.                                                             *)
Identity == INSTANCE TokenIdentity
              WITH Unknown <- Nothing, up <- phase = "ready",
                   identity <- IF phase = "ready" THEN [key |-> pk, cert |-> cert]
                                                  ELSE shown

ImplementsIdentity == Identity!IdentitySpec

(* README.md:571 of the certificate in flash, "Generated at first boot;    *)
(* survives power cycles": a token that comes up has its certificate.      *)
CertSurvives == phase = "ready" => cert \in Keys
=============================================================================
