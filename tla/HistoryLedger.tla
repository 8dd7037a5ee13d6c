---------------------------- MODULE HistoryLedger ----------------------------
(***************************************************************************)
(* What the history of a contract promises its readers, without jobs,      *)
(* checkpoints, pages or drivers: a ledger of the contract's settlements   *)
(* that never loses an entry and never leaves one out between two others,  *)
(* filled from any point in both directions, until it is complete: then    *)
(* nothing is missing at its old end, and it only grows at its new one.    *)
(* HistorySync and HistoryDrivers implement it.                            *)
(***************************************************************************)
EXTENDS Integers

VARIABLES
  settled,    \* the settlements there have been
  ledger,     \* those that are stored
  complete    \* history_synced

ledgerVars == <<settled, ledger, complete>>

(* No settlement is left out between two members of S. *)
Consecutive(S) == \A x \in S, y \in S, z \in settled : x <= z /\ z <= y => z \in S

LedgerInit == settled \subseteq Int /\ ledger = {} /\ complete = FALSE

(* The exchange settles; what has been is not changed. *)
Settle ==
  /\ settled \subseteq settled' /\ settled' \subseteq Int
  /\ \A n \in settled' \ settled, o \in settled : o < n
  /\ UNCHANGED <<ledger, complete>>

(* Settlements are stored next to those that are. *)
Record(page) ==
  /\ ledger' = ledger \cup page
  /\ Consecutive(ledger')
  /\ complete => \A n \in page, o \in ledger : o < n
  /\ UNCHANGED <<settled, complete>>

(* The ledger has reached the first settlement. *)
Close ==
  /\ ledger # {}
  /\ \A z \in settled : \E x \in ledger : x <= z
  /\ complete' = TRUE
  /\ UNCHANGED <<settled, ledger>>

LedgerNext == Settle \/ Close \/ \E page \in SUBSET (settled \ ledger) : Record(page)

LedgerSpec == LedgerInit /\ [][LedgerNext]_ledgerVars

(* What this amounts to: no reader finds a gap, and up to its newest entry a
   complete ledger is the history. *)
NothingMissing ==
  /\ ledger \subseteq settled /\ Consecutive(ledger)
  /\ complete => \A x \in ledger, z \in settled : z <= x => z \in ledger
==============================================================================
