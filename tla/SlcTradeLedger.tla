--------------------------- MODULE SlcTradeLedger ---------------------------
(***************************************************************************)
(* What live_slc promises about one session's trades, whatever crashes or   *)
(* lost answers come in between: an entry is placed at most once and only   *)
(* after its intent is on record, a position is left at most once per       *)
(* placed entry, and a trade is booked at most once and only after the      *)
(* broker has filled an exit.                                               *)
(***************************************************************************)
EXTENDS FiniteSets

CONSTANT Symbols

VARIABLES
  intended,  \* symbols whose entry is on record in the store
  placed,    \* symbols whose entry has reached the broker
  exited,    \* symbols with a filled exit at the broker
  booked     \* symbols whose trade is on record in the store

ledgerVars == <<intended, placed, exited, booked>>

LedgerTypeOK == /\ booked \subseteq exited
                /\ exited \subseteq placed
                /\ placed \subseteq intended
                /\ intended \subseteq Symbols

LedgerInit == intended = {} /\ placed = {} /\ exited = {} /\ booked = {}

Intend(s) == /\ intended' = intended \union {s}
             /\ UNCHANGED <<placed, exited, booked>>

Place(s) == /\ s \in intended \ placed
            /\ placed' = placed \union {s}
            /\ UNCHANGED <<intended, exited, booked>>

Exit(s) == /\ s \in placed \ exited
           /\ exited' = exited \union {s}
           /\ UNCHANGED <<intended, placed, booked>>

Book(s) == /\ s \in exited \ booked
           /\ booked' = booked \union {s}
           /\ UNCHANGED <<intended, placed, exited>>

LedgerNext == \E s \in Symbols : Intend(s) \/ Place(s) \/ Exit(s) \/ Book(s)

LedgerSpec == LedgerInit /\ [][LedgerNext]_ledgerVars
=============================================================================
