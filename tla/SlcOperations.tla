---------------------------- MODULE SlcOperations ----------------------------
(***************************************************************************)
(* What surrounds the order lifecycle, side by side: a behaviour follows    *)
(* one part of it, the starts that bring live_slc.db to the current schema  *)
(* ("migration"), the operator's transitions beside the cycle's gates       *)
(* ("authorization") or one day of scheduled stages ("session").  They      *)
(* share no state of the models; the part that is not followed stays in     *)
(* one initial state, but for the account, which is any of those the        *)
(* symmetry takes for one.                                                  *)
(***************************************************************************)
EXTENDS SlcMigration, SlcAuthorization, SlcSession

VARIABLE part

operationsVars == <<part, migrationVars, authVars, sessionVars>>

BlankFile ==
  [version |-> 0, tables |-> {}, cols |-> {}, uniq |-> {},
   pos |-> << >>, trades |-> [p \in Positions |-> 0]]

Init ==
  /\ part \in {"migration", "authorization", "session"}
  /\ MigrationInit /\ AuthInit /\ SessionInit
  /\ part # "migration" => file = BlankFile
  /\ part # "authorization" => files = CHOOSE v \in Versions : TRUE
  /\ part # "session" => status = "dry_run"

Next ==
  \/ part = "migration" /\ MigrationNext /\ UNCHANGED <<part, authVars, sessionVars>>
  \/ part = "authorization" /\ AuthNext /\ UNCHANGED <<part, migrationVars, sessionVars>>
  \/ part = "session" /\ SessionNext /\ UNCHANGED <<part, migrationVars, authVars>>

Spec == Init /\ [][Next]_operationsVars
=============================================================================
