------------------------- MODULE SlcLifecycleProofs -------------------------
(***************************************************************************)
(* The inductive invariant of SlcOrderLifecycle holds for every number of   *)
(* symbols, every entry size and every bound; with it the type invariant    *)
(* and the safety invariants.  One lemma per group of actions, one step per *)
(* action; types first, because the second half relies on them.  Then what  *)
(* a step may never do, that the runner implements SlcTradeLedger, and the  *)
(* daily limit and the protective stop, which need an invariant of their    *)
(* own beside IInv: each argument locates the few steps that could break    *)
(* the property and takes from IInv what holds there.                       *)
(***************************************************************************)
EXTENDS SlcLifecycleProperties, FiniteSetTheorems, TLAPS

USE BrokerAssumption, ProcessAssumption, EntryAssumption

(***************************************************************************)
(* Observations.                                                            *)
(***************************************************************************)
\* The three fields of an observation.
LEMMA ObservationFields ==
  ASSUME NEW o \in Observation
  PROVE  o.qty \in 0 .. Qty /\ o.stop \in BOOLEAN /\ o.tgt \in {0} \union TargetIds
BY DEF Observation

\* The observation every loop starts with is one.
LEMMA NothingSeenTyped == NothingSeen \in Observation
BY DEF NothingSeen, Observation

\* A record of a quantity, a stop flag and a target id is an observation.
LEMMA ObservationMade ==
  ASSUME NEW q \in 0 .. Qty, NEW b \in BOOLEAN, NEW t \in {0} \union TargetIds
  PROVE  [qty |-> q, stop |-> b, tgt |-> t] \in Observation
BY DEF Observation

\* What PollFill and ConfirmUnfilled read of the broker is an observation.
LEMMA ObserveTyped ==
  ASSUME BrokerTypeOK, NEW s \in Symbols
  PROVE  Observe(s) \in Observation
<1>1. fill[s] \in 0 .. Qty /\ StopLegLive(s) \in BOOLEAN /\ tid[s] \in TargetIds
  BY DEF BrokerTypeOK, StopLegLive, LegsResting
<1> QED BY <1>1 DEF Observe, Observation

\* The signed position is a number, and never above what was filled.
LEMMA HeldTyped ==
  ASSUME BrokerTypeOK, NEW s \in Symbols
  PROVE  Held(s) \in Int /\ Held(s) <= fill[s]
BY DEF BrokerTypeOK, Held, SoldByLegs, SoldByExit

(***************************************************************************)
(* Types.                                                                   *)
(***************************************************************************)
\* A step of the closing routines keeps the types.
LEMMA ClosingTypes ==
  ASSUME IInv, Closing, UNCHANGED signals
  PROVE  TypeOK'
<1> USE DEF IInv, TypeOK, BrokerTypeOK, StoreTypeOK, ProcTypeOK, EntryStatus,
          LegStatus, ExitStatus, TargetIds, OrderRow, PosRow, Stages,
          HandlesOne, ReturnsRight, Safe, Flattening, Marking, Labels,
          CloseSteps, EntrySteps, CycleSteps, CloseoutSteps, PreflightSteps,
          At, Goto, Call, Back, Halt, ProcIdle, BrokerQuiet, StoreQuiet,
          NoFault, brokerVars, storeVars, Fault
<1> USE NothingSeenTyped
<1>1. CASE CloseWithoutStop
  BY <1>1 DEF CloseWithoutStop
<1>2. CASE CancelStop
  BY <1>2 DEF CancelStop, AcceptStopCancel
<1>3. CASE CancelStopRefused
  BY <1>3 DEF CancelStopRefused, LegsResting
<1>4. CASE ConfirmStopCanceled
  BY <1>4 DEF ConfirmStopCanceled, StopReadsCanceled
<1>5. CASE StopCancelUnconfirmed
  BY <1>5 DEF StopCancelUnconfirmed, StopReadsCanceled, Outcome
<1>6. CASE ExitAlreadyThere
  BY <1>6 DEF ExitAlreadyThere
<1>7. CASE SubmitExit
  BY <1>7 DEF SubmitExit, AcceptExit, LegsResting
<1>8. CASE SubmitExitLost
  BY <1>8 DEF SubmitExitLost, AcceptExit, Outcome, LegsResting
<1>9. CASE SubmitExitFails
  BY <1>9 DEF SubmitExitFails, LegsResting, Outcome
<1>10. CASE PollExit
  BY <1>10 DEF PollExit, Outcome
<1>11. CASE ReadBackFlat
  BY <1>11 DEF ReadBackFlat, Outcome
<1>12. CASE CloseRow
  BY <1>12 DEF CloseRow, SetPosition
<1>13. CASE CloseTrade
  BY <1>13 DEF CloseTrade, WriteTrade
<1> QED
  BY <1>1, <1>2, <1>3, <1>4, <1>5, <1>6, <1>7, <1>8, <1>9, <1>10, <1>11,
     <1>12, <1>13 DEF Closing

\* Admission keeps the types.
LEMMA AdmissionTypes ==
  ASSUME IInv, Admission
  PROVE  TypeOK'
<1> USE DEF IInv, TypeOK, BrokerTypeOK, StoreTypeOK, ProcTypeOK, EntryStatus,
          LegStatus, ExitStatus, TargetIds, OrderRow, PosRow, Stages,
          HandlesOne, ReturnsRight, Safe, Flattening, Marking, Labels,
          CloseSteps, EntrySteps, CycleSteps, CloseoutSteps, PreflightSteps,
          At, Goto, Call, Back, Halt, ProcIdle, BrokerQuiet, StoreQuiet,
          NoFault, brokerVars, storeVars, Fault
<1> USE NothingSeenTyped
<1>1. CASE Admit
  BY <1>1 DEF Admit, Deliverable, Deliver, SelectWithinCapacity, SymbolFree, Loop,
      NothingHeld
<1>2. CASE AdmitBlind
  BY <1>2 DEF AdmitBlind, Deliverable, Deliver
<1> QED
  BY <1>1, <1>2 DEF Admission

\* A step of the entry pipeline keeps the types.
LEMMA PipelineTypes ==
  ASSUME IInv, Pipeline, UNCHANGED signals
  PROVE  TypeOK'
<1> USE DEF IInv, TypeOK, BrokerTypeOK, StoreTypeOK, ProcTypeOK, EntryStatus,
          LegStatus, ExitStatus, TargetIds, OrderRow, PosRow, Stages,
          HandlesOne, ReturnsRight, Safe, Flattening, Marking, Labels,
          CloseSteps, EntrySteps, CycleSteps, CloseoutSteps, PreflightSteps,
          At, Goto, Call, Back, Halt, ProcIdle, BrokerQuiet, StoreQuiet,
          NoFault, brokerVars, storeVars, Fault
<1> USE NothingSeenTyped
<1>1. CASE EntryBlocked
  BY <1>1 DEF EntryBlocked
<1>2. CASE EntriesDone
  BY <1>2 DEF EntriesDone
<1>3. CASE NextCandidate
  BY <1>3 DEF NextCandidate, Take
<1>4. CASE SkipCandidate
  BY <1>4 DEF SkipCandidate
<1>5. CASE ReconcileUnreachable
  BY <1>5 DEF ReconcileUnreachable, SetOrder
<1>6. CASE RecordIntent
  BY <1>6 DEF RecordIntent, SetOrder
<1>7. CASE SubmitAccepted
  BY <1>7 DEF SubmitAccepted, AcceptEntry
<1>8. CASE SubmitAnswerLost
  BY <1>8 DEF SubmitAnswerLost, AcceptEntry
<1>9. CASE SubmitRejected
  BY <1>9 DEF SubmitRejected
<1>10. CASE RowSubmitted
  BY <1>10 DEF RowSubmitted, SetOrder
<1>11. CASE RowAmbiguous
  BY <1>11 DEF RowAmbiguous, SetOrder
<1>12. CASE RowRejected
  BY <1>12 DEF RowRejected, SetOrder
<1>13. CASE PollFill
  BY <1>13, ObserveTyped DEF PollFill, Branch
<1>14. CASE CancelUnfilled
  BY <1>14 DEF CancelUnfilled, AcceptEntryCancel
<1>15. CASE ConfirmUnfilled
  BY <1>15, ObserveTyped DEF ConfirmUnfilled, Branch
<1>16. CASE RowUnresolved
  BY <1>16 DEF RowUnresolved, SetOrder
<1>17. CASE RowUnfilled
  BY <1>17 DEF RowUnfilled, SetOrder
<1>18. CASE PartialOpen
  BY <1>18, ObservationFields DEF PartialOpen, OpenPosition
<1>19. CASE PartialDegrade
  BY <1>19 DEF PartialDegrade, SetPosition
<1>20. CASE PartialUnresolved
  BY <1>20 DEF PartialUnresolved, SetOrder
<1>21. CASE PartialResult
  BY <1>21 DEF PartialResult, SetOrder
<1>22. CASE FullRow
  BY <1>22 DEF FullRow, SetOrder
<1>23. CASE FullOpen
  BY <1>23, ObservationFields DEF FullOpen, OpenPosition
<1>24. CASE FullCheck
  BY <1>24 DEF FullCheck
<1>25. CASE FullDegrade
  BY <1>25 DEF FullDegrade, SetPosition
<1>26. CASE ReplaceTarget
  BY <1>26, ObservationFields DEF ReplaceTarget, AcceptTargetReplace, TargetReplaceable
<1>27. CASE ReplaceTargetFails
  BY <1>27 DEF ReplaceTargetFails, TargetReplaceable
<1>28. CASE VerifyTarget
  BY <1>28 DEF VerifyTarget
<1>29. CASE FullProtected
  BY <1>29 DEF FullProtected, SaveTargetAndOpen
<1>30. CASE FullUnconfirmed
  BY <1>30 DEF FullUnconfirmed, SetPosition
<1> QED
  BY <1>1, <1>2, <1>3, <1>4, <1>5, <1>6, <1>7, <1>8, <1>9, <1>10, <1>11,
     <1>12, <1>13, <1>14, <1>15, <1>16, <1>17, <1>18, <1>19, <1>20, <1>21,
     <1>22, <1>23, <1>24, <1>25, <1>26, <1>27, <1>28, <1>29, <1>30 DEF Pipeline

\* A step of a recovery stage keeps the types.
LEMMA RecoveringTypes ==
  ASSUME IInv, Recovering, UNCHANGED signals
  PROVE  TypeOK'
<1> USE DEF IInv, TypeOK, BrokerTypeOK, StoreTypeOK, ProcTypeOK, EntryStatus,
          LegStatus, ExitStatus, TargetIds, OrderRow, PosRow, Stages,
          HandlesOne, ReturnsRight, Safe, Flattening, Marking, Labels,
          CloseSteps, EntrySteps, CycleSteps, CloseoutSteps, PreflightSteps,
          At, Goto, Call, Back, Halt, ProcIdle, BrokerQuiet, StoreQuiet,
          NoFault, brokerVars, storeVars, Fault
<1> USE NothingSeenTyped
<1>1. CASE StartCycle
  BY <1>1, HeldTyped DEF StartCycle, Begin, ReconcileSet, BrokerPositions
<1>2. CASE StartCloseout
  BY <1>2, HeldTyped DEF StartCloseout, Begin, ReconcileSet, BrokerPositions
<1>3. CASE StartPreflight
  BY <1>3 DEF StartPreflight, Begin, NothingHeld
<1>4. CASE ReconcileHeld
  BY <1>4 DEF ReconcileHeld, Skip
<1>5. CASE ReconcileMismatch
  BY <1>5 DEF ReconcileMismatch, ExitEvidence, Skip, SetPosition, FilledExits
<1>6. CASE ReconcileExited
  BY <1>6 DEF ReconcileExited, ExitEvidence, FilledExits
<1>7. CASE ReconcileUnreadable
  BY <1>7 DEF ReconcileUnreadable, Loop, NothingHeld
<1>8. CASE ReconcileDone
  BY <1>8 DEF ReconcileDone, Loop, NothingHeld
<1>9. CASE DegradedReplace
  <2>1. PICK s \in todo :
          /\ AcceptTargetReplace(s, posTgt[s])
          /\ Take(s, "deg_poll", [qty |-> 0, stop |-> FALSE, tgt |-> tid[s] + 1])
    BY <1>9 DEF DegradedReplace
  <2>2. tid[s] + 1 \in TargetIds
    BY <2>1 DEF AcceptTargetReplace, TargetReplaceable
  <2>3. [qty |-> 0, stop |-> FALSE, tgt |-> tid[s] + 1] \in Observation
    <3>1. 0 \in 0 .. Qty /\ FALSE \in BOOLEAN /\ tid[s] + 1 \in {0} \union TargetIds
      BY <2>2
    <3> QED BY ONLY <3>1, ObservationMade
  <2> QED BY <1>9, <2>1, <2>2, <2>3 DEF DegradedReplace, AcceptTargetReplace, Take
<1>10. CASE DegradedSkip
  BY <1>10 DEF DegradedSkip, TargetReplaceable, AcceptTargetReplace, Skip
<1>11. CASE DegradedPoll
  BY <1>11 DEF DegradedPoll
<1>12. CASE DegradedDone
  BY <1>12 DEF DegradedDone, Loop, NothingHeld
<1>13. CASE ResolveUnreachable
  BY <1>13 DEF ResolveUnreachable, Skip
<1>14. CASE ResolveNoOrder
  BY <1>14 DEF ResolveNoOrder, ShowsNoFill, Skip, SetOrder
<1>15. CASE ResolveFill
  <2>1. PICK s \in todo :
          /\ Take(s, "r_open", [qty |-> fill[s], stop |-> StopLegLive(s), tgt |-> tid[s]])
          /\ SetOrder(s, "filled")
    BY <1>15 DEF ResolveFill
  <2>2. [qty |-> fill[s], stop |-> StopLegLive(s), tgt |-> tid[s]] \in Observation
    BY <2>1, ObservationMade DEF StopLegLive, LegsResting
  <2> QED BY <1>15, <2>1, <2>2 DEF ResolveFill, Take, SetOrder
<1>16. CASE ResolveOpen
  BY <1>16, ObservationFields DEF ResolveOpen, OpenPosition
<1>17. CASE ResolveFlag
  BY <1>17 DEF ResolveFlag, SetPosition
<1>18. CASE ResolveDone
  BY <1>18 DEF ResolveDone
<1>19. CASE ReadOrphans
  BY <1>19, HeldTyped DEF ReadOrphans, Loop, BrokerPositions, NothingHeld
<1>20. CASE AdoptOrphan
  BY <1>20 DEF AdoptOrphan, AdoptionCandidate, Skip, OpenPosition
<1>21. CASE FlagOrphan
  BY <1>21 DEF FlagOrphan, AdoptionCandidate
<1>22. CASE IgnoreOrphan
  BY <1>22 DEF IgnoreOrphan, Skip
<1>23. CASE OrphansDone
  BY <1>23 DEF OrphansDone, Loop, NothingHeld
<1>24. CASE GuardPositions
  BY <1>24 DEF GuardPositions, ForceFlattened
<1>25. CASE GuardPosition
  BY <1>25 DEF GuardPosition
<1>26. CASE GuardDone
  BY <1>26 DEF GuardDone, Loop, NothingHeld
<1>27. CASE MarkFlattened
  BY <1>27 DEF MarkFlattened
<1>28. CASE MarkDone
  BY <1>28 DEF MarkDone
<1>29. CASE ReadBack
  BY <1>29 DEF ReadBack, AnsweredFor
<1> QED
  BY <1>1, <1>2, <1>3, <1>4, <1>5, <1>6, <1>7, <1>8, <1>9, <1>10, <1>11,
     <1>12, <1>13, <1>14, <1>15, <1>16, <1>17, <1>18, <1>19, <1>20, <1>21,
     <1>22, <1>23, <1>24, <1>25, <1>26, <1>27, <1>28, <1>29 DEF Recovering

\* A move of the broker keeps the types.
LEMMA BrokerTypes ==
  ASSUME IInv, NEW s \in Symbols, BrokerMoves(s),
         UNCHANGED <<storeVars, signals, procVars>>
  PROVE  TypeOK'
<1> USE DEF IInv, TypeOK, BrokerTypeOK, StoreTypeOK, ProcTypeOK, EntryStatus,
          LegStatus, ExitStatus, TargetIds, OrderRow, PosRow, Stages,
          HandlesOne, ReturnsRight, Safe, Flattening, Marking, Labels,
          CloseSteps, EntrySteps, CycleSteps, CloseoutSteps, PreflightSteps,
          At, Goto, Call, Back, Halt, ProcIdle, BrokerQuiet, StoreQuiet,
          NoFault, brokerVars, storeVars, Fault, procVars, EntryResting
<1> USE NothingSeenTyped
<1>1. CASE EntryFills(s)
  BY <1>1 DEF EntryFills
<1>2. CASE EntryFillsPartly(s)
  BY <1>2 DEF EntryFillsPartly
<1>3. CASE EntryEnds(s)
  BY <1>3 DEF EntryEnds
<1>4. CASE StopFills(s)
  BY <1>4 DEF StopFills
<1>5. CASE TargetFills(s)
  BY <1>5 DEF TargetFills
<1>6. CASE LegsEnd(s)
  BY <1>6 DEF LegsEnd
<1>7. CASE ExitFills(s)
  BY <1>7 DEF ExitFills
<1>8. CASE ExitEnds(s)
  BY <1>8 DEF ExitEnds
<1> QED
  BY <1>1, <1>2, <1>3, <1>4, <1>5, <1>6, <1>7, <1>8 DEF BrokerMoves

(***************************************************************************)
(* The conjuncts of Safe.                                                   *)
(***************************************************************************)
\* A step of the closing routines keeps the safety conjuncts.
LEMMA ClosingSafe ==
  ASSUME IInv, Closing, UNCHANGED signals
  PROVE  Safe'
<1> USE DEF IInv, TypeOK, BrokerTypeOK, StoreTypeOK, ProcTypeOK, Observation,
          EntryStatus, LegStatus, ExitStatus, TargetIds, OrderRow, PosRow,
          Stages, Safe, NothingBeforeEntry, OrderRowsTrue, PositionRowsTrue,
          HandlesOne, IntentFirst, CleanAtSubmit, FreshPosition,
          ReturnsRight, ClosesOwned, ClosesSold, GuardianAccounts, Within,
          Guarding, Flattening, Marking, Tracked, Owned, Opened, SoldOut,
          Sold, SoldQty, SoldByLegs, SoldByExit, EntryResting,
          AmbiguousOrder, EntriesBlocked, CloseSteps, EntrySteps,
          PreflightSteps, At, Goto, Call, Back, Halt, ProcIdle, BrokerQuiet,
          StoreQuiet, NoFault, brokerVars, storeVars, NothingSeen
<1>1. CASE CloseWithoutStop
  BY <1>1 DEF CloseWithoutStop
<1>2. CASE CancelStop
  BY <1>2 DEF CancelStop, AcceptStopCancel, LegsResting
<1>3. CASE CancelStopRefused
  BY <1>3 DEF CancelStopRefused, LegsResting
<1>4. CASE ConfirmStopCanceled
  BY <1>4 DEF ConfirmStopCanceled, StopReadsCanceled
<1>5. CASE StopCancelUnconfirmed
  BY <1>5 DEF StopCancelUnconfirmed, StopReadsCanceled, Outcome
<1>6. CASE ExitAlreadyThere
  BY <1>6 DEF ExitAlreadyThere
<1>7. CASE SubmitExit
  BY <1>7 DEF SubmitExit, AcceptExit, LegsResting
<1>8. CASE SubmitExitLost
  BY <1>8 DEF SubmitExitLost, AcceptExit, Outcome, LegsResting
<1>9. CASE SubmitExitFails
  BY <1>9 DEF SubmitExitFails, LegsResting, Outcome
<1>10. CASE PollExit
  BY <1>10 DEF PollExit, Outcome
<1>11. CASE ReadBackFlat
  BY <1>11 DEF ReadBackFlat, Held, Outcome
<1>12. CASE CloseRow
  <2>1. cur \in SoldOut /\ cur \in Symbols
    BY <1>12 DEF CloseRow
  <2>2. SoldOut' = SoldOut /\ UNCHANGED <<posQty, fill, trade, oco, exit, exitQty>>
    BY <1>12 DEF CloseRow, SetPosition
  <2>3. \A s \in Symbols : pos'[s] = IF s = cur THEN "closed" ELSE pos[s]
    BY <1>12, <2>1 DEF CloseRow, SetPosition
  <2>4. posQty[cur] <= fill[cur]
    BY <1>12, <2>1
  <2>5. PositionRowsTrue'
    BY <2>1, <2>2, <2>3, <2>4
  <2> QED BY <1>12, <2>1, <2>5 DEF CloseRow, SetPosition
<1>13. CASE CloseTrade
  BY <1>13 DEF CloseTrade, WriteTrade
<1> QED
  BY <1>1, <1>2, <1>3, <1>4, <1>5, <1>6, <1>7, <1>8, <1>9, <1>10, <1>11,
     <1>12, <1>13 DEF Closing

\* Admission keeps the safety conjuncts.
LEMMA AdmissionSafe ==
  ASSUME IInv, Admission
  PROVE  Safe'
<1> USE DEF IInv, TypeOK, BrokerTypeOK, StoreTypeOK, ProcTypeOK, Observation,
          EntryStatus, LegStatus, ExitStatus, TargetIds, OrderRow, PosRow,
          Stages, Safe, NothingBeforeEntry, OrderRowsTrue, PositionRowsTrue,
          HandlesOne, IntentFirst, CleanAtSubmit, FreshPosition,
          ReturnsRight, ClosesOwned, ClosesSold, GuardianAccounts, Within,
          Guarding, Flattening, Marking, Tracked, Owned, Opened, SoldOut,
          Sold, SoldQty, SoldByLegs, SoldByExit, EntryResting,
          AmbiguousOrder, EntriesBlocked, CloseSteps, EntrySteps,
          PreflightSteps, At, Goto, Call, Back, Halt, ProcIdle, BrokerQuiet,
          StoreQuiet, NoFault, brokerVars, storeVars, NothingSeen
<1>1. CASE Admit
  BY <1>1 DEF Admit, Deliverable, Deliver, SelectWithinCapacity, SymbolFree, Loop,
      NothingHeld, Room, Held, ConsumesEntrySlot, EntriesToday,
      OpenPositions
<1>2. CASE AdmitBlind
  BY <1>2 DEF AdmitBlind, Deliverable, Deliver
<1> QED
  BY <1>1, <1>2 DEF Admission

\* A step of the entry pipeline keeps the safety conjuncts.
LEMMA PipelineSafe ==
  ASSUME IInv, Pipeline, UNCHANGED signals
  PROVE  Safe'
<1> USE DEF IInv, TypeOK, BrokerTypeOK, StoreTypeOK, ProcTypeOK, Observation,
          EntryStatus, LegStatus, ExitStatus, TargetIds, OrderRow, PosRow,
          Stages, Safe, NothingBeforeEntry, OrderRowsTrue, PositionRowsTrue,
          HandlesOne, IntentFirst, CleanAtSubmit, FreshPosition,
          ReturnsRight, ClosesOwned, ClosesSold, GuardianAccounts, Within,
          Guarding, Flattening, Marking, Tracked, Owned, Opened, SoldOut,
          Sold, SoldQty, SoldByLegs, SoldByExit, EntryResting,
          AmbiguousOrder, EntriesBlocked, CloseSteps, EntrySteps,
          PreflightSteps, At, Goto, Call, Back, Halt, ProcIdle, BrokerQuiet,
          StoreQuiet, NoFault, brokerVars, storeVars, NothingSeen
<1>1. CASE EntryBlocked
  BY <1>1 DEF EntryBlocked
<1>2. CASE EntriesDone
  BY <1>2 DEF EntriesDone
<1>3. CASE NextCandidate
  BY <1>3 DEF NextCandidate, Take
<1>4. CASE SkipCandidate
  BY <1>4 DEF SkipCandidate
<1>5. CASE ReconcileUnreachable
  BY <1>5 DEF ReconcileUnreachable, SymbolFree, OpenPositions, SetOrder, Held,
      ConsumesEntrySlot
<1>6. CASE RecordIntent
  BY <1>6 DEF RecordIntent, SymbolFree, OpenPositions, SetOrder, Held,
      ConsumesEntrySlot
<1>7. CASE SubmitAccepted
  BY <1>7 DEF SubmitAccepted, AcceptEntry
<1>8. CASE SubmitAnswerLost
  BY <1>8 DEF SubmitAnswerLost, AcceptEntry
<1>9. CASE SubmitRejected
  BY <1>9 DEF SubmitRejected
<1>10. CASE RowSubmitted
  BY <1>10 DEF RowSubmitted, SetOrder
<1>11. CASE RowAmbiguous
  BY <1>11 DEF RowAmbiguous, SetOrder
<1>12. CASE RowRejected
  BY <1>12 DEF RowRejected, SetOrder
<1>13. CASE PollFill
  BY <1>13 DEF PollFill, Branch, Observe, StopLegLive, LegsResting
<1>14. CASE CancelUnfilled
  BY <1>14 DEF CancelUnfilled, AcceptEntryCancel
<1>15. CASE ConfirmUnfilled
  BY <1>15 DEF ConfirmUnfilled, Branch, Observe, StopLegLive, LegsResting
<1>16. CASE RowUnresolved
  BY <1>16 DEF RowUnresolved, SetOrder
<1>17. CASE RowUnfilled
  BY <1>17 DEF RowUnfilled, SetOrder
<1>18. CASE PartialOpen
  BY <1>18 DEF PartialOpen, OpenPosition
<1>19. CASE PartialDegrade
  BY <1>19 DEF PartialDegrade, SetPosition
<1>20. CASE PartialUnresolved
  BY <1>20 DEF PartialUnresolved, SetOrder
<1>21. CASE PartialResult
  BY <1>21 DEF PartialResult, SetOrder
<1>22. CASE FullRow
  BY <1>22 DEF FullRow, SetOrder
<1>23. CASE FullOpen
  BY <1>23 DEF FullOpen, OpenPosition
<1>24. CASE FullCheck
  BY <1>24 DEF FullCheck
<1>25. CASE FullDegrade
  BY <1>25 DEF FullDegrade, SetPosition
<1>26. CASE ReplaceTarget
  BY <1>26 DEF ReplaceTarget, AcceptTargetReplace, TargetReplaceable
<1>27. CASE ReplaceTargetFails
  BY <1>27 DEF ReplaceTargetFails, TargetReplaceable
<1>28. CASE VerifyTarget
  BY <1>28 DEF VerifyTarget
<1>29. CASE FullProtected
  BY <1>29 DEF FullProtected, SaveTargetAndOpen
<1>30. CASE FullUnconfirmed
  BY <1>30 DEF FullUnconfirmed, SetPosition
<1> QED
  BY <1>1, <1>2, <1>3, <1>4, <1>5, <1>6, <1>7, <1>8, <1>9, <1>10, <1>11,
     <1>12, <1>13, <1>14, <1>15, <1>16, <1>17, <1>18, <1>19, <1>20, <1>21,
     <1>22, <1>23, <1>24, <1>25, <1>26, <1>27, <1>28, <1>29, <1>30 DEF Pipeline

\* A step of a recovery stage keeps the safety conjuncts.
LEMMA RecoveringSafe ==
  ASSUME IInv, Recovering, UNCHANGED signals
  PROVE  Safe'
<1> USE DEF IInv, TypeOK, BrokerTypeOK, StoreTypeOK, ProcTypeOK, Observation,
          EntryStatus, LegStatus, ExitStatus, TargetIds, OrderRow, PosRow,
          Stages, Safe, NothingBeforeEntry, OrderRowsTrue, PositionRowsTrue,
          HandlesOne, IntentFirst, CleanAtSubmit, FreshPosition,
          ReturnsRight, ClosesOwned, ClosesSold, GuardianAccounts, Within,
          Guarding, Flattening, Marking, Tracked, Owned, Opened, SoldOut,
          Sold, SoldQty, SoldByLegs, SoldByExit, EntryResting,
          AmbiguousOrder, EntriesBlocked, CloseSteps, EntrySteps,
          PreflightSteps, At, Goto, Call, Back, Halt, ProcIdle, BrokerQuiet,
          StoreQuiet, NoFault, brokerVars, storeVars, NothingSeen
<1>1. CASE StartCycle
  BY <1>1 DEF StartCycle, Begin, ReconcileSet, BrokerPositions, Held
<1>2. CASE StartCloseout
  BY <1>2 DEF StartCloseout, Begin, ReconcileSet, BrokerPositions, Held
<1>3. CASE StartPreflight
  BY <1>3 DEF StartPreflight, Begin, NothingHeld
<1>4. CASE ReconcileHeld
  BY <1>4 DEF ReconcileHeld, Skip
<1>5. CASE ReconcileMismatch
  BY <1>5 DEF ReconcileMismatch, ExitEvidence, Skip, SetPosition, FilledExits
<1>6. CASE ReconcileExited
  BY <1>6 DEF ReconcileExited, ExitEvidence, FilledExits
<1>7. CASE ReconcileUnreadable
  BY <1>7 DEF ReconcileUnreadable, Loop, NothingHeld
<1>8. CASE ReconcileDone
  BY <1>8 DEF ReconcileDone, Loop, NothingHeld
<1>9. CASE DegradedReplace
  BY <1>9 DEF DegradedReplace, AcceptTargetReplace, Take, TargetReplaceable
<1>10. CASE DegradedSkip
  BY <1>10 DEF DegradedSkip, TargetReplaceable, AcceptTargetReplace, Skip
<1>11. CASE DegradedPoll
  BY <1>11 DEF DegradedPoll
<1>12. CASE DegradedDone
  BY <1>12 DEF DegradedDone, Loop, NothingHeld
<1>13. CASE ResolveUnreachable
  BY <1>13 DEF ResolveUnreachable, Skip
<1>14. CASE ResolveNoOrder
  BY <1>14 DEF ResolveNoOrder, ShowsNoFill, Skip, SetOrder
<1>15. CASE ResolveFill
  BY <1>15 DEF ResolveFill, ShowsNoFill, Take, StopLegLive, SetOrder, LegsResting
<1>16. CASE ResolveOpen
  BY <1>16 DEF ResolveOpen, OpenPosition
<1>17. CASE ResolveFlag
  BY <1>17 DEF ResolveFlag, SetPosition
<1>18. CASE ResolveDone
  BY <1>18 DEF ResolveDone
<1>19. CASE ReadOrphans
  BY <1>19, HeldTyped DEF ReadOrphans, Loop, BrokerPositions, NothingHeld
<1>20. CASE AdoptOrphan
  BY <1>20 DEF AdoptOrphan, AdoptionCandidate, Skip, OpenPosition
<1>21. CASE FlagOrphan
  BY <1>21 DEF FlagOrphan, AdoptionCandidate
<1>22. CASE IgnoreOrphan
  BY <1>22 DEF IgnoreOrphan, Skip
<1>23. CASE OrphansDone
  BY <1>23 DEF OrphansDone, Loop, NothingHeld
<1>24. CASE GuardPositions
  BY <1>24 DEF GuardPositions, ForceFlattened
<1>25. CASE GuardPosition
  BY <1>25 DEF GuardPosition
<1>26. CASE GuardDone
  BY <1>26 DEF GuardDone, Loop, NothingHeld
<1>27. CASE MarkFlattened
  BY <1>27 DEF MarkFlattened
<1>28. CASE MarkDone
  BY <1>28 DEF MarkDone
<1>29. CASE ReadBack
  BY <1>29 DEF ReadBack, AnsweredFor, Held
<1> QED
  BY <1>1, <1>2, <1>3, <1>4, <1>5, <1>6, <1>7, <1>8, <1>9, <1>10, <1>11,
     <1>12, <1>13, <1>14, <1>15, <1>16, <1>17, <1>18, <1>19, <1>20, <1>21,
     <1>22, <1>23, <1>24, <1>25, <1>26, <1>27, <1>28, <1>29 DEF Recovering

\* A move of the broker keeps the safety conjuncts: nothing the store
\* relies on is undone by a fill, an expiry or a completed cancel.
LEMMA BrokerSafe ==
  ASSUME IInv, NEW s \in Symbols, BrokerMoves(s),
         UNCHANGED <<storeVars, signals, procVars>>
  PROVE  Safe'
<1> USE DEF IInv, TypeOK, BrokerTypeOK, StoreTypeOK, ProcTypeOK, Observation,
          EntryStatus, LegStatus, ExitStatus, TargetIds, OrderRow, PosRow,
          Stages, Safe, NothingBeforeEntry, OrderRowsTrue, PositionRowsTrue,
          HandlesOne, IntentFirst, CleanAtSubmit, FreshPosition,
          ReturnsRight, ClosesOwned, ClosesSold, GuardianAccounts, Within,
          Guarding, Flattening, Marking, Tracked, Owned, Opened, SoldOut,
          Sold, SoldQty, SoldByLegs, SoldByExit, EntryResting,
          AmbiguousOrder, EntriesBlocked, CloseSteps, EntrySteps,
          PreflightSteps, At, Goto, Call, Back, Halt, ProcIdle, BrokerQuiet,
          StoreQuiet, NoFault, brokerVars, storeVars, NothingSeen, procVars
<1>1. CASE EntryFills(s)
  BY <1>1 DEF EntryFills
<1>2. CASE EntryFillsPartly(s)
  BY <1>2 DEF EntryFillsPartly
<1>3. CASE EntryEnds(s)
  BY <1>3 DEF EntryEnds
<1>4. CASE StopFills(s)
  BY <1>4 DEF StopFills
<1>5. CASE TargetFills(s)
  BY <1>5 DEF TargetFills
<1>6. CASE LegsEnd(s)
  BY <1>6 DEF LegsEnd
<1>7. CASE ExitFills(s)
  BY <1>7 DEF ExitFills
<1>8. CASE ExitEnds(s)
  BY <1>8 DEF ExitEnds
<1> QED
  BY <1>1, <1>2, <1>3, <1>4, <1>5, <1>6, <1>7, <1>8 DEF BrokerMoves

(***************************************************************************)
(* IInv is an invariant.                                                    *)
(***************************************************************************)
\* The first session starts in the inductive invariant.
LEMMA InitIInv == Init => IInv
BY DEF Init, BrokerInit, StoreInit, ProcInit, ProcIdle, IInv, TypeOK, BrokerTypeOK,
       StoreTypeOK, ProcTypeOK, Safe, NothingBeforeEntry, OrderRowsTrue,
       PositionRowsTrue, HandlesOne, IntentFirst, CleanAtSubmit, FreshPosition,
       ReturnsRight, ClosesOwned, ClosesSold, GuardianAccounts, Within, Guarding,
       Flattening, Marking, EntryStatus, LegStatus, ExitStatus, TargetIds, OrderRow,
       PosRow, Labels, Stages, NothingSeen, Observation, CloseSteps, EntrySteps,
       PreflightSteps, EntryResting

\* A crash keeps it: what a dead process leaves behind is consistent.
LEMMA CrashIInv ==
  ASSUME IInv, Crash, UNCHANGED signals
  PROVE  IInv'
<1> USE DEF Crash, Halt, ProcIdle, Fault, BrokerQuiet, StoreQuiet, brokerVars, storeVars
<1>1. TypeOK'
  BY NothingSeenTyped DEF IInv, TypeOK, BrokerTypeOK, StoreTypeOK, ProcTypeOK, Labels
<1>2. Safe'
  BY DEF IInv, Safe, NothingBeforeEntry, OrderRowsTrue, PositionRowsTrue, HandlesOne,
         IntentFirst, CleanAtSubmit, FreshPosition, ReturnsRight, ClosesOwned,
         ClosesSold, GuardianAccounts, Within, Guarding, Flattening, Marking,
         SoldOut, Opened, Sold, SoldQty, SoldByLegs, SoldByExit, EntryResting,
         CloseSteps, EntrySteps, PreflightSteps
<1> QED BY <1>1, <1>2 DEF IInv

\* A stuttering step keeps it.
LEMMA StutterIInv ==
  ASSUME IInv, UNCHANGED vars
  PROVE  IInv'
BY DEF IInv, TypeOK, BrokerTypeOK, StoreTypeOK, ProcTypeOK, Safe, NothingBeforeEntry,
       OrderRowsTrue, PositionRowsTrue, HandlesOne, IntentFirst, CleanAtSubmit,
       FreshPosition, ReturnsRight, ClosesOwned, ClosesSold, GuardianAccounts, Within,
       Guarding, SoldOut, Opened, Owned, Sold, SoldQty, SoldByLegs, SoldByExit,
       EntryResting, EntriesBlocked, vars, procVars, brokerVars, storeVars

\* Every step keeps it.
LEMMA NextIInv ==
  ASSUME IInv, [Next]_vars
  PROVE  IInv'
<1>1. CASE Broker
  BY <1>1, BrokerTypes, BrokerSafe DEF Broker, IInv
<1>2. CASE Admission
  BY <1>2, AdmissionTypes, AdmissionSafe DEF IInv
<1>3. CASE Pipeline /\ UNCHANGED signals
  BY <1>3, PipelineTypes, PipelineSafe DEF IInv
<1>4. CASE Closing /\ UNCHANGED signals
  BY <1>4, ClosingTypes, ClosingSafe DEF IInv
<1>5. CASE Recovering /\ UNCHANGED signals
  BY <1>5, RecoveringTypes, RecoveringSafe DEF IInv
<1>6. CASE Crash /\ UNCHANGED signals
  BY <1>6, CrashIInv
<1>7. CASE UNCHANGED vars
  BY <1>7, StutterIInv
<1> QED BY <1>1, <1>2, <1>3, <1>4, <1>5, <1>6, <1>7 DEF Next, Process

\* What each step of a stage may rely on, it may rely on in every behaviour:
\* the inductive invariant, for every instance.
THEOREM Inductive == Spec => []IInv
<1>1. Init => IInv
  BY InitIInv
<1>2. IInv /\ [Next]_vars => IInv'
  BY NextIInv
<1> QED BY <1>1, <1>2, PTL DEF Spec

(***************************************************************************)
(* The invariants.                                                          *)
(***************************************************************************)
\* Every row, order and local of the runner keeps its type.
THEOREM TypeCorrect == Spec => []TypeOK
<1>1. IInv => TypeOK
  BY DEF IInv
<1> QED BY <1>1, Inductive, PTL

\* No crash, lost answer or refused call makes an order row claim less than
\* the broker did (RowNeverUnderstates).
THEOREM RowsNeverUnderstate == Spec => []RowNeverUnderstates
<1>1. IInv => RowNeverUnderstates
  BY DEF IInv, Safe, OrderRowsTrue, NothingBeforeEntry, RowNeverUnderstates, EntryResting
<1> QED BY <1>1, Inductive, PTL

\* No position is closed in the store before the broker has sold it.
THEOREM ClosedPositionsExited == Spec => []ClosedMeansExited
<1>1. IInv => ClosedMeansExited
  BY DEF IInv, Safe, PositionRowsTrue, SoldOut, SoldQty, ClosedMeansExited
<1> QED BY <1>1, Inductive, PTL

(***************************************************************************)
(* Which steps of the runner place an entry, place an exit, reopen a row.   *)
(***************************************************************************)
\* Only the submit step of the entry pipeline places an entry.
LEMMA EntryPlacedAtSubmit ==
  ASSUME Process, NEW s \in Symbols, entry[s] = "none", entry'[s] # "none", IInv
  PROVE  pc = "submit" /\ s = cur
<1>1. CASE Admission
  BY <1>1, SMTT(60)
     DEF At, Goto, Call, Back, Halt, ProcIdle, BrokerQuiet, StoreQuiet,
         NoFault, brokerVars, storeVars, EntryResting, LegsResting, IInv,
         TypeOK, BrokerTypeOK, Safe, NothingBeforeEntry, HandlesOne,
         CloseSteps, Admission, Admit, Deliver, Loop, AdmitBlind
<1>2. CASE Pipeline /\ UNCHANGED signals
  BY <1>2, SMTT(60)
     DEF At, Goto, Call, Back, Halt, ProcIdle, BrokerQuiet, StoreQuiet,
         NoFault, brokerVars, storeVars, EntryResting, LegsResting, IInv,
         TypeOK, BrokerTypeOK, Safe, NothingBeforeEntry, HandlesOne,
         CloseSteps, Pipeline, EntryBlocked, EntriesDone, NextCandidate,
         Take, SkipCandidate, ReconcileUnreachable, SetOrder, RecordIntent,
         SubmitAccepted, AcceptEntry, SubmitAnswerLost, SubmitRejected,
         RowSubmitted, RowAmbiguous, RowRejected, PollFill, Branch,
         CancelUnfilled, AcceptEntryCancel, ConfirmUnfilled, RowUnresolved,
         RowUnfilled, PartialOpen, OpenPosition, PartialDegrade,
         SetPosition, PartialUnresolved, PartialResult, FullRow, FullOpen,
         FullCheck, FullDegrade, ReplaceTarget, AcceptTargetReplace,
         TargetReplaceable, ReplaceTargetFails, VerifyTarget, FullProtected,
         SaveTargetAndOpen, FullUnconfirmed
<1>3. CASE Closing /\ UNCHANGED signals
  BY <1>3, SMTT(60)
     DEF At, Goto, Call, Back, Halt, ProcIdle, BrokerQuiet, StoreQuiet,
         NoFault, brokerVars, storeVars, EntryResting, LegsResting, IInv,
         TypeOK, BrokerTypeOK, Safe, NothingBeforeEntry, HandlesOne,
         CloseSteps, Closing, CloseWithoutStop, CancelStop,
         AcceptStopCancel, CancelStopRefused, ConfirmStopCanceled,
         StopReadsCanceled, StopCancelUnconfirmed, Outcome,
         ExitAlreadyThere, SubmitExit, AcceptExit, SubmitExitLost,
         SubmitExitFails, PollExit, ReadBackFlat, CloseRow, SetPosition,
         CloseTrade, WriteTrade
<1>4. CASE Recovering /\ UNCHANGED signals
  BY <1>4, SMTT(60)
     DEF At, Goto, Call, Back, Halt, ProcIdle, BrokerQuiet, StoreQuiet,
         NoFault, brokerVars, storeVars, EntryResting, LegsResting, IInv,
         TypeOK, BrokerTypeOK, Safe, NothingBeforeEntry, HandlesOne,
         CloseSteps, Recovering, StartCycle, Begin, ReconcileSet,
         StartCloseout, StartPreflight, ReconcileHeld, Skip,
         ReconcileMismatch, SetPosition, ReconcileExited,
         ReconcileUnreadable, Loop, ReconcileDone, DegradedReplace,
         AcceptTargetReplace, Take, TargetReplaceable, DegradedSkip,
         DegradedPoll, DegradedDone, ResolveUnreachable, ResolveNoOrder,
         SetOrder, ResolveFill, ResolveOpen, OpenPosition, ResolveFlag,
         ResolveDone, ReadOrphans, AdoptOrphan, AdoptionCandidate,
         FlagOrphan, IgnoreOrphan, OrphansDone, GuardPositions,
         ForceFlattened, GuardPosition, GuardDone, MarkFlattened, MarkDone,
         ReadBack, AnsweredFor
<1> QED BY <1>1, <1>2, <1>3, <1>4 DEF Process

\* Only the submit step of the closing routine places an exit.
LEMMA ExitPlacedAtSubmit ==
  ASSUME Process, NEW s \in Symbols, exit[s] = "none", exit'[s] # "none",
         BrokerTypeOK
  PROVE  pc = "x_submit" /\ s = cur
<1>1. CASE Admission
  BY <1>1, SMTT(60)
     DEF At, Goto, Call, Back, Halt, ProcIdle, BrokerQuiet, StoreQuiet,
         NoFault, brokerVars, storeVars, EntryResting, LegsResting,
         BrokerTypeOK, Admission, Admit, Deliver, Loop, AdmitBlind
<1>2. CASE Pipeline /\ UNCHANGED signals
  BY <1>2, SMTT(60)
     DEF At, Goto, Call, Back, Halt, ProcIdle, BrokerQuiet, StoreQuiet,
         NoFault, brokerVars, storeVars, EntryResting, LegsResting,
         BrokerTypeOK, Pipeline, EntryBlocked, EntriesDone, NextCandidate,
         Take, SkipCandidate, ReconcileUnreachable, SetOrder, RecordIntent,
         SubmitAccepted, AcceptEntry, SubmitAnswerLost, SubmitRejected,
         RowSubmitted, RowAmbiguous, RowRejected, PollFill, Branch,
         CancelUnfilled, AcceptEntryCancel, ConfirmUnfilled, RowUnresolved,
         RowUnfilled, PartialOpen, OpenPosition, PartialDegrade,
         SetPosition, PartialUnresolved, PartialResult, FullRow, FullOpen,
         FullCheck, FullDegrade, ReplaceTarget, AcceptTargetReplace,
         TargetReplaceable, ReplaceTargetFails, VerifyTarget, FullProtected,
         SaveTargetAndOpen, FullUnconfirmed
<1>3. CASE Closing /\ UNCHANGED signals
  BY <1>3, SMTT(60)
     DEF At, Goto, Call, Back, Halt, ProcIdle, BrokerQuiet, StoreQuiet,
         NoFault, brokerVars, storeVars, EntryResting, LegsResting,
         BrokerTypeOK, Closing, CloseWithoutStop, CancelStop,
         AcceptStopCancel, CancelStopRefused, ConfirmStopCanceled,
         StopReadsCanceled, StopCancelUnconfirmed, Outcome,
         ExitAlreadyThere, SubmitExit, AcceptExit, SubmitExitLost,
         SubmitExitFails, PollExit, ReadBackFlat, CloseRow, SetPosition,
         CloseTrade, WriteTrade
<1>4. CASE Recovering /\ UNCHANGED signals
  BY <1>4, SMTT(60)
     DEF At, Goto, Call, Back, Halt, ProcIdle, BrokerQuiet, StoreQuiet,
         NoFault, brokerVars, storeVars, EntryResting, LegsResting,
         BrokerTypeOK, Recovering, StartCycle, Begin, ReconcileSet,
         StartCloseout, StartPreflight, ReconcileHeld, Skip,
         ReconcileMismatch, SetPosition, ReconcileExited,
         ReconcileUnreadable, Loop, ReconcileDone, DegradedReplace,
         AcceptTargetReplace, Take, TargetReplaceable, DegradedSkip,
         DegradedPoll, DegradedDone, ResolveUnreachable, ResolveNoOrder,
         SetOrder, ResolveFill, ResolveOpen, OpenPosition, ResolveFlag,
         ResolveDone, ReadOrphans, AdoptOrphan, AdoptionCandidate,
         FlagOrphan, IgnoreOrphan, OrphansDone, GuardPositions,
         ForceFlattened, GuardPosition, GuardDone, MarkFlattened, MarkDone,
         ReadBack, AnsweredFor
<1> QED BY <1>1, <1>2, <1>3, <1>4 DEF Process

\* A closed row is reopened by a preflight's reconciliation only.
LEMMA ReopenedInPreflight ==
  ASSUME IInv, Process, NEW s \in Symbols, pos[s] = "closed", pos'[s] # "closed"
  PROVE  stage = "preflight"
<1>1. CASE Admission
  BY <1>1, SMTT(60)
     DEF IInv, TypeOK, BrokerTypeOK, StoreTypeOK, ProcTypeOK, Safe,
         HandlesOne, At, BrokerQuiet, StoreQuiet, brokerVars, storeVars,
         Goto, Call, Back, Halt, ProcIdle, CloseSteps, EntrySteps,
         PreflightSteps, NoFault, Owned, Opened, ClosesOwned, FreshPosition,
         Within, Marking, Guarding, Flattening, Admission, Admit, Deliver,
         Loop, AdmitBlind
<1>2. CASE Pipeline /\ UNCHANGED signals
  BY <1>2, SMTT(60)
     DEF IInv, TypeOK, BrokerTypeOK, StoreTypeOK, ProcTypeOK, Safe,
         HandlesOne, At, BrokerQuiet, StoreQuiet, brokerVars, storeVars,
         Goto, Call, Back, Halt, ProcIdle, CloseSteps, EntrySteps,
         PreflightSteps, NoFault, Owned, Opened, ClosesOwned, FreshPosition,
         Within, Marking, Guarding, Flattening, Pipeline, EntryBlocked,
         EntriesDone, NextCandidate, Take, SkipCandidate,
         ReconcileUnreachable, SetOrder, RecordIntent, SubmitAccepted,
         AcceptEntry, SubmitAnswerLost, SubmitRejected, RowSubmitted,
         RowAmbiguous, RowRejected, PollFill, Branch, LegsResting,
         CancelUnfilled, AcceptEntryCancel, ConfirmUnfilled, RowUnresolved,
         RowUnfilled, PartialOpen, OpenPosition, PartialDegrade,
         SetPosition, PartialUnresolved, PartialResult, FullRow, FullOpen,
         FullCheck, FullDegrade, ReplaceTarget, AcceptTargetReplace,
         TargetReplaceable, ReplaceTargetFails, VerifyTarget, FullProtected,
         SaveTargetAndOpen, FullUnconfirmed
<1>3. CASE Closing /\ UNCHANGED signals
  BY <1>3, SMTT(60)
     DEF IInv, TypeOK, BrokerTypeOK, StoreTypeOK, ProcTypeOK, Safe,
         HandlesOne, At, BrokerQuiet, StoreQuiet, brokerVars, storeVars,
         Goto, Call, Back, Halt, ProcIdle, CloseSteps, EntrySteps,
         PreflightSteps, NoFault, Owned, Opened, ClosesOwned, FreshPosition,
         Within, Marking, Guarding, Flattening, Closing, CloseWithoutStop,
         CancelStop, AcceptStopCancel, LegsResting, CancelStopRefused,
         ConfirmStopCanceled, StopReadsCanceled, StopCancelUnconfirmed,
         Outcome, ExitAlreadyThere, SubmitExit, AcceptExit, SubmitExitLost,
         SubmitExitFails, PollExit, ReadBackFlat, CloseRow, SetPosition,
         CloseTrade, WriteTrade
<1>4. CASE Recovering /\ UNCHANGED signals
  BY <1>4, SMTT(60)
     DEF IInv, TypeOK, BrokerTypeOK, StoreTypeOK, ProcTypeOK, Safe,
         HandlesOne, At, BrokerQuiet, StoreQuiet, brokerVars, storeVars,
         Goto, Call, Back, Halt, ProcIdle, CloseSteps, EntrySteps,
         PreflightSteps, NoFault, Owned, Opened, ClosesOwned, FreshPosition,
         Within, Marking, Guarding, Flattening, Recovering, StartCycle,
         Begin, ReconcileSet, StartCloseout, StartPreflight, ReconcileHeld,
         Skip, ReconcileMismatch, SetPosition, ReconcileExited,
         ReconcileUnreadable, Loop, ReconcileDone, DegradedReplace,
         AcceptTargetReplace, Take, TargetReplaceable, DegradedSkip,
         DegradedPoll, DegradedDone, ResolveUnreachable, ResolveNoOrder,
         SetOrder, ResolveFill, LegsResting, ResolveOpen, OpenPosition,
         ResolveFlag, ResolveDone, ReadOrphans, AdoptOrphan,
         AdoptionCandidate, FlagOrphan, IgnoreOrphan, OrphansDone,
         GuardPositions, ForceFlattened, GuardPosition, GuardDone,
         MarkFlattened, MarkDone, ReadBack, AnsweredFor
<1> QED BY <1>1, <1>2, <1>3, <1>4 DEF Process

(***************************************************************************)
(* The broker, a crash and a stuttering step do none of the three.          *)
(***************************************************************************)
\* The broker on its own places no order and touches no row.
LEMMA BrokerPlacesNothing ==
  ASSUME BrokerTypeOK, Broker, NEW s \in Symbols
  PROVE  /\ entry[s] = "none" => entry'[s] = "none"
         /\ exit[s] = "none" => exit'[s] = "none"
         /\ pos' = pos
BY DEF Broker, BrokerMoves, BrokerTypeOK, EntryFills, EntryFillsPartly, EntryEnds,
       StopFills, TargetFills, LegsEnd, ExitFills, ExitEnds, EntryResting, NoFault,
       storeVars

\* A crash changes neither broker nor store.
LEMMA CrashKeepsAll ==
  ASSUME Crash \/ UNCHANGED vars
  PROVE  UNCHANGED <<entry, exit, pos, order, oco, trade>>
BY DEF Crash, BrokerQuiet, StoreQuiet, brokerVars, storeVars, vars

(***************************************************************************)
(* The action properties.                                                   *)
(***************************************************************************)
\* No entry reaches the broker while the store shows a degraded or ambiguous
\* position, another unresolved order or an orphan (EntriesOnlyWhenClean).
THEOREM EntriesClean == Spec => EntriesOnlyWhenClean
<1>1. ASSUME IInv, [Next]_vars
      PROVE  ~EntryWhileUnclean
  <2>1. SUFFICES ASSUME NEW s \in Symbols, entry[s] = "none", entry'[s] # "none"
                 PROVE  /\ audit = {}
                        /\ \A o \in Symbols :
                             /\ pos[o] \notin {"protected_degraded", "ambiguous"}
                             /\ o # s => order[o] \notin AmbiguousOrder
    BY DEF EntryWhileUnclean
  <2>2. Process
    BY <1>1, <2>1, BrokerPlacesNothing, CrashKeepsAll DEF Next, IInv, TypeOK
  <2>3. pc = "submit" /\ s = cur
    BY <1>1, <2>1, <2>2, EntryPlacedAtSubmit
  <2> QED BY <1>1, <2>3 DEF IInv, Safe, CleanAtSubmit
<1>2. IInv /\ [Next]_vars => [~EntryWhileUnclean]_vars
  BY <1>1
<1> QED BY <1>2, Inductive, PTL DEF Spec, EntriesOnlyWhenClean

\* A market close is sent only for a position the store calls its own
\* (ExitOnlyForOwned).
THEOREM ExitsOwned == Spec => ExitOnlyForOwned
<1> DEFINE Owns == \A s \in Symbols : exit[s] = "none" /\ exit'[s] # "none"
                                  => pos[s] \in {"open", "protected_degraded"}
<1>1. ASSUME IInv, [Next]_vars
      PROVE  Owns
  <2>1. SUFFICES ASSUME NEW s \in Symbols, exit[s] = "none", exit'[s] # "none"
                 PROVE  pos[s] \in {"open", "protected_degraded"}
    OBVIOUS
  <2>2. Process
    BY <1>1, <2>1, BrokerPlacesNothing, CrashKeepsAll DEF Next, IInv, TypeOK
  <2>3. pc = "x_submit" /\ s = cur
    BY <1>1, <2>1, <2>2, ExitPlacedAtSubmit DEF IInv, TypeOK
  <2> QED BY <1>1, <2>3 DEF IInv, Safe, ClosesOwned, Owned
<1>2. IInv /\ [Next]_vars => [Owns]_vars
  BY <1>1
<1> QED BY <1>2, Inductive, PTL DEF Spec, ExitOnlyForOwned

\* No cycle and no closeout revives a closed position (OnlyPreflightReopens).
THEOREM ReopensInPreflight == Spec => OnlyPreflightReopens
<1> DEFINE Reopens == \A s \in Symbols : pos[s] = "closed" /\ pos'[s] # "closed"
                                     => stage = "preflight"
<1>1. ASSUME IInv, [Next]_vars
      PROVE  Reopens
  <2>1. SUFFICES ASSUME NEW s \in Symbols, pos[s] = "closed", pos'[s] # "closed"
                 PROVE  stage = "preflight"
    OBVIOUS
  <2>2. Process
    BY <1>1, <2>1, BrokerPlacesNothing, CrashKeepsAll DEF Next, IInv, TypeOK
  <2> QED BY <1>1, <2>1, <2>2, ReopenedInPreflight
<1>2. IInv /\ [Next]_vars => [Reopens]_vars
  BY <1>1
<1> QED BY <1>2, Inductive, PTL DEF Spec, OnlyPreflightReopens

\* A closeout that reports the broker flat has seen every tracked position
\* flat (FlatCoversTracked).
THEOREM FlatTracked == Spec => FlatCoversTracked
<1> DEFINE Covers == ReadBack /\ flatStat' = "true"
                       => \A s \in Symbols : pos[s] \in Tracked => Held(s) = 0
<1>1. IInv => Covers
  BY DEF IInv, Safe, GuardianAccounts, ReadBack, AnsweredFor, At, Guarding, Within,
         Flattening, CloseSteps, NoFault
<1>2. IInv /\ [Next]_vars => [Covers]_vars
  BY <1>1
<1> QED BY <1>2, Inductive, PTL DEF Spec, FlatCoversTracked

(***************************************************************************)
(* The refinement of SlcTradeLedger.                                        *)
(***************************************************************************)
\* A step of the closing routines is a ledger step or a stutter.
LEMMA LedgerClosing ==
  ASSUME IInv, Closing
  PROVE  [Ledger!LedgerNext]_(Ledger!ledgerVars)
<1> USE DEF IInv, TypeOK, BrokerTypeOK, StoreTypeOK, ProcTypeOK, Safe,
          HandlesOne, At, BrokerQuiet, StoreQuiet, brokerVars, storeVars,
          Goto, Call, Back, Halt, ProcIdle, CloseSteps, EntrySteps,
          PreflightSteps, Ledger!LedgerNext, Ledger!Intend, Ledger!Place,
          Ledger!Exit, Ledger!Book, Ledger!ledgerVars, Sold, OrderRowsTrue,
          NothingBeforeEntry, IntentFirst, ClosesSold, SoldOut, Opened,
          Marking, EntryResting, LegsResting, FreshPosition
<1>1. CASE CloseWithoutStop
  BY <1>1 DEF CloseWithoutStop
<1>2. CASE CancelStop
  BY <1>2 DEF CancelStop, AcceptStopCancel, LegsResting
<1>3. CASE CancelStopRefused
  BY <1>3 DEF CancelStopRefused, LegsResting
<1>4. CASE ConfirmStopCanceled
  BY <1>4 DEF ConfirmStopCanceled, StopReadsCanceled
<1>5. CASE StopCancelUnconfirmed
  BY <1>5 DEF StopCancelUnconfirmed, StopReadsCanceled, Outcome
<1>6. CASE ExitAlreadyThere
  BY <1>6 DEF ExitAlreadyThere
<1>7. CASE SubmitExit
  BY <1>7 DEF SubmitExit, AcceptExit, LegsResting
<1>8. CASE SubmitExitLost
  BY <1>8 DEF SubmitExitLost, AcceptExit, Outcome, LegsResting
<1>9. CASE SubmitExitFails
  BY <1>9 DEF SubmitExitFails, LegsResting, Outcome
<1>10. CASE PollExit
  BY <1>10 DEF PollExit, Outcome
<1>11. CASE ReadBackFlat
  BY <1>11 DEF ReadBackFlat, Held, Outcome
<1>12. CASE CloseRow
  BY <1>12 DEF CloseRow, SetPosition
<1>13. CASE CloseTrade
  BY <1>13 DEF CloseTrade, WriteTrade
<1> QED
  BY <1>1, <1>2, <1>3, <1>4, <1>5, <1>6, <1>7, <1>8, <1>9, <1>10, <1>11,
     <1>12, <1>13 DEF Closing

\* Admission is a stutter of the ledger.
LEMMA LedgerAdmission ==
  ASSUME IInv, Admission
  PROVE  [Ledger!LedgerNext]_(Ledger!ledgerVars)
<1> USE DEF IInv, TypeOK, BrokerTypeOK, StoreTypeOK, ProcTypeOK, Safe,
          HandlesOne, At, BrokerQuiet, StoreQuiet, brokerVars, storeVars,
          Goto, Call, Back, Halt, ProcIdle, CloseSteps, EntrySteps,
          PreflightSteps, Ledger!LedgerNext, Ledger!Intend, Ledger!Place,
          Ledger!Exit, Ledger!Book, Ledger!ledgerVars, Sold, OrderRowsTrue,
          NothingBeforeEntry, IntentFirst, ClosesSold, SoldOut, Opened,
          Marking, EntryResting, LegsResting, FreshPosition
<1>1. CASE Admit
  BY <1>1 DEF Admit, Deliverable, Deliver, SelectWithinCapacity, SymbolFree, Loop,
      NothingHeld, Room, Held, ConsumesEntrySlot, EntriesToday,
      OpenPositions
<1>2. CASE AdmitBlind
  BY <1>2 DEF AdmitBlind, Deliverable, Deliver
<1> QED
  BY <1>1, <1>2 DEF Admission

\* A step of the entry pipeline is a ledger step or a stutter.
LEMMA LedgerPipeline ==
  ASSUME IInv, Pipeline
  PROVE  [Ledger!LedgerNext]_(Ledger!ledgerVars)
<1> USE DEF IInv, TypeOK, BrokerTypeOK, StoreTypeOK, ProcTypeOK, Safe,
          HandlesOne, At, BrokerQuiet, StoreQuiet, brokerVars, storeVars,
          Goto, Call, Back, Halt, ProcIdle, CloseSteps, EntrySteps,
          PreflightSteps, Ledger!LedgerNext, Ledger!Intend, Ledger!Place,
          Ledger!Exit, Ledger!Book, Ledger!ledgerVars, Sold, OrderRowsTrue,
          NothingBeforeEntry, IntentFirst, ClosesSold, SoldOut, Opened,
          Marking, EntryResting, LegsResting, FreshPosition
<1>1. CASE EntryBlocked
  BY <1>1 DEF EntryBlocked
<1>2. CASE EntriesDone
  BY <1>2 DEF EntriesDone
<1>3. CASE NextCandidate
  BY <1>3 DEF NextCandidate, Take
<1>4. CASE SkipCandidate
  BY <1>4 DEF SkipCandidate
<1>5. CASE ReconcileUnreachable
  BY <1>5 DEF ReconcileUnreachable, SymbolFree, OpenPositions, SetOrder, Held,
      ConsumesEntrySlot
<1>6. CASE RecordIntent
  BY <1>6 DEF RecordIntent, SymbolFree, OpenPositions, SetOrder, Held,
      ConsumesEntrySlot
<1>7. CASE SubmitAccepted
  BY <1>7 DEF SubmitAccepted, AcceptEntry
<1>8. CASE SubmitAnswerLost
  BY <1>8 DEF SubmitAnswerLost, AcceptEntry
<1>9. CASE SubmitRejected
  BY <1>9 DEF SubmitRejected
<1>10. CASE RowSubmitted
  BY <1>10 DEF RowSubmitted, SetOrder
<1>11. CASE RowAmbiguous
  BY <1>11 DEF RowAmbiguous, SetOrder
<1>12. CASE RowRejected
  BY <1>12 DEF RowRejected, SetOrder
<1>13. CASE PollFill
  BY <1>13 DEF PollFill, Branch, Observe, StopLegLive, LegsResting
<1>14. CASE CancelUnfilled
  BY <1>14 DEF CancelUnfilled, AcceptEntryCancel
<1>15. CASE ConfirmUnfilled
  BY <1>15 DEF ConfirmUnfilled, Branch, Observe, StopLegLive, LegsResting
<1>16. CASE RowUnresolved
  BY <1>16 DEF RowUnresolved, SetOrder
<1>17. CASE RowUnfilled
  BY <1>17 DEF RowUnfilled, SetOrder
<1>18. CASE PartialOpen
  BY <1>18 DEF PartialOpen, OpenPosition
<1>19. CASE PartialDegrade
  BY <1>19 DEF PartialDegrade, SetPosition
<1>20. CASE PartialUnresolved
  BY <1>20 DEF PartialUnresolved, SetOrder
<1>21. CASE PartialResult
  BY <1>21 DEF PartialResult, SetOrder
<1>22. CASE FullRow
  BY <1>22 DEF FullRow, SetOrder
<1>23. CASE FullOpen
  BY <1>23 DEF FullOpen, OpenPosition
<1>24. CASE FullCheck
  BY <1>24 DEF FullCheck
<1>25. CASE FullDegrade
  BY <1>25 DEF FullDegrade, SetPosition
<1>26. CASE ReplaceTarget
  BY <1>26 DEF ReplaceTarget, AcceptTargetReplace, TargetReplaceable
<1>27. CASE ReplaceTargetFails
  BY <1>27 DEF ReplaceTargetFails, TargetReplaceable
<1>28. CASE VerifyTarget
  BY <1>28 DEF VerifyTarget
<1>29. CASE FullProtected
  BY <1>29 DEF FullProtected, SaveTargetAndOpen
<1>30. CASE FullUnconfirmed
  BY <1>30 DEF FullUnconfirmed, SetPosition
<1> QED
  BY <1>1, <1>2, <1>3, <1>4, <1>5, <1>6, <1>7, <1>8, <1>9, <1>10, <1>11,
     <1>12, <1>13, <1>14, <1>15, <1>16, <1>17, <1>18, <1>19, <1>20, <1>21,
     <1>22, <1>23, <1>24, <1>25, <1>26, <1>27, <1>28, <1>29, <1>30 DEF Pipeline

\* A step of a recovery stage is a ledger step or a stutter.
LEMMA LedgerRecovering ==
  ASSUME IInv, Recovering
  PROVE  [Ledger!LedgerNext]_(Ledger!ledgerVars)
<1> USE DEF IInv, TypeOK, BrokerTypeOK, StoreTypeOK, ProcTypeOK, Safe,
          HandlesOne, At, BrokerQuiet, StoreQuiet, brokerVars, storeVars,
          Goto, Call, Back, Halt, ProcIdle, CloseSteps, EntrySteps,
          PreflightSteps, Ledger!LedgerNext, Ledger!Intend, Ledger!Place,
          Ledger!Exit, Ledger!Book, Ledger!ledgerVars, Sold, OrderRowsTrue,
          NothingBeforeEntry, IntentFirst, ClosesSold, SoldOut, Opened,
          Marking, EntryResting, LegsResting, FreshPosition
<1>1. CASE StartCycle
  BY <1>1 DEF StartCycle, Begin, ReconcileSet, BrokerPositions, Held
<1>2. CASE StartCloseout
  BY <1>2 DEF StartCloseout, Begin, ReconcileSet, BrokerPositions, Held
<1>3. CASE StartPreflight
  BY <1>3 DEF StartPreflight, Begin, NothingHeld
<1>4. CASE ReconcileHeld
  BY <1>4 DEF ReconcileHeld, Skip
<1>5. CASE ReconcileMismatch
  BY <1>5 DEF ReconcileMismatch, ExitEvidence, Skip, SetPosition, FilledExits
<1>6. CASE ReconcileExited
  BY <1>6 DEF ReconcileExited, ExitEvidence, FilledExits
<1>7. CASE ReconcileUnreadable
  BY <1>7 DEF ReconcileUnreadable, Loop, NothingHeld
<1>8. CASE ReconcileDone
  BY <1>8 DEF ReconcileDone, Loop, NothingHeld
<1>9. CASE DegradedReplace
  BY <1>9 DEF DegradedReplace, AcceptTargetReplace, Take, TargetReplaceable
<1>10. CASE DegradedSkip
  BY <1>10 DEF DegradedSkip, TargetReplaceable, AcceptTargetReplace, Skip
<1>11. CASE DegradedPoll
  BY <1>11 DEF DegradedPoll
<1>12. CASE DegradedDone
  BY <1>12 DEF DegradedDone, Loop, NothingHeld
<1>13. CASE ResolveUnreachable
  BY <1>13 DEF ResolveUnreachable, Skip
<1>14. CASE ResolveNoOrder
  BY <1>14 DEF ResolveNoOrder, ShowsNoFill, Skip, SetOrder
<1>15. CASE ResolveFill
  BY <1>15 DEF ResolveFill, ShowsNoFill, Take, StopLegLive, SetOrder, LegsResting
<1>16. CASE ResolveOpen
  BY <1>16 DEF ResolveOpen, OpenPosition
<1>17. CASE ResolveFlag
  BY <1>17 DEF ResolveFlag, SetPosition
<1>18. CASE ResolveDone
  BY <1>18 DEF ResolveDone
<1>19. CASE ReadOrphans
  BY <1>19 DEF ReadOrphans, Loop, Held, BrokerPositions, NothingHeld
<1>20. CASE AdoptOrphan
  BY <1>20 DEF AdoptOrphan, AdoptionCandidate, Skip, OpenPosition
<1>21. CASE FlagOrphan
  BY <1>21 DEF FlagOrphan, AdoptionCandidate
<1>22. CASE IgnoreOrphan
  BY <1>22 DEF IgnoreOrphan, Skip
<1>23. CASE OrphansDone
  BY <1>23 DEF OrphansDone, Loop, NothingHeld
<1>24. CASE GuardPositions
  BY <1>24 DEF GuardPositions, ForceFlattened
<1>25. CASE GuardPosition
  BY <1>25 DEF GuardPosition
<1>26. CASE GuardDone
  BY <1>26 DEF GuardDone, Loop, NothingHeld
<1>27. CASE MarkFlattened
  BY <1>27 DEF MarkFlattened
<1>28. CASE MarkDone
  BY <1>28 DEF MarkDone
<1>29. CASE ReadBack
  BY <1>29 DEF ReadBack, AnsweredFor, Held
<1> QED
  BY <1>1, <1>2, <1>3, <1>4, <1>5, <1>6, <1>7, <1>8, <1>9, <1>10, <1>11,
     <1>12, <1>13, <1>14, <1>15, <1>16, <1>17, <1>18, <1>19, <1>20, <1>21,
     <1>22, <1>23, <1>24, <1>25, <1>26, <1>27, <1>28, <1>29 DEF Recovering

\* A move of the broker is a ledger Exit or a stutter.
LEMMA LedgerBroker ==
  ASSUME IInv, NEW s \in Symbols, BrokerMoves(s),
         UNCHANGED <<storeVars, signals, procVars>>
  PROVE  [Ledger!LedgerNext]_(Ledger!ledgerVars)
<1> USE DEF IInv, TypeOK, BrokerTypeOK, StoreTypeOK, ProcTypeOK, Safe,
          HandlesOne, At, BrokerQuiet, StoreQuiet, brokerVars, storeVars,
          Goto, Call, Back, Halt, ProcIdle, CloseSteps, EntrySteps,
          PreflightSteps, Ledger!LedgerNext, Ledger!Intend, Ledger!Place,
          Ledger!Exit, Ledger!Book, Ledger!ledgerVars, Sold, OrderRowsTrue,
          NothingBeforeEntry, IntentFirst, ClosesSold, SoldOut, Opened,
          Marking, EntryResting, LegsResting, FreshPosition, procVars
<1>1. CASE EntryFills(s)
  BY <1>1 DEF EntryFills
<1>2. CASE EntryFillsPartly(s)
  BY <1>2 DEF EntryFillsPartly
<1>3. CASE EntryEnds(s)
  BY <1>3 DEF EntryEnds
<1>4. CASE StopFills(s)
  BY <1>4 DEF StopFills
<1>5. CASE TargetFills(s)
  BY <1>5 DEF TargetFills
<1>6. CASE LegsEnd(s)
  BY <1>6 DEF LegsEnd
<1>7. CASE ExitFills(s)
  BY <1>7 DEF ExitFills
<1>8. CASE ExitEnds(s)
  BY <1>8 DEF ExitEnds
<1> QED
  BY <1>1, <1>2, <1>3, <1>4, <1>5, <1>6, <1>7, <1>8 DEF BrokerMoves

\* Every step is a ledger step or a stutter.
LEMMA LedgerStep ==
  ASSUME IInv, [Next]_vars
  PROVE  [Ledger!LedgerNext]_(Ledger!ledgerVars)
<1>1. CASE Broker
  BY <1>1, LedgerBroker DEF Broker
<1>2. CASE Process
  BY <1>2, LedgerAdmission, LedgerPipeline, LedgerClosing, LedgerRecovering DEF Process
<1>3. CASE Crash \/ UNCHANGED vars
  BY <1>3, CrashKeepsAll DEF Ledger!ledgerVars, Sold
<1> QED BY <1>1, <1>2, <1>3 DEF Next

\* The runner implements the ledger: every entry is placed once and on record
\* before, every trade is booked once and after a filled exit (LedgerSpec).
THEOREM LedgerImplemented == Spec => LedgerSpec
<1>1. Init => Ledger!LedgerInit
  BY DEF Init, BrokerInit, StoreInit, Ledger!LedgerInit, Sold
<1>2. IInv /\ [Next]_vars => [Ledger!LedgerNext]_(Ledger!ledgerVars)
  BY LedgerStep
<1> QED BY <1>1, <1>2, Inductive, PTL DEF Spec, LedgerSpec, Ledger!LedgerSpec
(***************************************************************************)
(* The daily limit.                                                         *)
(***************************************************************************)
\* The candidates of this cycle that may still become entries: admitted and
\* not yet sent.
CandidateLoop ==
  \/ pc \in EntrySteps \ {"admit"}
  \/ pc \in Flattening /\ ret \in {"partial", "full"}
  \/ pc \in Marking /\ ret = "entry"
Candidates ==
  (IF CandidateLoop THEN todo ELSE {})
    \union (IF pc \in {"presubmit", "submit"} THEN {cur} ELSE {})

\* Together with the entries at the broker they stay within the limit.
EntrySlots == {s \in Symbols : ConsumesEntrySlot(s)}
SlotsReserved == Cardinality(EntrySlots \union Candidates) <= MaxEntries

\* Only the submit step takes a slot.
LEMMA SlotTakenAtSubmit ==
  ASSUME Process, NEW s \in Symbols, ~ConsumesEntrySlot(s), ConsumesEntrySlot(s)', IInv
  PROVE  pc = "submit" /\ s = cur
<1>1. CASE Admission
  BY <1>1, SMTT(60)
     DEF At, Goto, Call, Back, Halt, ProcIdle, BrokerQuiet, StoreQuiet,
         NoFault, brokerVars, storeVars, EntryResting, LegsResting, IInv,
         ConsumesEntrySlot,
         TypeOK, BrokerTypeOK, Safe, NothingBeforeEntry, HandlesOne,
         CloseSteps, Admission, Admit, Deliver, Loop, AdmitBlind
<1>2. CASE Pipeline /\ UNCHANGED signals
  BY <1>2, SMTT(60)
     DEF At, Goto, Call, Back, Halt, ProcIdle, BrokerQuiet, StoreQuiet,
         NoFault, brokerVars, storeVars, EntryResting, LegsResting, IInv,
         ConsumesEntrySlot,
         TypeOK, BrokerTypeOK, Safe, NothingBeforeEntry, HandlesOne,
         CloseSteps, Pipeline, EntryBlocked, EntriesDone, NextCandidate,
         Take, SkipCandidate, ReconcileUnreachable, SetOrder, RecordIntent,
         SubmitAccepted, AcceptEntry, SubmitAnswerLost, SubmitRejected,
         RowSubmitted, RowAmbiguous, RowRejected, PollFill, Branch,
         CancelUnfilled, AcceptEntryCancel, ConfirmUnfilled, RowUnresolved,
         RowUnfilled, PartialOpen, OpenPosition, PartialDegrade,
         SetPosition, PartialUnresolved, PartialResult, FullRow, FullOpen,
         FullCheck, FullDegrade, ReplaceTarget, AcceptTargetReplace,
         TargetReplaceable, ReplaceTargetFails, VerifyTarget, FullProtected,
         SaveTargetAndOpen, FullUnconfirmed
<1>3. CASE Closing /\ UNCHANGED signals
  BY <1>3, SMTT(60)
     DEF At, Goto, Call, Back, Halt, ProcIdle, BrokerQuiet, StoreQuiet,
         NoFault, brokerVars, storeVars, EntryResting, LegsResting, IInv,
         ConsumesEntrySlot,
         TypeOK, BrokerTypeOK, Safe, NothingBeforeEntry, HandlesOne,
         CloseSteps, Closing, CloseWithoutStop, CancelStop,
         AcceptStopCancel, CancelStopRefused, ConfirmStopCanceled,
         StopReadsCanceled, StopCancelUnconfirmed, Outcome,
         ExitAlreadyThere, SubmitExit, AcceptExit, SubmitExitLost,
         SubmitExitFails, PollExit, ReadBackFlat, CloseRow, SetPosition,
         CloseTrade, WriteTrade
<1>4. CASE Recovering /\ UNCHANGED signals
  BY <1>4, SMTT(60)
     DEF At, Goto, Call, Back, Halt, ProcIdle, BrokerQuiet, StoreQuiet,
         NoFault, brokerVars, storeVars, EntryResting, LegsResting, IInv,
         ConsumesEntrySlot,
         TypeOK, BrokerTypeOK, Safe, NothingBeforeEntry, HandlesOne,
         CloseSteps, Recovering, StartCycle, Begin, ReconcileSet,
         StartCloseout, StartPreflight, ReconcileHeld, Skip,
         ReconcileMismatch, SetPosition, ReconcileExited,
         ReconcileUnreadable, Loop, ReconcileDone, DegradedReplace,
         AcceptTargetReplace, Take, TargetReplaceable, DegradedSkip,
         DegradedPoll, DegradedDone, ResolveUnreachable, ResolveNoOrder,
         SetOrder, ResolveFill, ResolveOpen, OpenPosition, ResolveFlag,
         ResolveDone, ReadOrphans, AdoptOrphan, AdoptionCandidate,
         FlagOrphan, IgnoreOrphan, OrphansDone, GuardPositions,
         ForceFlattened, GuardPosition, GuardDone, MarkFlattened, MarkDone,
         ReadBack, AnsweredFor
<1> QED BY <1>1, <1>2, <1>3, <1>4 DEF Process

\* Only the admission adds candidates.
LEMMA CandidatesShrink ==
  ASSUME Process, ~Admit, IInv, NEW s \in Candidates'
  PROVE  s \in Candidates
<1>1. CASE Admission
  BY <1>1, SMTT(60)
     DEF At, Goto, Call, Back, Halt, ProcIdle, BrokerQuiet, StoreQuiet,
         NoFault, brokerVars, storeVars, EntryResting, LegsResting, IInv,
         Candidates, CandidateLoop, Flattening, Marking, EntrySteps, ReturnsRight,
         TypeOK, BrokerTypeOK, Safe, NothingBeforeEntry, HandlesOne,
         CloseSteps, Admission, Deliver, Loop, AdmitBlind
<1>2. CASE Pipeline /\ UNCHANGED signals
  BY <1>2, SMTT(60)
     DEF At, Goto, Call, Back, Halt, ProcIdle, BrokerQuiet, StoreQuiet,
         NoFault, brokerVars, storeVars, EntryResting, LegsResting, IInv,
         Candidates, CandidateLoop, Flattening, Marking, EntrySteps, ReturnsRight,
         TypeOK, BrokerTypeOK, Safe, NothingBeforeEntry, HandlesOne,
         CloseSteps, Pipeline, EntryBlocked, EntriesDone, NextCandidate,
         Take, SkipCandidate, ReconcileUnreachable, SetOrder, RecordIntent,
         SubmitAccepted, AcceptEntry, SubmitAnswerLost, SubmitRejected,
         RowSubmitted, RowAmbiguous, RowRejected, PollFill, Branch,
         CancelUnfilled, AcceptEntryCancel, ConfirmUnfilled, RowUnresolved,
         RowUnfilled, PartialOpen, OpenPosition, PartialDegrade,
         SetPosition, PartialUnresolved, PartialResult, FullRow, FullOpen,
         FullCheck, FullDegrade, ReplaceTarget, AcceptTargetReplace,
         TargetReplaceable, ReplaceTargetFails, VerifyTarget, FullProtected,
         SaveTargetAndOpen, FullUnconfirmed
<1>3. CASE Closing /\ UNCHANGED signals
  BY <1>3, SMTT(60)
     DEF At, Goto, Call, Back, Halt, ProcIdle, BrokerQuiet, StoreQuiet,
         NoFault, brokerVars, storeVars, EntryResting, LegsResting, IInv,
         Candidates, CandidateLoop, Flattening, Marking, EntrySteps, ReturnsRight,
         TypeOK, BrokerTypeOK, Safe, NothingBeforeEntry, HandlesOne,
         CloseSteps, Closing, CloseWithoutStop, CancelStop,
         AcceptStopCancel, CancelStopRefused, ConfirmStopCanceled,
         StopReadsCanceled, StopCancelUnconfirmed, Outcome,
         ExitAlreadyThere, SubmitExit, AcceptExit, SubmitExitLost,
         SubmitExitFails, PollExit, ReadBackFlat, CloseRow, SetPosition,
         CloseTrade, WriteTrade
<1>4. CASE Recovering /\ UNCHANGED signals
  BY <1>4, SMTT(60)
     DEF At, Goto, Call, Back, Halt, ProcIdle, BrokerQuiet, StoreQuiet,
         NoFault, brokerVars, storeVars, EntryResting, LegsResting, IInv,
         Candidates, CandidateLoop, Flattening, Marking, EntrySteps, ReturnsRight,
         TypeOK, BrokerTypeOK, Safe, NothingBeforeEntry, HandlesOne,
         CloseSteps, Recovering, StartCycle, Begin, ReconcileSet,
         StartCloseout, StartPreflight, ReconcileHeld, Skip,
         ReconcileMismatch, SetPosition, ReconcileExited,
         ReconcileUnreadable, Loop, ReconcileDone, DegradedReplace,
         AcceptTargetReplace, Take, TargetReplaceable, DegradedSkip,
         DegradedPoll, DegradedDone, ResolveUnreachable, ResolveNoOrder,
         SetOrder, ResolveFill, ResolveOpen, OpenPosition, ResolveFlag,
         ResolveDone, ReadOrphans, AdoptOrphan, AdoptionCandidate,
         FlagOrphan, IgnoreOrphan, OrphansDone, GuardPositions,
         ForceFlattened, GuardPosition, GuardDone, MarkFlattened, MarkDone,
         ReadBack, AnsweredFor
<1> QED BY <1>1, <1>2, <1>3, <1>4 DEF Process

\* What speaks for fewer entries keeps within the limit.
LEMMA FewerSlots ==
  ASSUME IsFiniteSet(Symbols), IInv, SlotsReserved,
         NEW S \in SUBSET (EntrySlots \union Candidates)
  PROVE  Cardinality(S) <= MaxEntries
<1>1. EntrySlots \union Candidates \subseteq Symbols
  BY DEF EntrySlots, Candidates, IInv, TypeOK, ProcTypeOK, Safe, HandlesOne,
         EntrySteps
<1>2. IsFiniteSet(EntrySlots \union Candidates)
  BY <1>1, FS_Subset
<1>3. /\ Cardinality(S) \in Nat /\ Cardinality(EntrySlots \union Candidates) \in Nat
      /\ Cardinality(S) <= Cardinality(EntrySlots \union Candidates)
  BY <1>2, FS_Subset, FS_CardinalityType
<1> QED BY <1>3, EntryAssumption DEF SlotsReserved

\* The admission reserves no more than there is room for.
LEMMA AdmissionReserves ==
  ASSUME IsFiniteSet(Symbols), IInv, SlotsReserved, Admit
  PROVE  SlotsReserved'
<1>1. EntrySlots' = EntrySlots
  BY DEF Admit, BrokerQuiet, brokerVars, EntrySlots, ConsumesEntrySlot, EntryResting
<1>2. PICK conf \in SUBSET Deliverable :
        \E adm \in {{}} \union SelectWithinCapacity({s \in conf : SymbolFree(s)}) :
          Loop("entry", adm, NothingHeld)
  BY DEF Admit
<1>3. PICK adm \in {{}} \union SelectWithinCapacity({s \in conf : SymbolFree(s)}) :
          Loop("entry", adm, NothingHeld)
  BY <1>2
<1>4. adm \subseteq Symbols /\ (adm = {} \/ Room(adm))
  BY <1>2, <1>3 DEF SelectWithinCapacity, Deliverable
<1>5. Candidates' = adm
  BY <1>3 DEF Loop, Candidates, CandidateLoop, EntrySteps, Flattening, Marking
<1>6. CASE adm = {}
  <2>1. EntrySlots' \union Candidates' \in SUBSET (EntrySlots \union Candidates)
    BY <1>1, <1>5, <1>6
  <2> QED BY <2>1, FewerSlots DEF SlotsReserved
<1>7. CASE Room(adm)
  <2>1. IsFiniteSet(EntrySlots) /\ IsFiniteSet(adm)
    BY <1>4, FS_Subset DEF EntrySlots
  <2>2. IsFiniteSet(EntrySlots \intersect adm)
    BY <2>1, FS_Subset
  <2>3. /\ Cardinality(EntrySlots) \in Nat /\ Cardinality(adm) \in Nat
        /\ Cardinality(EntrySlots \intersect adm) \in Nat
    BY <2>1, <2>2, FS_CardinalityType
  <2>4. Cardinality(EntrySlots \union adm)
          = Cardinality(EntrySlots) + Cardinality(adm) - Cardinality(EntrySlots \intersect adm)
    BY <2>1, FS_Union
  <2>5. Cardinality(EntrySlots) + Cardinality(adm) <= MaxEntries
    BY <1>7 DEF Room, EntriesToday, EntrySlots
  <2>6. Cardinality(EntrySlots \union adm) <= MaxEntries
    BY <2>3, <2>4, <2>5, EntryAssumption
  <2> QED BY <1>1, <1>5, <2>6 DEF SlotsReserved
<1> QED BY <1>4, <1>6, <1>7

\* The broker frees slots, it takes none.
LEMMA BrokerTakesNoSlot ==
  ASSUME IInv, NEW s \in Symbols, BrokerMoves(s), NEW o \in Symbols, ConsumesEntrySlot(o)'
  PROVE  ConsumesEntrySlot(o)
BY SMTT(60) DEF BrokerMoves, EntryFills, EntryFillsPartly, EntryEnds, StopFills, TargetFills,
       LegsEnd, ExitFills, ExitEnds, ConsumesEntrySlot, EntryResting, IInv, TypeOK,
       BrokerTypeOK

\* Every step keeps the slots reserved.
LEMMA SlotsStep ==
  ASSUME IsFiniteSet(Symbols), IInv, SlotsReserved, [Next]_vars
  PROVE  SlotsReserved'
<1>1. CASE Broker
  <2>1. Candidates' = Candidates
    BY <1>1 DEF Broker, procVars, Candidates, CandidateLoop
  <2>2. EntrySlots' \subseteq EntrySlots
    BY <1>1, BrokerTakesNoSlot DEF Broker, EntrySlots
  <2>3. EntrySlots' \union Candidates' \in SUBSET (EntrySlots \union Candidates)
    BY <2>1, <2>2
  <2> QED BY <2>3, FewerSlots DEF SlotsReserved
<1>2. CASE Process /\ ~Admit
  <2>1. Candidates' \subseteq Candidates
    BY <1>2, CandidatesShrink
  <2>2. EntrySlots' \subseteq EntrySlots \union Candidates
    BY <1>2, SlotTakenAtSubmit DEF EntrySlots, Candidates
  <2>3. EntrySlots' \union Candidates' \in SUBSET (EntrySlots \union Candidates)
    BY <2>1, <2>2
  <2> QED BY <2>3, FewerSlots DEF SlotsReserved
<1>3. CASE Crash
  <2>1. Candidates' = {}
    BY <1>3 DEF Crash, Halt, ProcIdle, Candidates, CandidateLoop, EntrySteps,
         Flattening, Marking
  <2>2. EntrySlots' = EntrySlots
    BY <1>3 DEF Crash, BrokerQuiet, brokerVars, EntrySlots, ConsumesEntrySlot, EntryResting
  <2>3. EntrySlots' \union Candidates' \in SUBSET (EntrySlots \union Candidates)
    BY <2>1, <2>2
  <2> QED BY <2>3, FewerSlots DEF SlotsReserved
<1>4. CASE UNCHANGED vars
  BY <1>4 DEF vars, brokerVars, procVars, SlotsReserved, EntrySlots, Candidates,
       CandidateLoop, ConsumesEntrySlot, EntryResting
<1> QED BY <1>1, <1>2, <1>3, <1>4, AdmissionReserves DEF Next

\* The account takes no more entries in a session than the daily limit, however many
\* cycles die and leave orders behind (select_within_capacity).
THEOREM EntriesWithinLimit ==
  ASSUME IsFiniteSet(Symbols)
  PROVE  Spec => []EntrySlotsHold
<1>1. Init => SlotsReserved
  <2> SUFFICES ASSUME Init PROVE SlotsReserved
    OBVIOUS
  <2>1. EntrySlots = {} /\ Candidates = {}
    BY DEF Init, BrokerInit, ProcInit, ProcIdle, EntrySlots, ConsumesEntrySlot,
           EntryResting, Candidates, CandidateLoop, EntrySteps, Flattening, Marking
  <2> QED BY <2>1, FS_EmptySet, EntryAssumption DEF SlotsReserved
<1>2. IInv /\ SlotsReserved /\ [Next]_vars => SlotsReserved'
  BY SlotsStep
<1>3. IInv /\ SlotsReserved => EntrySlotsHold
  <2> SUFFICES ASSUME IInv, SlotsReserved PROVE EntrySlotsHold
    OBVIOUS
  <2>1. EntrySlots \in SUBSET (EntrySlots \union Candidates)
    OBVIOUS
  <2> QED BY <2>1, FewerSlots DEF EntrySlotsHold, EntriesToday, EntrySlots
<1> QED BY <1>1, <1>2, <1>3, Inductive, PTL DEF Spec

(***************************************************************************)
(* The protective stop, as long as no process dies half-way.                *)
(***************************************************************************)
\* A position on record as healthy without a stop is the one at hand, and the
\* step that looks at the stop is still to come.
StopInHand ==
  /\ \A s \in Symbols : pos[s] = "open" /\ ~posStop[s]
       => s = cur /\ pc \in {"p_degrade", "f_check", "f_degrade", "r_flag"}
  /\ pc = "f_check" /\ obs.stop => posStop[cur]
  /\ pc \in {"f_replace", "f_verify", "f_ids"} => posStop[cur]

\* The entry pipeline looks at the stop before it goes on.
LEMMA PipelineKeepsStop ==
  ASSUME IInv, StopInHand, Pipeline
  PROVE  StopInHand'
<1> USE DEF IInv, TypeOK, StoreTypeOK, ProcTypeOK, Safe, HandlesOne, At,
          StoreQuiet, storeVars, Goto, Call, Back, Halt, ProcIdle, CloseSteps,
          EntrySteps, PreflightSteps, StopInHand
<1>1. CASE EntryBlocked
  BY <1>1 DEF EntryBlocked
<1>2. CASE EntriesDone
  BY <1>2 DEF EntriesDone
<1>3. CASE NextCandidate
  BY <1>3 DEF NextCandidate, Take
<1>4. CASE SkipCandidate
  BY <1>4 DEF SkipCandidate
<1>5. CASE ReconcileUnreachable
  BY <1>5 DEF ReconcileUnreachable, SymbolFree, OpenPositions, SetOrder, Held,
      ConsumesEntrySlot
<1>6. CASE RecordIntent
  BY <1>6 DEF RecordIntent, SymbolFree, OpenPositions, SetOrder, Held,
      ConsumesEntrySlot
<1>7. CASE SubmitAccepted
  BY <1>7 DEF SubmitAccepted, AcceptEntry
<1>8. CASE SubmitAnswerLost
  BY <1>8 DEF SubmitAnswerLost, AcceptEntry
<1>9. CASE SubmitRejected
  BY <1>9 DEF SubmitRejected
<1>10. CASE RowSubmitted
  BY <1>10 DEF RowSubmitted, SetOrder
<1>11. CASE RowAmbiguous
  BY <1>11 DEF RowAmbiguous, SetOrder
<1>12. CASE RowRejected
  BY <1>12 DEF RowRejected, SetOrder
<1>13. CASE PollFill
  BY <1>13 DEF PollFill, Branch, Observe, StopLegLive, LegsResting
<1>14. CASE CancelUnfilled
  BY <1>14 DEF CancelUnfilled, AcceptEntryCancel
<1>15. CASE ConfirmUnfilled
  BY <1>15 DEF ConfirmUnfilled, Branch, Observe, StopLegLive, LegsResting
<1>16. CASE RowUnresolved
  BY <1>16 DEF RowUnresolved, SetOrder
<1>17. CASE RowUnfilled
  BY <1>17 DEF RowUnfilled, SetOrder
<1>18. CASE PartialOpen
  BY <1>18 DEF PartialOpen, OpenPosition
<1>19. CASE PartialDegrade
  BY <1>19 DEF PartialDegrade, SetPosition
<1>20. CASE PartialUnresolved
  BY <1>20 DEF PartialUnresolved, SetOrder
<1>21. CASE PartialResult
  BY <1>21 DEF PartialResult, SetOrder
<1>22. CASE FullRow
  BY <1>22 DEF FullRow, SetOrder
<1>23. CASE FullOpen
  BY <1>23 DEF FullOpen, OpenPosition
<1>24. CASE FullCheck
  BY <1>24 DEF FullCheck
<1>25. CASE FullDegrade
  BY <1>25 DEF FullDegrade, SetPosition
<1>26. CASE ReplaceTarget
  BY <1>26 DEF ReplaceTarget, AcceptTargetReplace, TargetReplaceable
<1>27. CASE ReplaceTargetFails
  BY <1>27 DEF ReplaceTargetFails, TargetReplaceable
<1>28. CASE VerifyTarget
  BY <1>28 DEF VerifyTarget
<1>29. CASE FullProtected
  BY <1>29 DEF FullProtected, SaveTargetAndOpen
<1>30. CASE FullUnconfirmed
  BY <1>30 DEF FullUnconfirmed, SetPosition
<1> QED
  BY <1>1, <1>2, <1>3, <1>4, <1>5, <1>6, <1>7, <1>8, <1>9, <1>10, <1>11,
     <1>12, <1>13, <1>14, <1>15, <1>16, <1>17, <1>18, <1>19, <1>20, <1>21,
     <1>22, <1>23, <1>24, <1>25, <1>26, <1>27, <1>28, <1>29, <1>30 DEF Pipeline

\* So do the recovery stages, which open healthy positions only in a preflight.
LEMMA RecoveryKeepsStop ==
  ASSUME IInv, StopInHand, Recovering
  PROVE  StopInHand'
<1> USE DEF IInv, TypeOK, StoreTypeOK, ProcTypeOK, Safe, HandlesOne, At,
          StoreQuiet, storeVars, Goto, Call, Back, Halt, ProcIdle, CloseSteps,
          EntrySteps, PreflightSteps, StopInHand
<1>1. CASE StartCycle
  BY <1>1 DEF StartCycle, Begin, ReconcileSet, BrokerPositions, Held
<1>2. CASE StartCloseout
  BY <1>2 DEF StartCloseout, Begin, ReconcileSet, BrokerPositions, Held
<1>3. CASE StartPreflight
  BY <1>3 DEF StartPreflight, Begin, NothingHeld
<1>4. CASE ReconcileHeld
  BY <1>4 DEF ReconcileHeld, Skip
<1>5. CASE ReconcileMismatch
  BY <1>5 DEF ReconcileMismatch, ExitEvidence, Skip, SetPosition, FilledExits
<1>6. CASE ReconcileExited
  BY <1>6 DEF ReconcileExited, ExitEvidence, FilledExits
<1>7. CASE ReconcileUnreadable
  BY <1>7 DEF ReconcileUnreadable, Loop, NothingHeld
<1>8. CASE ReconcileDone
  BY <1>8 DEF ReconcileDone, Loop, NothingHeld
<1>9. CASE DegradedReplace
  BY <1>9 DEF DegradedReplace, AcceptTargetReplace, Take, TargetReplaceable
<1>10. CASE DegradedSkip
  BY <1>10 DEF DegradedSkip, TargetReplaceable, AcceptTargetReplace, Skip
<1>11. CASE DegradedPoll
  BY <1>11 DEF DegradedPoll
<1>12. CASE DegradedDone
  BY <1>12 DEF DegradedDone, Loop, NothingHeld
<1>13. CASE ResolveUnreachable
  BY <1>13 DEF ResolveUnreachable, Skip
<1>14. CASE ResolveNoOrder
  BY <1>14 DEF ResolveNoOrder, ShowsNoFill, Skip, SetOrder
<1>15. CASE ResolveFill
  BY <1>15 DEF ResolveFill, ShowsNoFill, Take, StopLegLive, SetOrder, LegsResting
<1>16. CASE ResolveOpen
  BY <1>16 DEF ResolveOpen, OpenPosition
<1>17. CASE ResolveFlag
  BY <1>17 DEF ResolveFlag, SetPosition
<1>18. CASE ResolveDone
  BY <1>18 DEF ResolveDone
<1>19. CASE ReadOrphans
  BY <1>19 DEF ReadOrphans, Loop, Held, BrokerPositions, NothingHeld
<1>20. CASE AdoptOrphan
  BY <1>20 DEF AdoptOrphan, AdoptionCandidate, Skip, OpenPosition
<1>21. CASE FlagOrphan
  BY <1>21 DEF FlagOrphan, AdoptionCandidate
<1>22. CASE IgnoreOrphan
  BY <1>22 DEF IgnoreOrphan, Skip
<1>23. CASE OrphansDone
  BY <1>23 DEF OrphansDone, Loop, NothingHeld
<1>24. CASE GuardPositions
  BY <1>24 DEF GuardPositions, ForceFlattened
<1>25. CASE GuardPosition
  BY <1>25 DEF GuardPosition
<1>26. CASE GuardDone
  BY <1>26 DEF GuardDone, Loop, NothingHeld
<1>27. CASE MarkFlattened
  BY <1>27 DEF MarkFlattened
<1>28. CASE MarkDone
  BY <1>28 DEF MarkDone
<1>29. CASE ReadBack
  BY <1>29 DEF ReadBack, AnsweredFor, Held
<1> QED
  BY <1>1, <1>2, <1>3, <1>4, <1>5, <1>6, <1>7, <1>8, <1>9, <1>10, <1>11,
     <1>12, <1>13, <1>14, <1>15, <1>16, <1>17, <1>18, <1>19, <1>20, <1>21,
     <1>22, <1>23, <1>24, <1>25, <1>26, <1>27, <1>28, <1>29 DEF Recovering

\* Every step of the runner keeps it so.
LEMMA ProcessKeepsStop ==
  ASSUME IInv, StopInHand, Process
  PROVE  StopInHand'
<1>1. CASE Admission
  <2>1. pc = "admit" /\ pc' \in {"entry", "idle"}
    BY <1>1 DEF Admission, Admit, AdmitBlind, At, Loop, Halt, ProcIdle
  <2>2. UNCHANGED <<pos, posStop>>
    BY <1>1 DEF Admission, Admit, AdmitBlind, StoreQuiet, storeVars
  <2> QED BY <2>1, <2>2 DEF StopInHand
<1>2. CASE Pipeline /\ UNCHANGED signals
  BY <1>2, PipelineKeepsStop
<1>3. CASE Closing /\ UNCHANGED signals
  BY <1>3, SMTT(60)
     DEF At, Goto, Call, Back, Halt, ProcIdle, StoreQuiet, storeVars, IInv, TypeOK,
         StoreTypeOK, ProcTypeOK, Safe, HandlesOne, EntrySteps, CloseSteps,
         PreflightSteps, StopInHand, ReturnsRight, Marking, Flattening,
         Closing, CloseWithoutStop, CancelStop, CancelStopRefused,
         ConfirmStopCanceled, StopCancelUnconfirmed, Outcome, ExitAlreadyThere,
         SubmitExit, SubmitExitLost, SubmitExitFails, PollExit, ReadBackFlat,
         CloseRow, SetPosition, CloseTrade, WriteTrade
<1>4. CASE Recovering /\ UNCHANGED signals
  BY <1>4, RecoveryKeepsStop
<1> QED BY <1>1, <1>2, <1>3, <1>4 DEF Process

\* So does every other step, unless a process dies.
LEMMA StopStep ==
  ASSUME IInv, StopInHand, [Next]_vars, "crash" \notin Faults
  PROVE  StopInHand'
<1>1. CASE Broker
  BY <1>1 DEF Broker, storeVars, procVars, StopInHand
<1>2. CASE Process
  BY <1>2, ProcessKeepsStop
<1>3. CASE Crash
  BY <1>3 DEF Crash, Fault
<1>4. CASE UNCHANGED vars
  BY <1>4 DEF vars, storeVars, procVars, StopInHand
<1> QED BY <1>1, <1>2, <1>3, <1>4 DEF Next

\* When no process dies half-way, no position is left on record as healthy without a
\* live protective leg, whatever the broker refuses, loses or drops (the check of
\* the stop after the fill and in the delayed reconciliation).
THEOREM OpenPositionsHaveStop ==
  ASSUME "crash" \notin Faults
  PROVE  Spec => []OpenHasStop
<1>1. Init => StopInHand
  BY DEF Init, StoreInit, ProcInit, ProcIdle, StopInHand
<1>2. IInv /\ StopInHand /\ [Next]_vars => StopInHand'
  BY StopStep
<1>3. StopInHand => OpenHasStop
  BY DEF StopInHand, OpenHasStop
<1> QED BY <1>1, <1>2, <1>3, Inductive, PTL DEF Spec
=============================================================================
