----------------------- MODULE SlcAuthorizationProofs -----------------------
(***************************************************************************)
(* What SlcAuthorization promises for any versions, signers, accounts and   *)
(* nonces: its types, that a signed request is used once, that an entry is  *)
(* covered by the activation its gate read, and that a later transition is  *)
(* overtaken by one entry at most.                                          *)
(***************************************************************************)
EXTENDS SlcAuthorization, TLAPS

USE AuthorizationAssumption

(***************************************************************************)
(* The inductive invariant.                                                 *)
(***************************************************************************)
\* A payload is kept under the nonce it names.
FiledUnderNonce == \A n \in Nonces : requests[n] # None => requests[n].nonce = n

\* The nonce of an event is spent.
EventsConsume ==
  \A i \in DOMAIN events : events[i].nonce # None => nonces[events[i].nonce] = "consumed"

\* While the status is an activated one, the last event is the signed
\* transition to it, and the record still holds the pins of that event.
ActivationOnRecord ==
  record.status \in Activated =>
    /\ events # << >>
    /\ Last(events).to = record.status
    /\ Last(events).baseline = record.baseline
    /\ Last(events).account = record.account
    /\ record.baseline # None /\ record.account # None

HistoryInv ==
  /\ FiledUnderNonce /\ EventsConsume /\ RequestUsedOnce /\ ActivationOnRecord

\* A gate that has hashed the files found the baseline in them.
VerifiedMatches == verified # None => verified.baseline = verified.files

\* Gates and orders come in turn: an entry is sent after its gate, and the next
\* gate is asked after that.
InTurn ==
  /\ \A i \in DOMAIN entries : entries[i].gate <= entries[i].sent /\ entries[i].sent <= Len(events)
  /\ \A i, j \in DOMAIN entries : i < j => entries[i].sent <= entries[j].gate
  /\ cleared # None =>
       /\ cleared.gate <= Len(events)
       /\ \A i \in DOMAIN entries : entries[i].sent <= cleared.gate

EntryInv ==
  /\ VerifiedMatches /\ InTurn
  /\ SubmittedUnderActivation
  /\ cleared # None => ActivatedBy(cleared)

AuthInv == AuthTypeOK /\ HistoryInv /\ EntryInv

(***************************************************************************)
(* Events.                                                                  *)
(***************************************************************************)
\* What an append adds to the history, and what it leaves.
LEMMA Appended ==
  ASSUME NEW e \in Event, events \in Seq(Event), events' = Append(events, e)
  PROVE  /\ events' \in Seq(Event) /\ Len(events') = Len(events) + 1
         /\ events' # << >> /\ Last(events') = e
         /\ DOMAIN events' = DOMAIN events \union {Len(events) + 1}
         /\ Len(events) + 1 \notin DOMAIN events
         /\ \A i \in DOMAIN events : events'[i] = events[i]
         /\ events'[Len(events) + 1] = e
BY DEF Last

\* What a signed request records.
LEMMA RequestParts ==
  ASSUME NEW r \in Request
  PROVE  /\ r.to \in Statuses /\ r.baseline \in Versions /\ r.account \in Accounts
         /\ r.nonce \in Nonces /\ r.key \in Keys
         /\ [to |-> r.to, baseline |-> r.baseline, account |-> r.account,
             nonce |-> r.nonce, key |-> r.key] \in Event
BY DEF Request, Event

\* An event nobody signed is an event.
LEMMA UnsignedEvent ==
  ASSUME NEW to \in Targets
  PROVE  [to |-> to, baseline |-> None, account |-> None, nonce |-> None, key |-> None] \in Event
BY DEF Event, Statuses, Activated

\* A longer history leaves what the gates read of it.
LEMMA HistoryGrows ==
  ASSUME AuthTypeOK, EntryInv, NEW e \in Event, events' = Append(events, e), UNCHANGED cycleVars
  PROVE  EntryInv'
<1>1. /\ Len(events) \in Nat /\ Len(events') = Len(events) + 1
      /\ \A i \in DOMAIN events : events'[i] = events[i]
  BY Appended DEF AuthTypeOK
<1>2. \A i \in DOMAIN entries : entries[i] \in Entry
  BY DEF AuthTypeOK
<1>3. InTurn'
  BY <1>1, <1>2 DEF EntryInv, InTurn, cycleVars, Entry, AuthTypeOK, Clearance
<1>4. SubmittedUnderActivation'
  <2>1. SUFFICES ASSUME NEW i \in DOMAIN entries  PROVE ActivatedBy(entries[i])'
    BY DEF SubmittedUnderActivation, cycleVars
  <2>2. entries[i].gate \in 0 .. MaxEvents /\ entries[i].sent \in 0 .. MaxEvents
    BY <1>2 DEF Entry
  <2>3. entries[i].gate <= Len(events) /\ ActivatedBy(entries[i])
    BY <1>1, <2>2 DEF EntryInv, InTurn, SubmittedUnderActivation
  <2>4. entries' = entries
    BY DEF cycleVars
  <2> QED BY <1>1, <2>2, <2>3, <2>4 DEF ActivatedBy, AuthTypeOK
<1>5. (cleared # None => ActivatedBy(cleared))'
  <2>1. SUFFICES ASSUME cleared # None  PROVE ActivatedBy(cleared)'
    BY DEF cycleVars
  <2>2. cleared.gate \in 0 .. MaxEvents /\ cleared.gate <= Len(events) /\ ActivatedBy(cleared)
    BY <2>1 DEF EntryInv, InTurn, AuthTypeOK, Clearance
  <2>3. cleared' = cleared
    BY DEF cycleVars
  <2> QED BY <1>1, <2>2, <2>3 DEF ActivatedBy, AuthTypeOK
<1>6. VerifiedMatches'
  BY DEF EntryInv, VerifiedMatches, cycleVars
<1> QED BY <1>3, <1>4, <1>5, <1>6 DEF EntryInv

(***************************************************************************)
(* Steps.                                                                   *)
(***************************************************************************)
\* A signed transition spends a nonce no event has used.
LEMMA TransitionKeeps ==
  ASSUME AuthInv, NEW n \in Nonces, requests[n] # None, Transition(requests[n])
  PROVE  AuthInv'
<1> DEFINE r == requests[n]
           e == [to |-> r.to, baseline |-> r.baseline, account |-> r.account,
                nonce |-> r.nonce, key |-> r.key]
<1>1. r \in Request /\ r.nonce = n
  BY DEF AuthInv, AuthTypeOK, HistoryInv, FiledUnderNonce
<1>2. /\ r.to \in Statuses /\ r.baseline \in Versions /\ r.account \in Accounts
      /\ e \in Event
  BY <1>1, RequestParts
<1>3. /\ nonces[n] = "fresh" /\ nonces' = [nonces EXCEPT ![n] = "consumed"]
      /\ events' = Append(events, e) /\ Len(events) < MaxEvents
      /\ record' = [status |-> r.to, baseline |-> r.baseline, account |-> r.account]
      /\ UNCHANGED <<files, account, expected, requests, cycleVars>>
  BY <1>1 DEF Transition, Verified, NonceUsable, Consumed
<1> HIDE DEF r, e
<1>4. /\ events' \in Seq(Event) /\ Len(events') = Len(events) + 1
      /\ events' # << >> /\ Last(events') = e
      /\ DOMAIN events' = DOMAIN events \union {Len(events) + 1}
      /\ \A i \in DOMAIN events : events'[i] = events[i]
      /\ events'[Len(events) + 1] = e
  BY <1>2, <1>3, Appended DEF AuthInv, AuthTypeOK
<1>5. AuthTypeOK'
  BY <1>2, <1>3, <1>4 DEF AuthInv, AuthTypeOK, cycleVars
<1>6. FiledUnderNonce'
  BY <1>3 DEF AuthInv, HistoryInv, FiledUnderNonce
<1>7. e.nonce = n /\ e.to = r.to /\ e.baseline = r.baseline /\ e.account = r.account
  BY <1>1 DEF e
<1>8. EventsConsume'
  BY <1>3, <1>4, <1>7 DEF AuthInv, AuthTypeOK, HistoryInv, EventsConsume
<1>9. \A i \in DOMAIN events : events[i].nonce # n
  BY <1>3 DEF AuthInv, HistoryInv, EventsConsume
<1>10. RequestUsedOnce'
  BY <1>4, <1>7, <1>9 DEF AuthInv, HistoryInv, RequestUsedOnce
<1>11. ActivationOnRecord'
  BY <1>2, <1>3, <1>4, <1>7 DEF ActivationOnRecord
<1>12. EntryInv'
  BY <1>2, <1>3, HistoryGrows DEF AuthInv
<1> QED BY <1>5, <1>6, <1>8, <1>10, <1>11, <1>12 DEF AuthInv, HistoryInv

\* A transition nobody signed ends every activation.
LEMMA UnsignedKeeps ==
  ASSUME AuthInv, NEW to \in Targets, UnsignedTransition(to)
  PROVE  AuthInv'
<1> DEFINE e == [to |-> to, baseline |-> None, account |-> None, nonce |-> None, key |-> None]
<1>1. e \in Event
  BY UnsignedEvent
<1>2. /\ to \notin Activated /\ to \in Statuses /\ Len(events) < MaxEvents
      /\ events' = Append(events, e) /\ record' = [record EXCEPT !.status = to]
      /\ UNCHANGED <<files, account, expected, nonces, requests, cycleVars>>
  BY DEF UnsignedTransition, Statuses, Activated
<1>3. e.nonce = None
  OBVIOUS
<1> HIDE DEF e
<1>4. /\ events' \in Seq(Event) /\ Len(events') = Len(events) + 1
      /\ DOMAIN events' = DOMAIN events \union {Len(events) + 1}
      /\ \A i \in DOMAIN events : events'[i] = events[i]
      /\ events'[Len(events) + 1] = e
  BY <1>1, <1>2, Appended DEF AuthInv, AuthTypeOK
<1>5. AuthTypeOK'
  <2>1. record' \in [status : Statuses, baseline : Versions \union {None},
                     account : Accounts \union {None}]
    BY <1>2 DEF AuthInv, AuthTypeOK
  <2> QED BY <1>2, <1>4, <2>1 DEF AuthInv, AuthTypeOK, cycleVars
<1>6. FiledUnderNonce' /\ EventsConsume'
  BY <1>2, <1>3, <1>4 DEF AuthInv, HistoryInv, FiledUnderNonce, EventsConsume
<1>7. RequestUsedOnce'
  BY <1>3, <1>4 DEF AuthInv, HistoryInv, RequestUsedOnce
<1>8. record'.status = to
  BY <1>2 DEF AuthInv, AuthTypeOK
<1>9. ActivationOnRecord'
  BY <1>2, <1>8 DEF ActivationOnRecord
<1>10. EntryInv'
  BY <1>1, <1>2, HistoryGrows DEF AuthInv
<1> QED BY <1>5, <1>6, <1>7, <1>9, <1>10 DEF AuthInv, HistoryInv

\* Nothing else writes the history or the record.
LEMMA OthersKeep ==
  ASSUME AuthInv, AuthTypeOK', FiledUnderNonce', EntryInv', UNCHANGED <<record, events>>,
         \A n \in Nonces : nonces[n] = "consumed" => nonces'[n] = "consumed"
  PROVE  AuthInv'
<1>1. \A i \in DOMAIN events : events[i].nonce \in Nonces \union {None}
  <2>1. \A i \in DOMAIN events : events[i] \in Event
    BY DEF AuthInv, AuthTypeOK
  <2> QED BY <2>1 DEF Event
<1>2. EventsConsume'
  BY <1>1 DEF AuthInv, HistoryInv, EventsConsume
<1>3. RequestUsedOnce' /\ ActivationOnRecord'
  BY DEF AuthInv, HistoryInv, RequestUsedOnce, ActivationOnRecord
<1> QED BY <1>2, <1>3 DEF AuthInv, HistoryInv

\* What the operator does without recording a transition leaves the cycle alone.
LEMMA CycleKept ==
  ASSUME EntryInv, UNCHANGED <<events, cycleVars>>
  PROVE  EntryInv'
BY DEF EntryInv, VerifiedMatches, InTurn, SubmittedUnderActivation, ActivatedBy, cycleVars

\* What a gate lets through the newest event covers.
LEMMA GateCovers ==
  ASSUME AuthInv, Gate
  PROVE  AuthTypeOK' /\ EntryInv'
<1> DEFINE c == [files |-> verified.files, account |-> account, gate |-> Len(events)]
<1>1. /\ cleared' = c /\ verified' = None
      /\ UNCHANGED <<operatorVars, cycle, entries>>
  BY DEF Gate
<1>2. /\ verified # None /\ verified \in [baseline : Versions, files : Versions]
      /\ verified.baseline = verified.files
      /\ record.status = "paper_active"
      /\ record.account \in {None, account}
      /\ record.baseline \in {None, verified.baseline}
  BY DEF Gate, PinsHold, StatusAtSubmission, AuthInv, AuthTypeOK, EntryInv, VerifiedMatches
<1>3. /\ events # << >> /\ events \in Seq(Event) /\ Len(events) \in 0 .. MaxEvents
      /\ Last(events).to = "paper_active"
      /\ Last(events).baseline = verified.files /\ Last(events).account = account
  BY <1>2 DEF AuthInv, AuthTypeOK, HistoryInv, ActivationOnRecord, Activated
<1>4. c \in Clearance
  BY <1>2, <1>3 DEF Clearance, AuthInv, AuthTypeOK
<1>5. c.gate = Len(events) /\ c.files = verified.files /\ c.account = account
  OBVIOUS
<1> HIDE DEF c
<1>6. AuthTypeOK'
  BY <1>1, <1>4 DEF AuthInv, AuthTypeOK, operatorVars
<1>7. ActivatedBy(c)
  BY <1>3, <1>5 DEF ActivatedBy, Last
<1>8. InTurn'
  <2>1. UNCHANGED <<events, entries>> /\ cleared' = c
    BY <1>1 DEF operatorVars
  <2> QED BY <1>3, <1>5, <2>1 DEF AuthInv, EntryInv, InTurn
<1>9. (VerifiedMatches /\ SubmittedUnderActivation /\ (cleared # None => ActivatedBy(cleared)))'
  BY <1>1, <1>7 DEF AuthInv, EntryInv, VerifiedMatches, SubmittedUnderActivation, ActivatedBy,
     operatorVars
<1> QED BY <1>6, <1>8, <1>9 DEF EntryInv

\* An entry takes its clearance with it.
LEMMA SubmitTurns ==
  ASSUME AuthInv, Submit
  PROVE  AuthTypeOK' /\ EntryInv'
<1> DEFINE x == [files |-> cleared.files, account |-> cleared.account,
                 gate |-> cleared.gate, sent |-> Len(events)]
<1>1. /\ cleared # None /\ Len(entries) < MaxEntries
      /\ entries' = Append(entries, x) /\ cleared' = None
      /\ UNCHANGED <<operatorVars, cycle, verified>>
  BY DEF Submit, NextClearance
<1>2. cleared \in Clearance /\ entries \in Seq(Entry) /\ Len(events) \in 0 .. MaxEvents
  BY <1>1 DEF AuthInv, AuthTypeOK
<1>3. x \in Entry
  BY <1>2 DEF Entry, Clearance
<1>4. /\ x.gate = cleared.gate /\ x.sent = Len(events)
      /\ x.files = cleared.files /\ x.account = cleared.account
  OBVIOUS
<1> HIDE DEF x
<1>5. /\ entries' \in Seq(Entry) /\ Len(entries') = Len(entries) + 1
      /\ DOMAIN entries' = DOMAIN entries \union {Len(entries) + 1}
      /\ \A i \in DOMAIN entries : i < Len(entries) + 1 /\ entries'[i] = entries[i]
      /\ entries'[Len(entries) + 1] = x
  BY <1>1, <1>2, <1>3
<1>6. AuthTypeOK'
  BY <1>1, <1>2, <1>5 DEF AuthInv, AuthTypeOK, operatorVars
<1>7. events' = events
  BY <1>1 DEF operatorVars
<1>8. /\ cleared.gate <= Len(events)
      /\ \A i \in DOMAIN entries : entries[i].sent <= cleared.gate
      /\ \A i \in DOMAIN entries : entries[i].gate <= entries[i].sent /\ entries[i].sent <= Len(events)
      /\ \A i, j \in DOMAIN entries : i < j => entries[i].sent <= entries[j].gate
      /\ ActivatedBy(cleared) /\ SubmittedUnderActivation
  BY <1>1 DEF AuthInv, EntryInv, InTurn
<1>9. InTurn'
  <2>1. \A i \in DOMAIN entries' :
          entries'[i].gate <= entries'[i].sent /\ entries'[i].sent <= Len(events)
    BY <1>2, <1>4, <1>5, <1>8
  <2>2. ASSUME NEW i \in DOMAIN entries', NEW j \in DOMAIN entries', i < j
        PROVE  entries'[i].sent <= entries'[j].gate
    <3>1. i \in DOMAIN entries
      BY <1>2, <1>5, <2>2
    <3>2. CASE j \in DOMAIN entries
      BY <1>5, <1>8, <2>2, <3>1, <3>2
    <3>3. CASE j = Len(entries) + 1
      BY <1>4, <1>5, <1>8, <3>1, <3>3
    <3> QED BY <1>5, <3>2, <3>3
  <2> QED BY <1>1, <1>7, <2>1, <2>2 DEF InTurn
<1>10. SubmittedUnderActivation'
  BY <1>4, <1>5, <1>7, <1>8 DEF SubmittedUnderActivation, ActivatedBy
<1>11. VerifiedMatches'
  BY <1>1 DEF AuthInv, EntryInv, VerifiedMatches
<1> QED BY <1>1, <1>6, <1>9, <1>10, <1>11 DEF EntryInv

\* The other steps of a cycle read, or forget.
LEMMA CycleSteps ==
  ASSUME AuthInv, Verify \/ StartCycle \/ EndCycle
  PROVE  AuthTypeOK' /\ EntryInv'
<1>1. UNCHANGED <<operatorVars, entries>> /\ cleared' \in {None, cleared}
  BY DEF Verify, StartCycle, EndCycle
<1>2. /\ cycle' \in Statuses \union {None}
      /\ verified' \in [baseline : Versions, files : Versions] \union {None}
      /\ VerifiedMatches'
  <2>1. CASE Verify
    BY <2>1 DEF Verify, Operational, AuthInv, AuthTypeOK, VerifiedMatches
  <2>2. CASE StartCycle \/ EndCycle
    BY <2>2 DEF StartCycle, EndCycle, AuthInv, AuthTypeOK, VerifiedMatches
  <2> QED BY <2>1, <2>2
<1>3. AuthTypeOK'
  BY <1>1, <1>2 DEF AuthInv, AuthTypeOK, operatorVars
<1>4. InTurn' /\ SubmittedUnderActivation' /\ (cleared # None => ActivatedBy(cleared))'
  BY <1>1 DEF AuthInv, EntryInv, InTurn, SubmittedUnderActivation, ActivatedBy, operatorVars
<1> QED BY <1>2, <1>3, <1>4 DEF EntryInv

\* Nothing is filed, recorded or under way at first.
LEMMA InitAuthInv ==
  ASSUME AuthInit
  PROVE  AuthInv
<1>1. AuthTypeOK
  BY DEF AuthInit, AuthTypeOK, Statuses
<1>2. HistoryInv
  BY DEF AuthInit, HistoryInv, FiledUnderNonce, EventsConsume, RequestUsedOnce,
     ActivationOnRecord, Activated
<1>3. EntryInv
  BY DEF AuthInit, EntryInv, VerifiedMatches, InTurn, SubmittedUnderActivation
<1> QED BY <1>1, <1>2, <1>3 DEF AuthInv

\* Every step keeps the invariant.
LEMMA NextAuthInv ==
  ASSUME AuthInv, [AuthNext]_authVars
  PROVE  AuthInv'
<1>1. ASSUME NEW v \in Versions, CheckOut(v)  PROVE AuthInv'
  <2>1. AuthTypeOK' /\ FiledUnderNonce'
    BY <1>1 DEF CheckOut, AuthInv, AuthTypeOK, HistoryInv, FiledUnderNonce, cycleVars
  <2> QED BY <1>1, <2>1, OthersKeep, CycleKept DEF CheckOut, AuthInv
<1>2. ASSUME NEW a \in Accounts, NEW x \in Accounts, Configure(a, x)  PROVE AuthInv'
  <2>1. AuthTypeOK' /\ FiledUnderNonce'
    BY <1>2 DEF Configure, AuthInv, AuthTypeOK, HistoryInv, FiledUnderNonce, cycleVars
  <2> QED BY <1>2, <2>1, OthersKeep, CycleKept DEF Configure, AuthInv
<1>3. ASSUME NEW n \in Nonces, IssueNonce(n) \/ Expire(n)  PROVE AuthInv'
  <2>1. /\ UNCHANGED <<files, account, expected, record, events, requests, cycleVars>>
        /\ nonces[n] \in {"unissued", "fresh"}
        /\ \E s \in {"fresh", "expired"} : nonces' = [nonces EXCEPT ![n] = s]
    BY <1>3 DEF IssueNonce, Expire
  <2>2. AuthTypeOK' /\ FiledUnderNonce'
    BY <2>1 DEF AuthInv, AuthTypeOK, HistoryInv, FiledUnderNonce, cycleVars
  <2>3. \A m \in Nonces : nonces[m] = "consumed" => nonces'[m] = "consumed"
    BY <2>1 DEF AuthInv, AuthTypeOK
  <2> QED BY <2>1, <2>2, <2>3, OthersKeep, CycleKept DEF AuthInv
<1>4. ASSUME NEW n \in Nonces, NEW to \in Targets, NEW b \in Versions, NEW k \in Keys,
             Sign(n, to, b, k)
      PROVE  AuthInv'
  <2> DEFINE r == [from |-> record.status, to |-> to, baseline |-> b, commit |-> files,
                   account |-> account, nonce |-> n, key |-> k]
  <2>1. r \in Request /\ r.nonce = n
    <3>1. to \in Statuses /\ record.status \in Statuses /\ files \in Versions /\ account \in Accounts
      BY DEF AuthInv, AuthTypeOK, Statuses, Activated
    <3> QED BY <3>1 DEF Request
  <2>2. /\ requests' = [requests EXCEPT ![n] = r]
        /\ UNCHANGED <<files, account, expected, record, events, nonces, cycleVars>>
    BY <1>4 DEF Sign
  <2> HIDE DEF r
  <2>3. AuthTypeOK' /\ FiledUnderNonce'
    BY <2>1, <2>2 DEF AuthInv, AuthTypeOK, HistoryInv, FiledUnderNonce, cycleVars
  <2> QED BY <2>2, <2>3, OthersKeep, CycleKept DEF AuthInv
<1>5. ASSUME NEW n \in Nonces, requests[n] # None, Transition(requests[n])  PROVE AuthInv'
  BY <1>5, TransitionKeeps
<1>6. ASSUME NEW to \in Targets, UnsignedTransition(to)  PROVE AuthInv'
  BY <1>6, UnsignedKeeps
<1>7. CASE Verify \/ StartCycle \/ Gate \/ Submit \/ EndCycle
  <2>1. UNCHANGED operatorVars
    BY <1>7 DEF Verify, StartCycle, Gate, Submit, EndCycle
  <2>2. AuthTypeOK' /\ EntryInv'
    BY <1>7, GateCovers, SubmitTurns, CycleSteps
  <2>3. FiledUnderNonce'
    BY <2>1 DEF operatorVars, AuthInv, HistoryInv, FiledUnderNonce
  <2> QED BY <2>1, <2>2, <2>3, OthersKeep DEF operatorVars
<1>8. CASE UNCHANGED authVars
  <2>1. UNCHANGED <<operatorVars, cycleVars>>
    BY <1>8 DEF authVars
  <2>2. AuthTypeOK' /\ FiledUnderNonce'
    BY <2>1 DEF operatorVars, cycleVars, AuthInv, AuthTypeOK, HistoryInv, FiledUnderNonce
  <2> QED BY <2>1, <2>2, OthersKeep, CycleKept DEF operatorVars, AuthInv
<1> QED BY <1>1, <1>2, <1>3, <1>4, <1>5, <1>6, <1>7, <1>8 DEF AuthNext

(***************************************************************************)
(* The theorems.                                                            *)
(***************************************************************************)
\* The inductive invariant holds in every reachable state.
THEOREM AuthInvariant == AuthSpec => []AuthInv
<1>1. AuthInit => AuthInv
  BY InitAuthInv
<1>2. AuthInv /\ [AuthNext]_authVars => AuthInv'
  BY NextAuthInv
<1> QED BY <1>1, <1>2, PTL DEF AuthSpec

\* Every record, event, nonce and payload is what the tables hold.
THEOREM AuthTypes == AuthSpec => []AuthTypeOK
<1>1. AuthInv => AuthTypeOK
  BY DEF AuthInv
<1> QED BY <1>1, AuthInvariant, PTL

\* No signed request moves the status twice, whatever the operator signs, keeps
\* and records late.
THEOREM RequestsUsedOnce == AuthSpec => []RequestUsedOnce
<1>1. AuthInv => RequestUsedOnce
  BY DEF AuthInv, HistoryInv
<1> QED BY <1>1, AuthInvariant, PTL

\* Every entry is covered by the activation its gate read, with the files and the
\* account that activation pinned.
THEOREM SubmissionsCovered == AuthSpec => []SubmittedUnderActivation
<1>1. AuthInv => SubmittedUnderActivation
  BY DEF AuthInv, EntryInv
<1> QED BY <1>1, AuthInvariant, PTL

\* A transition recorded while an entry is on its way is overtaken by that entry
\* alone.
THEOREM TransitionsOvertakenOnce == AuthSpec => []OvertakenOnce
<1>1. ASSUME AuthInv  PROVE OvertakenOnce
  <2>1. SUFFICES ASSUME NEW m \in DOMAIN events,
                        NEW i \in DOMAIN entries, NEW j \in DOMAIN entries,
                        Overtakes(i, m), Overtakes(j, m), i < j
                 PROVE  FALSE
    <3>1. \A i, j \in DOMAIN entries : i \in Nat /\ j \in Nat
      BY <1>1 DEF AuthInv, AuthTypeOK
    <3> QED BY <3>1 DEF OvertakenOnce
  <2>2. /\ m \in Nat /\ entries[i] \in Entry /\ entries[j] \in Entry
        /\ entries[i].sent <= entries[j].gate
    BY <1>1, <2>1 DEF AuthInv, AuthTypeOK, EntryInv, InTurn
  <2>3. m <= entries[i].sent /\ entries[j].gate < m
    BY <2>1 DEF Overtakes
  <2>4. entries[i].sent \in Nat /\ entries[j].gate \in Nat
    BY <2>2 DEF Entry
  <2> QED BY <2>2, <2>3, <2>4
<1>2. AuthInv => OvertakenOnce
  BY <1>1
<1> QED BY <1>2, AuthInvariant, PTL
=============================================================================
