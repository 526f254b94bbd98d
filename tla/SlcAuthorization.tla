-------------------------- MODULE SlcAuthorization --------------------------
(***************************************************************************)
(* Who may trade: the deployment status and its signed history              *)
(* (authorization.py), the baseline the last verifiable event pins and the  *)
(* gates of a cycle and of an entry built on it (guardrails.py).            *)
(*                                                                          *)
(* A version stands for everything a checkout puts on disk: the guarded     *)
(* files, whose hashes a baseline of that version lists, the file of        *)
(* allowed signers and the commit at HEAD.  The operator works beside the   *)
(* running cycle, outside the process lock: checks out versions, changes    *)
(* the configured account, signs requests, and records them, possibly late  *)
(* or after something else has changed.  The cycle's gate reads the         *)
(* baseline and the files first and the status record after them, and the   *)
(* entry is sent after both: three steps, with the operator in between.  A  *)
(* call the code refuses changes nothing and is no step.                    *)
(***************************************************************************)
EXTENDS Naturals, Sequences, SequencesExt, FiniteSetsExt

CONSTANTS
  Versions,     \* versions of the repository an operator may check out
  Keys,         \* signers
  Accounts,     \* broker accounts the settings may name
  Nonces,       \* one-time tokens the server may issue (bound)
  Signers,      \* [Versions -> SUBSET Keys] allowed_signers of each version
  None,
  Targets,      \* statuses the operator asks for (bound)
  MaxEvents,    \* transitions recorded (bound)
  MaxEntries    \* entries submitted (bound)

ASSUME AuthorizationAssumption ==
  /\ Signers \in [Versions -> SUBSET Keys]
  /\ None \notin Versions \union Accounts \union Nonces \union Keys
  /\ MaxEvents \in Nat /\ MaxEntries \in Nat
  /\ Targets \subseteq {"not_authorized", "dry_run", "suspended", "paper_active", "live"}

Activated == {"paper_active", "live"}
Statuses == {"not_authorized", "dry_run", "suspended"} \union Activated

VARIABLES
  files,     \* the version on disk
  account,   \* the account behind the configured credentials
  expected,  \* SLC_EXPECTED_ACCOUNT_ID
  record,    \* SlcDeploymentStatus: status, pinned baseline and account
  events,    \* SlcActivationEvent rows, in the order of occurred_at
  nonces,    \* [Nonces -> "unissued", "fresh", "expired" or "consumed"]
  requests,  \* [Nonces -> the payload signed for the nonce, or None]
  cycle,     \* the status the running cycle read at its start, or None
  verified,  \* what its gate has read of baseline and files so far, or None
  cleared,   \* what the gate let through that is not sent yet, or None
  entries    \* the entries sent, with what their gate saw (history)

operatorVars == <<files, account, expected, record, events, nonces, requests>>
cycleVars == <<cycle, verified, cleared, entries>>
authVars == <<operatorVars, cycleVars>>

Request == [from : Statuses, to : Statuses, baseline : Versions, commit : Versions,
            account : Accounts, nonce : Nonces, key : Keys]
Event == [to : Statuses, baseline : Versions \union {None},
          account : Accounts \union {None},
          nonce : Nonces \union {None}, key : Keys \union {None}]
\* A gate that has passed: the files it hashed, the account it observed, and how
\* many events there were when it read the status.
Clearance == [files : Versions, account : Accounts, gate : 0 .. MaxEvents]
\* An entry, with how many events there were when it was sent.
Entry == [files : Versions, account : Accounts, gate : 0 .. MaxEvents, sent : 0 .. MaxEvents]

AuthTypeOK ==
  /\ files \in Versions
  /\ account \in Accounts /\ expected \in Accounts
  /\ record \in [status : Statuses, baseline : Versions \union {None},
                 account : Accounts \union {None}]
  /\ events \in Seq(Event) /\ Len(events) <= MaxEvents
  /\ nonces \in [Nonces -> {"unissued", "fresh", "expired", "consumed"}]
  /\ requests \in [Nonces -> Request \union {None}]
  /\ cycle \in Statuses \union {None}
  /\ verified \in [baseline : Versions, files : Versions] \union {None}
  /\ cleared \in Clearance \union {None}
  /\ entries \in Seq(Entry) /\ Len(entries) <= MaxEntries

AuthInit ==
  /\ files \in Versions
  /\ account \in Accounts /\ expected = account
  /\ record = [status |-> "not_authorized", baseline |-> None, account |-> None]
  /\ events = << >>
  /\ nonces = [n \in Nonces |-> "unissued"]
  /\ requests = [n \in Nonces |-> None]
  /\ cycle = None /\ verified = None /\ cleared = None
  /\ entries = << >>

(***************************************************************************)
(* The operator.                                                            *)
(***************************************************************************)
CheckOut(v) ==
  /\ v # files
  /\ files' = v
  /\ UNCHANGED <<account, expected, record, events, nonces, requests, cycleVars>>

\* The settings are read once by a process: they change between cycles.
Configure(a, x) ==
  /\ cycle = None /\ verified = None
  /\ account' = a /\ expected' = x
  /\ UNCHANGED <<files, record, events, nonces, requests, cycleVars>>

IssueNonce(n) ==
  /\ nonces[n] = "unissued"
  /\ nonces' = [nonces EXCEPT ![n] = "fresh"]
  /\ UNCHANGED <<files, account, expected, record, events, requests, cycleVars>>

\* A day passes over a nonce.
Expire(n) ==
  /\ nonces[n] = "fresh"
  /\ nonces' = [nonces EXCEPT ![n] = "expired"]
  /\ UNCHANGED <<files, account, expected, record, events, requests, cycleVars>>

\* The payload names the status it starts from and the commit at HEAD; the
\* baseline file it pins need not be the one of that commit.
Sign(n, to, b, k) ==
  /\ nonces[n] = "fresh" /\ requests[n] = None
  /\ requests' = [requests EXCEPT ![n] =
       [from |-> record.status, to |-> to, baseline |-> b, commit |-> files,
        account |-> account, nonce |-> n, key |-> k]]
  /\ UNCHANGED <<files, account, expected, record, events, nonces, cycleVars>>

(***************************************************************************)
(* record_transition.  The status, the event and the consumption of the     *)
(* nonce are one transaction.                                               *)
(***************************************************************************)
\* _verify_reauth_signature, for arguments that repeat the payload's fields.
NonceUsable(n) == nonces[n] = "fresh"
Verified(r) ==
  /\ NonceUsable(r.nonce)
  /\ r.commit = files
  /\ r.key \in Signers[files]

Consumed_Kept(n) == nonces
Consumed(n) == [nonces EXCEPT ![n] = "consumed"]

Transition(r) ==
  /\ Len(events) < MaxEvents
  /\ record.status = r.from
  /\ Verified(r)
  /\ nonces' = Consumed(r.nonce)
  /\ record' = [status |-> r.to, baseline |-> r.baseline, account |-> r.account]
  /\ events' = Append(events, [to |-> r.to, baseline |-> r.baseline, account |-> r.account,
                               nonce |-> r.nonce, key |-> r.key])
  /\ UNCHANGED <<files, account, expected, requests, cycleVars>>

\* No signature is asked for: no baseline is pinned and nothing is activated.
UnsignedTransition(to) ==
  /\ Len(events) < MaxEvents
  /\ to \notin Activated
  /\ record' = [record EXCEPT !.status = to]
  /\ events' = Append(events, [to |-> to, baseline |-> None, account |-> None,
                               nonce |-> None, key |-> None])
  /\ UNCHANGED <<files, account, expected, nonces, requests, cycleVars>>

(***************************************************************************)
(* The gates.                                                               *)
(***************************************************************************)
\* resolve_active_baseline: newest first, and a signature is verified again
\* each time, against the signers on disk now.
Resolvable == {i \in DOMAIN events : events[i].key \in Signers[files]}
ActiveBaseline == IF Resolvable = {} THEN None ELSE events[Max(Resolvable)].baseline

\* assert_operational_preconditions, up to the reading of the status record.
Operational == ActiveBaseline = files /\ account = expected

PinsHold_NoBaseline(status, b) ==
  status = "paper_active" /\ record.account \in {None, account}

\* What assert_submission_preconditions asks of the status record it is given,
\* when the baseline verified before is b.
PinsHold(status, b) ==
  /\ status = "paper_active"
  /\ record.account \in {None, account}
  /\ record.baseline \in {None, b}

(***************************************************************************)
(* The cycle.                                                               *)
(***************************************************************************)
\* The gate resolves the baseline and compares the files with it.
Verify ==
  /\ cycle \in {None, "paper_active"}
  /\ verified = None /\ cleared = None
  /\ Operational
  /\ verified' = [baseline |-> ActiveBaseline, files |-> files]
  /\ UNCHANGED <<operatorVars, cycle, cleared, entries>>

\* At the start of a cycle any status will do.
StartCycle ==
  /\ cycle = None /\ verified # None
  /\ cycle' = record.status
  /\ verified' = None
  /\ UNCHANGED <<operatorVars, cleared, entries>>

\* Next to the submission the status is read again.  The other refusals (the
\* switches, the daily loss, the packages, the proposal document) are left out:
\* with them the code submits less often.
StatusAtSubmission == record.status

Gate ==
  /\ cycle = "paper_active" /\ verified # None
  /\ PinsHold(StatusAtSubmission, verified.baseline)
  /\ cleared' = [files |-> verified.files, account |-> account, gate |-> Len(events)]
  /\ verified' = None
  /\ UNCHANGED <<operatorVars, cycle, entries>>

\* The intent and the signal are committed, and the order is sent.
NextClearance_Kept == cleared
NextClearance == None

Submit ==
  /\ cleared # None
  /\ Len(entries) < MaxEntries
  /\ entries' = Append(entries, [files |-> cleared.files, account |-> cleared.account,
                                 gate |-> cleared.gate, sent |-> Len(events)])
  /\ cleared' = NextClearance
  /\ UNCHANGED <<operatorVars, cycle, verified>>

\* Done, dead, or stopped by a gate.
EndCycle ==
  /\ cycle # None \/ verified # None
  /\ cycle' = None /\ verified' = None /\ cleared' = None
  /\ UNCHANGED <<operatorVars, entries>>

AuthNext ==
  \/ \E v \in Versions : CheckOut(v)
  \/ \E a, x \in Accounts : Configure(a, x)
  \/ \E n \in Nonces : IssueNonce(n) \/ Expire(n)
  \/ \E n \in Nonces, to \in Targets, b \in Versions, k \in Keys :
        Sign(n, to, b, k)
  \/ \E n \in Nonces : requests[n] # None /\ Transition(requests[n])
  \/ \E to \in Targets : UnsignedTransition(to)
  \/ Verify \/ StartCycle \/ Gate \/ Submit \/ EndCycle

AuthSpec == AuthInit /\ [][AuthNext]_authVars

-----------------------------------------------------------------------------
\* The newest transition a gate read activated trading, with the files it hashed
\* and the account it observed.
ActivatedBy(e) ==
  /\ e.gate # 0
  /\ events[e.gate].to = "paper_active"
  /\ events[e.gate].baseline = e.files
  /\ events[e.gate].account = e.account

\* Every entry went through a gate that read, as the newest transition on record,
\* an activation that pinned the very files the gate had hashed and the account it
\* observed, whatever was checked out, suspended, signed again or reconfigured
\* before, between the two readings of the gate and after them (guardrails.py,
\* assert_submission_preconditions, called at run_slc_live.py:1775).  It speaks of
\* what the gate read, not of the moment the order goes out.
SubmittedUnderActivation == \A i \in DOMAIN entries : ActivatedBy(entries[i])

\* Entry i goes out although transition m was recorded after its gate had passed.
Overtakes(i, m) == entries[i].gate < m /\ m <= entries[i].sent

\* Between the gate and the order lie two commits and a broker call
\* (run_slc_live.py 1775-1785), in which the operator may suspend or re-authorize:
\* an order goes out all the same.  One and no more: every entry asks the gate
\* again, so no transition is overtaken twice.
OvertakenOnce ==
  \A m \in DOMAIN events : \A i, j \in DOMAIN entries :
    Overtakes(i, m) /\ Overtakes(j, m) => i = j

\* A signed request moves the status once: it is never recorded again when the
\* status has come back to where it started from (authorization.py:184).
RequestUsedOnce ==
  \A i, j \in DOMAIN events :
    i # j /\ events[i].nonce # None => events[i].nonce # events[j].nonce
=============================================================================
