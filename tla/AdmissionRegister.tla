------------------------- MODULE AdmissionRegister -------------------------
(***************************************************************************)
(* What a ledger promises to those who contribute to it.  A proposal is    *)
(* made on a record of some length and admitted on that record or never;   *)
(* admissions are recorded one after the other, a key names one of them.   *)
(* An answer tells of an admission that is on record and where it stands,  *)
(* or refuses one for good: its key names another, or the record has       *)
(* passed its proposal.  A call that is put off is told nothing that binds *)
(* (the caller expected another record, a reference is not found yet), and *)
(* a proposal that was only put off may be admitted under the same key.    *)
(***************************************************************************)
EXTENDS Naturals, Sequences

CONSTANTS Proposal, AdmissionKey, None

VARIABLES
    base,    \* how long the record was that each proposal was made on
    record,  \* the admissions
    answer   \* what this step tells a caller

registerVars == <<base, record, answer>>

RegisterInit ==
    /\ base = [n \in Proposal |-> None]
    /\ record = <<>>
    /\ answer = None

OnRecord(n, k) == \E i \in 1..Len(record) : record[i] = [proposal |-> n, key |-> k]

NamesAnother(n, k) == \E i \in 1..Len(record) : record[i].key = k /\ record[i].proposal # n

Overtaken(n) == base[n] # None /\ base[n] < Len(record)

Hopeless(n, k) == ~OnRecord(n, k) /\ (NamesAnother(n, k) \/ Overtaken(n))

Propose(n) ==
    /\ base[n] = None
    /\ \E b \in 0..Len(record) : base' = [base EXCEPT ![n] = b]
    /\ answer' = None
    /\ UNCHANGED record

Enter(n, k) ==
    /\ base[n] = Len(record)
    /\ \A i \in 1..Len(record) : record[i].key # k
    /\ record' = Append(record, [proposal |-> n, key |-> k])
    /\ answer' = None
    /\ UNCHANGED base

Confirm(i) ==
    /\ answer' = [verdict |-> "admitted", proposal |-> record[i].proposal, key |-> record[i].key, at |-> i]
    /\ UNCHANGED <<base, record>>

Refuse(n, k) ==
    /\ Hopeless(n, k)
    /\ answer' = [verdict |-> "refused", proposal |-> n, key |-> k, at |-> 0]
    /\ UNCHANGED <<base, record>>

PutOff == answer' = None /\ UNCHANGED <<base, record>>

RegisterNext ==
    \/ PutOff
    \/ \E n \in Proposal : Propose(n) \/ \E k \in AdmissionKey : Enter(n, k) \/ Refuse(n, k)
    \/ \E i \in 1..Len(record) : Confirm(i)

Register == RegisterInit /\ [][RegisterNext]_registerVars

\* A refusal stands: what is hopeless is not admitted, and stays hopeless.
RefusalsStand ==
    [][\A n \in Proposal, k \in AdmissionKey : Hopeless(n, k) => Hopeless(n, k)']_registerVars

=============================================================================
