-------------------------------- MODULE Ledger --------------------------------
(***************************************************************************)
(* The reservation ledger of the terminal gateway: classes Ledger,         *)
(* SessionAccount and Lease of src/runtime/hermit/ram/ledger.js.           *)
(*                                                                         *)
(* An account is admitted with a reservation that its tenant and the whole *)
(* service are charged for at once; leases are then taken inside that      *)
(* reservation.  A lease counts its local consumers and gives its capacity *)
(* back when the last one completes; a closed account gives back its       *)
(* reservation when its last lease does.  Every call is synchronous, so    *)
(* every action is one call.  A refused call, a stale handle and a release *)
(* too many change nothing but statistics, which are left out, as are the  *)
(* bytes used of a lease.                                                  *)
(***************************************************************************)
EXTENDS Integers, FiniteSetsExt

CONSTANTS
  Key,             \* session keys
  Tenant,
  Bucket,          \* the buckets of an account
  LeaseId,         \* allocation ids, each used once
  Size,            \* capacities and reservations asked for
  TenantLimit,
  GlobalLimit,
  Cap,             \* the caps of the buckets, in an account that has caps
  MaxRefs          \* bound: consumers of a lease

ASSUME SizeAssumption == Size \subseteq Nat
ASSUME LimitAssumption == TenantLimit \in Nat /\ GlobalLimit \in Nat
ASSUME CapAssumption == Cap \in [Bucket -> Nat]
ASSUME MaxRefsAssumption == MaxRefs \in Nat

VARIABLES
  sessions,        \* keys of the accounts the ledger holds
  account,         \* the account last admitted under each key
  lease,           \* the leases taken so far
  tenants,         \* bytes reserved for each tenant
  globalReserved,  \* bytes reserved for all accounts
  physicalBytes    \* bytes of the distinct storage leased out

ledgerVars == <<sessions, account, lease, tenants, globalReserved, physicalBytes>>

Account == [tenant : Tenant, limit : Nat, capped : BOOLEAN, reserved : Int,
            byBucket : [Bucket -> Int], closed : BOOLEAN]

Lease == [state : {"ACTIVE", "DRAINING", "RELEASED"}, key : Key, bucket : Bucket,
          capacity : Nat, physical : BOOLEAN, refs : Nat]

LedgerTypeOK ==
  /\ DOMAIN account \subseteq Key /\ account \in [DOMAIN account -> Account]
  /\ sessions \subseteq DOMAIN account
  /\ DOMAIN lease \subseteq LeaseId /\ lease \in [DOMAIN lease -> Lease]
  /\ \A l \in DOMAIN lease : lease[l].key \in DOMAIN account
  /\ tenants \in [Tenant -> Int]
  /\ globalReserved \in Int
  /\ physicalBytes \in Int

LedgerInit ==
  /\ sessions = {}
  /\ account = [k \in {} |-> 0]
  /\ lease = [l \in {} |-> 0]
  /\ tenants = [t \in Tenant |-> 0]
  /\ globalReserved = 0
  /\ physicalBytes = 0

-----------------------------------------------------------------------------
(* Accounts and leases *)

With(f, x, v) == [y \in DOMAIN f \cup {x} |-> IF y = x THEN v ELSE f[y]]

LiveIn(leases) == {l \in DOMAIN leases : leases[l].state # "RELEASED"}

(* The leases of account k, as far as they are not released. *)
LeasesOf(k) == {l \in LiveIn(lease) : lease[l].key = k}

(* Mutant: only the total is kept. *)
ChargedInTotal(a, b, n) == [a EXCEPT !.reserved = a.reserved + n]

(* The account a charged n bytes more in bucket b. *)
Charged(a, b, n) ==
  [a EXCEPT !.reserved = a.reserved + n,
            !.byBucket = [c \in Bucket |-> a.byBucket[c] + (IF c = b THEN n ELSE 0)]]

(* _finishClose: the reservation of k goes back to tenant and service; an  *)
(* account that is not held any more has given it back before.             *)
FinishClose(k) ==
  IF k \in sessions
  THEN /\ sessions' = sessions \ {k}
       /\ tenants' = [tenants EXCEPT ![account[k].tenant] =
                        IF @ > account[k].limit THEN @ - account[k].limit ELSE 0]
       /\ globalReserved' = globalReserved - account[k].limit
  ELSE UNCHANGED <<sessions, tenants, globalReserved>>

(* The account k may take n bytes more in bucket b. *)
Fits(k, b, n) ==
  /\ ~ account[k].closed
  /\ account[k].capped => account[k].byBucket[b] + n <= Cap[b]
  /\ account[k].reserved + n <= account[k].limit

(* Tenant t and the service may be charged n bytes more. *)
Admissible(t, n) ==
  /\ tenants[t] + n <= TenantLimit
  /\ globalReserved + n <= GlobalLimit

Releasable(l) == lease[l].state # "RELEASED"

(* The account k, closed, has no lease but the one that is going. *)
LastOf(k, gone) == account[k].closed /\ LeasesOf(k) \subseteq {gone}

EmptyAtClose(k) == LeasesOf(k) = {}

-----------------------------------------------------------------------------
(* The calls *)

Admit(k, t, n, capped) ==
  /\ k \notin sessions
  /\ n > 0
  /\ Admissible(t, n)
  /\ tenants' = [tenants EXCEPT ![t] = @ + n]
  /\ globalReserved' = globalReserved + n
  /\ account' = With(account, k, [tenant |-> t, limit |-> n, capped |-> capped, reserved |-> 0,
                                  byBucket |-> [b \in Bucket |-> 0], closed |-> FALSE])
  /\ sessions' = sessions \cup {k}
  /\ UNCHANGED <<lease, physicalBytes>>

(* acquire, and the activate that every caller appends to it. *)
Acquire(k, l, b, n, physical) ==
  /\ k \in DOMAIN account
  /\ l \notin DOMAIN lease
  /\ Fits(k, b, n)
  /\ lease' = With(lease, l, [state |-> "ACTIVE", key |-> k, bucket |-> b, capacity |-> n,
                              physical |-> physical, refs |-> 1])
  /\ account' = [account EXCEPT ![k] = Charged(account[k], b, n)]
  /\ physicalBytes' = physicalBytes + (IF physical THEN n ELSE 0)
  /\ UNCHANGED <<sessions, tenants, globalReserved>>

Retain(l) ==
  /\ l \in LiveIn(lease)
  /\ lease[l].refs < MaxRefs
  /\ lease' = [lease EXCEPT ![l].refs = @ + 1]
  /\ UNCHANGED <<sessions, account, tenants, globalReserved, physicalBytes>>

(* release by one consumer of several. *)
ReleaseOne(l) ==
  /\ l \in DOMAIN lease
  /\ Releasable(l)
  /\ lease[l].refs > 1
  /\ lease' = [lease EXCEPT ![l].refs = @ - 1]
  /\ UNCHANGED <<sessions, account, tenants, globalReserved, physicalBytes>>

(* release by the last consumer, with _return. *)
ReleaseLast(l) ==
  LET k == lease[l].key IN
  /\ l \in DOMAIN lease
  /\ Releasable(l)
  /\ lease[l].refs <= 1
  /\ lease' = [lease EXCEPT ![l] = [lease[l] EXCEPT !.refs = lease[l].refs - 1,
                                                    !.state = "RELEASED"]]
  /\ account' = [account EXCEPT ![k] = Charged(account[k], lease[l].bucket, - lease[l].capacity)]
  /\ physicalBytes' = physicalBytes - (IF lease[l].physical THEN lease[l].capacity ELSE 0)
  /\ IF LastOf(k, l) THEN FinishClose(k) ELSE UNCHANGED <<sessions, tenants, globalReserved>>

Close(k) ==
  /\ k \in DOMAIN account
  /\ ~ account[k].closed
  /\ account' = [account EXCEPT ![k].closed = TRUE]
  /\ lease' = [l \in DOMAIN lease |-> IF l \in LeasesOf(k)
                                      THEN [lease[l] EXCEPT !.state = "DRAINING"] ELSE lease[l]]
  /\ IF EmptyAtClose(k) THEN FinishClose(k) ELSE UNCHANGED <<sessions, tenants, globalReserved>>
  /\ UNCHANGED physicalBytes

LedgerNext ==
  \/ \E k \in Key, t \in Tenant, n \in Size, capped \in BOOLEAN : Admit(k, t, n, capped)
  \/ \E k \in Key, l \in LeaseId, b \in Bucket, n \in Size, physical \in BOOLEAN :
       Acquire(k, l, b, n, physical)
  \/ \E l \in LeaseId : Retain(l) \/ ReleaseOne(l) \/ ReleaseLast(l)
  \/ \E k \in Key : Close(k)

LedgerSpec == LedgerInit /\ [][LedgerNext]_ledgerVars

-----------------------------------------------------------------------------
(* reconcile: every total is computed anew from the leases there are. *)

Bytes(leases) == MapThenSumSet(LAMBDA l : lease[l].capacity, leases)
Limits(of) == MapThenSumSet(LAMBDA k : account[k].limit, of)

Reconcile ==
  /\ \A k \in sessions :
       /\ Bytes(LeasesOf(k)) = account[k].reserved
       /\ \A b \in Bucket : Bytes({l \in LeasesOf(k) : lease[l].bucket = b}) = account[k].byBucket[b]
       /\ account[k].reserved <= account[k].limit
  /\ Limits(sessions) = globalReserved
  /\ \A t \in Tenant : Limits({k \in sessions : account[k].tenant = t}) = tenants[t]
  /\ globalReserved <= GlobalLimit

-----------------------------------------------------------------------------
(* Properties *)

(* Neither an account nor one of its capped buckets, nor a tenant, nor the *)
(* service is charged more than it may be (acquire, admit).                *)
WithinLimits ==
  /\ \A k \in DOMAIN account :
       /\ account[k].reserved <= account[k].limit
       /\ account[k].capped => \A b \in Bucket : account[k].byBucket[b] <= Cap[b]
  /\ \A t \in Tenant : tenants[t] <= TenantLimit
  /\ globalReserved <= GlobalLimit

(* An account that is closed and still charged for waits for a lease: no   *)
(* reservation is forgotten (close, _return, _finishClose).                *)
ClosedIsHeld == \A k \in sessions : account[k].closed => LeasesOf(k) # {}

(* What the ledger calls reconciled: every running total, as Charged and   *)
(* the actions have moved it, is the sum over the leases and accounts it   *)
(* stands for (reconcile); the bytes of distinct storage, which it only    *)
(* reports, are too; and no reservation is forgotten.                      *)
Reconciles ==
  /\ Reconcile
  /\ physicalBytes = Bytes({l \in LiveIn(lease) : lease[l].physical})
  /\ ClosedIsHeld

(* While memory of an account is in use, by I/O in flight for example, its *)
(* reservation stays charged, whenever it was closed (close, _return).     *)
HeldIsCharged == \A l \in LiveIn(lease) : lease[l].key \in sessions

(* A reservation is given back once, as a whole, and only when no memory   *)
(* of the account is in use any more (_finishClose).                       *)
RefundStep ==
  globalReserved' < globalReserved =>
    \E k \in sessions :
      /\ sessions' = sessions \ {k}
      /\ globalReserved' = globalReserved - account[k].limit
      /\ \A l \in LiveIn(lease') : lease'[l].key # k
RefundedOnce == [][RefundStep]_ledgerVars
=============================================================================
