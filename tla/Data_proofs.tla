----------------------------- MODULE Data_proofs ----------------------------
(***************************************************************************)
(* Theorems about the ledger, the credit protocol, the parser and screen   *)
(* of the terminal, the framings and the file system, which have no        *)
(* variable in common.                                                     *)
(*                                                                         *)
(* Ledger, for any accounts, leases, sizes and limits.  The order of the   *)
(* argument: a live lease has a consumer and a charged account, so a key   *)
(* can be admitted again only when nothing of its former account is in     *)
(* use; a closed account that is charged has a live lease, so the release  *)
(* that takes the last one finds the account still there.  Every total is  *)
(* the sum of what it stands for: a call adds a summand, takes one away or *)
(* changes none, and a tenant is charged no less than each of its accounts *)
(* reserves, so that nothing is cut off when a reservation goes back.      *)
(*                                                                         *)
(* Credit, for every window, chunk size and limit of CreditAssumption;     *)
(* that it does not stall, for those with which the client renews in time. *)
(* The invariant says of the grants on their way that they are ordered and *)
(* newer than what the server knows, of the client that it has renewed     *)
(* whenever that was due, and of its last grant that the server knows it,  *)
(* or will, or has refused to read it.                                     *)
(*                                                                         *)
(* VtParser, for any bytes.  ParserInv says in each state of the parser    *)
(* what the bytes since GROUND are: an ESC that has only begun, a control  *)
(* sequence with so many parameters, a title of which so much is kept.     *)
(*                                                                         *)
(* Vfs, for any names, sizes, quotas and snapshots.  Whatever is above a   *)
(* node is a directory of the tree, so a subtree that is cut or moved      *)
(* takes along just what is below its path, and every operation changes    *)
(* the total by what it charges.  Only a move over what holds the node     *)
(* does not, and the invariant ends there (HonestInv).                     *)
(*                                                                         *)
(* Screen, for any sizes and bounds.  The invariant says how wide a row    *)
(* may be after the window was made narrower, and where a cursor restored  *)
(* outside of the screen may be; what is kept of rows that scroll off is a *)
(* fold, of which each row keeps the bounds.                               *)
(*                                                                         *)
(* Frames, for any lengths and bounds.  Of a connection, FramesInv says    *)
(* what is held of the message the peer is sending, and that it is what    *)
(* the peer has told so far.  Of the bridge, Reached says where in the     *)
(* records a decoder is after so many bytes; a chunk is a fold of bytes,   *)
(* and each takes it one byte further.                                     *)
(***************************************************************************)
EXTENDS Ledger, Credit, VtParser, Vfs, Screen, Frames, SequenceTheorems, Sums

-----------------------------------------------------------------------------
(* Ledger: reservations.                                                   *)

(* A lease that is not released has a consumer. *)
LiveHasConsumer == \A l \in LiveIn(lease) : lease[l].refs > 0

(* An account that is open is held by the ledger (admit, _finishClose).    *)
OpenIsAdmitted == \A k \in DOMAIN account : ~ account[k].closed => k \in sessions

(* The capacities of leases, the limits of accounts. *)
Capacities(ls) == [l \in DOMAIN ls |-> ls[l].capacity]
Reservations(ac) == [k \in DOMAIN ac |-> ac[k].limit]

(* The leases charged to an account, and to one of its buckets; those with *)
(* storage of their own; the accounts charged to a tenant.                 *)
Of(ls, k) == {l \in LiveIn(ls) : ls[l].key = k}
In(ls, k, b) == {l \in Of(ls, k) : ls[l].bucket = b}
Distinct(ls) == {l \in LiveIn(ls) : ls[l].physical}
By(ss, ac, t) == {k \in ss : ac[k].tenant = t}

(* There are finitely many, of some size each. *)
Leases(ls) == IsFiniteSet(DOMAIN ls) /\ \A l \in DOMAIN ls : ls[l].capacity \in Nat
Accounts(ss, ac) == /\ IsFiniteSet(DOMAIN ac) /\ ss \subseteq DOMAIN ac
                    /\ \A k \in DOMAIN ac : ac[k].limit \in Nat /\ ac[k].tenant \in Tenant

(* Every total is the sum of what it stands for. *)
Books(ls, ac) ==
  \A k \in DOMAIN ac :
    /\ Total(Capacities(ls), Of(ls, k)) = ac[k].reserved
    /\ \A b \in Bucket : Total(Capacities(ls), In(ls, k, b)) = ac[k].byBucket[b]
Stores(ls, bytes) == Total(Capacities(ls), Distinct(ls)) = bytes
Funds(ss, ac, ts, g) ==
  /\ Total(Reservations(ac), ss) = g
  /\ \A t \in Tenant : Total(Reservations(ac), By(ss, ac, t)) = ts[t]

(* A call takes a lease l of n bytes for account k, in bucket b; releases  *)
(* it; leaves what is charged as it is.                                    *)
Taken(ls, ac, ms, bc, l, k, b, n) ==
  /\ l \notin DOMAIN ls /\ n \in Nat /\ k \in DOMAIN ac /\ b \in Bucket
  /\ DOMAIN ms = DOMAIN ls \cup {l} /\ \A m \in DOMAIN ls : ms[m] = ls[m]
  /\ ms[l].state # "RELEASED" /\ ms[l].key = k /\ ms[l].bucket = b /\ ms[l].capacity = n
  /\ DOMAIN bc = DOMAIN ac /\ \A j \in DOMAIN ac \ {k} : bc[j] = ac[j]
  /\ bc[k].reserved = ac[k].reserved + n
  /\ bc[k].byBucket[b] = ac[k].byBucket[b] + n
  /\ \A c \in Bucket \ {b} : bc[k].byBucket[c] = ac[k].byBucket[c]
Released(ls, ac, ms, bc, l, k, b, n) ==
  /\ l \in LiveIn(ls) /\ n \in Nat /\ k \in DOMAIN ac /\ b \in Bucket
  /\ ls[l].key = k /\ ls[l].bucket = b /\ ls[l].capacity = n
  /\ DOMAIN ms = DOMAIN ls /\ \A m \in DOMAIN ls \ {l} : ms[m] = ls[m]
  /\ ms[l].state = "RELEASED" /\ ms[l].capacity = n
  /\ DOMAIN bc = DOMAIN ac /\ \A j \in DOMAIN ac \ {k} : bc[j] = ac[j]
  /\ bc[k].reserved = ac[k].reserved - n
  /\ bc[k].byBucket[b] = ac[k].byBucket[b] - n
  /\ \A c \in Bucket \ {b} : bc[k].byBucket[c] = ac[k].byBucket[c]
SameLeases(ls, ms) ==
  /\ DOMAIN ms = DOMAIN ls
  /\ \A m \in DOMAIN ls : /\ ms[m].state = "RELEASED" <=> ls[m].state = "RELEASED"
                          /\ ms[m].key = ls[m].key /\ ms[m].bucket = ls[m].bucket
                          /\ ms[m].capacity = ls[m].capacity
                          /\ ms[m].physical = ls[m].physical
SameCharges(ac, bc) ==
  /\ DOMAIN bc = DOMAIN ac
  /\ \A j \in DOMAIN ac : bc[j].reserved = ac[j].reserved /\ bc[j].byBucket = ac[j].byBucket

(* A call admits account k of tenant t with n bytes; leaves what is        *)
(* reserved as it is.                                                      *)
Admitted(ac, bc, k, t, n) ==
  /\ DOMAIN bc = DOMAIN ac \cup {k} /\ \A j \in DOMAIN ac \ {k} : bc[j] = ac[j]
  /\ bc[k].tenant = t /\ bc[k].limit = n
  /\ bc[k].reserved = 0 /\ \A b \in Bucket : bc[k].byBucket[b] = 0
Granted(ts, us, t, n) == us = [ts EXCEPT ![t] = @ + n]
Returned(ts, g, us, h, ac, k) ==
  /\ us = [ts EXCEPT ![ac[k].tenant] = IF @ > ac[k].limit THEN @ - ac[k].limit ELSE 0]
  /\ h = g - ac[k].limit
SameReserved(ac, bc) ==
  /\ DOMAIN bc = DOMAIN ac
  /\ \A j \in DOMAIN ac : bc[j].tenant = ac[j].tenant /\ bc[j].limit = ac[j].limit
TotalsAgree ==
  /\ Leases(lease) /\ Books(lease, account) /\ Stores(lease, physicalBytes)
  /\ Accounts(sessions, account) /\ Funds(sessions, account, tenants, globalReserved)

(* The strengthening of the invariants that every call preserves. *)
LedgerInv ==
  /\ LedgerTypeOK
  /\ LiveHasConsumer
  /\ HeldIsCharged
  /\ ClosedIsHeld
  /\ OpenIsAdmitted
  /\ WithinLimits
  /\ TotalsAgree

-----------------------------------------------------------------------------
(* Totals *)

(* A total over a set that gains or loses an element, or does not. *)
LEMMA TotalChanges ==
  ASSUME NEW S, IsFiniteSet(S), NEW v, NEW w, \A x \in S : v[x] \in Int /\ w[x] = v[x], NEW T
  PROVE  /\ T = S => Total(w, T) = Total(v, S)
         /\ \A x : T = S \cup {x} /\ x \notin S /\ w[x] \in Int => Total(w, T) = Total(v, S) + w[x]
         /\ \A x \in S : T = S \ {x} => Total(w, T) = Total(v, S) - v[x]
<1>1. Total(w, S) = Total(v, S) /\ Total(v, S) \in Int /\ \A x \in S : w[x] \in Int
  BY TotalSame, TotalFacts
<1>2. ASSUME NEW x, T = S \cup {x}, x \notin S, w[x] \in Int PROVE Total(w, T) = Total(v, S) + w[x]
  <2>1. Total(w, S \cup {x}) = Total(w, S) + w[x]
    BY <1>1, <1>2, TotalAdd
  <2> QED BY <1>1, <1>2, <2>1
<1>3. ASSUME NEW x \in S, T = S \ {x} PROVE Total(w, T) = Total(v, S) - v[x]
  <2>1. IsFiniteSet(T) /\ \A y \in T : w[y] \in Int
    BY <1>1, <1>3, FS_RemoveElement
  <2>2. Total(w, S) = w[x] + Total(w, S \ {x}) /\ Total(w, T) \in Int
    BY <1>1, <2>1, TotalFacts
  <2>3. w[x] \in Int /\ w[x] = v[x]
    BY <1>1
  <2> QED BY <1>1, <1>3, <2>2, <2>3
<1> QED BY <1>1, <1>2, <1>3

(* A new lease, of account k and n bytes in bucket b. *)
LEMMA BooksMore ==
  ASSUME NEW ls, Leases(ls), NEW ac, Books(ls, ac), NEW ms, NEW bc, NEW l, NEW k, NEW b, NEW n,
         Taken(ls, ac, ms, bc, l, k, b, n)
  PROVE  /\ Leases(ms) /\ Books(ms, bc)
         /\ \A bytes : Stores(ls, bytes) => Stores(ms, IF ms[l].physical THEN bytes + n ELSE bytes)
<1>0. /\ l \notin DOMAIN ls /\ n \in Nat /\ k \in DOMAIN ac /\ b \in Bucket
      /\ DOMAIN ms = DOMAIN ls \cup {l} /\ \A m \in DOMAIN ls : ms[m] = ls[m]
      /\ ms[l].state # "RELEASED" /\ ms[l].key = k /\ ms[l].bucket = b /\ ms[l].capacity = n
      /\ DOMAIN bc = DOMAIN ac /\ \A j \in DOMAIN ac \ {k} : bc[j] = ac[j]
      /\ bc[k].reserved = ac[k].reserved + n
      /\ bc[k].byBucket[b] = ac[k].byBucket[b] + n
      /\ \A c \in Bucket \ {b} : bc[k].byBucket[c] = ac[k].byBucket[c]
  BY DEF Taken
<1>1. PICK v, w : v = Capacities(ls) /\ w = Capacities(ms)
  OBVIOUS
<1>2. w[l] = n /\ \A m \in DOMAIN ls : v[m] \in Int /\ w[m] = v[m]
  BY <1>0, <1>1 DEF Capacities, Leases
<1>3. Leases(ms)
  BY <1>0, FS_AddElement DEF Leases
<1>4. \A S \in SUBSET (DOMAIN ls) :
        Total(w, S) = Total(v, S) /\ Total(w, S \cup {l}) = Total(v, S) + n
  <2> SUFFICES ASSUME NEW S \in SUBSET (DOMAIN ls)
               PROVE  Total(w, S) = Total(v, S) /\ Total(w, S \cup {l}) = Total(v, S) + n
    OBVIOUS
  <2>1. IsFiniteSet(S) /\ l \notin S /\ \A x \in S : v[x] \in Int /\ w[x] = v[x]
    BY <1>0, <1>2, FS_Subset DEF Leases
  <2>2. Total(w, S) = Total(v, S)
    BY ONLY <2>1, TotalChanges
  <2>3. PICK T : T = S \cup {l}
    OBVIOUS
  <2>4. w[l] \in Int
    BY <1>0, <1>2
  <2>5. Total(w, T) = Total(v, S) + w[l]
    BY ONLY <2>1, <2>3, <2>4, TotalChanges
  <2> QED BY <1>2, <2>2, <2>3, <2>5
<1>5. /\ LiveIn(ms) = LiveIn(ls) \cup {l} /\ LiveIn(ls) \subseteq DOMAIN ls
      /\ \A j : Of(ls, j) \subseteq DOMAIN ls /\ \A c : In(ls, j, c) \subseteq DOMAIN ls
  BY <1>0 DEF LiveIn, Of, In
<1>6. Of(ms, k) = Of(ls, k) \cup {l} /\ \A j : j # k => Of(ms, j) = Of(ls, j)
  BY <1>0, <1>5 DEF Of, LiveIn
<1>7. /\ In(ms, k, b) = In(ls, k, b) \cup {l}
      /\ \A j, c : j # k \/ c # b => In(ms, j, c) = In(ls, j, c)
  BY <1>0, <1>5, <1>6 DEF In
<1>8. Books(ms, bc)
  <2>1. \A j \in DOMAIN ac : Total(v, Of(ls, j)) = ac[j].reserved
                             /\ \A c \in Bucket : Total(v, In(ls, j, c)) = ac[j].byBucket[c]
    BY <1>1 DEF Books
  <2>2. ASSUME NEW j \in DOMAIN ac, j # k
        PROVE  Total(w, Of(ms, j)) = bc[j].reserved
               /\ \A c \in Bucket : Total(w, In(ms, j, c)) = bc[j].byBucket[c]
    <3>1. bc[j] = ac[j] /\ Of(ms, j) = Of(ls, j) /\ \A c : In(ms, j, c) = In(ls, j, c)
      BY <1>0, <1>6, <1>7, <2>2
    <3>2. Total(w, Of(ls, j)) = ac[j].reserved
      BY <1>4, <1>5, <2>1
    <3>3. ASSUME NEW c \in Bucket PROVE Total(w, In(ls, j, c)) = ac[j].byBucket[c]
      <4>1. In(ls, j, c) \in SUBSET (DOMAIN ls) /\ Total(v, In(ls, j, c)) = ac[j].byBucket[c]
        BY <1>5, <2>1
      <4> QED BY <1>4, <4>1
    <3> QED BY <3>1, <3>2, <3>3
  <2>3. Total(w, Of(ms, k)) = bc[k].reserved
    <3>1. Total(v, Of(ls, k)) = ac[k].reserved
      BY <1>0, <2>1
    <3> QED BY <1>0, <1>4, <1>5, <1>6, <3>1
  <2>4. ASSUME NEW c \in Bucket PROVE Total(w, In(ms, k, c)) = bc[k].byBucket[c]
    <3>1. Total(v, In(ls, k, c)) = ac[k].byBucket[c]
      BY <1>0, <2>1
    <3>2. PICK I : I = In(ls, k, c) /\ I \in SUBSET (DOMAIN ls)
      BY <1>5
    <3>3. CASE c = b
      <4>1. Total(w, In(ms, k, c)) = Total(v, I) + n
        BY <1>4, <1>7, <3>2, <3>3
      <4> QED BY <1>0, <3>1, <3>2, <3>3, <4>1
    <3>4. CASE c # b
      <4>1. Total(w, In(ms, k, c)) = Total(v, I)
        BY <1>4, <1>7, <3>2, <3>4
      <4> QED BY <1>0, <3>1, <3>2, <3>4, <4>1
    <3> QED BY <3>3, <3>4
  <2> QED BY <1>0, <1>1, <2>2, <2>3, <2>4 DEF Books
<1>9. ASSUME NEW bytes, Stores(ls, bytes)
      PROVE  Stores(ms, IF ms[l].physical THEN bytes + n ELSE bytes)
  <2>1. Total(v, Distinct(ls)) = bytes /\ Distinct(ls) \subseteq DOMAIN ls
    BY <1>1, <1>5, <1>9 DEF Stores, Distinct
  <2>2. Distinct(ms) = IF ms[l].physical THEN Distinct(ls) \cup {l} ELSE Distinct(ls)
    BY <1>0, <1>5 DEF Distinct, LiveIn
  <2> QED BY <1>1, <1>4, <2>1, <2>2 DEF Stores
<1> QED BY <1>3, <1>8, <1>9

(* A lease of account k is released, of n bytes in bucket b. *)
LEMMA BooksLess ==
  ASSUME NEW ls, Leases(ls), NEW ac, Books(ls, ac), NEW ms, NEW bc, NEW l, NEW k, NEW b, NEW n,
         Released(ls, ac, ms, bc, l, k, b, n)
  PROVE  /\ Leases(ms) /\ Books(ms, bc)
         /\ \A bytes : Stores(ls, bytes) => Stores(ms, IF ls[l].physical THEN bytes - n ELSE bytes)
<1>0. /\ l \in LiveIn(ls) /\ n \in Nat /\ k \in DOMAIN ac /\ b \in Bucket
      /\ ls[l].key = k /\ ls[l].bucket = b /\ ls[l].capacity = n
      /\ DOMAIN ms = DOMAIN ls /\ \A m \in DOMAIN ls \ {l} : ms[m] = ls[m]
      /\ ms[l].state = "RELEASED" /\ ms[l].capacity = n
      /\ DOMAIN bc = DOMAIN ac /\ \A j \in DOMAIN ac \ {k} : bc[j] = ac[j]
      /\ bc[k].reserved = ac[k].reserved - n
      /\ bc[k].byBucket[b] = ac[k].byBucket[b] - n
      /\ \A c \in Bucket \ {b} : bc[k].byBucket[c] = ac[k].byBucket[c]
  BY DEF Released
<1>1. PICK v, w : v = Capacities(ls) /\ w = Capacities(ms)
  OBVIOUS
<1>2. v[l] = n /\ \A m \in DOMAIN ls : v[m] \in Int /\ w[m] = v[m]
  BY <1>0, <1>1 DEF Capacities, Leases, LiveIn
<1>3. Leases(ms)
  BY <1>0 DEF Leases, LiveIn
<1>4. \A S \in SUBSET (DOMAIN ls) :
        Total(w, S) = Total(v, S) /\ (l \in S => Total(w, S \ {l}) = Total(v, S) - n)
  <2> SUFFICES ASSUME NEW S \in SUBSET (DOMAIN ls)
               PROVE  Total(w, S) = Total(v, S) /\ (l \in S => Total(w, S \ {l}) = Total(v, S) - n)
    OBVIOUS
  <2>1. IsFiniteSet(S) /\ \A x \in S : v[x] \in Int /\ w[x] = v[x]
    BY <1>2, FS_Subset DEF Leases
  <2>2. Total(w, S) = Total(v, S)
    BY ONLY <2>1, TotalChanges
  <2>3. PICK T : T = S \ {l}
    OBVIOUS
  <2>4. l \in S => Total(w, T) = Total(v, S) - v[l]
    BY ONLY <2>1, <2>3, TotalChanges
  <2> QED BY <1>2, <2>2, <2>3, <2>4
<1>5. /\ LiveIn(ms) = LiveIn(ls) \ {l} /\ LiveIn(ls) \subseteq DOMAIN ls
      /\ \A j : Of(ls, j) \subseteq DOMAIN ls /\ \A c : In(ls, j, c) \subseteq DOMAIN ls
  BY <1>0 DEF LiveIn, Of, In
<1>6. l \in Of(ls, k) /\ Of(ms, k) = Of(ls, k) \ {l} /\ \A j : j # k => Of(ms, j) = Of(ls, j)
  BY <1>0, <1>5 DEF Of, LiveIn
<1>7. /\ l \in In(ls, k, b) /\ In(ms, k, b) = In(ls, k, b) \ {l}
      /\ \A j, c : j # k \/ c # b => In(ms, j, c) = In(ls, j, c)
  <2>1. \A j : Of(ms, j) = Of(ls, j) \ {l} /\ (j # k => l \notin Of(ls, j))
    BY <1>5, <1>6 DEF Of
  <2>2. \A j : \A m \in Of(ls, j) \ {l} : ms[m].bucket = ls[m].bucket
    BY <1>0, <1>5
  <2>3. \A j, c : In(ms, j, c) = In(ls, j, c) \ {l}
    BY <2>1, <2>2 DEF In
  <2>4. l \in In(ls, k, b) /\ \A j, c : j # k \/ c # b => l \notin In(ls, j, c)
    BY <1>0, <1>6, <2>1 DEF In
  <2>5. ASSUME NEW j, NEW c, j # k \/ c # b PROVE In(ms, j, c) = In(ls, j, c)
    BY <2>3, <2>4, <2>5
  <2> QED BY <2>3, <2>4, <2>5
<1>8. Books(ms, bc)
  <2>1. \A j \in DOMAIN ac : Total(v, Of(ls, j)) = ac[j].reserved
                             /\ \A c \in Bucket : Total(v, In(ls, j, c)) = ac[j].byBucket[c]
    BY <1>1 DEF Books
  <2>2. ASSUME NEW j \in DOMAIN ac, j # k
        PROVE  Total(w, Of(ms, j)) = bc[j].reserved
               /\ \A c \in Bucket : Total(w, In(ms, j, c)) = bc[j].byBucket[c]
    <3>1. bc[j] = ac[j] /\ Of(ms, j) = Of(ls, j) /\ \A c : In(ms, j, c) = In(ls, j, c)
      BY <1>0, <1>6, <1>7, <2>2
    <3>2. Total(w, Of(ls, j)) = ac[j].reserved
      BY <1>4, <1>5, <2>1
    <3>3. ASSUME NEW c \in Bucket PROVE Total(w, In(ls, j, c)) = ac[j].byBucket[c]
      <4>1. In(ls, j, c) \in SUBSET (DOMAIN ls) /\ Total(v, In(ls, j, c)) = ac[j].byBucket[c]
        BY <1>5, <2>1
      <4> QED BY <1>4, <4>1
    <3> QED BY <3>1, <3>2, <3>3
  <2>3. Total(w, Of(ms, k)) = bc[k].reserved
    <3>1. Total(v, Of(ls, k)) = ac[k].reserved
      BY <1>0, <2>1
    <3> QED BY <1>0, <1>4, <1>5, <1>6, <3>1
  <2>4. ASSUME NEW c \in Bucket PROVE Total(w, In(ms, k, c)) = bc[k].byBucket[c]
    <3>1. Total(v, In(ls, k, c)) = ac[k].byBucket[c]
      BY <1>0, <2>1
    <3>2. PICK I : I = In(ls, k, c) /\ I \in SUBSET (DOMAIN ls)
      BY <1>5
    <3>3. CASE c = b
      <4>1. Total(w, In(ms, k, c)) = Total(v, I) - n
        BY <1>4, <1>7, <3>2, <3>3
      <4> QED BY <1>0, <3>1, <3>2, <3>3, <4>1
    <3>4. CASE c # b
      <4>1. Total(w, In(ms, k, c)) = Total(v, I)
        BY <1>4, <1>7, <3>2, <3>4
      <4> QED BY <1>0, <3>1, <3>2, <3>4, <4>1
    <3> QED BY <3>3, <3>4
  <2> QED BY <1>0, <1>1, <2>2, <2>3, <2>4 DEF Books
<1>9. ASSUME NEW bytes, Stores(ls, bytes)
      PROVE  Stores(ms, IF ls[l].physical THEN bytes - n ELSE bytes)
  <2>1. Total(v, Distinct(ls)) = bytes /\ Distinct(ls) \subseteq DOMAIN ls
    BY <1>1, <1>5, <1>9 DEF Stores, Distinct
  <2>2. /\ ls[l].physical => l \in Distinct(ls) /\ Distinct(ms) = Distinct(ls) \ {l}
        /\ ~ ls[l].physical => Distinct(ms) = Distinct(ls)
    BY <1>0, <1>5 DEF Distinct, LiveIn
  <2> QED BY <1>1, <1>4, <2>1, <2>2 DEF Stores
<1> QED BY <1>3, <1>8, <1>9

(* What the totals are of is as it was. *)
LEMMA BooksSame ==
  ASSUME NEW ls, Leases(ls), NEW ac, Books(ls, ac), NEW ms, SameLeases(ls, ms), NEW bc, SameCharges(ac, bc)
  PROVE  Leases(ms) /\ Books(ms, bc) /\ \A bytes : Stores(ls, bytes) => Stores(ms, bytes)
<1>0. /\ DOMAIN ms = DOMAIN ls
      /\ \A m \in DOMAIN ls : /\ ms[m].state = "RELEASED" <=> ls[m].state = "RELEASED"
                              /\ ms[m].key = ls[m].key /\ ms[m].bucket = ls[m].bucket
                              /\ ms[m].capacity = ls[m].capacity
                              /\ ms[m].physical = ls[m].physical
      /\ DOMAIN bc = DOMAIN ac
      /\ \A j \in DOMAIN ac : bc[j].reserved = ac[j].reserved /\ bc[j].byBucket = ac[j].byBucket
  BY DEF SameLeases, SameCharges
<1>1. Capacities(ms) = Capacities(ls)
  BY <1>0 DEF Capacities
<1>2. Leases(ms)
  BY <1>0 DEF Leases
<1>3. LiveIn(ms) = LiveIn(ls) /\ LiveIn(ls) \subseteq DOMAIN ls
  BY <1>0 DEF LiveIn
<1>4. Distinct(ms) = Distinct(ls) /\ \A j : Of(ms, j) = Of(ls, j)
  BY <1>0, <1>3 DEF Distinct, Of
<1>5. \A j, c : In(ms, j, c) = In(ls, j, c)
  BY <1>0, <1>3, <1>4 DEF In, Of
<1>6. Books(ms, bc)
  BY <1>0, <1>1, <1>4, <1>5 DEF Books
<1> QED BY <1>1, <1>2, <1>4, <1>6 DEF Stores

(* The account k is new, and no lease is charged to it. *)
LEMMA BooksNew ==
  ASSUME NEW ls, NEW ac, Books(ls, ac), NEW k, Of(ls, k) = {}, NEW bc, NEW t, NEW n,
         Admitted(ac, bc, k, t, n)
  PROVE  Books(ls, bc)
<1>0. /\ DOMAIN bc = DOMAIN ac \cup {k} /\ \A j \in DOMAIN ac \ {k} : bc[j] = ac[j]
      /\ bc[k].tenant = t /\ bc[k].limit = n
      /\ bc[k].reserved = 0 /\ \A b \in Bucket : bc[k].byBucket[b] = 0
  BY DEF Admitted
<1>1. PICK v : v = Capacities(ls)
  OBVIOUS
<1>2. Total(v, {}) = 0
  BY TotalFacts, FS_EmptySet
<1>3. Of(ls, k) = {} /\ \A b \in Bucket : In(ls, k, b) = {}
  BY DEF In
<1> QED BY <1>0, <1>1, <1>2, <1>3 DEF Books

(* k is admitted for tenant t, with n bytes. *)
LEMMA FundsMore ==
  ASSUME NEW ss, NEW ac, NEW ts, NEW g, Accounts(ss, ac), Funds(ss, ac, ts, g), ts \in [Tenant -> Int],
         NEW bc, NEW k, NEW t, NEW n, Admitted(ac, bc, k, t, n), k \notin ss, t \in Tenant, n \in Nat,
         NEW us, Granted(ts, us, t, n), NEW tt, tt = ss \cup {k}, NEW h, h = g + n
  PROVE  Accounts(tt, bc) /\ Funds(tt, bc, us, h)
<1>0. /\ DOMAIN bc = DOMAIN ac \cup {k} /\ \A j \in DOMAIN ac \ {k} : bc[j] = ac[j]
      /\ bc[k].tenant = t /\ bc[k].limit = n
      /\ bc[k].reserved = 0 /\ \A b \in Bucket : bc[k].byBucket[b] = 0
  BY DEF Admitted
<1>1. Accounts(tt, bc)
  BY <1>0, FS_AddElement DEF Accounts
<1>2. PICK v, w : v = Reservations(ac) /\ w = Reservations(bc)
  OBVIOUS
<1>3. w[k] = n /\ \A j \in ss : v[j] \in Int /\ w[j] = v[j] /\ bc[j] = ac[j]
  BY <1>0, <1>2 DEF Reservations, Accounts
<1>4. \A S \in SUBSET ss :
        Total(w, S) = Total(v, S) /\ Total(w, S \cup {k}) = Total(v, S) + n
  <2> SUFFICES ASSUME NEW S \in SUBSET ss
               PROVE  Total(w, S) = Total(v, S) /\ Total(w, S \cup {k}) = Total(v, S) + n
    OBVIOUS
  <2>0. S \subseteq DOMAIN ac /\ IsFiniteSet(DOMAIN ac)
    BY DEF Accounts
  <2>1. IsFiniteSet(S) /\ k \notin S /\ \A x \in S : v[x] \in Int /\ w[x] = v[x]
    BY <1>3, <2>0, FS_Subset
  <2>2. Total(w, S) = Total(v, S)
    BY ONLY <2>1, TotalChanges
  <2>3. PICK T : T = S \cup {k}
    OBVIOUS
  <2>4. w[k] \in Int
    BY <1>3
  <2>5. Total(w, T) = Total(v, S) + w[k]
    BY ONLY <2>1, <2>3, <2>4, TotalChanges
  <2> QED BY <1>3, <2>2, <2>3, <2>5
<1>5. /\ \A s : By(ss, ac, s) \in SUBSET ss
      /\ By(tt, bc, t) = By(ss, ac, t) \cup {k}
      /\ \A s : s # t => By(tt, bc, s) = By(ss, ac, s)
  BY <1>0, <1>3 DEF By
<1>6. Total(v, ss) = g /\ \A s \in Tenant : Total(v, By(ss, ac, s)) = ts[s]
  BY <1>2 DEF Funds
<1>7. Total(w, tt) = g + n
  BY <1>4, <1>6
<1>8. ASSUME NEW s \in Tenant PROVE Total(w, By(tt, bc, s)) = us[s]
  <2>1. CASE s = t
    <3>1. Total(w, By(tt, bc, s)) = ts[s] + n
      BY <1>4, <1>5, <1>6, <2>1
    <3> QED BY <2>1, <3>1 DEF Granted
  <2>2. CASE s # t
    <3>1. Total(w, By(tt, bc, s)) = ts[s]
      BY <1>4, <1>5, <1>6, <2>2
    <3> QED BY <2>2, <3>1 DEF Granted
  <2> QED BY <2>1, <2>2
<1> QED BY <1>1, <1>2, <1>7, <1>8 DEF Funds

(* The reservation of k goes back: its tenant is charged no less than it.  *)
LEMMA FundsLess ==
  ASSUME NEW ss, NEW ac, NEW ts, NEW g, Accounts(ss, ac), Funds(ss, ac, ts, g), ts \in [Tenant -> Int],
         NEW bc, SameReserved(ac, bc), NEW k, k \in ss, NEW tt, tt = ss \ {k},
         NEW us, NEW h, Returned(ts, g, us, h, ac, k)
  PROVE  Accounts(tt, bc) /\ Funds(tt, bc, us, h)
<1>0. /\ DOMAIN bc = DOMAIN ac
      /\ \A j \in DOMAIN ac : bc[j].tenant = ac[j].tenant /\ bc[j].limit = ac[j].limit
  BY DEF SameReserved
<1>n. PICK n, t : n = ac[k].limit /\ t = ac[k].tenant
  OBVIOUS
<1>r. us = [ts EXCEPT ![t] = IF @ > n THEN @ - n ELSE 0] /\ h = g - n
  BY <1>n DEF Returned
<1>1. Accounts(tt, bc)
  BY <1>0 DEF Accounts
<1>2. PICK v : v = Reservations(ac) /\ v = Reservations(bc)
  BY <1>0 DEF Reservations
<1>3. v[k] = n /\ n \in Nat /\ t \in Tenant /\ \A j \in ss : v[j] \in Nat
  BY <1>n, <1>2 DEF Reservations, Accounts
<1>4. \A S \in SUBSET ss :
        Total(v, S) \in Nat /\ (k \in S => Total(v, S \ {k}) = Total(v, S) - n)
  <2> SUFFICES ASSUME NEW S \in SUBSET ss
               PROVE  Total(v, S) \in Nat /\ (k \in S => Total(v, S \ {k}) = Total(v, S) - n)
    OBVIOUS
  <2>0. S \subseteq DOMAIN ac /\ ss \subseteq DOMAIN ac /\ IsFiniteSet(DOMAIN ac)
    BY DEF Accounts
  <2>1. IsFiniteSet(S) /\ IsFiniteSet(ss) /\ \A x \in S : v[x] \in Int /\ v[x] = v[x]
    BY <1>3, <2>0, FS_Subset
  <2>2. Total(v, S) \in Nat
    BY <1>3, <2>1, TotalNat
  <2>3. PICK T : T = S \ {k}
    OBVIOUS
  <2>4. k \in S => Total(v, T) = Total(v, S) - v[k]
    BY ONLY <2>1, <2>3, TotalChanges
  <2> QED BY <1>3, <2>2, <2>3, <2>4
<1>5. /\ \A s : By(ss, ac, s) \in SUBSET ss
      /\ k \in By(ss, ac, t) /\ By(tt, bc, t) = By(ss, ac, t) \ {k}
      /\ \A s : s # t => By(tt, bc, s) = By(ss, ac, s)
  BY <1>0, <1>n DEF By, Accounts
<1>6. Total(v, ss) = g /\ \A s \in Tenant : Total(v, By(ss, ac, s)) = ts[s]
  BY <1>2 DEF Funds
<1>7. Total(v, tt) = g - n
  BY <1>4, <1>6
<1>8. ASSUME NEW s \in Tenant PROVE Total(v, By(tt, bc, s)) = us[s]
  <2>1. CASE s = t
    <3>1. By(ss, ac, s) \in SUBSET ss /\ k \in By(ss, ac, s) /\ By(tt, bc, s) = By(ss, ac, s) \ {k}
      BY <1>5, <2>1
    <3>2. Total(v, By(tt, bc, s)) = ts[s] - n
      BY <1>4, <1>6, <3>1
    <3>3. By(tt, bc, s) \in SUBSET ss
      BY <3>1
    <3>4. ts[s] - n \in Nat
      BY <1>4, <3>2, <3>3
    <3>5. ts[s] - n = IF ts[s] > n THEN ts[s] - n ELSE 0
      BY <1>3, <3>4
    <3>6. us[s] = IF ts[s] > n THEN ts[s] - n ELSE 0
      BY <1>3, <2>1, <1>r
    <3> QED BY <3>2, <3>5, <3>6
  <2>2. CASE s # t
    <3>1. Total(v, By(tt, bc, s)) = ts[s]
      BY <1>5, <1>6, <2>2
    <3> QED BY <2>2, <3>1, <1>r
  <2> QED BY <2>1, <2>2
<1> QED BY <1>r, <1>1, <1>2, <1>7, <1>8 DEF Funds

(* Nobody is charged anything else for accounts than before. *)
LEMMA FundsSame ==
  ASSUME NEW ss, NEW ac, NEW ts, NEW g, Accounts(ss, ac), Funds(ss, ac, ts, g), NEW bc, SameReserved(ac, bc)
  PROVE  Accounts(ss, bc) /\ Funds(ss, bc, ts, g)
<1>0. /\ DOMAIN bc = DOMAIN ac
      /\ \A j \in DOMAIN ac : bc[j].tenant = ac[j].tenant /\ bc[j].limit = ac[j].limit
  BY DEF SameReserved
<1>1. Reservations(bc) = Reservations(ac)
  BY <1>0 DEF Reservations
<1>2. \A s : By(ss, bc, s) = By(ss, ac, s)
  BY <1>0 DEF By, Accounts
<1> QED BY <1>0, <1>1, <1>2 DEF Accounts, Funds

(* What reconcile finds for leases adds up is their total. *)
LEMMA BytesTotal ==
  ASSUME NEW S, IsFiniteSet(S), NEW v, \A x \in S : lease[x].capacity = v[x] /\ v[x] \in Int
  PROVE  Bytes(S) = Total(v, S)
<1> DEFINE Chosen(s) == CHOOSE x \in s : TRUE
           Rest(s) == s \ {Chosen(s)}
           Eq(g) == g = [s \in SUBSET S |-> IF s = {} THEN 0 ELSE lease[Chosen(s)].capacity + g[Rest(s)]]
<1>1. PICK c : c = Some(S)
  OBVIOUS
<1>2. Chooses(c, S)
  BY <1>1, SomeChooses
<1>3. PICK h : Adds(h, v, c, S)
  BY <1>2, SumExists
<1>4. \A s \in SUBSET S : s # {} => c[s] = Chosen(s) /\ Chosen(s) \in s /\ lease[Chosen(s)].capacity = v[c[s]]
  BY <1>1, <1>2 DEF Some, Chooses
<1>5. Eq(h)
  <2>1. \A s \in SUBSET S : Part(h, v, c, s) = IF s = {} THEN 0 ELSE lease[Chosen(s)].capacity + h[Rest(s)]
    BY <1>4 DEF Part
  <2> QED BY <1>3, <2>1 DEF Adds
<1>6. PICK g : g = CHOOSE f : Eq(f)
  OBVIOUS
<1>7. Eq(g)
  <2> HIDE DEF Eq
  <2> QED BY <1>5, <1>6
<1>8. Bytes(S) = g[S]
  BY <1>6 DEF Bytes, MapThenSumSet, MapThenFoldSet
<1>9. Folds(g, v, c, S)
  BY <1>4, <1>7 DEF Folds, Part
<1>10. IsSum(g, v, S)
  BY <1>2, <1>9, SumSteps
<1>11. IsFiniteSet(S) /\ S \subseteq S /\ \A x \in S : v[x] = v[x] /\ v[x] \in Int
  OBVIOUS
<1>12. g[S] = Total(v, S)
  BY ONLY <1>10, <1>11, TotalIs
<1> QED BY <1>8, <1>12


(* What reconcile finds for accounts adds up is their total. *)
LEMMA LimitsTotal ==
  ASSUME NEW S, IsFiniteSet(S), NEW v, \A x \in S : account[x].limit = v[x] /\ v[x] \in Int
  PROVE  Limits(S) = Total(v, S)
<1> DEFINE Chosen(s) == CHOOSE x \in s : TRUE
           Rest(s) == s \ {Chosen(s)}
           Eq(g) == g = [s \in SUBSET S |-> IF s = {} THEN 0 ELSE account[Chosen(s)].limit + g[Rest(s)]]
<1>1. PICK c : c = Some(S)
  OBVIOUS
<1>2. Chooses(c, S)
  BY <1>1, SomeChooses
<1>3. PICK h : Adds(h, v, c, S)
  BY <1>2, SumExists
<1>4. \A s \in SUBSET S : s # {} => c[s] = Chosen(s) /\ Chosen(s) \in s /\ account[Chosen(s)].limit = v[c[s]]
  BY <1>1, <1>2 DEF Some, Chooses
<1>5. Eq(h)
  <2>1. \A s \in SUBSET S : Part(h, v, c, s) = IF s = {} THEN 0 ELSE account[Chosen(s)].limit + h[Rest(s)]
    BY <1>4 DEF Part
  <2> QED BY <1>3, <2>1 DEF Adds
<1>6. PICK g : g = CHOOSE f : Eq(f)
  OBVIOUS
<1>7. Eq(g)
  <2> HIDE DEF Eq
  <2> QED BY <1>5, <1>6
<1>8. Limits(S) = g[S]
  BY <1>6 DEF Limits, MapThenSumSet, MapThenFoldSet
<1>9. Folds(g, v, c, S)
  BY <1>4, <1>7 DEF Folds, Part
<1>10. IsSum(g, v, S)
  BY <1>2, <1>9, SumSteps
<1>11. IsFiniteSet(S) /\ S \subseteq S /\ \A x \in S : v[x] = v[x] /\ v[x] \in Int
  OBVIOUS
<1>12. g[S] = Total(v, S)
  BY ONLY <1>10, <1>11, TotalIs
<1> QED BY <1>8, <1>12

-----------------------------------------------------------------------------
(* The calls, one lemma each *)

(* The invariant holds at the start. *)
LEMMA InitLemma == LedgerInit => LedgerInv
<1> SUFFICES ASSUME LedgerInit PROVE LedgerInv
  OBVIOUS
<1>1. /\ sessions = {} /\ DOMAIN account = {} /\ DOMAIN lease = {}
      /\ tenants \in [Tenant -> Int] /\ (\A t \in Tenant : tenants[t] = 0)
      /\ globalReserved = 0 /\ physicalBytes = 0
  BY DEF LedgerInit
<1>2. account \in [DOMAIN account -> Account] /\ lease \in [DOMAIN lease -> Lease]
  BY <1>1 DEF LedgerInit
<1>3. LedgerTypeOK
  BY <1>1, <1>2 DEF LedgerTypeOK
<1>4. LiveHasConsumer /\ HeldIsCharged /\ ClosedIsHeld /\ OpenIsAdmitted
  BY <1>1 DEF LiveHasConsumer, HeldIsCharged, ClosedIsHeld, OpenIsAdmitted, LiveIn
<1>5. WithinLimits
  BY <1>1, LimitAssumption DEF WithinLimits
<1>6. TotalsAgree
  <2>1. IsFiniteSet({}) /\ \A v : Total(v, {}) = 0
    BY TotalFacts, FS_EmptySet
  <2>2. Leases(lease) /\ Accounts(sessions, account) /\ Books(lease, account)
    BY <1>1, <2>1 DEF Leases, Accounts, Books
  <2>3. Distinct(lease) = {} /\ \A t : By(sessions, account, t) = {}
    BY <1>1 DEF Distinct, LiveIn, By
  <2>4. Stores(lease, physicalBytes)
    BY <1>1, <2>1, <2>3 DEF Stores
  <2>5. Funds(sessions, account, tenants, globalReserved)
    BY <1>1, <2>1, <2>3 DEF Funds
  <2> QED BY <2>2, <2>4, <2>5 DEF TotalsAgree
<1> QED BY <1>3, <1>4, <1>5, <1>6 DEF LedgerInv

(* Charging an account changes its bytes in one bucket, and their total. *)
LEMMA ChargedLemma ==
  ASSUME NEW a \in Account, NEW b \in Bucket, NEW n \in Int
  PROVE  /\ Charged(a, b, n) \in Account
         /\ Charged(a, b, n).reserved = a.reserved + n
         /\ Charged(a, b, n).limit = a.limit
         /\ Charged(a, b, n).tenant = a.tenant
         /\ Charged(a, b, n).capped = a.capped
         /\ Charged(a, b, n).closed = a.closed
         /\ Charged(a, b, n).byBucket[b] = a.byBucket[b] + n
         /\ \A c \in Bucket \ {b} : Charged(a, b, n).byBucket[c] = a.byBucket[c]
<1>1. [c \in Bucket |-> a.byBucket[c] + (IF c = b THEN n ELSE 0)] \in [Bucket -> Int]
  BY DEF Account
<1> DEFINE f == [c \in Bucket |-> a.byBucket[c] + (IF c = b THEN n ELSE 0)]
<1>2. f[b] = a.byBucket[b] + n /\ \A c \in Bucket \ {b} : f[c] = a.byBucket[c]
  BY DEF Account
<1>3. a.reserved + n \in Int
  BY DEF Account
<1> HIDE DEF f
<1>4. Charged(a, b, n) = [a EXCEPT !.reserved = a.reserved + n, !.byBucket = f]
  BY DEF Charged, f
<1>5. f \in [Bucket -> Int]
  BY <1>1 DEF f
<1> QED BY <1>2, <1>3, <1>4, <1>5 DEF Account

(* The account a key is admitted for is new: no lease of a former one is live. *)
LEMMA AdmitLemma ==
  ASSUME LedgerInv, NEW k \in Key, NEW t \in Tenant, NEW n \in Size,
         NEW capped \in BOOLEAN, Admit(k, t, n, capped)
  PROVE  LedgerInv' /\ RefundStep
<1> DEFINE new == [tenant |-> t, limit |-> n, capped |-> capped, reserved |-> 0,
                   byBucket |-> [b \in Bucket |-> 0], closed |-> FALSE]
<1>1. n \in Nat /\ n > 0 /\ k \notin sessions
  BY SizeAssumption DEF Admit
<1>2. new \in Account
  BY <1>1 DEF Account
<1>3. /\ DOMAIN account' = DOMAIN account \cup {k}
      /\ account'[k] = new
      /\ \A j \in DOMAIN account \ {k} : account'[j] = account[j]
      /\ account' \in [DOMAIN account' -> Account]
  BY <1>2 DEF Admit, With, LedgerInv, LedgerTypeOK
<1>4. /\ sessions' = sessions \cup {k} /\ lease' = lease /\ physicalBytes' = physicalBytes
      /\ globalReserved' = globalReserved + n /\ globalReserved + n <= GlobalLimit
      /\ tenants' = [tenants EXCEPT ![t] = @ + n] /\ tenants[t] + n <= TenantLimit
  BY DEF Admit, Admissible
<1>5. LedgerTypeOK'
  BY <1>1, <1>3, <1>4 DEF LedgerInv, LedgerTypeOK
<1>6. LiveHasConsumer' /\ HeldIsCharged'
  BY <1>4 DEF LedgerInv, LiveHasConsumer, HeldIsCharged, LiveIn
<1>7. ClosedIsHeld'
  BY <1>3, <1>4 DEF LedgerInv, LedgerTypeOK, ClosedIsHeld, LeasesOf, LiveIn
<1>8. OpenIsAdmitted'
  BY <1>3, <1>4 DEF LedgerInv, OpenIsAdmitted
<1>9. WithinLimits'
  <2>1. \A j \in DOMAIN account' :
          /\ account'[j].reserved <= account'[j].limit
          /\ account'[j].capped => \A b \in Bucket : account'[j].byBucket[b] <= Cap[b]
    BY <1>1, <1>3, CapAssumption DEF LedgerInv, WithinLimits
  <2>2. \A s \in Tenant : tenants'[s] <= TenantLimit
    BY <1>4 DEF LedgerInv, WithinLimits, LedgerTypeOK
  <2> QED BY <2>1, <2>2, <1>4 DEF WithinLimits
<1>10. RefundStep
  BY <1>1, <1>4 DEF RefundStep, LedgerInv, LedgerTypeOK
<1>11. TotalsAgree'
  <2>1. Books(lease, account) /\ Of(lease, k) = {}
    BY <1>1 DEF LedgerInv, TotalsAgree, HeldIsCharged, Of
  <2>2. Admitted(account, account', k, t, n)
    BY <1>3 DEF Admitted
  <2>3. Books(lease, account')
    BY ONLY <2>1, <2>2, BooksNew
  <2>4. /\ Accounts(sessions, account) /\ Funds(sessions, account, tenants, globalReserved)
        /\ Leases(lease) /\ Stores(lease, physicalBytes) /\ tenants \in [Tenant -> Int]
    BY DEF LedgerInv, TotalsAgree, LedgerTypeOK
  <2>5. k \notin sessions /\ t \in Tenant /\ n \in Nat
    BY <1>1
  <2>6. PICK us, tt, h : us = tenants' /\ tt = sessions \cup {k} /\ h = globalReserved + n
    OBVIOUS
  <2>8. Granted(tenants, us, t, n)
    BY <1>4, <2>6 DEF Granted
  <2>7. Accounts(tt, account') /\ Funds(tt, account', us, h)
    BY ONLY <2>2, <2>4, <2>5, <2>6, <2>8, FundsMore
  <2> QED BY <1>4, <2>3, <2>4, <2>6, <2>7 DEF TotalsAgree
<1> QED BY <1>5, <1>6, <1>7, <1>8, <1>9, <1>10, <1>11 DEF LedgerInv

(* A new lease fits its open account. *)
LEMMA AcquireLemma ==
  ASSUME LedgerInv, NEW k \in Key, NEW l \in LeaseId, NEW b \in Bucket, NEW n \in Size,
         NEW physical \in BOOLEAN, Acquire(k, l, b, n, physical)
  PROVE  LedgerInv' /\ RefundStep
<1> DEFINE new == [state |-> "ACTIVE", key |-> k, bucket |-> b, capacity |-> n,
                   physical |-> physical, refs |-> 1]
<1>1. n \in Nat /\ k \in DOMAIN account /\ ~ account[k].closed /\ l \notin DOMAIN lease
      /\ account[k] \in Account /\ account[k].reserved + n <= account[k].limit
      /\ (account[k].capped => account[k].byBucket[b] + n <= Cap[b])
  BY SizeAssumption DEF Acquire, Fits, LedgerInv, LedgerTypeOK
<1>2. new \in Lease
  BY <1>1 DEF Lease
<1>3. /\ DOMAIN lease' = DOMAIN lease \cup {l}
      /\ lease'[l] = new
      /\ \A m \in DOMAIN lease : lease'[m] = lease[m]
      /\ lease' \in [DOMAIN lease' -> Lease]
  BY <1>1, <1>2 DEF Acquire, With, LedgerInv, LedgerTypeOK
<1>4. /\ DOMAIN account' = DOMAIN account
      /\ \A j \in DOMAIN account \ {k} : account'[j] = account[j]
      /\ account'[k] \in Account
      /\ account'[k].reserved = account[k].reserved + n
      /\ account'[k].limit = account[k].limit /\ account'[k].capped = account[k].capped
      /\ account'[k].tenant = account[k].tenant
      /\ account'[k].closed = account[k].closed
      /\ account'[k].byBucket[b] = account[k].byBucket[b] + n
      /\ \A c \in Bucket \ {b} : account'[k].byBucket[c] = account[k].byBucket[c]
  <2> DEFINE more == Charged(account[k], b, n)
  <2>1. account' = [account EXCEPT ![k] = more]
    BY DEF Acquire
  <2>2. /\ more \in Account
        /\ more.reserved = account[k].reserved + n
        /\ more.limit = account[k].limit /\ more.capped = account[k].capped
        /\ more.closed = account[k].closed /\ more.tenant = account[k].tenant
        /\ more.byBucket[b] = account[k].byBucket[b] + n
        /\ \A c \in Bucket \ {b} : more.byBucket[c] = account[k].byBucket[c]
    BY <1>1, ChargedLemma
  <2> HIDE DEF more
  <2>3. account'[k] = more /\ DOMAIN account' = DOMAIN account
        /\ \A j \in DOMAIN account \ {k} : account'[j] = account[j]
    BY <1>1, <2>1 DEF LedgerInv, LedgerTypeOK
  <2> QED BY <2>2, <2>3
<1>5. /\ sessions' = sessions /\ tenants' = tenants /\ globalReserved' = globalReserved
      /\ physicalBytes' \in Int
  BY <1>1 DEF Acquire, LedgerInv, LedgerTypeOK
<1>6. account' \in [DOMAIN account' -> Account]
  <2>1. account' = [j \in DOMAIN account' |-> account'[j]]
    BY DEF Acquire, LedgerInv, LedgerTypeOK
  <2> QED BY <1>4, <2>1 DEF LedgerInv, LedgerTypeOK
<1>7. LedgerTypeOK'
  BY <1>1, <1>3, <1>4, <1>5, <1>6 DEF LedgerInv, LedgerTypeOK
<1>8. LiveHasConsumer' /\ HeldIsCharged'
  BY <1>1, <1>3, <1>5 DEF LedgerInv, LiveHasConsumer, HeldIsCharged, OpenIsAdmitted, LiveIn
<1>9. ClosedIsHeld' /\ OpenIsAdmitted'
  BY <1>1, <1>3, <1>4, <1>5
     DEF LedgerInv, LedgerTypeOK, ClosedIsHeld, OpenIsAdmitted, LeasesOf, LiveIn
<1>10. WithinLimits'
  BY <1>1, <1>4, <1>5 DEF LedgerInv, WithinLimits
<1>11. RefundStep
  BY <1>5 DEF RefundStep, LedgerInv, LedgerTypeOK
<1>12. TotalsAgree'
  <2>1. /\ Leases(lease) /\ Books(lease, account) /\ Stores(lease, physicalBytes)
        /\ Accounts(sessions, account) /\ Funds(sessions, account, tenants, globalReserved)
        /\ tenants \in [Tenant -> Int]
    BY DEF LedgerInv, TotalsAgree, LedgerTypeOK
  <2>2. Taken(lease, account, lease', account', l, k, b, n)
    <3>1. lease'[l].state = "ACTIVE" /\ lease'[l].key = k /\ lease'[l].bucket = b /\ lease'[l].capacity = n
      BY <1>3
    <3> HIDE DEF new
    <3> QED BY <1>1, <1>3, <1>4, <3>1 DEF Taken
  <2>3. /\ Leases(lease') /\ Books(lease', account')
        /\ Stores(lease', IF lease'[l].physical THEN physicalBytes + n ELSE physicalBytes)
    BY ONLY <2>1, <2>2, BooksMore
  <2>4. physicalBytes' = IF lease'[l].physical THEN physicalBytes + n ELSE physicalBytes
    <3>1. lease'[l].physical = physical
      BY <1>3
    <3>2. physicalBytes' = physicalBytes + (IF physical THEN n ELSE 0) /\ physicalBytes \in Int
      BY DEF Acquire, LedgerInv, LedgerTypeOK
    <3> QED BY ONLY <1>1, <3>1, <3>2
  <2>5. SameReserved(account, account')
    BY <1>4 DEF SameReserved
  <2>6. Accounts(sessions, account') /\ Funds(sessions, account', tenants, globalReserved)
    BY ONLY <2>1, <2>5, FundsSame
  <2> QED BY <1>5, <2>3, <2>4, <2>6 DEF TotalsAgree
<1> QED BY <1>7, <1>8, <1>9, <1>10, <1>11, <1>12 DEF LedgerInv

(* More or fewer consumers, never none, leave everything else as it is. *)
LEMMA ConsumersLemma ==
  ASSUME LedgerInv, NEW l \in LeaseId, Retain(l) \/ ReleaseOne(l)
  PROVE  LedgerInv' /\ RefundStep
<1>1. /\ l \in LiveIn(lease) /\ lease[l] \in Lease
      /\ sessions' = sessions /\ account' = account /\ tenants' = tenants
      /\ globalReserved' = globalReserved /\ physicalBytes' = physicalBytes
  BY DEF Retain, ReleaseOne, Releasable, LiveIn, LedgerInv, LedgerTypeOK
<1>2. PICK r \in Nat : r > 0 /\ lease' = [lease EXCEPT ![l].refs = r]
  <2>0. lease[l].refs \in Nat /\ lease[l].refs > 0
    BY <1>1 DEF Lease, LedgerInv, LiveHasConsumer
  <2>1. CASE Retain(l)
    <3> DEFINE s == lease[l].refs + 1
    <3>1. lease' = [lease EXCEPT ![l].refs = s]
      BY <2>1 DEF Retain
    <3>2. s \in Nat /\ s > 0
      BY <2>0, <2>1 DEF Retain
    <3> HIDE DEF s
    <3> QED BY <3>1, <3>2
  <2>2. CASE ReleaseOne(l)
    <3> DEFINE s == lease[l].refs - 1
    <3>1. lease' = [lease EXCEPT ![l].refs = s]
      BY <2>2 DEF ReleaseOne
    <3>2. s \in Nat /\ s > 0
      BY <2>0, <2>2 DEF ReleaseOne
    <3> HIDE DEF s
    <3> QED BY <3>1, <3>2
  <2> QED BY <2>1, <2>2
<1>3. /\ DOMAIN lease' = DOMAIN lease
      /\ lease' \in [DOMAIN lease -> Lease]
      /\ \A m \in DOMAIN lease : /\ lease'[m].state = lease[m].state
                                 /\ lease'[m].key = lease[m].key
                                 /\ lease'[m].bucket = lease[m].bucket
                                 /\ lease'[m].capacity = lease[m].capacity
                                 /\ lease'[m].physical = lease[m].physical
                                 /\ lease'[m].refs > 0 \/ lease'[m] = lease[m]
  BY <1>1, <1>2 DEF Lease, LedgerInv, LedgerTypeOK
<1>4. LedgerTypeOK'
  BY <1>1, <1>3 DEF LedgerInv, LedgerTypeOK
<1>5. LiveHasConsumer' /\ HeldIsCharged'
  BY <1>1, <1>3 DEF LedgerInv, LiveHasConsumer, HeldIsCharged, LiveIn
<1>6. ClosedIsHeld' /\ OpenIsAdmitted'
  BY <1>1, <1>3 DEF LedgerInv, LedgerTypeOK, ClosedIsHeld, OpenIsAdmitted, LeasesOf, LiveIn
<1>7. WithinLimits'
  BY <1>1 DEF LedgerInv, WithinLimits
<1>8. RefundStep
  BY <1>1 DEF RefundStep, LedgerInv, LedgerTypeOK
<1>9. TotalsAgree'
  <2>1. Leases(lease) /\ Books(lease, account) /\ Stores(lease, physicalBytes)
    BY DEF LedgerInv, TotalsAgree
  <2>2. SameLeases(lease, lease')
    BY <1>3 DEF SameLeases
  <2>3. SameCharges(account, account')
    BY <1>1 DEF SameCharges
  <2>4. Leases(lease') /\ Books(lease', account') /\ Stores(lease', physicalBytes)
    BY ONLY <2>1, <2>2, <2>3, BooksSame
  <2> QED BY <1>1, <2>4 DEF LedgerInv, TotalsAgree
<1> QED BY <1>4, <1>5, <1>6, <1>7, <1>8, <1>9 DEF LedgerInv

(* _finishClose of a charged account lowers what is charged, by its limit. *)
LEMMA FinishLemma ==
  ASSUME LedgerInv, NEW k \in sessions, FinishClose(k)
  PROVE  /\ sessions' = sessions \ {k}
         /\ globalReserved' = globalReserved - account[k].limit
         /\ account[k].limit \in Nat
         /\ tenants' \in [Tenant -> Int]
         /\ \A t \in Tenant : tenants'[t] <= TenantLimit
         /\ \A bc : SameReserved(account, bc) =>
                     Accounts(sessions', bc) /\ Funds(sessions', bc, tenants', globalReserved')
<1>1. account[k] \in Account
  BY DEF LedgerInv, LedgerTypeOK
<1>2. /\ sessions' = sessions \ {k}
      /\ globalReserved' = globalReserved - account[k].limit
      /\ tenants' = [tenants EXCEPT ![account[k].tenant] =
                       IF @ > account[k].limit THEN @ - account[k].limit ELSE 0]
  BY DEF FinishClose
<1>3. tenants' \in [Tenant -> Int] /\ \A t \in Tenant : tenants'[t] <= TenantLimit
  BY <1>1, <1>2, LimitAssumption DEF Account, LedgerInv, LedgerTypeOK, WithinLimits
<1>4. ASSUME NEW bc, SameReserved(account, bc)
      PROVE  Accounts(sessions', bc) /\ Funds(sessions', bc, tenants', globalReserved')
  <2>1. /\ Accounts(sessions, account) /\ Funds(sessions, account, tenants, globalReserved)
        /\ tenants \in [Tenant -> Int]
    BY DEF LedgerInv, TotalsAgree, LedgerTypeOK
  <2>2. PICK us, tt, h : us = tenants' /\ tt = sessions' /\ h = globalReserved'
    OBVIOUS
  <2>3. Returned(tenants, globalReserved, us, h, account, k)
    BY <1>2, <2>2 DEF Returned
  <2>4. k \in sessions /\ tt = sessions \ {k}
    BY <1>2, <2>2
  <2>5. Accounts(tt, bc) /\ Funds(tt, bc, us, h)
    BY ONLY <1>4, <2>1, <2>3, <2>4, FundsLess
  <2> QED BY <2>2, <2>5
<1>5. account[k].limit \in Nat
  BY <1>1 DEF Account
<1> QED BY <1>2, <1>3, <1>4, <1>5

(* The last release keeps a closed account charged for while others are live. *)
LEMMA ReleaseLemma ==
  ASSUME LedgerInv, NEW l \in LeaseId, ReleaseLast(l)
  PROVE  LedgerInv' /\ RefundStep
<1> DEFINE k == lease[l].key
           n == lease[l].capacity
           b == lease[l].bucket
<1>1. /\ l \in LiveIn(lease) /\ l \in DOMAIN lease /\ lease[l] \in Lease
      /\ lease[l].refs = 1 /\ n \in Nat /\ b \in Bucket
      /\ k \in sessions /\ k \in DOMAIN account /\ account[k] \in Account
  BY DEF ReleaseLast, Releasable, LedgerInv, LedgerTypeOK, LiveHasConsumer, HeldIsCharged,
         LiveIn, Lease
<1>2. /\ DOMAIN lease' = DOMAIN lease
      /\ lease' \in [DOMAIN lease -> Lease]
      /\ lease'[l].state = "RELEASED" /\ lease'[l].capacity = n
      /\ \A m \in DOMAIN lease : lease'[m].key = lease[m].key
      /\ \A m \in DOMAIN lease \ {l} : lease'[m] = lease[m]
  <2>1. lease' = [lease EXCEPT ![l] = [lease[l] EXCEPT !.refs = lease[l].refs - 1,
                                                       !.state = "RELEASED"]]
    BY DEF ReleaseLast
  <2>2. lease' = [lease EXCEPT ![l] = [lease[l] EXCEPT !.refs = 0, !.state = "RELEASED"]]
    BY <1>1, <2>1
  <2>3. [lease[l] EXCEPT !.refs = 0, !.state = "RELEASED"] \in Lease
    BY <1>1 DEF Lease
  <2> QED BY <1>1, <2>2, <2>3 DEF Lease, LedgerInv, LedgerTypeOK
<1>3. /\ DOMAIN account' = DOMAIN account
      /\ \A j \in DOMAIN account \ {k} : account'[j] = account[j]
      /\ account'[k] \in Account
      /\ account'[k].reserved = account[k].reserved - n
      /\ account'[k].limit = account[k].limit /\ account'[k].capped = account[k].capped
      /\ account'[k].tenant = account[k].tenant
      /\ account'[k].closed = account[k].closed
      /\ account'[k].byBucket[b] = account[k].byBucket[b] - n
      /\ \A c \in Bucket \ {b} : account'[k].byBucket[c] = account[k].byBucket[c]
      /\ account' \in [DOMAIN account -> Account]
  <2> HIDE DEF k, n, b
  <2> DEFINE m == - n
  <2> DEFINE less == Charged(account[k], b, m)
  <2>1. account' = [account EXCEPT ![k] = less]
    BY DEF ReleaseLast, k, n, b
  <2>2. m \in Int /\ account[k].reserved + m = account[k].reserved - n
        /\ account[k].byBucket[b] + m = account[k].byBucket[b] - n
    BY <1>1 DEF Account
  <2> HIDE DEF m
  <2>3. /\ less \in Account
        /\ less.reserved = account[k].reserved + m
        /\ less.limit = account[k].limit /\ less.capped = account[k].capped
        /\ less.closed = account[k].closed /\ less.tenant = account[k].tenant
        /\ less.byBucket[b] = account[k].byBucket[b] + m
        /\ \A c \in Bucket \ {b} : less.byBucket[c] = account[k].byBucket[c]
    BY <1>1, <2>2, ChargedLemma
  <2> HIDE DEF less
  <2>4. account'[k] = less /\ DOMAIN account' = DOMAIN account
        /\ (\A j \in DOMAIN account \ {k} : account'[j] = account[j])
        /\ account' \in [DOMAIN account -> Account]
    BY <1>1, <2>1, <2>3 DEF LedgerInv, LedgerTypeOK
  <2> QED BY <2>2, <2>3, <2>4
<1>4. /\ physicalBytes' \in Int
      /\ physicalBytes' = IF lease[l].physical THEN physicalBytes - n ELSE physicalBytes
  BY <1>1 DEF ReleaseLast, LedgerInv, LedgerTypeOK
<1>5. LiveIn(lease)' = LiveIn(lease) \ {l}
  BY <1>1, <1>2 DEF LiveIn
<1>6. \/ /\ LastOf(k, l) /\ FinishClose(k)
      \/ /\ ~ LastOf(k, l)
         /\ sessions' = sessions /\ tenants' = tenants /\ globalReserved' = globalReserved
  BY DEF ReleaseLast
<1>7. \A j \in DOMAIN account : LeasesOf(j)' = LeasesOf(j) \ {l}
  BY <1>2, <1>5 DEF LeasesOf, LiveIn
<1>10. \A j \in DOMAIN account' :
         /\ account'[j].reserved <= account'[j].limit
         /\ account'[j].capped => \A c \in Bucket : account'[j].byBucket[c] <= Cap[c]
  <2>1. /\ account[k].reserved \in Int /\ account[k].limit \in Nat
        /\ (\A c \in Bucket : account[k].byBucket[c] \in Int /\ Cap[c] \in Nat)
    BY <1>1, CapAssumption DEF Account
  <2>2. /\ account[k].reserved <= account[k].limit
        /\ account[k].capped => \A c \in Bucket : account[k].byBucket[c] <= Cap[c]
    BY <1>1 DEF LedgerInv, WithinLimits
  <2> HIDE DEF k, n, b
  <2>3. /\ account'[k].reserved <= account'[k].limit
        /\ account'[k].capped => \A c \in Bucket : account'[k].byBucket[c] <= Cap[c]
    BY <1>1, <1>3, <2>1, <2>2
  <2> QED BY <1>3, <2>3 DEF LedgerInv, WithinLimits
<1>11. k = lease[l].key /\ b = lease[l].bucket /\ n = lease[l].capacity
  OBVIOUS
<1> HIDE DEF k, n, b
<1>12. Leases(lease') /\ Books(lease', account') /\ Stores(lease', physicalBytes')
  <2>1. Leases(lease) /\ Books(lease, account) /\ Stores(lease, physicalBytes)
    BY DEF LedgerInv, TotalsAgree
  <2>2. Released(lease, account, lease', account', l, k, b, n)
    BY <1>1, <1>2, <1>3, <1>11 DEF Released
  <2>3. /\ Leases(lease') /\ Books(lease', account')
        /\ Stores(lease', IF lease[l].physical THEN physicalBytes - n ELSE physicalBytes)
    BY ONLY <2>1, <2>2, BooksLess
  <2> QED BY <1>4, <2>3
<1>13. SameReserved(account, account')
  BY <1>3 DEF SameReserved
<1>8. CASE LastOf(k, l) /\ FinishClose(k)
  <2>1. /\ sessions' = sessions \ {k} /\ tenants' \in [Tenant -> Int]
        /\ (\A t \in Tenant : tenants'[t] <= TenantLimit)
        /\ globalReserved' = globalReserved - account[k].limit /\ account[k].limit \in Nat
    BY <1>1, <1>8, FinishLemma
  <2>9. TotalsAgree'
    <3>1. Accounts(sessions', account') /\ Funds(sessions', account', tenants', globalReserved')
      BY <1>1, <1>8, <1>13, FinishLemma
    <3> QED BY <1>12, <3>1 DEF TotalsAgree
  <2>2. \A m \in LiveIn(lease)' : lease'[m].key # k
    BY <1>2, <1>5, <1>8 DEF LastOf, LeasesOf, LiveIn
  <2>3. LedgerTypeOK'
    BY <1>2, <1>3, <1>4, <2>1 DEF LedgerInv, LedgerTypeOK
  <2>4. LiveHasConsumer' /\ HeldIsCharged'
    BY <1>2, <1>5, <2>1, <2>2 DEF LedgerInv, LiveHasConsumer, HeldIsCharged, LiveIn
  <2>5. ClosedIsHeld'
    <3> SUFFICES ASSUME NEW j \in sessions', account'[j].closed PROVE LeasesOf(j)' # {}
      BY DEF ClosedIsHeld
    <3>1. j \in sessions /\ j # k /\ account[j].closed
      BY <1>3, <2>1 DEF LedgerInv, LedgerTypeOK
    <3>2. LeasesOf(j) # {} /\ l \notin LeasesOf(j)
      BY <3>1 DEF LedgerInv, ClosedIsHeld, LeasesOf, k
    <3> QED BY <3>1, <3>2, <1>7 DEF LedgerInv, LedgerTypeOK
  <2>6. OpenIsAdmitted'
    BY <1>3, <1>8, <2>1 DEF LedgerInv, OpenIsAdmitted, LastOf
  <2>7. WithinLimits'
    <3>1. globalReserved' <= GlobalLimit
      BY <2>1, LimitAssumption DEF LedgerInv, WithinLimits, LedgerTypeOK
    <3> QED BY <1>10, <2>1, <3>1 DEF WithinLimits
  <2>8. RefundStep
    BY <1>1, <2>1, <2>2 DEF RefundStep, LiveIn
  <2> QED BY <2>3, <2>4, <2>5, <2>6, <2>7, <2>8, <2>9 DEF LedgerInv
<1>9. CASE /\ ~ LastOf(k, l)
           /\ sessions' = sessions /\ tenants' = tenants /\ globalReserved' = globalReserved
  <2>1. LedgerTypeOK'
    BY <1>2, <1>3, <1>4, <1>9 DEF LedgerInv, LedgerTypeOK
  <2>2. LiveHasConsumer' /\ HeldIsCharged'
    BY <1>2, <1>5, <1>9 DEF LedgerInv, LiveHasConsumer, HeldIsCharged, LiveIn
  <2>3. ClosedIsHeld'
    <3> SUFFICES ASSUME NEW j \in sessions', account'[j].closed PROVE LeasesOf(j)' # {}
      BY DEF ClosedIsHeld
    <3>1. j \in sessions /\ account[j].closed /\ j \in DOMAIN account
      BY <1>3, <1>9 DEF LedgerInv, LedgerTypeOK
    <3>2. LeasesOf(j) # {} /\ (j # k => l \notin LeasesOf(j))
      BY <3>1 DEF LedgerInv, ClosedIsHeld, LeasesOf, k
    <3>3. j = k => ~ (LeasesOf(j) \subseteq {l})
      BY <3>1, <1>9 DEF LastOf
    <3> QED BY <3>1, <3>2, <3>3, <1>7
  <2>4. OpenIsAdmitted'
    BY <1>3, <1>9 DEF LedgerInv, OpenIsAdmitted
  <2>5. WithinLimits'
    BY <1>9, <1>10 DEF LedgerInv, WithinLimits
  <2>6. RefundStep
    BY <1>9 DEF RefundStep, LedgerInv, LedgerTypeOK
  <2>7. TotalsAgree'
    <3>1. Accounts(sessions, account) /\ Funds(sessions, account, tenants, globalReserved)
      BY DEF LedgerInv, TotalsAgree
    <3>2. Accounts(sessions, account') /\ Funds(sessions, account', tenants, globalReserved)
      BY ONLY <1>13, <3>1, FundsSame
    <3> QED BY <1>9, <1>12, <3>2 DEF TotalsAgree
  <2> QED BY <2>1, <2>2, <2>3, <2>4, <2>5, <2>6, <2>7 DEF LedgerInv
<1> QED BY <1>6, <1>8, <1>9

(* Closing keeps an account charged for exactly as long as it has leases. *)
LEMMA CloseLemma ==
  ASSUME LedgerInv, NEW k \in Key, Close(k)
  PROVE  LedgerInv' /\ RefundStep
<1>1. /\ k \in DOMAIN account /\ ~ account[k].closed /\ account[k] \in Account
      /\ k \in sessions /\ physicalBytes' = physicalBytes
  BY DEF Close, LedgerInv, LedgerTypeOK, OpenIsAdmitted
<1>2. /\ DOMAIN lease' = DOMAIN lease
      /\ lease' \in [DOMAIN lease -> Lease]
      /\ \A m \in DOMAIN lease : /\ lease'[m].key = lease[m].key
                                 /\ lease'[m].refs = lease[m].refs
                                 /\ lease'[m].bucket = lease[m].bucket
                                 /\ lease'[m].capacity = lease[m].capacity
                                 /\ lease'[m].physical = lease[m].physical
                                 /\ lease'[m].state = "RELEASED" <=> lease[m].state = "RELEASED"
  BY DEF Close, LeasesOf, LiveIn, Lease, LedgerInv, LedgerTypeOK
<1>3. /\ DOMAIN account' = DOMAIN account
      /\ account' \in [DOMAIN account -> Account]
      /\ \A j \in DOMAIN account \ {k} : account'[j] = account[j]
      /\ account'[k] = [account[k] EXCEPT !.closed = TRUE]
  BY <1>1 DEF Close, Account, LedgerInv, LedgerTypeOK
<1>4. LiveIn(lease)' = LiveIn(lease) /\ \A j \in Key : LeasesOf(j)' = LeasesOf(j)
  BY <1>2 DEF LiveIn, LeasesOf
<1>5. \A j \in DOMAIN account : /\ account'[j].reserved = account[j].reserved
                                /\ account'[j].limit = account[j].limit
                                /\ account'[j].tenant = account[j].tenant
                                /\ account'[j].capped = account[j].capped
                                /\ account'[j].byBucket = account[j].byBucket
  BY <1>1, <1>3 DEF Account
<1>8. Leases(lease') /\ Books(lease', account') /\ Stores(lease', physicalBytes')
  <2>1. Leases(lease) /\ Books(lease, account) /\ Stores(lease, physicalBytes)
    BY DEF LedgerInv, TotalsAgree
  <2>2. SameLeases(lease, lease')
    BY <1>2 DEF SameLeases
  <2>3. SameCharges(account, account')
    BY <1>3, <1>5 DEF SameCharges
  <2>4. Leases(lease') /\ Books(lease', account') /\ Stores(lease', physicalBytes)
    BY ONLY <2>1, <2>2, <2>3, BooksSame
  <2> QED BY <1>1, <2>4
<1>9. SameReserved(account, account')
  BY <1>3, <1>5 DEF SameReserved
<1>6. CASE LeasesOf(k) = {}
  <2>0. FinishClose(k)
    BY <1>6 DEF Close, EmptyAtClose
  <2>1. /\ sessions' = sessions \ {k} /\ tenants' \in [Tenant -> Int]
        /\ (\A t \in Tenant : tenants'[t] <= TenantLimit)
        /\ globalReserved' = globalReserved - account[k].limit /\ account[k].limit \in Nat
    BY <1>1, <2>0, FinishLemma
  <2>2. LedgerTypeOK'
    BY <1>1, <1>2, <1>3, <2>1 DEF LedgerInv, LedgerTypeOK
  <2>3. LiveHasConsumer' /\ HeldIsCharged'
    BY <1>2, <1>4, <1>6, <2>1 DEF LedgerInv, LiveHasConsumer, HeldIsCharged, LiveIn, LeasesOf
  <2>4. ClosedIsHeld' /\ OpenIsAdmitted'
    BY <1>1, <1>3, <1>4, <2>1 DEF LedgerInv, LedgerTypeOK, ClosedIsHeld, OpenIsAdmitted, Account
  <2>5. WithinLimits'
    <3>1. globalReserved' <= GlobalLimit
      BY <2>1, LimitAssumption DEF LedgerInv, WithinLimits, LedgerTypeOK
    <3> QED BY <1>3, <1>5, <2>1, <3>1 DEF LedgerInv, WithinLimits
  <2>6. RefundStep
    BY <1>1, <1>2, <1>4, <1>6, <2>1 DEF RefundStep, LeasesOf, LiveIn
  <2>7. TotalsAgree'
    <3>1. Accounts(sessions', account') /\ Funds(sessions', account', tenants', globalReserved')
      BY <1>1, <1>9, <2>0, FinishLemma
    <3> QED BY <1>8, <3>1 DEF TotalsAgree
  <2> QED BY <2>2, <2>3, <2>4, <2>5, <2>6, <2>7 DEF LedgerInv
<1>7. CASE LeasesOf(k) # {}
  <2>1. sessions' = sessions /\ tenants' = tenants /\ globalReserved' = globalReserved
    BY <1>7 DEF Close, EmptyAtClose
  <2>2. LedgerTypeOK'
    BY <1>1, <1>2, <1>3, <2>1 DEF LedgerInv, LedgerTypeOK
  <2>3. LiveHasConsumer' /\ HeldIsCharged'
    BY <1>2, <1>4, <2>1 DEF LedgerInv, LiveHasConsumer, HeldIsCharged, LiveIn
  <2>4. ClosedIsHeld' /\ OpenIsAdmitted'
    <3>1. ClosedIsHeld'
      BY <1>1, <1>3, <1>4, <1>7, <2>1 DEF LedgerInv, LedgerTypeOK, ClosedIsHeld
    <3>2. OpenIsAdmitted'
      BY <1>1, <1>3, <2>1 DEF LedgerInv, LedgerTypeOK, OpenIsAdmitted, Account
    <3> QED BY <3>1, <3>2
  <2>5. WithinLimits'
    BY <1>3, <1>5, <2>1 DEF LedgerInv, WithinLimits
  <2>6. RefundStep
    BY <2>1 DEF RefundStep, LedgerInv, LedgerTypeOK
  <2>7. TotalsAgree'
    <3>1. Accounts(sessions, account) /\ Funds(sessions, account, tenants, globalReserved)
      BY DEF LedgerInv, TotalsAgree
    <3>2. Accounts(sessions, account') /\ Funds(sessions, account', tenants, globalReserved)
      BY ONLY <1>9, <3>1, FundsSame
    <3> QED BY <1>8, <2>1, <3>2 DEF TotalsAgree
  <2> QED BY <2>2, <2>3, <2>4, <2>5, <2>6, <2>7 DEF LedgerInv
<1> QED BY <1>6, <1>7

-----------------------------------------------------------------------------

(* Every call preserves the invariant and refunds as it should. *)
LEMMA StepLemma == LedgerInv /\ [LedgerNext]_ledgerVars => LedgerInv' /\ [RefundStep]_ledgerVars
<1> SUFFICES ASSUME LedgerInv, [LedgerNext]_ledgerVars
             PROVE  LedgerInv' /\ [RefundStep]_ledgerVars
  OBVIOUS
<1>1. CASE UNCHANGED ledgerVars
  BY <1>1 DEF ledgerVars, LedgerInv, LedgerTypeOK, LiveHasConsumer, HeldIsCharged, ClosedIsHeld,
              OpenIsAdmitted, WithinLimits, LiveIn, LeasesOf, TotalsAgree
<1>2. CASE \E k \in Key, t \in Tenant, n \in Size, capped \in BOOLEAN : Admit(k, t, n, capped)
  BY <1>2, AdmitLemma
<1>3. CASE \E k \in Key, l \in LeaseId, b \in Bucket, n \in Size, physical \in BOOLEAN :
             Acquire(k, l, b, n, physical)
  BY <1>3, AcquireLemma
<1>4. CASE \E l \in LeaseId : Retain(l) \/ ReleaseOne(l)
  BY <1>4, ConsumersLemma
<1>5. CASE \E l \in LeaseId : ReleaseLast(l)
  BY <1>5, ReleaseLemma
<1>6. CASE \E k \in Key : Close(k)
  BY <1>6, CloseLemma
<1> QED BY <1>1, <1>2, <1>3, <1>4, <1>5, <1>6 DEF LedgerNext

(* The ledger keeps the invariant whatever calls are made, in any order. *)
THEOREM LedgerInvariant == LedgerSpec => []LedgerInv
<1>1. LedgerInit => LedgerInv
  BY InitLemma
<1>2. LedgerInv /\ [LedgerNext]_ledgerVars => LedgerInv'
  BY StepLemma
<1> QED BY <1>1, <1>2, PTL DEF LedgerSpec

(* The types of the ledger's state, a lease's consumers never negative. *)
THEOREM LedgerTypes == LedgerSpec => []LedgerTypeOK
<1>1. LedgerInv => LedgerTypeOK
  BY DEF LedgerInv
<1> QED BY <1>1, LedgerInvariant, PTL

(* acquire and admit never charge more than the limits allow. *)
THEOREM LedgerWithinLimits == LedgerSpec => []WithinLimits
<1>1. LedgerInv => WithinLimits
  BY DEF LedgerInv
<1> QED BY <1>1, LedgerInvariant, PTL

(* Memory in use stays charged for, and nothing charged for is forgotten,  *)
(* whatever the order of release and close.                                *)
THEOREM LedgerCharges == LedgerSpec => [](HeldIsCharged /\ ClosedIsHeld)
<1>1. LedgerInv => HeldIsCharged /\ ClosedIsHeld
  BY DEF LedgerInv
<1> QED BY <1>1, LedgerInvariant, PTL

(* What the invariant says of the totals is what reconcile compares. *)
LEMMA AgreeReconciles == LedgerInv => Reconciles
<1> SUFFICES ASSUME LedgerInv PROVE Reconciles
  OBVIOUS
<1>1. PICK v, w : v = Capacities(lease) /\ w = Reservations(account)
  OBVIOUS
<1>2. /\ \A l \in DOMAIN lease : lease[l].capacity = v[l] /\ v[l] \in Int
      /\ IsFiniteSet(DOMAIN lease) /\ IsFiniteSet(DOMAIN account) /\ sessions \subseteq DOMAIN account
      /\ \A k \in DOMAIN account : account[k].limit = w[k] /\ w[k] \in Int
  BY <1>1 DEF LedgerInv, TotalsAgree, Leases, Accounts, Capacities, Reservations
<1>3. \A S \in SUBSET DOMAIN lease : Bytes(S) = Total(v, S)
  <2> SUFFICES ASSUME NEW S \in SUBSET DOMAIN lease PROVE Bytes(S) = Total(v, S)
    OBVIOUS
  <2>1. IsFiniteSet(S) /\ \A x \in S : lease[x].capacity = v[x] /\ v[x] \in Int
    BY <1>2, FS_Subset
  <2> QED BY ONLY <2>1, BytesTotal
<1>4. \A S \in SUBSET DOMAIN account : Limits(S) = Total(w, S)
  <2> SUFFICES ASSUME NEW S \in SUBSET DOMAIN account PROVE Limits(S) = Total(w, S)
    OBVIOUS
  <2>1. IsFiniteSet(S) /\ \A x \in S : account[x].limit = w[x] /\ w[x] \in Int
    BY <1>2, FS_Subset
  <2> QED BY ONLY <2>1, LimitsTotal
<1>5. ASSUME NEW k \in sessions
      PROVE  /\ Bytes(LeasesOf(k)) = account[k].reserved
             /\ \A b \in Bucket : Bytes({l \in LeasesOf(k) : lease[l].bucket = b}) = account[k].byBucket[b]
  <2>1. k \in DOMAIN account
    BY <1>2
  <2>2. Of(lease, k) = LeasesOf(k) /\ LeasesOf(k) \in SUBSET DOMAIN lease
    BY DEF Of, LeasesOf, LiveIn
  <2>3. Total(v, LeasesOf(k)) = account[k].reserved
    BY <1>1, <2>1, <2>2 DEF LedgerInv, TotalsAgree, Books
  <2>4. ASSUME NEW b \in Bucket
        PROVE  Bytes({l \in LeasesOf(k) : lease[l].bucket = b}) = account[k].byBucket[b]
    <3>1. PICK S : S = {l \in LeasesOf(k) : lease[l].bucket = b} /\ S \in SUBSET DOMAIN lease
      BY <2>2
    <3>2. S = In(lease, k, b)
      BY <2>2, <3>1 DEF In
    <3>3. Total(v, S) = account[k].byBucket[b]
      BY <1>1, <2>1, <3>2 DEF LedgerInv, TotalsAgree, Books
    <3> QED BY <1>3, <3>1, <3>3
  <2> QED BY <1>3, <2>2, <2>3, <2>4
<1>6. Limits(sessions) = globalReserved
  <2>1. Total(w, sessions) = globalReserved
    BY <1>1 DEF LedgerInv, TotalsAgree, Funds
  <2> QED BY <1>2, <1>4, <2>1
<1>7. ASSUME NEW t \in Tenant PROVE Limits({k \in sessions : account[k].tenant = t}) = tenants[t]
  <2>1. PICK S : S = {k \in sessions : account[k].tenant = t} /\ S \in SUBSET DOMAIN account
    BY <1>2
  <2>2. S = By(sessions, account, t)
    BY <2>1 DEF By
  <2>3. Total(w, S) = tenants[t]
    BY <1>1, <2>2 DEF LedgerInv, TotalsAgree, Funds
  <2> QED BY <1>4, <2>1, <2>3
<1>8. physicalBytes = Bytes({l \in LiveIn(lease) : lease[l].physical})
  <2>1. PICK S : S = {l \in LiveIn(lease) : lease[l].physical} /\ S \in SUBSET DOMAIN lease
    BY DEF LiveIn
  <2>2. S = Distinct(lease)
    BY <2>1 DEF Distinct
  <2>3. Total(v, S) = physicalBytes
    BY <1>1, <2>2 DEF LedgerInv, TotalsAgree, Stores
  <2> QED BY <1>3, <2>1, <2>3
<1>9. globalReserved <= GlobalLimit /\ ClosedIsHeld
      /\ \A k \in sessions : account[k].reserved <= account[k].limit
  BY <1>2 DEF LedgerInv, WithinLimits
<1> QED BY <1>5, <1>6, <1>7, <1>8, <1>9 DEF Reconciles, Reconcile

(* Every total is, at any time, the sum over the leases and accounts it    *)
(* stands for: reconcile never finds a difference (reconcile).             *)
THEOREM AlwaysReconciles == LedgerSpec => []Reconciles
BY AgreeReconciles, LedgerInvariant, PTL

(* A reservation goes back once, as a whole, when nothing of it is in use. *)
THEOREM LedgerRefunds == LedgerSpec => RefundedOnce
<1>1. LedgerInv /\ [LedgerNext]_ledgerVars => [RefundStep]_ledgerVars
  BY StepLemma
<1> QED BY <1>1, LedgerInvariant, PTL DEF LedgerSpec, RefundedOnce

-----------------------------------------------------------------------------
(* Credit: the abstract protocol of Output.                                *)

Amount == [bytes : Nat, messages : Nat]
AnyGrant == [credit : Nat, messages : Nat]

CreditTypeOK ==
  /\ sent \in Amount /\ consumed \in Amount /\ last \in Amount
  /\ known \in AnyGrant /\ grants \subseteq AnyGrant
  /\ lost \in BOOLEAN

\* What is sent is within what the server knows.
Within ==
  /\ sent.bytes <= known.credit
  /\ sent.messages - known.messages <= MaxOutstanding

\* The client consumes what was sent, and renews whenever that is due.
Follows ==
  /\ consumed.messages <= sent.messages /\ consumed.bytes <= sent.bytes
  /\ consumed.messages = sent.messages <=> consumed.bytes = sent.bytes
  /\ last.messages <= consumed.messages /\ last.bytes <= consumed.bytes
  /\ ~ Due(consumed.bytes, consumed.messages)

NotNewer(g) == g.credit <= last.bytes + Window /\ g.messages <= last.messages
Older(g, h) == g.messages < h.messages /\ g.credit <= h.credit

\* Nothing the server knows or will know is newer than the client's last grant;
\* the grants come in order.
Ordered ==
  /\ NotNewer(known)
  /\ \A g \in grants : NotNewer(g) /\ Older(known, g)
  /\ \A g, h \in grants : g = h \/ Older(g, h) \/ Older(h, g)

\* The last grant is not forgotten.
Answerable ==
  /\ lost => grants = {}
  /\ ~ lost => Grant(last.bytes, last.messages) \in grants \cup {known}

CreditInv == CreditTypeOK /\ Within /\ Follows /\ Ordered /\ Answerable

-----------------------------------------------------------------------------
(* The steps.                                                              *)

\* The server flushes with what it knows after the step, which is no less than
\* what it knew.
LEMMA FlushLemma ==
  ASSUME CreditTypeOK, Within, Flush, known' \in AnyGrant,
         known'.credit >= known.credit, known'.messages >= known.messages
  PROVE  /\ sent' \in Amount /\ Within'
         /\ \/ sent' = sent
            \/ sent'.messages > sent.messages /\ sent'.bytes > sent.bytes
<1>1. PICK k \in 0..MaxOutstanding : \E b \in k..(k * ChunkBytes) :
        /\ sent' = [bytes |-> sent.bytes + b, messages |-> sent.messages + k]
        /\ k > 0 => /\ sent'.bytes <= known'.credit
                    /\ sent'.messages - known'.messages <= MaxOutstanding
  BY DEF Flush
<1>2. PICK b \in k..(k * ChunkBytes) :
        /\ sent' = [bytes |-> sent.bytes + b, messages |-> sent.messages + k]
        /\ k > 0 => /\ sent'.bytes <= known'.credit
                    /\ sent'.messages - known'.messages <= MaxOutstanding
  BY <1>1
<1>3. k \in Nat /\ b \in Int /\ b >= k
  BY CreditAssumption
<1>4. k = 0 => b = 0
  BY CreditAssumption
<1>5. sent.bytes \in Nat /\ sent.messages \in Nat /\ sent = [bytes |-> sent.bytes, messages |-> sent.messages]
  BY DEF CreditTypeOK, Amount
<1>6. sent'.bytes = sent.bytes + b /\ sent'.messages = sent.messages + k /\ sent' \in Amount
  BY <1>2, <1>3, <1>5 DEF Amount
<1>7. known.credit \in Nat /\ known.messages \in Nat /\ known'.credit \in Nat /\ known'.messages \in Nat
  BY DEF CreditTypeOK, AnyGrant
<1>8. CASE k = 0
  <2>1. sent' = sent
    BY <1>2, <1>4, <1>5, <1>8
  <2>2. Within'
    BY <2>1, <1>5, <1>7, CreditAssumption DEF Within
  <2> QED BY <1>6, <2>1, <2>2
<1>9. CASE k > 0
  <2>1. Within'
    BY <1>2, <1>9 DEF Within
  <2>2. sent'.messages > sent.messages /\ sent'.bytes > sent.bytes
    BY <1>3, <1>5, <1>6, <1>9
  <2> QED BY <1>6, <2>1, <2>2
<1> QED BY <1>3, <1>8, <1>9

\* What the client has consumed keeps up with what is sent, if only that grows.
LEMMA FollowsLemma ==
  ASSUME CreditTypeOK, Follows, UNCHANGED <<consumed, last>>, sent' \in Amount,
         \/ sent' = sent
         \/ sent'.messages > sent.messages /\ sent'.bytes > sent.bytes
  PROVE  Follows'
<1>1. consumed' = consumed /\ last' = last
  OBVIOUS
<1>2. sent.bytes \in Nat /\ sent.messages \in Nat /\ sent'.bytes \in Nat /\ sent'.messages \in Nat
      /\ consumed.bytes \in Nat /\ consumed.messages \in Nat
  BY DEF CreditTypeOK, Amount
<1>3. CASE sent' = sent
  BY <1>1, <1>3 DEF Follows, Due
<1>4. CASE sent'.messages > sent.messages /\ sent'.bytes > sent.bytes
  BY <1>1, <1>2, <1>4 DEF Follows, Due
<1> QED BY <1>3, <1>4

\* The server only flushes.
LEMMA IdleLemma ==
  ASSUME CreditInv, UNCHANGED <<known, grants, consumed, last, lost>>, Flush
  PROVE  CreditInv'
<1>1. /\ known' = known /\ grants' = grants /\ consumed' = consumed
      /\ last' = last /\ lost' = lost
  OBVIOUS
<1>2. known' \in AnyGrant /\ known'.credit >= known.credit /\ known'.messages >= known.messages
  BY <1>1 DEF CreditInv, CreditTypeOK, AnyGrant
<1>3. /\ sent' \in Amount /\ Within'
      /\ sent' = sent \/ (sent'.messages > sent.messages /\ sent'.bytes > sent.bytes)
  BY <1>2, FlushLemma DEF CreditInv
<1>4. Follows'
  BY <1>1, <1>3, FollowsLemma DEF CreditInv
<1>5. CreditTypeOK'
  BY <1>1, <1>3 DEF CreditInv, CreditTypeOK
<1>6. Ordered' /\ Answerable'
  BY <1>1 DEF CreditInv, Ordered, Answerable, NotNewer, Older, Grant
<1> QED BY <1>3, <1>4, <1>5, <1>6 DEF CreditInv

\* A grant that is made is newer than every other, and what is due is done.
LEMMA ConsumeLemma ==
  ASSUME CreditInv, NEW n \in 1..ChunkBytes, Consume(n), Flush
  PROVE  CreditInv'
<1> DEFINE bytes == consumed.bytes + n
           messages == consumed.messages + 1
<1>1. /\ messages <= sent.messages /\ bytes <= sent.bytes
      /\ messages = sent.messages <=> bytes = sent.bytes
      /\ consumed' = [bytes |-> bytes, messages |-> messages]
      /\ known' = known
  BY DEF Consume
<1>2. /\ sent.bytes \in Nat /\ sent.messages \in Nat /\ consumed.bytes \in Nat
      /\ consumed.messages \in Nat /\ last.bytes \in Nat /\ last.messages \in Nat
      /\ known.credit \in Nat /\ known.messages \in Nat /\ Window \in Nat /\ n \in Nat
  BY CreditAssumption DEF CreditInv, CreditTypeOK, Amount, AnyGrant
<1>3. bytes \in Nat /\ messages \in Nat /\ last.bytes <= bytes /\ last.messages < messages
  BY <1>2 DEF CreditInv, Follows
<1> HIDE DEF bytes, messages
<1>4. consumed' \in Amount /\ consumed'.bytes = bytes /\ consumed'.messages = messages
  BY <1>1, <1>3 DEF Amount
<1>5. known' \in AnyGrant /\ known'.credit >= known.credit /\ known'.messages >= known.messages
  BY <1>1, <1>2 DEF CreditInv, CreditTypeOK
<1>6. /\ sent' \in Amount /\ Within'
      /\ sent' = sent \/ (sent'.messages > sent.messages /\ sent'.bytes > sent.bytes)
  BY <1>5, FlushLemma DEF CreditInv
<1>7. /\ consumed'.messages <= sent'.messages /\ consumed'.bytes <= sent'.bytes
      /\ consumed'.messages = sent'.messages <=> consumed'.bytes = sent'.bytes
  <2>1. sent'.bytes \in Nat /\ sent'.messages \in Nat
    BY <1>6 DEF Amount
  <2> QED BY <1>1, <1>2, <1>3, <1>4, <1>6, <2>1
<1>8. CASE Due(bytes, messages)
  <2>0. PICK new : new = Grant(bytes, messages)
    OBVIOUS
  <2>1. /\ last' = [bytes |-> bytes, messages |-> messages]
        /\ grants' = grants \cup {new} /\ lost' = FALSE
    BY <1>8, <2>0 DEF Consume, bytes, messages
  <2>2. last' \in Amount /\ last'.bytes = bytes /\ last'.messages = messages
    BY <2>1, <1>3 DEF Amount
  <2>3. new \in AnyGrant /\ new.credit = bytes + Window /\ new.messages = messages
    BY <1>2, <1>3, <2>0 DEF Grant, AnyGrant
  <2>4. CreditTypeOK'
    BY <1>4, <1>5, <1>6, <2>1, <2>2, <2>3 DEF CreditInv, CreditTypeOK
  <2> QED
    <3>1. Follows'
      <4>1. ~ Due(consumed.bytes, consumed.messages)'
        BY <2>2, <1>3, <1>4, CreditAssumption DEF Due
      <4> QED BY <4>1, <1>3, <1>4, <1>7, <2>2 DEF Follows
    <3>2. ASSUME NEW g \in AnyGrant, NotNewer(g)
          PROVE  NotNewer(g)' /\ Older(g, new)
      BY <3>2, <1>2, <1>3, <2>2, <2>3 DEF NotNewer, Older, AnyGrant
    <3>3. NotNewer(new)'
      BY <1>2, <1>3, <2>2, <2>3 DEF NotNewer
    <3>4. known \in AnyGrant /\ grants \subseteq AnyGrant /\ NotNewer(known)
          /\ \A g \in grants : NotNewer(g)
      BY DEF CreditInv, CreditTypeOK, Ordered
    <3>5. \A g \in grants' : NotNewer(g)' /\ Older(known', g)
      <4>1. NotNewer(new)' /\ Older(known', new)
        BY <1>1, <3>2, <3>3, <3>4
      <4>2. ASSUME NEW g \in grants PROVE NotNewer(g)' /\ Older(known', g)
        BY <1>1, <3>2, <3>4 DEF CreditInv, Ordered
      <4> QED BY <2>1, <4>1, <4>2
    <3>6. \A g, h \in grants' : g = h \/ Older(g, h) \/ Older(h, g)
      BY <2>1, <3>2, <3>4 DEF CreditInv, Ordered
    <3>7. NotNewer(known)'
      BY <1>1, <1>2, <1>3, <2>2, <3>4 DEF NotNewer
    <3>8. Ordered'
      <4>1. \A g, h \in grants' : g = h \/ Older(g, h)' \/ Older(h, g)'
        BY <3>6 DEF Older
      <4>2. \A g \in grants' : NotNewer(g)' /\ Older(known, g)'
        BY <3>5 DEF Older, NotNewer
      <4> QED BY <3>7, <4>1, <4>2 DEF Ordered, NotNewer, Older
    <3>9. Answerable'
      <4>1. Grant(last.bytes, last.messages)' = new
        BY <2>0, <2>2 DEF Grant
      <4> QED BY <2>1, <4>1 DEF Answerable, Grant
    <3> QED BY <1>6, <2>4, <3>1, <3>8, <3>9 DEF CreditInv
<1>9. CASE ~ Due(bytes, messages)
  <2>1. last' = last /\ grants' = grants /\ lost' = lost
    BY <1>9 DEF Consume, bytes, messages
  <2>2. CreditTypeOK'
    BY <1>4, <1>5, <1>6, <2>1 DEF CreditInv, CreditTypeOK
  <2>3. Follows'
    BY <1>2, <1>3, <1>4, <1>7, <1>9, <2>1 DEF Follows, Due
  <2>4. Ordered' /\ Answerable'
    BY <1>1, <2>1 DEF CreditInv, Ordered, Answerable, NotNewer, Older, Grant
  <2> QED BY <1>6, <2>2, <2>3, <2>4 DEF CreditInv
<1> QED BY <1>8, <1>9

\* The oldest grant is taken: the rest are newer, and the last one among them
\* unless it was this one.
LEMMA TakeLemma ==
  ASSUME CreditInv, NEW g \in grants, Take(g), Flush
  PROVE  CreditInv'
<1>1. /\ known' = g /\ grants' = grants \ {g} /\ consumed' = consumed
      /\ last' = last /\ lost' = lost
  BY DEF Take
<1>2. g \in AnyGrant /\ NotNewer(g) /\ Older(known, g) /\ known \in AnyGrant
  BY DEF CreditInv, CreditTypeOK, Ordered
<1>3. known' \in AnyGrant /\ known'.credit >= known.credit /\ known'.messages >= known.messages
  BY <1>1, <1>2 DEF Older, AnyGrant
<1>4. /\ sent' \in Amount /\ Within'
      /\ sent' = sent \/ (sent'.messages > sent.messages /\ sent'.bytes > sent.bytes)
  BY <1>3, FlushLemma DEF CreditInv
<1>5. Follows'
  BY <1>1, <1>4, FollowsLemma DEF CreditInv
<1>6. CreditTypeOK'
  BY <1>1, <1>3, <1>4 DEF CreditInv, CreditTypeOK
<1>7. ASSUME NEW h \in grants, h # g PROVE Older(g, h)
  <2>1. g.messages <= h.messages /\ g.messages \in Nat /\ h.messages \in Nat
    BY <1>7 DEF Take, First, CreditInv, CreditTypeOK, AnyGrant
  <2>2. Older(g, h) \/ Older(h, g)
    BY <1>7 DEF CreditInv, Ordered
  <2> QED BY <2>1, <2>2 DEF Older
<1>8. Ordered'
  <2>1. NotNewer(known)' /\ \A h \in grants' : NotNewer(h)'
    BY <1>1, <1>2 DEF CreditInv, Ordered, NotNewer
  <2>2. \A h \in grants' : Older(known', h)
    BY <1>1, <1>7
  <2>3. \A h, i \in grants' : h = i \/ Older(h, i) \/ Older(i, h)
    BY <1>1 DEF CreditInv, Ordered
  <2> QED BY <2>1, <2>2, <2>3 DEF Ordered, NotNewer, Older
<1>9. Answerable'
  <2>1. ~ lost
    BY DEF CreditInv, Answerable
  <2>2. Grant(last.bytes, last.messages) \in grants
    <3>1. Grant(last.bytes, last.messages).messages = last.messages
      BY DEF Grant
    <3>2. known.messages < g.messages /\ g.messages <= last.messages
      BY <1>2 DEF Older, NotNewer
    <3>3. Grant(last.bytes, last.messages) # known
      BY <3>1, <3>2, <1>2 DEF AnyGrant, CreditInv, CreditTypeOK, Amount
    <3> QED BY <2>1, <3>3 DEF CreditInv, Answerable
  <2> QED BY <1>1, <2>1, <2>2 DEF Answerable, Grant
<1> QED BY <1>4, <1>5, <1>6, <1>8, <1>9 DEF CreditInv

\* The oldest grant is refused: the last one is still on its way, or it is lost.
LEMMA RefuseLemma ==
  ASSUME CreditInv, NEW g \in grants, Refuse(g), Flush
  PROVE  CreditInv'
<1>1. /\ known' = known /\ grants' = grants \ {g} /\ consumed' = consumed
      /\ last' = last /\ lost' = (grants = {g})
  BY DEF Refuse
<1>2. g \in AnyGrant /\ NotNewer(g) /\ Older(known, g) /\ known \in AnyGrant
  BY DEF CreditInv, CreditTypeOK, Ordered
<1>3. known' \in AnyGrant /\ known'.credit >= known.credit /\ known'.messages >= known.messages
  BY <1>1, <1>2 DEF AnyGrant
<1>4. /\ sent' \in Amount /\ Within'
      /\ sent' = sent \/ (sent'.messages > sent.messages /\ sent'.bytes > sent.bytes)
  BY <1>3, FlushLemma DEF CreditInv
<1>5. Follows'
  BY <1>1, <1>4, FollowsLemma DEF CreditInv
<1>6. CreditTypeOK'
  BY <1>1, <1>4 DEF CreditInv, CreditTypeOK
<1>7. Ordered'
  <2>1. NotNewer(known)' /\ \A h \in grants' : NotNewer(h)' /\ Older(known', h)
    BY <1>1 DEF CreditInv, Ordered, NotNewer
  <2>2. \A h, i \in grants' : h = i \/ Older(h, i) \/ Older(i, h)
    BY <1>1 DEF CreditInv, Ordered
  <2> QED BY <2>1, <2>2 DEF Ordered, NotNewer, Older
<1>8. Answerable'
  <2> DEFINE newest == Grant(last.bytes, last.messages)
  <2>1. newest.messages = last.messages /\ last.messages \in Nat
    BY DEF Grant, CreditInv, CreditTypeOK, Amount
  <2>2. newest \in grants
    <3>1. known.messages < g.messages /\ g.messages <= last.messages
      BY <1>2 DEF Older, NotNewer
    <3>2. newest # known
      BY <2>1, <3>1, <1>2 DEF AnyGrant
    <3> QED BY <3>2 DEF CreditInv, Answerable
  <2>3. newest' = newest
    BY <1>1 DEF Grant
  <2> HIDE DEF newest
  <2>4. CASE newest = g
    <3>1. ASSUME NEW h \in grants PROVE h = g
      <4>1. g.messages <= h.messages /\ h.messages <= last.messages
            /\ g.messages \in Nat /\ h.messages \in Nat
        BY DEF Refuse, First, CreditInv, Ordered, NotNewer, CreditTypeOK, AnyGrant
      <4>2. h.messages = g.messages
        BY <2>1, <2>4, <4>1
      <4>3. h = g \/ Older(h, g) \/ Older(g, h)
        BY DEF CreditInv, Ordered
      <4> QED BY <4>1, <4>2, <4>3 DEF Older
    <3>2. grants = {g}
      BY <3>1
    <3> QED BY <1>1, <3>2 DEF Answerable
  <2>5. CASE newest # g
    <3>1. newest \in grants' /\ lost' = FALSE
      BY <1>1, <2>2, <2>5
    <3> QED BY <3>1, <2>3 DEF Answerable, newest
  <2> QED BY <2>4, <2>5
<1> QED BY <1>4, <1>5, <1>6, <1>7, <1>8 DEF CreditInv

-----------------------------------------------------------------------------
(* The theorems.                                                           *)

(* The invariant holds at the start. *)
LEMMA CreditStart == CreditInit => CreditInv
<1> SUFFICES ASSUME CreditInit PROVE CreditInv
  OBVIOUS
<1>1. /\ sent = [bytes |-> 0, messages |-> 0] /\ consumed = [bytes |-> 0, messages |-> 0]
      /\ last = [bytes |-> 0, messages |-> 0] /\ grants = {} /\ lost = FALSE
      /\ known = [credit |-> 0 + Window, messages |-> 0]
  BY DEF CreditInit, Grant
<1>2. CreditTypeOK
  <2>1. known \in AnyGrant
    BY <1>1, CreditAssumption DEF AnyGrant
  <2> QED BY <1>1, <2>1 DEF CreditTypeOK, Amount
<1>3. Within /\ Follows
  BY <1>1, CreditAssumption DEF Within, Follows, Due
<1>4. Ordered /\ Answerable
  BY <1>1, CreditAssumption DEF Ordered, Answerable, NotNewer, Grant
<1> QED BY <1>2, <1>3, <1>4 DEF CreditInv

(* Every step keeps it. *)
LEMMA CreditStep == CreditInv /\ [CreditNext]_creditVars => CreditInv'
<1> SUFFICES ASSUME CreditInv, [CreditNext]_creditVars PROVE CreditInv'
  OBVIOUS
<1>1. CASE CreditNext
  <2>1. Flush
    BY <1>1 DEF CreditNext
  <2>2. CASE UNCHANGED <<known, grants, consumed, last, lost>>
    BY <2>1, <2>2, IdleLemma
  <2>3. CASE \E n \in 1..ChunkBytes : Consume(n)
    BY <2>1, <2>3, ConsumeLemma
  <2>4. CASE \E g \in grants : Take(g) \/ Refuse(g)
    BY <2>1, <2>4, TakeLemma, RefuseLemma
  <2> QED BY <1>1, <2>2, <2>3, <2>4 DEF CreditNext
<1>2. CASE UNCHANGED creditVars
  BY <1>2 DEF creditVars, CreditInv, CreditTypeOK, Within, Follows, Due, Ordered, Answerable,
              NotNewer, Older, Grant
<1> QED BY <1>1, <1>2

\* What the credits rest on: see above (_flush, _credit, the renewal rule).
THEOREM CreditInvariance == CreditSpec => []CreditInv
BY CreditStart, CreditStep, PTL DEF CreditSpec

\* The server never sends more than a window beyond what the client has consumed
\* (_canSend, credit).
THEOREM Bounded == CreditSpec => []NeverOverrun
<1>1. CreditInv => NeverOverrun
  <2> SUFFICES ASSUME CreditInv PROVE NeverOverrun
    OBVIOUS
  <2>1. /\ sent.bytes \in Nat /\ known.credit \in Nat /\ last.bytes \in Nat
        /\ consumed.bytes \in Nat /\ Window \in Nat
    BY CreditAssumption DEF CreditInv, CreditTypeOK, Amount, AnyGrant
  <2>2. sent.bytes <= known.credit /\ known.credit <= last.bytes + Window /\ last.bytes <= consumed.bytes
    BY DEF CreditInv, Within, Ordered, NotNewer, Follows
  <2> QED BY <2>1, <2>2 DEF NeverOverrun
<1> QED BY <1>1, CreditInvariance, PTL

\* With limits by which the client renews in time, server and client never both
\* wait, unless the last grant was refused (_canSend, the renewal rule of the
\* client). gateway/config.js admits other limits, and nothing is said of them.
THEOREM Unstalled == RenewsInTime => (CreditSpec => []NeverStalls)
<1> SUFFICES ASSUME RenewsInTime PROVE CreditSpec => []NeverStalls
  OBVIOUS
<1>1. CreditInv => NeverStalls
  <2> SUFFICES ASSUME CreditInv, sent = consumed, grants = {}, ~ lost PROVE CanSend(ChunkBytes)
    BY DEF NeverStalls
  <2>1. /\ consumed.bytes \in Nat /\ consumed.messages \in Nat
        /\ last.bytes \in Nat /\ last.messages \in Nat
    BY DEF CreditInv, CreditTypeOK, Amount
  <2>2. known.credit = last.bytes + Window /\ known.messages = last.messages
    BY DEF CreditInv, Answerable, Grant
  <2>3. /\ 4 * (consumed.bytes - last.bytes) < Window
        /\ consumed.messages - last.messages < RenewMessages
    BY <2>1, CreditAssumption DEF CreditInv, Follows, Due
  <2> QED BY <2>1, <2>2, <2>3, CreditAssumption DEF CanSend, RenewsInTime
<1> QED BY <1>1, CreditInvariance, PTL

-----------------------------------------------------------------------------
(* VtParser: what the terminal acts upon.                                  *)

(* The ESC of a sequence that has only begun is byte e of q.               *)
EscAt(q, e) == e \in 1..Len(q) /\ q[e] = "ESC" /\ \A k \in (e + 1)..Len(q) : q[k] = "inter"

(* Byte i of q is the introducer c of a sequence. *)
Intro(q, i, c) ==
  /\ i \in 1..Len(q) /\ q[i] = c
  /\ \E e \in 1..(i - 1) : q[e] = "ESC" /\ \A k \in (e + 1)..(i - 1) : q[k] = "inter"

(* A control sequence has begun at byte i of q, with p parameter bytes. *)
CsiAt(q, i, p) ==
  /\ i \in 1..Len(q) /\ (q[i] = "CSI" \/ Intro(q, i, "["))
  /\ \A k \in (i + 1)..Len(q) : q[k] \in {"param", "inter", "BEL", "C0"}
  /\ Cardinality({k \in (i + 1)..Len(q) : q[k] = "param"}) = p

(* A title has begun at byte i of q; l bytes in, kept of them are kept, *)
(* all unless it is cut.                                                *)
OscAt(q, i, l, cut, kept) ==
  /\ i \in 1..l /\ Intro(q, i, "]")
  /\ \A k \in (i + 1)..l : q[k] \notin {"BEL", "ST", "ESC", "CAN"}
  /\ cut = FALSE => kept = l - i

(* The last byte of q. *)
Ends(q, c) == q # << >> /\ q[Len(q)] = c

(* The last byte of q ends a control sequence with few enough parameters. *)
WholeSequence(q) == \E i : \E p \in 0..MaxParams : \E b \in Finals : \E r \in Seq(Byte) :
  q = Append(r, b) /\ CsiAt(r, i, p)

(* The last byte of q ends a title. *)
WholeTitle(q) == \E i : \E b \in {"BEL", "ST", "\\"} : \E r \in Seq(Byte) : \E kept \in 0..MaxOsc :
  /\ q = Append(r, b)
  /\ IF b = "\\" THEN Ends(r, "ESC") /\ OscAt(r, i, Len(r) - 1, FALSE, kept)
                 ELSE OscAt(r, i, Len(r), FALSE, kept)

(* What has been read since the parser was in GROUND, in every state of *)
(* it.                                                                  *)
ParserInv ==
  /\ since \in Seq(Byte) /\ vt \in States /\ done \in {"nothing", "control", "print", "sequence", "title"}
  /\ params \in 0..MaxParams /\ osc \in 0..MaxOsc /\ oscOverflow \in BOOLEAN
  /\ vt = "ESC" => \E e : EscAt(since, e)
  /\ vt = "CSI" => \E i : CsiAt(since, i, params)
  /\ vt = "OSC" => \E i : OscAt(since, i, Len(since), oscOverflow, osc)
  /\ vt = "OSC_ESC" => Ends(since, "ESC") /\ \E i : OscAt(since, i, Len(since) - 1, oscOverflow, osc)
  /\ vt = "DCS_ESC" => Ends(since, "ESC")
  /\ done = "sequence" => WholeSequence(since)
  /\ done = "title" => WholeTitle(since)

(* One byte more. *)
LEMMA Grown ==
  ASSUME NEW q \in Seq(Byte), NEW b \in Byte, NEW r, r = Append(q, b)
  PROVE  /\ r \in Seq(Byte) /\ Len(q) \in Nat /\ Len(r) = Len(q) + 1 /\ r[Len(r)] = b /\ r # << >>
         /\ \A i \in 1..Len(q) : r[i] = q[i] /\ i \in 1..Len(r)
OBVIOUS

(* A byte more leaves an introducer where it is. *)
LEMMA IntroGrows ==
  ASSUME NEW q \in Seq(Byte), NEW b \in Byte, NEW r, r = Append(q, b), NEW i, NEW c, Intro(q, i, c)
  PROVE  Intro(r, i, c)
<1>1. i \in 1..Len(q) /\ i \in 1..Len(r) /\ r[i] = c
  BY Grown DEF Intro
<1>2. PICK e \in 1..(i - 1) : q[e] = "ESC" /\ \A k \in (e + 1)..(i - 1) : q[k] = "inter"
  BY DEF Intro
<1>3. PICK l : l = Len(q) /\ l \in Nat
  BY Grown
<1>4. e \in 1..l /\ \A k \in (e + 1)..(i - 1) : k \in 1..l
  BY <1>1, <1>2, <1>3
<1>5. r[e] = "ESC" /\ \A k \in (e + 1)..(i - 1) : r[k] = "inter"
  BY <1>2, <1>3, <1>4, Grown
<1> QED BY <1>1, <1>5 DEF Intro

(* A byte ESC begins one. *)
LEMMA EscNew ==
  ASSUME NEW q \in Seq(Byte), Ends(q, "ESC")
  PROVE  \E e : EscAt(q, e)
<1>1. PICK l : l = Len(q) /\ l \in Nat /\ l > 0
  BY DEF Ends
<1>2. l \in 1..l /\ (l + 1)..l = {}
  BY <1>1
<1>3. EscAt(q, l)
  BY <1>1, <1>2 DEF EscAt, Ends
<1> QED BY <1>3

(* Intermediate bytes leave it begun. *)
LEMMA EscGrows ==
  ASSUME NEW q \in Seq(Byte), NEW r, r = Append(q, "inter"), NEW e, EscAt(q, e)
  PROVE  EscAt(r, e)
<1>1. "inter" \in Byte
  BY DEF Byte
<1>2. PICK l : l = Len(q) /\ l \in Nat /\ Len(r) = l + 1 /\ r[l + 1] = "inter"
             /\ \A i \in 1..l : r[i] = q[i]
  BY <1>1, Grown
<1>3. e \in 1..l /\ e \in 1..(l + 1) /\ r[e] = "ESC"
  BY <1>2 DEF EscAt
<1>4. ASSUME NEW k \in (e + 1)..(l + 1) PROVE r[k] = "inter"
  <2>1. k = l + 1 \/ (k \in (e + 1)..l /\ k \in 1..l)
    BY <1>2, <1>3
  <2> QED BY <1>2, <2>1 DEF EscAt
<1> QED BY <1>2, <1>3, <1>4 DEF EscAt

(* Any other byte is its introducer. *)
LEMMA IntroNew ==
  ASSUME NEW q \in Seq(Byte), NEW c \in Byte, NEW r, r = Append(q, c), NEW e, EscAt(q, e)
  PROVE  Intro(r, Len(r), c)
<1>1. PICK l : l = Len(q) /\ l \in Nat /\ Len(r) = l + 1 /\ r[l + 1] = c
             /\ \A i \in 1..l : r[i] = q[i]
  BY Grown
<1>2. e \in 1..l /\ r[e] = "ESC" /\ l + 1 \in 1..(l + 1) /\ (l + 1) - 1 = l
  BY <1>1 DEF EscAt
<1>3. ASSUME NEW k \in (e + 1)..l PROVE r[k] = "inter"
  <2>1. k \in 1..l
    BY <1>1, <1>2
  <2> QED BY <1>1, <2>1 DEF EscAt
<1> QED BY <1>1, <1>2, <1>3 DEF Intro

(* A control sequence begins without a parameter. *)
LEMMA CsiNew ==
  ASSUME NEW q \in Seq(Byte), q # << >>, q[Len(q)] = "CSI" \/ Intro(q, Len(q), "[")
  PROVE  CsiAt(q, Len(q), 0)
<1>1. PICK l : l = Len(q) /\ l \in Nat /\ l > 0
  OBVIOUS
<1>2. l \in 1..l /\ (l + 1)..l = {}
  BY <1>1
<1>3. {k \in (l + 1)..l : q[k] = "param"} = {}
  BY <1>2
<1> QED BY <1>1, <1>2, <1>3, FS_EmptySet DEF CsiAt

(* Parameter bytes are counted. *)
LEMMA CsiGrows ==
  ASSUME NEW q \in Seq(Byte), NEW b \in {"param", "inter", "BEL", "C0"}, NEW r, r = Append(q, b),
         NEW i, NEW p \in Nat, CsiAt(q, i, p)
  PROVE  CsiAt(r, i, IF b = "param" THEN p + 1 ELSE p)
<1>0. b \in Byte
  BY DEF Byte
<1>1. PICK l : l = Len(q) /\ l \in Nat /\ Len(r) = l + 1 /\ r[l + 1] = b
             /\ \A k \in 1..l : r[k] = q[k]
  BY <1>0, Grown
<1>2. i \in 1..l /\ i \in 1..(l + 1) /\ r[i] = q[i]
  BY <1>1 DEF CsiAt
<1>3. r[i] = "CSI" \/ Intro(r, i, "[")
  BY <1>0, <1>2, IntroGrows DEF CsiAt
<1>4. \A k \in (i + 1)..(l + 1) : k = l + 1 \/ (k \in (i + 1)..l /\ r[k] = q[k])
  <2> SUFFICES ASSUME NEW k \in (i + 1)..(l + 1), k # l + 1 PROVE k \in (i + 1)..l /\ r[k] = q[k]
    OBVIOUS
  <2>1. k \in (i + 1)..l /\ k \in 1..l
    BY <1>1, <1>2
  <2> QED BY <1>1, <2>1
<1>5. \A k \in (i + 1)..(l + 1) : r[k] \in {"param", "inter", "BEL", "C0"}
  BY <1>1, <1>4 DEF CsiAt
<1>6. PICK A, B : A = {k \in (i + 1)..l : q[k] = "param"} /\ B = {k \in (i + 1)..(l + 1) : r[k] = "param"}
  OBVIOUS
<1>7. Cardinality(A) = p
  BY <1>1, <1>6 DEF CsiAt
<1>8. IsFiniteSet(A) /\ l + 1 \notin A
  <2>1. IsFiniteSet((i + 1)..l) /\ A \subseteq (i + 1)..l
    BY <1>1, <1>2, <1>6, FS_Interval
  <2>2. IsFiniteSet(A)
    BY <2>1, FS_Subset
  <2>3. l + 1 \notin (i + 1)..l
    BY <1>1, <1>2
  <2> QED BY <2>1, <2>2, <2>3
<1>9. (i + 1)..l \subseteq (i + 1)..(l + 1) /\ l + 1 \in (i + 1)..(l + 1)
  BY <1>1, <1>2
<1>10. B = IF b = "param" THEN A \cup {l + 1} ELSE A
  <2>1. \A k \in (i + 1)..l : r[k] = q[k]
    <3> SUFFICES ASSUME NEW k \in (i + 1)..l PROVE r[k] = q[k]
      OBVIOUS
    <3>1. k \in 1..l
      BY <1>1, <1>2
    <3> QED BY <1>1, <3>1
  <2>2. A \subseteq B
    BY <1>6, <1>9, <2>1
  <2>3. B \subseteq A \cup {l + 1}
    BY <1>4, <1>6
  <2>4. l + 1 \in B <=> b = "param"
    BY <1>1, <1>6, <1>9
  <2> QED BY <1>8, <2>2, <2>3, <2>4
<1>11. Cardinality(B) = IF b = "param" THEN p + 1 ELSE p
  BY <1>7, <1>8, <1>10, FS_AddElement
<1> QED BY <1>1, <1>2, <1>3, <1>5, <1>6, <1>11 DEF CsiAt

(* A title begins with nothing kept. *)
LEMMA OscNew ==
  ASSUME NEW q \in Seq(Byte), Intro(q, Len(q), "]"), NEW cut
  PROVE  OscAt(q, Len(q), Len(q), cut, 0)
<1>1. PICK l : l = Len(q) /\ l \in 1..l /\ l \in Nat
  BY DEF Intro
<1>2. (l + 1)..l = {} /\ l - l = 0
  BY <1>1
<1> QED BY <1>1, <1>2 DEF OscAt

(* A byte more is kept, or cut off. *)
LEMMA OscGrows ==
  ASSUME NEW q \in Seq(Byte), NEW b \in Byte, NEW r, r = Append(q, b),
         NEW i, NEW cut, NEW kept, OscAt(q, i, Len(q), cut, kept)
  PROVE  /\ OscAt(r, i, Len(r) - 1, cut, kept)
         /\ b \notin {"BEL", "ST", "ESC", "CAN"} =>
              OscAt(r, i, Len(r), cut, kept + 1) /\ OscAt(r, i, Len(r), TRUE, kept)
<1>1. PICK l : l = Len(q) /\ l \in Nat /\ Len(r) = l + 1 /\ r[l + 1] = b
             /\ \A k \in 1..l : r[k] = q[k]
  BY Grown
<1>2. i \in 1..l /\ i \in 1..(l + 1) /\ (l + 1) - 1 = l
  BY <1>1 DEF OscAt
<1>3. Intro(r, i, "]")
  BY IntroGrows DEF OscAt
<1>4. \A k \in (i + 1)..(l + 1) : k = l + 1 \/ (k \in (i + 1)..l /\ r[k] = q[k])
  <2> SUFFICES ASSUME NEW k \in (i + 1)..(l + 1), k # l + 1 PROVE k \in (i + 1)..l /\ r[k] = q[k]
    OBVIOUS
  <2>1. k \in (i + 1)..l /\ k \in 1..l
    BY <1>1, <1>2
  <2> QED BY <1>1, <2>1
<1>5. \A k \in (i + 1)..l : k \in (i + 1)..(l + 1) /\ k # l + 1
  BY <1>1, <1>2
<1>6. \A k \in (i + 1)..l : r[k] \notin {"BEL", "ST", "ESC", "CAN"}
  BY <1>1, <1>4, <1>5 DEF OscAt
<1>7. cut = FALSE => kept = l - i
  BY <1>1 DEF OscAt
<1>8. OscAt(r, i, l, cut, kept)
  BY <1>2, <1>3, <1>6, <1>7 DEF OscAt
<1>9. ASSUME b \notin {"BEL", "ST", "ESC", "CAN"}
      PROVE  \A k \in (i + 1)..(l + 1) : r[k] \notin {"BEL", "ST", "ESC", "CAN"}
  BY <1>1, <1>4, <1>6, <1>9
<1>10. cut = FALSE => kept + 1 = (l + 1) - i
  BY <1>1, <1>2, <1>7
<1> QED BY <1>1, <1>2, <1>3, <1>8, <1>9, <1>10 DEF OscAt

(* A byte outside every sequence. *)
LEMMA GroundStep ==
  ASSUME ParserInv, NEW b \in Byte, vt = "GROUND", Reads(b)
  PROVE  ParserInv'
<1>1. PICK r : r = <<b>>
  OBVIOUS
<1>2. since' = r /\ r \in Seq(Byte) /\ Len(r) = 1 /\ r[1] = b /\ r # << >> /\ Len(r) \in Nat
  BY <1>1 DEF Reads
<1>3. b = "ESC" => \E e : EscAt(r, e)
  BY <1>2, EscNew DEF Ends
<1>4. b = "CSI" => CsiAt(r, 1, 0)
  BY <1>2, CsiNew
<1>5. Ground(b)
  BY DEF Reads
<1>6. CASE b = "ESC"
  BY <1>2, <1>3, <1>5, <1>6 DEF Ground, To, Keep, ParserInv, States
<1>7. CASE b = "CSI"
  <2>1. vt' = "CSI" /\ done' = "nothing" /\ params' = 0 /\ UNCHANGED <<osc, oscOverflow>>
    BY <1>5, <1>7 DEF Ground, OpensCsi, To, Controls
  <2> QED BY <1>2, <1>4, <1>7, <2>1, ParserBounds DEF ParserInv, States
<1>8. CASE b \notin {"ESC", "CSI"}
  <2>1. vt' = "GROUND" /\ done' \in {"control", "print"} /\ Keep
    BY <1>5, <1>8 DEF Ground, To, Controls
  <2> QED BY <1>2, <2>1 DEF ParserInv, States, Keep
<1> QED BY <1>6, <1>7, <1>8

(* The byte after an ESC. *)
LEMMA Escaped ==
  ASSUME ParserInv, NEW b \in Byte, NEW r, r = Append(since, b), since' = r,
         \E e : EscAt(since, e)
  PROVE  /\ vt' = "GROUND" /\ done' \in {"nothing", "control", "print"} /\ params' = params /\ osc' \in {osc, 0}
            /\ oscOverflow' \in BOOLEAN => ParserInv'
         /\ b = "inter" /\ vt' = "ESC" /\ done' = "nothing" /\ params' = params /\ osc' \in {osc, 0}
            /\ oscOverflow' \in BOOLEAN => ParserInv'
         /\ b = "[" /\ vt' = "CSI" /\ done' = "nothing" /\ params' = 0 /\ osc' \in {osc, 0}
            /\ oscOverflow' \in BOOLEAN => ParserInv'
         /\ b = "]" /\ vt' = "OSC" /\ done' = "nothing" /\ params' = params /\ osc' = 0
            /\ oscOverflow' = FALSE => ParserInv'
         /\ vt' = "DCS" /\ done' = "nothing" /\ params' = params /\ osc' \in {osc, 0}
            /\ oscOverflow' \in BOOLEAN => ParserInv'
<1>0. since \in Seq(Byte) /\ 0 \in 0..MaxOsc /\ 0 \in 0..MaxParams /\ params \in 0..MaxParams /\ osc \in 0..MaxOsc
  BY ParserBounds DEF ParserInv
<1>1. r \in Seq(Byte) /\ r # << >>
  BY <1>0, Grown
<1>2. PICK e : EscAt(since, e)
  OBVIOUS
<1>3. b = "inter" => EscAt(r, e)
  BY <1>0, <1>2, EscGrows
<1>4. Intro(r, Len(r), b)
  BY <1>0, <1>2, IntroNew
<1>5. b = "[" => CsiAt(r, Len(r), 0)
  BY <1>1, <1>4, CsiNew
<1>6. b = "]" => OscAt(r, Len(r), Len(r), FALSE, 0)
  BY <1>1, <1>4, OscNew
<1> QED BY <1>0, <1>1, <1>3, <1>5, <1>6 DEF ParserInv, States

(* A byte after ESC. *)
LEMMA EscStep ==
  ASSUME ParserInv, NEW b \in Byte, vt = "ESC", Reads(b)
  PROVE  ParserInv'
<1>1. PICK r : r = Append(since, b)
  OBVIOUS
<1>2. since' = r /\ (\E e : EscAt(since, e)) /\ oscOverflow \in BOOLEAN /\ Esc(b)
  BY <1>1 DEF ParserInv, Reads
<1>3. \/ vt' = "GROUND" /\ done' \in {"nothing", "control"} /\ Keep
      \/ b = "inter" /\ vt' = "ESC" /\ done' = "nothing" /\ Keep
      \/ b = "[" /\ OpensCsi
      \/ b = "]" /\ OpensOsc
      \/ vt' = "DCS" /\ done' = "nothing" /\ Keep
  BY <1>2 DEF Esc, To
<1> QED BY <1>1, <1>2, <1>3, Escaped DEF Keep, OpensCsi, OpensOsc, To

(* A byte after an ESC within a string. *)
LEMMA StringEscStep ==
  ASSUME ParserInv, NEW b \in Byte, vt \in {"OSC_ESC", "DCS_ESC"}, Reads(b)
  PROVE  ParserInv'
<1>1. PICK r : r = Append(since, b)
  OBVIOUS
<1>0. since \in Seq(Byte) /\ Ends(since, "ESC") /\ osc \in 0..MaxOsc /\ 0 \in 0..MaxOsc
  BY ParserBounds DEF ParserInv
<1>2. since' = r /\ (\E e : EscAt(since, e)) /\ oscOverflow \in BOOLEAN /\ StringEsc(b)
  BY <1>0, <1>1, EscNew DEF ParserInv, Reads
<1>3. \/ b = "\\" /\ vt = "OSC_ESC" /\ ClosesOsc
      \/ vt' = "GROUND" /\ done' \in {"nothing", "control"} /\ (Keep \/ Drops)
      \/ b = "inter" /\ vt' = "ESC" /\ done' = "nothing" /\ Drops
      \/ b = "[" /\ vt' = "CSI" /\ done' = "nothing" /\ params' = 0 /\ osc' = 0 /\ oscOverflow' = FALSE
      \/ b = "]" /\ OpensOsc
      \/ vt' = "DCS" /\ done' = "nothing" /\ Drops
  BY <1>2 DEF StringEsc, To
<1>4. ASSUME b = "\\", vt = "OSC_ESC", ClosesOsc PROVE ParserInv'
  <2>1. PICK i : OscAt(since, i, Len(since) - 1, oscOverflow, osc)
    BY <1>4 DEF ParserInv
  <2>2. vt' = "GROUND" /\ osc' = 0 /\ oscOverflow' = FALSE /\ params' = params
    BY <1>4 DEF ClosesOsc, To
  <2>3. done' = IF oscOverflow THEN "nothing" ELSE "title"
    BY <1>4 DEF ClosesOsc, To, Titled
  <2>4. oscOverflow = FALSE => WholeTitle(r)
    BY <1>0, <1>1, <1>4, <2>1 DEF WholeTitle
  <2>5. done' \in {"nothing", "title"} /\ (done' = "title" => WholeTitle(since'))
    BY <1>2, <2>3, <2>4
  <2>6. since' \in Seq(Byte)
    BY <1>0, <1>1, <1>2, Grown
  <2> QED BY <1>0, <2>2, <2>5, <2>6 DEF ParserInv, States
<1> QED BY <1>1, <1>2, <1>3, <1>4, Escaped DEF Keep, Drops, OpensOsc, To

(* A byte of a control sequence. *)
LEMMA CsiStep ==
  ASSUME ParserInv, NEW b \in Byte, vt = "CSI", Reads(b)
  PROVE  ParserInv'
<1>1. PICK r : r = Append(since, b)
  OBVIOUS
<1>2. since' = r /\ since \in Seq(Byte) /\ params \in 0..MaxParams /\ params \in Nat /\ Csi(b)
  BY <1>1, ParserBounds DEF ParserInv, Reads
<1>3. PICK i : CsiAt(since, i, params)
  BY DEF ParserInv
<1>4. r \in Seq(Byte) /\ r # << >> /\ r[Len(r)] = b
  BY <1>1, <1>2, Grown
<1>5. b \in {"param", "inter", "BEL", "C0"} => CsiAt(r, i, IF b = "param" THEN params + 1 ELSE params)
  BY <1>1, <1>2, <1>3, CsiGrows
<1>6. b = "ESC" => \E e : EscAt(r, e)
  BY <1>4, EscNew DEF Ends
<1>7. b \in Finals => WholeSequence(r)
  BY <1>1, <1>2, <1>3 DEF WholeSequence
<1>8. /\ params < MaxParams => params + 1 \in 0..MaxParams
      /\ osc \in 0..MaxOsc /\ oscOverflow \in BOOLEAN
  BY <1>2, ParserBounds DEF ParserInv
<1>9. \/ b = "param" /\ params < MaxParams /\ vt' = "CSI" /\ done' = "nothing" /\ params' = params + 1
         /\ osc' = osc /\ oscOverflow' = oscOverflow
      \/ vt' = "CSI_IGNORE" /\ done' = "nothing" /\ Keep
      \/ b = "inter" /\ vt' = "CSI" /\ done' = "nothing" /\ Keep
      \/ b = "ESC" /\ vt' = "ESC" /\ done' = "nothing" /\ Keep
      \/ b \in {"BEL", "C0"} /\ vt' = "CSI" /\ done' = "control" /\ Keep
      \/ b \in Finals /\ vt' = "GROUND" /\ done' = "sequence" /\ Keep
      \/ vt' = "GROUND" /\ done' = "nothing" /\ Keep
  BY <1>2 DEF Csi, To
<1>10. ASSUME b \in {"param", "inter", "BEL", "C0"}, vt' = "CSI", done' \in {"nothing", "control"},
              params' = IF b = "param" THEN params + 1 ELSE params, params' \in 0..MaxParams,
              osc' = osc, oscOverflow' = oscOverflow
       PROVE  ParserInv'
  BY <1>2, <1>4, <1>5, <1>8, <1>10 DEF ParserInv, States
<1>11. ASSUME vt' = "CSI_IGNORE" \/ vt' = "GROUND", done' = "nothing" \/ (b \in Finals /\ done' = "sequence"), Keep
       PROVE  ParserInv'
  BY <1>2, <1>4, <1>7, <1>8, <1>11 DEF ParserInv, States, Keep
<1>12. ASSUME b = "ESC", vt' = "ESC", done' = "nothing", Keep PROVE ParserInv'
  BY <1>2, <1>4, <1>6, <1>8, <1>12 DEF ParserInv, States, Keep
<1> QED BY <1>2, <1>8, <1>9, <1>10, <1>11, <1>12 DEF Keep

(* A byte of a title. *)
LEMMA OscStep ==
  ASSUME ParserInv, NEW b \in Byte, vt = "OSC", Reads(b)
  PROVE  ParserInv'
<1>1. PICK r : r = Append(since, b)
  OBVIOUS
<1>2. /\ since' = r /\ since \in Seq(Byte) /\ params \in 0..MaxParams /\ osc \in 0..MaxOsc
      /\ oscOverflow \in BOOLEAN /\ OscState(b)
  BY <1>1 DEF ParserInv, Reads
<1>3. PICK i : OscAt(since, i, Len(since), oscOverflow, osc)
  BY DEF ParserInv
<1>4. r \in Seq(Byte) /\ r # << >> /\ r[Len(r)] = b
  BY <1>1, <1>2, Grown
<1>5. /\ OscAt(r, i, Len(r) - 1, oscOverflow, osc)
      /\ b \notin {"BEL", "ST", "ESC", "CAN"} =>
           OscAt(r, i, Len(r), oscOverflow, osc + 1) /\ OscAt(r, i, Len(r), TRUE, osc)
  BY <1>1, <1>2, <1>3, OscGrows
<1>6. /\ osc < MaxOsc => osc + 1 \in 0..MaxOsc
      /\ 0 \in 0..MaxOsc
  BY <1>2, ParserBounds
<1>7. \/ b \in {"BEL", "ST"} /\ ClosesOsc
      \/ b = "ESC" /\ vt' = "OSC_ESC" /\ done' = "nothing" /\ Keep
      \/ CancelsOsc
      \/ /\ b \notin {"BEL", "ST", "ESC", "CAN"} /\ vt' = "OSC" /\ done' = "nothing" /\ params' = params
         /\ \/ osc < MaxOsc /\ osc' = osc + 1 /\ oscOverflow' = oscOverflow
            \/ oscOverflow' = TRUE /\ osc' = osc
  BY <1>2 DEF OscState, To
<1>8. ASSUME b \in {"BEL", "ST"}, ClosesOsc PROVE ParserInv'
  <2>1. vt' = "GROUND" /\ osc' = 0 /\ oscOverflow' = FALSE /\ params' = params
    BY <1>8 DEF ClosesOsc, To
  <2>2. done' = IF oscOverflow THEN "nothing" ELSE "title"
    BY <1>8 DEF ClosesOsc, To, Titled
  <2>3. oscOverflow = FALSE => WholeTitle(r)
    BY <1>1, <1>2, <1>3, <1>8 DEF WholeTitle
  <2>4. done' \in {"nothing", "title"} /\ (done' = "title" => WholeTitle(since'))
    BY <1>2, <2>2, <2>3
  <2> QED BY <1>2, <1>4, <1>6, <2>1, <2>4 DEF ParserInv, States
<1>9. ASSUME b = "ESC", vt' = "OSC_ESC", done' = "nothing", Keep PROVE ParserInv'
  <2>1. Ends(r, "ESC")
    BY <1>4, <1>9 DEF Ends
  <2> QED BY <1>2, <1>4, <1>5, <1>9, <2>1 DEF ParserInv, States, Keep
<1>10. CancelsOsc => ParserInv'
  BY <1>2, <1>4, <1>6 DEF CancelsOsc, To, ParserInv, States
<1>11. ASSUME b \notin {"BEL", "ST", "ESC", "CAN"}, vt' = "OSC", done' = "nothing", params' = params,
              \/ osc < MaxOsc /\ osc' = osc + 1 /\ oscOverflow' = oscOverflow
              \/ oscOverflow' = TRUE /\ osc' = osc
       PROVE  ParserInv'
  BY <1>2, <1>4, <1>5, <1>6, <1>11 DEF ParserInv, States
<1> QED BY <1>7, <1>8, <1>9, <1>10, <1>11

(* A byte of what is skipped. *)
LEMMA DcsStep ==
  ASSUME ParserInv, NEW b \in Byte, vt \in {"DCS", "CSI_IGNORE"}, Reads(b)
  PROVE  ParserInv'
<1>1. PICK r : r = Append(since, b)
  OBVIOUS
<1>2. since' = r /\ r \in Seq(Byte) /\ r # << >> /\ r[Len(r)] = b
  BY <1>1, Grown DEF ParserInv, Reads
<1>3. params \in 0..MaxParams /\ osc \in 0..MaxOsc /\ oscOverflow \in BOOLEAN
  BY DEF ParserInv
<1>4. b = "ESC" => Ends(r, "ESC") /\ \E e : EscAt(r, e)
  BY <1>2, EscNew DEF Ends
<1>5. /\ done' = "nothing" /\ Keep
      /\ vt' \in {"GROUND", "DCS", "CSI_IGNORE"} \/ (b = "ESC" /\ vt' \in {"ESC", "DCS_ESC"})
  BY DEF Reads, Dcs, CsiIgnore, To
<1> QED BY <1>2, <1>3, <1>4, <1>5 DEF ParserInv, States, Keep

(* What came between two bytes. *)
LEMMA BetweenAre ==
  ASSUME since \in Seq(Byte), NEW i \in Nat, i >= 1, NEW j \in Nat, j <= Len(since), NEW X,
         \A k \in i..j : since[k] \in X
  PROVE  Between(i, j) \subseteq X
<1>1. PICK q : q = SubSeq(since, i, j)
  OBVIOUS
<1>2. \A n \in DOMAIN q : n + i - 1 \in i..j /\ q[n] = since[n + i - 1]
  BY <1>1
<1>3. \A n \in DOMAIN q : q[n] \in X
  BY <1>2
<1> QED BY <1>1, <1>3 DEF Between, ToSet

(* An introducer opens a sequence, in the words of ActsOnWholes. *)
LEMMA OpenedIs ==
  ASSUME since \in Seq(Byte), NEW i, NEW c, Intro(since, i, c)
  PROVE  Opened(i, c) /\ i \in 1..Len(since)
<1>1. i \in 1..Len(since) /\ since[i] = c
  BY DEF Intro
<1>2. PICK e \in 1..(i - 1) : since[e] = "ESC" /\ \A k \in (e + 1)..(i - 1) : since[k] = "inter"
  BY DEF Intro
<1>3. PICK l, m : l = e + 1 /\ m = i - 1
  OBVIOUS
<1>4. l \in Nat /\ l >= 1 /\ m \in Nat /\ m <= Len(since) /\ \A k \in l..m : since[k] \in {"inter"}
  BY <1>1, <1>2, <1>3
<1>5. Between(l, m) \subseteq {"inter"}
  BY <1>4, BetweenAre
<1> QED BY <1>1, <1>2, <1>3, <1>5 DEF Opened

(* A whole sequence is one, in the words of ActsOnWholes. *)
LEMMA SequenceActs ==
  ASSUME since \in Seq(Byte), WholeSequence(since)
  PROVE  \E i \in 1..Latest - 1 : (since[i] = "CSI" \/ Opened(i, "[")) /\ IsSequence(i + 1)
<1>0. PICK p \in 0..MaxParams, b \in Finals, r \in Seq(Byte) : \E i : since = Append(r, b) /\ CsiAt(r, i, p)
  BY DEF WholeSequence
<1>1. PICK i : since = Append(r, b) /\ CsiAt(r, i, p)
  BY <1>0
<1>2. b \in Byte /\ b # "param"
  BY DEF Finals, Byte
<1>3. PICK l : l = Len(r) /\ l \in Nat /\ Latest = l + 1 /\ since[l + 1] = b
             /\ \A k \in 1..l : since[k] = r[k]
  BY <1>1, <1>2, Grown DEF Latest
<1>4. i \in 1..l /\ Latest - 1 = l
  BY <1>1, <1>3 DEF CsiAt
<1>5. since[i] = "CSI" \/ Opened(i, "[")
  <2>1. since[i] = "CSI" \/ Intro(since, i, "[")
    BY <1>1, <1>2, <1>3, <1>4, IntroGrows DEF CsiAt
  <2>2. PICK c : c = "["
    OBVIOUS
  <2> QED BY <2>1, <2>2, OpenedIs
<1>6. PICK n : n = i + 1
  OBVIOUS
<1>7. \A k \in n..l : since[k] = r[k] /\ r[k] \in {"param", "inter", "BEL", "C0"}
  <2> SUFFICES ASSUME NEW k \in n..l PROVE since[k] = r[k] /\ r[k] \in {"param", "inter", "BEL", "C0"}
    OBVIOUS
  <2>1. k \in 1..l /\ k \in (i + 1)..l
    BY <1>3, <1>4, <1>6
  <2> QED BY <1>1, <1>3, <2>1 DEF CsiAt
<1>8. PICK X : X = {"param", "inter", "BEL", "C0"}
  OBVIOUS
<1>9. Between(n, l) \subseteq X
  <2>1. n \in Nat /\ n >= 1 /\ l <= Len(since) /\ \A k \in n..l : since[k] \in X
    BY <1>3, <1>4, <1>6, <1>7, <1>8 DEF Latest
  <2> QED BY <1>3, <2>1, BetweenAre
<1>10. PICK A, B : A = {k \in n..l : r[k] = "param"} /\ B = {k \in n..(l + 1) : since[k] = "param"}
  OBVIOUS
<1>11. A = B
  <2>1. \A k \in n..(l + 1) : k = l + 1 \/ k \in n..l
    BY <1>3, <1>4, <1>6
  <2>2. n..l \subseteq n..(l + 1)
    BY <1>3, <1>4, <1>6
  <2> QED BY <1>2, <1>3, <1>7, <1>10, <2>1, <2>2
<1>12. Cardinality(A) = p /\ p <= MaxParams
  BY <1>1, <1>3, <1>6, <1>10, ParserBounds DEF CsiAt
<1>13. IsSequence(n)
  BY <1>3, <1>4, <1>8, <1>9, <1>10, <1>11, <1>12 DEF IsSequence
<1> QED BY <1>4, <1>5, <1>6, <1>13

(* A whole title is one. *)
LEMMA TitleActs ==
  ASSUME since \in Seq(Byte), WholeTitle(since)
  PROVE  \E i \in 1..Latest - 1 : Opened(i, "]") /\ IsTitle(i + 1)
<1>0. PICK b \in {"BEL", "ST", "\\"}, r \in Seq(Byte), kept \in 0..MaxOsc :
        \E i : /\ since = Append(r, b)
               /\ IF b = "\\" THEN Ends(r, "ESC") /\ OscAt(r, i, Len(r) - 1, FALSE, kept)
                              ELSE OscAt(r, i, Len(r), FALSE, kept)
  BY DEF WholeTitle
<1>1. PICK i : /\ since = Append(r, b)
               /\ IF b = "\\" THEN Ends(r, "ESC") /\ OscAt(r, i, Len(r) - 1, FALSE, kept)
                              ELSE OscAt(r, i, Len(r), FALSE, kept)
  BY <1>0
<1>2. b \in Byte
  BY DEF Byte
<1>3. PICK l : l = Len(r) /\ l \in Nat /\ Latest = l + 1 /\ since[l + 1] = b
             /\ \A k \in 1..l : since[k] = r[k]
  BY <1>1, <1>2, Grown DEF Latest
<1>4. PICK n : n = IF b = "\\" THEN 2 ELSE 1
  OBVIOUS
<1>5. PICK m : m = Latest - n
  OBVIOUS
<1>a. PICK no, back : no = FALSE /\ back = Len(r) - 1
  OBVIOUS
<1>b. IF b = "\\" THEN OscAt(r, i, back, no, kept) ELSE OscAt(r, i, Len(r), no, kept)
  BY <1>1, <1>a
<1>6. OscAt(r, i, m, no, kept) /\ m <= l /\ m \in Int
  <2>1. CASE b = "\\"
    <3>1. m = l - 1 /\ m = back
      BY <1>3, <1>4, <1>5, <1>a, <2>1
    <3> QED BY <1>3, <1>b, <2>1, <3>1
  <2>2. CASE b # "\\"
    <3>1. m = l
      BY <1>3, <1>4, <1>5, <2>2
    <3> QED BY <1>3, <1>b, <2>2, <3>1
  <2> QED BY <2>1, <2>2
<1>7. i \in 1..m /\ m \in Nat /\ m <= Len(since) /\ i \in 1..(Latest - 1) /\ m - i = kept
  BY <1>3, <1>6, <1>a DEF OscAt, Latest
<1>8. Opened(i, "]")
  <2>1. PICK c : c = "]"
    OBVIOUS
  <2>2. Intro(since, i, c)
    BY <1>1, <1>2, <1>6, <2>1, IntroGrows DEF OscAt
  <2> QED BY <2>1, <2>2, OpenedIs
<1>9. PICK f : f = i + 1
  OBVIOUS
<1>10. PICK X : X = Byte \ {"BEL", "ST", "ESC", "CAN"}
  OBVIOUS
<1>11. \A k \in f..m : since[k] \in X
  <2> SUFFICES ASSUME NEW k \in f..m PROVE since[k] \in X
    OBVIOUS
  <2>1. k \in (i + 1)..m /\ k \in 1..l /\ k \in 1..Len(since)
    BY <1>3, <1>6, <1>7, <1>9
  <2>2. since[k] \in Byte /\ since[k] = r[k]
    BY <1>3, <2>1
  <2> QED BY <1>6, <1>10, <2>1, <2>2 DEF OscAt
<1>12. Between(f, m) \subseteq X
  <2>1. f \in Nat /\ f >= 1
    BY <1>7, <1>9
  <2> QED BY <1>7, <1>11, <2>1, BetweenAre
<1>13. Between(f, m) \cap {"BEL", "ST", "ESC", "CAN"} = {}
  BY <1>10, <1>12
<1>14. Latest - n - f + 1 = kept /\ kept <= MaxOsc
  BY <1>3, <1>4, <1>5, <1>7, <1>9, ParserBounds
<1>15. \/ n = 1 /\ since[Latest] \in {"BEL", "ST"}
       \/ n = 2 /\ SubSeq(since, Latest - 1, Latest) = <<"ESC", "\\">>
  <2>1. CASE b = "\\"
    <3>1. r # << >> /\ r[l] = "ESC" /\ l \in 1..l
      BY <1>1, <1>3, <2>1 DEF Ends
    <3>2. since[l] = "ESC" /\ since[l + 1] = "\\" /\ Latest = l + 1 /\ l >= 1 /\ Len(since) = l + 1
      BY <1>3, <2>1, <3>1 DEF Latest
    <3>3. SubSeq(since, l, l + 1) = <<"ESC", "\\">>
      <4>1. PICK q : q = SubSeq(since, l, l + 1)
        OBVIOUS
      <4>2. q \in Seq(Byte) /\ Len(q) = 2 /\ q[1] = since[l] /\ q[2] = since[l + 1]
        BY <1>3, <3>2, <4>1
      <4>3. PICK t : t = <<"ESC", "\\">>
        OBVIOUS
      <4>4. t \in Seq(Byte) /\ Len(t) = 2 /\ t[1] = "ESC" /\ t[2] = "\\"
        BY <4>3 DEF Byte
      <4>5. \A k \in 1..2 : q[k] = t[k]
        BY <3>2, <4>2, <4>4
      <4>6. q = t
        BY ONLY <4>2, <4>4, <4>5
      <4> QED BY <4>1, <4>3, <4>6
    <3>4. Latest - 1 = l
      BY <1>3
    <3> QED BY <1>4, <2>1, <3>2, <3>3, <3>4
  <2>2. CASE b # "\\"
    BY <1>3, <1>4, <2>2
  <2> QED BY <2>1, <2>2
<1>16. IsTitle(f)
  <2>1. n \in 1..2
    BY <1>4
  <2> QED BY <1>5, <1>13, <1>14, <1>15, <2>1 DEF IsTitle
<1> QED BY <1>7, <1>8, <1>9, <1>16

(* The terminal acts only upon what came as a whole.                       *)
THEOREM OnlyWholes == ParserSpec => []ActsOnWholes
<1>1. ParserInit => ParserInv
  <2>1. << >> \in Seq(Byte) /\ 0 \in 0..MaxParams /\ 0 \in 0..MaxOsc
    BY ParserBounds
  <2> QED BY <2>1 DEF ParserInit, ParserInv, States
<1>2. ParserInv /\ [ParserNext]_parserVars => ParserInv'
  <2> SUFFICES ASSUME ParserInv, [ParserNext]_parserVars PROVE ParserInv'
    OBVIOUS
  <2>1. ASSUME NEW b \in Byte, Reads(b) PROVE ParserInv'
    BY <2>1, GroundStep, EscStep, CsiStep, OscStep, DcsStep, StringEscStep DEF ParserInv, States
  <2>2. CASE UNCHANGED parserVars
    BY <2>2 DEF parserVars, ParserInv
  <2> QED BY <2>1, <2>2 DEF ParserNext
<1>3. ParserInv => ActsOnWholes
  BY SequenceActs, TitleActs DEF ParserInv, ActsOnWholes
<1> QED BY <1>1, <1>2, <1>3, PTL DEF ParserSpec

-----------------------------------------------------------------------------
(* Vfs: paths, as sequences.                                               *)

(* The path without its last name. *)
LEMMA FrontIs ==
  ASSUME NEW S, NEW p \in Seq(S), p # << >>
  PROVE  /\ Len(p) \in Nat \ {0} /\ Front(p) \in Seq(S) /\ Len(Front(p)) = Len(p) - 1
         /\ \A i \in 1..(Len(p) - 1) : Front(p)[i] = p[i]
         /\ Last(p) \in S /\ Append(Front(p), Last(p)) = p
<1>1. PICK n : n = Len(p)
  OBVIOUS
<1>2. n \in Nat \ {0}
  BY <1>1, EmptySeq
<1>3. PICK f : f = Front(p)
  OBVIOUS
<1>4. f \in Seq(S) /\ Len(f) = n - 1 /\ \A i \in 1..(n - 1) : f[i] = p[i]
  BY <1>1, <1>2, <1>3 DEF Front
<1>5. Last(p) \in S /\ Last(p) = p[n]
  BY <1>1, <1>2 DEF Last
<1>6. Append(f, Last(p)) = p
  <2>1. PICK q : q = Append(f, Last(p))
    OBVIOUS
  <2>2. q \in Seq(S) /\ Len(q) = n /\ (\A i \in 1..(n - 1) : q[i] = f[i]) /\ q[n] = p[n]
    BY <1>2, <1>4, <1>5, <2>1
  <2>3. \A i \in 1..n : q[i] = p[i]
    BY <1>2, <1>4, <2>2
  <2>4. q = p
    BY <1>1, <2>2, <2>3, SeqEqual
  <2> QED BY <2>1, <2>4
<1> QED BY <1>1, <1>2, <1>3, <1>4, <1>5, <1>6

(* p is above q, or q itself, if q begins with p. *)
LEMMA PrefixIs ==
  ASSUME NEW S, NEW p \in Seq(S), NEW q \in Seq(S)
  PROVE  IsPrefix(p, q) <=> Len(p) <= Len(q) /\ \A i \in 1..Len(p) : q[i] = p[i]
<1>1. PICK n, m : n = Len(p) /\ m = Len(q) /\ n \in Nat /\ m \in Nat
  <2>1. Len(p) \in Nat
    OBVIOUS
  <2>2. Len(q) \in Nat
    OBVIOUS
  <2> QED BY <2>1, <2>2
<1>2. CASE n <= m
  <2>1. PICK u, v : u = SubSeq(p, 1, n) /\ v = SubSeq(q, 1, n)
    OBVIOUS
  <2>2. /\ u \in Seq(S) /\ Len(u) = n /\ \A i \in 1..n : u[i] = p[i]
        /\ v \in Seq(S) /\ Len(v) = n /\ \A i \in 1..n : v[i] = q[i]
    BY <1>1, <1>2, <2>1
  <2>3. u = v => \A i \in 1..n : q[i] = p[i]
    BY <2>2
  <2>4. ASSUME \A i \in 1..n : q[i] = p[i] PROVE u = v
    <3>1. \A i \in 1..Len(u) : u[i] = v[i]
      BY <2>2, <2>4
    <3> QED BY <2>2, <3>1, SeqEqual
  <2> QED BY <1>1, <1>2, <2>1, <2>3, <2>4 DEF IsPrefix
<1>3. CASE ~ (n <= m)
  BY <1>1, <1>3 DEF IsPrefix
<1> QED BY <1>2, <1>3

(* What is above q is q or above its directory. *)
LEMMA PrefixFront ==
  ASSUME NEW S, NEW p \in Seq(S), NEW q \in Seq(S), q # << >>
  PROVE  IsPrefix(p, q) /\ p # q <=> IsPrefix(p, Front(q))
<1>1. PICK f, n, m : f = Front(q) /\ n = Len(p) /\ m = Len(q) /\ n \in Nat
  OBVIOUS
<1>2. m \in Nat \ {0} /\ f \in Seq(S) /\ Len(f) = m - 1 /\ \A i \in 1..(m - 1) : f[i] = q[i]
  BY <1>1, FrontIs
<1>3. IsPrefix(p, q) <=> n <= m /\ \A i \in 1..n : q[i] = p[i]
  BY <1>1, PrefixIs
<1>4. IsPrefix(p, f) <=> n <= m - 1 /\ \A i \in 1..n : f[i] = p[i]
  BY <1>1, <1>2, PrefixIs
<1>5. ASSUME IsPrefix(p, q), p # q PROVE IsPrefix(p, f)
  <2>1. n # m
    <3>1. ASSUME n = m PROVE p = q
      <4>1. Len(p) = Len(q) /\ \A i \in 1..Len(p) : p[i] = q[i]
        BY <1>1, <1>3, <1>5, <3>1
      <4> QED BY <4>1, SeqEqual
    <3> QED BY <1>5, <3>1
  <2> QED BY <1>1, <1>2, <1>3, <1>4, <1>5, <2>1
<1>6. ASSUME IsPrefix(p, f) PROVE IsPrefix(p, q) /\ p # q
  <2>1. n <= m - 1 /\ n <= m /\ \A i \in 1..n : q[i] = p[i]
    BY <1>1, <1>2, <1>4, <1>6
  <2> QED BY <1>1, <1>2, <1>3, <2>1
<1> QED BY <1>1, <1>5, <1>6

(* Of two paths above a third one is above the other. *)
LEMMA PrefixBoth ==
  ASSUME NEW S, NEW p \in Seq(S), NEW q \in Seq(S), NEW r \in Seq(S), IsPrefix(p, r), IsPrefix(q, r)
  PROVE  IsPrefix(p, q) \/ IsPrefix(q, p)
<1>1. PICK n, m : n = Len(p) /\ m = Len(q) /\ n \in Nat /\ m \in Nat
  <2>1. Len(p) \in Nat
    OBVIOUS
  <2>2. Len(q) \in Nat
    OBVIOUS
  <2> QED BY <2>1, <2>2
<1>2. (\A i \in 1..n : r[i] = p[i]) /\ (\A i \in 1..m : r[i] = q[i])
  BY <1>1, PrefixIs
<1>3. CASE n <= m
  BY <1>1, <1>2, <1>3, PrefixIs
<1>4. CASE m <= n
  BY <1>1, <1>2, <1>4, PrefixIs
<1> QED BY <1>1, <1>3, <1>4

(* A path is above itself, and the root above every path. *)
LEMMA PrefixSelf ==
  ASSUME NEW S, NEW p \in Seq(S)
  PROVE  IsPrefix(p, p) /\ IsPrefix(<< >>, p)
<1>1. PICK e : e = << >> /\ e \in Seq(S) /\ Len(e) = 0
  BY EmptySeq
<1>2. Len(p) \in Nat
  OBVIOUS
<1>3. IsPrefix(p, p)
  BY <1>2, PrefixIs
<1>4. IsPrefix(e, p)
  <2>1. Len(e) <= Len(p) /\ \A i \in 1..Len(e) : p[i] = e[i]
    BY <1>1, <1>2
  <2> QED BY <1>1, <2>1, PrefixIs
<1> QED BY <1>1, <1>3, <1>4

(* The path x, with r instead of p at its beginning. *)
Rebased(p, r, x) == r \o SubSeq(x, Len(p) + 1, Len(x))

(* y begins with r, of m names, and goes on as x does after p, of k names, *)
(* for w names more.                                                       *)
Spliced(S, p, r, x, y, k, m, w) ==
  /\ w \in Nat /\ k \in Nat /\ m \in Nat /\ y \in Seq(S) /\ Len(y) = m + w /\ Len(x) = k + w
  /\ \A i \in 1..m : y[i] = r[i]
  /\ \A j \in 1..w : y[m + j] = x[k + j]

(* The names of a path that is rebased. *)
LEMMA RebasedIs ==
  ASSUME NEW S, NEW p \in Seq(S), NEW r \in Seq(S), NEW x \in Seq(S), IsPrefix(p, x),
         NEW y, y = Rebased(p, r, x), NEW k, k = Len(p), NEW m, m = Len(r), NEW w, w = Len(x) - k
  PROVE  Spliced(S, p, r, x, y, k, m, w)
<1>1. k \in Nat
  OBVIOUS
<1>2. m \in Nat
  OBVIOUS
<1>3. PICK n : n = Len(x) /\ n \in Nat
  <2>1. Len(x) \in Nat
    OBVIOUS
  <2> QED BY <2>1
<1>4. w \in Nat /\ n = k + w
  <2>1. k <= n
    BY <1>3, PrefixIs
  <2> QED BY <1>1, <1>3, <2>1
<1>5. PICK t : t = SubSeq(x, k + 1, n)
  OBVIOUS
<1>6. t \in Seq(S) /\ Len(t) = w /\ \A j \in 1..w : t[j] = x[k + j]
  BY <1>1, <1>3, <1>4, <1>5
<1>7. y = r \o t
  BY <1>3, <1>5 DEF Rebased
<1>8. y \in Seq(S) /\ Len(y) = m + w
  BY <1>6, <1>7, ConcatProperties
<1>9. \A i \in 1..(m + w) : y[i] = IF i <= m THEN r[i] ELSE t[i - m]
  BY <1>6, <1>7, ConcatProperties
<1>10. \A i \in 1..m : y[i] = r[i]
  BY <1>2, <1>4, <1>9
<1>11. ASSUME NEW j \in 1..w PROVE y[m + j] = x[k + j]
  <2>1. m + j \in 1..(m + w) /\ ~ (m + j <= m) /\ (m + j) - m = j
    BY <1>2, <1>4
  <2>2. y[m + j] = t[j]
    BY <1>9, <2>1
  <2> QED BY <1>6, <2>2
<1> QED BY <1>1, <1>2, <1>3, <1>4, <1>8, <1>10, <1>11 DEF Spliced

(* What is moved there is below the new place, and can be moved back. *)
LEMMA RebasedBack ==
  ASSUME NEW S, NEW p \in Seq(S), NEW r \in Seq(S), NEW x \in Seq(S), IsPrefix(p, x)
  PROVE  /\ Rebased(p, r, x) \in Seq(S)
         /\ IsPrefix(r, Rebased(p, r, x))
         /\ Rebased(r, p, Rebased(p, r, x)) = x
         /\ x = p => Rebased(p, r, x) = r
<1>1. PICK k, m, y, w : k = Len(p) /\ m = Len(r) /\ y = Rebased(p, r, x) /\ w = Len(x) - k
  OBVIOUS
<1>0. Spliced(S, p, r, x, y, k, m, w)
  BY <1>1, RebasedIs
<1>2. w \in Nat /\ k \in Nat /\ m \in Nat /\ y \in Seq(S) /\ Len(y) = m + w /\ Len(x) = k + w
  BY <1>0 DEF Spliced
<1>3. \A i \in 1..m : y[i] = r[i]
  BY <1>0 DEF Spliced
<1>4. \A j \in 1..w : y[m + j] = x[k + j]
  BY <1>0 DEF Spliced
<1>5. \A i \in 1..k : x[i] = p[i]
  BY <1>1, PrefixIs
<1>6. IsPrefix(r, y)
  <2>1. m <= m + w
    BY <1>2
  <2> QED BY <1>1, <1>2, <1>3, <2>1, PrefixIs
<1>7. PICK z : z = Rebased(r, p, y)
  OBVIOUS
<1>8. w = Len(y) - m
  BY <1>2
<1>z. Spliced(S, r, p, y, z, m, k, w)
  BY <1>1, <1>2, <1>6, <1>7, <1>8, RebasedIs
<1>9. z \in Seq(S) /\ Len(z) = k + w
  BY <1>z DEF Spliced
<1>10. \A i \in 1..k : z[i] = p[i]
  BY <1>z DEF Spliced
<1>11. \A j \in 1..w : z[k + j] = y[m + j]
  BY <1>z DEF Spliced
<1>12. ASSUME NEW i \in 1..(k + w) PROVE z[i] = x[i]
  <2>1. CASE i \in 1..k
    BY <1>5, <1>10, <2>1
  <2>2. CASE i \in (k + 1)..(k + w)
    <3>1. PICK j : j = i - k
      OBVIOUS
    <3>2. j \in 1..w /\ k + j = i
      BY <1>2, <2>2, <3>1
    <3> QED BY <1>4, <1>11, <3>2
  <2> QED BY <1>2, <2>1, <2>2
<1>13. z = x
  BY <1>2, <1>9, <1>12, SeqEqual
<1>14. ASSUME x = p PROVE y = r
  <2>1. Len(y) = m
    BY <1>1, <1>2, <1>14
  <2> QED BY <1>1, <1>2, <1>3, <2>1, SeqEqual
<1> QED BY <1>1, <1>2, <1>6, <1>7, <1>13, <1>14

(* Its directory goes along. *)
LEMMA RebasedFront ==
  ASSUME NEW S, NEW p \in Seq(S), NEW r \in Seq(S), NEW x \in Seq(S), IsPrefix(p, x), x # p
  PROVE  /\ x # << >> /\ Rebased(p, r, x) # << >>
         /\ Front(x) \in Seq(S) /\ IsPrefix(p, Front(x))
         /\ Front(Rebased(p, r, x)) = Rebased(p, r, Front(x))
<1>1. PICK k, m, y, w : k = Len(p) /\ m = Len(r) /\ y = Rebased(p, r, x) /\ w = Len(x) - k
  OBVIOUS
<1>0. Spliced(S, p, r, x, y, k, m, w)
  BY <1>1, RebasedIs
<1>2. w \in Nat /\ k \in Nat /\ m \in Nat /\ y \in Seq(S) /\ Len(y) = m + w /\ Len(x) = k + w
  BY <1>0 DEF Spliced
<1>3. \A i \in 1..m : y[i] = r[i]
  BY <1>0 DEF Spliced
<1>4. \A j \in 1..w : y[m + j] = x[k + j]
  BY <1>0 DEF Spliced
<1>5. \A i \in 1..k : x[i] = p[i]
  BY <1>1, PrefixIs
<1>6. w # 0
  <2>1. ASSUME w = 0 PROVE x = p
    <3>1. Len(x) = k
      BY <1>2, <2>1
    <3> QED BY <1>1, <1>2, <1>5, <3>1, SeqEqual
  <2> QED BY <2>1
<1>7. PICK v : v = w - 1 /\ v \in Nat /\ w = v + 1
  <2>1. w - 1 \in Nat /\ w = (w - 1) + 1
    BY <1>2, <1>6
  <2> QED BY <2>1
<1>8. x # << >> /\ y # << >>
  <2>1. Len(<< >>) = 0 /\ k + w # 0 /\ m + w # 0
    BY <1>2, <1>6
  <2> QED BY <1>2, <2>1
<1>9. PICK f, g, z : f = Front(x) /\ g = Front(y) /\ z = Rebased(p, r, f)
  OBVIOUS
<1>10. f \in Seq(S) /\ IsPrefix(p, f)
  BY <1>8, <1>9, FrontIs, PrefixFront
<1>11. Len(f) = k + v /\ \A i \in 1..(k + v) : f[i] = x[i]
  <2>1. Len(f) = Len(x) - 1 /\ \A i \in 1..(Len(x) - 1) : f[i] = x[i]
    BY <1>8, <1>9, FrontIs
  <2>2. Len(x) - 1 = k + v
    BY <1>2, <1>7
  <2> QED BY <2>1, <2>2
<1>12. g \in Seq(S) /\ Len(g) = m + v /\ \A i \in 1..(m + v) : g[i] = y[i]
  <2>1. g \in Seq(S) /\ Len(g) = Len(y) - 1 /\ \A i \in 1..(Len(y) - 1) : g[i] = y[i]
    BY <1>2, <1>8, <1>9, FrontIs
  <2>2. Len(y) - 1 = m + v
    BY <1>2, <1>7
  <2> QED BY <2>1, <2>2
<1>13. v = Len(f) - k
  <2>1. Len(f) = k + v
    BY <1>11
  <2>2. k \in Nat /\ v \in Nat
    BY <1>2, <1>7
  <2> QED BY ONLY <2>1, <2>2
<1>z. Spliced(S, p, r, f, z, k, m, v)
  BY <1>1, <1>9, <1>10, <1>13, RebasedIs
<1>14. z \in Seq(S) /\ Len(z) = m + v
  BY <1>z DEF Spliced
<1>15. \A i \in 1..m : z[i] = r[i]
  BY <1>z DEF Spliced
<1>16. \A j \in 1..v : z[m + j] = f[k + j]
  BY <1>z DEF Spliced
<1>17. ASSUME NEW i \in 1..(m + v) PROVE g[i] = z[i]
  <2>1. CASE i \in 1..m
    BY <1>3, <1>12, <1>15, <2>1
  <2>2. CASE i \in (m + 1)..(m + v)
    <3>1. PICK j : j = i - m
      OBVIOUS
    <3>2. j \in 1..v /\ j \in 1..w /\ m + j = i /\ k + j \in 1..(k + v)
      BY <1>2, <1>7, <2>2, <3>1
    <3>3. g[i] = y[i] /\ y[i] = x[k + j] /\ z[i] = f[k + j] /\ f[k + j] = x[k + j]
      BY <1>4, <1>11, <1>12, <1>16, <3>2
    <3> QED BY <3>3
  <2> QED BY <1>2, <1>7, <2>1, <2>2
<1>18. g = z
  BY <1>12, <1>14, <1>17, SeqEqual
<1> QED BY <1>1, <1>8, <1>9, <1>10, <1>18

-----------------------------------------------------------------------------
(* Vfs: trees, and what they take.                                         *)

Names == Name \cup {NoName}
Weights(t) == [p \in DOMAIN t |-> t[p].bytes]

(* The sum the code keeps is a total. *)
LEMMA BytesInTotal ==
  ASSUME NEW t, NEW S, IsFiniteSet(S), NEW v, \A x \in S : t[x].bytes = v[x] /\ v[x] \in Int
  PROVE  BytesIn(t, S) = Total(v, S)
<1> DEFINE Chosen(s) == CHOOSE x \in s : TRUE
           Rest(s) == s \ {Chosen(s)}
           Eq(g) == g = [s \in SUBSET S |-> IF s = {} THEN 0 ELSE t[Chosen(s)].bytes + g[Rest(s)]]
<1>1. PICK c : c = Some(S)
  OBVIOUS
<1>2. Chooses(c, S)
  BY <1>1, SomeChooses
<1>3. PICK h : Adds(h, v, c, S)
  BY <1>2, SumExists
<1>4. \A s \in SUBSET S : s # {} => c[s] = Chosen(s) /\ Chosen(s) \in s /\ t[Chosen(s)].bytes = v[c[s]]
  BY <1>1, <1>2 DEF Some, Chooses
<1>5. Eq(h)
  <2>1. \A s \in SUBSET S : Part(h, v, c, s) = IF s = {} THEN 0 ELSE t[Chosen(s)].bytes + h[Rest(s)]
    BY <1>4 DEF Part
  <2> QED BY <1>3, <2>1 DEF Adds
<1>6. PICK g : g = CHOOSE f : Eq(f)
  OBVIOUS
<1>7. Eq(g)
  <2> HIDE DEF Eq
  <2> QED BY <1>5, <1>6
<1>8. BytesIn(t, S) = g[S]
  BY <1>6 DEF BytesIn, MapThenSumSet, MapThenFoldSet
<1>9. Folds(g, v, c, S)
  BY <1>4, <1>7 DEF Folds, Part
<1>10. IsSum(g, v, S)
  BY <1>2, <1>9, SumSteps
<1>11. IsFiniteSet(S) /\ S \subseteq S /\ \A x \in S : v[x] = v[x] /\ v[x] \in Int
  OBVIOUS
<1>12. g[S] = Total(v, S)
  BY ONLY <1>10, <1>11, TotalIs
<1> QED BY <1>8, <1>12

(* Of any nodes of a tree, too. *)
LEMMA BytesInTree ==
  ASSUME NEW t, IsTree(t), NEW S, S \subseteq DOMAIN t
  PROVE  BytesIn(t, S) = Total(Weights(t), S) /\ Total(Weights(t), S) \in Nat
<1>1. IsFiniteSet(S)
  BY FS_Subset DEF IsTree
<1>2. PICK v : v = Weights(t)
  OBVIOUS
<1>3. \A x \in S : t[x].bytes = v[x] /\ v[x] \in Nat /\ v[x] \in Int
  BY <1>2 DEF Weights, IsTree
<1>4. BytesIn(t, S) = Total(v, S)
  BY <1>1, <1>3, BytesInTotal
<1>5. Total(v, S) \in Nat
  BY <1>1, <1>3, TotalNat
<1> QED BY <1>2, <1>4, <1>5

(* What is above a node of a tree is a directory of it. *)
LEMMA Ancestors ==
  ASSUME NEW t, IsTree(t), NEW p \in Seq(Names), NEW x \in DOMAIN t, IsPrefix(p, x), p # x
  PROVE  p \in DOMAIN t /\ t[p].type = "dir"
<1> SUFFICES ASSUME ~ (p \in DOMAIN t /\ t[p].type = "dir") PROVE FALSE
  OBVIOUS
<1>1. PICK W : W = {q \in DOMAIN t : IsPrefix(p, q) /\ p # q}
  OBVIOUS
<1>2. PICK L : L = {Len(q) : q \in W}
  OBVIOUS
<1>3. DOMAIN t \subseteq Seq(Names)
  BY DEF IsTree, Names
<1>4. L \subseteq Nat /\ L # {}
  BY <1>1, <1>2, <1>3
<1>5. PICK n \in L : \A m \in L : n <= m
  BY <1>4, LeastOne
<1>6. PICK q \in W : n = Len(q)
  BY <1>2
<1>7. q \in DOMAIN t /\ q \in Seq(Names) /\ IsPrefix(p, q) /\ p # q
  BY <1>1, <1>3, <1>6
<1>8. q # << >>
  <2>1. ASSUME q = << >> PROVE FALSE
    <3>1. Len(p) <= Len(q)
      BY <1>7, PrefixIs
    <3>2. Len(p) \in Nat /\ Len(q) = 0
      BY <2>1
    <3>3. p = << >>
      BY <3>1, <3>2, EmptySeq
    <3> QED BY <1>7, <2>1, <3>3
  <2> QED BY <2>1
<1>9. PICK f : f = Front(q)
  OBVIOUS
<1>10. f \in DOMAIN t /\ t[f].type = "dir"
  BY <1>7, <1>8, <1>9 DEF IsTree, Root
<1>11. f \in Seq(Names) /\ Len(f) = n - 1 /\ IsPrefix(p, f)
  BY <1>6, <1>7, <1>8, <1>9, FrontIs, PrefixFront
<1>12. f \in W
  BY <1>1, <1>10, <1>11
<1>13. n <= n - 1 /\ n \in Nat
  <2>1. Len(f) \in L
    BY <1>2, <1>12
  <2> QED BY <1>4, <1>5, <1>11, <2>1
<1> QED BY <1>13

(* u is a tree, with so many bytes and nodes more than t. *)
Differs(t, u, b, n) ==
  /\ IsTree(u)
  /\ Total(Weights(u), DOMAIN u) = Total(Weights(t), DOMAIN t) + b
  /\ Cardinality(DOMAIN u) = Cardinality(DOMAIN t) + n

(* The parts of IsTree. *)
Nodes(t) ==
  /\ IsFiniteSet(DOMAIN t) /\ DOMAIN t \subseteq Seq(Names)
  /\ \A p \in DOMAIN t : t[p].type \in {"dir", "file"} /\ t[p].bytes \in Nat
Hangs(t) ==
  /\ << >> \in DOMAIN t /\ t[<< >>].type = "dir"
  /\ \A p \in DOMAIN t : p # << >> => Front(p) \in DOMAIN t /\ t[Front(p)].type = "dir"

(* These are all of it. *)
LEMMA TreeParts == \A t : IsTree(t) <=> Nodes(t) /\ Hangs(t)
BY DEF IsTree, Nodes, Hangs, Names, Root

(* The bytes of the nodes of a tree are numbers. *)
LEMMA WeightsAre ==
  ASSUME NEW t, IsTree(t)
  PROVE  \A p \in DOMAIN t : Weights(t)[p] = t[p].bytes /\ Weights(t)[p] \in Nat /\ Weights(t)[p] \in Int
BY DEF Weights, IsTree

(* The node is put at p, in a directory, where there is none or a file; the *)
(* tree is u then, with so many bytes and nodes more.                      *)
Puts(t, p, node, u, b, n) ==
  /\ p \in Seq(Names) /\ p # << >> /\ Front(p) \in DOMAIN t /\ t[Front(p)].type = "dir"
  /\ node.type \in {"dir", "file"} /\ node.bytes \in Nat
  /\ p \in DOMAIN t => t[p].type # "dir"
  /\ u = [q \in DOMAIN t \cup {p} |-> IF q = p THEN node ELSE t[q]]
  /\ b = node.bytes - (IF p \in DOMAIN t THEN t[p].bytes ELSE 0)
  /\ n = IF p \in DOMAIN t THEN 0 ELSE 1

(* It is a tree again. *)
LEMMA PutTree ==
  ASSUME NEW t, IsTree(t), NEW p, NEW node, NEW u, NEW b, NEW n, Puts(t, p, node, u, b, n)
  PROVE  Differs(t, u, b, n)
<1>0. /\ p \in Seq(Names) /\ p # << >> /\ Front(p) \in DOMAIN t /\ t[Front(p)].type = "dir"
      /\ node.type \in {"dir", "file"} /\ node.bytes \in Nat
      /\ u = [q \in DOMAIN t \cup {p} |-> IF q = p THEN node ELSE t[q]]
  BY DEF Puts
<1>p. p \in DOMAIN t => t[p].type # "dir"
  BY DEF Puts
<1>b. /\ b = node.bytes - (IF p \in DOMAIN t THEN t[p].bytes ELSE 0)
      /\ n = IF p \in DOMAIN t THEN 0 ELSE 1
  BY DEF Puts
<1>1. Nodes(t) /\ Hangs(t)
  BY TreeParts
<1>2. DOMAIN u = DOMAIN t \cup {p} /\ u[p] = node /\ \A q \in DOMAIN t \ {p} : u[q] = t[q]
  BY <1>0
<1>3. Nodes(u)
  <2>1. IsFiniteSet(DOMAIN t \cup {p})
    BY <1>1, FS_AddElement DEF Nodes
  <2>2. \A q \in DOMAIN u : u[q].type \in {"dir", "file"} /\ u[q].bytes \in Nat
    BY <1>0, <1>1, <1>2 DEF Nodes
  <2> QED BY <1>0, <1>1, <1>2, <2>1, <2>2 DEF Nodes
<1>4. Hangs(u)
  <2>1. ASSUME NEW q \in DOMAIN t, t[q].type = "dir" PROVE q \in DOMAIN u /\ u[q].type = "dir"
    BY <1>2, <1>p, <2>1
  <2>2. << >> \in DOMAIN u /\ u[<< >>].type = "dir"
    BY <1>1, <2>1 DEF Hangs
  <2>3. ASSUME NEW q \in DOMAIN u, q # << >> PROVE Front(q) \in DOMAIN u /\ u[Front(q)].type = "dir"
    <3>1. Front(q) \in DOMAIN t /\ t[Front(q)].type = "dir"
      BY <1>0, <1>1, <1>2, <2>3 DEF Hangs
    <3> QED BY <2>1, <3>1
  <2> QED BY <2>2, <2>3 DEF Hangs
<1>5. PICK v, w, D, R : v = Weights(t) /\ w = Weights(u) /\ D = DOMAIN t /\ R = D \ {p}
  OBVIOUS
<1>6. IsTree(u)
  BY <1>3, <1>4, TreeParts
<1>7. \A q \in D : v[q] = t[q].bytes /\ v[q] \in Int
  BY <1>5, WeightsAre
<1>8. \A q \in R \cup {p} : w[q] = u[q].bytes /\ w[q] \in Int
  BY <1>2, <1>5, <1>6, WeightsAre
<1>9. IsFiniteSet(D) /\ IsFiniteSet(R) /\ p \notin R /\ DOMAIN u = R \cup {p} /\ Cardinality(D) \in Nat
  BY <1>1, <1>2, <1>5, FS_RemoveElement, FS_CardinalityType DEF Nodes
<1>10. \A q \in R : v[q] \in Int /\ w[q] = v[q]
  BY <1>2, <1>5, <1>7, <1>8
<1>11. Total(w, R) = Total(v, R)
  BY <1>9, <1>10, TotalSame
<1>12. Total(w, R \cup {p}) = Total(w, R) + w[p]
  <2>1. (\A q \in R : w[q] \in Int) /\ w[p] \in Int
    BY <1>8
  <2> QED BY <1>9, <2>1, TotalAdd
<1>13. w[p] = node.bytes
  BY <1>2, <1>8
<1>14. Total(v, R) \in Int
  BY <1>9, <1>10, TotalFacts
<1>15. CASE p \in D
  <2>0. Total(v, D) = v[p] + Total(v, D \ {p})
    BY <1>7, <1>9, <1>15, TotalFacts
  <2>1. Total(v, D) = v[p] + Total(v, R) /\ v[p] = t[p].bytes /\ v[p] \in Int
    BY <1>5, <1>7, <1>15, <2>0
  <2>2. b = node.bytes - v[p] /\ n = 0
    <3>1. p \in DOMAIN t
      BY <1>5, <1>15
    <3>2. b = node.bytes - t[p].bytes /\ n = 0
      BY <1>b, <3>1
    <3> QED BY <2>1, <3>2
  <2>3. Total(w, R \cup {p}) = Total(v, D) + b
    BY <1>0, <1>11, <1>12, <1>13, <1>14, <2>1, <2>2
  <2>4. R \cup {p} = D
    BY <1>5, <1>15
  <2>5. DOMAIN u = D
    BY <1>9, <2>4
  <2>6. Total(w, DOMAIN u) = Total(v, D) + b
    BY <1>9, <2>3
  <2>7. Cardinality(DOMAIN u) = Cardinality(D) + n
    <3>1. PICK c : c = Cardinality(D) /\ c \in Nat
      BY <1>9
    <3>2. c = c + n
      BY ONLY <2>2, <3>1
    <3> QED BY ONLY <2>5, <3>1, <3>2
  <2> QED BY <1>5, <1>6, <2>6, <2>7 DEF Differs
<1>16. CASE p \notin D
  <2>1. R = D /\ b = node.bytes /\ n = 1
    <3>1. p \notin DOMAIN t
      BY <1>5, <1>16
    <3>2. b = node.bytes - 0 /\ n = 1
      BY <1>b, <3>1
    <3>3. R = D
      BY <1>5, <1>16
    <3>4. b = node.bytes
      BY <1>0, <3>2
    <3> QED BY <3>2, <3>3, <3>4
  <2>2. Total(w, R \cup {p}) = Total(v, D) + b
    BY <1>11, <1>12, <1>13, <2>1
  <2>3. Cardinality(R \cup {p}) = Cardinality(D) + 1
    BY <1>9, <1>16, <2>1, FS_AddElement
  <2> QED BY <1>5, <1>6, <1>9, <2>1, <2>2, <2>3 DEF Differs
<1> QED BY <1>15, <1>16

(* There are new directories, each in a directory or in another of them. *)
Grows(t, P, u, n) ==
  /\ IsFiniteSet(P) /\ P \subseteq Seq(Names) /\ P \cap DOMAIN t = {} /\ n = Cardinality(P)
  /\ \A q \in P : q # << >> /\ (Front(q) \in P \/ (Front(q) \in DOMAIN t /\ t[Front(q)].type = "dir"))
  /\ u = [q \in DOMAIN t \cup P |-> IF q \in P THEN DirNode ELSE t[q]]

(* It is a tree again. *)
LEMMA AddDirs ==
  ASSUME NEW t, IsTree(t), NEW P, NEW u, NEW n, Grows(t, P, u, n)
  PROVE  Differs(t, u, 0, n)
<1>0. /\ IsFiniteSet(P) /\ P \subseteq Seq(Names) /\ P \cap DOMAIN t = {} /\ n = Cardinality(P)
      /\ \A q \in P : q # << >> /\ (Front(q) \in P \/ (Front(q) \in DOMAIN t /\ t[Front(q)].type = "dir"))
      /\ u = [q \in DOMAIN t \cup P |-> IF q \in P THEN DirNode ELSE t[q]]
  BY DEF Grows
<1>1. Nodes(t) /\ Hangs(t)
  BY TreeParts
<1>2. /\ DOMAIN u = DOMAIN t \cup P /\ \A q \in DOMAIN t : u[q] = t[q]
      /\ \A q \in P : u[q].type = "dir" /\ u[q].bytes = 0
  BY <1>0 DEF DirNode
<1>3. Nodes(u)
  <2>1. IsFiniteSet(DOMAIN t \cup P)
    BY <1>0, <1>1, FS_Union DEF Nodes
  <2>2. \A q \in DOMAIN u : u[q].type \in {"dir", "file"} /\ u[q].bytes \in Nat
    BY <1>1, <1>2 DEF Nodes
  <2> QED BY <1>0, <1>1, <1>2, <2>1, <2>2 DEF Nodes
<1>4. Hangs(u)
  <2>1. ASSUME NEW q \in DOMAIN u, q # << >> PROVE Front(q) \in DOMAIN u /\ u[Front(q)].type = "dir"
    <3>1. CASE q \in P
      BY <1>0, <1>2, <3>1
    <3>2. CASE q \in DOMAIN t
      BY <1>1, <1>2, <2>1, <3>2 DEF Hangs
    <3> QED BY <1>2, <3>1, <3>2
  <2> QED BY <1>1, <1>2, <2>1 DEF Hangs
<1>5. PICK v, w, D : v = Weights(t) /\ w = Weights(u) /\ D = DOMAIN t
  OBVIOUS
<1>6. IsTree(u)
  BY <1>3, <1>4, TreeParts
<1>7. \A q \in D : v[q] \in Int /\ w[q] = v[q]
  BY <1>2, <1>5, <1>6, WeightsAre
<1>8. \A q \in P : w[q] = 0
  BY <1>2, <1>5, <1>6, WeightsAre
<1>9. IsFiniteSet(D) /\ D \cap P = {} /\ DOMAIN u = D \cup P
  BY <1>0, <1>1, <1>2, <1>5 DEF Nodes
<1>10. Total(w, D) = Total(v, D) /\ Total(v, D) \in Int
  BY <1>7, <1>9, TotalSame, TotalFacts
<1>11. Total(w, P) = 0
  <2> DEFINE Bad == {s \in SUBSET P : Total(w, s) # 0}
  <2> SUFFICES ASSUME Bad # {} PROVE FALSE
    OBVIOUS
  <2>0. Bad \subseteq SUBSET P
    OBVIOUS
  <2>1. PICK m \in Bad : \A s \in Bad : s \subseteq m => s = m
    <3> HIDE DEF Bad
    <3> QED BY <1>0, <2>0, LeastSet
  <2>2. m \in SUBSET P /\ Total(w, m) # 0
    OBVIOUS
  <2>3. IsFiniteSet(m) /\ \A x \in m : w[x] \in Int
    BY <1>0, <1>8, <2>2, FS_Subset
  <2>4. m # {}
    BY <2>2, <2>3, TotalFacts
  <2>5. PICK x \in m : TRUE
    BY <2>4
  <2>6. PICK r : r = m \ {x}
    OBVIOUS
  <2>7. Total(w, r) = 0
    BY <2>1, <2>2, <2>5, <2>6
  <2>8. Total(w, m) = w[x] + Total(w, r) /\ w[x] = 0
    BY <1>8, <2>2, <2>3, <2>5, <2>6, TotalFacts
  <2> QED BY <2>2, <2>7, <2>8
<1>12. Total(w, D \cup P) = Total(w, D) + Total(w, P)
  <2>1. \A q \in D \cup P : w[q] \in Int
    BY <1>7, <1>8
  <2> QED BY <1>0, <1>9, <2>1, TotalUnion
<1>13. Total(w, D \cup P) = Total(v, D) + 0
  BY <1>10, <1>11, <1>12
<1>14. Cardinality(D \cup P) = Cardinality(D) + n
  <2>1. PICK c : c = Cardinality(D) /\ c \in Nat
    BY <1>9, FS_CardinalityType
  <2>2. n \in Nat
    BY <1>0, FS_CardinalityType
  <2>3. Cardinality(D \cap P) = 0
    BY <1>9, FS_EmptySet
  <2>4. Cardinality(D \cup P) = c + n - Cardinality(D \cap P)
    BY <1>0, <1>9, <2>1, FS_Union
  <2> QED BY <2>1, <2>2, <2>3, <2>4
<1> QED BY <1>5, <1>6, <1>9, <1>13, <1>14 DEF Differs

(* Everything at a path and below goes. *)
LEMMA CutTree ==
  ASSUME NEW t, IsTree(t), NEW p \in DOMAIN t, p # << >>,
         NEW U, U = {q \in DOMAIN t : IsPrefix(p, q)},
         NEW u, u = [q \in DOMAIN t \ U |-> t[q]],
         NEW b, b = - Total(Weights(t), U), NEW n, n = - Cardinality(U)
  PROVE  Differs(t, u, b, n)
<1>1. Nodes(t) /\ Hangs(t)
  BY TreeParts
<1>2. DOMAIN u = DOMAIN t \ U /\ \A q \in DOMAIN u : u[q] = t[q]
  OBVIOUS
<1>3. Nodes(u)
  <2>1. IsFiniteSet(DOMAIN t \ U)
    BY <1>1, FS_Difference DEF Nodes
  <2> QED BY <1>1, <1>2, <2>1 DEF Nodes
<1>4. Hangs(u)
  <2>0. p \in Seq(Names)
    BY <1>1 DEF Nodes
  <2>1. << >> \in DOMAIN u
    <3>1. ~ IsPrefix(p, << >>)
      <4>1. ASSUME IsPrefix(p, << >>) PROVE FALSE
        <5>1. PICK e : e = << >> /\ e \in Seq(Names) /\ Len(e) = 0
          BY EmptySeq
        <5>2. Len(p) <= Len(e)
          BY <2>0, <4>1, <5>1, PrefixIs
        <5>3. Len(p) \in Nat
          BY <2>0
        <5> QED BY <2>0, <5>1, <5>2, <5>3, EmptySeq
      <4> QED BY <4>1
    <3> QED BY <1>1, <1>2, <3>1 DEF Hangs
  <2>2. ASSUME NEW q \in DOMAIN u, q # << >> PROVE Front(q) \in DOMAIN u /\ u[Front(q)].type = "dir"
    <3>1. q \in DOMAIN t /\ ~ IsPrefix(p, q) /\ q \in Seq(Names)
      BY <1>1, <1>2 DEF Nodes
    <3>2. ~ IsPrefix(p, Front(q))
      BY <2>0, <2>2, <3>1, PrefixFront
    <3>3. Front(q) \in DOMAIN t /\ t[Front(q)].type = "dir"
      BY <1>1, <2>2, <3>1 DEF Hangs
    <3> QED BY <1>2, <3>2, <3>3
  <2> QED BY <1>1, <1>2, <2>1, <2>2 DEF Hangs
<1>5. PICK v, w, D, R : v = Weights(t) /\ w = Weights(u) /\ D = DOMAIN t /\ R = D \ U
  OBVIOUS
<1>6. IsTree(u)
  BY <1>3, <1>4, TreeParts
<1>7. \A q \in D : v[q] \in Int
  BY <1>5, WeightsAre
<1>8. \A q \in R : v[q] \in Int /\ w[q] = v[q]
  BY <1>2, <1>5, <1>6, WeightsAre
<1>9. IsFiniteSet(D) /\ IsFiniteSet(R) /\ IsFiniteSet(U) /\ R \cap U = {} /\ R \cup U = D /\ DOMAIN u = R
  BY <1>1, <1>2, <1>5, FS_Subset DEF Nodes
<1>10. Total(w, R) = Total(v, R) /\ Total(v, R) \in Int
  BY <1>8, <1>9, TotalSame, TotalFacts
<1>11. Total(v, D) = Total(v, R) + Total(v, U) /\ Total(v, U) \in Int
  <2>1. (\A q \in R \cup U : v[q] \in Int) /\ \A q \in U : v[q] \in Int
    BY <1>7, <1>9
  <2>2. Total(v, R \cup U) = Total(v, R) + Total(v, U)
    BY <1>9, <2>1, TotalUnion
  <2> QED BY <1>9, <2>1, <2>2, TotalFacts
<1>12. Total(w, R) = Total(v, D) + b
  BY <1>5, <1>10, <1>11
<1>13. Cardinality(R) = Cardinality(D) + n
  <2>1. PICK c, d, e : c = Cardinality(R) /\ d = Cardinality(U) /\ e = Cardinality(D)
    OBVIOUS
  <2>2. c \in Nat
    BY <1>9, <2>1, FS_CardinalityType
  <2>3. d \in Nat
    BY <1>9, <2>1, FS_CardinalityType
  <2>4. Cardinality(R \cap U) = 0
    BY <1>9, FS_EmptySet
  <2>5. Cardinality(R \cup U) = c + d - Cardinality(R \cap U)
    BY <1>9, <2>1, FS_Union
  <2>6. R \cup U = D
    BY <1>9
  <2>7. e = c + d - 0
    BY ONLY <2>1, <2>4, <2>5, <2>6
  <2>8. e = c + d
    BY ONLY <2>2, <2>3, <2>7
  <2> QED BY ONLY <1>9, <2>1, <2>2, <2>3, <2>8, n = - Cardinality(U)
<1> QED BY <1>5, <1>6, <1>9, <1>12, <1>13 DEF Differs

(* The nodes of t at p and below. *)
At(t, p) == {q \in DOMAIN t : IsPrefix(p, q)}

(* u is t with what was at p and below moved to r, where everything else goes. *)
Relocated(t, p, r, u) ==
  LET rest == DOMAIN t \ (At(t, p) \cup At(t, r)) IN
  u = [q \in rest \cup {Rebased(p, r, x) : x \in At(t, p)} |->
         IF q \in rest THEN t[q] ELSE t[Rebased(r, p, q)]]

(* p may be moved to r. *)
MayMove(t, p, r) ==
  /\ p \in DOMAIN t /\ p # << >> /\ r \in Seq(Names) /\ r # << >>
  /\ Front(r) \in DOMAIN t /\ t[Front(r)].type = "dir"
  /\ ~ IsPrefix(p, r) /\ ~ IsPrefix(r, p)

(* What is moved, what stays and what goes. *)
Moving(t, p, r, u, A, G, R, M) ==
  /\ IsFiniteSet(A) /\ IsFiniteSet(G) /\ IsFiniteSet(R) /\ A \cap G = {}
  /\ \A x \in A : x \in DOMAIN t /\ x \in Seq(Names) /\ IsPrefix(p, x)
  /\ M \cap R = {} /\ M \subseteq Seq(Names) /\ DOMAIN u = R \cup M
  /\ \A q \in R : u[q] = t[q]
  /\ \A x \in A : Rebased(r, p, Rebased(p, r, x)) = x /\ u[Rebased(p, r, x)] = t[x]

(* This is so when p is moved. *)
LEMMA MovedParts ==
  ASSUME NEW t, IsTree(t), NEW p, NEW r, MayMove(t, p, r), NEW u, Relocated(t, p, r, u),
         NEW A, A = At(t, p), NEW G, G = At(t, r), NEW R, R = DOMAIN t \ (A \cup G),
         NEW M, M = {Rebased(p, r, x) : x \in A}
  PROVE  Moving(t, p, r, u, A, G, R, M)
<1>1. Nodes(t) /\ p \in Seq(Names) /\ r \in Seq(Names)
  BY TreeParts DEF MayMove, Nodes
<1>2. IsFiniteSet(A) /\ IsFiniteSet(G) /\ IsFiniteSet(R)
  <2>1. A \subseteq DOMAIN t /\ G \subseteq DOMAIN t /\ R \subseteq DOMAIN t
    BY DEF At
  <2> QED BY <1>1, <2>1, FS_Subset DEF Nodes
<1>3. \A x \in A : x \in DOMAIN t /\ x \in Seq(Names) /\ IsPrefix(p, x)
  BY <1>1 DEF At, Nodes
<1>4. A \cap G = {}
  <2>1. ASSUME NEW x \in A \cap G PROVE FALSE
    <3>1. IsPrefix(p, x) /\ IsPrefix(r, x) /\ x \in Seq(Names)
      BY <1>1, <2>1 DEF At, Nodes
    <3>2. IsPrefix(p, r) \/ IsPrefix(r, p)
      BY <1>1, <3>1, PrefixBoth
    <3> QED BY <3>2 DEF MayMove
  <2> QED BY <2>1
<1>5. \A x \in A : /\ Rebased(p, r, x) \in Seq(Names) /\ IsPrefix(r, Rebased(p, r, x))
                   /\ Rebased(r, p, Rebased(p, r, x)) = x
  BY <1>1, <1>3, RebasedBack
<1>6. M \cap R = {}
  <2>1. ASSUME NEW x \in A, Rebased(p, r, x) \in R PROVE FALSE
    BY <1>5, <2>1 DEF At
  <2> QED BY <2>1
<1>7. M \subseteq Seq(Names)
  BY <1>5
<1>8. u = [q \in R \cup M |-> IF q \in R THEN t[q] ELSE t[Rebased(r, p, q)]]
  BY DEF Relocated
<1>9. DOMAIN u = R \cup M /\ \A q \in R : u[q] = t[q]
  BY <1>8
<1>10. ASSUME NEW x \in A PROVE u[Rebased(p, r, x)] = t[x]
  <2>1. PICK y : y = Rebased(p, r, x)
    OBVIOUS
  <2>2. y \in M /\ y \notin R /\ Rebased(r, p, y) = x
    BY <1>5, <1>6, <2>1
  <2>3. u[y] = t[Rebased(r, p, y)]
    BY <1>8, <2>2
  <2> QED BY <2>1, <2>2, <2>3
<1> QED BY <1>2, <1>3, <1>4, <1>5, <1>6, <1>7, <1>9, <1>10 DEF Moving

(* A subtree that is moved replaces what was at its new place. *)
LEMMA MoveTree ==
  ASSUME NEW t, IsTree(t), NEW p, NEW r, MayMove(t, p, r), NEW u, Relocated(t, p, r, u),
         NEW b, b = - Total(Weights(t), At(t, r)), NEW n, n = - Cardinality(At(t, r))
  PROVE  Differs(t, u, b, n)
<1>1. PICK A, G, R, M : /\ A = At(t, p) /\ G = At(t, r) /\ R = DOMAIN t \ (A \cup G)
                        /\ M = {Rebased(p, r, x) : x \in A}
  OBVIOUS
<1>m. Moving(t, p, r, u, A, G, R, M)
  BY <1>1, MovedParts
<1>2. /\ IsFiniteSet(A) /\ IsFiniteSet(G) /\ IsFiniteSet(R) /\ A \cap G = {}
      /\ \A x \in A : x \in DOMAIN t /\ x \in Seq(Names) /\ IsPrefix(p, x)
  BY <1>m DEF Moving
<1>3. /\ M \cap R = {} /\ M \subseteq Seq(Names) /\ DOMAIN u = R \cup M
      /\ \A q \in R : u[q] = t[q]
  BY <1>m DEF Moving
<1>4. \A x \in A : Rebased(r, p, Rebased(p, r, x)) = x /\ u[Rebased(p, r, x)] = t[x]
  BY <1>m DEF Moving
<1>5. Nodes(t) /\ Hangs(t) /\ p \in Seq(Names) /\ r \in Seq(Names)
  BY TreeParts DEF MayMove, Nodes
<1>6. PICK f, g : f = [x \in A |-> Rebased(p, r, x)] /\ g = [y \in M |-> Rebased(r, p, y)]
  OBVIOUS
<1>7. M = {f[x] : x \in A} /\ \A x \in A : f[x] \in M /\ g[f[x]] = x /\ u[f[x]] = t[x]
  BY <1>1, <1>4, <1>6
<1>8. PICK v, w, D : v = Weights(t) /\ w = Weights(u) /\ D = DOMAIN t
  OBVIOUS
<1>9. \A q \in D : v[q] = t[q].bytes /\ v[q] \in Int
  BY <1>8, WeightsAre
<1>10. IsFiniteSet(M) /\ Cardinality(M) = Cardinality(A)
  <2>1. IsFiniteSet(A) /\ M = {f[x] : x \in A} /\ \A x \in A : g[f[x]] = x
    BY <1>2, <1>7
  <2> QED BY ONLY <2>1, ImageSize
<1>11. Nodes(u)
  <2>1. IsFiniteSet(R \cup M)
    BY <1>2, <1>10, FS_Union
  <2>2. R \subseteq D
    BY <1>1, <1>8
  <2>3. ASSUME NEW q \in DOMAIN u PROVE u[q].type \in {"dir", "file"} /\ u[q].bytes \in Nat
    <3>1. CASE q \in R
      BY <1>3, <1>5, <1>8, <2>2, <3>1 DEF Nodes
    <3>2. CASE q \in M
      <4>1. PICK x \in A : q = f[x]
        BY <1>7, <3>2
      <4>2. u[q] = t[x] /\ x \in DOMAIN t
        BY <1>2, <1>7, <4>1
      <4> QED BY <1>5, <4>2 DEF Nodes
    <3> QED BY <1>3, <3>1, <3>2
  <2> QED BY <1>3, <1>5, <1>8, <2>1, <2>2, <2>3 DEF Nodes
<1>12. Hangs(u)
  <2>1. << >> \in R
    <3>1. ASSUME NEW s \in Seq(Names), IsPrefix(s, << >>) PROVE s = << >>
      <4>1. PICK e : e = << >> /\ e \in Seq(Names) /\ Len(e) = 0
        BY EmptySeq
      <4>2. Len(s) <= Len(e)
        BY <3>1, <4>1, PrefixIs
      <4>3. Len(s) \in Nat
        OBVIOUS
      <4> QED BY <4>1, <4>2, <4>3, EmptySeq
    <3>2. ~ IsPrefix(p, << >>) /\ ~ IsPrefix(r, << >>)
      BY <1>5, <3>1 DEF MayMove
    <3> QED BY <1>1, <1>5, <3>2 DEF At, Hangs
  <2>2. << >> \in DOMAIN u /\ u[<< >>].type = "dir"
    BY <1>3, <1>5, <2>1 DEF Hangs
  <2>3. ASSUME NEW q \in R, q # << >> PROVE Front(q) \in DOMAIN u /\ u[Front(q)].type = "dir"
    <3>1. q \in DOMAIN t /\ ~ IsPrefix(p, q) /\ ~ IsPrefix(r, q) /\ q \in Seq(Names)
      BY <1>1, <1>5 DEF At, Nodes
    <3>2. ~ IsPrefix(p, Front(q)) /\ ~ IsPrefix(r, Front(q))
      BY <1>5, <2>3, <3>1, PrefixFront
    <3>3. Front(q) \in DOMAIN t /\ t[Front(q)].type = "dir"
      BY <1>5, <2>3, <3>1 DEF Hangs
    <3>4. Front(q) \in R
      BY <1>1, <3>2, <3>3 DEF At
    <3> QED BY <1>3, <3>3, <3>4
  <2>4. ASSUME NEW x \in A, x # p PROVE Front(f[x]) \in DOMAIN u /\ u[Front(f[x])].type = "dir"
    <3>1. PICK y : y = Front(x)
      OBVIOUS
    <3>2. x \in DOMAIN t /\ x \in Seq(Names) /\ IsPrefix(p, x)
      BY <1>2
    <3>3. x # << >> /\ y \in Seq(Names) /\ IsPrefix(p, y) /\ Front(f[x]) = Rebased(p, r, y)
      BY <1>5, <1>6, <2>4, <3>1, <3>2, RebasedFront
    <3>4. y \in DOMAIN t /\ t[y].type = "dir"
      BY <1>5, <3>1, <3>2, <3>3 DEF Hangs
    <3>5. y \in A
      BY <1>1, <3>3, <3>4 DEF At
    <3>6. Front(f[x]) = f[y]
      BY <1>6, <3>3, <3>5
    <3> QED BY <1>3, <1>7, <3>4, <3>5, <3>6
  <2>5. f[p] = r /\ p \in A
    <3>1. IsPrefix(p, p) /\ p \in DOMAIN t
      BY <1>5, PrefixSelf DEF MayMove
    <3>2. p \in A
      BY <1>1, <3>1 DEF At
    <3>3. Rebased(p, r, p) = r
      BY <1>5, <3>1, RebasedBack
    <3> QED BY <1>6, <3>2, <3>3
  <2>6. Front(r) \in DOMAIN u /\ u[Front(r)].type = "dir"
    <3>1. Front(r) \in DOMAIN t /\ t[Front(r)].type = "dir" /\ r # << >> /\ ~ IsPrefix(p, r)
      BY DEF MayMove
    <3>2. ~ IsPrefix(p, Front(r)) /\ ~ IsPrefix(r, Front(r))
      BY <1>5, <3>1, PrefixFront
    <3>3. Front(r) \in R
      BY <1>1, <3>1, <3>2 DEF At
    <3> QED BY <1>3, <3>1, <3>3
  <2>7. ASSUME NEW q \in M PROVE Front(q) \in DOMAIN u /\ u[Front(q)].type = "dir"
    <3>1. PICK x \in A : q = f[x]
      BY <1>7
    <3>2. CASE x = p
      BY <2>5, <2>6, <3>1, <3>2
    <3>3. CASE x # p
      BY <2>4, <3>1, <3>3
    <3> QED BY <3>2, <3>3
  <2>8. \A q \in DOMAIN u : q # << >> => Front(q) \in DOMAIN u /\ u[Front(q)].type = "dir"
    BY <1>3, <2>3, <2>7
  <2> QED BY <2>2, <2>8 DEF Hangs
<1>13. IsTree(u)
  BY <1>11, <1>12, TreeParts
<1>14. \A q \in R \cup M : w[q] = u[q].bytes /\ w[q] \in Int
  BY <1>3, <1>8, <1>13, WeightsAre
<1>15. D = R \cup A \cup G /\ R \cap A = {} /\ R \cap G = {} /\ DOMAIN u = R \cup M
  BY <1>1, <1>2, <1>3, <1>8 DEF At
<1>16. Total(w, R) = Total(v, R) /\ Total(v, R) \in Int
  <2>1. \A q \in R : v[q] \in Int /\ w[q] = v[q]
    BY <1>3, <1>9, <1>14, <1>15
  <2> QED BY <1>2, <2>1, TotalSame, TotalFacts
<1>17. Total(w, M) = Total(v, A)
  <2>1. \A x \in A : v[x] \in Int /\ w[f[x]] = v[x]
    BY <1>2, <1>7, <1>8, <1>9, <1>14
  <2>2. IsFiniteSet(A) /\ M = {f[x] : x \in A} /\ \A x \in A : g[f[x]] = x
    BY <1>2, <1>7
  <2> QED BY ONLY <2>1, <2>2, TotalImage
<1>18. Total(w, R \cup M) = Total(w, R) + Total(w, M)
  BY <1>2, <1>3, <1>10, <1>14, TotalUnion
<1>19. Total(v, A) \in Int /\ Total(v, G) \in Int
  <2>1. (\A x \in A : v[x] \in Int) /\ \A x \in G : v[x] \in Int
    BY <1>9, <1>15
  <2> QED BY <1>2, <2>1, TotalFacts
<1>20. PICK B : B = R \cup A
  OBVIOUS
<1>21. IsFiniteSet(B) /\ B \cap G = {} /\ D = B \cup G
  BY <1>2, <1>15, <1>20, FS_Union
<1>22. Total(v, B) = Total(v, R) + Total(v, A)
  <2>1. \A x \in R \cup A : v[x] \in Int
    BY <1>9, <1>15
  <2> QED BY <1>2, <1>15, <1>20, <2>1, TotalUnion
<1>23. Total(v, B \cup G) = Total(v, B) + Total(v, G)
  <2>1. \A x \in B \cup G : v[x] \in Int
    BY <1>9, <1>21
  <2> QED BY <1>2, <1>21, <2>1, TotalUnion
<1>24. Total(w, DOMAIN u) = Total(v, D) + b
  <2>1. b = - Total(v, G)
    BY <1>1, <1>8
  <2>2. Total(w, DOMAIN u) = Total(w, R) + Total(w, M)
    BY <1>15, <1>18
  <2>3. Total(v, D) = Total(v, B) + Total(v, G)
    BY <1>21, <1>23
  <2> QED BY ONLY <1>16, <1>17, <1>19, <1>22, <2>1, <2>2, <2>3
<1>25. Cardinality(DOMAIN u) = Cardinality(D) + n
  <2>1. PICK ca, cg, cr : ca = Cardinality(A) /\ cg = Cardinality(G) /\ cr = Cardinality(R)
    OBVIOUS
  <2>2. ca \in Nat
    BY <1>2, <2>1, FS_CardinalityType
  <2>3. cg \in Nat
    BY <1>2, <2>1, FS_CardinalityType
  <2>4. cr \in Nat
    BY <1>2, <2>1, FS_CardinalityType
  <2>5. Cardinality(R \cap M) = 0 /\ Cardinality(R \cap A) = 0 /\ Cardinality(B \cap G) = 0
    BY <1>3, <1>15, <1>21, FS_EmptySet
  <2>6. Cardinality(R \cup M) = cr + ca - Cardinality(R \cap M)
    BY <1>2, <1>10, <2>1, FS_Union
  <2>7. Cardinality(R \cup A) = cr + ca - Cardinality(R \cap A)
    BY <1>2, <2>1, FS_Union
  <2>8. Cardinality(B \cup G) = Cardinality(B) + cg - Cardinality(B \cap G)
    BY <1>2, <1>21, <2>1, FS_Union
  <2>9. PICK cu, cd : cu = Cardinality(DOMAIN u) /\ cd = Cardinality(D)
    OBVIOUS
  <2>10. cu = cr + ca - 0
    BY ONLY <1>15, <2>5, <2>6, <2>9
  <2>11. cd = (cr + ca - 0) + cg - 0
    BY ONLY <1>20, <1>21, <2>5, <2>7, <2>8, <2>9
  <2>12. n = - cg
    BY <1>1, <2>1
  <2>13. cu = cd + n
    BY ONLY <2>2, <2>3, <2>4, <2>10, <2>11, <2>12
  <2> QED BY <2>9, <2>13
<1> QED BY <1>8, <1>13, <1>24, <1>25 DEF Differs

-----------------------------------------------------------------------------
(* Vfs: the commands, one lemma each.                                      *)

(* The tree is one, and what is charged for it is what it takes. *)
VfsInv ==
  /\ IsTree(tree)
  /\ usedBytes = Total(Weights(tree), DOMAIN tree) /\ usedBytes <= MaxBytes
  /\ nodeCount = Cardinality(DOMAIN tree) /\ nodeCount <= MaxNodes

(* The two counts are natural numbers. *)
LEMMA InvTypes == VfsInv => usedBytes \in Nat /\ nodeCount \in Nat
<1> SUFFICES ASSUME VfsInv PROVE usedBytes \in Nat /\ nodeCount \in Nat
  OBVIOUS
<1>1. usedBytes \in Nat
  BY BytesInTree DEF VfsInv
<1>2. nodeCount \in Nat
  BY FS_CardinalityType DEF VfsInv, IsTree
<1> QED BY <1>1, <1>2

(* A call that charges what it adds. *)
LEMMA ChargedTree ==
  ASSUME VfsInv, NEW b, NEW n, Differs(tree, tree', b, n), Charge(b, n), Reservable(b, n)
  PROVE  VfsInv'
BY DEF VfsInv, Differs, Charge, Reservable

(* The directory of a path, and the path that a name is put at there. *)
LEMMA EntryIs ==
  ASSUME NEW p \in Seq(Names)
  PROVE  /\ Entry(p) \in Seq(Names) /\ Entry(p) # << >> /\ Front(Entry(p)) = DirName(p)
         /\ DirName(p) \in Seq(Names) /\ BaseName(p) \in Names /\ (p # << >> => Entry(p) = p)
<1>1. DirName(p) \in Seq(Names) /\ BaseName(p) \in Names
  <2>1. CASE p = << >>
    BY <2>1 DEF DirName, BaseName, Root, Names
  <2>2. CASE p # << >>
    BY <2>2, FrontIs DEF DirName, BaseName, Root
  <2> QED BY <2>1, <2>2
<1>2. PICK d, e, q : d = DirName(p) /\ e = BaseName(p) /\ q = Append(d, e)
  OBVIOUS
<1>3. d \in Seq(Names) /\ e \in Names
  BY <1>1, <1>2
<1>4. PICK k : k = Len(d) /\ k \in Nat
  <2>1. Len(d) \in Nat
    BY <1>3
  <2> QED BY <2>1
<1>5. q \in Seq(Names) /\ Len(q) = k + 1 /\ \A i \in 1..k : q[i] = d[i]
  BY <1>2, <1>3, <1>4
<1>6. q # << >>
  <2>1. Len(<< >>) = 0 /\ k + 1 # 0
    BY <1>4
  <2> QED BY <1>5, <2>1
<1>7. Front(q) = d
  <2>1. PICK f : f = Front(q)
    OBVIOUS
  <2>2. f \in Seq(Names) /\ Len(f) = Len(q) - 1 /\ \A i \in 1..(Len(q) - 1) : f[i] = q[i]
    BY <1>5, <1>6, <2>1, FrontIs
  <2>3. Len(q) - 1 = k
    BY <1>4, <1>5
  <2>4. Len(f) = Len(d) /\ \A i \in 1..Len(f) : f[i] = d[i]
    BY <1>4, <1>5, <2>2, <2>3
  <2>5. f = d
    BY <1>3, <2>2, <2>4, SeqEqual
  <2> QED BY <2>1, <2>5
<1>8. p # << >> => q = p
  BY <1>2, FrontIs DEF DirName, BaseName, Root
<1>9. Entry(p) = q
  BY <1>2 DEF Entry
<1> QED BY <1>1, <1>2, <1>5, <1>6, <1>7, <1>8, <1>9

(* A path is a sequence of names. *)
LEMMA PathIs == \A p \in Path : p \in Seq(Names)
<1> SUFFICES ASSUME NEW p \in Path PROVE p \in Seq(Names)
  OBVIOUS
<1>1. PICK n \in 0..MaxDepth : p \in [1..n -> Name]
  BY DEF Path
<1>2. n \in Nat
  BY <1>1, PathAssumption
<1>3. p \in [1..n -> Names]
  BY <1>1 DEF Names
<1> QED BY <1>2, <1>3

(* The invariant holds at the start. *)
LEMMA VfsInitLemma == VfsInit => VfsInv
<1> SUFFICES ASSUME VfsInit PROVE VfsInv
  OBVIOUS
<1>1. PICK t : t = [p \in {Root} |-> DirNode] /\ t = tree
  BY DEF VfsInit
<1>2. DOMAIN t = {<< >>} /\ t[<< >>].type = "dir" /\ t[<< >>].bytes = 0
  BY <1>1 DEF Root, DirNode
<1>3. IsFiniteSet({<< >>}) /\ Cardinality({<< >>}) = 1
  BY FS_Singleton
<1>4. << >> \in Seq(Names)
  BY EmptySeq
<1>5. Nodes(t)
  BY <1>2, <1>3, <1>4 DEF Nodes
<1>6. Hangs(t)
  BY <1>2 DEF Hangs
<1>7. IsTree(t)
  BY <1>5, <1>6, TreeParts
<1>8. Total(Weights(t), {<< >>}) = 0
  <2>1. PICK v, e : v = Weights(t) /\ e = << >>
    OBVIOUS
  <2>2. v[e] = 0 /\ v[e] \in Int /\ {} \cup {e} = {e}
    BY <1>2, <1>7, <2>1, WeightsAre
  <2>3. IsFiniteSet({}) /\ Total(v, {}) = 0
    BY FS_EmptySet, TotalFacts
  <2>4. Total(v, {} \cup {e}) = Total(v, {}) + v[e]
    BY <2>2, <2>3, TotalAdd
  <2>5. 0 + v[e] = 0
    BY <2>2
  <2> QED BY ONLY <2>1, <2>2, <2>3, <2>4, <2>5
<1>9. 0 <= MaxBytes /\ 1 <= MaxNodes
  BY QuotaAssumption
<1> QED BY <1>1, <1>2, <1>3, <1>7, <1>8, <1>9 DEF VfsInit, VfsInv

(* A file is written. *)
LEMMA WriteLemma ==
  ASSUME VfsInv, NEW p \in Seq(Names), NEW n \in Nat, NEW append \in BOOLEAN, WriteFile(p, n, append)
  PROVE  VfsInv'
<1>1. PICK e : e = Entry(p)
  OBVIOUS
<1>2. e \in Seq(Names) /\ e # << >> /\ Front(e) = DirName(p)
  BY <1>1, EntryIs
<1>3. Front(e) \in DOMAIN tree /\ tree[Front(e)].type = "dir" /\ (e \in DOMAIN tree => tree[e].type # "dir")
  BY <1>1, <1>2 DEF WriteFile, IsDir, Exists
<1>4. IsTree(tree) /\ (e \in DOMAIN tree => tree[e].bytes \in Nat)
  BY DEF VfsInv, IsTree
<1>5. CASE append /\ Exists(e)
  <2>1. PICK m, node : m = tree[e].bytes + n /\ node = FileNode(m)
    OBVIOUS
  <2>2. e \in DOMAIN tree /\ m \in Nat /\ node.type = "file" /\ node.bytes = m
    BY <1>4, <1>5, <2>1 DEF Exists, FileNode
  <2>3. tree' = [q \in DOMAIN tree \cup {e} |-> IF q = e THEN node ELSE tree[q]]
    BY <1>1, <1>5, <2>1 DEF WriteFile, Extend, Put
  <2>4. n = node.bytes - (IF e \in DOMAIN tree THEN tree[e].bytes ELSE 0)
    BY <1>4, <2>1, <2>2
  <2>5. 0 = IF e \in DOMAIN tree THEN 0 ELSE 1
    BY <2>2
  <2>6. node.type \in {"dir", "file"} /\ node.bytes \in Nat
    BY <2>2
  <2>7. Differs(tree, tree', n, 0)
    <3>1. Puts(tree, e, node, tree', n, 0)
      BY <1>2, <1>3, <1>4, <2>3, <2>4, <2>5, <2>6 DEF Puts
    <3> QED BY <1>4, <3>1, PutTree
  <2> QED BY <1>1, <1>5, <2>7, ChargedTree DEF WriteFile, Extend
<1>6. CASE ~ (append /\ Exists(e))
  <2>1. PICK node, b, new : /\ node = FileNode(n)
                            /\ b = n - (IF e \in DOMAIN tree THEN tree[e].bytes ELSE 0)
                            /\ new = IF e \in DOMAIN tree THEN 0 ELSE 1
    OBVIOUS
  <2>2. node.type \in {"dir", "file"} /\ node.bytes \in Nat /\ node.bytes = n
    BY <2>1 DEF FileNode
  <2>3. Overwrite(e, n)
    BY <1>1, <1>6 DEF WriteFile
  <2>4. tree' = [q \in DOMAIN tree \cup {e} |-> IF q = e THEN node ELSE tree[q]]
    BY <2>1, <2>3 DEF Overwrite, Put
  <2>5. Charge(b, new) /\ Reservable(b, new)
    BY <2>1, <2>3 DEF Overwrite, Exists
  <2>6. b = node.bytes - (IF e \in DOMAIN tree THEN tree[e].bytes ELSE 0)
    BY <2>1, <2>2
  <2>7. new = IF e \in DOMAIN tree THEN 0 ELSE 1
    BY <2>1
  <2>8. Differs(tree, tree', b, new)
    <3>1. Puts(tree, e, node, tree', b, new)
      BY <1>2, <1>3, <1>4, <2>2, <2>4, <2>6, <2>7 DEF Puts
    <3> QED BY <1>4, <3>1, PutTree
  <2> QED BY <2>5, <2>8, ChargedTree
<1> QED BY <1>5, <1>6

(* A file is copied: written under the name it has, or another one. *)
LEMMA CopyLemma ==
  ASSUME VfsInv, NEW from \in Path, NEW to \in Path, Copy(from, to)
  PROVE  VfsInv'
<1>1. from \in Seq(Names) /\ to \in Seq(Names)
  BY PathIs
<1>2. PICK p : p = IF IsDir(to) THEN Append(to, BaseName(from)) ELSE to
  OBVIOUS
<1>3. p \in Seq(Names)
  <2>1. BaseName(from) \in Names
    BY <1>1, EntryIs
  <2> QED BY <1>1, <1>2, <2>1
<1>4. PICK n : n = tree[from].bytes
  OBVIOUS
<1>5. n \in Nat
  BY <1>4 DEF Copy, Exists, VfsInv, IsTree
<1>6. WriteFile(p, n, FALSE)
  BY <1>2, <1>4 DEF Copy
<1> QED BY <1>3, <1>5, <1>6, WriteLemma

(* A directory is made. *)
LEMMA MkDirLemma ==
  ASSUME VfsInv, NEW p \in Path, MkDir(p)
  PROVE  VfsInv'
<1>1. PICK e : e = Entry(p)
  OBVIOUS
<1>2. e \in Seq(Names) /\ e # << >> /\ Front(e) = DirName(p)
  BY <1>1, EntryIs, PathIs
<1>3. /\ Front(e) \in DOMAIN tree /\ tree[Front(e)].type = "dir" /\ e \notin DOMAIN tree
      /\ (e \in DOMAIN tree => tree[e].type # "dir")
  BY <1>1, <1>2 DEF MkDir, IsDir, Exists
<1>4. PICK node : node = DirNode
  OBVIOUS
<1>5. node.type \in {"dir", "file"} /\ node.bytes \in Nat /\ node.bytes = 0
  BY <1>4 DEF DirNode
<1>6. tree' = [q \in DOMAIN tree \cup {e} |-> IF q = e THEN node ELSE tree[q]]
  BY <1>1, <1>4 DEF MkDir, Put
<1>7. 0 = node.bytes - (IF e \in DOMAIN tree THEN tree[e].bytes ELSE 0)
  BY <1>3, <1>5
<1>8. 1 = IF e \in DOMAIN tree THEN 0 ELSE 1
  BY <1>3
<1>9. IsTree(tree)
  BY DEF VfsInv
<1>10. Differs(tree, tree', 0, 1)
  <2>1. Puts(tree, e, node, tree', 0, 1)
    BY <1>2, <1>3, <1>5, <1>6, <1>7, <1>8, <1>9 DEF Puts
  <2> QED BY <1>9, <2>1, PutTree
<1> QED BY <1>10, ChargedTree DEF MkDir

(* A node is deleted, with what is below it. *)
LEMMA DeleteLemma ==
  ASSUME VfsInv, NEW p, NEW recursive \in BOOLEAN, Delete(p, recursive)
  PROVE  VfsInv'
<1>1. PICK U : U = {q \in DOMAIN tree : IsPrefix(p, q)} /\ U = Under(p)
  BY DEF Under
<1>2. PICK b, n : b = Total(Weights(tree), U) /\ n = Cardinality(U)
  OBVIOUS
<1>3. IsTree(tree) /\ U \subseteq DOMAIN tree /\ IsFiniteSet(U)
  BY <1>1, FS_Subset DEF VfsInv, IsTree
<1>4. b \in Nat /\ n \in Nat /\ BytesIn(tree, U) = b
  BY <1>2, <1>3, BytesInTree, FS_CardinalityType
<1>5. p \in DOMAIN tree /\ p # << >> /\ tree' = [q \in DOMAIN tree \ U |-> tree[q]]
  BY <1>1 DEF Delete, Exists, Cut, Root
<1>6. PICK mb, mn : mb = - b /\ mn = - n
  OBVIOUS
<1>7. mb = - Total(Weights(tree), U) /\ mn = - Cardinality(U)
  BY <1>2, <1>6
<1>8. U = {q \in DOMAIN tree : IsPrefix(p, q)}
  BY <1>1
<1>9. Differs(tree, tree', mb, mn)
  BY ONLY <1>3, <1>5, <1>7, <1>8, CutTree
<1>10. usedBytes' = usedBytes - b /\ nodeCount' = nodeCount - n
  BY <1>1, <1>2, <1>4 DEF Delete, Refund, CostOf
<1>11. usedBytes \in Nat /\ nodeCount \in Nat /\ usedBytes <= MaxBytes /\ nodeCount <= MaxNodes
  BY InvTypes DEF VfsInv
<1>12. Charge(mb, mn) /\ Reservable(mb, mn)
  BY <1>4, <1>6, <1>10, <1>11, QuotaAssumption DEF Charge, Reservable
<1> QED BY <1>9, <1>12, ChargedTree

(* A snapshot is imported. *)
LEMMA ImportLemma ==
  ASSUME NEW s \in Snapshots, Import(s)
  PROVE  VfsInv'
<1>1. IsTree(s)
  BY SnapshotAssumption
<1>2. BytesIn(s, DOMAIN s) = Total(Weights(s), DOMAIN s)
  BY <1>1, BytesInTree
<1> QED BY <1>1, <1>2 DEF Import, VfsInv

(* The first n names of a path. *)
LEMMA Beginnings ==
  ASSUME NEW S, NEW p \in Seq(S), NEW n \in 0..Len(p)
  PROVE  /\ SubSeq(p, 1, n) \in Seq(S) /\ Len(SubSeq(p, 1, n)) = n
         /\ \A i \in 1..n : SubSeq(p, 1, n)[i] = p[i]
OBVIOUS

(* They lead into the directory that all of them but the last lead to. *)
LEMMA BeginningIn ==
  ASSUME NEW S, NEW p \in Seq(S), NEW n \in 1..Len(p), NEW d, d = n - 1
  PROVE  SubSeq(p, 1, n) # << >> /\ Front(SubSeq(p, 1, n)) = SubSeq(p, 1, d)
<1>1. PICK x, y : x = SubSeq(p, 1, n) /\ y = SubSeq(p, 1, d)
  OBVIOUS
<1>2. n \in Nat \ {0} /\ d \in 0..Len(p) /\ n \in 0..Len(p)
  <2>1. Len(p) \in Nat
    OBVIOUS
  <2> QED BY <2>1
<1>3. x \in Seq(S) /\ Len(x) = n /\ \A i \in 1..n : x[i] = p[i]
  BY <1>1, <1>2, Beginnings
<1>4. y \in Seq(S) /\ Len(y) = d /\ \A i \in 1..d : y[i] = p[i]
  BY <1>1, <1>2, Beginnings
<1>5. x # << >>
  <2>1. Len(<< >>) = 0
    OBVIOUS
  <2> QED BY <1>2, <1>3, <2>1
<1>6. PICK f : f = Front(x)
  OBVIOUS
<1>7. f \in Seq(S) /\ Len(f) = Len(x) - 1 /\ \A i \in 1..(Len(x) - 1) : f[i] = x[i]
  BY <1>3, <1>5, <1>6, FrontIs
<1>8. Len(x) - 1 = d /\ \A i \in 1..d : i \in 1..n
  BY <1>2, <1>3
<1>9. Len(f) = Len(y) /\ \A i \in 1..Len(f) : f[i] = y[i]
  BY <1>3, <1>4, <1>7, <1>8
<1>10. f = y
  BY <1>4, <1>7, <1>9, SeqEqual
<1> QED BY <1>1, <1>5, <1>6, <1>10

(* A shorter beginning is above a longer one. *)
LEMMA BeginningAbove ==
  ASSUME NEW S, NEW p \in Seq(S), NEW n \in 0..Len(p), NEW k \in 0..n, k # n
  PROVE  IsPrefix(SubSeq(p, 1, k), SubSeq(p, 1, n)) /\ SubSeq(p, 1, k) # SubSeq(p, 1, n)
<1>1. PICK x, y : x = SubSeq(p, 1, n) /\ y = SubSeq(p, 1, k)
  OBVIOUS
<1>2. n \in Nat /\ k \in Nat /\ k \in 0..Len(p) /\ k <= n /\ \A i \in 1..k : i \in 1..n
  <2>1. Len(p) \in Nat
    OBVIOUS
  <2> QED BY <2>1
<1>3. x \in Seq(S) /\ Len(x) = n /\ \A i \in 1..n : x[i] = p[i]
  BY <1>1, Beginnings
<1>4. y \in Seq(S) /\ Len(y) = k /\ \A i \in 1..k : y[i] = p[i]
  BY <1>1, <1>2, Beginnings
<1>5. Len(y) <= Len(x) /\ \A i \in 1..Len(y) : x[i] = y[i]
  BY <1>2, <1>3, <1>4
<1>6. IsPrefix(y, x)
  BY <1>3, <1>4, <1>5, PrefixIs
<1> QED BY <1>1, <1>3, <1>4, <1>6

(* mkdir -p makes as many of the directories as the quota allows. *)
LEMMA MkDirsLemma ==
  ASSUME VfsInv, NEW p \in Path, MkDirs(p)
  PROVE  VfsInv'
<1>1. p \in Seq(Names) /\ IsTree(tree)
  BY PathIs DEF VfsInv
<1>2. PICK l : l = Len(p) /\ l \in Nat
  <2>1. Len(p) \in Nat
    BY <1>1
  <2> QED BY <2>1
<1>3. PICK h : h = [n \in 0..l |-> SubSeq(p, 1, n)]
  OBVIOUS
<1>4. PICK missing : missing = {n \in 1..l : SubSeq(p, 1, n) \notin DOMAIN tree}
  OBVIOUS
<1>5. PICK a : a = Min(missing)
  OBVIOUS
<1>6. PICK made : made = {n \in missing : n < a + MaxNodes - nodeCount}
  OBVIOUS
<1>7. PICK paths : paths = {SubSeq(p, 1, n) : n \in made}
  OBVIOUS
<1>8. /\ made # {} /\ IsDir(SubSeq(p, 1, a - 1))
      /\ tree' = [q \in DOMAIN tree \cup paths |-> IF q \in paths THEN DirNode ELSE tree[q]]
      /\ Charge(0, Cardinality(made))
  BY <1>2, <1>4, <1>5, <1>6, <1>7 DEF MkDirs, Exists
<1>9. a \in missing /\ \A y \in missing : a <= y
  <2>1. missing \subseteq Nat /\ missing # {}
    BY <1>4, <1>6, <1>8
  <2>2. \E x \in missing : \A y \in missing : x <= y
    BY <2>1, LeastOne
  <2> QED BY <1>5, <2>2 DEF Min
<1>10. a \in 1..l /\ a \in Nat
  BY <1>4, <1>9
<1>11. \A n \in 0..l : h[n] = SubSeq(p, 1, n) /\ h[n] \in Seq(Names) /\ Len(h[n]) = n
  BY <1>1, <1>2, <1>3, Beginnings
<1>12. \A n \in 1..l : h[n] # << >> /\ Front(h[n]) = h[n - 1]
  <2> SUFFICES ASSUME NEW n \in 1..l PROVE h[n] # << >> /\ Front(h[n]) = h[n - 1]
    OBVIOUS
  <2>1. PICK d : d = n - 1
    OBVIOUS
  <2>2. d \in 0..l /\ n \in 0..l
    BY <1>2, <2>1
  <2>3. SubSeq(p, 1, n) # << >> /\ Front(SubSeq(p, 1, n)) = SubSeq(p, 1, d)
    BY <1>1, <1>2, <2>1, BeginningIn
  <2> QED BY <1>11, <2>1, <2>2, <2>3
<1>13. ASSUME NEW n \in 1..l, a <= n PROVE n \in missing
  <2>1. CASE n = a
    BY <1>9, <2>1
  <2>2. CASE n # a
    <3>1. a \in 0..n /\ n \in 0..Len(p) /\ n \in 0..l /\ a \in 0..l
      BY <1>2, <1>10, <1>13
    <3>2. IsPrefix(SubSeq(p, 1, a), SubSeq(p, 1, n)) /\ SubSeq(p, 1, a) # SubSeq(p, 1, n)
      BY <1>1, <2>2, <3>1, BeginningAbove
    <3>3. IsPrefix(h[a], h[n]) /\ h[a] # h[n]
      BY <1>11, <3>1, <3>2
    <3>4. h[a] \notin DOMAIN tree
      BY <1>4, <1>9, <1>11, <3>1
    <3>5. h[n] \notin DOMAIN tree
      BY <1>1, <1>11, <3>1, <3>3, <3>4, Ancestors
    <3> QED BY <1>4, <1>11, <3>1, <3>5
  <2> QED BY <2>1, <2>2
<1>14. made \subseteq 1..l /\ made \subseteq 0..l /\ \A n \in made : h[n] \notin DOMAIN tree /\ n \in Nat
  <2>1. made \subseteq 1..l /\ made \subseteq 0..l
    BY <1>4, <1>6
  <2>2. ASSUME NEW n \in made PROVE h[n] \notin DOMAIN tree /\ n \in Nat
    <3>1. n \in 0..l /\ SubSeq(p, 1, n) \notin DOMAIN tree
      BY <1>4, <1>6, <2>1, <2>2
    <3>2. h[n] = SubSeq(p, 1, n)
      BY <1>11, <3>1
    <3> QED BY <1>2, <3>1, <3>2
  <2> QED BY <2>1, <2>2
<1>15. paths = {h[n] : n \in made}
  BY <1>7, <1>11, <1>14
<1>16. IsFiniteSet(made)
  <2>1. IsFiniteSet(1..l)
    BY <1>2, FS_Interval
  <2> QED BY <1>14, <2>1, FS_Subset
<1>17. IsFiniteSet(paths) /\ Cardinality(paths) = Cardinality(made)
  <2>1. PICK g : g = [x \in Seq(Names) |-> Len(x)]
    OBVIOUS
  <2>2. \A n \in made : g[h[n]] = n
    BY <1>11, <1>14, <2>1
  <2> QED BY ONLY <1>15, <1>16, <2>2, ImageSize
<1>18. PICK k, c : k = MaxNodes - nodeCount /\ c = Cardinality(made)
  OBVIOUS
<1>19. k \in Nat /\ c \in Nat /\ nodeCount \in Nat /\ usedBytes \in Nat /\ MaxNodes = nodeCount + k
  <2>1. nodeCount \in Nat /\ nodeCount <= MaxNodes /\ usedBytes \in Nat /\ MaxNodes \in Nat
    BY InvTypes, QuotaAssumption DEF VfsInv
  <2>2. c \in Nat
    BY <1>16, <1>18, FS_CardinalityType
  <2> QED BY <1>18, <2>1, <2>2
<1>20. \A n \in made : a <= n /\ n < a + k
  <2>1. \A n \in made : n < a + MaxNodes - nodeCount
    BY <1>6
  <2>2. a + MaxNodes - nodeCount = a + k
    BY <1>10, <1>18, <1>19
  <2> QED BY <1>6, <1>9, <2>1, <2>2
<1>21. c <= k
  <2>1. PICK e : e = a + k - 1
    OBVIOUS
  <2>2. e \in Int /\ a <= e + 1 /\ e - a + 1 = k
    BY <1>10, <1>19, <2>1
  <2>3. made \subseteq a..e
    BY <1>10, <1>14, <1>19, <1>20, <2>1
  <2>4. IsFiniteSet(a..e) /\ Cardinality(a..e) = IF a > e THEN 0 ELSE e - a + 1
    BY <1>10, <2>2, FS_Interval
  <2>5. Cardinality(a..e) = k
    BY <1>10, <1>19, <2>2, <2>4
  <2>6. c <= Cardinality(a..e)
    BY <1>18, <2>3, <2>4, FS_Subset
  <2> QED BY <2>5, <2>6
<1>22. ASSUME NEW q \in paths
       PROVE  q # << >> /\ (Front(q) \in paths \/ (Front(q) \in DOMAIN tree /\ tree[Front(q)].type = "dir"))
  <2>1. PICK n \in made : q = h[n]
    BY <1>15
  <2>2. n \in 1..l /\ a <= n /\ n < a + k
    BY <1>14, <1>20, <2>1
  <2>3. q # << >> /\ Front(q) = h[n - 1]
    BY <1>12, <2>1, <2>2
  <2>4. CASE n = a
    <3>1. h[a - 1] = SubSeq(p, 1, a - 1)
      <4>1. a - 1 \in 0..l
        BY <1>2, <1>10
      <4> QED BY <1>11, <4>1
    <3> QED BY <1>8, <2>3, <2>4, <3>1 DEF IsDir, Exists
  <2>5. CASE n # a
    <3>1. PICK d : d = n - 1
      OBVIOUS
    <3>2. d \in 1..l /\ a <= d /\ d < a + k
      BY <1>2, <1>10, <1>19, <2>2, <2>5, <3>1
    <3>3. d < a + MaxNodes - nodeCount
      BY <1>10, <1>18, <1>19, <3>2
    <3>4. d \in made
      BY <1>6, <1>13, <3>2, <3>3
    <3>5. h[d] \in paths
      BY <1>15, <3>4
    <3> QED BY <2>3, <3>1, <3>5
  <2> QED BY <2>4, <2>5
<1>23. paths \subseteq Seq(Names) /\ paths \cap DOMAIN tree = {}
  BY <1>11, <1>14, <1>15
<1>24. Grows(tree, paths, tree', c)
  BY <1>8, <1>17, <1>18, <1>22, <1>23 DEF Grows
<1>25. Differs(tree, tree', 0, c)
  BY <1>1, <1>24, AddDirs
<1>26. Charge(0, c) /\ Reservable(0, c)
  <2>1. usedBytes + 0 <= MaxBytes
    BY <1>19 DEF VfsInv
  <2>2. nodeCount + c <= MaxNodes
    BY <1>19, <1>21
  <2> QED BY <1>8, <1>18, <2>1, <2>2 DEF Reservable
<1> QED BY <1>25, <1>26, ChargedTree

(* What Move writes when it moves p to r. *)
Placing(t, p, r, kept, moved, rest) ==
  /\ moved = {Rebased(p, r, x) : x \in At(t, p)}
  /\ kept = {q \in (DOMAIN t \ At(t, r)) \cup moved : ~ IsPrefix(p, q)}
  /\ rest = DOMAIN t \ (At(t, p) \cup At(t, r))

(* The set that Move writes is the one of Relocated, as long as what is    *)
(* replaced does not hold what is moved.                                   *)
LEMMA PlacedIs ==
  ASSUME NEW t, IsTree(t), NEW p, NEW r, MayMove(t, p, r),
         NEW K, NEW M, NEW R, Placing(t, p, r, K, M, R)
  PROVE  K = R \cup M /\ M \cap R = {}
<1>0. PICK A, G : A = At(t, p) /\ G = At(t, r)
  OBVIOUS
<1>1. PICK u : Relocated(t, p, r, u)
  BY DEF Relocated
<1>2. Moving(t, p, r, u, A, G, R, M)
  BY <1>0, <1>1, MovedParts DEF Placing
<1>3. M \cap R = {} /\ M \subseteq Seq(Names)
  BY <1>2 DEF Moving
<1>4. Nodes(t) /\ p \in Seq(Names) /\ r \in Seq(Names)
  BY TreeParts DEF MayMove, Nodes
<1>5. ASSUME NEW q \in M PROVE ~ IsPrefix(p, q)
  <2>1. PICK x \in A : q = Rebased(p, r, x)
    BY <1>0, <1>5 DEF Placing
  <2>2. x \in Seq(Names) /\ IsPrefix(p, x)
    BY <1>0, <1>4 DEF At, Nodes
  <2>3. q \in Seq(Names) /\ IsPrefix(r, q)
    BY <1>4, <2>1, <2>2, RebasedBack
  <2>4. IsPrefix(p, q) => IsPrefix(p, r) \/ IsPrefix(r, p)
    BY <1>4, <2>3, PrefixBoth
  <2> QED BY <2>4 DEF MayMove
<1>6. ASSUME NEW q \in DOMAIN t \ G PROVE ~ IsPrefix(p, q) <=> q \in R
  BY <1>0, <1>6 DEF At, Placing
<1>7. R \subseteq DOMAIN t \ G /\ K = {q \in (DOMAIN t \ G) \cup M : ~ IsPrefix(p, q)}
  BY <1>0 DEF Placing
<1> QED BY <1>3, <1>5, <1>6, <1>7

(* A node is moved, with what is below it. *)
LEMMA MoveLemma ==
  ASSUME VfsInv, NEW from \in Path, NEW to \in Path, from # Root, Move(from, to), ~ upended'
  PROVE  VfsInv'
<1>1. from \in Seq(Names) /\ to \in Seq(Names) /\ IsTree(tree)
  BY PathIs DEF VfsInv
<1>2. PICK r : r = Target(from, to)
  OBVIOUS
<1>3. r \in Seq(Names)
  <2>1. BaseName(from) \in Names
    BY <1>1, EntryIs
  <2>2. Append(to, BaseName(from)) \in Seq(Names)
    BY <1>1, <2>1
  <2> QED BY <1>1, <1>2, <2>2 DEF Target
<1>4. PICK gone : gone = Standing(r)
  OBVIOUS
<1>5. Exists(from) /\ Movable(from, r) /\ IsDir(DirName(r)) /\ ~ IsPrefix(r, from)
  BY <1>2 DEF Move
<1>6. from # << >> /\ r # << >>
  <2>1. IsPrefix(<< >>, from)
    BY <1>1, PrefixSelf
  <2>2. r = << >> => IsPrefix(r, from)
    BY <2>1
  <2> QED BY <1>5, <2>2 DEF Root
<1>7. Front(r) \in DOMAIN tree /\ tree[Front(r)].type = "dir"
  BY <1>5, <1>6 DEF DirName, Root, IsDir, Exists
<1>8. ~ IsPrefix(from, r)
  <2> SUFFICES ASSUME IsPrefix(from, r) PROVE FALSE
    OBVIOUS
  <2>1. tree[from].type = "file" /\ r # from
    BY <1>5 DEF Movable
  <2>2. IsPrefix(from, Front(r))
    BY <1>1, <1>3, <1>6, <2>1, PrefixFront
  <2>3. from = Front(r) \/ tree[from].type = "dir"
    BY <1>1, <1>7, <2>2, Ancestors
  <2> QED BY <1>7, <2>1, <2>3
<1>9. MayMove(tree, from, r)
  BY <1>1, <1>3, <1>5, <1>6, <1>7, <1>8 DEF MayMove, Exists
<1>10. gone = At(tree, r)
  <2>1. CASE Exists(r)
    BY <1>4, <2>1 DEF Standing, Under, At
  <2>2. CASE ~ Exists(r)
    <3>1. ASSUME NEW x \in At(tree, r) PROVE FALSE
      <4>1. x \in DOMAIN tree /\ IsPrefix(r, x) /\ r # x
        BY <2>2, <3>1 DEF At, Exists
      <4> QED BY <1>1, <1>3, <2>2, <4>1, Ancestors DEF Exists
    <3> QED BY <1>4, <2>2, <3>1 DEF Standing
  <2> QED BY <2>1, <2>2
<1>11. PICK moved, kept, rest : /\ moved = {Rebased(from, r, x) : x \in At(tree, from)}
                                /\ kept = {q \in (DOMAIN tree \ gone) \cup moved : ~ IsPrefix(from, q)}
                                /\ rest = DOMAIN tree \ (At(tree, from) \cup gone)
  OBVIOUS
<1>12. kept = rest \cup moved /\ moved \cap rest = {}
  <2>1. Placing(tree, from, r, kept, moved, rest)
    BY <1>10, <1>11 DEF Placing
  <2>2. IsTree(tree) /\ MayMove(tree, from, r)
    BY <1>1, <1>9
  <2> QED BY ONLY <2>1, <2>2, PlacedIs
<1>13. /\ tree' = [q \in kept |-> IF q \in moved THEN tree[Rebased(r, from, q)] ELSE tree[q]]
       /\ GiveBack(gone)
  <2>1. moved = {r \o SubSeq(x, Len(from) + 1, Len(x)) : x \in Under(from)}
    BY <1>11 DEF Rebased, Under, At
  <2>2. \A q : Rebased(r, from, q) = from \o SubSeq(q, Len(r) + 1, Len(q))
    BY DEF Rebased
  <2> DEFINE final == Target(from, to)
             over == Standing(final)
             shifted == {final \o SubSeq(x, Len(from) + 1, Len(x)) : x \in Under(from)}
  <2>3. /\ tree' = [q \in {x \in (DOMAIN tree \ over) \cup shifted : ~ IsPrefix(from, x)} |->
                      IF q \in shifted THEN tree[from \o SubSeq(q, Len(final) + 1, Len(q))] ELSE tree[q]]
        /\ GiveBack(over)
    BY DEF Move
  <2>4. final = r /\ over = gone /\ shifted = moved
    BY <1>2, <1>4, <2>1
  <2> HIDE DEF final, over, shifted
  <2> QED BY <1>11, <2>2, <2>3, <2>4
<1>14. tree' = [q \in rest \cup moved |-> IF q \in rest THEN tree[q] ELSE tree[Rebased(r, from, q)]]
  BY <1>12, <1>13
<1>15. Relocated(tree, from, r, tree')
  BY <1>10, <1>11, <1>14 DEF Relocated
<1>16. PICK b, n, mb, mn : b = Total(Weights(tree), gone) /\ n = Cardinality(gone) /\ mb = - b /\ mn = - n
  OBVIOUS
<1>17. mb = - Total(Weights(tree), At(tree, r)) /\ mn = - Cardinality(At(tree, r))
  BY <1>10, <1>16
<1>18. Differs(tree, tree', mb, mn)
  BY <1>1, <1>9, <1>15, <1>17, MoveTree
<1>19. gone \subseteq DOMAIN tree /\ IsFiniteSet(gone)
  BY <1>1, <1>10, FS_Subset DEF At, IsTree
<1>20. b \in Nat /\ n \in Nat /\ BytesIn(tree, gone) = b
  BY <1>1, <1>16, <1>19, BytesInTree, FS_CardinalityType
<1>21. usedBytes' = usedBytes - b /\ nodeCount' = nodeCount - n
  BY <1>13, <1>16, <1>20 DEF GiveBack
<1>22. usedBytes \in Nat /\ nodeCount \in Nat /\ usedBytes <= MaxBytes /\ nodeCount <= MaxNodes
  BY InvTypes DEF VfsInv
<1>23. Charge(mb, mn) /\ Reservable(mb, mn)
  BY <1>16, <1>20, <1>21, <1>22, QuotaAssumption DEF Charge, Reservable
<1> QED BY <1>18, <1>23, ChargedTree

(* The counts are true, until a move puts a node over one that holds it. *)
HonestInv == upended \/ VfsInv

(* Every command keeps the invariant, and an import restores it. *)
LEMMA VfsStep == HonestInv /\ [VfsNext]_vfsVars => HonestInv'
<1> SUFFICES ASSUME HonestInv, [VfsNext]_vfsVars, ~ upended' PROVE VfsInv'
  BY DEF HonestInv
<1>0. FileSize \subseteq Nat /\ 0 \in Nat /\ TRUE \in BOOLEAN /\ FALSE \in BOOLEAN
  BY PathAssumption
<1>1. ASSUME NEW p \in Path, NEW n \in FileSize, NEW append \in BOOLEAN, Write(p, n, append) PROVE VfsInv'
  <2>1. VfsInv
    BY <1>1 DEF Write, WriteFile, HonestInv
  <2> QED BY <1>0, <1>1, <2>1, PathIs, WriteLemma DEF Write
<1>2. ASSUME NEW p \in Path, Touch(p) PROVE VfsInv'
  <2>1. VfsInv
    BY <1>2 DEF Touch, WriteFile, HonestInv
  <2> QED BY <1>0, <1>2, <2>1, PathIs, WriteLemma DEF Touch
<1>3. ASSUME NEW p \in Path, NEW recursive \in BOOLEAN, Delete(p, recursive) PROVE VfsInv'
  <2>1. VfsInv
    BY <1>3 DEF Delete, HonestInv
  <2> QED BY <1>3, <2>1, DeleteLemma
<1>4. ASSUME NEW p \in Path, NEW parents \in BOOLEAN, Mkdir(p, parents) PROVE VfsInv'
  <2>1. CASE parents
    <3>1. MkDirs(p)
      BY <1>4, <2>1 DEF Mkdir
    <3>2. VfsInv
      BY <3>1 DEF MkDirs, HonestInv
    <3> QED BY <3>1, <3>2, MkDirsLemma
  <2>2. CASE ~ parents
    <3>1. MkDir(p)
      BY <1>4, <2>2 DEF Mkdir
    <3>2. VfsInv
      BY <3>1 DEF MkDir, HonestInv
    <3> QED BY <3>1, <3>2, MkDirLemma
  <2> QED BY <2>1, <2>2
<1>5. ASSUME NEW from \in Path, NEW to \in Path, Copy(from, to) PROVE VfsInv'
  <2>1. VfsInv
    BY <1>5 DEF Copy, WriteFile, HonestInv
  <2> QED BY <1>5, <2>1, CopyLemma
<1>6. ASSUME NEW from \in Path, NEW to \in Path, Mv(from, to) PROVE VfsInv'
  <2>1. CASE from = Root
    BY <1>6, <2>1 DEF Mv, MoveRoot
  <2>2. CASE from # Root
    <3>1. Move(from, to)
      BY <1>6, <2>2 DEF Mv
    <3>2. VfsInv
      BY <3>1 DEF Move, HonestInv
    <3> QED BY <2>2, <3>1, <3>2, MoveLemma
  <2> QED BY <2>1, <2>2
<1>7. ASSUME NEW s \in Snapshots, Import(s) PROVE VfsInv'
  BY <1>7, ImportLemma
<1>8. CASE UNCHANGED vfsVars
  BY <1>8 DEF vfsVars, VfsInv, HonestInv
<1>9. ASSUME NEW p \in Path, Rmdir(p) PROVE VfsInv'
  BY <1>0, <1>3, <1>9 DEF Rmdir
<1>10. ASSUME NEW p \in Path, NEW recursive \in BOOLEAN, Rm(p, recursive) PROVE VfsInv'
  BY <1>3, <1>10 DEF Rm
<1> QED BY <1>1, <1>2, <1>4, <1>5, <1>6, <1>7, <1>8, <1>9, <1>10 DEF VfsNext

(* What the invariant says of usage(). *)
LEMMA UsageFollows == HonestInv => UsageIsTrue
<1> SUFFICES ASSUME VfsInv PROVE UsageIsTrue
  BY DEF HonestInv, UsageIsTrue
<1>1. \A p \in DOMAIN tree : p # Root => IsDir(Front(p))
  BY DEF VfsInv, IsTree, IsDir, Exists, Root
<1>2. BytesIn(tree, DOMAIN tree) = Total(Weights(tree), DOMAIN tree)
  BY BytesInTree DEF VfsInv
<1> QED BY <1>1, <1>2 DEF VfsInv, UsageIsTrue, Counted

(* For any trees, paths, sizes and quotas, and any history of commands:    *)
(* every node hangs in a directory, usedBytes and nodeCount are what a     *)
(* count of the tree gives, and neither exceeds its quota, until a mv puts *)
(* a node over one that holds it or moves the root; an import makes it so  *)
(* again.                                                                  *)
THEOREM UsageAlwaysTrue == VfsSpec => []UsageIsTrue
<1>1. VfsInit => HonestInv
  BY VfsInitLemma DEF HonestInv
<1>2. HonestInv /\ [VfsNext]_vfsVars => HonestInv'
  BY VfsStep
<1>3. HonestInv => UsageIsTrue
  BY UsageFollows
<1> QED BY <1>1, <1>2, <1>3, PTL DEF VfsSpec

-----------------------------------------------------------------------------
(* Screen: rows of cells.                                                  *)

(* q is n rows, each of as many cells as W says. *)
RowsOf(q, n, W) == q \in Seq(W) /\ Len(q) = n

(* A function of that kind is one. *)
LEMMA RowsAre ==
  ASSUME NEW n \in Nat, NEW W, NEW q \in [1..n -> W]
  PROVE  RowsOf(q, n, W)
BY DEF RowsOf

(* What W says of each. *)
LEMMA RowsSay ==
  ASSUME NEW n, NEW W, NEW q, RowsOf(q, n, W)
  PROVE  n \in Nat /\ Len(q) = n /\ q \in [1..n -> W] /\ \A y \in 1..n : q[y] \in W
BY DEF RowsOf

(* Where W is of numbers, the rows are. *)
LEMMA RowsNat ==
  ASSUME NEW n, NEW W \in SUBSET Nat, NEW q, RowsOf(q, n, W)
  PROVE  q \in Seq(Nat)
<1>1. q \in Seq(W)
  BY DEF RowsOf
<1>2. q \in [1..Len(q) -> W] /\ Len(q) \in Nat
  BY <1>1, ElementOfSeq, LenProperties
<1>3. q \in [1..Len(q) -> Nat]
  BY <1>2
<1> QED BY <1>2, <1>3

(* Rows after rows. *)
LEMMA RowsJoin ==
  ASSUME NEW m, NEW n, NEW W, NEW p, RowsOf(p, m, W), NEW q, RowsOf(q, n, W)
  PROVE  RowsOf(p \o q, m + n, W)
<1>1. p \in Seq(W) /\ q \in Seq(W) /\ Len(p) = m /\ Len(q) = n
  BY DEF RowsOf
<1>2. p \o q \in Seq(W) /\ Len(p \o q) = Len(p) + Len(q)
  BY ONLY <1>1, ConcatProperties
<1> QED BY <1>1, <1>2 DEF RowsOf

(* A part of them. *)
LEMMA RowsPart ==
  ASSUME NEW n, NEW W, NEW q, RowsOf(q, n, W), NEW i \in Nat, NEW j \in Nat, 1 <= i, i <= j + 1, j <= n,
         NEW k, k = (j + 1) - i
  PROVE  RowsOf(SubSeq(q, i, j), k, W)
<1>1. PICK r : r = SubSeq(q, i, j)
  OBVIOUS
<1>2. n \in Nat /\ \A y \in 1..n : q[y] \in W
  BY RowsSay
<1>3. i \in Int /\ j \in Int /\ \A y \in i..j : q[y] \in W
  BY <1>2
<1>4. r \in Seq(W) /\ Len(r) = IF i <= j THEN (j - i) + 1 ELSE 0
  BY ONLY <1>1, <1>3, SubSeqProperties
<1>5. (IF i <= j THEN (j - i) + 1 ELSE 0) = k
  OBVIOUS
<1> QED BY <1>1, <1>4, <1>5 DEF RowsOf

(* A row taken out and a blank one put in elsewhere. *)
LEMMA ReplacedRows ==
  ASSUME NEW n \in Nat, NEW W, cols \in W, NEW p, RowsOf(p, n, W),
         NEW out \in 0..(n - 1), NEW in \in 0..(n - 1), n > 0
  PROVE  RowsOf(Replaced(p, out, in), n, W)
<1>1. PICK k, o, i, oo, ii : k = n - 1 /\ o = k - out /\ i = k - in /\ oo = out + 1 /\ ii = in + 1
  OBVIOUS
<1>2. /\ k \in Nat /\ n = k + 1 /\ oo \in Nat /\ ii \in Nat
      /\ out \in Nat /\ in \in Nat /\ o \in Nat /\ i \in Nat /\ out + o = k /\ in + i = k
      /\ oo = out + 1 /\ ii = in + 1 /\ oo - 1 = out /\ ii - 1 = in /\ ii + i = n
  BY <1>1
<1>3. Len(p) = n
  BY DEF RowsOf
<1>4. PICK q, p1, p2 : p1 = SubSeq(p, 1, out) /\ p2 = SubSeq(p, oo + 1, n) /\ q = p1 \o p2
  OBVIOUS
<1>5. RowsOf(p1, out, W)
  BY <1>2, <1>4, RowsPart
<1>6. RowsOf(p2, o, W)
  <2>1. oo + 1 \in Nat /\ 1 <= oo + 1 /\ oo + 1 <= n + 1 /\ n <= n /\ o = (n + 1) - (oo + 1)
    BY <1>2
  <2> QED BY <1>4, <2>1, RowsPart
<1>7. RowsOf(q, k, W)
  BY <1>2, <1>4, <1>5, <1>6, RowsJoin
<1>8. RemoveAt(p, oo) = q
  BY <1>2, <1>3, <1>4 DEF RemoveAt
<1>9. PICK q1, q2, q3, q4 : q1 = SubSeq(q, 1, in) /\ q2 = SubSeq(q, ii, k) /\ q3 = <<cols>> /\ q4 = (q1 \o q3) \o q2
  OBVIOUS
<1>10. RowsOf(q1, in, W)
  BY <1>2, <1>7, <1>9, RowsPart
<1>11. RowsOf(q2, i, W)
  <2>1. 1 <= ii /\ ii <= k + 1 /\ k <= k /\ i = (k + 1) - ii
    BY <1>2
  <2> QED BY <1>2, <1>7, <1>9, <2>1, RowsPart
<1>12. RowsOf(q3, 1, W)
  BY <1>9 DEF RowsOf
<1>13. RowsOf(q1 \o q3, ii, W)
  BY <1>2, <1>10, <1>12, RowsJoin
<1>14. RowsOf(q4, n, W)
  BY <1>2, <1>9, <1>11, <1>13, RowsJoin
<1>15. Len(q) = k
  BY <1>7 DEF RowsOf
<1>16. InsertAt(q, ii, cols) = q4
  BY <1>2, <1>9, <1>15 DEF InsertAt
<1> QED BY <1>1, <1>8, <1>14, <1>16 DEF Replaced

(* ... however often. *)
LEMMA RolledRows ==
  ASSUME rows \in Nat, rows > 0, NEW W, cols \in W, RowsOf(grid, rows, W),
         NEW out \in 0..(rows - 1), NEW in \in 0..(rows - 1), NEW n \in Nat
  PROVE  RowsOf(Rolled(out, in, n), rows, W)
<1>1. PICK X : X = {q \in Seq(W) : RowsOf(q, rows, W)}
  OBVIOUS
<1>2. grid \in X /\ \A q \in X : RowsOf(q, rows, W) /\ Replaced(q, out, in) \in X
  <2>1. \A q : RowsOf(q, rows, W) => q \in X
    BY <1>1 DEF RowsOf
  <2> QED BY <1>1, <2>1, ReplacedRows
<1>3. PICK k, r : k = Smaller(n, rows) /\ r = [i \in 1..k |-> i]
  OBVIOUS
<1>4. k \in Nat /\ DOMAIN r = 1..k
  BY <1>3 DEF Smaller
<1>5. PICK S : S = 1..k
  OBVIOUS
<1>6. PICK c : c = Some(S)
  OBVIOUS
<1>7. IsFiniteSet(S) /\ Chooses(c, S) /\ \A s \in SUBSET S : c[s] = CHOOSE x \in s : TRUE
  <2>1. 1 \in Int /\ k \in Int
    BY <1>4
  <2>2. IsFiniteSet(S)
    BY <1>5, <2>1, FS_Interval
  <2>3. Chooses(c, S)
    BY <1>6, SomeChooses
  <2>4. \A s \in SUBSET S : c[s] = CHOOSE x \in s : TRUE
    BY <1>6 DEF Some
  <2> QED BY <2>2, <2>3, <2>4
<1>8. \A s \in SUBSET S : s # {} => c[s] \in S
  BY <1>7 DEF Chooses
<1> DEFINE Eq(g) == g = [s \in SUBSET S |->
                          IF s = {} THEN grid ELSE Replaced(g[s \ {CHOOSE x \in s : TRUE}], out, in)]
<1>9. \E g : Eq(g)
  <2>1. PICK F : F = [e \in S \X X |-> Replaced(e[2], out, in)]
    OBVIOUS
  <2>2. PICK g : Applies(g, F, grid, c, S)
    BY <1>7, FoldExists
  <2>3. g = [s \in SUBSET S |-> Applied(g, F, grid, c, s)]
    BY <2>2 DEF Applies
  <2>4. \A s \in SUBSET S : g[s] = IF s = {} THEN grid ELSE F[<<c[s], g[s \ {c[s]}]>>]
    <3>1. PICK h : h = [s \in SUBSET S |-> Applied(g, F, grid, c, s)]
      OBVIOUS
    <3>2. g = h
      BY <2>3, <3>1
    <3> QED BY <3>1, <3>2 DEF Applied
  <2>5. ASSUME NEW s \in SUBSET S, s # {}, g[s \ {c[s]}] \in X
        PROVE  g[s] = Replaced(g[s \ {c[s]}], out, in) /\ g[s] \in X
    <3>1. PICK e : e = <<c[s], g[s \ {c[s]}]>>
      OBVIOUS
    <3>2. e \in S \X X /\ e[2] = g[s \ {c[s]}]
      BY <1>8, <2>5, <3>1
    <3>3. g[s] = Replaced(e[2], out, in)
      BY <2>1, <2>4, <2>5, <3>1, <3>2
    <3> QED BY <1>2, <2>5, <3>2, <3>3
  <2>6. g[{}] \in X /\ \A s \in SUBSET S : s # {} /\ g[s \ {c[s]}] \in X => g[s] \in X
    BY <1>2, <2>4, <2>5
  <2>7. \A s \in SUBSET S : g[s] \in X
    BY ONLY <1>7, <2>6, FoldStays
  <2>8. \A s \in SUBSET S : Applied(g, F, grid, c, s) =
          IF s = {} THEN grid ELSE Replaced(g[s \ {CHOOSE x \in s : TRUE}], out, in)
    <3> SUFFICES ASSUME NEW s \in SUBSET S, s # {}
                 PROVE  Applied(g, F, grid, c, s) = Replaced(g[s \ {CHOOSE x \in s : TRUE}], out, in)
      BY DEF Applied
    <3>1. PICK d : d = s \ {c[s]}
      OBVIOUS
    <3>2. g[d] \in X
      BY <2>7, <3>1
    <3>3. g[s] = Applied(g, F, grid, c, s)
      BY <2>4 DEF Applied
    <3>4. c[s] = CHOOSE x \in s : TRUE
      BY <1>7
    <3> QED BY <2>5, <3>1, <3>2, <3>3, <3>4
  <2> QED BY <2>3, <2>8
<1>10. PICK g : g = CHOOSE f : Eq(f)
  OBVIOUS
<1>11. Eq(g)
  BY <1>9, <1>10
<1>12. Rolled(out, in, n) = g[S]
  BY <1>3, <1>4, <1>5, <1>10 DEF Rolled, FoldSeq, FoldFunction, FoldFunctionOnSet, MapThenFoldSet
<1>13. g[{}] \in X /\ \A s \in SUBSET S : s # {} /\ g[s \ {c[s]}] \in X => g[s] \in X
  <2>1. g[{}] = grid
    BY <1>11
  <2>2. ASSUME NEW s \in SUBSET S, s # {}, g[s \ {c[s]}] \in X PROVE g[s] \in X
    <3>1. g[s] = Replaced(g[s \ {c[s]}], out, in)
      BY <1>7, <1>11, <2>2
    <3> QED BY <1>2, <2>2, <3>1
  <2> QED BY <1>2, <2>1, <2>2
<1>14. g[S] \in X
  <2> HIDE DEF Eq
  <2> QED BY ONLY <1>7, <1>13, FoldStays
<1> QED BY <1>2, <1>12, <1>14

-----------------------------------------------------------------------------
(* Screen: cells.                                                          *)

(* Cells adds up the rows. *)
LEMMA CellsAdded == ASSUME NEW q PROVE Cells(q) = Added(q)
<1>1. PICK g : g = CHOOSE f : AddsAny(f, q)
  OBVIOUS
<1>2. Cells(q) = g[DOMAIN q]
  BY <1>1 DEF Cells, FoldSeq, FoldFunction, FoldFunctionOnSet, MapThenFoldSet, AddsAny
<1> QED BY <1>1, <1>2 DEF Added

(* The cells of rows after rows. *)
LEMMA CellsJoin ==
  ASSUME NEW p \in Seq(Nat), NEW q \in Seq(Nat)
  PROVE  p \o q \in Seq(Nat) /\ Cells(p \o q) = Cells(p) + Cells(q) /\ Cells(p) \in Nat /\ Cells(q) \in Nat
<1>1. PICK r : r = p \o q
  OBVIOUS
<1>2. r \in Seq(Nat) /\ Added(r) = Added(p) + Added(q) /\ Added(p) \in Nat /\ Added(q) \in Nat
  BY <1>1, AddedJoin, AddedIs
<1>3. Cells(r) = Added(r) /\ Cells(p) = Added(p) /\ Cells(q) = Added(q)
  BY CellsAdded
<1> QED BY <1>1, <1>2, <1>3

(* The cells of one row. *)
LEMMA CellsOne ==
  ASSUME NEW w \in Nat
  PROVE  Cells(<<w>>) = w /\ Cells(<< >>) = 0
<1>1. PICK p, q : p = <<w>> /\ q = << >>
  OBVIOUS
<1>2. Added(p) = w /\ Added(q) = 0
  BY <1>1, AddedOne
<1>3. Cells(p) = Added(p) /\ Cells(q) = Added(q)
  BY CellsAdded
<1> QED BY <1>1, <1>2, <1>3

(* Cells are counted by a natural number. *)
LEMMA CellsNat == ASSUME NEW q \in Seq(Nat) PROVE Cells(q) \in Nat
BY CellsAdded, AddedIs

(* The scrollback with both its bounds. *)
Kept ==
  {s \in [kept : Seq(Nat), cells : Nat] :
     Len(s.kept) <= MaxScrollback /\ Cells(s.kept) <= s.cells /\ s.cells <= MaxCells}

(* One row more is kept within the bounds: if all have to go for it, they  *)
(* can, as no more cells are there than were counted.                      *)
LEMMA PushedRowKept ==
  ASSUME NEW s \in Kept, NEW w \in Nat
  PROVE  PushedRow(s, w) \in Kept
<1>0. MaxScrollback \in Nat /\ MaxCells \in Nat
  BY ScreenAssumption
<1>1. /\ s.kept \in Seq(Nat) /\ s.cells \in Nat /\ Len(s.kept) <= MaxScrollback
      /\ Cells(s.kept) <= s.cells /\ s.cells <= MaxCells /\ Cells(s.kept) \in Nat
  BY CellsNat DEF Kept
<1>2. PICK kept, cells, m : kept = Append(s.kept, w) /\ cells = s.cells + w /\ m = Len(kept)
  OBVIOUS
<1>3. kept \in Seq(Nat) /\ m \in Nat /\ kept = s.kept \o <<w>> /\ cells \in Nat
  BY <1>1, <1>2
<1>4. Cells(kept) = Cells(s.kept) + w
  <2>1. PICK one : one = <<w>>
    OBVIOUS
  <2>2. one \in Seq(Nat) /\ kept = s.kept \o one /\ Cells(one) = w
    BY <1>3, <2>1, CellsOne
  <2>3. Cells(s.kept \o one) = Cells(s.kept) + Cells(one)
    BY ONLY <1>1, <2>2, CellsJoin
  <2> QED BY <2>2, <2>3
<1>5. PICK N : N = {n \in 0..m : m - n <= MaxScrollback /\ cells - Cells(SubSeq(kept, 1, n)) <= MaxCells}
  OBVIOUS
<1>6. m \in N
  <2>1. SubSeq(kept, 1, m) = kept
    BY <1>2, <1>3
  <2>2. cells - Cells(kept) <= MaxCells
    BY <1>0, <1>1, <1>2, <1>4
  <2>3. m - m <= MaxScrollback /\ m \in 0..m
    BY <1>0, <1>3
  <2>4. cells - Cells(SubSeq(kept, 1, m)) <= MaxCells
    BY <2>1, <2>2
  <2> QED BY <1>5, <2>3, <2>4
<1>7. PICK n : n = Dropped(kept, cells)
  OBVIOUS
<1>8. n \in N
  <2>1. N \subseteq Nat /\ N # {}
    BY <1>3, <1>5, <1>6
  <2>2. \E x \in N : \A y \in N : x <= y
    BY <2>1, LeastOne
  <2>3. n = CHOOSE x \in N : \A y \in N : x <= y
    BY <1>2, <1>5, <1>7 DEF Dropped, Min
  <2> QED BY <2>2, <2>3
<1>9. PICK a, b : a = SubSeq(kept, 1, n) /\ b = SubSeq(kept, n + 1, m)
  OBVIOUS
<1>10. n \in 0..m /\ m - n <= MaxScrollback /\ cells - Cells(a) <= MaxCells
  BY <1>5, <1>8, <1>9
<1>11. a \in Seq(Nat) /\ b \in Seq(Nat) /\ Len(b) = m - n
  <2>0. \A i \in 1..m : kept[i] \in Nat
    BY <1>2, <1>3
  <2>1. PICK j : j = n + 1
    OBVIOUS
  <2>2. j \in 1..(m + 1) /\ 1 \in 1..(m + 1) /\ m \in (j - 1)..m /\ n \in (1 - 1)..m
    BY <1>3, <1>10, <2>1
  <2>3. b = SubSeq(kept, j, m)
    BY <1>9, <2>1
  <2>4. a \in Seq(Nat)
    <3>1. 1 \in Int /\ n \in Int /\ \A i \in 1..n : kept[i] \in Nat
      <4>1. n \in Nat /\ n <= m /\ m \in Nat
        BY <1>3, <1>10
      <4> QED BY ONLY <2>0, <4>1
    <3> QED BY ONLY <1>9, <3>1, SubSeqProperties
  <2>5. b \in Seq(Nat) /\ Len(b) = m - n
    <3>1. j \in Int /\ m \in Int /\ \A i \in j..m : kept[i] \in Nat
      <4>1. j \in Nat /\ 1 <= j /\ m \in Nat
        BY <1>3, <2>2
      <4> QED BY ONLY <2>0, <4>1
    <3>2. b \in Seq(Nat) /\ Len(b) = IF j <= m THEN (m - j) + 1 ELSE 0
      BY ONLY <2>3, <3>1, SubSeqProperties
    <3>3. (IF j <= m THEN (m - j) + 1 ELSE 0) = m - n
      BY <1>3, <1>10, <2>1
    <3> QED BY <3>2, <3>3
  <2> QED BY <2>2, <2>4, <2>5
<1>12. kept = a \o b
  <2>1. 1 \in 1..(m + 1) /\ n \in (1 - 1)..m /\ m \in n..m
    BY <1>3, <1>10
  <2>2. SubSeq(kept, 1, n) \o SubSeq(kept, n + 1, m) = SubSeq(kept, 1, m)
    BY ONLY <1>2, <1>3, <2>1, ConcatAdjacentSubSeq
  <2>3. SubSeq(kept, 1, m) = kept
    BY <1>2, <1>3
  <2> QED BY <1>9, <2>2, <2>3
<1>13. Cells(kept) = Cells(a) + Cells(b) /\ Cells(a) \in Nat /\ Cells(b) \in Nat
  BY <1>11, <1>12, CellsJoin, CellsNat
<1>14. PushedRow(s, w) = [kept |-> b, cells |-> cells - Cells(a)]
  BY <1>2, <1>7, <1>9 DEF PushedRow
<1>15. cells - Cells(a) \in Nat /\ Cells(b) <= cells - Cells(a)
  <2>1. PICK i, j, u, v : i = Cells(a) /\ j = Cells(b) /\ u = Cells(s.kept) /\ v = s.cells
    OBVIOUS
  <2>2. u + w = i + j
    BY <1>4, <1>13, <2>1
  <2>3. i \in Nat /\ j \in Nat
    BY <1>13, <2>1
  <2>4. u \in Nat /\ v \in Nat /\ u <= v
    BY <1>1, <2>1
  <2>5. cells = v + w
    BY <1>2, <2>1
  <2>6. cells - i \in Nat /\ j <= cells - i
    BY ONLY <2>2, <2>3, <2>4, <2>5, w \in Nat
  <2> QED BY <2>1, <2>6
<1> QED BY <1>10, <1>11, <1>14, <1>15 DEF Kept

(* ... and so is any number of rows. *)
LEMMA PushedKept ==
  ASSUME [kept |-> scrollback, cells |-> scrollbackCells] \in Kept, NEW gone \in Seq(Nat)
  PROVE  Pushed(gone) \in Kept
<1>1. PICK k, S, base : k = Len(gone) /\ S = 1..k /\ base = [kept |-> scrollback, cells |-> scrollbackCells]
  OBVIOUS
<1>2. k \in Nat /\ DOMAIN gone = S /\ base \in Kept /\ \A i \in S : gone[i] \in Nat
  BY <1>1
<1>3. PICK c : c = [s \in SUBSET S |-> Max(s)]
  OBVIOUS
<1>4. Chooses(c, S) /\ IsFiniteSet(S)
  <2>1. c = [s \in SUBSET (1..k) |-> Max(s)]
    BY ONLY <1>1, <1>3
  <2>2. Chooses(c, 1..k) /\ IsFiniteSet(1..k)
    BY ONLY <1>2, <2>1, LastChooses
  <2> QED BY ONLY <1>1, <2>2
<1>5. \A s \in SUBSET S : c[s] = Max(s) /\ (s # {} => c[s] \in S)
  BY <1>3, <1>4 DEF Chooses
<1> DEFINE Eq(g) == g = [s \in SUBSET S |->
                          IF s = {} THEN base ELSE PushedRow(g[s \ {Max(s)}], gone[Max(s)])]
<1>6. \E g : Eq(g)
  <2>1. PICK F : F = [e \in S \X Kept |-> PushedRow(e[2], gone[e[1]])]
    OBVIOUS
  <2>2. PICK g : Applies(g, F, base, c, S)
    BY <1>4, FoldExists
  <2>3. g = [s \in SUBSET S |-> Applied(g, F, base, c, s)]
    BY <2>2 DEF Applies
  <2>4. \A s \in SUBSET S : g[s] = IF s = {} THEN base ELSE F[<<c[s], g[s \ {c[s]}]>>]
    <3>1. PICK h : h = [s \in SUBSET S |-> Applied(g, F, base, c, s)]
      OBVIOUS
    <3>2. g = h
      BY <2>3, <3>1
    <3> QED BY <3>1, <3>2 DEF Applied
  <2>5. ASSUME NEW s \in SUBSET S, s # {}, g[s \ {c[s]}] \in Kept
        PROVE  g[s] = PushedRow(g[s \ {c[s]}], gone[c[s]]) /\ g[s] \in Kept
    <3>1. PICK e : e = <<c[s], g[s \ {c[s]}]>>
      OBVIOUS
    <3>2. e \in S \X Kept /\ e[1] = c[s] /\ e[2] = g[s \ {c[s]}]
      BY <1>5, <2>5, <3>1
    <3>3. g[s] = PushedRow(e[2], gone[e[1]])
      BY <2>1, <2>4, <2>5, <3>1, <3>2
    <3> QED BY <1>2, <1>5, <2>5, <3>2, <3>3, PushedRowKept
  <2>6. g[{}] \in Kept /\ \A s \in SUBSET S : s # {} /\ g[s \ {c[s]}] \in Kept => g[s] \in Kept
    BY <1>2, <2>4, <2>5
  <2>7. \A s \in SUBSET S : g[s] \in Kept
    BY ONLY <1>4, <2>6, FoldStays
  <2>8. \A s \in SUBSET S : Applied(g, F, base, c, s) =
          IF s = {} THEN base ELSE PushedRow(g[s \ {Max(s)}], gone[Max(s)])
    <3> SUFFICES ASSUME NEW s \in SUBSET S, s # {}
                 PROVE  Applied(g, F, base, c, s) = PushedRow(g[s \ {Max(s)}], gone[Max(s)])
      BY DEF Applied
    <3>1. PICK r : r = s \ {c[s]}
      OBVIOUS
    <3>2. g[r] \in Kept
      BY <2>7, <3>1
    <3>3. g[s] = Applied(g, F, base, c, s)
      BY <2>4 DEF Applied
    <3> QED BY <1>5, <2>5, <3>1, <3>2, <3>3
  <2> QED BY <2>3, <2>8
<1>7. PICK g : g = CHOOSE f : Eq(f)
  OBVIOUS
<1>8. Eq(g)
  BY <1>6, <1>7
<1>9. Pushed(gone) = g[S]
  BY <1>1, <1>2, <1>7 DEF Pushed, FoldLeft, MapThenFoldSet
<1>10. g[{}] \in Kept /\ \A s \in SUBSET S : s # {} /\ g[s \ {c[s]}] \in Kept => g[s] \in Kept
  <2>1. g[{}] = base
    BY <1>8
  <2>2. ASSUME NEW s \in SUBSET S, s # {}, g[s \ {c[s]}] \in Kept PROVE g[s] \in Kept
    <3>1. g[s] = PushedRow(g[s \ {c[s]}], gone[c[s]])
      BY <1>5, <1>8, <2>2
    <3> QED BY <1>2, <1>5, <2>2, <3>1, PushedRowKept
  <2> QED BY <1>2, <2>1, <2>2
<1>11. g[S] \in Kept
  <2> HIDE DEF Eq
  <2> QED BY ONLY <1>4, <1>10, FoldStays
<1> QED BY <1>9, <1>11

-----------------------------------------------------------------------------
(* Screen: the invariant.                                                  *)

(* How many cells a row may have, and where the cursor may be. *)
Widths == IF strayed THEN {w \in Nat : w >= cols} ELSE {cols}
Xs == IF strayed THEN Nat ELSE 0..(cols - 1)
Ys == IF strayed THEN Nat ELSE 0..(rows - 1)

(* Beyond what is stated of the screen: the cursor that was saved has      *)
(* coordinates, if not ones of the screen as it is now.                    *)
ScreenInv ==
  /\ cols \in Nat \ {0} /\ rows \in Nat \ {0} /\ strayed \in BOOLEAN
  /\ RowsOf(grid, rows, Widths)
  /\ cursor \in [x : Xs, y : Ys]
  /\ region \in [top : 0..(rows - 1), bottom : 0..(rows - 1)] /\ region.top <= region.bottom
  /\ saved = NotSaved \/ saved \in [x : Nat, y : Nat]
  /\ [kept |-> scrollback, cells |-> scrollbackCells] \in Kept
  /\ threw => strayed

(* A step that leaves the size and the region alone, and the rows as many  *)
(* and as long as they may be.                                             *)
SameFrame == UNCHANGED <<cols, rows, region, strayed>> /\ RowsOf(grid', rows, Widths) /\ (threw' => strayed)

(* Places in the grid are places for the cursor. *)
LEMMA Places ==
  ASSUME ScreenInv
  PROVE  /\ cols \in Nat \ {0} /\ rows \in Nat \ {0} /\ cols \in Widths /\ Widths \in SUBSET Nat
         /\ Xs \in SUBSET Nat /\ Ys \in SUBSET Nat
         /\ cursor.x \in Xs /\ cursor.y \in Ys /\ cursor = [x |-> cursor.x, y |-> cursor.y]
         /\ 0 \in Xs /\ \A x \in 0..(cols - 1) : x \in Xs
         /\ 0 \in Ys /\ \A y \in 0..(rows - 1) : y \in Ys
         /\ region.top \in 0..(rows - 1) /\ region.bottom \in 0..(rows - 1)
<1>1. cols \in Nat \ {0} /\ rows \in Nat \ {0}
  BY DEF ScreenInv
<1>2. cursor \in [x : Xs, y : Ys]
  BY DEF ScreenInv
<1>3. cols \in Widths /\ Widths \in SUBSET Nat
  BY <1>1 DEF Widths
<1>4. /\ Xs \in SUBSET Nat /\ Ys \in SUBSET Nat
      /\ 0 \in Xs /\ \A x \in 0..(cols - 1) : x \in Xs
      /\ 0 \in Ys /\ \A y \in 0..(rows - 1) : y \in Ys
  BY <1>1 DEF Xs, Ys
<1>5. region.top \in 0..(rows - 1) /\ region.bottom \in 0..(rows - 1)
  BY DEF ScreenInv
<1> QED BY <1>1, <1>2, <1>3, <1>4, <1>5

(* The invariant holds of a screen as it is made. *)
LEMMA ScreenInvInit == ScreenInit => ScreenInv
<1> SUFFICES ASSUME ScreenInit PROVE ScreenInv
  OBVIOUS
<1>1. PICK shape \in Shape :
        /\ cols = shape[1] /\ rows = shape[2] /\ grid = [y \in 1..shape[2] |-> shape[1]]
        /\ cursor = [x |-> 0, y |-> 0] /\ saved = NotSaved /\ region = FullRegion(shape[2])
        /\ scrollback = << >> /\ scrollbackCells = 0 /\ strayed = FALSE /\ threw = FALSE
  BY DEF ScreenInit
<1>2. cols \in Nat \ {0} /\ rows \in Nat \ {0}
  BY <1>1, ScreenAssumption
<1>3. RowsOf(grid, rows, Widths)
  <2>1. Widths = {cols} /\ grid \in [1..rows -> {cols}]
    BY <1>1 DEF Widths
  <2> QED BY <1>2, <2>1, RowsAre
<1>4. cursor \in [x : Xs, y : Ys]
  BY <1>1, <1>2 DEF Xs, Ys
<1>5. region \in [top : 0..(rows - 1), bottom : 0..(rows - 1)] /\ region.top <= region.bottom
  BY <1>1, <1>2 DEF FullRegion
<1>6. [kept |-> scrollback, cells |-> scrollbackCells] \in Kept
  <2>1. Cells(<<0>>) = 0 /\ Cells(<< >>) = 0
    BY CellsOne
  <2>2. << >> \in Seq(Nat) /\ Len(<< >>) = 0
    OBVIOUS
  <2> QED BY <1>1, <2>1, <2>2, ScreenAssumption DEF Kept
<1> QED BY <1>1, <1>2, <1>3, <1>4, <1>5, <1>6 DEF ScreenInv

(* The scrollback after a step. *)
LEMMA KeepsNoneKept ==
  ScreenInv /\ KeepsNone => [kept |-> scrollback', cells |-> scrollbackCells'] \in Kept
BY DEF ScreenInv, KeepsNone

(* Rows that scroll off into the scrollback leave it within its bounds. *)
LEMMA KeepsKept ==
  ASSUME ScreenInv, NEW gone \in Seq(Nat), Keeps(gone)
  PROVE  [kept |-> scrollback', cells |-> scrollbackCells'] \in Kept
<1>1. [kept |-> scrollback, cells |-> scrollbackCells] \in Kept
  BY DEF ScreenInv
<1>2. PICK s : s = Pushed(gone)
  OBVIOUS
<1>3. s \in Kept
  BY <1>1, <1>2, PushedKept
<1>4. s = [kept |-> s.kept, cells |-> s.cells]
  BY <1>3 DEF Kept
<1> QED BY <1>2, <1>3, <1>4 DEF Keeps

(* A step within the frame that keeps the bounds keeps the invariant. *)
LEMMA FrameKeeps ==
  ASSUME ScreenInv, SameFrame, NEW x \in Xs, NEW y \in Ys, cursor' = [x |-> x, y |-> y],
         saved' = saved \/ saved' = cursor,
         [kept |-> scrollback', cells |-> scrollbackCells'] \in Kept
  PROVE  ScreenInv'
<1>1. saved' = NotSaved \/ saved' \in [x : Nat, y : Nat]
  BY Places DEF ScreenInv
<1>2. Widths' = Widths /\ Xs' = Xs /\ Ys' = Ys
  BY DEF SameFrame, Widths, Xs, Ys
<1>3. cursor' \in [x : Xs', y : Ys']
  BY <1>2
<1>4. RowsOf(grid', rows', Widths')
  BY <1>2 DEF SameFrame
<1>5. cols' \in Nat \ {0} /\ rows' \in Nat \ {0} /\ strayed' \in BOOLEAN /\ (threw' => strayed')
  BY DEF ScreenInv, SameFrame
<1>6. region' \in [top : 0..(rows' - 1), bottom : 0..(rows' - 1)] /\ region'.top <= region'.bottom
  BY DEF ScreenInv, SameFrame
<1> QED BY <1>1, <1>3, <1>4, <1>5, <1>6 DEF ScreenInv

(* The cursor moves. *)
LEMMA MovesKeep ==
  ASSUME ScreenInv, Moves, NEW x \in Xs, NEW y \in Ys, cursor' = [x |-> x, y |-> y]
  PROVE  ScreenInv'
<1>1. SameFrame /\ saved' = saved
  BY DEF ScreenInv, Moves, Sized, SameFrame
<1>2. KeepsNone
  BY DEF Moves
<1> QED BY <1>1, <1>2, KeepsNoneKept, FrameKeeps

(* The cursor goes to a column. *)
LEMMA ToColumnKeeps ==
  ASSUME ScreenInv, NEW x \in Xs, ToColumn(x)
  PROVE  ScreenInv'
<1>1. cursor.y \in Ys /\ cursor' = [x |-> x, y |-> cursor.y]
  BY Places DEF ToColumn
<1> QED BY <1>1, MovesKeep DEF ToColumn

(* The cursor goes to a row. *)
LEMMA ToRowKeeps ==
  ASSUME ScreenInv, NEW y \in Ys, ToRow(y)
  PROVE  ScreenInv'
<1>1. cursor.x \in Xs /\ cursor' = [x |-> cursor.x, y |-> y]
  BY Places DEF ToRow
<1> QED BY <1>1, MovesKeep DEF ToRow

(* The cursor goes to a cell. *)
LEMMA ToCellKeeps ==
  ASSUME ScreenInv, NEW x \in Xs, NEW y \in Ys, ToCell(x, y)
  PROVE  ScreenInv'
BY MovesKeep DEF ToCell

(* Cells change, the cursor does not. *)
LEMMA EditsKeep ==
  ASSUME ScreenInv, Edits, RowsOf(grid', rows, Widths),
         [kept |-> scrollback', cells |-> scrollbackCells'] \in Kept
  PROVE  ScreenInv'
<1>1. SameFrame /\ saved' = saved /\ cursor' = cursor
  BY DEF Edits, Sized, SameFrame
<1> QED BY <1>1, Places, FrameKeeps

(* The row of the cursor, where it is there. *)
LEMMA RowThere ==
  ASSUME ScreenInv, RowIsThere
  PROVE  /\ Width \in Widths /\ cursor.y \in 0..(rows - 1)
         /\ \A w \in Widths : RowBecomes(w) => RowsOf(grid', rows, Widths)
<1>1. cursor.y \in Nat /\ cursor.y < rows /\ rows \in Nat
  BY Places DEF RowIsThere
<1>2. PICK i : i = cursor.y + 1
  OBVIOUS
<1>3. i \in 1..rows /\ cursor.y \in 0..(rows - 1)
  BY <1>1, <1>2
<1>4. RowsOf(grid, rows, Widths)
  BY DEF ScreenInv
<1>5. grid \in [1..rows -> Widths]
  BY <1>4, RowsSay
<1>6. \A w \in Widths : [grid EXCEPT ![i] = w] \in [1..rows -> Widths]
  BY <1>5
<1>7. \A w \in Widths : RowsOf([grid EXCEPT ![i] = w], rows, Widths)
  BY <1>1, <1>6, RowsAre
<1>8. Width \in Widths
  BY <1>2, <1>3, <1>5 DEF Width
<1> QED BY <1>2, <1>3, <1>7, <1>8 DEF RowBecomes

(* Where it is not, a cursor was restored outside. *)
LEMMA RowGone == ScreenInv /\ ~ RowIsThere => strayed
BY DEF ScreenInv, RowIsThere, Ys

(* A row may be made longer for a cursor outside. *)
LEMMA Longer ==
  ASSUME ScreenInv, NEW w \in Widths, NEW z \in Nat, strayed \/ z <= cols
  PROVE  Larger(w, z) \in Widths
BY Places DEF Widths, Larger

(* The row of the cursor is replaced by one as long as it may be. *)
LEMMA RowIsKeeps ==
  ASSUME ScreenInv, NEW w, RowIsThere => w \in Widths, NEW touched, RowIs(w, touched)
  PROVE  ScreenInv'
<1>1. CASE RowIsThere
  <2>1. RowBecomes(w) /\ Edits /\ KeepsNone
    BY <1>1 DEF RowIs
  <2> QED BY <1>1, <2>1, RowThere, KeepsNoneKept, EditsKeep
<1>2. CASE ~ RowIsThere
  <2>1. UNCHANGED <<cols, rows, strayed, grid, cursor, saved, region>> /\ KeepsNone
    BY <1>2 DEF RowIs
  <2>2. SameFrame /\ cursor' = cursor /\ saved' = saved
    BY <1>2, <2>1, RowGone DEF SameFrame, ScreenInv
  <2> QED BY <2>1, <2>2, Places, KeepsNoneKept, FrameKeeps
<1> QED BY <1>1, <1>2

(* Lines scroll within the region. *)
LEMMA RolledKeeps ==
  ASSUME ScreenInv, NEW out \in 0..(rows - 1), NEW in \in 0..(rows - 1), NEW n \in Nat
  PROVE  RowsOf(Rolled(out, in, n), rows, Widths)
<1>1. rows \in Nat /\ rows > 0 /\ RowsOf(grid, rows, Widths) /\ cols \in Widths
  BY Places DEF ScreenInv
<1> QED BY <1>1, RolledRows

(* What scrolling up makes of the scrollback. *)
LEMMA ScrollsUpKept ==
  ASSUME ScreenInv, NEW n \in Nat, ScrollsUp(n)
  PROVE  RowsOf(grid', rows, Widths) /\ [kept |-> scrollback', cells |-> scrollbackCells'] \in Kept
<1>1. region.top \in 0..(rows - 1) /\ region.bottom \in 0..(rows - 1) /\ rows \in Nat /\ cols \in Nat
  BY Places
<1>2. RowsOf(grid', rows, Widths)
  BY <1>1, RolledKeeps DEF ScrollsUp
<1>3. CASE region.top = 0
  <2>1. PICK m, k, p, q : /\ m = Smaller(n, region.bottom + 1)
                          /\ k = Larger(Smaller(n, rows) - region.bottom - 1, 0)
                          /\ p = SubSeq(grid, 1, m) /\ q = [i \in 1..k |-> cols]
    OBVIOUS
  <2>2. m \in Nat /\ m <= rows /\ k \in Nat
    BY <1>1, <2>1 DEF Smaller, Larger
  <2>3. q \in Seq(Nat)
    <3>1. q \in [1..k -> Nat]
      BY <1>1, <2>1
    <3>2. RowsOf(q, k, Nat)
      BY <2>2, <3>1, RowsAre
    <3> QED BY <3>2 DEF RowsOf
  <2>4. p \in Seq(Nat)
    <3>1. RowsOf(grid, rows, Widths) /\ 1 <= m + 1 /\ m = (m + 1) - 1 /\ 1 <= 1 /\ 1 \in Nat
      BY <2>2 DEF ScreenInv
    <3>2. RowsOf(p, m, Widths)
      BY <2>1, <2>2, <3>1, RowsPart
    <3> QED BY <3>2, Places, RowsNat
  <2>5. p \o q \in Seq(Nat)
    BY <2>3, <2>4, ConcatProperties
  <2>6. Keeps(p \o q)
    BY <1>3, <2>1 DEF ScrollsUp
  <2> QED BY <1>2, <2>5, <2>6, KeepsKept
<1>4. CASE region.top # 0
  <2>1. KeepsNone
    BY <1>4 DEF ScrollsUp
  <2> QED BY <1>2, <2>1, KeepsNoneKept
<1> QED BY <1>3, <1>4

(* A line feed, of whatever kind. *)
LEMMA FeedsLineKeeps ==
  ASSUME ScreenInv, NEW x \in Xs, FeedsLine(x), Sized, UNCHANGED <<saved, region>>
  PROVE  ScreenInv'
<1>0. cursor.y \in Ys /\ rows \in Nat
  BY Places
<1>1. CASE cursor.y = region.bottom
  <2>1. cursor' = [x |-> x, y |-> cursor.y] /\ ScrollsUp(1)
    BY <1>1 DEF FeedsLine
  <2>2. RowsOf(grid', rows, Widths) /\ [kept |-> scrollback', cells |-> scrollbackCells'] \in Kept
    BY <2>1, ScrollsUpKept
  <2>3. SameFrame
    BY <2>2 DEF SameFrame, Sized
  <2> QED BY <1>0, <2>1, <2>2, <2>3, FrameKeeps
<1>2. CASE cursor.y # region.bottom
  <2>1. PICK y : y = IF cursor.y < rows - 1 THEN cursor.y + 1 ELSE cursor.y
    OBVIOUS
  <2>2. y \in Ys
    BY <1>0, <2>1 DEF Ys
  <2>3. cursor' = [x |-> x, y |-> y] /\ UNCHANGED grid /\ KeepsNone
    BY <1>2, <2>1 DEF FeedsLine
  <2>4. SameFrame
    BY <2>3 DEF SameFrame, Sized, ScreenInv
  <2> QED BY <2>2, <2>3, <2>4, KeepsNoneKept, FrameKeeps
<1> QED BY <1>1, <1>2

(* Printing. *)
LEMMA PrintsKeep == ASSUME ScreenInv, PrintHere \/ PrintWrapped \/ PrintNowhere PROVE ScreenInv'
<1>0. /\ cols \in Nat \ {0} /\ cursor.x \in Xs /\ cursor.x \in Nat /\ cursor.y \in Ys /\ 0 \in Xs
      /\ cursor = [x |-> cursor.x, y |-> cursor.y]
  BY Places
<1>1. CASE PrintHere
  <2>1. PICK x, w : /\ x = (IF cursor.x + 1 >= cols THEN cursor.x ELSE cursor.x + 1)
                    /\ w = Written(cursor.x)
    OBVIOUS
  <2>2. x \in Xs /\ (strayed \/ cursor.x + 1 <= cols)
    BY <1>0, <2>1 DEF Xs
  <2>3. RowIsThere /\ RowBecomes(w)
    BY <1>1, <2>1 DEF PrintHere
  <2>4. Width \in Widths
    BY <2>3, RowThere
  <2>5. w \in Widths
    BY <1>0, <2>1, <2>2, <2>4, Longer DEF Written
  <2>6. RowsOf(grid', rows, Widths)
    BY <2>3, <2>5, RowThere
  <2>7. cursor' = [x |-> x, y |-> cursor.y]
    BY <1>0, <1>1, <2>1 DEF PrintHere
  <2>8. SameFrame /\ saved' = saved /\ KeepsNone
    BY <1>1, <2>6 DEF PrintHere, SameFrame, Sized
  <2> QED BY <1>0, <2>2, <2>7, <2>8, KeepsNoneKept, FrameKeeps
<1>2. CASE PrintWrapped
  <2>1. PICK x : x = IF cols = 1 THEN 0 ELSE 1
    OBVIOUS
  <2>2. x \in Xs
    BY <1>0, <2>1, Places
  <2>3. FeedsLine(x) /\ Sized /\ UNCHANGED <<saved, region>>
    BY <1>2, <2>1 DEF PrintWrapped
  <2> QED BY <2>2, <2>3, FeedsLineKeeps
<1>3. CASE PrintNowhere
  <2>1. ~ RowIsThere /\ UNCHANGED <<cols, rows, grid, saved, region, strayed>> /\ KeepsNone
    BY <1>3 DEF PrintNowhere
  <2>2. PICK x : x = IF wrapNext THEN 0 ELSE cursor.x
    OBVIOUS
  <2>3. x \in Xs /\ cursor' = [x |-> x, y |-> cursor.y]
    BY <1>0, <1>3, <2>2 DEF PrintNowhere
  <2>4. SameFrame
    BY <2>1, RowGone DEF SameFrame, ScreenInv
  <2> QED BY <1>0, <2>1, <2>3, <2>4, KeepsNoneKept, FrameKeeps
<1> QED BY <1>1, <1>2, <1>3

(* A line feed, and the two escapes that are like it. *)
LEMMA LinesKeep == ASSUME ScreenInv, LineFeed \/ NextLine \/ Index PROVE ScreenInv'
<1>1. cursor.x \in Xs /\ 0 \in Xs
  BY Places
<1>2. PICK x \in {0, cursor.x} : FeedsLine(x) /\ Sized /\ UNCHANGED <<saved, region>>
  BY DEF LineFeed, NextLine, Index
<1> QED BY <1>1, <1>2, FeedsLineKeeps

(* A control character. *)
LEMMA C0Keeps == ASSUME ScreenInv, C0 PROVE ScreenInv'
<1>0. /\ cols \in Nat \ {0} /\ cursor.x \in Xs /\ cursor.x \in Nat /\ cursor.y \in Ys /\ 0 \in Xs
      /\ cursor = [x |-> cursor.x, y |-> cursor.y]
  BY Places
<1>1. CASE Backspace
  <2>1. PICK x : x = Larger(0, cursor.x - 1)
    OBVIOUS
  <2>2. x \in Xs
    BY <1>0, <2>1 DEF Larger, Xs
  <2> QED BY <1>1, <2>1, <2>2, ToColumnKeeps DEF Backspace
<1>2. CASE Tab
  <2>1. PICK x \in Smaller(cols - 1, cursor.x + 1)..(cols - 1) : ToColumn(x)
    BY <1>2 DEF Tab
  <2>2. x \in 0..(cols - 1)
    BY <1>0 DEF Smaller
  <2> QED BY <2>1, <2>2, Places, ToColumnKeeps
<1>3. CASE CarriageReturn
  <2>1. cursor' = [x |-> 0, y |-> cursor.y] /\ Moves
    BY <1>0, <1>3 DEF CarriageReturn
  <2> QED BY <1>0, <2>1, MovesKeep
<1> QED BY <1>1, <1>2, <1>3, LinesKeep DEF C0

(* The cursor ends up inside of the screen, wherever it is sent, if it was *)
(* inside.                                                                 *)
LEMMA CursorKeeps ==
  ASSUME ScreenInv, NEW n \in Nat,
         \/ CursorUp(n) \/ CursorDown(n) \/ CursorForward(n) \/ CursorBack(n)
         \/ CursorCol(n) \/ CursorRow(n) \/ CursorNextLine(n) \/ CursorPrevLine(n)
  PROVE  ScreenInv'
<1>0. /\ cols \in Nat \ {0} /\ rows \in Nat \ {0} /\ cursor.x \in Xs /\ cursor.y \in Ys
      /\ cursor.x \in Nat /\ cursor.y \in Nat /\ 0 \in Xs
      /\ region.top \in 0..(rows - 1) /\ region.bottom \in 0..(rows - 1)
  BY Places
<1>1. PICK k : k = Count1(n)
  OBVIOUS
<1>2. k \in Nat /\ k >= 1
  BY <1>1 DEF Count1, Larger
<1>3. Above(n) \in Ys /\ Below(n) \in Ys
  <2>1. PICK t, b, y : t = region.top /\ b = region.bottom /\ y = cursor.y
    OBVIOUS
  <2>2. PICK u, v : u = Larger(t, y - k) /\ v = Smaller(b, y + k)
    OBVIOUS
  <2>3. t \in 0..(rows - 1) /\ b \in 0..(rows - 1) /\ y \in Nat /\ rows \in Nat
    BY <1>0, <2>1
  <2>4. u \in Nat /\ (u = t \/ u <= y)
    BY ONLY <1>2, <2>2, <2>3 DEF Larger
  <2>5. v \in 0..(rows - 1)
    BY ONLY <1>2, <2>2, <2>3 DEF Smaller
  <2>6. u \in Ys /\ v \in Ys
    <3>1. CASE strayed
      BY <2>4, <2>5, <3>1 DEF Ys
    <3>2. CASE ~ strayed
      <4>1. Ys = 0..(rows - 1)
        BY <3>2 DEF Ys
      <4>2. y \in 0..(rows - 1)
        BY <1>0, <2>1, <4>1
      <4> QED BY ONLY <2>3, <2>4, <2>5, <4>1, <4>2
    <3> QED BY <3>1, <3>2
  <2> QED BY <1>1, <2>1, <2>2, <2>6 DEF Above, Below
<1>4. CASE CursorUp(n) \/ CursorDown(n)
  BY <1>3, <1>4, ToRowKeeps DEF CursorUp, CursorDown
<1>5. CASE CursorForward(n)
  <2>1. PICK x : x = Smaller(cols - 1, cursor.x + k)
    OBVIOUS
  <2>2. x \in Xs
    BY <1>0, <1>2, <2>1 DEF Smaller, Xs, Ys
  <2> QED BY <1>1, <1>5, <2>1, <2>2, ToColumnKeeps DEF CursorForward
<1>6. CASE CursorBack(n)
  <2>1. PICK x : x = Larger(0, cursor.x - k)
    OBVIOUS
  <2>2. x \in Xs
    BY <1>0, <1>2, <2>1 DEF Larger, Xs, Ys
  <2> QED BY <1>1, <1>6, <2>1, <2>2, ToColumnKeeps DEF CursorBack
<1>7. CASE CursorCol(n)
  <2>1. PICK x : x = Smaller(cols, k) - 1
    OBVIOUS
  <2>2. x \in Xs
    BY <1>0, <1>2, <2>1 DEF Smaller, Xs, Ys
  <2> QED BY <1>1, <1>7, <2>1, <2>2, ToColumnKeeps DEF CursorCol
<1>8. CASE CursorRow(n)
  <2>1. PICK y : y = Smaller(rows, k) - 1
    OBVIOUS
  <2>2. y \in Ys
    BY <1>0, <1>2, <2>1 DEF Smaller, Xs, Ys
  <2> QED BY <1>1, <1>8, <2>1, <2>2, ToRowKeeps DEF CursorRow
<1>9. CASE CursorNextLine(n) \/ CursorPrevLine(n)
  BY <1>0, <1>3, <1>9, ToCellKeeps DEF CursorNextLine, CursorPrevLine
<1> QED BY <1>4, <1>5, <1>6, <1>7, <1>8, <1>9

(* The cursor is set, within the screen or the region. *)
LEMMA CursorPosKeeps ==
  ASSUME ScreenInv, NEW n \in Nat, NEW m \in Nat, CursorPos(n, m)
  PROVE  ScreenInv'
<1>1. cols \in Nat \ {0} /\ rows \in Nat \ {0}
  BY DEF ScreenInv
<1>2. PICK x, y : x = Smaller(cols, Count1(m)) - 1 /\ y = Smaller(rows, Count1(n)) - 1
  OBVIOUS
<1>3. x \in 0..(cols - 1) /\ y \in 0..(rows - 1)
  BY <1>1, <1>2 DEF Smaller, Count1, Larger
<1> QED BY <1>2, <1>3, Places, ToCellKeeps DEF CursorPos

(* A cursor that is saved, and one that is restored, be it inside or not. *)
LEMMA SavedKeeps == ASSUME ScreenInv, SaveCursor \/ RestoreCursor PROVE ScreenInv'
<1>1. CASE SaveCursor
  <2>1. SameFrame /\ saved' = cursor /\ KeepsNone /\ cursor' = cursor
    BY <1>1 DEF SaveCursor, SameFrame, Sized, ScreenInv
  <2> QED BY <2>1, Places, KeepsNoneKept, FrameKeeps
<1>2. CASE RestoreCursor
  <2>1. /\ saved \in [x : Nat, y : Nat] /\ cursor' = saved /\ saved' = saved /\ threw' = FALSE
        /\ cols' = cols /\ rows' = rows /\ grid' = grid /\ region' = region /\ KeepsNone
        /\ strayed' = (strayed \/ saved.x >= cols \/ saved.y >= rows)
    BY <1>2 DEF RestoreCursor, ScreenInv
  <2>2. cols \in Nat \ {0} /\ rows \in Nat \ {0} /\ strayed \in BOOLEAN /\ strayed' \in BOOLEAN
    BY <2>1 DEF ScreenInv
  <2>3. RowsOf(grid', rows', Widths')
    <3>1. Widths \subseteq Widths'
      BY <2>1, <2>2 DEF Widths
    <3>2. RowsOf(grid, rows, Widths)
      BY DEF ScreenInv
    <3>3. grid \in [1..rows -> Widths']
      BY <3>1, <3>2, RowsSay
    <3> QED BY <2>1, <2>2, <3>3, RowsAre
  <2>4. cursor' \in [x : Xs', y : Ys']
    <3>1. CASE strayed'
      BY <2>1, <3>1 DEF Xs, Ys
    <3>2. CASE ~ strayed'
      <4>a. saved.x \in Nat /\ saved.y \in Nat
        BY <2>1
      <4>b. ~ (saved.x >= cols) /\ ~ (saved.y >= rows)
        BY <2>1, <3>2
      <4>1. saved.x < cols /\ saved.y < rows /\ saved.x \in Nat /\ saved.y \in Nat
        BY ONLY <2>2, <4>a, <4>b
      <4>2. saved.x \in 0..(cols - 1) /\ saved.y \in 0..(rows - 1)
        BY <2>2, <4>1
      <4>3. Xs' = 0..(cols - 1) /\ Ys' = 0..(rows - 1)
        BY <2>1, <3>2 DEF Xs, Ys
      <4>4. saved = [x |-> saved.x, y |-> saved.y]
        BY <2>1
      <4>5. cursor' = [x |-> saved.x, y |-> saved.y]
        BY <2>1, <4>4
      <4> QED BY ONLY <4>2, <4>3, <4>5
    <3> QED BY <3>1, <3>2
  <2>5. region' \in [top : 0..(rows' - 1), bottom : 0..(rows' - 1)] /\ region'.top <= region'.bottom
    BY <2>1 DEF ScreenInv
  <2> QED BY <2>1, <2>2, <2>3, <2>4, <2>5, KeepsNoneKept DEF ScreenInv
<1> QED BY <1>1, <1>2

(* Erasing, inserting and deleting in the row of the cursor. *)
LEMMA RowKeeps ==
  ASSUME ScreenInv, NEW n \in Nat, EraseInLine(n) \/ EraseChars(n) \/ InsertChars(n) \/ DeleteChars(n)
  PROVE  ScreenInv'
<1>0. /\ cols \in Nat \ {0} /\ cursor.x \in Xs /\ cursor.x \in Nat
      /\ strayed \/ cursor.x < cols
  BY Places DEF Xs
<1>1. RowIsThere => Width \in Widths
  BY RowThere
<1>2. PICK k : k = Count1(n)
  OBVIOUS
<1>3. k \in Nat /\ k >= 1
  BY <1>2 DEF Count1, Larger
<1>4. CASE EraseInLine(n)
  <2>1. ErasedTo(n) \in Nat /\ (strayed \/ ErasedTo(n) <= cols)
    BY <1>0 DEF ErasedTo
  <2>2. RowIsThere => Larger(Width, ErasedTo(n)) \in Widths
    BY <1>1, <2>1, Longer
  <2> QED BY <1>4, <2>2, RowIsKeeps DEF EraseInLine
<1>5. CASE EraseChars(n)
  <2>1. PICK z : z = Smaller(cols, cursor.x + k)
    OBVIOUS
  <2>2. z \in Nat /\ z <= cols
    BY <1>0, <1>3, <2>1 DEF Smaller
  <2>3. RowIsThere => Larger(Width, z) \in Widths
    BY <1>1, <2>2, Longer
  <2> QED BY <1>2, <1>5, <2>1, <2>3, RowIsKeeps DEF EraseChars
<1>6. CASE InsertChars(n)
  BY <1>1, <1>6, RowIsKeeps DEF InsertChars
<1>7. CASE DeleteChars(n)
  <2>1. PICK w : w = IF cursor.x < Width THEN Width ELSE Smaller(Width + Smaller(Count1(n), cols), cursor.x + 1)
    OBVIOUS
  <2>2. ASSUME RowIsThere PROVE w \in Widths
    <3>1. Width \in Widths /\ Width \in Nat /\ Width >= cols
      BY <1>1, <2>2, Places DEF Widths
    <3>2. CASE cursor.x < Width
      BY <2>1, <3>1, <3>2
    <3>3. CASE ~ (cursor.x < Width)
      <4>1. strayed
        BY <1>0, <3>1, <3>3
      <4>2. PICK v : v = Smaller(k, cols)
        OBVIOUS
      <4>3. v \in Nat
        BY <1>0, <1>3, <4>2 DEF Smaller
      <4>4. w = Smaller(Width + v, cursor.x + 1)
        BY <1>2, <2>1, <3>3, <4>2
      <4>5. w \in Nat /\ w >= cols
        BY <1>0, <3>1, <3>3, <4>3, <4>4 DEF Smaller
      <4> QED BY <4>1, <4>5 DEF Widths
    <3> QED BY <3>2, <3>3
  <2>3. RowIs(w, TRUE)
    BY <1>7, <2>1 DEF DeleteChars
  <2> QED BY <2>2, <2>3, RowIsKeeps
<1> QED BY <1>4, <1>5, <1>6, <1>7

(* Some rows are replaced by blank ones, and the one of the cursor erased. *)
LEMMA EraseRowsKeeps ==
  ASSUME ScreenInv, NEW some, NEW mode \in Nat, EraseRows(some, mode),
         \A y \in (1..rows) \ some : y = cursor.y + 1 => strayed \/ ErasedTo(mode) <= cols
  PROVE  ScreenInv'
<1>1. cols \in Nat \ {0} /\ rows \in Nat \ {0} /\ cols \in Widths /\ cursor.x \in Nat
  BY Places
<1>2. RowsOf(grid, rows, Widths)
  BY DEF ScreenInv
<1>3. \A y \in 1..rows : grid[y] \in Widths
  BY <1>2, RowsSay
<1>4. ErasedTo(mode) \in Nat
  BY <1>1 DEF ErasedTo
<1>5. \A y \in (1..rows) \ some : y = cursor.y + 1 => Larger(grid[y], ErasedTo(mode)) \in Widths
  BY <1>3, <1>4, Longer
<1>6. grid' \in [1..rows -> Widths]
  BY <1>1, <1>3, <1>5 DEF EraseRows
<1>7. RowsOf(grid', rows, Widths)
  BY <1>1, <1>6, RowsAre
<1> QED BY <1>7, KeepsNoneKept, EditsKeep DEF EraseRows

(* Erasing the display. *)
LEMMA EraseKeeps ==
  ASSUME ScreenInv, NEW n \in Nat, EraseDisplay(n) \/ EraseAll
  PROVE  ScreenInv'
<1>0. /\ cols \in Nat \ {0} /\ rows \in Nat \ {0} /\ cols \in Widths /\ cursor.x \in Nat /\ cursor.y \in Nat
      /\ strayed \/ (cursor.x < cols /\ cursor.y < rows)
  BY Places DEF Xs, Ys
<1>1. CASE EraseDisplay(n)
  <2>1. CASE EraseInLine(n)
    BY <2>1, RowKeeps
  <2>2. CASE n \in {0, 1} /\ \E some : EraseRows(some, n)
    <3>1. PICK some : EraseRows(some, n)
      BY <2>2
    <3>2. strayed \/ ErasedTo(n) <= cols
      BY <1>0 DEF ErasedTo
    <3> QED BY <3>1, <3>2, EraseRowsKeeps
  <2>3. CASE EraseRows(1..rows, n)
    BY <2>3, EraseRowsKeeps
  <2> QED BY <1>1, <2>1, <2>2, <2>3 DEF EraseDisplay
<1>2. CASE EraseAll
  <2>1. scrollback' = << >> /\ Edits /\ scrollbackCells' = scrollbackCells /\ grid' = [y \in 1..rows |-> cols]
    BY <1>2 DEF EraseAll
  <2>2. scrollbackCells \in Nat /\ scrollbackCells <= MaxCells
    BY DEF ScreenInv, Kept
  <2>3. Cells(<<0>>) = 0 /\ Cells(<< >>) = 0
    BY CellsOne
  <2>4. << >> \in Seq(Nat) /\ Len(<< >>) = 0 /\ MaxScrollback \in Nat
    BY ScreenAssumption
  <2>5. [kept |-> scrollback', cells |-> scrollbackCells'] \in Kept
    BY <2>1, <2>2, <2>3, <2>4 DEF Kept
  <2>6. grid' \in [1..rows -> Widths]
    BY <1>0, <2>1
  <2>7. RowsOf(grid', rows, Widths)
    BY <1>0, <2>6, RowsAre
  <2> QED BY <2>1, <2>5, <2>7, EditsKeep
<1> QED BY <1>1, <1>2

(* Lines put in, taken out, or scrolled. *)
LEMMA RollsKeep ==
  ASSUME ScreenInv, NEW n \in Nat, InsertLines(n) \/ DeleteLines(n) \/ ScrollUp(n) \/ ScrollDown(n)
  PROVE  ScreenInv'
<1>0. region.top \in 0..(rows - 1) /\ region.bottom \in 0..(rows - 1) /\ rows \in Nat
      /\ (InRegion => cursor.y \in 0..(rows - 1))
  BY Places DEF InRegion
<1>1. PICK k : k = Count1(n)
  OBVIOUS
<1>2. k \in Nat
  BY <1>1 DEF Count1, Larger
<1>3. CASE InsertLines(n) \/ DeleteLines(n) \/ ScrollDown(n)
  <2>1. RowsOf(grid', rows, Widths)
    BY <1>0, <1>1, <1>2, <1>3, RolledKeeps DEF InsertLines, DeleteLines, ScrollDown
  <2>2. Edits /\ KeepsNone
    BY <1>3 DEF InsertLines, DeleteLines, ScrollDown
  <2> QED BY <2>1, <2>2, KeepsNoneKept, EditsKeep
<1>4. CASE ScrollUp(n)
  BY <1>1, <1>2, <1>4, ScrollsUpKept, EditsKeep DEF ScrollUp
<1> QED BY <1>3, <1>4

(* A reverse index scrolls down from the top of the region. *)
LEMMA ReverseIndexKeeps == ASSUME ScreenInv, ReverseIndex PROVE ScreenInv'
<1>1. CASE cursor.y = region.top
  <2>1. ScrollDown(1)
    BY <1>1 DEF ReverseIndex
  <2> QED BY <2>1, RollsKeep
<1>2. CASE cursor.y # region.top
  <2>0. cursor.x \in Xs /\ cursor.y \in Ys /\ cursor.y \in Nat /\ cursor = [x |-> cursor.x, y |-> cursor.y]
    BY Places
  <2>1. PICK y : y = Larger(0, cursor.y - 1)
    OBVIOUS
  <2>2. y \in Ys
    <3>1. y \in Nat /\ y <= cursor.y
      BY <2>0, <2>1 DEF Larger
    <3>2. CASE strayed
      BY <3>1, <3>2 DEF Ys
    <3>3. CASE ~ strayed
      <4>1. Ys = 0..(rows - 1) /\ rows \in Nat
        BY <3>3 DEF Ys, ScreenInv
      <4> QED BY <2>0, <3>1, <4>1
    <3> QED BY <3>2, <3>3
  <2>3. cursor' = [x |-> cursor.x, y |-> y] /\ Moves
    BY <1>2, <2>0, <2>1 DEF ReverseIndex
  <2> QED BY <2>0, <2>2, <2>3, MovesKeep
<1> QED BY <1>1, <1>2

(* The region is set, to lines of the screen. *)
LEMMA SetScrollRegionKeeps ==
  ASSUME ScreenInv, NEW n \in Nat, NEW m \in Nat, SetScrollRegion(n, m)
  PROVE  ScreenInv'
<1>1. PICK top, bottom : top = Count1(n) /\ bottom = IF m = 0 THEN rows ELSE m
  OBVIOUS
<1>2. /\ top < bottom /\ bottom <= rows /\ region' = [top |-> top - 1, bottom |-> bottom - 1]
      /\ cursor' = [x |-> 0, y |-> top - 1]
      /\ Sized /\ UNCHANGED <<grid, saved, wrapNext>> /\ KeepsNone
  BY <1>1 DEF SetScrollRegion
<1>3. top \in Nat /\ top >= 1 /\ bottom \in Nat /\ rows \in Nat \ {0} /\ cols \in Nat \ {0}
  BY <1>1 DEF Count1, Larger, ScreenInv
<1>4. cols' = cols /\ rows' = rows /\ strayed' = strayed /\ threw' = FALSE
  BY <1>2 DEF Sized
<1>5. region' \in [top : 0..(rows' - 1), bottom : 0..(rows' - 1)] /\ region'.top <= region'.bottom
  BY <1>2, <1>3, <1>4
<1>6. cursor' \in [x : Xs', y : Ys']
  BY <1>2, <1>3, <1>4 DEF Xs, Ys
<1>7. saved' = NotSaved \/ saved' \in [x : Nat, y : Nat]
  BY <1>2, <1>4 DEF ScreenInv
<1>8. RowsOf(grid', rows', Widths') /\ strayed' \in BOOLEAN
  <2>1. Widths' = Widths /\ grid' = grid
    BY <1>2, <1>4 DEF Widths
  <2> QED BY <1>4, <2>1 DEF ScreenInv
<1> QED BY <1>8, <1>2, <1>3, <1>4, <1>5, <1>6, <1>7, KeepsNoneKept DEF ScreenInv

(* All is as at the start, or as the window is now. *)
LEMMA ResetKeeps == ASSUME ScreenInv, Reset PROVE ScreenInv'
<1>1. /\ cols \in Nat \ {0} /\ rows \in Nat \ {0} /\ cols' = cols /\ rows' = rows
      /\ strayed' = FALSE /\ threw' = FALSE /\ grid' = [y \in 1..rows |-> cols] /\ cursor' = [x |-> 0, y |-> 0]
  BY DEF ScreenInv, Reset
<1>2. RowsOf(grid', rows', Widths')
  <2>1. Widths' = {cols}
    BY <1>1 DEF Widths
  <2>2. grid' \in [1..rows -> {cols}]
    BY <1>1
  <2> QED BY <1>1, <2>1, <2>2, RowsAre
<1>3. cursor' \in [x : Xs', y : Ys']
  BY <1>1 DEF Xs, Ys
<1>4. region' \in [top : 0..(rows' - 1), bottom : 0..(rows' - 1)] /\ region'.top <= region'.bottom
  BY <1>1 DEF Reset, FullRegion
<1>5. (saved' = NotSaved \/ saved' \in [x : Nat, y : Nat]) /\ KeepsNone
  BY DEF ScreenInv, Reset
<1> QED BY <1>1, <1>2, <1>3, <1>4, <1>5, KeepsNoneKept DEF ScreenInv

(* A new size: rows are padded or cut, and go to the scrollback. *)
LEMMA ResizeKeeps ==
  ASSUME ScreenInv, NEW w \in Nat \ {0}, NEW h \in Nat \ {0}, Resize(w, h)
  PROVE  ScreenInv'
<1>0. PICK n : n = Larger(0, rows - h)
  OBVIOUS
<1>1. /\ cols' = w /\ rows' = h /\ region' = FullRegion(h) /\ saved' = saved /\ threw' = FALSE
      /\ cursor' = [x |-> Smaller(cursor.x, w - 1), y |-> Smaller(cursor.y, h - 1)]
      /\ strayed' = (strayed /\ w >= cols)
      /\ Keeps(SubSeq(grid, 1, n))
      /\ grid' = [y \in 1..h |-> IF w < cols THEN w
                                ELSE Larger(IF y + n <= rows THEN grid[y + n] ELSE cols, w)]
  BY <1>0 DEF Resize, RegionFor
<1>2. /\ cols \in Nat \ {0} /\ rows \in Nat \ {0} /\ cols \in Widths /\ Widths \in SUBSET Nat
      /\ cursor.x \in Nat /\ cursor.y \in Nat /\ strayed \in BOOLEAN
  BY Places DEF ScreenInv
<1>3. n \in Nat /\ n <= rows
  BY <1>0, <1>2 DEF Larger
<1>4. RowsOf(grid, rows, Widths)
  BY DEF ScreenInv
<1>5. RowsOf(grid', rows', Widths')
  <2>1. \A y \in 1..h : (IF y + n <= rows THEN grid[y + n] ELSE cols) \in Widths
    <3>1. \A y \in 1..rows : grid[y] \in Widths
      BY <1>4, RowsSay
    <3>2. \A y \in 1..h : y + n <= rows => y + n \in 1..rows
      BY <1>2, <1>3
    <3> QED BY <1>2, <3>1, <3>2
  <2>2. w \in Widths' /\ \A v \in Widths : w >= cols => Larger(v, w) \in Widths'
    BY <1>1, <1>2 DEF Widths, Larger
  <2>3. grid' \in [1..h -> Widths']
    <3> DEFINE Old(y) == IF y + n <= rows THEN grid[y + n] ELSE cols
               New(y) == IF w < cols THEN w ELSE Larger(Old(y), w)
    <3>1. \A y \in 1..h : Old(y) \in Widths
      BY <2>1
    <3>2. grid' = [y \in 1..h |-> New(y)]
      BY <1>1
    <3>3. w < cols \/ w >= cols
      BY <1>2
    <3> HIDE DEF Old
    <3>4. ASSUME NEW y \in 1..h PROVE New(y) \in Widths'
      <4>1. CASE w < cols
        BY <2>2, <4>1
      <4>2. CASE ~ (w < cols)
        <5>1. Larger(Old(y), w) \in Widths'
          BY <2>2, <3>1, <3>3, <4>2
        <5> QED BY <4>2, <5>1
      <4> QED BY <4>1, <4>2
    <3> HIDE DEF New
    <3> QED BY <3>2, <3>4
  <2>4. h \in Nat
    OBVIOUS
  <2>5. RowsOf(grid', h, Widths')
    BY <2>3, <2>4, RowsAre
  <2> QED BY <1>1, <2>5
<1>6. cursor' \in [x : Xs', y : Ys']
  <2>1. Smaller(cursor.x, w - 1) \in 0..(w - 1) /\ Smaller(cursor.y, h - 1) \in 0..(h - 1)
    BY <1>2 DEF Smaller
  <2>2. 0..(w - 1) \subseteq Xs' /\ 0..(h - 1) \subseteq Ys'
    BY <1>1 DEF Xs, Ys
  <2> QED BY <1>1, <2>1, <2>2
<1>7. region' \in [top : 0..(rows' - 1), bottom : 0..(rows' - 1)] /\ region'.top <= region'.bottom
  BY <1>1 DEF FullRegion
<1>8. [kept |-> scrollback', cells |-> scrollbackCells'] \in Kept
  <2>1. PICK gone : gone = SubSeq(grid, 1, n)
    OBVIOUS
  <2>2. 1 <= n + 1 /\ n = (n + 1) - 1 /\ 1 <= 1 /\ 1 \in Nat
    BY <1>3
  <2>3. RowsOf(gone, n, Widths)
    BY <1>3, <1>4, <2>1, <2>2, RowsPart
  <2>4. gone \in Seq(Nat)
    BY <1>2, <2>3, RowsNat
  <2> QED BY <1>1, <2>1, <2>4, KeepsKept
<1>9. saved' = NotSaved \/ saved' \in [x : Nat, y : Nat]
  BY <1>1 DEF ScreenInv
<1>10. cols' \in Nat \ {0} /\ rows' \in Nat \ {0} /\ strayed' \in BOOLEAN /\ ~ threw'
  BY <1>1, <1>2
<1> QED BY <1>5, <1>6, <1>7, <1>8, <1>9, <1>10 DEF ScreenInv

(* Every control sequence keeps the invariant. *)
LEMMA SequenceKeeps ==
  ASSUME ScreenInv, NEW final \in Final, NEW n \in Count, Sequence(final, n)
  PROVE  ScreenInv'
<1>1. n \in Nat /\ Count \subseteq Nat
  BY ScreenAssumption
<1>2. CASE \/ CursorUp(n) \/ CursorDown(n) \/ CursorForward(n) \/ CursorBack(n)
           \/ CursorCol(n) \/ CursorRow(n) \/ CursorNextLine(n) \/ CursorPrevLine(n)
  BY <1>1, <1>2, CursorKeeps
<1>3. CASE \E m \in Count : CursorPos(n, m)
  BY <1>1, <1>3, CursorPosKeeps
<1>4. CASE EraseDisplay(n) \/ EraseAll
  BY <1>1, <1>4, EraseKeeps
<1>5. CASE EraseInLine(n) \/ EraseChars(n) \/ InsertChars(n) \/ DeleteChars(n)
  BY <1>1, <1>5, RowKeeps
<1>6. CASE InsertLines(n) \/ DeleteLines(n) \/ ScrollUp(n) \/ ScrollDown(n)
  BY <1>1, <1>6, RollsKeep
<1>7. CASE \E m \in Count : SetScrollRegion(n, m)
  BY <1>1, <1>7, SetScrollRegionKeeps
<1>8. CASE SaveCursor \/ RestoreCursor
  BY <1>8, SavedKeeps
<1> QED BY <1>2, <1>3, <1>4, <1>5, <1>6, <1>7, <1>8 DEF Sequence

(* Every step keeps it. *)
LEMMA ScreenInvNext == ScreenInv /\ [ScreenNext]_screenVars => ScreenInv'
<1> SUFFICES ASSUME ScreenInv, [ScreenNext]_screenVars PROVE ScreenInv'
  OBVIOUS
<1>1. CASE PrintHere \/ PrintWrapped \/ PrintNowhere
  BY <1>1, PrintsKeep
<1>2. CASE C0
  BY <1>2, C0Keeps
<1>3. CASE Escape
  BY <1>3, SavedKeeps, LinesKeep, ReverseIndexKeeps, ResetKeeps DEF Escape
<1>4. CASE \E final \in Final, n \in Count : Sequence(final, n)
  BY <1>4, SequenceKeeps
<1>5. CASE \E shape \in Shape : Resize(shape[1], shape[2])
  BY <1>5, ScreenAssumption, ResizeKeeps
<1>6. CASE UNCHANGED screenVars
  BY <1>6 DEF screenVars, ScreenInv, Widths, Xs, Ys
<1> QED BY <1>1, <1>2, <1>3, <1>4, <1>5, <1>6 DEF ScreenNext

(* It says that the screen fits. *)
LEMMA ScreenInvFits == ScreenInv => ScreenFits
<1> SUFFICES ASSUME ScreenInv PROVE ScreenFits
  OBVIOUS
<1>1. /\ Len(grid) = rows /\ (\A y \in 1..rows : grid[y] >= cols)
      /\ ~ strayed => \A y \in 1..rows : grid[y] = cols
  <2>1. RowsOf(grid, rows, Widths) /\ cols \in Nat
    BY DEF ScreenInv
  <2>2. Len(grid) = rows /\ \A y \in 1..rows : grid[y] \in Widths
    BY <2>1, RowsSay
  <2>3. \A w \in Widths : w >= cols /\ (~ strayed => w = cols)
    BY <2>1 DEF Widths
  <2> QED BY <2>2, <2>3
<1>2. ~ strayed => cursor.x \in 0..(cols - 1) /\ cursor.y \in 0..(rows - 1) /\ ~ threw
  BY DEF ScreenInv, Xs, Ys
<1>3. 0 <= region.top /\ region.top <= region.bottom /\ region.bottom < rows
  BY DEF ScreenInv
<1>4. /\ Len(scrollback) <= MaxScrollback
      /\ Cells(scrollback) <= scrollbackCells /\ scrollbackCells <= MaxCells
  <2>1. PICK s : s = [kept |-> scrollback, cells |-> scrollbackCells]
    OBVIOUS
  <2>2. s \in Kept /\ s.kept = scrollback /\ s.cells = scrollbackCells
    BY <2>1 DEF ScreenInv
  <2> QED BY <2>2 DEF Kept
<1> QED BY <1>1, <1>2, <1>3, <1>4 DEF ScreenFits

(* Whatever is written to the screen, and however it is resized: the rows  *)
(* are as many as rows and none shorter than cols, the region is one of    *)
(* lines, and the scrollback stays within its lines and cells, of which no *)
(* fewer are counted than are there.  As long as no cursor is restored     *)
(* outside, rows and cursor are within, and nothing throws (class Screen   *)
(* of vt/screen.js).                                                       *)
THEOREM ScreenAlwaysFits == ScreenSpec => []ScreenFits
<1>1. ScreenSpec => []ScreenInv
  BY ScreenInvInit, ScreenInvNext, PTL DEF ScreenSpec
<1> QED BY <1>1, ScreenInvFits, PTL

-----------------------------------------------------------------------------
(* Frames: bytes held.                                                     *)

(* Sum adds up. *)
LEMMA SumAdded == ASSUME NEW q PROVE Sum(q) = Added(q)
<1>1. PICK g : g = CHOOSE f : AddsAny(f, q)
  OBVIOUS
<1>2. Sum(q) = g[DOMAIN q]
  BY <1>1 DEF Sum, FoldSeq, FoldFunction, FoldFunctionOnSet, MapThenFoldSet, AddsAny
<1> QED BY <1>1, <1>2 DEF Added

(* It is a natural number of natural numbers. *)
LEMMA SumNat == ASSUME NEW q \in Seq(Nat) PROVE Sum(q) \in Nat
BY SumAdded, AddedIs

(* Nothing adds up to zero. *)
LEMMA SumNone == Sum(<< >>) = 0
<1>1. Added(<<0>>) = 0 /\ Added(<< >>) = 0
  BY AddedOne
<1> QED BY <1>1, SumAdded

(* One more adds itself. *)
LEMMA SumAppend ==
  ASSUME NEW q \in Seq(Nat), NEW n \in Nat
  PROVE  Sum(Append(q, n)) = Sum(q) + n
<1>1. PICK p, r : p = <<n>> /\ r = Append(q, n)
  OBVIOUS
<1>2. p \in Seq(Nat) /\ r = q \o p
  BY <1>1, AppendIsConcat
<1>3. Added(q \o p) = Added(q) + Added(p)
  BY ONLY <1>2, q \in Seq(Nat), AddedJoin
<1>4. Added(p) = n
  BY <1>1, AddedOne
<1>5. Sum(r) = Added(r) /\ Sum(q) = Added(q)
  BY SumAdded
<1> QED BY <1>1, <1>2, <1>3, <1>4, <1>5

(* What is rented for parts. *)
Rents(q) == [i \in DOMAIN q |-> Rented(q[i])]

(* A part more is rented for. *)
LEMMA RentsAppend ==
  ASSUME NEW q \in Seq(Nat), NEW n \in Nat
  PROVE  /\ Rents(q) \in Seq(Nat) /\ Sum(Rents(q)) \in Nat
         /\ Sum(Rents(Append(q, n))) = Sum(Rents(q)) + Rented(n)
<1>1. PICK k, p, r, m : k = Len(q) /\ p = Rents(q) /\ r = Append(q, n) /\ m = Rented(n)
  OBVIOUS
<1>2. k \in Nat /\ DOMAIN q = 1..k /\ \A i \in 1..k : q[i] \in Nat
  BY <1>1
<1>3. m \in Nat /\ \A i \in 1..k : Rented(q[i]) \in Nat
  BY <1>1, <1>2 DEF Rented
<1>4. p = [i \in 1..k |-> Rented(q[i])]
  BY <1>1, <1>2 DEF Rents
<1>5. p \in Seq(Nat) /\ Len(p) = k
  BY <1>2, <1>3, <1>4
<1>6. r \in Seq(Nat) /\ Len(r) = k + 1 /\ DOMAIN r = 1..(k + 1) /\ r[k + 1] = n /\ \A i \in 1..k : r[i] = q[i]
  BY <1>1, <1>2
<1>7. Rents(r) = Append(p, m)
  <2>1. PICK u, v : u = Rents(r) /\ v = Append(p, m)
    OBVIOUS
  <2>2. u = [i \in 1..(k + 1) |-> Rented(r[i])]
    BY <1>6, <2>1 DEF Rents
  <2>3. v \in Seq(Nat) /\ Len(v) = k + 1 /\ v[k + 1] = m /\ \A i \in 1..k : v[i] = p[i]
    BY <1>3, <1>5, <2>1
  <2>4. ASSUME NEW i \in 1..(k + 1) PROVE u[i] = v[i]
    <3>1. CASE i = k + 1
      BY <1>1, <1>6, <2>2, <2>3, <3>1
    <3>2. CASE i # k + 1
      <4>1. i \in 1..k
        BY <1>2, <3>2
      <4> QED BY <1>4, <1>6, <2>2, <2>3, <4>1
    <3> QED BY <3>1, <3>2
  <2>5. u \in Seq(Nat) /\ Len(u) = k + 1
    <3>1. \A i \in 1..(k + 1) : u[i] \in Nat
      BY <2>3, <2>4
    <3> QED BY <1>2, <2>2, <3>1
  <2>6. u = v
    <3>1. v \in Seq(Nat) /\ Len(u) = Len(v)
      BY <2>3, <2>5
    <3>2. \A i \in 1..Len(u) : u[i] = v[i]
      BY <2>4, <2>5
    <3> QED BY ONLY <2>5, <3>1, <3>2, SeqEqual
  <2> QED BY <2>1, <2>6
<1>8. Sum(Append(p, m)) = Sum(p) + m /\ Sum(p) \in Nat
  BY <1>3, <1>5, SumAppend, SumNat
<1> QED BY <1>1, <1>5, <1>7, <1>8

(* Nothing is rented for no parts. *)
LEMMA RentsNone == Sum(Rents(<< >>)) = 0
<1>1. PICK p, e : p = Rents(<< >>) /\ e = << >>
  OBVIOUS
<1>2. p = e
  BY <1>1 DEF Rents
<1> QED BY <1>1, <1>2, SumNone

-----------------------------------------------------------------------------
(* Frames: the invariant of a connection.                                  *)

Data == {"TEXT", "BIN", "CONT"}

(* A frame that has begun was not refused. *)
BodyIsFrame ==
  \/ body = NoFrame
  \/ /\ body \in Frame /\ body.len > 0
     /\ body.op \in Data => Len(frag.parts) < MaxFragments

FragIsMessage ==
  \/ frag = NoMessage
  \/ frag \in [op : {"TEXT", "BIN"}, parts : Seq(Nat)] /\ frag.parts # << >>

(* While the connection is open, what has arrived of the latest message is *)
(* held: its parts, and the frame that has begun.                          *)
HeldIsTold ==
  /\ body.op \in {"TEXT", "BIN"} => told = [op |-> body.op, bytes |-> body.len]
  /\ frag # NoMessage /\ body.op = "CONT" => told = [op |-> frag.op, bytes |-> Sum(frag.parts) + body.len]
  /\ frag # NoMessage /\ body.op \notin Data => told = [op |-> frag.op, bytes |-> Sum(frag.parts)]

FramesInv ==
  /\ wsState \in {"OPEN", "CLOSING", "CLOSED"}
  /\ BodyIsFrame /\ FragIsMessage
  /\ fragTimer \in BOOLEAN
  /\ leased \in Nat
  /\ HeldIsLeased /\ HeldIsTimed /\ HeldIsBounded
  /\ wsState = "CLOSED" => body = NoFrame /\ frag = NoMessage
  /\ wsState = "OPEN" => HeldIsTold
  /\ delivered # Nothing => delivered = told

(* Nothing is held. *)
HoldsNothing ==
  /\ wsState \in {"OPEN", "CLOSING", "CLOSED"} /\ body = NoFrame /\ frag = NoMessage
  /\ fragTimer = FALSE /\ leased = 0 /\ (delivered # Nothing => delivered = told)

(* Who holds nothing is within the invariant. *)
LEMMA NothingHeld == HoldsNothing => FramesInv
<1> SUFFICES ASSUME HoldsNothing PROVE FramesInv
  OBVIOUS
<1>0. /\ wsState \in {"OPEN", "CLOSING", "CLOSED"} /\ body = NoFrame /\ frag = NoMessage
      /\ fragTimer = FALSE /\ leased = 0 /\ (delivered # Nothing => delivered = told)
  BY DEF HoldsNothing
<1>1. PartBytes = 0 /\ Sum(frag.parts) = 0 /\ Len(frag.parts) = 0
  <2>1. frag.parts = << >>
    BY <1>0 DEF NoMessage
  <2>2. PartBytes = Sum(Rents(frag.parts))
    BY DEF PartBytes, Rents
  <2> QED BY <2>1, <2>2, RentsNone, SumNone
<1>2. body.len = 0 /\ body.op = "none"
  BY <1>0 DEF NoFrame
<1>3. HeldIsLeased /\ HeldIsTimed /\ HeldIsBounded
  BY <1>0, <1>1, <1>2, FramesAssumption DEF HeldIsLeased, HeldIsTimed, HeldIsBounded
<1>4. HeldIsTold
  BY <1>0, <1>2 DEF HeldIsTold, Data
<1> QED BY <1>0, <1>3, <1>4 DEF FramesInv, BodyIsFrame, FragIsMessage

(* So is a connection that has just been made. *)
LEMMA FramesInvInit == FramesInit => FramesInv
BY NothingHeld DEF FramesInit, HoldsNothing

(* A connection that fails gives everything back (_fail). *)
LEMMA FailsKeeps == ASSUME FramesInv, Fails PROVE FramesInv'
<1>1. HoldsNothing'
  BY DEF Fails, DropsReceived, FramesInv, HoldsNothing
<1>2. HoldsNothing' => FramesInv'
  BY NothingHeld, PTL
<1> QED BY <1>1, <1>2

(* The sizes of what is held. *)
LEMMA HeldFacts ==
  ASSUME FramesInv
  PROVE  /\ frag.parts \in Seq(Nat) /\ Sum(frag.parts) \in Nat /\ Len(frag.parts) \in Nat
         /\ PartBytes = Sum(Rents(frag.parts)) /\ PartBytes \in Nat
         /\ body.len \in Nat /\ leased = body.len + PartBytes /\ leased <= AccountBytes
         /\ (body = NoFrame => body.len = 0) /\ (frag = NoMessage => frag.parts = << >> /\ PartBytes = 0)
<1>1. frag.parts \in Seq(Nat)
  <2>1. CASE frag = NoMessage
    BY <2>1 DEF NoMessage
  <2>2. CASE frag # NoMessage
    BY <2>2 DEF FramesInv, FragIsMessage
  <2> QED BY <2>1, <2>2
<1>2. PartBytes = Sum(Rents(frag.parts))
  BY DEF PartBytes, Rents
<1>3. Sum(frag.parts) \in Nat /\ Len(frag.parts) \in Nat
  BY <1>1, SumNat
<1>4. PartBytes \in Nat
  <2>1. PICK q : q = frag.parts
    OBVIOUS
  <2> QED BY <1>1, <1>2, <2>1, 0 \in Nat, RentsAppend
<1>5. body.len \in Nat /\ (body = NoFrame => body.len = 0)
  <2>1. CASE body = NoFrame
    BY <2>1 DEF NoFrame
  <2>2. CASE body # NoFrame
    BY <2>2, FramesAssumption DEF FramesInv, BodyIsFrame, Frame
  <2> QED BY <2>1, <2>2
<1>6. frag = NoMessage => frag.parts = << >> /\ PartBytes = 0
  BY <1>2, RentsNone DEF NoMessage
<1> QED BY <1>1, <1>2, <1>3, <1>4, <1>5, <1>6 DEF FramesInv, HeldIsLeased

(* The frame goes, the message stays. *)
LEMMA DoneKeeps ==
  ASSUME FramesInv, wsState # "CLOSED", Done(body.len), frag' = frag, wsState' \in {wsState, "CLOSING"},
         wsState' = "OPEN" /\ frag # NoMessage => told' = [op |-> frag.op, bytes |-> Sum(frag.parts)],
         delivered' # Nothing => delivered' = told'
  PROVE  FramesInv'
<1>0. /\ body' = NoFrame /\ leased' = leased - body.len /\ fragTimer' = (fragTimer /\ frag # NoMessage)
      /\ body'.len = 0 /\ body'.op = "none"
  BY DEF Done, NoFrame
<1>1. PartBytes' = PartBytes /\ Sum(frag'.parts) = Sum(frag.parts)
  BY DEF PartBytes
<1>2. /\ Sum(frag.parts) \in Nat /\ Len(frag.parts) \in Nat /\ PartBytes \in Nat /\ body.len \in Nat
      /\ leased = body.len + PartBytes /\ leased <= AccountBytes
  BY HeldFacts
<1>3. HeldIsLeased' /\ leased' \in Nat
  BY <1>0, <1>1, <1>2, FramesAssumption DEF HeldIsLeased
<1>4. HeldIsTimed' /\ fragTimer' \in BOOLEAN
  BY <1>0 DEF HeldIsTimed, FramesInv
<1>5. HeldIsBounded'
  <2>1. Sum(frag.parts) <= MaxMessageBytes /\ Len(frag.parts) <= MaxFragments
    BY <1>2, FramesAssumption DEF FramesInv, HeldIsBounded
  <2> QED BY <1>0, <1>1, <1>2, <2>1 DEF HeldIsBounded, Control
<1>6. BodyIsFrame' /\ FragIsMessage'
  BY <1>0 DEF BodyIsFrame, FragIsMessage, FramesInv
<1>7. wsState' = "OPEN" => HeldIsTold'
  BY <1>0, <1>1 DEF HeldIsTold, Data
<1>8. wsState' \in {"OPEN", "CLOSING"}
  BY DEF FramesInv
<1> QED BY <1>3, <1>4, <1>5, <1>6, <1>7, <1>8 DEF FramesInv

(* What the peer has told of the frame f that is handled now. *)
Heard(f) ==
  /\ f.op \in {"TEXT", "BIN"} => told' = [op |-> f.op, bytes |-> f.len]
  /\ frag # NoMessage /\ f.op = "CONT" => told' = [op |-> frag.op, bytes |-> Sum(frag.parts) + f.len]
  /\ frag # NoMessage /\ f.op \notin Data => told' = [op |-> frag.op, bytes |-> Sum(frag.parts)]

(* The frame f, or what there is of it, was not refused. *)
Allowed(f) ==
  /\ body = NoFrame \/ (body = f /\ f.len > 0)
  /\ f.op \in Data => f.len + Sum(frag.parts) <= MaxMessageBytes /\ Len(frag.parts) < MaxFragments

(* One part more. *)
LEMMA KeepsFragmentKeeps ==
  ASSUME FramesInv, wsState = "OPEN", NEW f \in Frame, f.op \in Data, Allowed(f), Heard(f),
         f.op = "CONT" <=> frag # NoMessage, KeepsFragment(f, body.len)
  PROVE  FramesInv'
<1>1. CASE body.len = 0 /\ ~ Affords(f.len)
  BY <1>1, FailsKeeps DEF KeepsFragment
<1>2. CASE ~ (body.len = 0 /\ ~ Affords(f.len))
  <2>1. /\ frag' = [op |-> IF frag = NoMessage THEN f.op ELSE frag.op, parts |-> Append(frag.parts, f.len)]
        /\ leased' = (IF body.len = 0 THEN leased + Rented(f.len) ELSE leased)
        /\ body' = NoFrame /\ fragTimer' = TRUE /\ delivered' = Nothing /\ wsState' = wsState
    BY <1>2 DEF KeepsFragment
  <2>2. PICK q, n, r : q = frag.parts /\ n = f.len /\ r = Append(q, n)
    OBVIOUS
  <2>3. /\ q \in Seq(Nat) /\ n \in Nat /\ Sum(q) \in Nat /\ PartBytes = Sum(Rents(q)) /\ PartBytes \in Nat
        /\ body.len \in Nat /\ leased = body.len + PartBytes /\ leased <= AccountBytes
        /\ (body = NoFrame => body.len = 0) /\ (frag = NoMessage => q = << >>)
    BY <2>2, HeldFacts, FramesAssumption DEF Frame
  <2>4. Sum(r) = Sum(q) + n /\ Sum(Rents(r)) = Sum(Rents(q)) + Rented(n)
    BY <2>2, <2>3, SumAppend, RentsAppend
  <2>5. r \in Seq(Nat) /\ r # << >> /\ Len(r) = Len(q) + 1
    BY <2>2, <2>3
  <2>6. frag'.parts = r /\ frag'.op = IF frag = NoMessage THEN f.op ELSE frag.op
    BY <2>1, <2>2
  <2>7. frag' # NoMessage /\ FragIsMessage'
    <3>1. frag'.op \in {"TEXT", "BIN"}
      BY <2>6 DEF Data, FramesInv, FragIsMessage
    <3> QED BY <2>1, <2>2, <2>5, <2>6, <3>1 DEF FragIsMessage, NoMessage
  <2>8. PartBytes' = Sum(Rents(r))
    BY <2>6 DEF PartBytes, Rents
  <2>9. body'.len = 0 /\ body'.op = "none"
    BY <2>1 DEF NoFrame
  <2>10. HeldIsLeased' /\ leased' \in Nat
    <3>1. CASE body = NoFrame
      <4>1. leased + Rented(n) <= AccountBytes
        BY <1>2, <2>2, <2>3, <3>1 DEF Affords
      <4>2. Rented(n) \in Nat
        BY <2>3 DEF Rented
      <4>3. leased' = leased + Rented(n)
        BY <2>1, <2>2, <2>3, <3>1
      <4> QED BY <2>3, <2>4, <2>8, <2>9, <3>1, <4>1, <4>2, <4>3 DEF HeldIsLeased
    <3>2. CASE body # NoFrame
      <4>1. body = f /\ n > 0 /\ Rented(n) = n
        BY <2>2, <3>2 DEF Allowed, Rented
      <4>2. leased' = leased /\ body.len = n
        BY <2>1, <2>2, <2>3, <4>1
      <4> QED BY <2>3, <2>4, <2>8, <2>9, <4>1, <4>2 DEF HeldIsLeased
    <3> QED BY <3>1, <3>2
  <2>11. HeldIsTimed'
    BY <2>1, <2>7 DEF HeldIsTimed
  <2>12. HeldIsBounded'
    <3>1. n + Sum(q) <= MaxMessageBytes /\ Len(q) < MaxFragments /\ Len(q) \in Nat
      BY <2>2, <2>3 DEF Allowed
    <3> QED BY <2>3, <2>4, <2>5, <2>6, <2>9, <3>1, FramesAssumption DEF HeldIsBounded, Control
  <2>13. HeldIsTold'
    <3>1. told' = [op |-> frag'.op, bytes |-> Sum(r)]
      <4>1. CASE frag = NoMessage
        <5>1. f.op \in {"TEXT", "BIN"} /\ Sum(q) = 0
          BY <2>3, <4>1, SumNone DEF Data
        <5> QED BY <2>2, <2>3, <2>4, <2>6, <4>1, <5>1 DEF Heard
      <4>2. CASE frag # NoMessage
        BY <2>2, <2>4, <2>6, <4>2 DEF Heard
      <4> QED BY <4>1, <4>2
    <3> QED BY <2>6, <2>9, <3>1 DEF HeldIsTold, Data
  <2>14. BodyIsFrame'
    BY <2>1 DEF BodyIsFrame
  <2> QED BY <2>1, <2>7, <2>10, <2>11, <2>12, <2>13, <2>14 DEF FramesInv
<1> QED BY <1>1, <1>2

(* The message is whole. *)
LEMMA AssemblesKeeps ==
  ASSUME FramesInv, wsState = "OPEN", NEW f \in Frame, f.op = "CONT", frag # NoMessage, Heard(f), Assembles(f)
  PROVE  FramesInv'
<1>1. CASE ~ Affords(Sum(frag.parts) + f.len)
  BY <1>1, FailsKeeps DEF Assembles
<1>2. CASE Affords(Sum(frag.parts) + f.len)
  <2>1. HoldsNothing'
    BY <1>2 DEF Assembles, Heard, HoldsNothing
  <2>2. HoldsNothing' => FramesInv'
    BY NothingHeld, PTL
  <2> QED BY <2>1, <2>2
<1> QED BY <1>1, <1>2

(* A complete frame is handled (_frame). *)
LEMMA HandlesKeeps ==
  ASSUME FramesInv, wsState # "CLOSED", NEW f \in Frame, Allowed(f), wsState = "OPEN" => Heard(f),
         Handles(f, body.len)
  PROVE  FramesInv'
<1>0. wsState \in {"OPEN", "CLOSING"} /\ f.op \in Control \cup Data
  BY DEF FramesInv, Frame, Opcode, Control, Data
<1>1. CASE Fails
  BY <1>1, FailsKeeps
<1>2. CASE Done(body.len) /\ Quiet /\ (wsState = "OPEN" => f.op \in Control)
  <2>1. frag' = frag /\ wsState' = wsState /\ delivered' = Nothing
    BY <1>2 DEF Quiet
  <2>2. wsState' = "OPEN" /\ frag # NoMessage => told' = [op |-> frag.op, bytes |-> Sum(frag.parts)]
    BY <1>2, <2>1 DEF Heard, Control, Data
  <2> QED BY <1>2, <2>1, <2>2, DoneKeeps
<1>3. CASE CloseFrame(body.len)
  <2>1. CASE Done(body.len) /\ wsState' = "CLOSING" /\ frag' = frag /\ delivered' = Nothing
    BY <2>1, DoneKeeps
  <2> QED BY <1>1, <1>3, <2>1 DEF CloseFrame
<1>4. CASE wsState = "OPEN" /\ f.op \in Data /\ DataFrame(f, body.len)
  <2>1. CASE f.op # "CONT" /\ frag # NoMessage
    BY <1>1, <1>4, <2>1 DEF DataFrame, Continues
  <2>2. CASE f.op = "CONT" /\ frag = NoMessage
    BY <1>1, <1>4, <2>2 DEF DataFrame, Continues
  <2>3. CASE (f.op = "CONT" <=> frag # NoMessage) /\ ~ f.fin
    <3>1. KeepsFragment(f, body.len)
      BY <1>4, <2>3 DEF DataFrame, Continues
    <3> QED BY <1>4, <2>3, <3>1, KeepsFragmentKeeps
  <2>4. CASE f.op = "CONT" /\ frag # NoMessage /\ f.fin
    <3>1. Assembles(f) \/ Fails
      BY <1>4, <2>4 DEF DataFrame, Continues
    <3> QED BY <1>1, <1>4, <2>4, <3>1, AssemblesKeeps
  <2>5. CASE f.op # "CONT" /\ frag = NoMessage /\ f.fin
    <3>1. Fails \/ (/\ delivered' = [op |-> f.op, bytes |-> f.len]
                    /\ Done(body.len) /\ frag' = frag /\ wsState' = wsState)
      BY <1>4, <2>5 DEF DataFrame, Continues
    <3>2. told' = [op |-> f.op, bytes |-> f.len]
      BY <1>4, <2>5 DEF Heard, Data
    <3> QED BY <1>1, <2>5, <3>1, <3>2, DoneKeeps
  <2>6. f.fin \in BOOLEAN
    BY DEF Frame
  <2> QED BY <2>1, <2>2, <2>3, <2>4, <2>5, <2>6
<1>5. \/ Fails
      \/ Done(body.len) /\ Quiet /\ (wsState = "OPEN" => f.op \in Control)
      \/ CloseFrame(body.len)
      \/ wsState = "OPEN" /\ f.op \in Data /\ DataFrame(f, body.len)
  <2>1. CASE f.op = "CLOSE"
    BY <2>1 DEF Handles
  <2>2. CASE f.op # "CLOSE" /\ wsState = "CLOSING"
    BY <2>2 DEF Handles
  <2>3. CASE f.op = "PONG" /\ wsState = "OPEN"
    BY <2>3 DEF Handles, Control
  <2>4. CASE f.op = "PING" /\ wsState = "OPEN"
    BY <2>4 DEF Handles, Control
  <2>5. CASE f.op \in Data /\ wsState = "OPEN"
    BY <2>5 DEF Handles, Data
  <2> QED BY <1>0, <2>1, <2>2, <2>3, <2>4, <2>5 DEF Control
<1> QED BY <1>1, <1>2, <1>3, <1>4, <1>5

(* What was told before the frame that is handled now, and with it. *)
LEMMA HearsNow ==
  ASSUME FramesInv, wsState = "OPEN", body = NoFrame, NEW f \in Frame, Tells(f)
  PROVE  Heard(f)
<1>1. /\ Sum(frag.parts) \in Nat /\ body.op = "none" /\ f.op \in Control \cup Data
      /\ (frag # NoMessage => told = [op |-> frag.op, bytes |-> Sum(frag.parts)])
  <2>1. body.op = "none"
    BY DEF NoFrame
  <2>2. frag # NoMessage => told = [op |-> frag.op, bytes |-> Sum(frag.parts)]
    BY <2>1 DEF FramesInv, HeldIsTold, Data
  <2> QED BY <2>1, <2>2, HeldFacts DEF Frame, Opcode, Control, Data
<1>2. CASE f.op \in Control
  <2>1. told' = told
    BY <1>2 DEF Tells, Control
  <2> QED BY <1>1, <1>2, <2>1 DEF Heard, Control, Data
<1>3. CASE f.op = "CONT"
  <2>1. told' = [told EXCEPT !.bytes = told.bytes + f.len]
    BY <1>3 DEF Tells, Control
  <2> QED BY <1>1, <1>3, <2>1 DEF Heard, Data
<1>4. CASE f.op \in {"TEXT", "BIN"}
  <2>1. told' = [op |-> f.op, bytes |-> f.len]
    BY <1>4 DEF Tells, Control
  <2> QED BY <1>4, <2>1 DEF Heard, Data
<1> QED BY <1>1, <1>2, <1>3, <1>4 DEF Data

(* What the header lets pass is not too long. *)
LEMMA NotRefused ==
  ASSUME FramesInv, body = NoFrame, NEW f \in Frame, ~ Refused(f)
  PROVE  Allowed(f)
<1>1. f.len \in Nat /\ Sum(frag.parts) \in Nat /\ Len(frag.parts) \in Nat /\ f.op \in Control \cup Data
  BY HeldFacts, FramesAssumption DEF Frame, Opcode, Control, Data
<1>2. CASE f.op \in Data
  <2>1. f.op \notin Control
    BY <1>2 DEF Data, Control
  <2>2. f.len + Sum(frag.parts) <= MaxMessageBytes /\ Len(frag.parts) < MaxFragments
    BY <1>1, <2>1, FramesAssumption DEF Refused, TooLarge
  <2> QED BY <2>2 DEF Allowed
<1>3. CASE f.op \notin Data
  BY <1>3 DEF Allowed
<1> QED BY <1>2, <1>3

(* A frame within a chunk. *)
LEMMA FrameInChunkKeeps == ASSUME FramesInv, NEW f \in Frame, FrameInChunk(f) PROVE FramesInv'
<1>1. wsState # "CLOSED" /\ body = NoFrame /\ ~ Refused(f) /\ Handles(f, 0) /\ Tells(f)
  BY DEF FrameInChunk, Reading
<1>2. Handles(f, body.len)
  BY <1>1 DEF NoFrame
<1>3. Allowed(f) /\ (wsState = "OPEN" => Heard(f))
  BY <1>1, NotRefused, HearsNow
<1> QED BY <1>1, <1>2, <1>3, HandlesKeeps

(* A frame that ends in a later chunk is rented for. *)
LEMMA FrameBeginsKeeps == ASSUME FramesInv, NEW f \in Frame, FrameBegins(f) PROVE FramesInv'
<1>1. wsState # "CLOSED" /\ body = NoFrame /\ ~ Refused(f) /\ f.len > 0 /\ Tells(f)
  BY DEF FrameBegins, Reading
<1>2. CASE ~ Affords(f.len)
  BY <1>2, FailsKeeps DEF FrameBegins
<1>3. CASE Affords(f.len)
  <2>1. /\ body' = f /\ leased' = leased + f.len /\ fragTimer' = TRUE
        /\ frag' = frag /\ wsState' = wsState /\ delivered' = Nothing
    BY <1>3 DEF FrameBegins, Quiet
  <2>2. /\ Sum(frag.parts) \in Nat /\ Len(frag.parts) \in Nat /\ PartBytes \in Nat /\ leased = PartBytes /\ f.len \in Nat
    <3>1. /\ Sum(frag.parts) \in Nat /\ Len(frag.parts) \in Nat /\ PartBytes \in Nat /\ body.len \in Nat
          /\ leased = body.len + PartBytes /\ body.len = 0
      BY <1>1, HeldFacts
    <3>2. f.len \in Nat
      BY FramesAssumption DEF Frame
    <3>3. leased = PartBytes
      BY ONLY <3>1
    <3> QED BY <3>1, <3>2, <3>3
  <2>3. Allowed(f)
    BY <1>1, NotRefused
  <2>4. PartBytes' = PartBytes /\ Sum(frag'.parts) = Sum(frag.parts)
    BY <2>1 DEF PartBytes
  <2>5. HeldIsLeased' /\ leased' \in Nat
    <3>1. leased + f.len <= AccountBytes
      BY <1>1, <1>3, <2>2 DEF Affords, Rented
    <3> QED BY <2>1, <2>2, <2>4, <3>1 DEF HeldIsLeased
  <2>6. body' # NoFrame
    <3>1. f.op # "none"
      BY DEF Frame, Opcode, Control
    <3> QED BY <2>1, <3>1 DEF NoFrame
  <2>7. HeldIsTimed'
    BY <2>1, <2>6 DEF HeldIsTimed
  <2>8. HeldIsBounded'
    <3>1. Sum(frag.parts) <= MaxMessageBytes /\ Len(frag.parts) <= MaxFragments
      BY <1>1, <2>2, FramesAssumption DEF FramesInv, HeldIsBounded, NoFrame, Control
    <3>2. f.op \in Control \cup Data
      BY DEF Frame, Opcode, Data, Control
    <3>3. CASE f.op \in Control
      BY <2>1, <2>2, <2>4, <3>1, <3>3 DEF HeldIsBounded
    <3>4. CASE f.op \in Data
      <4>1. f.len + Sum(frag.parts) <= MaxMessageBytes /\ f.op \notin Control
        BY <2>3, <3>4 DEF Allowed, Data, Control
      <4> QED BY <2>1, <2>2, <2>4, <3>1, <4>1 DEF HeldIsBounded
    <3> QED BY <3>2, <3>3, <3>4
  <2>9. BodyIsFrame'
    BY <1>1, <2>1, <2>3 DEF BodyIsFrame, Allowed
  <2>10. FragIsMessage'
    BY <2>1 DEF FragIsMessage, FramesInv
  <2>11. wsState' = "OPEN" => HeldIsTold'
    <3>1. wsState = "OPEN" => Heard(f)
      BY <1>1, HearsNow
    <3> QED BY <2>1, <2>4, <3>1 DEF HeldIsTold, Heard
  <2> QED BY <1>1, <2>1, <2>5, <2>7, <2>8, <2>9, <2>10, <2>11 DEF FramesInv
<1> QED BY <1>2, <1>3

(* It ends, and is handled. *)
LEMMA FrameEndsKeeps == ASSUME FramesInv, FrameEnds PROVE FramesInv'
<1>1. wsState # "CLOSED" /\ body # NoFrame /\ Handles(body, body.len) /\ told' = told
  BY DEF FrameEnds
<1>2. body \in Frame /\ body.len > 0 /\ (body.op \in Data => Len(frag.parts) < MaxFragments)
  BY <1>1 DEF FramesInv, BodyIsFrame
<1>3. Allowed(body)
  <2>1. CASE body.op \in Data
    <3>1. body.op \notin Control
      BY <2>1 DEF Data, Control
    <3>2. Sum(frag.parts) + body.len <= MaxMessageBytes
      BY <3>1 DEF FramesInv, HeldIsBounded
    <3>3. Sum(frag.parts) \in Nat /\ body.len \in Nat
      BY HeldFacts
    <3> QED BY <1>2, <2>1, <3>2, <3>3 DEF Allowed
  <2> QED BY <1>2, <2>1 DEF Allowed
<1>4. wsState = "OPEN" => Heard(body)
  BY <1>1 DEF FramesInv, HeldIsTold, Heard
<1>5. PICK f : f = body
  OBVIOUS
<1>6. f \in Frame /\ Allowed(f) /\ (wsState = "OPEN" => Heard(f)) /\ Handles(f, body.len)
  BY <1>1, <1>2, <1>3, <1>4, <1>5
<1> QED BY <1>1, <1>6, HandlesKeeps

(* The session closes the connection, or the socket is gone. *)
LEMMA ClosesKeeps == ASSUME FramesInv, CloseCalled \/ Destroyed PROVE FramesInv'
<1>1. CASE CloseCalled
  <2>1. /\ wsState' = "CLOSING" /\ delivered' = Nothing /\ body' = body /\ frag' = frag
        /\ fragTimer' = fragTimer /\ leased' = leased /\ told' = told
    BY <1>1 DEF CloseCalled
  <2>2. PartBytes' = PartBytes
    BY <2>1 DEF PartBytes
  <2> QED BY <2>1, <2>2 DEF FramesInv, BodyIsFrame, FragIsMessage, HeldIsLeased, HeldIsTimed, HeldIsBounded
<1>2. CASE Destroyed
  <2>1. HoldsNothing'
    BY <1>2 DEF Destroyed, DropsReceived, HoldsNothing
  <2>2. HoldsNothing' => FramesInv'
    BY NothingHeld, PTL
  <2> QED BY <2>1, <2>2
<1> QED BY <1>1, <1>2

(* Every step of the connection keeps the invariant. *)
LEMMA FramesInvNext == FramesInv /\ [FramesNext]_frameVars => FramesInv'
<1> SUFFICES ASSUME FramesInv, [FramesNext]_frameVars PROVE FramesInv'
  OBVIOUS
<1>1. CASE \E f \in Frame : FrameInChunk(f) \/ FrameBegins(f)
  BY <1>1, FrameInChunkKeeps, FrameBeginsKeeps
<1>2. CASE BadFrame \/ AssemblyLate
  BY <1>2, FailsKeeps DEF BadFrame, AssemblyLate
<1>3. CASE FrameEnds \/ CloseCalled \/ Destroyed
  BY <1>3, FrameEndsKeeps, ClosesKeeps
<1>4. CASE UNCHANGED frameVars
  <2>1. /\ wsState' = wsState /\ delivered' = delivered /\ body' = body /\ frag' = frag
        /\ fragTimer' = fragTimer /\ leased' = leased /\ told' = told
    BY <1>4 DEF frameVars
  <2>2. PartBytes' = PartBytes
    BY <2>1 DEF PartBytes
  <2> QED BY <2>1, <2>2 DEF FramesInv, BodyIsFrame, FragIsMessage, HeldIsLeased, HeldIsTimed, HeldIsBounded, HeldIsTold
<1> QED BY <1>1, <1>2, <1>3, <1>4 DEF FramesNext

-----------------------------------------------------------------------------
(* Frames: records of the bridge.                                          *)

RecordsFit == records \in Seq([len : RecordLength, how : How])

(* Where the records end. *)
LEMMA RecordEnds ==
  ASSUME RecordsFit
  PROVE  /\ RecordEnd(0) = 0 /\ BytesSent = RecordEnd(Len(records))
         /\ \A n \in 0..Len(records) : RecordEnd(n) \in Nat
         /\ \A n \in 0..(Len(records) - 1) :
              /\ records[n + 1].len \in Nat /\ records[n + 1].how \in How
              /\ RecordEnd(n + 1) = RecordEnd(n) + 4 + records[n + 1].len
<1>1. PICK k, lens : k = Len(records) /\ lens = [n \in 0..k |-> [i \in 1..n |-> records[i].len]]
  OBVIOUS
<1>2. /\ k \in Nat /\ DOMAIN records = 1..k
      /\ \A i \in 1..k : records[i].len \in Nat /\ records[i].how \in How
  <2>1. PICK S : S = [len : RecordLength, how : How]
    OBVIOUS
  <2>2. records \in Seq(S)
    BY <2>1 DEF RecordsFit
  <2>3. k \in Nat /\ DOMAIN records = 1..k
    BY <1>1, <2>2
  <2>4. \A i \in 1..k : records[i] \in S
    BY <1>1, <2>2, <2>3
  <2>5. \A r \in S : r.len \in RecordLength /\ r.how \in How
    BY <2>1
  <2> QED BY <2>3, <2>4, <2>5, FramesAssumption
<1>3. \A n \in 0..k : RecordEnd(n) = 4 * n + Sum(lens[n])
  BY <1>1 DEF RecordEnd, HeaderLength
<1>4. \A n \in 0..k : lens[n] \in Seq(Nat) /\ Len(lens[n]) = n /\ \A i \in 1..n : lens[n][i] = records[i].len
  BY <1>1, <1>2
<1>5. \A n \in 0..k : Sum(lens[n]) \in Nat
  BY <1>4, SumNat
<1>6. lens[0] = << >>
  <2>1. PICK e, z : e = << >> /\ z = lens[0]
    OBVIOUS
  <2>2. z \in Seq(Nat) /\ Len(z) = 0
    BY <1>2, <1>4, <2>1
  <2> QED BY <2>1, <2>2
<1>7. ASSUME NEW n \in 0..(k - 1)
      PROVE  Sum(lens[n + 1]) = Sum(lens[n]) + records[n + 1].len
  <2>1. PICK p, q, m, r : p = lens[n] /\ q = lens[n + 1] /\ m = records[n + 1].len /\ r = Append(p, m)
    OBVIOUS
  <2>2. n + 1 \in 0..k /\ n \in 0..k /\ n + 1 \in 1..k
    BY <1>2
  <2>3. /\ p \in Seq(Nat) /\ Len(p) = n /\ (\A i \in 1..n : p[i] = records[i].len) /\ m \in Nat
        /\ q \in Seq(Nat) /\ Len(q) = n + 1 /\ \A i \in 1..(n + 1) : q[i] = records[i].len
    BY <1>2, <1>4, <2>1, <2>2
  <2>4. r \in Seq(Nat) /\ Len(r) = n + 1 /\ r[n + 1] = m /\ \A i \in 1..n : r[i] = p[i]
    BY <2>1, <2>3
  <2>5. \A i \in 1..(n + 1) : r[i] = q[i]
    <3> SUFFICES ASSUME NEW i \in 1..(n + 1) PROVE r[i] = q[i]
      OBVIOUS
    <3>1. i \in 1..n \/ i = n + 1
      OBVIOUS
    <3> QED BY <2>1, <2>3, <2>4, <3>1
  <2>6. r = q
    BY <2>3, <2>4, <2>5
  <2>7. Sum(r) = Sum(p) + m
    BY <2>1, <2>3, SumAppend
  <2> QED BY <2>1, <2>6, <2>7
<1>8. RecordEnd(0) = 0
  BY <1>2, <1>3, <1>6, SumNone
<1>9. BytesSent = RecordEnd(k)
  <2>1. BytesSent = 4 * k + Sum(lens[k])
    BY <1>1, <1>2 DEF BytesSent, HeaderLength
  <2> QED BY <1>2, <1>3, <2>1
<1>10. ASSUME NEW n \in 0..(k - 1)
       PROVE  /\ records[n + 1].len \in Nat /\ records[n + 1].how \in How
              /\ RecordEnd(n + 1) = RecordEnd(n) + 4 + records[n + 1].len
  <2>1. n + 1 \in 1..k /\ n + 1 \in 0..k /\ n \in 0..k
    BY <1>2
  <2>2. RecordEnd(n + 1) = 4 * (n + 1) + Sum(lens[n + 1]) /\ RecordEnd(n) = 4 * n + Sum(lens[n])
    BY <1>3, <2>1
  <2>3. Sum(lens[n]) \in Nat /\ records[n + 1].len \in Nat /\ records[n + 1].how \in How /\ n \in Nat
    BY <1>2, <1>5, <2>1
  <2> QED BY <1>7, <2>2, <2>3
<1>11. \A n \in 0..k : RecordEnd(n) \in Nat
  BY <1>2, <1>3, <1>5
<1> QED BY <1>1, <1>8, <1>9, <1>10, <1>11

(* A later record ends no earlier. *)
LEMMA RecordOrder ==
  ASSUME RecordsFit, NEW m \in 0..Len(records)
  PROVE  \A n \in m..Len(records) : RecordEnd(m) <= RecordEnd(n)
<1>1. PICK k : k = Len(records)
  OBVIOUS
<1>2. k \in Nat /\ m \in Nat /\ m <= k
  BY <1>1 DEF RecordsFit
<1> DEFINE Bad == {n \in m..k : ~ (RecordEnd(m) <= RecordEnd(n))}
<1> SUFFICES ASSUME Bad # {} PROVE FALSE
  BY <1>1
<1>3. Bad \subseteq Nat
  BY <1>2
<1>4. PICK n \in Bad : \A j \in Bad : n <= j
  <2> HIDE DEF Bad
  <2> QED BY <1>3, LeastOne
<1>5. n \in m..k /\ ~ (RecordEnd(m) <= RecordEnd(n))
  OBVIOUS
<1>6. RecordEnd(m) \in Nat
  BY <1>1, <1>2, RecordEnds
<1>7. n # m
  BY <1>5, <1>6
<1>8. PICK j : j = n - 1
  OBVIOUS
<1>9. j \in m..k /\ j \notin Bad /\ j + 1 = n /\ j \in 0..(k - 1)
  BY <1>2, <1>4, <1>5, <1>7, <1>8
<1>10. RecordEnd(m) <= RecordEnd(j)
  BY <1>9
<1>11. RecordEnd(n) = RecordEnd(j) + 4 + records[j + 1].len /\ records[j + 1].len \in Nat
  BY <1>1, <1>9, RecordEnds
<1>12. RecordEnd(j) \in Nat
  BY <1>1, <1>2, <1>9, RecordEnds
<1> QED BY <1>5, <1>6, <1>10, <1>11, <1>12

-----------------------------------------------------------------------------
(* Frames: where the decoder is.                                           *)

Decoders ==
  [headerFill : Nat, body : Nat, bodyFill : Nat, failed : {"no", "content", "late"},
   paused : BOOLEAN, timer : BOOLEAN, delivered : Nat]

(* Within the record after those delivered. *)
Inside(d, got) ==
  /\ d.body = NoBody => d.headerFill < 4 /\ got = RecordEnd(d.delivered) + d.headerFill
  /\ d.body # NoBody =>
       /\ d.delivered < Len(records) /\ d.body = records[d.delivered + 1].len /\ d.body <= MaxBody
       /\ d.headerFill = 4 /\ d.bodyFill < d.body
       /\ got = RecordEnd(d.delivered) + 4 + d.bodyFill

(* After so many bytes. *)
Reached(d, got) ==
  /\ d.delivered <= Len(records) /\ RecordEnd(d.delivered) <= got
  /\ \A i \in 1..d.delivered : ~ IsError(records[i])
  /\ d.failed = "no" => Inside(d, got)
  /\ d.failed = "content" => d.delivered < Len(records) /\ IsError(records[d.delivered + 1])
  /\ d.failed = "late" => d.delivered = Len(records) \/ got < RecordEnd(d.delivered + 1)

(* Its deadline runs within a record, unless the reader made the pause. *)
Timed(d, got) == d.failed = "no" => (d.timer <=> got # RecordEnd(d.delivered) /\ ~ d.paused)

(* A byte takes the decoder one byte further (push). *)
LEMMA TakesByteReaches ==
  ASSUME RecordsFit, NEW d \in Decoders, d.failed = "no", NEW got \in Nat, got < BytesSent,
         Reached(d, got), Timed(d, got), NEW e, e = TakesByte(d)
  PROVE  e \in Decoders /\ e.failed # "late" /\ Reached(e, got + 1) /\ Timed(e, got + 1)
<1>1. PICK k, r, end : k = d.delivered /\ r = records[k + 1] /\ end = RecordEnd(k)
  OBVIOUS
<1>2. k \in Nat /\ Len(records) \in Nat /\ k <= Len(records) /\ end <= got
  BY <1>1 DEF Decoders, Reached, RecordsFit
<1>3. end \in Nat /\ k \in 0..(Len(records) - 1)
  <2>1. end \in Nat /\ BytesSent = RecordEnd(Len(records))
    BY <1>1, <1>2, RecordEnds
  <2>2. k # Len(records)
    BY <1>1, <1>2, <2>1
  <2> QED BY <1>2, <2>1, <2>2
<1>4. r.len \in Nat /\ r.how \in How /\ RecordEnd(k + 1) = end + 4 + r.len /\ RecordEnd(k + 1) \in Nat
  BY <1>1, <1>2, <1>3, RecordEnds
<1>5. \A i \in 1..k : ~ IsError(records[i])
  BY <1>1 DEF Reached
<1>12. /\ d.timer \in BOOLEAN /\ d.paused \in BOOLEAN
       /\ (d.timer <=> got # end /\ ~ d.paused)
  BY <1>1 DEF Decoders, Timed
<1>6. /\ d.headerFill \in Nat /\ d.body \in Nat /\ d.bodyFill \in Nat
      /\ (d.body = 0 => d.headerFill < 4 /\ got = end + d.headerFill)
      /\ (d.body # 0 => /\ d.body = r.len /\ d.body <= MaxBody /\ d.headerFill = 4 /\ d.bodyFill < d.body
                         /\ got = end + 4 + d.bodyFill)
  BY <1>1 DEF Decoders, Reached, Inside, NoBody
<1>7. CASE d.body = 0 /\ d.headerFill + 1 < 4
  <2>1. PICK n, v : n = d.headerFill + 1 /\ v = (d.timer \/ ~ d.paused)
    OBVIOUS
  <2>2. n \in Nat /\ v \in BOOLEAN /\ (v <=> ~ d.paused)
    <3>1. n \in Nat
      BY <1>6, <2>1
    <3>2. v \in BOOLEAN /\ (v <=> ~ d.paused)
      BY <1>12, <2>1, ZenonT(20)
    <3> QED BY <3>1, <3>2
  <2>9. e = [d EXCEPT !.headerFill = n, !.timer = v]
    BY <1>6, <1>7, <2>1 DEF TakesByte, Armed, NoBody, HeaderLength
  <2>f. /\ e \in Decoders /\ e.failed = d.failed /\ e.delivered = d.delivered /\ e.body = d.body
        /\ e.headerFill = n /\ (e.timer <=> v) /\ (e.paused <=> d.paused)
    BY ONLY <2>2, <2>9, d \in Decoders DEF Decoders
  <2>3. e.headerFill < 4 /\ got + 1 = end + e.headerFill
    <3>1. e.headerFill = n
      BY <2>f
    <3>2. d.headerFill \in Nat /\ d.headerFill + 1 < 4 /\ got = end + d.headerFill
      BY <1>6, <1>7
    <3> QED BY <1>3, <2>1, <3>1, <3>2
  <2>4. Inside(e, got + 1)
    BY <1>1, <1>7, <2>3, <2>f DEF Inside, NoBody
  <2>5. Timed(e, got + 1)
    <3>1. got + 1 # end
      BY <1>2, <1>3
    <3> QED BY <1>1, <2>2, <2>f, <3>1 DEF Timed
  <2>6. end <= got + 1
    BY <1>2, <1>3
  <2> QED BY <1>1, <1>2, <1>5, <2>4, <2>5, <2>6, <2>f DEF Reached
<1>8. CASE d.body = 0 /\ d.headerFill + 1 = 4
  <2>1. e = HeaderRead(d, r.len)
    BY <1>1, <1>6, <1>8 DEF TakesByte, NoBody, HeaderLength
  <2>2. CASE r.len = 0 \/ r.len > MaxBody
    <3>0. PICK n : n = d.headerFill
      OBVIOUS
    <3>1. e = [d EXCEPT !.failed = "content", !.timer = FALSE, !.body = 0]
      BY <2>1, <2>2 DEF HeaderRead, Failing, NoBody
    <3>9. e = [d EXCEPT !.headerFill = n, !.failed = "content", !.timer = FALSE, !.body = 0]
      BY ONLY <3>0, <3>1, d \in Decoders DEF Decoders
    <3>2. e \in Decoders /\ e.failed = "content" /\ e.delivered = k
      BY ONLY <1>1, <3>0, <1>6, <3>9, d \in Decoders DEF Decoders
    <3>3. IsError(records[k + 1]) /\ k < Len(records) /\ end <= got + 1
      BY <1>1, <1>2, <1>3, <2>2 DEF IsError
    <3> QED BY <1>1, <1>2, <1>5, <3>2, <3>3 DEF Reached, Timed
  <2>3. CASE ~ (r.len = 0 \/ r.len > MaxBody)
    <3>0. PICK n, v : n = r.len /\ v = (d.timer \/ ~ d.paused)
      OBVIOUS
    <3>9. n \in Nat /\ v \in BOOLEAN /\ (v <=> ~ d.paused)
      <4>1. n \in Nat
        BY <1>4, <3>0
      <4>2. v \in BOOLEAN /\ (v <=> ~ d.paused)
        BY <1>12, <1>8, <3>0, ZenonT(20)
      <4> QED BY <4>1, <4>2
    <3>1. e = [d EXCEPT !.headerFill = 4, !.body = n, !.bodyFill = 0, !.timer = v]
      BY <2>1, <2>3, <3>0 DEF HeaderRead, Armed, HeaderLength
    <3>f. /\ e \in Decoders /\ e.failed = d.failed /\ e.delivered = d.delivered /\ e.body = n /\ e.bodyFill = 0
          /\ e.headerFill = 4 /\ (e.timer <=> v) /\ (e.paused <=> d.paused)
      BY ONLY <3>1, <3>9, d \in Decoders DEF Decoders
    <3>2. /\ e.failed = "no" /\ e.delivered = k /\ e.body = r.len
      BY <1>1, <3>0, <3>f
    <3>3. e.body # 0 /\ e.body <= MaxBody /\ 0 < e.body /\ got + 1 = end + 4 + 0 /\ k < Len(records)
      <4>1. r.len # 0 /\ r.len <= MaxBody
        BY ONLY <1>4, <2>3, FramesAssumption
      <4>2. got = end + d.headerFill /\ d.headerFill \in Nat /\ d.headerFill + 1 = 4
        BY ONLY <1>6, <1>8
      <4>3. got + 1 = end + 4
        BY ONLY <1>3, got \in Nat, <4>2
      <4>4. k < Len(records)
        BY ONLY <1>2, <1>3
      <4>5. e.body = r.len
        BY ONLY <3>2
      <4> QED BY ONLY <1>3, <1>4, <4>1, <4>3, <4>4, <4>5, got \in Nat
    <3>4. Inside(e, got + 1)
      BY <1>1, <3>2, <3>3, <3>f DEF Inside, NoBody
    <3>5. Timed(e, got + 1)
      <4>1. got + 1 # end
        BY <1>2, <1>3
      <4> QED BY <1>1, <3>2, <3>9, <3>f, <4>1 DEF Timed
    <3>6. end <= got + 1
      BY <1>2, <1>3
    <3> QED BY <1>1, <1>2, <1>5, <3>2, <3>4, <3>5, <3>6, <3>f DEF Reached
  <2> QED BY <2>2, <2>3
<1>9. CASE d.body # 0 /\ d.bodyFill + 1 < d.body
  <2>1. e = [d EXCEPT !.bodyFill = d.bodyFill + 1]
    BY <1>6, <1>9 DEF TakesByte, NoBody
  <2>2. /\ e \in Decoders /\ e.failed = "no" /\ e.delivered = k /\ e.body = d.body /\ e.bodyFill = d.bodyFill + 1
        /\ e.headerFill = d.headerFill /\ (e.timer <=> d.timer) /\ (e.paused <=> d.paused)
    <3>1. PICK n : n = d.bodyFill + 1
      OBVIOUS
    <3>2. n \in Nat /\ e = [d EXCEPT !.bodyFill = n]
      BY <1>6, <2>1, <3>1
    <3> QED BY ONLY <1>1, <3>1, <3>2, d \in Decoders, d.failed = "no" DEF Decoders
  <2>3. /\ e.body # 0 /\ e.body = r.len /\ e.body <= MaxBody /\ e.headerFill = 4 /\ e.bodyFill < e.body
        /\ got + 1 = end + 4 + e.bodyFill /\ k < Len(records)
    BY <1>2, <1>3, <1>6, <1>9, <2>2
  <2>4. Inside(e, got + 1)
    BY <1>1, <2>2, <2>3 DEF Inside, NoBody
  <2>5. got # end /\ got + 1 # end
    BY <1>3, <1>6, <1>9
  <2>6. Timed(e, got + 1)
    BY <1>1, <1>6, <2>2, <2>5 DEF Timed
  <2>7. end <= got + 1
    BY <1>2, <1>3
  <2> QED BY <1>1, <1>2, <1>5, <2>2, <2>4, <2>6, <2>7 DEF Reached
<1>10. CASE d.body # 0 /\ d.bodyFill + 1 = d.body
  <2>1. e = Delivers(d, r.how)
    BY <1>1, <1>6, <1>10 DEF TakesByte, NoBody
  <2>2. CASE r.how = "error"
    <3>1. e = [d EXCEPT !.body = 0, !.headerFill = 0, !.timer = FALSE, !.failed = "content"]
      BY <2>1, <2>2 DEF Delivers, Failing, NoBody
    <3>9. e = [d EXCEPT !.headerFill = 0, !.failed = "content", !.timer = FALSE, !.body = 0]
      BY ONLY <3>1, d \in Decoders DEF Decoders
    <3>2. e \in Decoders /\ e.failed = "content" /\ e.delivered = k
      BY ONLY <1>1, <3>9, d \in Decoders DEF Decoders
    <3>3. IsError(records[k + 1]) /\ k < Len(records) /\ end <= got + 1
      BY <1>1, <1>2, <1>3, <2>2 DEF IsError
    <3> QED BY <1>1, <1>2, <1>5, <3>2, <3>3 DEF Reached, Timed
  <2>3. CASE r.how # "error"
    <3>0. PICK n : n = k + 1
      OBVIOUS
    <3>1. PICK v \in BOOLEAN :
            e = [d EXCEPT !.body = 0, !.headerFill = 0, !.timer = FALSE, !.delivered = n, !.paused = v]
      <4>1. CASE r.how = "taken"
        <5>1. PICK v : v = d.paused
          OBVIOUS
        <5>2. v \in BOOLEAN
          BY <1>12, <5>1
        <5>3. e = [d EXCEPT !.body = 0, !.headerFill = 0, !.timer = FALSE, !.delivered = n]
          BY <1>1, <2>1, <3>0, <4>1 DEF Delivers, NoBody
        <5>4. e = [d EXCEPT !.body = 0, !.headerFill = 0, !.timer = FALSE, !.delivered = n, !.paused = v]
          BY ONLY <5>1, <5>3, d \in Decoders DEF Decoders
        <5> QED BY <5>2, <5>4
      <4>2. CASE r.how = "pauses"
        BY <1>1, <2>1, <3>0, <4>2 DEF Delivers, NoBody
      <4> QED BY <1>4, <2>3, <4>1, <4>2 DEF How
    <3>2. /\ e \in Decoders /\ e.failed = "no" /\ e.delivered = k + 1 /\ e.body = 0
          /\ e.headerFill = 0 /\ (e.timer <=> FALSE)
      <4>1. n \in Nat
        BY <1>2, <3>0
      <4> QED BY ONLY <3>0, <3>1, <4>1, d \in Decoders, d.failed = "no" DEF Decoders
    <3>3. got + 1 = RecordEnd(k + 1)
      BY <1>3, <1>4, <1>6, <1>10
    <3>4. ~ IsError(records[k + 1])
      BY <1>1, <1>4, <1>6, <1>10, <2>3, FramesAssumption DEF IsError
    <3>5. \A i \in 1..(k + 1) : ~ IsError(records[i])
      BY <1>2, <1>5, <3>4
    <3>6. Inside(e, got + 1) /\ Timed(e, got + 1)
      BY <1>4, <3>2, <3>3 DEF Inside, Timed, NoBody
    <3>7. k + 1 <= Len(records) /\ RecordEnd(k + 1) <= got + 1
      BY <1>2, <1>3, <1>4, <3>3
    <3> QED BY <3>2, <3>5, <3>6, <3>7 DEF Reached
  <2> QED BY <2>2, <2>3
<1>11. /\ d.body = 0 => d.headerFill + 1 < 4 \/ d.headerFill + 1 = 4
       /\ d.body # 0 => d.bodyFill + 1 < d.body \/ d.bodyFill + 1 = d.body
  BY <1>6
<1> QED BY <1>7, <1>8, <1>9, <1>10, <1>11


(* What a byte of a chunk does: nothing, after an error. *)
Took(d) == IF d.failed = "no" THEN TakesByte(d) ELSE d

(* Where a decoder may be that has not been late. *)
InTime(got) == {d \in Decoders : d.failed # "late" /\ Reached(d, got) /\ Timed(d, got)}

(* So it does whether or not an error came before it. *)
LEMMA TookReaches ==
  ASSUME RecordsFit, NEW got \in Nat, got < BytesSent, NEW d \in InTime(got)
  PROVE  Took(d) \in InTime(got + 1)
<1>0. d \in Decoders /\ d.failed # "late" /\ Reached(d, got) /\ Timed(d, got)
  BY DEF InTime
<1>1. CASE d.failed = "no"
  <2>1. PICK e : e = TakesByte(d)
    OBVIOUS
  <2>2. e \in Decoders /\ e.failed # "late" /\ Reached(e, got + 1) /\ Timed(e, got + 1)
    BY ONLY RecordsFit, got \in Nat, got < BytesSent, <1>0, <1>1, <2>1, TakesByteReaches
  <2>3. e \in InTime(got + 1)
    BY <2>2 DEF InTime
  <2> QED BY <1>1, <2>1, <2>3 DEF Took
<1>2. CASE d.failed # "no"
  <2>1. d.failed = "content" /\ d.delivered \in Nat
    BY <1>0, <1>2 DEF Decoders
  <2>2. d.delivered \in 0..Len(records)
    BY <1>0, <2>1 DEF Reached
  <2>3. RecordEnd(d.delivered) \in Nat /\ RecordEnd(d.delivered) <= got
    BY <1>0, <2>2, RecordEnds DEF Reached
  <2>4. RecordEnd(d.delivered) <= got + 1
    BY <2>3
  <2>5. Reached(d, got + 1) /\ Timed(d, got + 1)
    BY <1>0, <2>1, <2>4 DEF Reached, Timed
  <2> QED BY <1>0, <1>2, <2>5 DEF Took, InTime
<1> QED BY <1>1, <1>2

(* What a chunk does. *)
Chunked(n) == FoldLeft(LAMBDA d, i : IF d.failed = "no" THEN TakesByte(d) ELSE d,
                       decoder, [i \in 1..n |-> i])

(* It takes the decoder as far as its bytes reach. *)
LEMMA ChunkReaches ==
  ASSUME RecordsFit, received \in Nat, decoder \in InTime(received),
         NEW n \in Nat, received + n <= BytesSent, BytesSent \in Nat, NEW e, e = Chunked(n)
  PROVE  e \in InTime(received + n)
<1>1. PICK S, base, c, P :
        /\ S = 1..n /\ base = decoder /\ c = [s \in SUBSET (1..n) |-> Max(s)]
        /\ P = [m \in 0..n |-> InTime(received + m)]
  OBVIOUS
<1>2. Chooses(c, S) /\ IsFiniteSet(S) /\ Cardinality(S) = n
  <2>1. Chooses(c, 1..n) /\ IsFiniteSet(1..n)
    BY ONLY <1>1, n \in Nat, LastChooses
  <2>2. Cardinality(1..n) = n
    BY ONLY n \in Nat, FS_Interval
  <2> QED BY ONLY <1>1, <2>1, <2>2
<1>3. \A s \in SUBSET S : c[s] = Max(s) /\ (s # {} => c[s] \in S)
  BY <1>1, <1>2 DEF Chooses
<1>4. \A s \in SUBSET S : Cardinality(s) \in 0..n /\ (s # {} => Cardinality(s) \in 1..n)
  <2> SUFFICES ASSUME NEW s \in SUBSET S
               PROVE  Cardinality(s) \in 0..n /\ (s # {} => Cardinality(s) \in 1..n)
    OBVIOUS
  <2>1. IsFiniteSet(s) /\ Cardinality(s) \in Nat /\ Cardinality(s) <= n
    BY <1>2, FS_Subset, FS_CardinalityType
  <2>2. s # {} => Cardinality(s) # 0
    BY <2>1, FS_EmptySet
  <2> QED BY <2>1, <2>2
<1>5. /\ base \in P[0]
      /\ \A m \in 0..n : P[m] \subseteq Decoders
      /\ \A m \in 1..n : \A d \in P[m - 1] : Took(d) \in P[m]
  <2>1. base \in P[0]
    <3>1. P[0] = InTime(received + 0) /\ received + 0 = received
      BY <1>1
    <3> QED BY <1>1, <3>1
  <2>2. \A m \in 0..n : P[m] = InTime(received + m)
    BY <1>1
  <2>3. \A m \in 0..n : P[m] \subseteq Decoders
    BY <2>2 DEF InTime
  <2>4. ASSUME NEW m \in 1..n, NEW d \in P[m - 1] PROVE Took(d) \in P[m]
    <3>1. PICK got : got = received + (m - 1)
      OBVIOUS
    <3>2. got \in Nat /\ got < BytesSent /\ got + 1 = received + m /\ m - 1 \in 0..n /\ m \in 0..n
      BY <3>1
    <3>3. d \in InTime(got) /\ P[m] = InTime(got + 1)
      BY <2>2, <2>4, <3>1, <3>2
    <3> QED BY ONLY RecordsFit, <3>2, <3>3, TookReaches
  <2> QED BY <2>1, <2>3, <2>4
<1> DEFINE Eq(g) == g = [s \in SUBSET S |-> IF s = {} THEN base ELSE Took(g[s \ {Max(s)}])]
<1>6. \E g : Eq(g)
  <2>1. PICK F : F = [e_ \in S \X Decoders |-> Took(e_[2])]
    OBVIOUS
  <2>2. PICK g : Applies(g, F, base, c, S)
    BY <1>2, FoldExists
  <2>3. g = [s \in SUBSET S |-> Applied(g, F, base, c, s)]
    BY <2>2 DEF Applies
  <2>4. \A s \in SUBSET S : g[s] = IF s = {} THEN base ELSE F[<<c[s], g[s \ {c[s]}]>>]
    <3>1. PICK h : h = [s \in SUBSET S |-> Applied(g, F, base, c, s)]
      OBVIOUS
    <3>2. g = h
      BY <2>3, <3>1
    <3> QED BY <3>1, <3>2 DEF Applied
  <2>5. ASSUME NEW s \in SUBSET S, s # {}, g[s \ {c[s]}] \in Decoders
        PROVE  g[s] = Took(g[s \ {c[s]}])
    <3>1. PICK p : p = <<c[s], g[s \ {c[s]}]>>
      OBVIOUS
    <3>2. p \in S \X Decoders /\ p[2] = g[s \ {c[s]}]
      BY <1>3, <2>5, <3>1
    <3>3. F[p] = Took(p[2])
      BY <2>1, <3>2
    <3> QED BY <2>4, <2>5, <3>1, <3>2, <3>3
  <2>6. /\ g[{}] \in P[0]
        /\ \A s \in SUBSET S : s # {} /\ g[s \ {c[s]}] \in P[Cardinality(s) - 1] => g[s] \in P[Cardinality(s)]
    <3>1. g[{}] \in P[0]
      BY <1>5, <2>4
    <3>2. ASSUME NEW s \in SUBSET S, s # {}, g[s \ {c[s]}] \in P[Cardinality(s) - 1]
          PROVE  g[s] \in P[Cardinality(s)]
      <4>1. Cardinality(s) \in 1..n /\ Cardinality(s) - 1 \in 0..n
        BY <1>4, <3>2
      <4>2. g[s \ {c[s]}] \in Decoders
        BY <1>5, <3>2, <4>1
      <4> QED BY <1>5, <2>5, <3>2, <4>1, <4>2
    <3> QED BY <3>1, <3>2
  <2>7. \A s \in SUBSET S : g[s] \in P[Cardinality(s)]
    BY ONLY <1>2, <2>6, FoldGrows
  <2>8. \A s \in SUBSET S : Applied(g, F, base, c, s) = IF s = {} THEN base ELSE Took(g[s \ {Max(s)}])
    <3> SUFFICES ASSUME NEW s \in SUBSET S, s # {}
                 PROVE  Applied(g, F, base, c, s) = Took(g[s \ {Max(s)}])
      BY DEF Applied
    <3>1. PICK r : r = s \ {c[s]}
      OBVIOUS
    <3>2. g[r] \in Decoders
      BY <1>4, <1>5, <2>7, <3>1
    <3>3. g[s] = Applied(g, F, base, c, s)
      BY <2>4 DEF Applied
    <3> QED BY <1>3, <2>5, <3>1, <3>2, <3>3
  <2> QED BY <2>3, <2>8
<1>7. PICK g : g = CHOOSE f : Eq(f)
  OBVIOUS
<1>8. Eq(g)
  BY <1>6, <1>7
<1>9. e = g[S]
  BY <1>1, <1>7 DEF Chunked, FoldLeft, MapThenFoldSet, Took
<1>10. /\ g[{}] \in P[0]
       /\ \A s \in SUBSET S : s # {} /\ g[s \ {c[s]}] \in P[Cardinality(s) - 1] => g[s] \in P[Cardinality(s)]
  <2>1. g[{}] = base
    BY <1>8
  <2>2. ASSUME NEW s \in SUBSET S, s # {}, g[s \ {c[s]}] \in P[Cardinality(s) - 1] PROVE g[s] \in P[Cardinality(s)]
    <3>1. g[s] = Took(g[s \ {c[s]}])
      BY <1>3, <1>8, <2>2
    <3> QED BY <1>4, <1>5, <2>2, <3>1
  <2> QED BY <1>5, <2>1, <2>2
<1>11. g[S] \in P[n]
  <2> HIDE DEF Eq
  <2>1. \A s \in SUBSET S : g[s] \in P[Cardinality(s)]
    BY ONLY <1>2, <1>10, FoldGrows
  <2> QED BY <1>2, <2>1
<1>12. P[n] = InTime(received + n)
  BY <1>1
<1> QED BY <1>9, <1>11, <1>12

-----------------------------------------------------------------------------
(* Frames: the decoder's invariant.                                        *)

BridgeInv ==
  /\ RecordsFit
  /\ received \in Nat
  /\ decoder \in Decoders
  /\ Reached(decoder, received)
  /\ ended \in {"no", "clean", "truncated"}
  /\ ended = "no" => Timed(decoder, received)
  /\ ended # "no" =>
       /\ decoder.timer = FALSE
       /\ decoder.failed = "no" => (ended = "clean" <=> received = RecordEnd(decoder.delivered))

(* Where the next record begins or ends. *)
LEMMA NextRecord ==
  ASSUME RecordsFit, NEW d \in Decoders, NEW got \in Nat, Reached(d, got)
  PROVE  /\ Len(records) \in Nat /\ d.delivered \in 0..Len(records) /\ RecordEnd(d.delivered) \in Nat
         /\ d.failed = "no" => d.delivered = Len(records) \/ got < RecordEnd(d.delivered + 1)
         /\ d.failed = "no" => (Partial(d) <=> got # RecordEnd(d.delivered))
<1>1. PICK k : k = d.delivered
  OBVIOUS
<1>2. Len(records) \in Nat /\ k \in 0..Len(records)
  BY <1>1 DEF RecordsFit, Reached, Decoders
<1>3. RecordEnd(k) \in Nat
  BY <1>2, RecordEnds
<1>4. ASSUME d.failed = "no" PROVE k = Len(records) \/ got < RecordEnd(k + 1)
  <2>1. CASE k = Len(records)
    BY <2>1
  <2>2. CASE k # Len(records)
    <3>1. RecordEnd(k + 1) = RecordEnd(k) + 4 + records[k + 1].len /\ records[k + 1].len \in Nat
      BY <1>2, <2>2, RecordEnds
    <3>2. Inside(d, got) /\ d.body \in Nat /\ d.headerFill \in Nat /\ d.bodyFill \in Nat
      BY <1>4 DEF Reached, Decoders
    <3>3. CASE d.body = 0
      <4>1. d.headerFill < 4 /\ got = RecordEnd(k) + d.headerFill
        BY <1>1, <3>2, <3>3 DEF Inside, NoBody
      <4> QED BY <1>3, <3>1, <3>2, <4>1
    <3>4. CASE d.body # 0
      <4>1. d.body = records[k + 1].len /\ d.bodyFill < d.body /\ got = RecordEnd(k) + 4 + d.bodyFill
        BY <1>1, <3>2, <3>4 DEF Inside, NoBody
      <4> QED BY <1>3, <3>1, <3>2, <4>1
    <3> QED BY <3>3, <3>4
  <2> QED BY <2>1, <2>2
<1>5. ASSUME d.failed = "no" PROVE Partial(d) <=> got # RecordEnd(k)
  <2>1. Inside(d, got) /\ d.body \in Nat /\ d.headerFill \in Nat /\ d.bodyFill \in Nat
    BY <1>5 DEF Reached, Decoders
  <2>2. CASE d.body = 0
    <3>1. got = RecordEnd(k) + d.headerFill
      BY <1>1, <2>1, <2>2 DEF Inside, NoBody
    <3>2. Partial(d) <=> d.headerFill > 0
      BY <2>2 DEF Partial, NoBody
    <3>3. d.headerFill > 0 <=> got # RecordEnd(k)
      BY <1>3, <2>1, <3>1
    <3> QED BY <3>2, <3>3
  <2>3. CASE d.body # 0
    <3>1. got = RecordEnd(k) + 4 + d.bodyFill
      BY <1>1, <2>1, <2>3 DEF Inside, NoBody
    <3>2. got # RecordEnd(k)
      BY <1>3, <2>1, <3>1
    <3> QED BY <2>3, <3>2 DEF Partial, NoBody
  <2> QED BY <2>1, <2>2, <2>3
<1> QED BY <1>1, <1>2, <1>3, <1>4, <1>5

(* The invariant from a decoder that has reached as far, and the end. *)
LEMMA BridgeIs ==
  ASSUME RecordsFit, received \in Nat, decoder \in Decoders, Reached(decoder, received),
         ended = "no", Timed(decoder, received)
  PROVE  BridgeInv
BY DEF BridgeInv

(* While the peer's records stay, they end where they did. *)
LEMMA SameRecords ==
  ASSUME records' = records
  PROVE  /\ RecordsFit' <=> RecordsFit
         /\ BytesSent' = BytesSent
         /\ \A n : RecordEnd(n)' = RecordEnd(n)
         /\ \A d, got : (Reached(d, got)' <=> Reached(d, got)) /\ (Timed(d, got)' <=> Timed(d, got))
<1>1. \A n : RecordEnd(n)' = RecordEnd(n)
  BY DEF RecordEnd
<1>2. (RecordsFit' <=> RecordsFit) /\ BytesSent' = BytesSent
  BY DEF RecordsFit, BytesSent
<1>3. \A d, got : (Reached(d, got)' <=> Reached(d, got)) /\ (Timed(d, got)' <=> Timed(d, got))
  BY <1>1 DEF Reached, Inside, Timed, IsError
<1> QED BY <1>1, <1>2, <1>3

(* A step that changes the decoder keeps the invariant if the new one has  *)
(* reached as far.                                                         *)
LEMMA BridgeMoves ==
  ASSUME records' = records, RecordsFit, NEW d \in Decoders, decoder' = d, NEW got \in Nat, received' = got,
         Reached(d, got), NEW u \in {"no", "clean", "truncated"}, ended' = u,
         u = "no" => Timed(d, got),
         u # "no" => /\ d.timer = FALSE
                     /\ d.failed = "no" => (u = "clean" <=> got = RecordEnd(d.delivered))
  PROVE  BridgeInv'
<1>1. RecordsFit' /\ RecordEnd(d.delivered)' = RecordEnd(d.delivered) /\ Reached(d, got)' /\ (u = "no" => Timed(d, got)')
  BY SameRecords
<1> QED BY <1>1 DEF BridgeInv

(* It holds of a decoder as it is made. *)
LEMMA BridgeInvInit == BridgeInit => BridgeInv
<1> SUFFICES ASSUME BridgeInit PROVE BridgeInv
  OBVIOUS
<1>1. RecordsFit
  <2>1. PICK S, n : S = [len : RecordLength, how : How] /\ n \in 0..MaxRecords /\ records \in [1..n -> S]
    BY DEF BridgeInit
  <2>2. n \in Nat
    BY <2>1, FramesAssumption
  <2>3. records \in Seq(S)
    BY ONLY <2>1, <2>2, SeqDef
  <2> QED BY <2>1, <2>3 DEF RecordsFit
<1>2. received = 0 /\ ended = "no" /\ received \in Nat
  BY DEF BridgeInit
<1>3. PICK d : d = decoder
  OBVIOUS
<1>4. /\ d \in Decoders /\ d.headerFill = 0 /\ d.body = 0 /\ d.failed = "no" /\ d.delivered = 0
      /\ d.timer = FALSE
  BY <1>3 DEF BridgeInit, Decoders, NoBody
<1>5. RecordEnd(0) = 0 /\ Len(records) \in Nat
  BY <1>1, RecordEnds DEF RecordsFit
<1>6. Reached(d, 0)
  BY <1>4, <1>5 DEF Reached, Inside, NoBody
<1>7. Timed(d, 0)
  BY <1>4, <1>5 DEF Timed
<1> QED BY <1>1, <1>2, <1>3, <1>4, <1>6, <1>7, BridgeIs

(* A chunk arrives (push). *)
LEMMA PushKeeps == ASSUME BridgeInv, NEW n \in 1..(BytesSent - received), Push(n) PROVE BridgeInv'
<1>1. RecordsFit /\ received \in Nat /\ decoder \in InTime(received)
  BY DEF BridgeInv, InTime, Push
<1>2. BytesSent \in Nat
  <2>1. Len(records) \in Nat
    BY <1>1 DEF RecordsFit
  <2> QED BY <1>1, <2>1, RecordEnds
<1>3. n \in Nat /\ received + n <= BytesSent
  BY <1>1, <1>2
<1>4. PICK e : e = Chunked(n)
  OBVIOUS
<1>5. e \in InTime(received + n)
  BY ONLY <1>1, <1>2, <1>3, <1>4, ChunkReaches
<1>6. decoder' = e /\ received' = received + n /\ records' = records /\ ended' = "no"
  BY <1>4 DEF Push, Chunked
<1>7. PICK got : got = received + n
  OBVIOUS
<1>8. got \in Nat
  BY <1>1, <1>3, <1>7
<1>9. e \in Decoders /\ Reached(e, got) /\ Timed(e, got)
  BY <1>5, <1>7 DEF InTime
<1> QED BY ONLY <1>1, <1>6, <1>7, <1>8, <1>9, BridgeMoves

(* A change of the pause and of the deadline alone leaves the decoder where *)
(* it is.                                                                  *)
LEMMA SamePlace ==
  ASSUME NEW d \in Decoders, NEW got, Reached(d, got), NEW e \in Decoders,
         e.failed = d.failed, e.delivered = d.delivered,
         e.headerFill = d.headerFill, e.body = d.body, e.bodyFill = d.bodyFill
  PROVE  Reached(e, got)
BY DEF Reached, Inside

(* The reader makes a pause (pause). *)
LEMMA PauseKeeps == ASSUME BridgeInv, Pause PROVE BridgeInv'
<1>1. PICK d, got, e : d = decoder /\ got = received /\ e = [d EXCEPT !.paused = TRUE, !.timer = FALSE]
  OBVIOUS
<1>2. RecordsFit /\ got \in Nat /\ d \in Decoders /\ Reached(d, got)
  BY <1>1 DEF BridgeInv
<1>3. decoder' = e /\ received' = got /\ records' = records /\ ended' = "no"
  BY <1>1 DEF Pause
<1>4. e \in Decoders /\ Reached(e, got) /\ e.paused = TRUE /\ e.timer = FALSE
  <2>1. PICK p, t : p = TRUE /\ t = FALSE
    OBVIOUS
  <2>2. p \in BOOLEAN /\ t \in BOOLEAN /\ e = [d EXCEPT !.paused = p, !.timer = t]
    BY <1>1, <2>1
  <2>3. /\ e \in Decoders /\ e.paused = p /\ e.timer = t /\ e.failed = d.failed /\ e.delivered = d.delivered
        /\ e.headerFill = d.headerFill /\ e.body = d.body /\ e.bodyFill = d.bodyFill
    BY ONLY <1>2, <2>2 DEF Decoders
  <2>4. Reached(e, got)
    BY ONLY <1>2, <2>3, SamePlace
  <2> QED BY ONLY <2>1, <2>3, <2>4
<1>5. Timed(e, got)
  BY <1>4 DEF Timed
<1> QED BY ONLY <1>2, <1>3, <1>4, <1>5, BridgeMoves

(* It goes on; the deadline runs again if a record is there in part        *)
(* (resume).                                                               *)
LEMMA ResumeKeeps == ASSUME BridgeInv, Resume PROVE BridgeInv'
<1>1. PICK d, got, e : d = decoder /\ got = received /\ e = decoder'
  OBVIOUS
<1>2. RecordsFit /\ got \in Nat /\ d \in Decoders /\ Reached(d, got) /\ d.timer \in BOOLEAN
  BY <1>1 DEF BridgeInv, Decoders
<1>3. received' = got /\ records' = records /\ ended' = "no" /\ d.paused /\ Timed(d, got)
  BY <1>1 DEF Resume, BridgeInv
<1>4. PICK f : f = [d EXCEPT !.paused = FALSE]
  OBVIOUS
<1>5. /\ Partial(f) <=> Partial(d)
      /\ e = IF Partial(f) THEN [f EXCEPT !.timer = TRUE] ELSE f
  <2>1. f.body = d.body /\ f.headerFill = d.headerFill /\ f.paused = FALSE
    BY <1>2, <1>4 DEF Decoders
  <2>2. e = IF Partial(f) THEN [f EXCEPT !.timer = f.timer \/ ~ f.paused] ELSE f
    BY <1>1, <1>4 DEF Resume, Armed
  <2>3. (f.timer \/ ~ f.paused) = TRUE
    BY <2>1
  <2> QED BY <2>1, <2>2, <2>3 DEF Partial
<1>6. PICK t \in BOOLEAN : e = [d EXCEPT !.paused = FALSE, !.timer = t] /\ (t <=> Partial(d) \/ d.timer)
  <2>1. CASE Partial(d)
    <3>1. e = [d EXCEPT !.paused = FALSE, !.timer = TRUE]
      BY <1>2, <1>4, <1>5, <2>1 DEF Decoders
    <3> QED BY <2>1, <3>1
  <2>2. CASE ~ Partial(d)
    <3>1. e = [d EXCEPT !.paused = FALSE, !.timer = d.timer]
      BY <1>2, <1>4, <1>5, <2>2 DEF Decoders
    <3> QED BY <1>2, <2>2, <3>1
  <2> QED BY <2>1, <2>2
<1>7. /\ e \in Decoders /\ Reached(e, got) /\ e.paused = FALSE /\ e.timer = t
      /\ e.failed = d.failed /\ e.delivered = d.delivered
  <2>1. PICK p, v : p = FALSE /\ v = t
    OBVIOUS
  <2>2. p \in BOOLEAN /\ v \in BOOLEAN /\ e = [d EXCEPT !.paused = p, !.timer = v]
    BY <1>6, <2>1
  <2>3. /\ e \in Decoders /\ e.paused = p /\ e.timer = v /\ e.failed = d.failed /\ e.delivered = d.delivered
        /\ e.headerFill = d.headerFill /\ e.body = d.body /\ e.bodyFill = d.bodyFill
    BY ONLY <1>2, <2>2 DEF Decoders
  <2>4. Reached(e, got)
    BY ONLY <1>2, <2>3, SamePlace
  <2> QED BY ONLY <2>1, <2>3, <2>4
<1>8. d.failed = "no" => (Partial(d) <=> got # RecordEnd(d.delivered))
  BY ONLY <1>2, NextRecord
<1>9. Timed(e, got)
  <2>1. d.failed = "no" => (t <=> got # RecordEnd(d.delivered))
    BY <1>3, <1>6, <1>8 DEF Timed
  <2> QED BY <1>7, <2>1 DEF Timed
<1>10. decoder' = e
  BY <1>1
<1> QED BY ONLY <1>2, <1>3, <1>7, <1>9, <1>10, BridgeMoves

(* The deadline passes. *)
LEMMA RecordLateKeeps == ASSUME BridgeInv, RecordLate PROVE BridgeInv'
<1>1. PICK d, got, e, u : d = decoder /\ got = received /\ e = decoder' /\ u = ended
  OBVIOUS
<1>2. RecordsFit /\ got \in Nat /\ d \in Decoders /\ Reached(d, got) /\ d.failed = "no" /\ u = "no"
  BY <1>1 DEF BridgeInv, RecordLate
<1>3. received' = got /\ records' = records /\ ended' = u /\ decoder' = e
  BY <1>1 DEF RecordLate
<1>4. e = [d EXCEPT !.failed = "late", !.timer = FALSE, !.body = 0]
  BY <1>1 DEF RecordLate, Failing, NoBody
<1>5. e \in Decoders /\ e.failed = "late" /\ e.delivered = d.delivered
  BY ONLY <1>2, <1>4 DEF Decoders
<1>6. d.delivered = Len(records) \/ got < RecordEnd(d.delivered + 1)
  BY ONLY <1>2, NextRecord
<1>7. Reached(e, got) /\ Timed(e, got)
  BY <1>2, <1>5, <1>6 DEF Reached, Timed
<1> QED BY ONLY <1>2, <1>3, <1>5, <1>7, BridgeMoves

(* The pipe ends, between two records or within one (end). *)
LEMMA InputEndsKeeps == ASSUME BridgeInv, InputEnds PROVE BridgeInv'
<1>1. PICK d, got, e, u : d = decoder /\ got = received /\ e = decoder' /\ u = ended'
  OBVIOUS
<1>2. RecordsFit /\ got \in Nat /\ d \in Decoders /\ Reached(d, got) /\ d.paused \in BOOLEAN
  BY <1>1 DEF BridgeInv, Decoders
<1>3. received' = got /\ records' = records /\ ended' = u /\ decoder' = e
  BY <1>1 DEF InputEnds
<1>4. u \in {"clean", "truncated"} /\ (u = "clean" <=> ~ Partial(d))
  BY <1>1 DEF InputEnds
<1>5. e = [d EXCEPT !.paused = d.paused, !.timer = FALSE]
  <2>1. e = [d EXCEPT !.timer = FALSE]
    BY <1>1 DEF InputEnds
  <2> QED BY ONLY <1>2, <2>1 DEF Decoders
<1>6. e \in Decoders /\ Reached(e, got) /\ e.timer = FALSE /\ e.failed = d.failed /\ e.delivered = d.delivered
  <2>1. PICK p, v : p = d.paused /\ v = FALSE
    OBVIOUS
  <2>2. p \in BOOLEAN /\ v \in BOOLEAN /\ e = [d EXCEPT !.paused = p, !.timer = v]
    BY <1>2, <1>5, <2>1
  <2>3. /\ e \in Decoders /\ e.paused = p /\ e.timer = v /\ e.failed = d.failed /\ e.delivered = d.delivered
        /\ e.headerFill = d.headerFill /\ e.body = d.body /\ e.bodyFill = d.bodyFill
    BY ONLY <1>2, <2>2 DEF Decoders
  <2>4. Reached(e, got)
    BY ONLY <1>2, <2>3, SamePlace
  <2> QED BY ONLY <2>1, <2>3, <2>4
<1>7. d.failed = "no" => (Partial(d) <=> got # RecordEnd(d.delivered))
  BY ONLY <1>2, NextRecord
<1>8. u # "no" /\ u \in {"no", "clean", "truncated"} /\ (e.failed = "no" => (u = "clean" <=> got = RecordEnd(e.delivered)))
  BY <1>4, <1>6, <1>7
<1> QED BY ONLY <1>2, <1>3, <1>6, <1>8, BridgeMoves

(* Every step of the decoder keeps the invariant. *)
LEMMA BridgeInvNext == BridgeInv /\ [BridgeNext]_bridgeVars => BridgeInv'
<1> SUFFICES ASSUME BridgeInv, [BridgeNext]_bridgeVars PROVE BridgeInv'
  OBVIOUS
<1>1. ASSUME NEW n \in 1 .. BytesSent - received, Push(n) PROVE BridgeInv'
  BY <1>1, PushKeeps
<1>2. CASE Pause \/ Resume \/ RecordLate \/ InputEnds
  BY <1>2, PauseKeeps, ResumeKeeps, RecordLateKeeps, InputEndsKeeps
<1>3. CASE UNCHANGED bridgeVars
  <2>1. records' = records /\ received' = received /\ decoder' = decoder /\ ended' = ended
    BY <1>3 DEF bridgeVars
  <2>2. PICK d, got, u : d = decoder /\ got = received /\ u = ended
    OBVIOUS
  <2>3. /\ RecordsFit /\ got \in Nat /\ d \in Decoders /\ Reached(d, got) /\ u \in {"no", "clean", "truncated"}
        /\ u = "no" => Timed(d, got)
        /\ u # "no" => /\ d.timer = FALSE
                       /\ d.failed = "no" => (u = "clean" <=> got = RecordEnd(d.delivered))
    BY <2>2 DEF BridgeInv
  <2>4. decoder' = d /\ received' = got /\ ended' = u
    BY <2>1, <2>2
  <2> QED BY ONLY <2>1, <2>3, <2>4, BridgeMoves
<1> QED BY <1>1, <1>2, <1>3 DEF BridgeNext

(* A decoder that is where it must be has delivered what it must have. *)
LEMMA BridgeInvWholes == BridgeInv => DecodesWholes
<1> SUFFICES ASSUME BridgeInv PROVE DecodesWholes
  OBVIOUS
<1>1. PICK d, got, len, k : d = decoder /\ got = received /\ len = Len(records) /\ k = d.delivered
  OBVIOUS
<1>2. RecordsFit /\ got \in Nat /\ d \in Decoders /\ Reached(d, got)
  BY <1>1 DEF BridgeInv
<1>3. /\ len \in Nat /\ k \in 0..len /\ RecordEnd(k) \in Nat /\ RecordEnd(k) <= got
      /\ d.failed = "no" => k = len \/ got < RecordEnd(k + 1)
  BY <1>1, <1>2, NextRecord DEF Reached
<1>4. \A m \in 0..len : RecordEnd(m) \in Nat /\ \A n \in m..len : RecordEnd(m) <= RecordEnd(n)
  BY <1>1, <1>2, RecordEnds, RecordOrder
<1>5. PICK A : A = {n \in 0..len : RecordEnd(n) <= got}
  OBVIOUS
<1>6. PICK w : w = Whole
  OBVIOUS
<1>7. w \in A /\ \A n \in A : w >= n
  <2>1. k \in A /\ A \subseteq 0..len
    BY <1>3, <1>5
  <2>2. \E x \in A : \A y \in A : x >= y
    BY ONLY <1>3, <2>1, GreatestOne
  <2>3. w = CHOOSE x \in A : \A y \in A : x >= y
    BY <1>1, <1>5, <1>6 DEF Whole, Max
  <2> QED BY ONLY <2>2, <2>3
<1>8. w \in 0..len /\ k <= w /\ RecordEnd(w) <= got
  BY <1>3, <1>5, <1>7
<1>9. PICK B : B = {n \in 0..w : \A i \in 1..n : ~ IsError(records[i])}
  OBVIOUS
<1>10. PICK b : b = Good
  OBVIOUS
<1>11. k \in B
  <2>1. \A i \in 1..k : ~ IsError(records[i])
    BY <1>1, <1>2 DEF Reached
  <2> QED BY <1>3, <1>8, <1>9, <2>1
<1>12. b \in B /\ \A n \in B : b >= n
  <2>1. B \subseteq 0..w /\ w \in Nat
    BY <1>8, <1>9
  <2>2. \E x \in B : \A y \in B : x >= y
    BY ONLY <1>11, <2>1, GreatestOne
  <2>3. b = CHOOSE x \in B : \A y \in B : x >= y
    BY <1>6, <1>9, <1>10 DEF Good, Max
  <2> QED BY ONLY <2>2, <2>3
<1>13. b \in 0..w /\ k <= b /\ \A i \in 1..b : ~ IsError(records[i])
  BY <1>9, <1>11, <1>12
<1>14. ASSUME k = len \/ got < RecordEnd(k + 1) PROVE w = k
  <2>1. CASE k = len
    BY <1>3, <1>8, <2>1
  <2>2. CASE k # len /\ got < RecordEnd(k + 1)
    <3>1. k + 1 \in 0..len
      BY <1>3, <2>2
    <3>2. ASSUME k + 1 <= w PROVE FALSE
      <4>1. w \in (k + 1)..len
        BY <1>3, <1>8, <3>2
      <4>2. RecordEnd(k + 1) <= RecordEnd(w) /\ RecordEnd(k + 1) \in Nat /\ RecordEnd(w) \in Nat
        BY <1>4, <1>8, <3>1, <4>1
      <4> QED BY <1>2, <1>8, <2>2, <4>2
    <3> QED BY <1>3, <1>8, <3>2
  <2> QED BY <1>14, <2>1, <2>2
<1>15. d.failed = "no" => w = k
  BY <1>3, <1>14
<1>16. b = k
  <2>1. CASE d.failed = "content"
    <3>1. IsError(records[k + 1])
      BY <1>1, <1>2, <2>1 DEF Reached
    <3>2. ~ (k + 1 \in 1..b)
      BY <1>13, <3>1
    <3> QED BY <1>3, <1>8, <1>13, <3>2
  <2>2. CASE d.failed # "content"
    <3>1. d.failed \in {"no", "late"}
      BY <1>2, <2>2 DEF Decoders
    <3>2. k = len \/ got < RecordEnd(k + 1)
      BY <1>1, <1>2, <1>3, <3>1 DEF Reached
    <3> QED BY <1>3, <1>8, <1>13, <1>14, <3>2
  <2> QED BY <2>1, <2>2
<1>17. d.failed = "content" => IsError(records[b + 1])
  BY <1>1, <1>2, <1>16 DEF Reached
<1>18. ASSUME d.failed = "no"
       PROVE  /\ w = b
              /\ ended = "no" => (d.timer <=> got # RecordEnd(w) /\ ~ d.paused)
              /\ ended # "no" => (ended = "clean" <=> got = RecordEnd(w))
  BY <1>1, <1>15, <1>16, <1>18 DEF BridgeInv, Timed
<1> QED BY <1>1, <1>6, <1>10, <1>16, <1>17, <1>18 DEF DecodesWholes

(* A decoder of the bridge, whatever is sent, however the pipe cuts it and *)
(* whenever the reader pauses, delivers exactly the whole records that     *)
(* precede an error (FrameDecoder of protocol/bridge.js).                  *)
THEOREM DecodesWholesAlways == BridgeSpec => []DecodesWholes
<1>1. BridgeSpec => []BridgeInv
  BY BridgeInvInit, BridgeInvNext, PTL DEF BridgeSpec
<1> QED BY <1>1, BridgeInvWholes, PTL

(* Both framings together: what a connection holds is leased, timed and    *)
(* bounded, what it delivers is what was sent, and the bridge's decoder    *)
(* is as above (ws.js; protocol/bridge.js).                                *)
THEOREM ReceivesWholesAlways == FramesSpec /\ BridgeSpec => []ReceivesWholes
<1>1. FramesSpec => []FramesInv
  BY FramesInvInit, FramesInvNext, PTL DEF FramesSpec
<1>2. FramesInv /\ DecodesWholes => ReceivesWholes
  <2> SUFFICES ASSUME FramesInv, DecodesWholes PROVE ReceivesWholes
    OBVIOUS
  <2>1. wsState = "CLOSED" => leased = 0
    <3>1. ASSUME body = NoFrame, frag = NoMessage PROVE leased = 0
      BY <3>1, HeldFacts
    <3> QED BY <3>1 DEF FramesInv
  <2> QED BY <2>1 DEF FramesInv, ReceivesWholes
<1> QED BY <1>1, <1>2, DecodesWholesAlways, PTL
=============================================================================
