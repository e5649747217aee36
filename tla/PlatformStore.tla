----------------------------- MODULE PlatformStore -----------------------------
(******************************************************************************)
(* What a guest may rely on when it keeps things in KV or in the storage of a *)
(* Durable Object: keys with values.  A request of an activation takes effect *)
(* once, at one moment between the call and its return, and stores the bytes  *)
(* that were passed.  What a read finds is the platform's promise, taken as   *)
(* it is documented: the storage of a Durable Object is strongly consistent,  *)
(* and KV is eventually consistent, so that any value a key has had may still *)
(* be found.  There are no buffers, promises or microtasks here.  The code    *)
(* that passes the requests on is module Storage.                             *)
(******************************************************************************)
EXTENDS Integers, Sequences, FiniteSets

CONSTANTS
  Act,       \* activations of the guest
  Key, Value,
  None,      \* what there is for a key that is absent
  Strong     \* the keys that are strongly consistent

VARIABLES
  store,     \* what a read of each key may find
  pending,   \* the requests that have taken no effect yet: sequences of length 0 or 1
  answer     \* what the requests that have taken effect found, likewise

vars == <<store, pending, answer>>

(* A put stores its value, or, when bytes are lent to it, what their owner     *)
(* makes of them before it takes effect.                                      *)
Request ==
  [kind : {"get", "list", "put", "delete"}, keys : Seq(Key), limit : Nat,
   value : Value, lent : SUBSET Value]

Init ==
  /\ store \in [Key -> {{v} : v \in Value \union {None}}]
  /\ pending = [p \in Act |-> << >>]
  /\ answer = [p \in Act |-> << >>]

Changed(k, v) == store' = [store EXCEPT ![k] = IF k \in Strong THEN {v} ELSE @ \union {v}]

Applied(r) ==
  \/ r.kind = "put" /\ \E v \in {r.value} \union r.lent : Changed(r.keys[1], v)
  \/ r.kind = "delete" /\ Changed(r.keys[1], None)
  \/ r.kind \in {"get", "list"} /\ UNCHANGED store

(* What a read of these keys may find.                                        *)
Readings(keys) ==
  {seen \in [DOMAIN keys -> Value \union {None}] :
     \A i \in DOMAIN keys : seen[i] \in store[keys[i]]}

(* The keys that are there, in order and up to the limit, with their values.  *)
Present(keys, seen, limit) ==
  LET there == {i \in DOMAIN keys : seen[i] # None}
      nth(n) == CHOOSE i \in there : Cardinality({j \in there : j <= i}) = n
      size == IF Cardinality(there) < limit THEN Cardinality(there) ELSE limit
  IN  [n \in 1..size |-> <<keys[nth(n)], seen[nth(n)]>>]

(* The owners of the bytes that were lent to requests may change them.        *)
Lends(p) == pending[p] # << >> /\ pending[p][1].lent # {}

Relent ==
  \A p \in Act :
    \/ pending'[p] = pending[p]
    \/ Lends(p) /\ \E s \in (SUBSET Value) \ {{}} :
                      pending'[p] = << [pending[p][1] EXCEPT !.lent = s] >>

Call(p) ==
  /\ pending[p] = << >> /\ answer[p] = << >>
  /\ Len(pending'[p]) = 1 /\ pending'[p][1] \in Request
  /\ pending' = [pending EXCEPT ![p] = pending'[p]]
  /\ UNCHANGED <<store, answer>>

Change == Relent /\ UNCHANGED <<store, answer>>

Effect(p) ==
  /\ pending[p] # << >>
  /\ Applied(pending[p][1])
  /\ pending' = [pending EXCEPT ![p] = << >>]
  /\ LET r == pending[p][1]
     IN  \E seen \in Readings(r.keys) :
           answer' = [answer EXCEPT ![p] = << Present(r.keys, seen, r.limit) >>]

(* An error of the platform: the request has taken effect or has not.         *)
Reject(p) ==
  /\ pending[p] # << >>
  /\ UNCHANGED store \/ Applied(pending[p][1])
  /\ pending' = [pending EXCEPT ![p] = << >>]
  /\ UNCHANGED answer

(* The caller gets its answer, in memory that it may have lent a part of.      *)
Return(p) ==
  /\ answer[p] # << >>
  /\ answer' = [answer EXCEPT ![p] = << >>]
  /\ Relent /\ UNCHANGED store

Next == Change \/ \E p \in Act : Call(p) \/ Effect(p) \/ Reject(p) \/ Return(p)

Spec == Init /\ [][Next]_vars
================================================================================
