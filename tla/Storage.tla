-------------------------------- MODULE Storage --------------------------------
(******************************************************************************)
(* The imports that keep things outside the guest: KV and stubs of Durable    *)
(* Objects (Imports/Worker.ts), and the storage of the Durable Object a guest *)
(* runs in (Imports/DurableObject.ts).  A handler is an async function: it    *)
(* runs to its first await, the activation of the guest that called it is     *)
(* suspended, and the rest runs when the platform has answered.  Meanwhile    *)
(* other activations of the guest run on the same memory: they write buffers, *)
(* rewrite pointers, and grow the memory, which detaches the views of it.     *)
(*                                                                            *)
(* The contents of a buffer are one value.  Of the platform two things are    *)
(* assumed, as it documents them: the storage of a Durable Object is strongly *)
(* consistent, and KV is eventually consistent, so that a read may find any   *)
(* value the key has had.                                                     *)
(******************************************************************************)
EXTENDS Integers, SequencesExt

CONSTANTS
  Act,           \* activations of the guest: calls of promising exports
  Buffer,        \* places in guest memory
  Own,           \* the buffer an activation passes a pointer to
  FirstTable,    \* the pointers in the keys table of guests at first
  Value,         \* contents
  KVKeys,        \* the keys of a KV namespace, in its order
  StorageKeys,   \* the keys of the storage of the Durable Object, in its order
  ArgKeys,       \* the keys guests name in a call
  InitialStores, \* what the platform may hold at first
  NoRoom,        \* the writes that would end beyond the memory, by how often it has grown
  Limit,         \* the limit guests pass to list: the length of their keys table
  MaxCalls,      \* bound: calls of imports that wait
  MaxTouch       \* bound: changes guests make to their memory

Key == ToSet(KVKeys) \union ToSet(StorageKeys)
Content == Value \union ToSet(KVKeys)    \* list writes names of keys
None == "none"
NoBytes == ""                            \* the value of no bytes

ASSUME StorageAssumption ==
  /\ NoBytes \in Value /\ None \notin Value /\ "guest" \notin Act
  /\ KVKeys \in Seq(Key) /\ StorageKeys \in Seq(Key)
  /\ Value \intersect Key = {}
  /\ ToSet(KVKeys) \intersect ToSet(StorageKeys) = {}
  /\ Own \in [Act -> Buffer] /\ FirstTable \in [1..Limit -> Buffer]
  /\ ArgKeys \subseteq Key
  /\ InitialStores \subseteq [Key -> Value \union {None}]
  /\ NoRoom \in [0..MaxTouch -> SUBSET (Buffer \X Content)]
  /\ Limit \in Nat \ {0} /\ MaxCalls \in Nat /\ MaxTouch \in Nat

VARIABLES
  store,    \* what a read of each key may find on the platform
  cell,     \* what the buffers hold
  table,    \* the pointers guests pass to list
  memory,   \* how often memory has grown
  state,    \* of the activations
  call,     \* the locals of the suspended handlers
  jobs,     \* the activations a promise reaction is due for, in order
  made,     \* calls so far
  touched,  \* changes so far
  owner     \* history: the activation whose import wrote a buffer last

guest == <<cell, table, memory, owner, touched>>
vars == <<store, guest, state, call, jobs, made>>

--------------------------------------------------------------------------------
(* Handlers and their calls.                                                  *)

Gets == {"KVNamespace_getText", "KVNamespace_getArrayBuffer", "State_Storage_get"}
Lists == {"KVNamespace_list", "State_Storage_list"}
Puts == {"KVNamespace_putText", "KVNamespace_putArrayBuffer", "State_Storage_put"}
Deletes == {"KVNamespace_delete", "State_Storage_delete"}
Others == {"DurableObject_Stub_fetch", "DurableObject_Stub_fetch.text", "sleep"}

(* keys: the keys asked for; copy: what the buffer held at the call; view:    *)
(* the memory of then; data: the answer, keys with their values; moved:       *)
(* whether the table was rewritten since.                                     *)
NoBuffer == "none"
NoCall == [op |-> "none", keys |-> << >>, buffer |-> NoBuffer, copy |-> NoBytes, view |-> 0,
           data |-> << >>, result |-> 0, moved |-> FALSE]

Idle == \A p \in Act : state[p] # "running"
Become(p, s) == state' = [state EXCEPT ![p] = s]

Init ==
  /\ \E held \in InitialStores : store = [k \in Key |-> {held[k]}]
  /\ cell = [b \in Buffer |-> NoBytes]
  /\ table = FirstTable
  /\ memory = 0
  /\ state = [p \in Act |-> "new"]
  /\ call = [p \in Act |-> NoCall]
  /\ jobs = << >>
  /\ made = 0 /\ touched = 0
  /\ owner = [b \in Buffer |-> "guest"]

(* p calls an import, whose locals become c; it is suspended from then on.    *)
Calls(p, c, s) ==
  /\ state[p] = "running" /\ made < MaxCalls
  /\ made' = made + 1
  /\ call' = [call EXCEPT ![p] = c]
  /\ Become(p, s)
  /\ UNCHANGED <<store, guest>>

(* The handlers that make their view of the memory before the await.          *)
HoldsView(op) == op \in {"State_Storage_get", "State_Storage_list"}

Locals(op, keys, b) ==
  [NoCall EXCEPT !.op = op, !.keys = keys, !.buffer = b,
                 !.copy = IF op \in Puts /\ b # NoBuffer THEN cell[b] ELSE NoBytes,
                 !.view = IF HoldsView(op) THEN memory ELSE 0]

(* The platform is asked.                                                     *)
Ask(p, op, keys, b) == Calls(p, Locals(op, keys, b), "asked") /\ UNCHANGED jobs

(* openKVNamespace and openDurableObjectNamespace: the environment has no     *)
(* such binding.  The handler goes on with no answer, or returns 0.           *)
Unbound(p, op, s) ==
  Calls(p, Locals(op, << >>, NoBuffer), s) /\ jobs' = Append(jobs, p)

(* An activation that runs changes the memory, a buffer for one.              *)
Touches(p) == state[p] = "running" /\ touched < MaxTouch /\ touched' = touched + 1

(* Whether v fits where b points to, or a write throws a RangeError.          *)
Fits(b, v) == <<b, v>> \notin NoRoom[memory]

Fill(p, b, v) ==
  /\ Touches(p) /\ Fits(b, v)
  /\ cell' = [cell EXCEPT ![b] = v]
  /\ owner' = [owner EXCEPT ![b] = "guest"]
  /\ UNCHANGED <<store, table, memory, state, call, jobs, made>>

--------------------------------------------------------------------------------
(* Worker.ts.                                                                 *)

KVNamespace_getText(p, k) ==
  \/ Ask(p, "KVNamespace_getText", <<k>>, Own[p])
  \/ Unbound(p, "KVNamespace_getText", "answered")

KVNamespace_getArrayBuffer(p, k) ==
  \/ Ask(p, "KVNamespace_getArrayBuffer", <<k>>, Own[p])
  \/ Unbound(p, "KVNamespace_getArrayBuffer", "answered")

(* Mutated: without a binding the promise is never resolved.                  *)
KVNamespace_putText_Hangs(p, k) ==
  \/ Ask(p, "KVNamespace_putText", <<k>>, Own[p])
  \/ Calls(p, Locals("KVNamespace_putText", << >>, NoBuffer), "resuming") /\ UNCHANGED jobs

KVNamespace_putText(p, k) ==
  \/ Ask(p, "KVNamespace_putText", <<k>>, Own[p])
  \/ Unbound(p, "KVNamespace_putText", "resuming")

KVNamespace_putArrayBuffer(p, k) ==
  \/ Ask(p, "KVNamespace_putArrayBuffer", <<k>>, Own[p])
  \/ Unbound(p, "KVNamespace_putArrayBuffer", "resuming")

(* The prefix leaves the keys from some one on.                               *)
Prefixed(keys) == {SubSeq(keys, i, Len(keys)) : i \in DOMAIN keys}

KVNamespace_list(p) ==
  \/ \E keys \in Prefixed(KVKeys) : Ask(p, "KVNamespace_list", keys, NoBuffer)
  \/ Unbound(p, "KVNamespace_list", "resuming")

KVNamespace_delete(p, k) ==
  \/ Ask(p, "KVNamespace_delete", <<k>>, NoBuffer)
  \/ Unbound(p, "KVNamespace_delete", "resuming")

(* What becomes of the body, a view of guest memory, is up to the platform.   *)
DurableObject_Stub_fetch(p) ==
  \/ Ask(p, "DurableObject_Stub_fetch", << >>, NoBuffer)
  \/ Unbound(p, "DurableObject_Stub_fetch", "resuming")

sleep(p) == Ask(p, "sleep", << >>, NoBuffer)

(* idFromName, newUniqueId and State_id do not wait: they write an id.        *)
write_id(p) ==
  \E id \in Value \ {NoBytes} :
    \/ Fill(p, Own[p], id)
    \/ /\ state[p] = "running" /\ ~Fits(Own[p], id)
       /\ Become(p, "failed")
       /\ UNCHANGED <<store, guest, call, jobs, made>>

--------------------------------------------------------------------------------
(* DurableObject.ts.                                                          *)

State_Storage_put(p, k) == Ask(p, "State_Storage_put", <<k>>, Own[p])
State_Storage_get(p, k) == Ask(p, "State_Storage_get", <<k>>, Own[p])
State_Storage_list(p) ==
  \E keys \in Prefixed(StorageKeys) : Ask(p, "State_Storage_list", keys, NoBuffer)
State_Storage_delete(p, k) == Ask(p, "State_Storage_delete", <<k>>, NoBuffer)

--------------------------------------------------------------------------------
(* The platform.  Its work is done between the runs of JavaScript, on the same *)
(* thread.                                                                    *)

(* What a read of these keys may find.                                        *)
Readings(keys) ==
  {seen \in [DOMAIN keys -> Content \union {None}] :
     \A i \in DOMAIN keys : seen[i] \in store[keys[i]]}

(* The keys that are there, in order and up to the limit, with their values.  *)
Present(keys, seen, limit) ==
  LET there == {i \in DOMAIN keys : seen[i] # None}
      nth(n) == CHOOSE i \in there : Cardinality({j \in there : j <= i}) = n
      size == IF Cardinality(there) < limit THEN Cardinality(there) ELSE limit
  IN  [n \in 1..size |-> <<keys[nth(n)], seen[nth(n)]>>]

LimitOf(c) == IF c.op \in Lists THEN Limit ELSE 1

(* Mutated: the value is read once the platform is ready for it.              *)
Stored_Late(c) == {cell[c.buffer]}

(* What a put stores.  Text was copied at the call; so is what goes to the    *)
(* storage of a Durable Object.  KV gets a view of guest memory, and reads it *)
(* when it likes.                                                             *)
Stored(c) == {c.copy} \union (IF c.op = "KVNamespace_putArrayBuffer" THEN {cell[c.buffer]} ELSE {})

(* A change of the storage of a Durable Object is what reads find from then   *)
(* on; one of KV is what they may find.                                       *)
Changed(k, v) ==
  store' = [store EXCEPT ![k] = IF k \in ToSet(StorageKeys) THEN {v} ELSE @ \union {v}]

TakesEffect(c) ==
  \/ c.op \in Puts /\ \E v \in Stored(c) : Changed(c.keys[1], v)
  \/ c.op \in Deletes /\ Changed(c.keys[1], None)
  \/ c.op \in Gets \union Lists \union Others /\ UNCHANGED store

Settle(p, s) == Become(p, s) /\ jobs' = Append(jobs, p)

resolve(p) ==
  /\ Idle /\ state[p] = "asked"
  /\ TakesEffect(call[p])
  /\ \E seen \in Readings(call[p].keys) :
       call' = [call EXCEPT ![p].data = Present(call[p].keys, seen, LimitOf(call[p]))]
  /\ Settle(p, "answered")
  /\ UNCHANGED <<guest, made>>

reject(p) ==
  /\ Idle /\ state[p] = "asked"
  /\ UNCHANGED store \/ TakesEffect(call[p])
  /\ Settle(p, "refused")
  /\ UNCHANGED <<call, guest, made>>

--------------------------------------------------------------------------------
(* The rest of a handler.                                                     *)

Runs(p, s) == Idle /\ jobs # << >> /\ Head(jobs) = p /\ state[p] = s

(* Mutated: the answer is not looked at.                                      *)
Found_Always(c) == TRUE

(* An empty text is false, an empty ArrayBuffer is not.                       *)
Found(c) == c.data # << >> /\ (c.op = "KVNamespace_getText" => c.data[1][2] # NoBytes)

(* Mutated: the offset in the table does not grow.                            *)
Pointer_First(i) == table[1]

Pointer(i) == table[i]

(* What is written, in order: pairs of a buffer and its contents.  The        *)
(* pointers of the table are read now.                                        *)
Written(c) ==
  IF c.op \in Gets
  THEN IF c.data # << >> /\ Found(c) THEN << <<c.buffer, c.data[1][2]>> >> ELSE << >>
  ELSE IF c.op = "KVNamespace_list" THEN [i \in DOMAIN c.data |-> <<Pointer(i), c.data[i][1]>>]
  ELSE IF c.op = "State_Storage_list" THEN [i \in DOMAIN c.data |-> <<Pointer(i), c.data[i][2]>>]
  ELSE << >>

Result(c) ==
  IF c.op \in Gets THEN IF Found(c) THEN 1 ELSE 0
  ELSE IF c.op \in Lists \union {"State_Storage_delete"} THEN Len(c.data)
  ELSE IF c.op \in {"State_Storage_put", "sleep"} THEN 0
  ELSE 1

(* Mutated: an entry that has no room is left out, and the next is written.   *)
Fitting_Skips(w) ==
  LET HasRoom(x) == Fits(x[1], x[2]) IN SelectSeq(w, HasRoom)

(* The writes up to the first that has no room, which throws.                 *)
Fitting(w) ==
  LET bad == {i \in DOMAIN w : ~Fits(w[i][1], w[i][2])}
  IN  IF bad = {} THEN w ELSE SubSeq(w, 1, Min(bad) - 1)

(* The writes to b that leave a byte there, by their place in w.              *)
WritesTo(w, b) == {i \in DOMAIN w : w[i][1] = b /\ w[i][2] # NoBytes}

Write(p, w) ==
  /\ cell' = [b \in Buffer |-> IF WritesTo(w, b) = {} THEN cell[b] ELSE w[Max(WritesTo(w, b))][2]]
  /\ owner' = [b \in Buffer |-> IF WritesTo(w, b) = {} THEN owner[b] ELSE p]

Fails(p) ==
  /\ Become(p, "failed")
  /\ jobs' = Tail(jobs)
  /\ UNCHANGED <<store, guest, call, made>>

(* A view whose memory has grown is detached, and set() throws.               *)
Detached(c) == HoldsView(c.op) /\ c.data # << >> /\ c.view # memory

continue(p) ==
  /\ Runs(p, "answered")
  /\ \/ Detached(call[p]) /\ Fails(p)
     \/ /\ call[p].op = "DurableObject_Stub_fetch"    \* await response2.text()
        /\ call' = [call EXCEPT ![p].op = "DurableObject_Stub_fetch.text"]
        /\ Become(p, "asked")
        /\ jobs' = Tail(jobs)
        /\ UNCHANGED <<store, guest, made>>
     \/ /\ ~Detached(call[p]) /\ call[p].op # "DurableObject_Stub_fetch"
        /\ LET w == Written(call[p])
           IN  /\ Write(p, Fitting(w))
               /\ \/ /\ Fitting(w) # w
                     /\ Become(p, "failed")
                     /\ jobs' = Tail(jobs) /\ UNCHANGED call
                  \/ /\ Fitting(w) = w
                     /\ call' = [call EXCEPT ![p].result = Result(call[p])]
                     /\ Become(p, "resuming")
                     /\ jobs' = Append(Tail(jobs), p)
        /\ UNCHANGED <<store, table, memory, touched, made>>

rejected(p) == Runs(p, "refused") /\ Fails(p)

(* The guest goes on with the result.                                         *)
resume(p) ==
  /\ Runs(p, "resuming")
  /\ jobs' = Tail(jobs)
  /\ call' = [call EXCEPT ![p] = NoCall]
  /\ Become(p, "running")
  /\ UNCHANGED <<store, guest, made>>

--------------------------------------------------------------------------------
(* The host, and what guests do with their memory.                            *)

run(p) ==
  /\ Idle /\ state[p] = "new"
  /\ Become(p, "running")
  /\ UNCHANGED <<store, guest, call, jobs, made>>

return(p) ==
  /\ state[p] = "running"
  /\ Become(p, "returned")
  /\ UNCHANGED <<store, guest, call, jobs, made>>

fill(p, b) == \E v \in Value : Fill(p, b, v)

point(p) ==
  /\ \E i \in 1..Limit, b \in Buffer : table' = [table EXCEPT ![i] = b]
  /\ Touches(p) /\ table' # table
  /\ call' = [q \in Act |-> [call[q] EXCEPT !.moved = @ \/ call[q] # NoCall]]
  /\ UNCHANGED <<store, cell, memory, owner, state, jobs, made>>

memory_grow(p) ==
  /\ Touches(p)
  /\ memory' = memory + 1
  /\ UNCHANGED <<store, cell, table, owner, state, call, jobs, made>>

--------------------------------------------------------------------------------

Worker(p) ==
  \/ \E k \in ArgKeys \intersect ToSet(KVKeys) :
       \/ KVNamespace_getText(p, k) \/ KVNamespace_getArrayBuffer(p, k)
       \/ KVNamespace_putText(p, k) \/ KVNamespace_putArrayBuffer(p, k)
       \/ KVNamespace_delete(p, k)
  \/ KVNamespace_list(p) \/ DurableObject_Stub_fetch(p) \/ sleep(p) \/ write_id(p)

DurableObject(p) ==
  \/ \E k \in ArgKeys \intersect ToSet(StorageKeys) :
       \/ State_Storage_put(p, k) \/ State_Storage_get(p, k) \/ State_Storage_delete(p, k)
  \/ State_Storage_list(p)

Guest(p) ==
  \/ return(p) \/ point(p) \/ memory_grow(p)
  \/ \E b \in Buffer : fill(p, b)

Microtask(p) == continue(p) \/ rejected(p) \/ resume(p)

Next ==
  \E p \in Act :
    \/ run(p) \/ Guest(p) \/ Worker(p) \/ DurableObject(p)
    \/ resolve(p) \/ reject(p) \/ Microtask(p)

Spec == Init /\ [][Next]_vars

(* The platform answers, and the engine runs the microtasks whenever no       *)
(* activation runs.                                                           *)
Fairness ==
  /\ \A p \in Act : WF_vars(resolve(p))
  /\ SF_vars(\E p \in Act : Microtask(p))

FairSpec == Spec /\ Fairness
--------------------------------------------------------------------------------
(* Properties.                                                                *)

State == {"new", "running", "asked", "answered", "refused", "resuming", "returned", "failed"}
Locals_ ==
  [op : Gets \union Lists \union Puts \union Deletes \union Others \union {"none"},
   keys : Seq(Key), buffer : Buffer \union {NoBuffer}, copy : Content, view : 0..MaxTouch,
   data : Seq(Key \X Content), result : Nat, moved : BOOLEAN]

(* The type of every variable; a promise reaction is due exactly for those    *)
(* whose promise has settled, once.                                           *)
TypeOK ==
  /\ store \in [Key -> (SUBSET (Content \union {None})) \ {{}}]
  /\ cell \in [Buffer -> Content] /\ owner \in [Buffer -> Act \union {"guest"}]
  /\ table \in [1..Limit -> Buffer] /\ memory \in 0..MaxTouch
  /\ state \in [Act -> State]
  /\ \A p \in Act : call[p] \in Locals_
  /\ jobs \in Seq(Act) /\ IsInjective(jobs)
  /\ ToSet(jobs) = {p \in Act : state[p] \in {"answered", "refused", "resuming"}}

(* Worker.ts 49-67, DurableObject.ts 29-33: when a get returns 1 the buffer   *)
(* of the caller holds what was stored, and when it returns 0 nothing was     *)
(* stored, or no bytes; unless a guest has written the buffer meanwhile.  (A  *)
(* get that returns 1 for a value of no bytes leaves the buffer as it was.)   *)
AnswerInPlace ==
  \A p \in Act :
    LET c == call[p]
    IN  state[p] = "resuming" /\ c.op \in Gets =>
          IF c.result = 0 THEN c.data = << >> \/ c.data[1][2] = NoBytes
          ELSE /\ c.data # << >>
               /\ owner[c.buffer] = p /\ c.data[1][2] # NoBytes => cell[c.buffer] = c.data[1][2]

(* Where the i-th part of the answer belongs, and what of it is written.      *)
Target(c, i) == IF c.op \in Gets THEN c.buffer ELSE table[i]
Entry(c, i) == IF c.op = "KVNamespace_list" THEN c.data[i][1] ELSE c.data[i][2]

(* Worker.ts 97-102, DurableObject.ts 40-44: as long as guests leave the      *)
(* table alone, each buffer that list was given holds the last entry meant    *)
(* for it when list returns, and the result counts the entries.               *)
ListedInPlace ==
  \A p \in Act :
    LET c == call[p]
    IN  state[p] = "resuming" /\ c.op \in Lists /\ ~c.moved =>
          /\ c.result = Len(c.data)
          /\ \A i \in DOMAIN c.data :
               \/ \E j \in DOMAIN c.data : j > i /\ table[j] = table[i]
               \/ Entry(c, i) = NoBytes \/ owner[table[i]] # p
               \/ cell[table[i]] = Entry(c, i)

(* What a handler with the answer c leaves when it fails after n entries.     *)
Leaves(c, n) ==
  LET writes(b, i) == Target(c, i) = b /\ Entry(c, i) # NoBytes
  IN  /\ \/ ~Fits(Target(c, n + 1), Entry(c, n + 1))
         \/ n = 0 /\ memory > 0 /\ c.op \in {"State_Storage_get", "State_Storage_list"}
      /\ \A b \in Buffer :
           \/ cell'[b] = cell[b] /\ \A i \in 1..n : ~writes(b, i)
           \/ \E i \in 1..n : /\ writes(b, i) /\ cell'[b] = Entry(c, i)
                              /\ \A j \in i + 1..n : ~writes(b, j)

(* Worker.ts 53, 62-63, 98-101, DurableObject.ts 30-32, 35-44: a call that    *)
(* fails although it was answered has written the first n entries of its      *)
(* answer, in order, and nothing else.  It stopped at one that has no room    *)
(* where it belongs, or, in a get or a list of the storage of a Durable       *)
(* Object, before the first, as the memory has grown.                         *)
LeftInPart ==
  [][\A p \in Act :
       state[p] = "answered" /\ state'[p] = "failed" =>
         \E n \in 0..Len(call[p].data) - 1 : Leaves(call[p], n)]_vars

(* Worker.ts 42-150, DurableObject.ts 25-49: as long as activations keep      *)
(* giving the thread back, every call returns or fails.                       *)
Waits(p) == state[p] \in {"asked", "answered", "refused", "resuming"}
CallsReturn == []<>Idle => \A p \in Act : Waits(p) ~> ~Waits(p)

(* Worker.ts 49-109, DurableObject.ts 25-49: of what the platform promises    *)
(* for KV and the storage of a Durable Object (PlatformStore) nothing is lost *)
(* on the way: each request has its effect once, with the bytes that were     *)
(* passed, whatever guests do to their memory while it waits.                 *)
KindOf(op) ==
  CASE op \in Gets -> "get" [] op \in Lists -> "list" [] op \in Puts -> "put" [] OTHER -> "delete"

RequestOf(c) ==
  [kind |-> KindOf(c.op), keys |-> c.keys, limit |-> LimitOf(c), value |-> c.copy,
   lent |-> IF c.op = "KVNamespace_putArrayBuffer" THEN {cell[c.buffer]} ELSE {}]

Request(c) == c.op \notin Others /\ c.keys # << >>

Platform == INSTANCE PlatformStore WITH
  Value <- Content,
  Strong <- ToSet(StorageKeys),
  pending <- [p \in Act |-> IF state[p] = "asked" /\ Request(call[p])
                            THEN << RequestOf(call[p]) >> ELSE << >>],
  answer <- [p \in Act |-> IF state[p] \in {"answered", "resuming"} /\ Request(call[p])
                           THEN << call[p].data >> ELSE << >>]

ImplementsStore == Platform!Spec
================================================================================
