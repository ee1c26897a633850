------------------------------ MODULE BlobStore ------------------------------
(***************************************************************************)
(* What BinaryCache promises to the fine grids that share it: a put        *)
(* appends one blob and hands back its number, a get of a number that was  *)
(* handed back returns exactly that blob, and both happen in one instant   *)
(* however many threads are calling.                                       *)
(***************************************************************************)
EXTENDS Naturals, Sequences

CONSTANTS
  Thread,    \* the threads of the OpenMP team
  Cell,      \* the units a blob is made of
  Data,      \* the blobs that may be stored
  NoCall,    \* "this thread has no call in flight"
  MaxBlobs   \* no put is begun once so many blobs are stored

VARIABLES
  store,     \* the stored blobs, by number
  call,      \* per thread, the call in flight
  handle,    \* per thread, the number returned by its last put (0: none yet)
  buffer     \* per thread, what its last get returned

storeVars == <<store, call, handle, buffer>>

PutCall(d) == [op |-> "put", data |-> d, id |-> 0]
GetCall(i) == [op |-> "get", data |-> <<>>, id |-> i]

Init ==
  /\ store = <<>>
  /\ call = [t \in Thread |-> NoCall]
  /\ handle = [t \in Thread |-> 0]
  /\ buffer = [t \in Thread |-> <<>>]

BeginPut(t, d) ==
  /\ call[t] = NoCall
  /\ Len(store) < MaxBlobs
  /\ call' = [call EXCEPT ![t] = PutCall(d)]
  /\ UNCHANGED <<store, handle, buffer>>

\* Any thread may ask for any blob whose number some put has handed back.
BeginGet(t, i) ==
  /\ call[t] = NoCall
  /\ i \in 1..Len(store)
  /\ call' = [call EXCEPT ![t] = GetCall(i)]
  /\ UNCHANGED <<store, handle, buffer>>

Put(t) ==
  /\ call[t] # NoCall
  /\ call[t].op = "put"
  /\ store' = Append(store, call[t].data)
  /\ handle' = [handle EXCEPT ![t] = Len(store) + 1]
  /\ call' = [call EXCEPT ![t] = NoCall]
  /\ UNCHANGED buffer

Get(t) ==
  /\ call[t] # NoCall
  /\ call[t].op = "get"
  /\ buffer' = [buffer EXCEPT ![t] = store[call[t].id]]
  /\ call' = [call EXCEPT ![t] = NoCall]
  /\ UNCHANGED <<store, handle>>

Next ==
  \E t \in Thread :
    \/ \E d \in Data : BeginPut(t, d)
    \/ \E i \in 1..Len(store) : BeginGet(t, i)
    \/ Put(t)
    \/ Get(t)

Spec == Init /\ [][Next]_storeVars
==============================================================================
