----------------------------- MODULE BinaryCache -----------------------------
(***************************************************************************)
(* preconditioner/binary_cache.hpp: the scratch file in which the fine     *)
(* grids park their factorizations.  One file descriptor, hence one file   *)
(* position, and one record table are shared by all threads; a mutex is    *)
(* held from the lock_guard to the return of get and put.  A file is a     *)
(* sequence of cells and a record says where a blob lies in it.            *)
(*                                                                         *)
(* The results of lseek, read and write are ignored by the code, so with   *)
(* WriteMayFail a write may store a proper prefix of the blob, or nothing  *)
(* (disk full), and put carries on.                                        *)
(***************************************************************************)
EXTENDS Naturals, Sequences

CONSTANTS
  Thread, Cell, Data, NoCall, MaxBlobs,
  NoThread,     \* "the mutex is free"
  Junk,         \* the contents of a buffer cell that read did not fill
  WriteMayFail  \* TRUE: writes may be short

ASSUME DataAssumption == Data \subseteq Seq(Cell)
ASSUME NoCallAssumption == NoCall \notin [op : {"put", "get"}, data : Seq(Cell), id : Nat]
ASSUME NoThreadAssumption == NoThread \notin Thread
ASSUME BoundAssumption == MaxBlobs \in Nat /\ WriteMayFail \in BOOLEAN

VARIABLES
  file,      \* the contents of file_
  pos,       \* the position of the file descriptor
  records,   \* records_, with the (0, 0) record the constructor pushes
  owner,     \* the thread that holds mutex_
  pc,        \* per thread, the statement it is about to execute
  call,      \* per thread, the arguments of the call in flight
  local,     \* per thread, the local variables id and offset of put
  handle,    \* per thread, what its last put returned
  buffer     \* per thread, the memory its last get filled

vars == <<file, pos, records, owner, pc, call, local, handle, buffer>>

PutCall(d) == [op |-> "put", data |-> d, id |-> 0]
GetCall(i) == [op |-> "get", data |-> <<>>, id |-> i]

\* records_.at(id); a C++ vector counts from 0.
Record(id) == records[id + 1]
Ids == 1..(Len(records) - 1)
Back == records[Len(records)]
End(r) == r.offset + r.size

\* The bytes of record r as read(2) delivers them: nothing past the end of file.
Contents(r) ==
  [k \in 1..r.size |-> IF r.offset + k <= Len(file) THEN file[r.offset + k] ELSE Junk]

\* write(2) of the cells d at the file position p, which extends the file.
Written(p, d) ==
  [k \in 1..(IF p + Len(d) > Len(file) THEN p + Len(d) ELSE Len(file)) |->
     IF k \in (p + 1)..(p + Len(d)) THEN d[k - p] ELSE file[k]]

\* Variant for the mutation runs: the constructor forgets the (0, 0) record.
InitNoSentinel ==
  /\ file = <<>> /\ pos = 0 /\ records = <<>> /\ owner = NoThread
  /\ pc = [t \in Thread |-> "idle"]
  /\ call = [t \in Thread |-> NoCall]
  /\ local = [t \in Thread |-> [id |-> 0, offset |-> 0]]
  /\ handle = [t \in Thread |-> 0]
  /\ buffer = [t \in Thread |-> <<>>]

Init ==
  /\ file = <<>>
  /\ pos = 0
  /\ records = <<[offset |-> 0, size |-> 0]>>
  /\ owner = NoThread
  /\ pc = [t \in Thread |-> "idle"]
  /\ call = [t \in Thread |-> NoCall]
  /\ local = [t \in Thread |-> [id |-> 0, offset |-> 0]]
  /\ handle = [t \in Thread |-> 0]
  /\ buffer = [t \in Thread |-> <<>>]

\* Thread t goes from one statement to another.
Goto(t, from, to) == pc[t] = from /\ pc' = [pc EXCEPT ![t] = to]

\* FineGrid::save_ldlt_of_qtaq: the packed triangle d is handed to put.
BeginPut(t, d) ==
  /\ Len(records) - 1 < MaxBlobs
  /\ Goto(t, "idle", "lock")
  /\ call' = [call EXCEPT ![t] = PutCall(d)]
  /\ UNCHANGED <<file, pos, records, owner, local, handle, buffer>>

\* FineGrid::load_ldlt_of_qtaq: a blob is asked for by the number put returned.
BeginGet(t, i) ==
  /\ Goto(t, "idle", "lock")
  /\ call' = [call EXCEPT ![t] = GetCall(i)]
  /\ UNCHANGED <<file, pos, records, owner, local, handle, buffer>>

\* std::lock_guard lock(mutex_);
Lock(t) ==
  /\ owner = NoThread
  /\ owner' = t
  /\ Goto(t, "lock", "seek")
  /\ UNCHANGED <<file, pos, records, call, local, handle, buffer>>

\* Variant: put writes wherever the last call left the file position.
SeekEndMissing(t) ==
  /\ Goto(t, "seek", "write")
  /\ call[t].op = "put"
  /\ UNCHANGED <<file, pos, records, owner, call, local, handle, buffer>>

\* lseek to the end of the file before a write
SeekEnd(t) ==
  /\ Goto(t, "seek", "write")
  /\ call[t].op = "put"
  /\ pos' = Len(file)
  /\ UNCHANGED <<file, records, owner, call, local, handle, buffer>>

\* Variant: get reads from the record before the one asked for.
SeekRecordOffByOne(t) ==
  /\ Goto(t, "seek", "read")
  /\ call[t].op = "get"
  /\ pos' = Record(call[t].id - 1).offset
  /\ UNCHANGED <<file, records, owner, call, local, handle, buffer>>

\* lseek to the start of the record before a read
SeekRecord(t) ==
  /\ Goto(t, "seek", "read")
  /\ call[t].op = "get"
  /\ pos' = Record(call[t].id).offset
  /\ UNCHANGED <<file, records, owner, call, local, handle, buffer>>

WriteCells(t, d) ==
  /\ Goto(t, "write", "number")
  /\ file' = Written(pos, d)
  /\ pos' = pos + Len(d)
  /\ UNCHANGED <<records, owner, call, local, handle, buffer>>

Write(t) == WriteCells(t, call[t].data)

\* The unchecked failure: write returns fewer bytes than it was given, or -1.
ShortWrite(t) ==
  /\ WriteMayFail /\ pc[t] = "write"
  /\ \E n \in 0..(Len(call[t].data) - 1) : WriteCells(t, SubSeq(call[t].data, 1, n))

\* Variant: the offset of the last record is taken for its end.
NumberFromStart(t) ==
  /\ Goto(t, "number", "append")
  /\ local' = [local EXCEPT ![t] = [id |-> Len(records), offset |-> Back.offset]]
  /\ UNCHANGED <<file, pos, records, owner, call, handle, buffer>>

\* auto id = records_.size(); auto offset = records_.back().offset + ...
Number(t) ==
  /\ Goto(t, "number", "append")
  /\ local' = [local EXCEPT ![t] = [id |-> Len(records), offset |-> End(Back)]]
  /\ UNCHANGED <<file, pos, records, owner, call, handle, buffer>>

\* records_.emplace_back(offset, size); return id; and the lock is released
PushRecord(t) ==
  /\ Goto(t, "append", "idle")
  /\ records' = Append(records, [offset |-> local[t].offset, size |-> Len(call[t].data)])
  /\ handle' = [handle EXCEPT ![t] = local[t].id]
  /\ call' = [call EXCEPT ![t] = NoCall]
  /\ owner' = NoThread
  /\ UNCHANGED <<file, pos, local, buffer>>

\* Variant: get returns on a path that does not release the mutex.
ReadKeepsLock(t) ==
  /\ Goto(t, "read", "idle")
  /\ buffer' = [buffer EXCEPT ![t] = Contents(Record(call[t].id))]
  /\ call' = [call EXCEPT ![t] = NoCall]
  /\ UNCHANGED <<file, pos, records, owner, local, handle>>

\* read(2) from the file position into the caller's memory, return and unlock
Read(t) ==
  /\ Goto(t, "read", "idle")
  /\ LET size == Record(call[t].id).size IN
       /\ buffer' = [buffer EXCEPT ![t] = Contents([offset |-> pos, size |-> size])]
       /\ pos' = IF pos + size <= Len(file) THEN pos + size
                 ELSE IF pos <= Len(file) THEN Len(file) ELSE pos
  /\ call' = [call EXCEPT ![t] = NoCall]
  /\ owner' = NoThread
  /\ UNCHANGED <<file, records, local, handle>>

\* What a thread does between lock and return.
Body(t) ==
  \/ SeekEnd(t) \/ Write(t) \/ ShortWrite(t) \/ Number(t) \/ PushRecord(t)
  \/ SeekRecord(t) \/ Read(t)

Next ==
  \E t \in Thread :
    \/ \E d \in Data : BeginPut(t, d)
    \/ \E i \in Ids : BeginGet(t, i)
    \/ Lock(t)
    \/ Body(t)

Spec == Init /\ [][Next]_vars

\* A thread that holds the mutex is eventually scheduled.
FairSpec == Spec /\ \A t \in Thread : WF_vars(Body(t))

-----------------------------------------------------------------------------
Statements == {"idle", "lock", "seek", "write", "number", "append", "read"}
CriticalSection == {"seek", "write", "number", "append", "read"}
RecordType == [offset : Nat, size : Nat]
CallType == [op : {"put", "get"}, data : Seq(Cell), id : Nat]

\* The type of every variable.
TypeOK ==
  /\ file \in Seq(Cell)
  /\ pos \in Nat
  /\ records \in Seq(RecordType) /\ Len(records) >= 1
  /\ owner \in Thread \cup {NoThread}
  /\ pc \in [Thread -> Statements]
  /\ call \in [Thread -> CallType \cup {NoCall}]
  /\ local \in [Thread -> [id : Nat, offset : Nat]]
  /\ handle \in [Thread -> Nat]
  /\ buffer \in [Thread -> Seq(Cell \cup {Junk})]

\* The mutex covers the whole body of get and put: only its owner is between
\* the seek and the return, where file position, file and table disagree.
MutexInv == \A t \in Thread : pc[t] \in CriticalSection <=> owner = t

\* The records tile the file: each starts where the one before it ends.  put
\* computes an offset from the last record and never asks the file for it.
RecordsContiguous ==
  /\ records[1] = [offset |-> 0, size |-> 0]
  /\ \A i \in 2..Len(records) : records[i].offset = End(records[i - 1])

\* Cells that a thread inside put has written but not yet recorded.
Writing(t) == pc[t] \in {"number", "append"}
Pending == IF owner # NoThread /\ Writing(owner) THEN Len(call[owner].data) ELSE 0

\* The file ends exactly where the last record ends, but for the blob that is
\* being put: SEEK_END and the computed offset always name the same place.
\* This is the unstated agreement between file and table that put relies on.
FileEndsAtBack == Len(file) = End(Back) + Pending

\* The refinement: the blobs are what the records cut out of the file.
Abstract == INSTANCE BlobStore
  WITH store <- [i \in Ids |-> Contents(Record(i))]

\* Under every interleaving a get returns the blob whose put returned that
\* number, and puts of different threads get different numbers.
ImplementsBlobStore == Abstract!Spec

\* A blob that lies in the file in full is never damaged by a later call, not
\* even by a put whose write fails.
StoredBlobsSurvive ==
  [][\A i \in Ids : End(Record(i)) <= Len(file)
       => Record(i)' = Record(i) /\ Contents(Record(i))' = Contents(Record(i))]_vars

\* The mutex does not stay with a thread for ever: every path out of get and
\* put releases it.
MutexReleased == \A t \in Thread : owner = t ~> owner # t
==============================================================================
