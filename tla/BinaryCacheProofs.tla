-------------------------- MODULE BinaryCacheProofs --------------------------
(***************************************************************************)
(* Proofs about BinaryCache for any number of threads, any blobs and any   *)
(* bound on their number.                                                  *)
(***************************************************************************)
EXTENDS BinaryCache, TLAPS

\* A call and the statement its thread is at belong together.
CallInv ==
  \A t \in Thread :
    /\ pc[t] = "idle" <=> call[t] = NoCall
    /\ pc[t] \in {"write", "number", "append"} => call[t].op = "put"
    /\ pc[t] = "read" => call[t].op = "get"
    /\ pc[t] # "idle" => /\ call[t].op = "put" => call[t].data \in Data
                         /\ call[t].op = "get" => call[t].id \in Ids

\* What the owner of the mutex has read is still true when it uses it: the
\* file position up to the transfer, id and offset up to the push.
OwnerInv ==
  \A t \in Thread :
    /\ pc[t] = "write" => pos = Len(file)
    /\ pc[t] = "read" => pos = Record(call[t].id).offset
    /\ pc[t] = "append" => local[t] = [id |-> Len(records), offset |-> End(Back)]

SafeInv == TypeOK /\ MutexInv /\ CallInv /\ OwnerInv

-----------------------------------------------------------------------------
\* What one write(2) does to the file.
LEMMA WrittenProps ==
  ASSUME file \in Seq(Cell), NEW d \in Seq(Cell)
  PROVE  /\ Written(Len(file), d) \in Seq(Cell)
         /\ Len(Written(Len(file), d)) = Len(file) + Len(d)
         /\ \A k \in 1..Len(file) : Written(Len(file), d)[k] = file[k]
         /\ \A k \in 1..Len(d) : Written(Len(file), d)[Len(file) + k] = d[k]
<1> DEFINE n == Len(file) + Len(d)
           W == [k \in 1..n |->
                   IF k \in (Len(file) + 1)..n THEN d[k - Len(file)] ELSE file[k]]
<1>1. Len(file) \in Nat /\ Len(d) \in Nat
  OBVIOUS
<1>2. Written(Len(file), d) = W
  BY <1>1 DEF Written
<1>3. \A k \in 1..n : W[k] \in Cell
  BY <1>1
<1>4. W \in Seq(Cell) /\ Len(W) = n
  BY <1>1, <1>3
<1>5. \A k \in 1..Len(file) : W[k] = file[k]
  BY <1>1
<1>6. \A k \in 1..Len(d) : W[Len(file) + k] = d[k]
  <2> TAKE k \in 1..Len(d)
  <2>1. Len(file) + k \in 1..n /\ Len(file) + k \in (Len(file) + 1)..n
    BY <1>1
  <2>2. (Len(file) + k) - Len(file) = k
    BY <1>1
  <2> QED BY <2>1, <2>2
<1> QED BY <1>2, <1>4, <1>5, <1>6

\* A prefix of a blob is made of cells.
LEMMA PrefixIsCells ==
  ASSUME NEW d \in Seq(Cell), NEW n \in 0..(Len(d) - 1)
  PROVE  SubSeq(d, 1, n) \in Seq(Cell) /\ Len(SubSeq(d, 1, n)) = n
OBVIOUS

LEMMA SeqAsFunction ==
  ASSUME NEW S, NEW s \in Seq(S)
  PROVE  s = [i \in 1..Len(s) |-> s[i]]
OBVIOUS

\* What one read(2) delivers.
LEMMA ContentsProps ==
  ASSUME file \in Seq(Cell), NEW r \in RecordType
  PROVE  Contents(r) \in Seq(Cell \cup {Junk}) /\ Len(Contents(r)) = r.size
<1>1. r.size \in Nat /\ r.offset \in Nat
  BY DEF RecordType
<1> DEFINE cell(k) == IF r.offset + k <= Len(file) THEN file[r.offset + k] ELSE Junk
<1>2. \A k \in 1..r.size : cell(k) \in Cell \cup {Junk}
  <2> TAKE k \in 1..r.size
  <2>1. CASE r.offset + k <= Len(file)
    <3>1. r.offset + k \in 1..Len(file)
      BY <2>1, <1>1
    <3>2. file[r.offset + k] \in Cell
      BY <3>1
    <3> QED BY <2>1, <3>2
  <2> QED BY <2>1
<1> HIDE DEF cell
<1>3. [k \in 1..r.size |-> cell(k)] \in Seq(Cell \cup {Junk})
      /\ Len([k \in 1..r.size |-> cell(k)]) = r.size
  BY <1>1, <1>2
<1> QED BY <1>3 DEF Contents, cell

LEMMA InitSafe == Init => SafeInv
<1> SUFFICES ASSUME Init PROVE SafeInv
  OBVIOUS
<1>1. TypeOK
  BY DEF Init, TypeOK, RecordType, CallType, Statements
<1>2. MutexInv /\ CallInv /\ OwnerInv
  BY NoThreadAssumption DEF Init, MutexInv, CallInv, OwnerInv, CriticalSection
<1> QED BY <1>1, <1>2 DEF SafeInv

\* A blob is a sequence of cells, and a call a record that differs from NoCall.
LEMMA CallTypes ==
  /\ \A d \in Data : PutCall(d) \in CallType /\ PutCall(d) # NoCall
  /\ \A i \in Nat : GetCall(i) \in CallType /\ GetCall(i) # NoCall
<1>1. \A d \in Data : d \in Seq(Cell)
  BY DataAssumption
<1>2. <<>> \in Seq(Cell)
  OBVIOUS
<1>3. \A c \in CallType : c # NoCall
  BY NoCallAssumption DEF CallType
<1> QED BY <1>1, <1>2, <1>3 DEF PutCall, GetCall, CallType

\* Every step of every thread preserves the invariant.
LEMMA NextSafe == SafeInv /\ [Next]_vars => SafeInv'
<1> SUFFICES ASSUME SafeInv, [Next]_vars PROVE SafeInv'
  OBVIOUS
<1> USE DEF SafeInv
<1>0. CASE UNCHANGED vars
  BY <1>0 DEF vars, TypeOK, MutexInv, CallInv, OwnerInv, Ids, Record, Back, End
<1>1. ASSUME NEW t \in Thread, NEW d \in Data, BeginPut(t, d) PROVE SafeInv'
  <2>1. PutCall(d) \in CallType /\ PutCall(d) # NoCall /\ PutCall(d).op = "put"
        /\ PutCall(d).data = d
    BY CallTypes DEF PutCall
  <2>2. TypeOK'
    BY <1>1, <2>1 DEF BeginPut, Goto, TypeOK, Statements
  <2>3. MutexInv'
    BY <1>1 DEF BeginPut, Goto, TypeOK, MutexInv, CriticalSection
  <2>4. CallInv'
    BY <1>1, <2>1 DEF BeginPut, Goto, TypeOK, CallInv, Ids
  <2>5. OwnerInv'
    BY <1>1 DEF BeginPut, Goto, TypeOK, OwnerInv, Record, Back, End
  <2> QED BY <2>2, <2>3, <2>4, <2>5
<1>2. ASSUME NEW t \in Thread, NEW i \in Ids, BeginGet(t, i) PROVE SafeInv'
  <2>0. i \in Nat
    BY DEF Ids
  <2>1. GetCall(i) \in CallType /\ GetCall(i) # NoCall /\ GetCall(i).op = "get"
        /\ GetCall(i).id = i
    BY <2>0, CallTypes DEF GetCall
  <2>2. TypeOK'
    BY <1>2, <2>1 DEF BeginGet, Goto, TypeOK, Statements
  <2>3. MutexInv'
    BY <1>2 DEF BeginGet, Goto, TypeOK, MutexInv, CriticalSection
  <2>4. CallInv'
    BY <1>2, <2>1 DEF BeginGet, Goto, TypeOK, CallInv, Ids
  <2>5. OwnerInv'
    BY <1>2 DEF BeginGet, Goto, TypeOK, OwnerInv, Record, Back, End
  <2> QED BY <2>2, <2>3, <2>4, <2>5
<1>3. ASSUME NEW t \in Thread, Lock(t) PROVE SafeInv'
  <2>1. TypeOK'
    BY <1>3 DEF Lock, Goto, TypeOK, Statements
  <2>2. MutexInv'
    BY <1>3, NoThreadAssumption DEF Lock, Goto, TypeOK, MutexInv, CriticalSection
  <2>3. CallInv'
    BY <1>3 DEF Lock, Goto, TypeOK, CallInv, Ids
  <2>4. OwnerInv'
    BY <1>3 DEF Lock, Goto, TypeOK, OwnerInv, Record, Back, End
  <2> QED BY <2>1, <2>2, <2>3, <2>4
<1>4. ASSUME NEW t \in Thread, SeekEnd(t) PROVE SafeInv'
  <2>1. TypeOK'
    BY <1>4 DEF SeekEnd, Goto, TypeOK, Statements
  <2>2. MutexInv'
    BY <1>4 DEF SeekEnd, Goto, TypeOK, MutexInv, CriticalSection
  <2>3. CallInv'
    BY <1>4 DEF SeekEnd, Goto, TypeOK, CallInv, Ids
  <2>4. OwnerInv'
    BY <1>4 DEF SeekEnd, Goto, TypeOK, MutexInv, CriticalSection, OwnerInv, Record, Back, End
  <2> QED BY <2>1, <2>2, <2>3, <2>4
<1>5. ASSUME NEW t \in Thread, SeekRecord(t) PROVE SafeInv'
  <2>1. Record(call[t].id) \in RecordType
    BY <1>5 DEF SeekRecord, Goto, TypeOK, CallInv, Ids, Record
  <2>2. TypeOK'
    BY <1>5, <2>1 DEF SeekRecord, Goto, TypeOK, Statements, RecordType
  <2>3. MutexInv'
    BY <1>5 DEF SeekRecord, Goto, TypeOK, MutexInv, CriticalSection
  <2>4. CallInv'
    BY <1>5 DEF SeekRecord, Goto, TypeOK, CallInv, Ids
  <2>5. OwnerInv'
    BY <1>5 DEF SeekRecord, Goto, TypeOK, MutexInv, CriticalSection, OwnerInv, Record, Back, End
  <2> QED BY <2>2, <2>3, <2>4, <2>5
<1>6. ASSUME NEW t \in Thread, NEW d \in Seq(Cell), WriteCells(t, d) PROVE SafeInv'
  <2>1. pos = Len(file) /\ owner = t
    BY <1>6 DEF WriteCells, Goto, OwnerInv, MutexInv, CriticalSection
  <2>2. file' \in Seq(Cell)
    BY <1>6, <2>1, WrittenProps DEF WriteCells, TypeOK
  <2>3. TypeOK'
    BY <1>6, <2>2 DEF WriteCells, Goto, TypeOK, Statements
  <2>4. MutexInv'
    BY <1>6 DEF WriteCells, Goto, TypeOK, MutexInv, CriticalSection
  <2>5. CallInv'
    BY <1>6 DEF WriteCells, Goto, TypeOK, CallInv, Ids
  <2>6. OwnerInv'
    BY <1>6, <2>1 DEF WriteCells, Goto, TypeOK, MutexInv, CriticalSection, OwnerInv, Record, Back, End
  <2> QED BY <2>3, <2>4, <2>5, <2>6
<1>7. ASSUME NEW t \in Thread, Number(t) PROVE SafeInv'
  <2>1. Back \in RecordType
    BY DEF TypeOK, Back
  <2>2. TypeOK'
    <3>1. [id |-> Len(records), offset |-> End(Back)] \in [id : Nat, offset : Nat]
      BY <2>1 DEF TypeOK, End, RecordType
    <3>2. local' \in [Thread -> [id : Nat, offset : Nat]]
      BY <1>7, <3>1 DEF Number, TypeOK
    <3> QED BY <1>7, <3>2 DEF Number, Goto, TypeOK, Statements
  <2>3. MutexInv'
    BY <1>7 DEF Number, Goto, TypeOK, MutexInv, CriticalSection
  <2>4. CallInv'
    BY <1>7 DEF Number, Goto, TypeOK, CallInv, Ids
  <2>5. OwnerInv'
    BY <1>7 DEF Number, Goto, TypeOK, OwnerInv, Record, Back, End
  <2> QED BY <2>2, <2>3, <2>4, <2>5
<1>8. ASSUME NEW t \in Thread, PushRecord(t) PROVE SafeInv'
  <2>0. call[t] \in CallType /\ owner = t
    BY <1>8 DEF PushRecord, Goto, TypeOK, CallInv, MutexInv, CriticalSection
  <2> DEFINE r == [offset |-> local[t].offset, size |-> Len(call[t].data)]
  <2>1. r \in RecordType
    BY <2>0 DEF RecordType, CallType, TypeOK
  <2>2. /\ records' \in Seq(RecordType) /\ Len(records') = Len(records) + 1
        /\ \A i \in 1..Len(records) : records'[i] = records[i]
    BY <1>8, <2>1 DEF PushRecord, TypeOK
  <2>3. TypeOK'
    BY <1>8, <2>2 DEF PushRecord, Goto, TypeOK, Statements
  <2>4. MutexInv'
    BY <1>8, <2>0, NoThreadAssumption DEF PushRecord, Goto, TypeOK, MutexInv, CriticalSection
  <2>5. CallInv'
    BY <1>8, <2>2 DEF PushRecord, Goto, TypeOK, CallInv, Ids
  <2>6. OwnerInv'
    <3>1. \A u \in Thread : u # t => pc[u] \notin CriticalSection
      BY <2>0 DEF MutexInv
    <3> QED BY <1>8, <3>1 DEF PushRecord, Goto, TypeOK, OwnerInv, CriticalSection
  <2> QED BY <2>3, <2>4, <2>5, <2>6
<1>9. ASSUME NEW t \in Thread, Read(t) PROVE SafeInv'
  <2>0. owner = t /\ call[t].op = "get"
    BY <1>9 DEF Read, Goto, CallInv, MutexInv, CriticalSection
  <2>1. Record(call[t].id) \in RecordType
    BY <1>9, <2>0 DEF Read, Goto, TypeOK, CallInv, Ids, Record
  <2> DEFINE r == [offset |-> pos, size |-> Record(call[t].id).size]
  <2>2. r \in RecordType
    BY <2>1 DEF RecordType, TypeOK
  <2>3. Contents(r) \in Seq(Cell \cup {Junk})
    BY <2>2, ContentsProps DEF TypeOK
  <2>4. TypeOK'
    <3>1. buffer' = [buffer EXCEPT ![t] = Contents(r)]
      BY <1>9 DEF Read
    <3>2. buffer' \in [Thread -> Seq(Cell \cup {Junk})]
      BY <3>1, <2>3 DEF TypeOK
    <3>3. pos' \in Nat
      BY <1>9, <2>1 DEF Read, TypeOK, RecordType
    <3>4. pc' \in [Thread -> Statements] /\ call' \in [Thread -> CallType \cup {NoCall}]
      BY <1>9 DEF Read, Goto, TypeOK, Statements
    <3> QED BY <1>9, <3>2, <3>3, <3>4 DEF Read, TypeOK
  <2>5. MutexInv'
    BY <1>9, <2>0, NoThreadAssumption DEF Read, Goto, TypeOK, MutexInv, CriticalSection
  <2>6. CallInv'
    BY <1>9 DEF Read, Goto, TypeOK, CallInv, Ids
  <2>7. OwnerInv'
    <3>1. \A u \in Thread : u # t => pc[u] \notin CriticalSection
      BY <2>0 DEF MutexInv
    <3> QED BY <1>9, <3>1 DEF Read, Goto, TypeOK, OwnerInv, CriticalSection
  <2> QED BY <2>4, <2>5, <2>6, <2>7
<1>10. ASSUME NEW t \in Thread, Body(t) PROVE SafeInv'
  <2>1. CASE Write(t)
    <3>1. call[t].data \in Seq(Cell)
      BY <2>1, DataAssumption DEF Write, WriteCells, Goto, CallInv
    <3> QED BY <2>1, <3>1, <1>6 DEF Write
  <2>2. CASE ShortWrite(t)
    <3>1. call[t].data \in Seq(Cell)
      BY <2>2, DataAssumption DEF ShortWrite, WriteCells, Goto, CallInv
    <3>2. PICK n \in 0..(Len(call[t].data) - 1) : WriteCells(t, SubSeq(call[t].data, 1, n))
      BY <2>2 DEF ShortWrite
    <3> QED BY <3>1, <3>2, <1>6, PrefixIsCells
  <2> QED BY <1>10, <2>1, <2>2, <1>4, <1>5, <1>7, <1>8, <1>9 DEF Body
<1> QED BY <1>0, <1>1, <1>2, <1>3, <1>10 DEF Next

\* Type correctness, for any number of threads and any blobs.
THEOREM TypeCorrect == Spec => []TypeOK
<1>1. Spec => []SafeInv
  BY InitSafe, NextSafe, PTL DEF Spec
<1> QED BY <1>1, PTL DEF SafeInv

\* Mutual exclusion of the bodies of get and put.
THEOREM Mutex == Spec => []MutexInv
<1>1. Spec => []SafeInv
  BY InitSafe, NextSafe, PTL DEF Spec
<1> QED BY <1>1, PTL DEF SafeInv

-----------------------------------------------------------------------------
\* No step, not even a short write, changes a cell of the file or a record
\* that is already there.
Grows ==
  /\ Len(file') \in Nat /\ Len(file') >= Len(file) /\ \A k \in 1..Len(file) : file'[k] = file[k]
  /\ Len(records') >= Len(records) /\ \A i \in 1..Len(records) : records'[i] = records[i]

LEMMA NextGrows == SafeInv /\ [Next]_vars => Grows
<1> SUFFICES ASSUME SafeInv, [Next]_vars PROVE Grows
  OBVIOUS
<1> USE DEF SafeInv
<1>1. CASE file' = file /\ records' = records
  BY <1>1 DEF Grows, TypeOK
<1>2. ASSUME NEW t \in Thread, NEW d \in Seq(Cell), WriteCells(t, d) PROVE Grows
  <2>1. pos = Len(file) /\ file \in Seq(Cell)
    BY <1>2 DEF WriteCells, Goto, OwnerInv, TypeOK
  <2>2. file' = Written(Len(file), d) /\ Len(file) \in Nat /\ Len(d) \in Nat
    BY <1>2, <2>1 DEF WriteCells
  <2>3. /\ Len(file') \in Nat /\ Len(file') >= Len(file)
        /\ \A k \in 1..Len(file) : file'[k] = file[k]
    <3>1. Len(file') = Len(file) + Len(d)
      BY <2>1, <2>2, WrittenProps
    <3>2. \A k \in 1..Len(file) : file'[k] = file[k]
      BY <2>1, <2>2, WrittenProps
    <3> QED BY <2>2, <3>1, <3>2
  <2> QED BY <1>2, <2>3 DEF WriteCells, Grows, TypeOK
<1>3. ASSUME NEW t \in Thread, PushRecord(t) PROVE Grows
  <2> DEFINE r == [offset |-> local[t].offset, size |-> Len(call[t].data)]
  <2>0. call[t] \in CallType
    BY <1>3 DEF PushRecord, Goto, TypeOK, CallInv
  <2>1. r \in RecordType
    BY <2>0 DEF RecordType, CallType, TypeOK
  <2>2. /\ Len(records') = Len(records) + 1
        /\ \A i \in 1..Len(records) : records'[i] = records[i]
    BY <1>3, <2>1 DEF PushRecord, TypeOK
  <2>3. file' = file
    BY <1>3 DEF PushRecord
  <2> HIDE DEF r
  <2> QED BY <2>2, <2>3 DEF TypeOK, Grows
<1>4. ASSUME NEW t \in Thread, Body(t) PROVE Grows
  <2>1. CASE Write(t)
    <3>1. call[t].data \in Seq(Cell)
      BY <2>1, DataAssumption DEF Write, WriteCells, Goto, CallInv
    <3> QED BY <2>1, <3>1, <1>2 DEF Write
  <2>2. CASE ShortWrite(t)
    <3>1. call[t].data \in Seq(Cell)
      BY <2>2, DataAssumption DEF ShortWrite, WriteCells, Goto, CallInv
    <3>2. PICK n \in 0..(Len(call[t].data) - 1) : WriteCells(t, SubSeq(call[t].data, 1, n))
      BY <2>2 DEF ShortWrite
    <3> QED BY <3>1, <3>2, <1>2, PrefixIsCells
  <2>3. CASE SeekEnd(t) \/ Number(t) \/ SeekRecord(t) \/ Read(t)
    BY <2>3, <1>1 DEF SeekEnd, Number, SeekRecord, Read
  <2> QED BY <1>4, <2>1, <2>2, <2>3, <1>3 DEF Body
<1>5. ASSUME NEW t \in Thread,
             \/ \E d \in Data : BeginPut(t, d)
             \/ \E i \in Ids : BeginGet(t, i)
             \/ Lock(t)
      PROVE Grows
  BY <1>5, <1>1 DEF BeginPut, BeginGet, Lock
<1>6. CASE Next
  <2>1. PICK t \in Thread :
          \/ \E d \in Data : BeginPut(t, d)
          \/ \E i \in Ids : BeginGet(t, i)
          \/ Lock(t)
          \/ Body(t)
    BY <1>6 DEF Next
  <2>2. CASE Body(t)
    BY <2>2, <1>4
  <2> QED BY <2>1, <2>2, <1>5
<1>7. CASE UNCHANGED vars
  BY <1>7, <1>1 DEF vars
<1> QED BY <1>6, <1>7

\* A record that lies in the file in full keeps its contents when the file grows.
LEMMA GrowsKeeps ==
  ASSUME TypeOK, Grows, NEW i \in Ids, End(Record(i)) <= Len(file)
  PROVE  Record(i)' = Record(i) /\ Contents(Record(i))' = Contents(Record(i))
<1>1. Record(i) \in RecordType /\ Record(i)' = Record(i)
  BY DEF TypeOK, Ids, Record, Grows
<1> DEFINE r == Record(i)
<1>2. r.offset \in Nat /\ r.size \in Nat /\ Len(file) \in Nat /\ Len(file') \in Nat
      /\ Len(file') >= Len(file)
  BY <1>1 DEF RecordType, TypeOK, Grows
<1>3. ASSUME NEW k \in 1..r.size
      PROVE  /\ r.offset + k <= Len(file) /\ r.offset + k <= Len(file')
             /\ file'[r.offset + k] = file[r.offset + k]
  <2>1. r.offset + r.size <= Len(file) /\ k \in Nat /\ 1 <= k /\ k <= r.size
    BY <1>2, <1>3 DEF End
  <2> HIDE DEF r
  <2>2. r.offset + k \in 1..Len(file)
    BY <1>2, <2>1
  <2> QED BY <1>2, <2>2 DEF Grows
<1>4. Contents(r)' = [k \in 1..r.size |->
                       IF r.offset + k <= Len(file') THEN file'[r.offset + k] ELSE Junk]
  BY <1>1 DEF Contents
<1>5. Contents(r) = [k \in 1..r.size |-> file[r.offset + k]]
  BY <1>3 DEF Contents
<1>6. Contents(r)' = [k \in 1..r.size |-> file[r.offset + k]]
  BY <1>3, <1>4
<1> QED BY <1>1, <1>5, <1>6

\* Even when writes fail, a blob that is in the file in full stays as it is.
THEOREM Survival == Spec => StoredBlobsSurvive
<1> DEFINE Survive == \A i \in Ids : End(Record(i)) <= Len(file)
               => Record(i)' = Record(i) /\ Contents(Record(i))' = Contents(Record(i))
<1>1. SafeInv /\ [Next]_vars => [Survive]_vars
  BY NextGrows, GrowsKeeps DEF SafeInv
<1>2. Spec => []SafeInv
  BY InitSafe, NextSafe, PTL DEF Spec
<1> QED BY <1>1, <1>2, PTL DEF Spec, StoredBlobsSurvive

-----------------------------------------------------------------------------
\* With writes that do not fail: the records tile the file, every record lies
\* in it, and a blob that is written but not yet recorded follows the last one.
TileInv ==
  /\ RecordsContiguous
  /\ FileEndsAtBack
  /\ \A i \in 1..Len(records) : End(records[i]) <= Len(file)
  /\ \A t \in Thread : Writing(t) =>
       \A k \in 1..Len(call[t].data) : file[End(Back) + k] = call[t].data[k]

LEMMA InitTile == Init => TileInv
<1> SUFFICES ASSUME Init PROVE TileInv
  OBVIOUS
<1>1. records[1] = [offset |-> 0, size |-> 0] /\ Len(records) = 1 /\ Len(file) = 0
  BY DEF Init
<1>2. End(Back) = 0
  BY <1>1 DEF Back, End
<1>3. owner = NoThread /\ \A t \in Thread : pc[t] = "idle"
  BY DEF Init
<1> QED BY <1>1, <1>2, <1>3 DEF TileInv, RecordsContiguous, FileEndsAtBack, Pending, Writing, End

\* A step that touches neither file nor table, nor begins or ends a blob.
LEMMA QuietTile ==
  ASSUME TileInv, file' = file, records' = records, Pending' = Pending,
         \A u \in Thread : Writing(u)' => Writing(u) /\ call'[u] = call[u]
  PROVE  TileInv'
<1>1. Back' = Back
  BY DEF Back
<1>2. RecordsContiguous' /\ (\A i \in 1..Len(records) : End(records[i]) <= Len(file))'
  BY DEF TileInv, RecordsContiguous, End
<1>3. FileEndsAtBack'
  BY <1>1 DEF TileInv, FileEndsAtBack, End
<1>4. ASSUME NEW u \in Thread, Writing(u)'
      PROVE  (\A k \in 1..Len(call[u].data) : file[End(Back) + k] = call[u].data[k])'
  BY <1>1, <1>4 DEF TileInv, End
<1> QED BY <1>2, <1>3, <1>4 DEF TileInv

\* With writes that do not fail every step preserves the tiling.
LEMMA NextTile ==
  ASSUME WriteMayFail = FALSE, SafeInv, TileInv, [Next]_vars
  PROVE  TileInv'
<1> USE DEF SafeInv
<1>0. CASE UNCHANGED vars
  <2>1. /\ file' = file /\ records' = records /\ owner' = owner
        /\ pc' = pc /\ call' = call
    BY <1>0 DEF vars
  <2> QED BY <2>1, QuietTile DEF Pending, Writing
<1>1. ASSUME NEW t \in Thread, NEW d \in Data, BeginPut(t, d) PROVE TileInv'
  BY <1>1, QuietTile DEF BeginPut, Goto, Pending, Writing, TypeOK
<1>2. ASSUME NEW t \in Thread, NEW i \in Ids, BeginGet(t, i) PROVE TileInv'
  BY <1>2, QuietTile DEF BeginGet, Goto, Pending, Writing, TypeOK
<1>3. ASSUME NEW t \in Thread, Lock(t) PROVE TileInv'
  BY <1>3, QuietTile DEF Lock, Goto, Pending, Writing, TypeOK
<1>4. ASSUME NEW t \in Thread, SeekEnd(t) \/ SeekRecord(t) \/ Number(t) PROVE TileInv'
  BY <1>4, QuietTile DEF SeekEnd, SeekRecord, Number, Goto, Pending, Writing, TypeOK
<1>5. ASSUME NEW t \in Thread, Read(t) PROVE TileInv'
  <2>1. owner = t
    BY <1>5 DEF Read, Goto, MutexInv, CriticalSection
  <2> QED BY <1>5, <2>1, QuietTile, NoThreadAssumption DEF Read, Goto, Pending, Writing, TypeOK
<1>6. ASSUME NEW t \in Thread, Write(t) PROVE TileInv'
  <2> DEFINE d == call[t].data
  <2>1. d \in Seq(Cell) /\ pos = Len(file) /\ owner = t
    BY <1>6, DataAssumption
       DEF Write, WriteCells, Goto, CallInv, OwnerInv, MutexInv, CriticalSection
  <2>2. /\ file' = Written(Len(file), d) /\ records' = records /\ owner' = owner
        /\ call' = call /\ Writing(t)' /\ ~Writing(t)
    BY <1>6, <2>1 DEF Write, WriteCells, Goto, Writing, TypeOK
  <2>3. /\ Len(file') = Len(file) + Len(d)
        /\ \A k \in 1..Len(d) : file'[Len(file) + k] = d[k]
    BY <2>1, <2>2, WrittenProps DEF TypeOK
  <2>4. Back' = Back /\ End(Back) \in Nat /\ Len(file) = End(Back) /\ Len(d) \in Nat
    <3>1. Back \in RecordType
      BY DEF TypeOK, Back
    <3>2. Back' = Back /\ End(Back) \in Nat
      BY <2>2, <3>1 DEF Back, End, RecordType
    <3>3. Pending = 0
      BY <2>1, <2>2 DEF Pending
    <3> QED BY <2>1, <3>2, <3>3 DEF TileInv, FileEndsAtBack
  <2>5. Pending' = Len(d)
    BY <2>1, <2>2, NoThreadAssumption DEF Pending
  <2>6. FileEndsAtBack'
    BY <2>3, <2>4, <2>5 DEF FileEndsAtBack, End
  <2>7. \A i \in 1..Len(records) : End(records[i]) \in Nat /\ End(records[i]) <= Len(file)
    <3>1. \A i \in 1..Len(records) : records[i] \in RecordType
      BY DEF TypeOK
    <3>2. \A i \in 1..Len(records) : End(records[i]) \in Nat
      BY <3>1 DEF RecordType, End
    <3> QED BY <3>2 DEF TileInv
  <2>8. (\A i \in 1..Len(records) : End(records[i]) <= Len(file))'
    BY <2>2, <2>3, <2>4, <2>7 DEF End
  <2>9. ASSUME NEW u \in Thread, Writing(u)'
        PROVE  (\A k \in 1..Len(call[u].data) : file[End(Back) + k] = call[u].data[k])'
    <3>1. u = t
      BY <1>6, <2>1, <2>9 DEF Write, WriteCells, Goto, Writing, MutexInv, CriticalSection, TypeOK
    <3> QED BY <3>1, <2>2, <2>3, <2>4 DEF End
  <2> QED BY <2>2, <2>6, <2>8, <2>9 DEF TileInv, RecordsContiguous, End
<1>7. ASSUME NEW t \in Thread, PushRecord(t) PROVE TileInv'
  <2> DEFINE d == call[t].data
             r == [offset |-> local[t].offset, size |-> Len(d)]
             n == Len(records)
  <2>1. owner = t /\ d \in Seq(Cell) /\ Writing(t) /\ local[t].offset = End(Back)
    BY <1>7, DataAssumption
       DEF PushRecord, Goto, CallInv, OwnerInv, MutexInv, CriticalSection, Writing
  <2>2. Back \in RecordType /\ End(Back) \in Nat /\ Len(d) \in Nat /\ n \in Nat /\ n >= 1
    <3>1. Back \in RecordType /\ n \in Nat /\ n >= 1
      BY DEF TypeOK, Back
    <3>2. End(Back) \in Nat
      BY <3>1 DEF RecordType, End
    <3> QED BY <2>1, <3>1, <3>2
  <2>3. r \in RecordType /\ r.offset = End(Back) /\ r.size = Len(d)
    BY <2>1, <2>2 DEF RecordType
  <2>4. records' = Append(records, r) /\ file' = file /\ owner' = NoThread
    BY <1>7 DEF PushRecord
  <2> HIDE DEF r
  <2>5. Len(records') = n + 1 /\ records'[n + 1] = r /\ \A i \in 1..n : records'[i] = records[i]
    BY <2>3, <2>4 DEF TypeOK
  <2>6. Back' = r /\ End(r) = End(Back) + Len(d)
    BY <2>3, <2>5 DEF Back, End
  <2>7. Len(file) = End(Back) + Len(d)
    BY <2>1, NoThreadAssumption DEF TileInv, FileEndsAtBack, Pending
  <2>8. FileEndsAtBack'
    <3>1. Pending' = 0
      BY <2>4 DEF Pending
    <3>2. End(Back)' = Len(file)
      BY <2>6, <2>7 DEF End
    <3>3. Len(file) \in Nat
      BY DEF TypeOK
    <3> QED BY <2>4, <3>1, <3>2, <3>3 DEF FileEndsAtBack
  <2>9. RecordsContiguous'
    <3>1. records'[1] = [offset |-> 0, size |-> 0]
      BY <2>2, <2>5 DEF TileInv, RecordsContiguous
    <3>2. ASSUME NEW i \in 2..Len(records')
          PROVE  records'[i].offset = End(records'[i - 1])
      <4>1. CASE i \in 2..n
        BY <4>1, <2>2, <2>5 DEF TileInv, RecordsContiguous
      <4>2. CASE i = n + 1
        <5>1. records'[i - 1] = Back
          BY <4>2, <2>2, <2>5 DEF Back
        <5> QED BY <4>2, <5>1, <2>3, <2>5
      <4> QED BY <4>1, <4>2, <2>2, <2>5
    <3> QED BY <3>1, <3>2 DEF RecordsContiguous, End
  <2>10. ASSUME NEW i \in 1..Len(records') PROVE End(records'[i]) <= Len(file')
    <3>1. CASE i \in 1..n
      BY <3>1, <2>4, <2>5 DEF TileInv
    <3>2. CASE i = n + 1
      BY <3>2, <2>2, <2>4, <2>5, <2>6, <2>7
    <3> QED BY <3>1, <3>2, <2>2, <2>5
  <2>11. \A u \in Thread : ~Writing(u)'
    BY <1>7, <2>1 DEF PushRecord, Goto, Writing, MutexInv, CriticalSection, TypeOK
  <2> QED BY <2>8, <2>9, <2>10, <2>11 DEF TileInv, End
<1>8. CASE Next
  <2>1. PICK t \in Thread :
          \/ \E d \in Data : BeginPut(t, d)
          \/ \E i \in Ids : BeginGet(t, i)
          \/ Lock(t)
          \/ Body(t)
    BY <1>8 DEF Next
  <2>2. ~ShortWrite(t)
    BY DEF ShortWrite
  <2> QED BY <2>1, <2>2, <1>1, <1>2, <1>3, <1>4, <1>5, <1>6, <1>7 DEF Body
<1> QED BY <1>0, <1>8

LEMMA TileAlways == ASSUME WriteMayFail = FALSE PROVE Spec => []TileInv
<1>1. SafeInv /\ TileInv /\ [Next]_vars => SafeInv' /\ TileInv'
  BY NextSafe, NextTile
<1> QED BY <1>1, InitSafe, InitTile, PTL DEF Spec

\* If no write fails, the records tile the file without a gap or an overlap.
THEOREM Contiguous == ASSUME WriteMayFail = FALSE PROVE Spec => []RecordsContiguous
<1>1. Spec => []TileInv
  BY TileAlways
<1>2. TileInv => RecordsContiguous
  BY DEF TileInv
<1> QED BY <1>1, <1>2, PTL

\* If no write fails, the end of the file is where put believes it to be.
THEOREM EndAgrees == ASSUME WriteMayFail = FALSE PROVE Spec => []FileEndsAtBack
<1>1. Spec => []TileInv
  BY TileAlways
<1>2. TileInv => FileEndsAtBack
  BY DEF TileInv
<1> QED BY <1>1, <1>2, PTL

-----------------------------------------------------------------------------
\* The blobs of the abstract store under the refinement mapping.
Store == [i \in Ids |-> Contents(Record(i))]

\* Records in place and file growing: the blobs stored so far do not change.
LEMMA StoreKept ==
  ASSUME TypeOK, TileInv, Grows
  PROVE  /\ Len(Store) = Len(records) - 1
         /\ \A i \in Ids : Contents(Record(i))' = Contents(Record(i))
         /\ Len(records') = Len(records) => Store' = Store
<1>1. Len(records) - 1 \in Nat
  BY DEF TypeOK
<1>2. Len(Store) = Len(records) - 1
  BY <1>1 DEF Store, Ids
<1>3. ASSUME NEW i \in Ids
      PROVE  Contents(Record(i))' = Contents(Record(i))
  <2>1. i + 1 \in 1..Len(records)
    BY <1>1 DEF Ids
  <2>2. End(Record(i)) <= Len(file)
    BY <2>1 DEF TileInv, Record
  <2> QED BY <2>2, GrowsKeeps
<1>4. ASSUME Len(records') = Len(records) PROVE Store' = Store
  <2>1. Ids' = Ids
    BY <1>4 DEF Ids
  <2> QED BY <2>1, <1>3 DEF Store
<1> QED BY <1>2, <1>3, <1>4

\* A push appends exactly the blob that was being put.
LEMMA StorePush ==
  ASSUME SafeInv, TileInv, NEW t \in Thread, PushRecord(t), Grows
  PROVE  Store' = Append(Store, call[t].data) /\ Len(Store) + 1 = local[t].id
<1> USE DEF SafeInv
<1> DEFINE d == call[t].data
           r == [offset |-> local[t].offset, size |-> Len(d)]
<1>0. PICK n \in Nat : n = Len(records) /\ n >= 1
  BY DEF TypeOK
<1>1. d \in Seq(Cell) /\ Writing(t) /\ local[t].offset = End(Back) /\ local[t].id = n /\ owner = t
  BY <1>0, DataAssumption
     DEF PushRecord, Goto, CallInv, OwnerInv, Writing, MutexInv, CriticalSection
<1>2. n = Len(records) /\ n \in Nat /\ n >= 1 /\ Back \in RecordType
  BY <1>0 DEF TypeOK, Back
<1>3. End(Back) \in Nat /\ Len(d) \in Nat
  BY <1>1, <1>2 DEF RecordType, End
<1>4. r \in RecordType /\ r.offset = End(Back) /\ r.size = Len(d)
  BY <1>1, <1>3 DEF RecordType
<1>5. Len(records') = n + 1 /\ records'[n + 1] = r /\ file' = file
  <2>1. records' = Append(records, r) /\ file' = file
    BY DEF PushRecord
  <2> HIDE DEF r
  <2> QED BY <2>1, <1>2, <1>4 DEF TypeOK
<1>6. Ids' = 1..n /\ Record(n)' = r
  BY <1>2, <1>5 DEF Ids, Record
<1>7. Len(file) = End(Back) + Len(d)
  BY <1>1, NoThreadAssumption DEF TileInv, FileEndsAtBack, Pending
<1>8. \A k \in 1..Len(d) : file[End(Back) + k] = d[k]
  BY <1>1 DEF TileInv
<1>9. Contents(Record(n))' = d
  <2>1. Contents(Record(n))' = [k \in 1..Len(d) |->
          IF End(Back) + k <= Len(file) THEN file[End(Back) + k] ELSE Junk]
    BY <1>4, <1>5, <1>6 DEF Contents
  <2>2. \A k \in 1..Len(d) : End(Back) + k <= Len(file)
    BY <1>3, <1>7
  <2>3. Contents(Record(n))' = [k \in 1..Len(d) |-> d[k]]
    BY <2>1, <2>2, <1>8
  <2> QED BY <2>3, <1>1
<1>10. Len(Store) = n - 1 /\ \A i \in Ids : Store[i] = Contents(Record(i))
  BY <1>2, StoreKept DEF Store
<1>11. Store \in Seq(Seq(Cell \cup {Junk}))
  <2>1. \A i \in Ids : Record(i) \in RecordType
    BY DEF TypeOK, Ids, Record
  <2>2. \A i \in Ids : Contents(Record(i)) \in Seq(Cell \cup {Junk})
    BY <2>1, ContentsProps DEF TypeOK
  <2> QED BY <1>2, <2>2 DEF Store, Ids
<1>12. d \in Seq(Cell \cup {Junk})
  BY <1>1
<1>13. \A i \in Ids : Contents(Record(i))' = Contents(Record(i))
  BY StoreKept
<1>14. Append(Store, d) = [i \in 1..n |-> IF i \in Ids THEN Store[i] ELSE d]
  <2> HIDE DEF d
  <2>1. /\ Append(Store, d) \in Seq(Seq(Cell \cup {Junk})) /\ Len(Append(Store, d)) = n
        /\ \A i \in 1..(n - 1) : Append(Store, d)[i] = Store[i]
        /\ Append(Store, d)[n] = d
    BY <1>2, <1>10, <1>11, <1>12
  <2>2. \A i \in 1..n : i \in Ids \/ i = n
    BY <1>2 DEF Ids
  <2>3. n \notin Ids
    BY <1>2 DEF Ids
  <2> DEFINE A == Append(Store, d)
  <2>4. A = [i \in 1..n |-> A[i]]
    BY <2>1, SeqAsFunction
  <2>5. \A i \in 1..n : A[i] = IF i \in Ids THEN Store[i] ELSE d
    BY <1>2, <2>1, <2>2, <2>3 DEF Ids
  <2> HIDE DEF A
  <2> QED BY <2>4, <2>5 DEF A
<1>15. Store' = [i \in 1..n |-> IF i \in Ids THEN Store[i] ELSE d]
  <2>1. ASSUME NEW i \in 1..n
        PROVE  Contents(Record(i))' = IF i \in Ids THEN Store[i] ELSE d
    <3>1. CASE i \in Ids
      BY <3>1, <1>10, <1>13
    <3>2. CASE i \notin Ids
      <4>1. i = n
        BY <3>2, <1>2 DEF Ids
      <4> QED BY <3>2, <4>1, <1>9
    <3> QED BY <3>1, <3>2
  <2> QED BY <2>1, <1>6 DEF Store
<1> QED BY <1>1, <1>2, <1>10, <1>14, <1>15

\* Every step is a step of the abstract store or leaves it alone.
LEMMA NextRefines ==
  ASSUME WriteMayFail = FALSE, SafeInv, TileInv, [Next]_vars
  PROVE  [Abstract!Next]_(Abstract!storeVars)
<1> USE DEF SafeInv
<1> DEFINE absVars == <<Store, call, handle, buffer>>
<1>0. Grows
  BY NextGrows
<1>1. Len(Store) = Len(records) - 1 /\ Ids = 1..Len(Store)
  BY <1>0, StoreKept DEF Ids
<1>2. ASSUME Len(records') = Len(records) PROVE Store' = Store
  BY <1>0, <1>2, StoreKept
<1>3. CASE UNCHANGED vars
  BY <1>2, <1>3 DEF vars, Abstract!storeVars, Store
<1>4. ASSUME NEW t \in Thread, NEW d \in Data, BeginPut(t, d) PROVE Abstract!BeginPut(t, d)
  <2>1. call[t] = NoCall /\ Len(Store) < MaxBlobs /\ Store' = Store
    BY <1>1, <1>2, <1>4 DEF BeginPut, Goto, CallInv
  <2> QED BY <2>1, <1>4 DEF BeginPut, Abstract!BeginPut, Abstract!PutCall, PutCall, Store
<1>5. ASSUME NEW t \in Thread, NEW i \in Ids, BeginGet(t, i) PROVE Abstract!BeginGet(t, i)
  <2>1. call[t] = NoCall /\ i \in 1..Len(Store) /\ Store' = Store
    BY <1>1, <1>2, <1>5 DEF BeginGet, Goto, CallInv
  <2> QED BY <2>1, <1>5 DEF BeginGet, Abstract!BeginGet, Abstract!GetCall, GetCall, Store
<1>6. ASSUME NEW t \in Thread, \/ Lock(t) \/ SeekEnd(t) \/ SeekRecord(t) \/ Write(t) \/ Number(t)
      PROVE  UNCHANGED Abstract!storeVars
  <2>1. records' = records /\ call' = call /\ handle' = handle /\ buffer' = buffer
    BY <1>6 DEF Lock, SeekEnd, SeekRecord, Write, WriteCells, Number
  <2> QED BY <2>1, <1>2 DEF Abstract!storeVars, Store
<1>7. ASSUME NEW t \in Thread, PushRecord(t) PROVE Abstract!Put(t)
  <2>1. call[t] # NoCall /\ call[t].op = "put"
    BY <1>7 DEF PushRecord, Goto, CallInv
  <2>2. Store' = Append(Store, call[t].data) /\ Len(Store) + 1 = local[t].id
    BY <1>0, <1>7, StorePush
  <2> QED BY <2>1, <2>2, <1>7 DEF PushRecord, Abstract!Put, Store
<1>8. ASSUME NEW t \in Thread, Read(t) PROVE Abstract!Get(t)
  <2>1. /\ call[t] # NoCall /\ call[t].op = "get" /\ call[t].id \in Ids
        /\ pos = Record(call[t].id).offset
    BY <1>8 DEF Read, Goto, CallInv, OwnerInv
  <2>2. Record(call[t].id) \in RecordType
    BY <2>1 DEF TypeOK, Ids, Record
  <2>3. Contents([offset |-> pos, size |-> Record(call[t].id).size]) = Contents(Record(call[t].id))
    BY <2>1 DEF Contents
  <2>4. buffer' = [buffer EXCEPT ![t] = Store[call[t].id]]
    BY <1>8, <2>1, <2>3 DEF Read, Store
  <2>5. Store' = Store /\ handle' = handle /\ call' = [call EXCEPT ![t] = NoCall]
    BY <1>2, <1>8 DEF Read
  <2> QED BY <2>1, <2>4, <2>5 DEF Abstract!Get, Store
<1>9. CASE Next
  <2>1. PICK t \in Thread :
          \/ \E d \in Data : BeginPut(t, d)
          \/ \E i \in Ids : BeginGet(t, i)
          \/ Lock(t)
          \/ Body(t)
    BY <1>9 DEF Next
  <2>2. ~ShortWrite(t)
    BY DEF ShortWrite
  <2>3. CASE \E d \in Data : BeginPut(t, d)
    BY <2>3, <1>4 DEF Abstract!Next
  <2>4. CASE \E i \in Ids : BeginGet(t, i)
    <3>1. PICK i \in Ids : BeginGet(t, i)
      BY <2>4
    <3>2. Abstract!BeginGet(t, i) /\ i \in 1..Len(Store)
      BY <3>1, <1>1, <1>5
    <3> QED BY <3>2 DEF Abstract!Next, Store
  <2>5. CASE PushRecord(t)
    BY <2>5, <1>7 DEF Abstract!Next
  <2>6. CASE Read(t)
    BY <2>6, <1>8 DEF Abstract!Next
  <2> QED BY <2>1, <2>2, <2>3, <2>4, <2>5, <2>6, <1>6 DEF Body
<1> QED BY <1>3, <1>9

\* If no write fails, the shared file behaves as an atomic append-only store:
\* a get returns what the put with that number stored, for any number of
\* threads and under any interleaving.
THEOREM Refinement == ASSUME WriteMayFail = FALSE PROVE Spec => ImplementsBlobStore
<1>1. Init => Abstract!Init
  BY DEF Init, Abstract!Init, Ids
<1>2. SafeInv /\ TileInv /\ [Next]_vars => [Abstract!Next]_(Abstract!storeVars)
  BY NextRefines
<1>3. Spec => [](SafeInv /\ TileInv)
  <2>1. SafeInv /\ TileInv /\ [Next]_vars => SafeInv' /\ TileInv'
    BY NextSafe, NextTile
  <2> QED BY <2>1, InitSafe, InitTile, PTL DEF Spec
<1> QED BY <1>1, <1>2, <1>3, PTL DEF Spec, Abstract!Spec, ImplementsBlobStore
==============================================================================
