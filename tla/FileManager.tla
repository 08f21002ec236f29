----------------------------- MODULE FileManager -----------------------------
(***************************************************************************)
(* FileManager::write of lib/file/file.h over the StreamFactory of         *)
(* lib/file/stream_factory.cpp, for one file: the factory opens the file   *)
(* for writing and lists its path among the writers under a lock, write()  *)
(* puts the buffer into the stream and closes it, removeWriter() takes the *)
(* path from the list again.  Nothing looks at the list: writers of one    *)
(* file may overlap.                                                       *)
(***************************************************************************)
EXTENDS Integers, Sequences, FiniteSets

CONSTANTS
    FileWriters,  \* threads that write to the file
    Buffers,      \* the buffers they write, sequences
    MaxWrites     \* bound on the writes that are started

ASSUME FileAssumption == MaxWrites \in Nat /\ \A b \in Buffers : b \in Seq(Nat)

VARIABLES
    file,          \* what the file holds
    writers_lock,  \* 0, or the thread that left it locked
    writers,       \* how often the path is in the list of writers
    writing,       \* thread -> [at, buffer, append]
    writes,        \* writes started so far
    clean          \* what the file holds if its last write was undisturbed
                   \* and not to append, Disturbed otherwise

file_vars ==
    <<file, writers_lock, writers, writing, writes, clean>>

Disturbed == <<0, 0, 0>>
NotWriting == [at |-> "idle", buffer |-> <<>>, append |-> FALSE]

FileInit ==
    /\ file = <<>> /\ clean = <<>>
    /\ writers_lock = 0 /\ writers = 0 /\ writes = 0
    /\ writing = [t \in FileWriters |-> NotWriting]

Between == {t \in FileWriters : writing[t].at \in {"opened", "written"}}
Overlapped == Between # {}

(* What clean is when t has opened the file.                               *)
Undisturbed(t) ==
    IF Overlapped \/ writing[t].append THEN Disturbed ELSE writing[t].buffer

CallWrite(t, buffer, append) ==
    /\ writing[t].at = "idle" /\ writes < MaxWrites
    /\ writing' = [writing EXCEPT ![t] =
          [at |-> "called", buffer |-> buffer, append |-> append]]
    /\ writes' = writes + 1
    /\ UNCHANGED <<file, writers_lock, writers, clean>>

(* Mutation: the file is opened without losing what it holds.              *)
WriterKeeps(t) ==
    /\ writing[t].at = "called" /\ writers_lock = 0
    /\ writers' = writers + 1
    /\ clean' = Undisturbed(t)
    /\ writing' = [writing EXCEPT ![t].at = "opened"]
    /\ UNCHANGED <<file, writers_lock, writes>>

(* StreamFactory::writer: an ofstream opened for output truncates, also    *)
(* where the caller wants to append.                                       *)
writer(t) ==
    /\ writing[t].at = "called" /\ writers_lock = 0
    /\ file' = <<>>
    /\ writers' = writers + 1
    /\ clean' = Undisturbed(t)
    /\ writing' = [writing EXCEPT ![t].at = "opened"]
    /\ UNCHANGED <<writers_lock, writes>>

(* The file cannot be opened: the exception leaves the lock locked.        *)
writerThrows(t) ==
    /\ writing[t].at = "called" /\ writers_lock = 0
    /\ writers_lock' = t
    /\ writing' = [writing EXCEPT ![t] = NotWriting]
    /\ UNCHANGED <<file, writers, writes, clean>>

(* write(), flush and the end of the stream: seekp to the end or to 0, and *)
(* what lies behind the buffer stays.                                      *)
writeBuffer(t) ==
    /\ writing[t].at = "opened"
    /\ LET b   == writing[t].buffer
           pos == IF writing[t].append THEN Len(file) ELSE 0
           n   == IF Len(file) > pos + Len(b) THEN Len(file) ELSE pos + Len(b)
       IN  file' = [i \in 1..n |-> IF i \in (pos + 1)..(pos + Len(b))
                                   THEN b[i - pos] ELSE file[i]]
    /\ writing' = [writing EXCEPT ![t].at = "written"]
    /\ UNCHANGED <<writers_lock, writers, writes, clean>>

(* Mutation: a writer waits until it is the last one in the list.          *)
removeWriterWaits(t) ==
    /\ writing[t].at = "written" /\ writers_lock = 0
    /\ writers = 1
    /\ writers' = 0
    /\ writing' = [writing EXCEPT ![t] = NotWriting]
    /\ UNCHANGED <<file, writers_lock, writes, clean>>

removeWriter(t) ==
    /\ writing[t].at = "written" /\ writers_lock = 0
    /\ writers' = IF writers = 0 THEN 0 ELSE writers - 1
    /\ writing' = [writing EXCEPT ![t] = NotWriting]
    /\ UNCHANGED <<file, writers_lock, writes, clean>>

(* The process is killed and started again: its threads, lock and list are *)
(* gone, the file is what had been written.                                *)
Kill ==
    /\ writing' = [t \in FileWriters |-> NotWriting]
    /\ writers_lock' = 0 /\ writers' = 0
    /\ clean' = IF \E t \in FileWriters : writing[t].at = "opened"
                THEN Disturbed ELSE clean
    /\ UNCHANGED <<file, writes>>

FileStep(t) == writer(t) \/ writeBuffer(t) \/ removeWriter(t)

FileNext ==
    \/ Kill
    \/ \E t \in FileWriters :
          \/ \E b \in Buffers, append \in BOOLEAN : CallWrite(t, b, append)
          \/ FileStep(t) \/ writerThrows(t)

(* A thread in a write goes on; a mutex is handed to whoever waits.        *)
FileFairness == \A t \in FileWriters : SF_file_vars(FileStep(t))

FileSpec == FileInit /\ [][FileNext]_file_vars /\ FileFairness

-----------------------------------------------------------------------------
FileTypeOK ==
    /\ file \in Seq(Nat) /\ clean \in Seq(Nat)
    /\ writers_lock \in {0} \union FileWriters
    /\ writers \in 0..Cardinality(FileWriters) /\ writes \in 0..MaxWrites

(* FileManager::write: a write that is not to append and that no other     *)
(* overlaps leaves the file with its buffer and nothing else, whatever was *)
(* in it before and however long that was.  What append should leave is    *)
(* not claimed: writer() has truncated the file by then.                   *)
UndisturbedWriteStays ==
    ~Overlapped /\ clean # Disturbed => file = clean

(* A call of write() returns or throws, unless another one threw with the  *)
(* lock of the factory.                                                    *)
WritesEnd ==
    \A t \in FileWriters :
       writing[t].at = "called" ~> (writing[t].at = "idle" \/ writers_lock # 0)
=============================================================================
