---------------------------- MODULE JSONLWriter ----------------------------
(***************************************************************************)
(* jsonlwriter.go: the telemetry file, its rotation and its retention.     *)
(*                                                                         *)
(* A Flush is one step for each operation on the file system, any of which *)
(* may fail; the process may stop between two of them.  wpc names the      *)
(* operation Flush is about to do.  An entry is a number, a file is the    *)
(* sequence of what was written to it, and time is left out: the file may  *)
(* turn out to be too old whenever Flush looks.                            *)
(***************************************************************************)
EXTENDS Integers, Sequences, FiniteSets, SequencesExt

CONSTANTS
    LineSize,    \* bytes of an entry's line; a torn line has one byte less or more
    InitialAvg,  \* initialAvgEntry
    MaxSize,     \* w.maxSize
    MaxFiles,    \* w.maxFiles
    MaxFaults    \* bound: file system operations that fail in a behaviour

ASSUME WriterAssumption ==
    /\ LineSize \in Nat \ {0, 1} /\ InitialAvg \in Nat \ {0}
    /\ MaxSize \in Nat /\ MaxFiles \in Nat /\ MaxFaults \in Nat

VARIABLES
    wpc,           \* where Flush is
    batch,         \* its argument
    written,       \* entries written so far
    totalBytes,    \* bytes written so far
    failed,        \* Flush returns an error
    file,          \* w.file is open
    currentBytes, avgEntrySize,
    old,           \* the file is older than maxAge
    active,        \* contents of the active file; <<>> also when there is none
    rotated,       \* contents of the rotated files, in the order of their names
    faults

flushVars == <<wpc, batch, written, totalBytes, failed>>
fileVars == <<file, currentBytes, avgEntrySize, old>>
diskVars == <<active, rotated>>
writerVars == <<flushVars, fileVars, diskVars, faults>>

\* What one Write leaves in the file: a line, or the beginning of one.  The
\* batch it belongs to is named by the batch's first entry.
Chunk == [entry : Nat, of : Nat, bytes : 1..LineSize]
Whole(c) == c.bytes = LineSize

Size(f) == FoldSeq(LAMBDA c, n : c.bytes + n, 0, f)

WriterTypeOK ==
    /\ wpc \in {"idle", "close", "rename", "open", "retain", "write", "return"}
    /\ batch \in Seq(Nat) /\ written \in 0..Len(batch)
    /\ totalBytes \in Nat /\ failed \in BOOLEAN
    /\ file \in BOOLEAN /\ currentBytes \in Nat /\ avgEntrySize \in Nat \ {0}
    /\ old \in BOOLEAN
    /\ active \in Seq(Chunk)
    /\ rotated \in Seq(Seq(Chunk))
    /\ faults \in 0..MaxFaults

WriterInit ==
    /\ wpc = "idle" /\ batch = <<>> /\ written = 0 /\ totalBytes = 0
    /\ failed = FALSE
    /\ file = TRUE /\ currentBytes = 0 /\ avgEntrySize = InitialAvg
    /\ old = FALSE
    /\ active = <<>> /\ rotated = <<>>
    /\ faults = 0

\* NewJSONLWriter on the directory a former process left: the active file is
\* created or resumed.  Its age is its last modification's.
Reopen ==
    /\ wpc' = "idle" /\ batch' = <<>> /\ written' = 0 /\ totalBytes' = 0
    /\ failed' = FALSE
    /\ file' = TRUE
    /\ currentBytes' = Size(active)
    /\ avgEntrySize' = InitialAvg
    /\ old' \in IF active = <<>> THEN {FALSE} ELSE BOOLEAN
    /\ UNCHANGED <<active, rotated, faults>>

Fault == faults < MaxFaults /\ faults' = faults + 1
ReturnError == wpc' = "return" /\ failed' = TRUE

needsRotation(n) == currentBytes + n * avgEntrySize > MaxSize \/ old

\* Flush(b), which the caller never calls with an empty batch.
FlushCall(b) ==
    /\ wpc = "idle"
    /\ batch' = b /\ written' = 0 /\ totalBytes' = 0 /\ failed' = FALSE
    /\ wpc' = IF needsRotation(Len(b)) THEN "close" ELSE "write"
    /\ UNCHANGED <<fileVars, diskVars, faults>>

\* The file grows older than maxAge.
Age ==
    /\ wpc = "idle" /\ ~old
    /\ old' = TRUE
    /\ UNCHANGED <<flushVars, file, currentBytes, avgEntrySize, diskVars, faults>>

\* rotate: w.file.Close().  Closing fails on a closed file, and a file whose
\* Close fails is closed nevertheless.
RotateClose ==
    /\ wpc = "close"
    /\ file' = FALSE
    /\ \/ file /\ wpc' = "rename" /\ UNCHANGED <<failed, faults>>
       \/ file /\ Fault /\ ReturnError
       \/ ~file /\ ReturnError /\ UNCHANGED faults
    /\ UNCHANGED <<batch, written, totalBytes, currentBytes, avgEntrySize, old,
                   diskVars>>

\* os.Rename to a name with the current time, the last one in the order.
Rename ==
    /\ wpc = "rename"
    /\ rotated' = Append(rotated, active)
    /\ active' = <<>>
    /\ wpc' = "open"
    /\ UNCHANGED <<batch, written, totalBytes, failed, fileVars, faults>>

\* The rename fails; whether the file can be reopened then is not looked at.
RenameFails ==
    /\ wpc = "rename"
    /\ Fault
    /\ ReturnError
    /\ file' \in BOOLEAN
    /\ UNCHANGED <<batch, written, totalBytes, currentBytes, avgEntrySize, old,
                   diskVars>>

\* os.OpenFile creates the new active file.
Open ==
    /\ wpc = "open"
    /\ file' = TRUE
    /\ currentBytes' = 0 /\ old' = FALSE
    /\ wpc' = "retain"
    /\ UNCHANGED <<batch, written, totalBytes, failed, avgEntrySize, active,
                   rotated, faults>>

OpenFails ==
    /\ wpc = "open"
    /\ Fault
    /\ ReturnError
    /\ UNCHANGED <<batch, written, totalBytes, fileVars, diskVars>>

\* Mutants: one file too many is kept; the newest are deleted.
ExcessOffByOne == IF Len(rotated) <= MaxFiles + 1 THEN 0 ELSE Len(rotated) - MaxFiles - 1
DropNewest(k) == rotated' = SubSeq(rotated, 1, Len(rotated) - k)

\* enforceRetention: how many files are too many, and the first k of them gone.
Excess == IF Len(rotated) <= MaxFiles THEN 0 ELSE Len(rotated) - MaxFiles
DropOldest(k) == rotated' = SubSeq(rotated, k + 1, Len(rotated))

Retain ==
    /\ wpc = "retain"
    /\ DropOldest(Excess)
    /\ wpc' = "write"
    /\ UNCHANGED <<batch, written, totalBytes, failed, fileVars, active,
                   faults>>

\* ReadDir or the removal of a file fails: those before it are gone, and the
\* batch is given up though its file is there.
RetainFails ==
    /\ wpc = "retain"
    /\ Fault
    /\ \E k \in 0..Excess : (k < Excess \/ k = 0) /\ DropOldest(k)
    /\ ReturnError
    /\ UNCHANGED <<batch, written, totalBytes, fileVars, active>>

\* Mutant of AfterWrite: rotation is considered for every entry.
AfterWriteRotating ==
    IF written' = Len(batch) THEN "return"
    ELSE IF needsRotation(written' + 1) THEN "close" ELSE "write"

AfterWrite == IF written' = Len(batch) THEN "return" ELSE "write"

\* w.file.Write of the next entry's line; after the last one the estimate and
\* the size are brought up to date.
WriteEntry ==
    /\ wpc = "write"
    /\ file
    /\ active' = Append(active, [entry |-> batch[written + 1], of |-> Head(batch),
                                 bytes |-> LineSize])
    /\ written' = written + 1
    /\ totalBytes' = totalBytes + LineSize
    /\ wpc' = AfterWrite
    /\ IF wpc' = "return"
       THEN /\ avgEntrySize' = (avgEntrySize + totalBytes' \div written') \div 2
            /\ currentBytes' = currentBytes + totalBytes'
       ELSE UNCHANGED <<avgEntrySize, currentBytes>>
    /\ UNCHANGED <<batch, failed, file, old, rotated, faults>>

\* Mutant of CountPartial: the bytes of a write that failed are not counted.
CountWritten(k) == currentBytes' = currentBytes + totalBytes

\* The size after a write that failed when k bytes of the line were out.
CountPartial(k) == currentBytes' = currentBytes + totalBytes + k

WriteFails ==
    /\ wpc = "write"
    /\ file
    /\ Fault
    /\ \E k \in 0..(LineSize - 1) :
         /\ active' = IF k = 0 THEN active
                      ELSE Append(active, [entry |-> batch[written + 1],
                                           of |-> Head(batch), bytes |-> k])
         /\ totalBytes' = totalBytes + k
         /\ CountPartial(k)
    /\ ReturnError
    /\ UNCHANGED <<batch, written, file, avgEntrySize, old, rotated>>

\* The file is closed: an earlier rotation failed and left it so.
WriteClosed ==
    /\ wpc = "write"
    /\ ~file
    /\ ReturnError
    /\ currentBytes' = currentBytes + totalBytes
    /\ UNCHANGED <<batch, written, totalBytes, file, avgEntrySize, old, diskVars,
                   faults>>

WriterStep ==
    \/ RotateClose \/ Rename \/ RenameFails \/ Open \/ OpenFails
    \/ Retain \/ RetainFails \/ WriteEntry \/ WriteFails \/ WriteClosed

\* Everything on disk, oldest first, and the entries that can be read from it.
Disk == Append(rotated, active)
Entry(c) == IF Whole(c) THEN <<c.entry>> ELSE <<>>
EntriesIn(f) == FlattenSeq([i \in DOMAIN f |-> Entry(f[i])])
OnDisk == FlattenSeq([i \in DOMAIN Disk |-> EntriesIn(Disk[i])])
=============================================================================
