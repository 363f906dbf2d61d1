------------------------------ MODULE AuditLog ------------------------------
(***************************************************************************)
(* The audit log, src/mcp_audit.c: every write tool appends one entry to a *)
(* file that is renamed to a backup when it has grown to MAX_FILE.  The    *)
(* mutex orders the threads of one process; the file is shared by all the  *)
(* processes of a user, and every call on it is a step of its own.         *)
(*                                                                         *)
(* A file is a sequence of entries, its size their number; entries are     *)
(* numbered in the order in which they are written.  The two names lead to *)
(* files.  On POSIX a thread that has opened a file keeps it when it is    *)
(* renamed; on Win32 a file that somebody has open cannot be renamed.      *)
(***************************************************************************)
EXTENDS Naturals, Sequences, FiniteSets

CONSTANTS
    Writers,     \* threads that call mcp_audit_append
    ProcessOf,   \* writer -> the process it belongs to
    NoWriter,
    MAX_FILE,    \* MAX_FILE_BYTES, in entries
    MaxEntries   \* bound: entries written

Processes == {ProcessOf[w] : w \in Writers}

ASSUME AuditAssumption ==
    /\ NoWriter \notin Writers /\ IsFiniteSet(Processes)
    /\ MAX_FILE \in Nat \ {0} /\ MaxEntries \in Nat

VARIABLES
    os,         \* posix or win32
    files,      \* the files there have been, by number
    current,    \* the file that mcp-audit.log leads to, or 0
    backup,     \* the file that mcp-audit.log.1 leads to, or 0
    mutex,      \* process -> the writer that holds g_state.mutex, or NoWriter
    wpc,        \* writer -> where it is in mcp_audit_append
    opened,     \* writer -> the file it has open, or 0
    written,    \* entries written so far
    overlapped  \* two processes have been in mcp_audit_append at a time

auditVars == <<os, files, current, backup, mutex, wpc, opened, written, overlapped>>

AuditInit ==
    /\ os \in {"posix", "win32"}
    /\ files = <<>> /\ current = 0 /\ backup = 0
    /\ mutex = [q \in Processes |-> NoWriter]
    /\ wpc = [w \in Writers |-> "idle"] /\ opened = [w \in Writers |-> 0]
    /\ written = 0 /\ overlapped = FALSE

Goes(w, from, to) == wpc[w] = from /\ wpc' = [wpc EXCEPT ![w] = to]
Busy(w) == wpc[w] # "idle"
SizeOf(f) == IF f = 0 THEN 0 ELSE Len(files[f])

\* mcp_audit_append takes the mutex.  (A process without a home directory has
\* no path and drops its entries here.)
AuditLock(w) ==
    /\ written < MaxEntries /\ mutex[ProcessOf[w]] = NoWriter
    /\ Goes(w, "idle", "stat")
    /\ mutex' = [mutex EXCEPT ![ProcessOf[w]] = w]
    /\ overlapped' = (overlapped \/ \E v \in Writers : Busy(v))
    /\ UNCHANGED <<os, files, current, backup, opened, written>>

\* Mutant of NeedsRotation: the file is never rotated.
NeedsRotationNever == FALSE

\* Mutant of NeedsRotation: any file is rotated.
NeedsRotationAlways == current # 0

NeedsRotation == SizeOf(current) >= MAX_FILE

\* rotate_if_needed_locked: stat ...
AuditStat(w) ==
    /\ Goes(w, "stat", IF NeedsRotation THEN "remove" ELSE "open")
    /\ UNCHANGED <<os, files, current, backup, mutex, opened, written, overlapped>>

\* ... remove the old backup ...
AuditRemove(w) ==
    /\ Goes(w, "remove", "rename")
    /\ backup' = 0
    /\ UNCHANGED <<os, files, current, mutex, opened, written, overlapped>>

\* ... and rename.  It fails, and the file stays, when there is no file by
\* that name, on Win32 also when the file is open or there is a backup again.
Renames ==
    /\ current # 0
    /\ os = "win32" => backup = 0 /\ \A v \in Writers : opened[v] # current

AuditRename(w) ==
    /\ Goes(w, "rename", "open")
    /\ backup' = IF Renames THEN current ELSE backup
    /\ current' = IF Renames THEN 0 ELSE current
    /\ UNCHANGED <<os, files, mutex, opened, written, overlapped>>

\* fopen to append, which makes the file when there is none.
AuditOpen(w) ==
    /\ Goes(w, "open", "write")
    /\ files' = IF current = 0 THEN Append(files, <<>>) ELSE files
    /\ current' = IF current = 0 THEN Len(files') ELSE current
    /\ opened' = [opened EXCEPT ![w] = current']
    /\ UNCHANGED <<os, backup, mutex, written, overlapped>>

Unlock(w) == mutex' = [mutex EXCEPT ![ProcessOf[w]] = NoWriter]

\* fopen fails: the entry is dropped.
AuditOpenFails(w) ==
    /\ Goes(w, "open", "idle") /\ Unlock(w)
    /\ UNCHANGED <<os, files, current, backup, opened, written, overlapped>>

\* The entry goes to the end of the file that is open, by whatever name.
AuditWrite(w) ==
    /\ Goes(w, "write", "idle") /\ Unlock(w)
    /\ files' = [files EXCEPT ![opened[w]] = Append(@, written + 1)]
    /\ written' = written + 1
    /\ opened' = [opened EXCEPT ![w] = 0]
    /\ UNCHANGED <<os, current, backup, overlapped>>

\* A process crashes in the middle of an append, and is started again.
AuditCrash(q) ==
    /\ mutex[q] # NoWriter
    /\ wpc' = [w \in Writers |-> IF ProcessOf[w] = q THEN "idle" ELSE wpc[w]]
    /\ opened' = [w \in Writers |-> IF ProcessOf[w] = q THEN 0 ELSE opened[w]]
    /\ mutex' = [mutex EXCEPT ![q] = NoWriter]
    /\ UNCHANGED <<os, files, current, backup, written, overlapped>>

AuditNext ==
    \/ \E w \in Writers :
          \/ AuditLock(w) \/ AuditStat(w) \/ AuditRemove(w) \/ AuditRename(w)
          \/ AuditOpen(w) \/ AuditOpenFails(w) \/ AuditWrite(w)
    \/ \E q \in Processes : AuditCrash(q)

AuditSpec == AuditInit /\ [][AuditNext]_auditVars

-----------------------------------------------------------------------------
EntriesOf(f) == IF f = 0 THEN {} ELSE {files[f][i] : i \in 1..Len(files[f])}
Kept == EntriesOf(current) \cup EntriesOf(backup)

\* The last MAX_FILE entries are in the log or its backup at every moment of a
\* rotation, and after a crash in the middle of one, as long as the appends of
\* different processes do not overlap (rotate_if_needed_locked).
RecentKept ==
    overlapped \/ \A n \in 1..written : n + MAX_FILE > written => n \in Kept

\* Each of the two files stays within MAX_FILE and one entry for each process,
\* however the appends of the processes overlap on POSIX, and on Win32 when they
\* do not (rotate_if_needed_locked, "to bound disk use").
DiskBounded ==
    \/ os = "win32" /\ overlapped
    \/ \A f \in {current, backup} : SizeOf(f) < MAX_FILE + Cardinality(Processes)

\* include/displayxr_mcp/mcp_audit.h:18: "Only the current and one prior log are
\* kept": the last MAX_FILE entries are, whoever wrote them.
RecentKeptByAll ==
    \A n \in 1..written : n + MAX_FILE > written => n \in Kept

=============================================================================
