---------------------------- MODULE RotateLogger ----------------------------
(***************************************************************************)
(* core/logx/rotatelogger.go: RotateLogger with a SizeLimitRotateRule.     *)
(*                                                                         *)
(* Writers send on a channel, one worker writes and rotates, Close ends    *)
(* it.  Every entry has size 1.  Only the worker touches the current file: *)
(* one call of l.write is one step.  A backup is named by the second in    *)
(* which its file was begun, and a rename replaces a file of that name.    *)
(***************************************************************************)
EXTENDS Clock, Sequences, FiniteSets, Functions

CONSTANTS Entries,        \* what is logged, each by a goroutine of its own
          BufferSize,
          FileSize,       \* maxSize
          MaxBackups,
          RotateTime,     \* bound on the clock
          MaxIoErrors     \* bound on the calls of os that fail

ASSUME LogAssumption == RotateTime \in Nat \ {0}

VARIABLES entry,          \* Write of an entry: out, write, accepted, refused
          logChannel,
          logDone,        \* l.done is closed
          worker,         \* run, drain, over
          closer,         \* Close: out, wait, closed
          logFile,        \* the entries in l.filename, and whether it exists
          fp,             \* l.fp is not nil
          currentSize,
          backup,         \* the second in the name of l.backup
          backups,        \* the backup files: second to entries
          outdated,       \* entries in backups that were deleted
          cleaners,       \* postRotate goroutines still to run
          ioErrors,
          unwritten,      \* history: entries dropped because fp was nil
          hasty,          \* history: a file was rotated in the second it began
          late            \* history: entries accepted after l.done was closed

logFiles == <<logFile, fp, currentSize, backup, backups, outdated, cleaners, ioErrors, unwritten,
              hasty>>
logState == <<entry, logChannel, logDone, worker, closer, late, logFiles>>
logVars == <<logState, clock>>

LogInit ==
  /\ ClockInit
  /\ entry = [e \in Entries |-> "out"]
  /\ logChannel = <<>> /\ logDone = FALSE
  /\ worker = "run" /\ closer = "out"
  /\ logFile = [exists |-> TRUE, has |-> {}] /\ fp = TRUE
  /\ currentSize = 0
  /\ backup = 1 /\ backups = [s \in 1..RotateTime |-> {}]
  /\ outdated = {} /\ cleaners = 0
  /\ ioErrors = 0 /\ unwritten = {} /\ hasty = FALSE /\ late = {}

EntryAt(e, s) == entry' = [entry EXCEPT ![e] = s]

WriteBegins(e) ==
  /\ entry[e] = "out" /\ EntryAt(e, "write")
  /\ UNCHANGED <<logChannel, logDone, worker, closer, late, logFiles, clock>>

\* The two cases of the select in Write; when both are ready either is taken.
WriteSends(e) ==
  /\ entry[e] = "write" /\ Len(logChannel) < BufferSize
  /\ EntryAt(e, "accepted")
  /\ logChannel' = Append(logChannel, e)
  /\ late' = IF logDone THEN late \cup {e} ELSE late
  /\ UNCHANGED <<logDone, worker, closer, logFiles, clock>>

\* Mutant of WriteRefused: Write does not look at l.done.
WriteRefusedNever(e) ==
  /\ entry[e] = "write" /\ logDone /\ worker = "run"
  /\ EntryAt(e, "refused")
  /\ UNCHANGED <<logChannel, logDone, worker, closer, late, logFiles, clock>>

WriteRefused(e) ==
  /\ entry[e] = "write" /\ logDone
  /\ EntryAt(e, "refused")
  /\ UNCHANGED <<logChannel, logDone, worker, closer, late, logFiles, clock>>

\* l.write after a rotation that succeeded or was not due.
WriteEntry(e, has, size) ==
  /\ logFile' = [exists |-> TRUE, has |-> has \cup {e}]
  /\ currentSize' = size + 1

\* The worker takes an entry from the channel.
TakesEntry ==
  /\ worker \in {"run", "drain"} /\ logChannel # <<>>
  /\ logChannel' = Tail(logChannel)
  /\ UNCHANGED <<entry, logDone, worker, closer, late, clock>>

ShallRotate == FileSize < currentSize + 1

WriteOnly ==
  /\ TakesEntry /\ ~ShallRotate /\ fp
  /\ WriteEntry(Head(logChannel), logFile.has, currentSize)
  /\ UNCHANGED <<fp, backup, backups, outdated, cleaners, ioErrors, unwritten, hasty>>

\* os.Rename to the name of l.backup, and postRotate.
Renames ==
  /\ backups' = [backups EXCEPT ![backup] = logFile.has]
  /\ hasty' = (hasty \/ backup = clock)
  /\ cleaners' = cleaners + 1

\* rotate: a file that a failed attempt has already renamed is not there.
RenamesIfThere == IF logFile.exists THEN Renames ELSE UNCHANGED <<backups, hasty, cleaners>>

\* Mutant of RotateAndWrite: l.backup keeps its name.
RotateSameName ==
  /\ TakesEntry /\ ShallRotate
  /\ RenamesIfThere
  /\ fp' = TRUE
  /\ WriteEntry(Head(logChannel), {}, 0)
  /\ UNCHANGED <<backup, outdated, ioErrors, unwritten>>

RotateAndWrite ==
  /\ TakesEntry /\ ShallRotate
  /\ RenamesIfThere
  /\ backup' = clock /\ fp' = TRUE
  /\ WriteEntry(Head(logChannel), {}, 0)
  /\ UNCHANGED <<outdated, ioErrors, unwritten>>

\* Closing the file or renaming it fails: the entry is dropped, and the next
\* one finds that the file must still be rotated.
RotateFails ==
  /\ TakesEntry /\ ShallRotate
  /\ ioErrors < MaxIoErrors /\ ioErrors' = ioErrors + 1
  /\ fp' = FALSE
  /\ unwritten' = unwritten \cup {Head(logChannel)}
  /\ UNCHANGED <<logFile, currentSize, backup, backups, outdated, cleaners, hasty>>

\* os.Create fails after the rename.
CreateFileFails ==
  /\ TakesEntry /\ ShallRotate
  /\ ioErrors < MaxIoErrors /\ ioErrors' = ioErrors + 1
  /\ RenamesIfThere
  /\ logFile' = [exists |-> FALSE, has |-> {}]
  /\ backup' = clock /\ fp' = FALSE
  /\ unwritten' = unwritten \cup {Head(logChannel)}
  /\ UNCHANGED <<currentSize, outdated>>

\* OutdatedFiles: all but the last MaxBackups names.
Outdated ==
  LET there == {s \in DOMAIN backups : backups[s] # {}}
  IN {s \in there : Cardinality({t \in there : t > s}) >= MaxBackups}

MaybeDeleteOutdatedFiles ==
  /\ cleaners > 0 /\ cleaners' = cleaners - 1
  /\ outdated' = outdated \cup UNION {backups[s] : s \in Outdated}
  /\ backups' = [s \in DOMAIN backups |-> IF s \in Outdated THEN {} ELSE backups[s]]
  /\ UNCHANGED <<entry, logChannel, logDone, worker, closer, late, logFile, fp, currentSize, backup,
                 ioErrors, unwritten, hasty, clock>>

SeesDone ==
  /\ worker = "run" /\ logDone /\ worker' = "drain"
  /\ UNCHANGED <<entry, logChannel, logDone, closer, late, logFiles, clock>>

WorkerReturns ==
  /\ worker = "drain" /\ logChannel = <<>> /\ worker' = "over"
  /\ UNCHANGED <<entry, logChannel, logDone, closer, late, logFiles, clock>>

LogClose ==
  /\ closer = "out" /\ closer' = "wait"
  /\ logDone' = TRUE
  /\ UNCHANGED <<entry, logChannel, worker, late, logFiles, clock>>

CloseReturns ==
  /\ closer = "wait" /\ worker = "over" /\ closer' = "closed"
  /\ UNCHANGED <<entry, logChannel, logDone, worker, late, logFiles, clock>>

WorkerSteps == WriteOnly \/ RotateAndWrite \/ RotateFails \/ CreateFileFails \/ SeesDone \/ WorkerReturns

LogNext ==
  \/ \E e \in Entries : WriteBegins(e) \/ WriteSends(e) \/ WriteRefused(e)
  \/ WorkerSteps \/ MaybeDeleteOutdatedFiles \/ LogClose \/ CloseReturns
  \/ Tick(RotateTime) /\ UNCHANGED logState

LogSpec == LogInit /\ [][LogNext]_logVars

\* What happens by itself; calls of Write and Close, time and the clean-up of
\* files are not needed for it.
LogGoes == WorkerSteps \/ CloseReturns \/ \E e \in Entries : WriteSends(e) \/ WriteRefused(e)

-----------------------------------------------------------------------------
\* "avoid losing logs before closing": when the worker has returned, only an
\* entry accepted after Close began can be left in the channel.
DrainedAtClose == worker = "over" => Range(logChannel) \subseteq late

\* An entry that the worker took is in the file or in a backup, or was deleted
\* with an old backup, as long as no call of os failed on it and no file was
\* filled within one second.
Accepted == {e \in Entries : entry[e] = "accepted"}
InBackups == UNION {backups[s] : s \in DOMAIN backups}
Kept == logFile.has \cup InBackups \cup outdated \cup unwritten
EntriesKept == ~hasty => Accepted \ Range(logChannel) \subseteq Kept

\* Close returns, and so does every Write, also one that meets a full channel
\* while the logger is closed: when nothing can happen by itself, nobody waits.
WriteEnds == ~ENABLED LogGoes => \A e \in Entries : entry[e] # "write"
CloseEnds == ~ENABLED LogGoes => closer # "wait"

\* An accepted entry is in the channel or in a file, through rotations and calls
\* of os that fail, and the channel is empty when the worker has returned.
LogComplete == EntriesKept /\ DrainedAtClose

=============================================================================
