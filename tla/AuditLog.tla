------------------------------ MODULE AuditLog ------------------------------
(***************************************************************************)
(* src/security/audit_logger.py and the handlers of src/main.py that use   *)
(* it: each does its operation, appends an entry to the audit file and     *)
(* answers.  An entry holds the hash of the one its process wrote before,  *)
(* and a process that starts takes both number and hash from the last line *)
(* of the file.                                                            *)
(*                                                                         *)
(* log() does not suspend while it holds its lock, so an entry is one      *)
(* step.  A hash is told from all others: it is the number of the entry    *)
(* among all that were ever made, and 0 is "genesis".  What an entry says  *)
(* is left out.                                                            *)
(*                                                                         *)
(* A write may fail and leave nothing, a piece of the line or all but its  *)
(* newline behind, and a process may crash in one.  MaxEntries bounds the  *)
(* entries made, MaxFaults the failures and crashes.                       *)
(***************************************************************************)
EXTENDS Integers, Sequences, SequencesExt, FiniteSets

CONSTANTS Writer, Request, MaxEntries, MaxFaults

Idle == "idle"

ASSUME AuditAssumption ==
  /\ IsFiniteSet(Writer) /\ Idle \notin Writer
  /\ MaxEntries \in Nat
  /\ MaxFaults \in Nat

VARIABLES
  file,       \* the lines of the log file
  cut,        \* its last line has no newline
  open,       \* the processes that run
  seq,        \* _seq of each process
  lastHash,   \* _last_hash
  request,    \* how far the handler of each request has come, and in which process
  made,       \* entries made so far
  answered,   \* hashes of the entries whose request was answered
  torn,       \* writes that left something else than a line behind
  failed,     \* writes that failed in a process that goes on
  crashes     \* crashes so far

fileVars == <<file, cut>>
memory == <<open, seq, lastHash>>
history == <<answered, torn, failed, crashes>>
auditVars == <<fileVars, memory, request, made, history>>

Genesis == 0
Entry == [seq : Nat \ {0}, prev : Nat, hash : Nat \ {0}]

\* A line that is no JSON: a piece of an entry, or two of them glued together
Rubble == [seq |-> 0, prev |-> 0, hash |-> 0]

AuditInit ==
  /\ file = <<>>
  /\ cut = FALSE
  /\ open = {}
  /\ seq = [w \in Writer |-> 0]
  /\ lastHash = [w \in Writer |-> Genesis]
  /\ request = [q \in Request |-> Idle]
  /\ made = 0
  /\ answered = {}
  /\ torn = 0
  /\ failed = 0
  /\ crashes = 0

-----------------------------------------------------------------------------
(* The file *)

\* opened to be written anew
BugWritten(line) == <<line>>
\* What open(..., "a") and write(text) make of the file: the text is a line of
\* its own, unless the line before it was cut short.
Written(line) == IF cut THEN Front(file) \o <<Rubble>> ELSE Append(file, line)

\* every entry has a hash of its own, which is compared with no other
BugChained(lines) == \A i \in 1..Len(lines) : lines[i] # Rubble
\* verify_integrity finds nothing: every line is an entry that holds the hash of the
\* line before it.  On a line that is no JSON it raises.
Chained(lines) ==
  \A i \in 1..Len(lines) :
    /\ lines[i] # Rubble
    /\ lines[i].prev = IF i = 1 THEN Genesis ELSE lines[i - 1].hash

\* numbers go on, but a chain starts anew with the process
BugRestored(w) ==
  /\ seq' = [seq EXCEPT ![w] = IF file = <<>> THEN 0 ELSE Last(file).seq]
  /\ lastHash' = [lastHash EXCEPT ![w] = Genesis]
\* _restore_state.  A last line that cannot be read is no entry and counts as none.
Restored(w) ==
  /\ seq' = [seq EXCEPT ![w] = IF file = <<>> THEN 0 ELSE Last(file).seq]
  /\ lastHash' = [lastHash EXCEPT ![w] = IF file = <<>> THEN Genesis ELSE Last(file).hash]

-----------------------------------------------------------------------------
(* A process and its handlers *)

\* AuditLogger.__init__ of a new process
Open(w) ==
  /\ w \notin open
  /\ open' = open \cup {w}
  /\ Restored(w)
  /\ UNCHANGED <<fileVars, request, made, history>>

\* The operation of a request takes effect: acquire, release, produce or write.
Operate(w, q) ==
  /\ w \in open
  /\ request[q] = Idle
  /\ made + Cardinality({r \in Request : request[r] # Idle}) < MaxEntries
  /\ request' = [request EXCEPT ![q] = w]
  /\ UNCHANGED <<fileVars, memory, made, history>>

\* log(), up to the write: number and hash move on.
NewEntry(w) ==
  /\ made' = made + 1
  /\ seq' = [seq EXCEPT ![w] = @ + 1]
  /\ lastHash' = [lastHash EXCEPT ![w] = made']
  /\ UNCHANGED open

EntryOf(w) == [seq |-> seq[w] + 1, prev |-> lastHash[w], hash |-> made + 1]

\* What a write may leave behind when it does not go through
Pieces(line) == {<<file, cut>>, <<Written(Rubble), TRUE>>, <<Written(line), TRUE>>}

\* The handler goes on: log() writes the entry and the client has its answer.
Record(w, q) ==
  /\ request[q] = w
  /\ NewEntry(w)
  /\ file' = Written(EntryOf(w))
  /\ cut' = FALSE
  /\ answered' = answered \cup {made'}
  /\ request' = [request EXCEPT ![q] = Idle]
  /\ UNCHANGED <<torn, failed, crashes>>

\* The write fails in a process that goes on: log() raises, and the client has an
\* error for what was done.
RecordFails(w, q) ==
  /\ failed + crashes < MaxFaults
  /\ request[q] = w
  /\ NewEntry(w)
  /\ \E left \in Pieces(EntryOf(w)) :
       /\ file' = left[1]
       /\ cut' = left[2]
       /\ torn' = IF left[1] = file THEN torn ELSE torn + 1
  /\ failed' = failed + 1
  /\ request' = [request EXCEPT ![q] = Idle]
  /\ UNCHANGED <<answered, crashes>>

Dies(w) ==
  /\ failed + crashes < MaxFaults
  /\ w \in open
  /\ open' = open \ {w}
  /\ crashes' = crashes + 1
  /\ request' = [q \in Request |-> IF request[q] = w THEN Idle ELSE request[q]]
  /\ UNCHANGED <<seq, lastHash, answered, failed>>

\* The process ends between two writes ...
Crash(w) ==
  /\ Dies(w)
  /\ UNCHANGED <<fileVars, made, torn>>

\* ... or in one.
CrashInWrite(w) ==
  /\ \E q \in Request : request[q] = w
  /\ Dies(w)
  /\ made' = made + 1
  /\ \E left \in Pieces(EntryOf(w)) :
       /\ file' = left[1]
       /\ cut' = left[2]
       /\ torn' = torn + 1
       /\ left[1] # file

AuditNext ==
  \E w \in Writer :
    \/ Open(w) \/ Crash(w) \/ CrashInWrite(w)
    \/ \E q \in Request : Operate(w, q) \/ Record(w, q) \/ RecordFails(w, q)

AuditSpec == AuditInit /\ [][AuditNext]_auditVars

-----------------------------------------------------------------------------
(* Properties *)

\* Every variable keeps the shape the code gives it.
AuditTypeOK ==
  /\ file \in Seq(Entry \cup {Rubble})
  /\ cut \in BOOLEAN
  /\ cut => file # <<>>
  /\ open \subseteq Writer
  /\ seq \in [Writer -> Nat]
  /\ lastHash \in [Writer -> Nat]
  /\ request \in [Request -> Writer \cup {Idle}]
  /\ made \in Nat
  /\ answered \subseteq 1..made
  /\ torn \in Nat
  /\ failed \in Nat
  /\ crashes \in Nat

\* As long as no write has failed the log verifies, its entries are numbered by their
\* lines and the process counts them right, over any number of crashes between
\* writes and restarts, with one process to a file (_restore_state, log).
ChainHolds ==
  torn = 0 /\ failed = 0 /\ Cardinality(Writer) = 1 =>
    /\ Chained(file)
    /\ \A i \in 1..Len(file) : file[i].seq = i
    /\ \A w \in open : seq[w] = Len(file)

Recorded == {file[i].hash : i \in 1..Len(file)}

\* A request that was answered is on record, although the file is appended to after
\* anything that failed writes and crashes left there: a torn line costs no more than
\* the one entry that is written next, at its end (log).
AnsweredIsRecorded == Cardinality(answered \ Recorded) <= torn

\* A log that verifies does not when any of its entries are missing, repeated or in
\* another order: of all selections of its lines only its beginnings verify, so that
\* no loss but that of the newest entries goes unseen ("tamper-evident",
\* verify_integrity).
LossIsSeen ==
  Chained(file) =>
    \A n \in 0..Len(file) : \A kept \in [1..n -> 1..Len(file)] :
      Chained([i \in 1..n |-> file[kept[i]]]) => \A i \in 1..n : kept[i] = i
=============================================================================
