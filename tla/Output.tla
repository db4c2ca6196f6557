------------------------------- MODULE Output -------------------------------
(***************************************************************************)
(* The output file of an event: lineWriter and openOutput                  *)
(* (internal/runner/runner.go) and the rotating file that they write to    *)
(* (internal/logging/rotate.go).                                           *)
(*                                                                         *)
(* Every stream of a run, its standard output or error, is read by a       *)
(* goroutine of its own.  The streams of all runs that have the same file  *)
(* share one open file, whose mutex makes a Write with its rotation one    *)
(* turn.  A rotation is a row of renames; kickd may die between two of     *)
(* them, and each of them may fail.                                        *)
(*                                                                         *)
(* Output is measured in units: a line is one unit or several, and only    *)
(* the last one of a line has "end".                                       *)
(***************************************************************************)
EXTENDS Naturals, Sequences, SequencesExt, FiniteSets

CONSTANTS Streams,     \* the streams of all runs
          RunOf,       \* the run of each stream
          MaxUnits,    \* bound: the units that a stream writes
          MaxPending,  \* maxLogLine: more of a line than this goes early
          MaxSize,     \* max_size_mb
          Backups,     \* max_backups
          MaxFailures  \* bound: the renames and opens that fail

ASSUME OutputAssumption ==
  /\ MaxUnits \in Nat /\ MaxPending \in Nat /\ MaxSize \in Nat \ {0}
  /\ Backups \in Nat \ {0} /\ MaxFailures \in Nat
  /\ DOMAIN RunOf = Streams /\ "none" \notin Streams

VARIABLES
  sent,      \* how many units each stream has received from the command
  pending,   \* what the stream holds back until its line ends
  piece,     \* what it is writing to the file; empty when it reads
  phase,     \* where the stream is
  refs,      \* the runs that have the file open
  holder,    \* the stream that has the mutex of the file
  step,      \* where the holder is: "write", or the next step of a rotation
  opened,    \* the file is open; FALSE as well after an open that failed
  size,      \* what kickd takes for the size of the open file
  files,     \* the contents of the file (0) and of its generations
  written,   \* history: every unit that was ever written to the file
  failures   \* how many renames and opens failed

streamVars == <<sent, pending, piece, phase, refs>>
fileVars   == <<holder, step, opened, size, files, written, failures>>
outputVars == <<streamVars, fileVars>>

Unit == [stream : Streams, n : 1 .. MaxUnits, end : BOOLEAN]

OutputTypeOK ==
  /\ sent \in [Streams -> 0 .. MaxUnits]
  /\ pending \in [Streams -> Seq(Unit)] /\ piece \in [Streams -> Seq(Unit)]
  /\ phase \in [Streams -> {"off", "read", "flush", "closed", "without", "lost"}]
  /\ refs \subseteq Range(RunOf)
  /\ holder \in Streams \cup {"none"}
  /\ step \in {"write", "remove", "shift", "open"} \X (0 .. Backups)
  /\ opened \in BOOLEAN /\ size \in Nat /\ failures \in 0 .. MaxFailures
  /\ files \in [0 .. Backups -> Seq(Unit)] /\ written \in Seq(Unit)

OutputInit ==
  /\ sent = [s \in Streams |-> 0]
  /\ pending = [s \in Streams |-> <<>>] /\ piece = [s \in Streams |-> <<>>]
  /\ phase = [s \in Streams |-> "off"] /\ refs = {}
  /\ holder = "none" /\ step = <<"write", 0>> /\ opened = FALSE /\ size = 0
  /\ files = [g \in 0 .. Backups |-> <<>>] /\ written = <<>> /\ failures = 0

StreamsOf(r) == {s \in Streams : RunOf[s] = r}

\* An attempt may fail while the bound allows it.
Fails == failures < MaxFailures /\ failures' = failures + 1
Works == UNCHANGED failures

-----------------------------------------------------------------------------
\* openOutput and release

Enter(r, p) == phase' = [s \in Streams |-> IF RunOf[s] = r THEN p ELSE phase[s]]

\* A run starts: it opens the file, or shares the one that is open.  When the
\* file cannot be opened, the run goes on without it.
OpenOutput(r) ==
  /\ \A s \in StreamsOf(r) : phase[s] = "off"
  /\ \/ /\ refs = {} /\ Fails /\ Enter(r, "without")
        /\ UNCHANGED <<refs, opened, size>>
     \/ /\ Works /\ Enter(r, "read") /\ refs' = refs \cup {r}
        /\ IF refs = {} THEN opened' = TRUE /\ size' = Len(files[0])
                        ELSE UNCHANGED <<opened, size>>
  /\ UNCHANGED <<sent, pending, piece, holder, step, files, written>>

\* Mutant: the first run that ends closes the file.
ReleaseAll(r) ==
  /\ r \in refs /\ \A s \in StreamsOf(r) : phase[s] = "closed"
  /\ refs' = refs \ {r}
  /\ opened' = FALSE
  /\ UNCHANGED <<sent, pending, piece, phase, holder, step, size, files, written, failures>>

\* The last run that writes to the file closes it.
Release(r) ==
  /\ r \in refs /\ \A s \in StreamsOf(r) : phase[s] = "closed"
  /\ refs' = refs \ {r}
  /\ opened' = (opened /\ refs' # {})
  /\ UNCHANGED <<sent, pending, piece, phase, holder, step, size, files, written, failures>>

-----------------------------------------------------------------------------
\* lineWriter

LastEnd(q) == LET ends == {0} \cup {k \in 1 .. Len(q) : q[k].end}
              IN CHOOSE k \in ends : \A j \in ends : j <= k

\* Mutant: what was read goes to the file as it comes.
GoesAtOnce(q) == Len(q)

\* How much of q goes to the file now: whole lines, or a line that is too long.
Goes(q) == IF LastEnd(q) = 0 /\ Len(q) > MaxPending THEN Len(q) ELSE LastEnd(q)

\* A chunk says of each of its units whether a line ends there.
Chunks(s) == UNION {[1 .. k -> BOOLEAN] : k \in 1 .. (MaxUnits - sent[s])}

Units(s, chunk) ==
  [k \in 1 .. Len(chunk) |-> [stream |-> s, n |-> sent[s] + k, end |-> chunk[k]]]

\* Mutant: a line that went early is kept as well.
ReceiveTwice(s) ==
  /\ phase[s] = "read" /\ piece[s] = <<>>
  /\ \E chunk \in Chunks(s) :
       LET q == pending[s] \o Units(s, chunk)
       IN /\ piece' = [piece EXCEPT ![s] = SubSeq(q, 1, Goes(q))]
          /\ pending' = [pending EXCEPT ![s] = SubSeq(q, LastEnd(q) + 1, Len(q))]
          /\ sent' = [sent EXCEPT ![s] = @ + Len(chunk)]
  /\ UNCHANGED <<phase, refs, fileVars>>

\* Write: the goroutine of a stream read a chunk of the command's output.
Receive(s) ==
  /\ phase[s] = "read" /\ piece[s] = <<>>
  /\ \E chunk \in Chunks(s) :
       LET q == pending[s] \o Units(s, chunk)
       IN /\ piece' = [piece EXCEPT ![s] = SubSeq(q, 1, Goes(q))]
          /\ pending' = [pending EXCEPT ![s] = SubSeq(q, Goes(q) + 1, Len(q))]
          /\ sent' = [sent EXCEPT ![s] = @ + Len(chunk)]
  /\ UNCHANGED <<phase, refs, fileVars>>

\* flush, once the output is at its end: the rest goes with a line end of its own.
Flush(s) ==
  /\ phase[s] = "read" /\ piece[s] = <<>>
  /\ phase' = [phase EXCEPT ![s] = "flush"]
  /\ LET q == pending[s] IN
     piece' = [piece EXCEPT ![s] =
                 [k \in 1 .. Len(q) |-> IF k = Len(q) THEN [q[k] EXCEPT !.end = TRUE] ELSE q[k]]]
  /\ pending' = [pending EXCEPT ![s] = <<>>]
  /\ UNCHANGED <<sent, refs, fileVars>>

Flushed(s) ==
  /\ phase[s] = "flush" /\ piece[s] = <<>>
  /\ phase' = [phase EXCEPT ![s] = "closed"]
  /\ UNCHANGED <<sent, pending, piece, refs, fileVars>>

-----------------------------------------------------------------------------
\* rotatingFile

Full(q) == size > 0 /\ size + Len(q) > MaxSize

\* Write takes the mutex; a file that the piece does not fit in is rotated first.
TakeTurn(s) ==
  /\ piece[s] # <<>> /\ holder = "none"
  /\ holder' = s
  /\ IF Full(piece[s])
       THEN \/ opened /\ opened' = FALSE /\ step' = <<"remove", Backups>>
            \/ ~opened /\ step' = <<"open", 0>> /\ UNCHANGED opened
       ELSE step' = <<"write", 0>> /\ UNCHANGED opened
  /\ UNCHANGED <<streamVars, size, files, written, failures>>

\* The oldest generation is removed.
RemoveOldest ==
  /\ holder # "none" /\ step[1] = "remove"
  /\ \/ Works /\ files' = [files EXCEPT ![Backups] = <<>>]
     \/ Fails /\ UNCHANGED files
  /\ step' = <<"shift", Backups - 1>>
  /\ UNCHANGED <<streamVars, holder, opened, size, written>>

Moved(g) ==
  IF g > 0 /\ files[g] = <<>> THEN files
  ELSE [files EXCEPT ![g + 1] = files[g], ![g] = <<>>]

Turned(g) == IF g = 0 THEN <<"open", 0>> ELSE <<"shift", g - 1>>

\* Mutant: the generations shift from the newest to the oldest.
RenameUpwards ==
  /\ holder # "none" /\ step[1] = "shift"
  /\ LET g == Backups - 1 - step[2] IN
     \/ Works /\ files' = Moved(g)
     \/ Fails /\ UNCHANGED files
  /\ step' = Turned(step[2])
  /\ UNCHANGED <<streamVars, holder, opened, size, written>>

\* A generation, and in the end the file itself, is renamed to the next number.
\* The rotation goes on when a rename fails.
Rename ==
  /\ holder # "none" /\ step[1] = "shift"
  /\ \/ Works /\ files' = Moved(step[2])
     \/ Fails /\ UNCHANGED files
  /\ step' = Turned(step[2])
  /\ UNCHANGED <<streamVars, holder, opened, size, written>>

\* The file is opened again, whatever failed before.
Reopen ==
  /\ holder # "none" /\ step[1] = "open"
  /\ \/ Works /\ opened' = TRUE /\ size' = Len(files[0])
     \/ Fails /\ UNCHANGED <<opened, size>>
  /\ step' = <<"write", 0>>
  /\ UNCHANGED <<streamVars, holder, files, written>>

\* The piece is appended; it is lost when the file is not open.
WritePiece ==
  /\ holder # "none" /\ step[1] = "write"
  /\ IF opened
       THEN /\ files' = [files EXCEPT ![0] = @ \o piece[holder]]
            /\ written' = written \o piece[holder]
            /\ size' = size + Len(piece[holder])
       ELSE UNCHANGED <<files, written, size>>
  /\ piece' = [piece EXCEPT ![holder] = <<>>]
  /\ holder' = "none"
  /\ UNCHANGED <<sent, pending, phase, refs, step, opened, failures>>

\* kickd dies.  The files stay as they are; a later start runs other runs.
OutputCrash ==
  /\ phase' = [s \in Streams |-> IF phase[s] = "off" THEN "off" ELSE "lost"]
  /\ pending' = [s \in Streams |-> <<>>] /\ piece' = [s \in Streams |-> <<>>]
  /\ refs' = {} /\ holder' = "none" /\ step' = <<"write", 0>>
  /\ opened' = FALSE /\ size' = 0
  /\ phase' # phase
  /\ UNCHANGED <<sent, files, written, failures>>

-----------------------------------------------------------------------------
Rotate == RemoveOldest \/ Rename \/ Reopen

Stream(s) == Receive(s) \/ Flush(s) \/ Flushed(s) \/ TakeTurn(s)

OutputNext ==
  \/ \E r \in Range(RunOf) : OpenOutput(r) \/ Release(r)
  \/ \E s \in Streams : Stream(s)
  \/ Rotate \/ WritePiece \/ OutputCrash

OutputSpec == OutputInit /\ [][OutputNext]_outputVars

-----------------------------------------------------------------------------
\* What the code promises

\* What is left of the output, from the oldest generation to the file.
Kept == FlattenSeq([k \in 1 .. Backups + 1 |-> files[Backups + 1 - k]])

\* docs/settings/log.md: the generations are in the order of their numbers, and
\* "files beyond log.max_backups are deleted".  As long as no rename fails, what
\* is left is the end of everything that was written, without a gap, also when
\* kickd died between two renames; and nothing is deleted before there are
\* max_backups generations, unless kickd died (rotate).
KeptIsSuffix ==
  failures = 0 =>
    /\ IsSuffix(Kept, written)
    /\ (Kept # written /\ step[1] = "write" /\ \A s \in Streams : phase[s] # "lost") =>
         \A g \in 1 .. Backups : files[g] # <<>>

Position(u) == CHOOSE i \in 1 .. Len(written) : written[i] = u

\* Failed renames may lose generations, but never put the output out of order,
\* never keep a piece twice and never lose the newest one ("the agent keeps
\* writing to the same file", rotate).
KeptInOrder ==
  /\ \A i, j \in 1 .. Len(Kept) : i < j => Position(Kept[i]) < Position(Kept[j])
  /\ written # <<>> => Kept # <<>> /\ Last(Kept) = Last(written)

Follows(u, v) == u.stream = v.stream /\ v.n = u.n + 1

\* Every unit of f ends a line, is followed by the next of its stream, or ends a
\* piece that went early.
Whole(f) ==
  \A i \in 1 .. Len(f) :
    \/ f[i].end
    \/ i < Len(f) /\ Follows(f[i], f[i + 1])
    \/ i > MaxPending /\ \A k \in i - MaxPending .. i - 1 : ~f[k].end /\ Follows(f[k], f[k + 1])

\* docs/settings/events.md: "kickd appends each line of standard output and
\* standard error to path, whole lines at a time".  Neither another stream nor
\* a rotation splits a line, unless the line is longer than maxLogLine
\* (lineWriter, rotatingFile.Write).
LinesWhole == \A g \in 0 .. Backups : Whole(files[g])

\* The whole output of a run that ended is in the file, once and in order, also
\* when another run that shared the file ended before (openOutput, flush).
AllWritten ==
  \A s \in Streams : phase[s] = "closed" /\ failures = 0 =>
    LET mine == {i \in 1 .. Len(written) : written[i].stream = s} IN
    /\ \A k \in 1 .. sent[s] : \E i \in mine : written[i].n = k
    /\ \A i, j \in mine : i < j => written[i].n < written[j].n
=============================================================================
