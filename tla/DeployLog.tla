----------------------------- MODULE DeployLog -----------------------------
(***************************************************************************)
(* The log of one deployment: buffered writers, the table, a reader that   *)
(* follows it and the retention that deletes it (engine/logs.py,           *)
(* append_logs, read_logs, last_log_seq and delete_old_logs of             *)
(* repositories/deployments.py).                                           *)
(*                                                                         *)
(* A build, a promotion, a rollback and a pause each resume a writer of    *)
(* their own, which numbers its lines in memory.  A flush takes the buffer *)
(* before it inserts, and an insert of a number that is taken does nothing.*)
(***************************************************************************)
EXTENDS Integers, Sequences

CONSTANTS
    Writer,      \* log writers, each of one operation
    MaxLines,    \* bound: lines a writer writes
    MaxBuffered, \* MAX_BUFFERED
    MaxSeq,      \* bound: numbers given
    NoLine

ASSUME DeployLogAssumption ==
    MaxLines \in Nat \ {0} /\ MaxBuffered \in Nat \ {0} /\ MaxSeq \in Nat

VARIABLES
    logged,  \* the table: the line of each number, or NoLine
    writer,  \* each LogWriter
    reader,  \* a follower: its cursor, and the lines it has shown
    expired  \* the log has been deleted by its age

logVars == <<logged, writer, reader, expired>>

Line == Writer \X (1..MaxLines)

ASSUME NoLineAssumption == NoLine \notin Line

Entry == (1..MaxSeq) \X Line

WriterState ==
    [at : {"closed", "open", "closing"}, seq : 0..MaxSeq, wrote : 0..MaxLines,
     buffer : Seq(Entry), sent : Seq(Entry), sound : BOOLEAN]

Closed == [at |-> "closed", seq |-> 0, wrote |-> 0, buffer |-> <<>>, sent |-> <<>>,
           sound |-> FALSE]

LastSeq == CHOOSE n \in 0..MaxSeq :
              /\ n # 0 => logged[n] # NoLine
              /\ \A q \in n + 1..MaxSeq : logged[q] = NoLine

Open == {w \in Writer : writer[w].at # "closed"}

\* Variant: numbering starts over.
StartOver == 0

Start == LastSeq

\* resume: the next number is the table's.  Writers that overlap are not sound.
Resumes(w) ==
    /\ writer[w] = Closed
    /\ writer' = [x \in Writer |->
                    IF x = w THEN [Closed EXCEPT !.at = "open", !.seq = Start,
                                                 !.sound = Open = {}]
                    ELSE [writer[x] EXCEPT !.sound = @ /\ x \notin Open]]
    /\ UNCHANGED <<logged, reader, expired>>

Took(r) == [r EXCEPT !.sent = @ \o r.buffer, !.buffer = <<>>]

\* write: numbered and buffered, and flushed when the buffer is full or its
\* time is up.
Writes(w) ==
    LET r == writer[w]
        put == [r EXCEPT !.seq = @ + 1, !.wrote = @ + 1,
                         !.buffer = Append(@, <<r.seq + 1, <<w, r.wrote + 1>>>>)]
    IN  /\ r.at = "open" /\ r.sent = <<>> /\ r.wrote < MaxLines /\ r.seq < MaxSeq
        /\ \/ writer' = [writer EXCEPT ![w] = Took(put)]
           \/ /\ Len(put.buffer) < MaxBuffered
              /\ writer' = [writer EXCEPT ![w] = put]
        /\ UNCHANGED <<logged, reader, expired>>

\* The last flush, which every operation ends with.
Flushes(w) ==
    /\ writer[w].at = "open" /\ writer[w].sent = <<>>
    /\ writer' = [writer EXCEPT ![w] = [Took(@) EXCEPT !.at = "closing"]]
    /\ UNCHANGED <<logged, reader, expired>>

Sent(w) == {writer[w].sent[i] : i \in DOMAIN writer[w].sent}

\* append_logs: one transaction; ON CONFLICT DO NOTHING.
Inserted(entries) ==
    [q \in 1..MaxSeq |->
        IF logged[q] = NoLine /\ \E e \in entries : e[1] = q
        THEN (CHOOSE e \in entries : e[1] = q)[2]
        ELSE logged[q]]

Inserts(w) ==
    /\ writer[w].sent # <<>>
    /\ logged' = Inserted(Sent(w))
    /\ writer' = [writer EXCEPT ![w].sent = <<>>]
    /\ UNCHANGED <<reader, expired>>

\* The insert raises, or is cancelled with the build it logs: the batch has
\* left the buffer and is gone.
Loses(w) ==
    /\ writer[w].sent # <<>>
    /\ writer' = [writer EXCEPT ![w].sent = <<>>, ![w].sound = FALSE]
    /\ UNCHANGED <<logged, reader, expired>>

FlushedAll(r) == r.at = "closing" /\ r.sent = <<>>

Ended(r) == [r EXCEPT !.at = "closed", !.sent = <<>>, !.buffer = <<>>,
                      !.sound = @ /\ FlushedAll(r)]

\* The operation ends, or its process dies with what is buffered.
Ends(w) ==
    /\ writer[w].at # "closed"
    /\ writer' = [writer EXCEPT ![w] = Ended(@)]
    /\ UNCHANGED <<logged, reader, expired>>

\* One poll of a follower: the lines after its cursor, in order.
Reads ==
    /\ LastSeq > reader.cursor
    /\ reader' = [cursor |-> LastSeq,
                  shown |-> reader.shown \cup
                      {logged[q] : q \in {p \in reader.cursor + 1..MaxSeq :
                                             logged[p] # NoLine}}]
    /\ UNCHANGED <<logged, writer, expired>>

\* delete_old_logs, of a deployment that is over and not in production; a
\* rollback to it may be writing.
Expires ==
    /\ ~expired
    /\ expired' = TRUE
    /\ logged' = [q \in 1..MaxSeq |-> NoLine]
    /\ UNCHANGED <<writer, reader>>

LogNext ==
    \/ \E w \in Writer : Resumes(w) \/ Writes(w) \/ Flushes(w) \/ Inserts(w) \/ Loses(w)
                            \/ Ends(w)
    \/ Reads
    \/ Expires

LogInit ==
    /\ logged = [q \in 1..MaxSeq |-> NoLine]
    /\ writer = [w \in Writer |-> Closed]
    /\ reader = [cursor |-> 0, shown |-> {}]
    /\ expired = FALSE

LogTypeOK ==
    /\ logged \in [1..MaxSeq -> Line \cup {NoLine}]
    /\ writer \in [Writer -> WriterState]
    /\ reader \in [cursor : 0..MaxSeq, shown : SUBSET Line]
    /\ expired \in BOOLEAN

-----------------------------------------------------------------------------
\* No line is lost to another operation: what a writer that overlapped with
\* no other wrote is all in the table when it ends, and no follower whose
\* cursor has passed it missed it, though earlier writers overlapped, died or
\* lost batches before it resumed their numbering.
LogKept ==
    \A w \in Writer :
        writer[w].at = "closed" /\ writer[w].sound /\ ~expired =>
            \A i \in 1..writer[w].wrote :
                \E q \in 1..MaxSeq :
                    /\ logged[q] = <<w, i>>
                    /\ q <= reader.cursor => <<w, i>> \in reader.shown
=============================================================================
