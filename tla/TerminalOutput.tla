----------------------------- MODULE TerminalOutput -----------------------------
(***************************************************************************)
(* The output store of one terminal (src-tauri/src/terminal_output.rs): a  *)
(* journal of numbered chunks, a checkpoint of the screen that stands for  *)
(* everything up to its watermark, and a bound on what the journal keeps.  *)
(*                                                                         *)
(* The bytes of a chunk are its sequence number; a chunk's size is all the *)
(* bound depends on.  The reader never appends an empty chunk.             *)
(***************************************************************************)
EXTENDS Integers, Sequences

CONSTANT JournalBytes     \* limits.journal_bytes

ASSUME JournalBytesAssumption == JournalBytes \in Nat \ {0}

\* The client never sends the snapshot of an empty screen.
NoCheckpoint == <<>>

NewStore ==
    [next |-> 1, journal |-> <<>>, checkpoint |-> NoCheckpoint,
     watermark |-> 0, ack |-> 0, gap |-> FALSE]

RetainedBytes(journal) ==
    LET bytes[n \in 0 .. Len(journal)] == IF n = 0 THEN 0 ELSE bytes[n - 1] + journal[n].size
    IN  bytes[Len(journal)]

Fits(journal) == RetainedBytes(journal) <= JournalBytes

DropFirst(journal, n) == SubSeq(journal, n + 1, Len(journal))

\* The entries at the front up to a sequence; entries are in the order of their
\* sequences, so the others are those past it.
UpTo(journal, sequence) ==
    CHOOSE n \in 0 .. Len(journal) :
        /\ \A i \in 1 .. n : journal[i].sequence <= sequence
        /\ n < Len(journal) => journal[n + 1].sequence > sequence

\* What is dropped is the shortest prefix that brings the journal within its
\* bound; it is a gap when a dropped chunk is not in the checkpoint.
Excess(journal) ==
    CHOOSE n \in 0 .. Len(journal) :
        /\ Fits(DropFirst(journal, n))
        /\ \A m \in 0 .. n - 1 : ~Fits(DropFirst(journal, m))

EnforceJournalBound(store) ==
    LET excess == Excess(store.journal)
    IN  [store EXCEPT
            !.journal = DropFirst(store.journal, excess),
            !.gap = @ \/ \E i \in 1 .. excess : store.journal[i].sequence > store.watermark]

AppendChunk(store, size) ==
    EnforceJournalBound(
        [store EXCEPT !.next = @ + 1,
                      !.journal = Append(@, [sequence |-> store.next, size |-> size])])

AcceptsWatermark(store, watermark) ==
    watermark >= store.watermark /\ watermark < store.next

\* The code pops covered entries from the front and stops at the first other one.
AcceptCheckpoint(store, watermark, snapshot) ==
    [store EXCEPT !.watermark = watermark,
                  !.checkpoint = snapshot,
                  !.journal = DropFirst(@, UpTo(@, watermark))]

AckOutput(store, sequence) ==
    [store EXCEPT !.ack = IF sequence > @ THEN sequence ELSE @]

\* One merged batch of the retained chunks past a sequence; at most one, as a set.
JournalFrom(store, after) ==
    LET chunks == DropFirst(store.journal, UpTo(store.journal, after))
    IN  IF chunks = <<>> THEN {}
        ELSE {[first |-> chunks[1].sequence,
               last |-> chunks[Len(chunks)].sequence,
               chunks |-> [i \in DOMAIN chunks |-> chunks[i].sequence]]}

=============================================================================
