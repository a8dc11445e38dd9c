------------------------------- MODULE SixFormat -------------------------------
(***************************************************************************)
(* The bytes of packages/sixpack-format: a `.6` chunk of one table as a    *)
(* sequence of bytes that batches are appended to, an append may stop      *)
(* after any byte and recovery cuts off, and the `.6b` index file that is  *)
(* built from it and may lose its end.  The table has an id and one text   *)
(* field with a lookup.                                                    *)
(*                                                                         *)
(* A byte is a one-letter string.  A character is one byte, but for        *)
(* TwoBytes, whose two bytes are "hi" and "lo".  A number is one byte.     *)
(* Lines of the legacy profile (no tag) are not written any more and not   *)
(* modelled; of the typed columns only text is.                            *)
(* Entries of an index keep the order of their lines; the table's implicit *)
(* lookup of the id, which repeats the rows, is left out.                  *)
(***************************************************************************)
EXTENDS Integers, Sequences

CONSTANTS
    Characters,     \* the characters of ids and values
    Ids,            \* ids of rows: sequences of characters
    Values,         \* values of the text field: sequences of characters
    MaxBatch,       \* bound: operations per append
    MaxTx,          \* bound: transaction ids
    MaxNumber,      \* bound: lengths and offsets, u32::MAX
    NumberByte      \* number -> the byte that stands for its digits or its four bytes

Tab == "TAB"
Newline == "LF"
Return == "CR"
Backslash == "\\"
TwoBytes == "ee"

Numbers == 0..MaxNumber

ASSUME BoundsAssumption ==
    MaxBatch \in Nat \ {0} /\ MaxNumber \in Nat /\ MaxTx \in Numbers
ASSUME CharacterAssumption ==
    Ids \subseteq Seq(Characters) /\ Values \subseteq Seq(Characters) /\ {"hi", "lo"} \cap Characters = {}
ASSUME NumberAssumption ==
    /\ DOMAIN NumberByte = Numbers
    /\ \A m, n \in Numbers : NumberByte[m] = NumberByte[n] => m = n
    /\ \A n \in Numbers : NumberByte[n] \notin {Tab, Newline, Return, Backslash, TwoBytes, "hi", "lo"}

VARIABLES
    chunk,          \* the bytes of the chunk
    written,        \* the operations whose lines are completely in the chunk
    sixb            \* the bytes of the `.6b` file

vars == <<chunk, written, sixb>>

-------------------------------------------------------------------------------
(* Sequences. *)

\* The sequences of ss one after the other.
Concat(ss) ==
    LET upTo[k \in 0..Len(ss)] == IF k = 0 THEN <<>> ELSE upTo[k - 1] \o ss[k]
    IN  upTo[Len(ss)]

\* str::splitn: the pieces of s between separators, at most limit of them; one
\* more element starts a piece or belongs to the last one.
SplitStep(pieces, c, separator, limit) ==
    IF c = separator /\ Len(pieces) < limit THEN Append(pieces, <<>>)
    ELSE [pieces EXCEPT ![Len(pieces)] = Append(@, c)]

SplitN(s, separator, limit) ==
    LET upTo[k \in 0..Len(s)] ==
          IF k = 0 THEN << <<>> >> ELSE SplitStep(upTo[k - 1], s[k], separator, limit)
    IN  upTo[Len(s)]

Split(s, separator) == SplitN(s, separator, Len(s) + 1)

\* The numbers of S up to n in ascending order.
Ascending(S, n) ==
    LET upTo[k \in 0..n] ==
          IF k = 0 THEN <<>> ELSE IF k \in S THEN Append(upTo[k - 1], k) ELSE upTo[k - 1]
    IN  upTo[n]

(* Characters and bytes. *)

BytesOf(c) == IF c = TwoBytes THEN <<"hi", "lo">> ELSE <<c>>
Utf8(s) == Concat([i \in DOMAIN s |-> BytesOf(s[i])])

ValidUtf8(b) ==
    \A i \in DOMAIN b : /\ b[i] = "hi" => i < Len(b) /\ b[i + 1] = "lo"
                        /\ b[i] = "lo" => i > 1 /\ b[i - 1] = "hi"

CharOf(b) == CASE b = "hi" -> <<TwoBytes>> [] b = "lo" -> <<>> [] OTHER -> <<b>>
Chars(b) == Concat([i \in DOMAIN b |-> CharOf(b[i])])

\* A number is parsed by searching for its byte.
IsNumber(b) == \E n \in Numbers : NumberByte[n] = b
ParseNumber(b) == CHOOSE n \in Numbers : NumberByte[n] = b

-------------------------------------------------------------------------------
(* Values. *)

\* Mutant of EscapeOf: a carriage return is not escaped.
EscapeOfBreaks(c) ==
    CASE c = Backslash -> <<Backslash, Backslash>> [] c = Tab -> <<Backslash, "t">>
      [] c = Newline -> <<Backslash, "n">> [] OTHER -> <<c>>

EscapeOf(c) ==
    CASE c = Backslash -> <<Backslash, Backslash>> [] c = Tab -> <<Backslash, "t">>
      [] c = Newline -> <<Backslash, "n">> [] c = Return -> <<Backslash, "r">>
      [] OTHER -> <<c>>

escape_six_value(s) == Concat([i \in DOMAIN s |-> EscapeOf(s[i])])

Escaped == {Backslash, "t", "n", "r"}
UnescapeOf(c) ==
    CASE c = "t" -> Tab [] c = "n" -> Newline [] c = "r" -> Return [] OTHER -> c

\* One character: the text so far, whether a backslash is waiting for the
\* character it escapes, and whether every escape was one.
Unescape(r, c) ==
    IF r.waits THEN [text |-> Append(r.text, UnescapeOf(c)), waits |-> FALSE,
                     ok |-> r.ok /\ c \in Escaped]
    ELSE IF c = Backslash THEN [r EXCEPT !.waits = TRUE]
    ELSE [r EXCEPT !.text = Append(@, c)]

Unescaped(s) ==
    LET upTo[k \in 0..Len(s)] ==
          IF k = 0 THEN [text |-> <<>>, waits |-> FALSE, ok |-> TRUE]
          ELSE Unescape(upTo[k - 1], s[k])
    IN  upTo[Len(s)]

\* unescape_six_value returns the text, or fails.
Unescapes(s) == Unescaped(s).ok /\ ~Unescaped(s).waits
unescape_six_value(s) == Unescaped(s).text

-------------------------------------------------------------------------------
(* Operation lines: a put has two columns, a delete the id only. *)

Operation == [tag : {"R"}, tx : 1..MaxTx, columns : {<<id, v>> : id \in Ids, v \in Values}]
             \cup [tag : {"D"}, tx : 1..MaxTx, columns : {<<id>> : id \in Ids}]

Refused == [tag |-> "error", tx |-> 0, columns |-> <<>>]

\* The columns joined by tabs.
Joined(columns) ==
    Concat([i \in DOMAIN columns |->
        (IF i = 1 THEN <<>> ELSE <<Tab>>) \o escape_six_value(columns[i])])

encode_six_operation(o) == <<o.tag, Tab, NumberByte[o.tx], Tab>> \o Joined(o.columns)

decode_six_operation(line) ==
    LET fixed == SplitN(line, Tab, 3)
        parts == IF fixed[1] = <<"R">> THEN Split(fixed[3], Tab) ELSE <<fixed[3]>>
    IN  IF /\ Len(fixed) = 3
           /\ Len(fixed[2]) = 1 /\ IsNumber(fixed[2][1])
           /\ fixed[1] \in {<<"R">>, <<"D">>}
           /\ fixed[1] = <<"R">> => Len(parts) = 2
           /\ \A i \in DOMAIN parts : Unescapes(parts[i])
        THEN [tag |-> fixed[1][1], tx |-> ParseNumber(fixed[2][1]),
              columns |-> [i \in DOMAIN parts |-> unescape_six_value(parts[i])]]
        ELSE Refused

\* A line with its newline.
Ended(line) == Append(line, Newline)

\* The preamble: the magic line, the fields, the lookups, and "@data".
PreambleLines == << <<"SIX", Tab, "table">>, <<"@field">>, <<"@lookup">>, <<"@data">> >>
Preamble == Concat([i \in DOMAIN PreambleLines |-> Ended(PreambleLines[i])])

StartsWith(b, a) == Len(a) <= Len(b) /\ SubSeq(b, 1, Len(a)) = a

\* verify_header reads up to the line "@data", complete or not.
HeaderOk(b) == StartsWith(b, Preamble) \/ Ended(b) = Preamble

-------------------------------------------------------------------------------
(* Reading a chunk. *)

\* read_line splits after each newline; what follows the last one is the tail.
Pieces(b) == Split(b, Newline)
Lines(b) == SubSeq(Pieces(b), 1, Len(Pieces(b)) - 1)
Tail6(b) == Pieces(b)[Len(Pieces(b))]

LineStart(b, k) == Len(Concat([i \in 1..k-1 |-> Ended(Lines(b)[i])]))

\* trim_end_matches of line breaks.
Trimmed(line) ==
    LET kept == CHOOSE n \in 0..Len(line) :
                    /\ n > 0 => line[n] # Return
                    /\ \A i \in (n + 1)..Len(line) : line[i] = Return
    IN  SubSeq(line, 1, kept)

IsDataLine(line) == /\ line # <<>>
                    /\ line[1] \notin {"SIX", "@field", "@lookup", "@data"}

\* The positions of the data lines among the complete lines.
DataLines(b) ==
    Ascending({k \in DOMAIN Lines(b) : IsDataLine(Trimmed(Lines(b)[k]))}, Len(Lines(b)))

\* read_line fails on a line that is not UTF-8, complete or not.
Readable(b) == \A k \in DOMAIN Pieces(b) : ValidUtf8(Pieces(b)[k])

\* scan_six_file: the operations of the complete data lines with their places.
Entry(b, k) == [operation |-> decode_six_operation(Chars(Trimmed(Lines(b)[k]))),
                offset |-> LineStart(b, k), len |-> Len(Lines(b)[k]) + 1,
                raw_line |-> Ended(Lines(b)[k])]

Scanned(b) == LET ks == DataLines(b) IN [i \in DOMAIN ks |-> Entry(b, ks[i])]

ScanSucceeds(b) ==
    /\ HeaderOk(b)
    /\ Readable(b)
    /\ \A i \in DOMAIN Scanned(b) : Scanned(b)[i].operation # Refused

Operations(b) == LET s == Scanned(b) IN [i \in DOMAIN s |-> s[i].operation]

\* Mutant of raw_six_data_lines: the newline of a line is not part of it.
RawPieces(b) == LET ks == DataLines(b) IN [i \in DOMAIN ks |-> Lines(b)[ks[i]]]

\* raw_six_data_lines: what the source hash of an index is taken over.
raw_six_data_lines(b) ==
    LET ks == DataLines(b) IN [i \in DOMAIN ks |-> Ended(Lines(b)[ks[i]])]

\* max_tx_in_six_file reads no more than the tag and the number of a line.
max_tx_in_six_file(b) ==
    LET heads == {Lines(b)[k] : k \in DOMAIN Lines(b)}
        txs == {0} \cup {ParseNumber(line[3]) :
                  line \in {l \in heads : /\ Len(l) >= 3
                                          /\ l[1] \in {"R", "D"} /\ l[2] = Tab
                                          /\ IsNumber(l[3])}}
    IN  CHOOSE m \in txs : \A n \in txs : n <= m

\* read_row_pointer: the bytes of an entry without their newline.
ReadPointer(b, e) ==
    decode_six_operation(Chars(SubSeq(b, e.offset + 1, e.offset + e.len - 1)))

-------------------------------------------------------------------------------
(* The index file. *)

\* The positions of the puts that no later operation on their id follows.
Live(entries) ==
    {i \in DOMAIN entries :
       /\ entries[i].operation.tag = "R"
       /\ \A j \in DOMAIN entries :
            j > i => entries[j].operation.columns[1] # entries[i].operation.columns[1]}

LiveEntries(entries) ==
    LET live == Ascending(Live(entries), Len(entries)) IN [i \in DOMAIN live |-> entries[live[i]]]

RowOf(e) == [id |-> e.operation.columns[1], offset |-> e.offset, len |-> e.len,
             tx |-> e.operation.tx]
LookupOf(e) == [key |-> e.operation.columns[2], id |-> e.operation.columns[1]]

\* The index of a chunk; its source hash is represented by the number of data
\* lines, which names them: complete lines are only ever added.
IndexOf(b) ==
    LET live == LiveEntries(Scanned(b)) IN
    [source |-> Len(raw_six_data_lines(b)),
     rows |-> [i \in DOMAIN live |-> RowOf(live[i])],
     lookups |-> [i \in DOMAIN live |-> LookupOf(live[i])]]

\* A string is its length in bytes and its bytes.
SixbString(s) == <<NumberByte[Len(Utf8(s))]>> \o Utf8(s)

RowBytes(row) ==
    SixbString(row.id) \o <<NumberByte[row.offset], NumberByte[row.len], NumberByte[row.tx]>>
LookupBytes(lookup) == SixbString(lookup.key) \o SixbString(lookup.id)

encode_sixb_cache(c) ==
    <<"SIXB", "2", NumberByte[c.source], NumberByte[Len(c.rows)]>>
    \o Concat([i \in DOMAIN c.rows |-> RowBytes(c.rows[i])])
    \o <<NumberByte[Len(c.lookups)]>>
    \o Concat([i \in DOMAIN c.lookups |-> LookupBytes(c.lookups[i])])

\* BinaryReader: the bytes, how many were taken, what they were, and whether
\* no call has failed.
Reader(b) == [bytes |-> b, offset |-> 0, out |-> <<>>, ok |-> TRUE]

Take(r, n) ==
    IF ~r.ok \/ r.offset + n > Len(r.bytes) THEN [r EXCEPT !.ok = FALSE]
    ELSE [bytes |-> r.bytes, offset |-> r.offset + n,
          out |-> SubSeq(r.bytes, r.offset + 1, r.offset + n), ok |-> TRUE]

Number(r) == IF r.ok /\ IsNumber(r.out[1]) THEN ParseNumber(r.out[1]) ELSE 0

ReadString(r) ==
    LET length == Take(r, 1)
        text   == Take(length, Number(length))
    IN  IF text.ok /\ ~ValidUtf8(text.out) THEN [text EXCEPT !.ok = FALSE] ELSE text

\* The readers after the fields of a row entry and of a lookup entry.
RowFields(r) ==
    LET id == ReadString(r)  offset == Take(id, 1)  len == Take(offset, 1)
    IN  <<id, offset, len, Take(len, 1)>>
LookupFields(r) == LET key == ReadString(r) IN <<key, ReadString(key)>>

AfterEntry(r, kind) == IF kind = "row" THEN RowFields(r)[4] ELSE LookupFields(r)[2]

\* The readers before and after each of as many entries as r has read a number.
Entries(r, kind) ==
    LET after[k \in 0..Number(r)] == IF k = 0 THEN r ELSE AfterEntry(after[k - 1], kind)
    IN  after
AfterLast(r, kind) == Entries(r, kind)[Number(r)]

RowAt(r) == LET f == RowFields(r) IN
    [id |-> Chars(f[1].out), offset |-> Number(f[2]), len |-> Number(f[3]), tx |-> Number(f[4])]
LookupAt(r) == LET f == LookupFields(r) IN [key |-> Chars(f[1].out), id |-> Chars(f[2].out)]

RowsFrom(r) == [i \in 1..Number(r) |-> RowAt(Entries(r, "row")[i - 1])]
LookupsFrom(r) == [i \in 1..Number(r) |-> LookupAt(Entries(r, "lookup")[i - 1])]

NoIndex == [source |-> "error"]

decode_sixb_cache(b) ==
    LET source == Take(Take(Take(Reader(b), 1), 1), 1)
        rows   == Take(source, 1)
        keys   == Take(AfterLast(rows, "row"), 1)
        end    == AfterLast(keys, "lookup")
    IN  IF ~end.ok \/ end.offset # Len(b) THEN NoIndex
        ELSE [source |-> Number(source), rows |-> RowsFrom(rows), lookups |-> LookupsFrom(keys)]

\* Mutant of Accepted: the source hash is not compared.
AcceptedDecodable(b) == decode_sixb_cache(b) # NoIndex

\* ensure_sixb_snapshot: the file if it decodes to an index of these lines.
Accepted(b) ==
    LET c == decode_sixb_cache(b)
    IN  c # NoIndex /\ c.source = Len(raw_six_data_lines(chunk))

-------------------------------------------------------------------------------
Init ==
    /\ chunk = <<>>
    /\ written = <<>>
    /\ sixb = <<>>

Complete(b) == Tail6(b) = <<>>

Bytes(o) == Ended(Utf8(encode_six_operation(o)))

\* The lines of operations, as append_batch_inner writes them.
LinesOf(ops) == Concat([i \in DOMAIN ops |-> Bytes(ops[i])])

\* ensure_table_layout and ensure_complete_tail let a batch pass.
Appendable == (chunk = <<>> \/ HeaderOk(chunk)) /\ Complete(chunk)

\* What an append writes to: a new chunk gets its preamble first.
Opened == IF chunk = <<>> THEN Preamble ELSE chunk

\* The batches with the next transaction ids, as long as their numbers fit.
NextBatches ==
    LET next == max_tx_in_six_file(chunk) + 1 IN
    {ops \in UNION {[1..n -> {o \in Operation : o.tx \in next..(next + n - 1)}] : n \in 1..MaxBatch} :
        /\ \A i \in DOMAIN ops : ops[i].tx = next + i - 1
        /\ Len(Opened \o LinesOf(ops)) <= MaxNumber}

AppendBatch ==
    /\ Appendable
    /\ \E ops \in NextBatches :
         /\ chunk' = Opened \o LinesOf(ops)
         /\ written' = written \o ops
    /\ UNCHANGED sixb

\* The writer stops inside the preamble, or after n lines and some bytes more.
InterruptedPreamble ==
    /\ chunk = <<>>
    /\ \E k \in 1..Len(Preamble)-1 : chunk' = SubSeq(Preamble, 1, k)
    /\ UNCHANGED <<written, sixb>>

InterruptedAppend ==
    /\ Appendable
    /\ \E ops \in NextBatches : \E n \in 0..Len(ops)-1 :
         \E k \in 0..Len(Bytes(ops[n + 1]))-1 :
           /\ chunk' = Opened \o LinesOf(SubSeq(ops, 1, n)) \o SubSeq(Bytes(ops[n + 1]), 1, k)
           /\ written' = written \o SubSeq(ops, 1, n)
    /\ UNCHANGED sixb

\* Mutant of CutTail: the cut is taken one line too early.
CutLastLine(b) == Concat([i \in 1..(Len(Lines(b)) - 1) |-> Ended(Lines(b)[i])])

\* The bytes up to and including the last newline.
CutTail(b) == SubSeq(b, 1, Len(b) - Len(Tail6(b)))

truncate_incomplete_tail ==
    /\ HeaderOk(chunk)
    /\ ~Complete(chunk)
    /\ chunk' = CutTail(chunk)
    /\ UNCHANGED <<written, sixb>>

rebuild_sixb ==
    /\ ScanSucceeds(chunk)
    /\ sixb' = encode_sixb_cache(IndexOf(chunk))
    /\ UNCHANGED <<chunk, written>>

\* The `.6b` file is renamed into place but not synced: it may lose its end.
LoseSixbTail ==
    /\ \E n \in 0..(Len(sixb) - 1) : sixb' = SubSeq(sixb, 1, n)
    /\ UNCHANGED <<chunk, written>>

Next == \/ AppendBatch \/ InterruptedPreamble \/ InterruptedAppend
        \/ truncate_incomplete_tail \/ rebuild_sixb \/ LoseSixbTail

Spec == Init /\ [][Next]_vars

-------------------------------------------------------------------------------
(* Properties. *)

\* Whatever characters the values hold, and wherever an append stopped, the
\* scan of a chunk that can be read returns the completely written operations,
\* and the transaction counter found in it is theirs (format.rs, escaping;
\* files.rs, scan_six_file and max_tx_in_six_file).
ScanIsWritten ==
    HeaderOk(chunk) /\ Readable(chunk) =>
        /\ Operations(chunk) = written
        /\ max_tx_in_six_file(chunk) = Len(written)

\* The two places that compute the source hash of a table take it over the
\* same lines, and the place of every entry reads back as its operation: a
\* pointer into the chunk, trimmed and cut differently than a scanned line,
\* finds the same row (files.rs, raw_six_data_lines; store.rs, read_row_pointer).
EntriesReadBack ==
    HeaderOk(chunk) /\ Readable(chunk) =>
        /\ raw_six_data_lines(chunk) = [i \in DOMAIN Scanned(chunk) |-> Scanned(chunk)[i].raw_line]
        /\ \A i \in DOMAIN Scanned(chunk) :
               ReadPointer(chunk, Scanned(chunk)[i]) = Scanned(chunk)[i].operation

\* An index file of earlier lines, or one that lost its end, is never taken for
\* the index of the chunk (sixb.rs, BinaryReader; projection.rs, source hash).
AcceptedIndexIsCurrent ==
    HeaderOk(chunk) /\ Readable(chunk) /\ Accepted(sixb) =>
        decode_sixb_cache(sixb) = IndexOf(chunk)

\* Cutting off the tail loses no complete line, and what remains can be read and
\* appended to (append.rs, truncate_incomplete_tail).  It is true of every chunk
\* whose preamble is complete: of one torn before the newline of "@data" the
\* header check passes, and the cut makes it a chunk that is refused for good.
\* Before the cut a scan may fail: it decodes the torn line although it ignores
\* it, and the line can end inside a character (files.rs, scan_table_files).
CuttingKeepsLines ==
    StartsWith(chunk, Preamble) =>
        /\ ScanSucceeds(CutTail(chunk))
        /\ Operations(CutTail(chunk)) = written
        /\ Complete(CutTail(chunk))
===============================================================================
