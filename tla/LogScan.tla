-------------------------------- MODULE LogScan --------------------------------
(* The scan of log files for the lines of some chat ids: scan_logs over local  *)
(* copies and scan_remote_logs_real_time over the tails of the remote files    *)
(* (src/src/utils/read_utils.py), with the readers below them, which cut what  *)
(* they read into blocks or chunks: reverse_read_lines (utils/common_utils.py),*)
(* the gzip tail script (utils/gzip_utils.py) and the zip tail script          *)
(* (preset_scripts.py).  A text is a sequence of characters.  A character is a *)
(* chat id, a line feed or anything else; the regular expressions find in a    *)
(* line the first chat id there is.                                            *)
EXTENDS Integers, Sequences, FiniteSets, SequencesExt

CONSTANTS
  Chars,       \* the characters of a text, Ids and NL among them
  Ids,         \* req.chat_ids
  NL,
  Limit,       \* options.max_matches_per_chat_id
  Tail_bytes,  \* options.real_tail_bytes, in characters
  Block,       \* block_size of reverse_read_lines
  MaxTotal,    \* options.max_zip_uncompressed_size_mb, in characters
  MaxEntries,  \* options.max_zip_entries
  Inputs       \* what there may be to scan: sequences of [kind, parts] records

Kinds == {"plain", "gzip", "tar.gz", "zip"}

\* "parts" are the texts of the members of a zip, in the order this mode sorts
\* them, and the one text of another file
ASSUME ScanConfig ==
  /\ Ids # {} /\ Ids \subseteq Chars /\ NL \in Chars \ Ids
  /\ {Limit, Tail_bytes, Block, MaxTotal, MaxEntries} \subseteq Nat \ {0}
  /\ \A input \in Inputs :
       /\ input \in Seq([kind : Kinds, parts : Seq(Seq(Chars))])
       /\ \A i \in DOMAIN input : input[i].kind # "zip" => Len(input[i].parts) = 1

VARIABLES
  mode,     \* "local" or "real_time"
  files,    \* the log files, in the order they are scanned
  at,       \* what the scan is doing
  k,        \* the file it is at
  rd,       \* the locals of the reader
  results,  \* state.results: the lines found for each chat id
  scanned,  \* scanned_files
  failed,   \* failed_files
  unread,   \* history: the parts that were not there to be read
  outcome

vars == <<mode, files, at, k, rd, results, scanned, failed, unread, outcome>>

NoReader == [i |-> 0, rest |-> <<>>, buffer |-> <<>>, chunks |-> <<>>, total |-> 0,
             emitted |-> 0, text |-> <<>>]

Init ==
  /\ mode \in {"local", "real_time"} /\ files \in Inputs
  /\ at = "next" /\ k = 1 /\ rd = NoReader
  /\ results = [id \in Ids |-> <<>>]
  /\ scanned = 0 /\ failed = {} /\ unread = {} /\ outcome = "none"

----------------------------------------------------------------------------
(* Texts                                                                    *)

LastOf(text, n) == SubSeq(text, IF Len(text) > n THEN Len(text) - n + 1 ELSE 1, Len(text))
From(text, i) == SubSeq(text, i, Len(text))

Lines(text) ==
  FoldLeft(LAMBDA lines, c : IF c = NL THEN Append(lines, <<>>)
                             ELSE [lines EXCEPT ![Len(lines)] = Append(@, c)],
           << <<>> >>, text)

Matches(id, line) ==
  \E i \in DOMAIN line : line[i] = id /\ \A j \in 1 .. i - 1 : line[j] \notin Ids

ScanLine(found, line) ==
  [id \in Ids |-> IF Matches(id, line) /\ Len(found[id]) < Limit
                  THEN Append(found[id], line) ELSE found[id]]

AllReachedLimit(found) == \A id \in Ids : Len(found[id]) >= Limit

\* The loop over lines, with its break
ScanLines(found, lines) ==
  FoldLeft(LAMBDA f, line : IF AllReachedLimit(f) THEN f ELSE ScanLine(f, line), found, lines)

----------------------------------------------------------------------------
(* scan_logs                                                                *)

File == files[k]
Input == UNCHANGED <<mode, files>>
Parts(part) == {<<k, i>> : i \in part}
NextFile == k' = k + 1 /\ at' = "next" /\ rd' = NoReader

Local == mode = "local" /\ at = "next" /\ k <= Len(files) /\ ~AllReachedLimit(results)

NotThere ==
  /\ Local
  /\ NextFile
  /\ unread' = unread \cup Parts(DOMAIN File.parts)
  /\ Input /\ UNCHANGED <<results, scanned, failed, outcome>>

\* An archive is extracted, or refused with a warning, as a tar.gz always is
OpenLocal ==
  /\ Local
  /\ scanned' = scanned + 1
  /\ \/ File.kind # "tar.gz" /\ at' = "parts" /\ UNCHANGED <<k, rd, unread>>
     \/ /\ File.kind # "plain"
        /\ NextFile
        /\ unread' = unread \cup Parts(DOMAIN File.parts)
  /\ Input /\ UNCHANGED <<results, failed, outcome>>

\* "if scan_file.is_file()", then the check of the limits
NextPart ==
  /\ at = "parts" /\ rd.i < Len(File.parts) /\ ~AllReachedLimit(results)
  /\ \/ /\ rd' = [NoReader EXCEPT !.i = rd.i + 1, !.rest = File.parts[rd.i + 1]]
        /\ at' = "blocks"
        /\ UNCHANGED unread
     \/ /\ rd' = [rd EXCEPT !.i = @ + 1]
        /\ unread' = unread \cup {<<k, rd.i + 1>>}
        /\ UNCHANGED at
  /\ Input /\ UNCHANGED <<k, results, scanned, failed, outcome>>

LocalFileEnds ==
  /\ at = "parts" /\ (rd.i = Len(File.parts) \/ AllReachedLimit(results))
  /\ NextFile
  /\ Input /\ UNCHANGED <<results, scanned, failed, unread, outcome>>

\* reverse_read_lines from the end of the file: every line feed in the buffer
\* but what is before the first one makes a whole line
ReadBlockDropsBuffer ==  \* mutant: buffer = chunk
  /\ at = "blocks" /\ rd.rest # <<>>
  /\ LET lines == Lines(LastOf(rd.rest, Block)) IN
       /\ rd' = [rd EXCEPT !.rest = SubSeq(@, 1, Len(@) - Len(LastOf(@, Block))),
                           !.buffer = Head(lines)]
       /\ results' = ScanLines(results, Reverse(Tail(lines)))
  /\ Input /\ UNCHANGED <<at, k, scanned, failed, unread, outcome>>

ReadBlock ==
  /\ at = "blocks" /\ rd.rest # <<>>
  /\ LET chunk == LastOf(rd.rest, Block)
         lines == Lines(chunk \o rd.buffer)
     IN /\ rd' = [rd EXCEPT !.rest = SubSeq(@, 1, Len(@) - Len(chunk)), !.buffer = Head(lines)]
        /\ results' = ScanLines(results, Reverse(Tail(lines)))
  /\ Input /\ UNCHANGED <<at, k, scanned, failed, unread, outcome>>

FirstLine ==
  /\ at = "blocks" /\ rd.rest = <<>>
  /\ results' = ScanLines(results, <<rd.buffer>>)
  /\ at' = "parts"
  /\ Input /\ UNCHANGED <<k, rd, scanned, failed, unread, outcome>>

----------------------------------------------------------------------------
(* scan_remote_logs_real_time                                               *)

Remote == mode = "real_time" /\ at = "next" /\ k <= Len(files) /\ ~AllReachedLimit(results)

RemoteFailsCounted ==  \* mutant: scanned_files is counted before the try
  /\ Remote \/ at \in {"gzip", "zip", "member"}
  /\ NextFile
  /\ failed' = failed \cup {k}
  /\ scanned' = scanned + 1
  /\ unread' = unread \cup Parts(DOMAIN File.parts)
  /\ Input /\ UNCHANGED <<results, outcome>>

\* A non-zero exit code, for whatever reason: the file is skipped and reported
RemoteFails ==
  /\ Remote \/ at \in {"gzip", "zip", "member"}
  /\ NextFile
  /\ failed' = failed \cup {k}
  /\ unread' = unread \cup Parts(DOMAIN File.parts)
  /\ Input /\ UNCHANGED <<results, scanned, outcome>>

HaveText(text) == rd' = [NoReader EXCEPT !.text = text] /\ at' = "scan"
Reading == Input /\ UNCHANGED <<k, results, scanned, failed, unread, outcome>>

OpenRemote ==
  /\ Remote
  /\ CASE File.kind = "plain" -> HaveText(LastOf(File.parts[1], Tail_bytes))
       [] File.kind = "gzip" -> rd' = [NoReader EXCEPT !.rest = File.parts[1]] /\ at' = "gzip"
       [] File.kind = "zip" -> rd' = NoReader /\ at' = "zip"
       [] OTHER -> FALSE
  /\ Reading

\* deque.popleft as long as the rest is enough, then the first chunk is cut
Size(chunks) == Len(FlattenSeq(chunks))
WithoutSpare(chunks) ==
  From(chunks, 1 + Cardinality({i \in DOMAIN chunks : Size(From(chunks, i + 1)) >= Tail_bytes}))

TrimWholeChunks(chunks) == WithoutSpare(chunks)  \* mutant: no chunk is cut
Trim(chunks) ==
  LET kept == WithoutSpare(chunks)
      excess == Size(kept) - Tail_bytes
  IN IF excess > 0 THEN [kept EXCEPT ![1] = From(@, excess + 1)] ELSE kept

\* stream.read returns any number of characters up to its limit; beyond
\* max_uncompressed the script exits, which RemoteFails stands for
GzipChunk ==
  /\ at = "gzip"
  /\ \E n \in 1 .. Len(rd.rest) :
       /\ rd.total + n <= MaxTotal
       /\ rd' = [rd EXCEPT !.rest = From(@, n + 1), !.total = @ + n,
                           !.chunks = Trim(Append(@, SubSeq(rd.rest, 1, n)))]
  /\ UNCHANGED at /\ Reading

GzipEnds ==
  /\ at = "gzip" /\ rd.rest = <<>>
  /\ HaveText(FlattenSeq(rd.chunks))
  /\ Reading

Budget == IF rd.emitted < Tail_bytes THEN Tail_bytes - rd.emitted ELSE 0
More ==
  /\ rd.i < Len(File.parts) /\ rd.i < MaxEntries
  /\ rd.total + Len(File.parts[rd.i + 1]) <= MaxTotal
  /\ Budget > 0

ZipMember ==
  /\ at = "zip" /\ More
  /\ rd' = [rd EXCEPT !.i = @ + 1, !.rest = File.parts[rd.i + 1], !.buffer = <<>>,
                      !.total = @ + Len(File.parts[rd.i + 1])]
  /\ at' = "member"
  /\ Reading

\* read_member_tail
ZipChunk ==
  /\ at = "member"
  /\ \E n \in 1 .. Len(rd.rest) :
       rd' = [rd EXCEPT !.rest = From(@, n + 1),
                        !.buffer = LastOf(@ \o SubSeq(rd.rest, 1, n), Budget)]
  /\ UNCHANGED at /\ Reading

\* A line feed and a line with the name come before a member; it ends its line
WholeLines(text) == IF text # <<>> /\ Last(text) = NL THEN text ELSE Append(text, NL)

ZipMemberEnds ==
  /\ at = "member" /\ rd.rest = <<>>
  /\ rd' = [rd EXCEPT !.text = @ \o <<NL, NL>> \o WholeLines(rd.buffer),
                      !.emitted = @ + Len(rd.buffer)]
  /\ at' = "zip"
  /\ Reading

ZipEnds ==
  /\ at = "zip" /\ ~More
  /\ HaveText(rd.text)
  /\ Reading

ScanText ==
  /\ at = "scan"
  /\ scanned' = scanned + 1
  /\ results' = ScanLines(results, Reverse(Lines(rd.text)))
  /\ NextFile
  /\ Input /\ UNCHANGED <<failed, unread, outcome>>

----------------------------------------------------------------------------
\* REAL_TIME_ALL_FILES_FAILED, or the result
Finish ==
  /\ at = "next" /\ (k > Len(files) \/ AllReachedLimit(results))
  /\ outcome' = IF scanned = 0 /\ failed # {} THEN "allFailed" ELSE "answered"
  /\ at' = "end"
  /\ Input /\ UNCHANGED <<k, rd, results, scanned, failed, unread>>

\* The connection breaks, a file goes while it is read, a regular expression
\* takes too long: an exception for the request
Abort ==
  /\ at # "end"
  /\ outcome' = "error" /\ at' = "end" /\ rd' = NoReader
  /\ Input /\ UNCHANGED <<k, results, scanned, failed, unread>>

Resting == at = "end" /\ UNCHANGED vars

ScanLocal ==
  NotThere \/ OpenLocal \/ NextPart \/ LocalFileEnds \/ ReadBlock \/ FirstLine

ScanRemote ==
  \/ RemoteFails \/ OpenRemote \/ GzipChunk \/ GzipEnds
  \/ ZipMember \/ ZipChunk \/ ZipMemberEnds \/ ZipEnds \/ ScanText

Next == ScanLocal \/ ScanRemote \/ Finish \/ Abort \/ Resting

Spec == Init /\ [][Next]_vars

----------------------------------------------------------------------------
(* Properties.                                                              *)

Share(parts, i) == Tail_bytes - Size(SubSeq(parts, 1, i - 1))

\* What real_time is to read of a file: the last real_tail_bytes of a plain or
\* gzip file; of a zip the last of its newest members, real_tail_bytes in all
Window(f) ==
  IF f.kind # "zip" THEN LastOf(f.parts[1], Tail_bytes)
  ELSE FlattenSeq([i \in DOMAIN f.parts |->
         IF i <= MaxEntries /\ Size(SubSeq(f.parts, 1, i)) <= MaxTotal /\ Share(f.parts, i) > 0
         THEN <<NL, NL>> \o WholeLines(LastOf(f.parts[i], Share(f.parts, i)))
         ELSE <<>>])

\* test_remote_script_returns_decompressed_tail, for every way a stream comes in
\* chunks: the window that slides over it ends as its last real_tail_bytes,
\* neither short nor long, and a zip gives its newest members first claim to
\* them.
WindowExact == at = "scan" => rd.text = Window(File)

LinesOf(n) ==
  LET f == files[n] IN
  IF mode = "real_time" THEN (IF n \in failed THEN <<>> ELSE Reverse(Lines(Window(f))))
  ELSE FlattenSeq([i \in DOMAIN f.parts |->
         IF <<n, i>> \in unread THEN <<>> ELSE Reverse(Lines(f.parts[i]))])
AllLines == FlattenSeq([n \in DOMAIN files |-> LinesOf(n)])
LinesFor(id, lines) ==
  FoldLeft(LAMBDA own, line : IF Matches(id, line) THEN Append(own, line) ELSE own, <<>>, lines)
UpToLimit(lines) == SubSeq(lines, 1, IF Len(lines) < Limit THEN Len(lines) ELSE Limit)

\* Whatever blocks a file is read in and wherever the scan stops, the matches of
\* a chat id are the first max_matches_per_chat_id of its lines, whole and in
\* order, in everything that could be read: so a chat id is reported missed only
\* if it is nowhere, and the limit of one chat id takes no match from another.
FirstMatches ==
  outcome = "answered" =>
    \A id \in Ids : results[id] = UpToLimit(LinesFor(id, AllLines))

\* Every file in front of the place where a real-time scan stops was scanned or
\* is reported as failed, and not both; it stops short only when no chat id has
\* matches to come; and it raises REAL_TIME_ALL_FILES_FAILED exactly when it
\* would otherwise answer from nothing though there were files.
EveryFileAccounted ==
  outcome \in {"answered", "allFailed"} /\ mode = "real_time" =>
    /\ scanned + Cardinality(failed) = k - 1
    /\ k <= Len(files) => AllReachedLimit(results)
    /\ outcome = "allFailed" <=> failed = DOMAIN files /\ files # <<>>
=============================================================================
