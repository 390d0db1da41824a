------------------------------ MODULE Chunker -------------------------------
(***************************************************************************)
(* How the text of a document is cut (app/ingest/chunker.py) after it was  *)
(* transcribed page by page (app/ingest/ocr.py).  A character that is not  *)
(* white space is a positive number, white space is one that is not.       *)
(***************************************************************************)
EXTENDS Integers, Sequences, SequencesExt, FiniteSetsExt

CONSTANTS Separators    \* DEFAULT_SEPARATORS, the last one empty

ASSUME SeparatorsAssumption ==
    /\ Separators \in Seq(Seq(Int))
    /\ \A i \in DOMAIN Separators : Separators[i] = <<>> <=> i = Len(Separators)

(***************************************************************************)
(* ocr_file: the pages one after the other, the request for each tried     *)
(* Attempts times; a page for which all of them fail fails the document.   *)
(* failures[p] is how often the OCR service would refuse the page in a     *)
(* row.  A file that is neither a PDF nor an image is refused unread.      *)
(***************************************************************************)
Attempts == 3
Readable(failures) == \A p \in DOMAIN failures : failures[p] < Attempts

IsBlank(text) == \A i \in DOMAIN text : text[i] <= 0

(* str.strip. *)
Strip(text) ==
    LET solid == {i \in DOMAIN text : text[i] > 0}
    IN  IF solid = {} THEN <<>> ELSE SubSeq(text, Min(solid), Max(solid))

Ending(n, text) == SubSeq(text, Len(text) - n + 1, Len(text))

(* str.split, character by character: what has not been put into a part
   starts at acc.from. *)
Scan(acc, i, sep, text) ==
    LET end == i + Len(sep) - 1
    IN  IF i >= acc.from /\ end <= Len(text) /\ SubSeq(text, i, end) = sep
        THEN [parts |-> Append(acc.parts, SubSeq(text, acc.from, i - 1)), from |-> end + 1]
        ELSE acc

Scanned(sep, text) ==
    FoldLeftDomain(LAMBDA acc, i : Scan(acc, i, sep, text), [parts |-> <<>>, from |-> 1], text)

SplitAt(sep, text) ==
    LET end == Scanned(sep, text)
    IN  Append(end.parts, SubSeq(text, end.from, Len(text)))

(* The slices taken when no separator is left. *)
Windows(text, size, overlap) ==
    LET step == Max({1, size - overlap})
    IN  [i \in 1..((Len(text) + step - 1) \div step) |->
            SubSeq(text, (i - 1) * step + 1, Min({(i - 1) * step + size, Len(text)}))]

(* The end of each piece is put in front of the next one. *)
MutantStitch(out, overlap, sep) ==
    [i \in DOMAIN out |-> IF i = 1 \/ overlap = 0 THEN out[i] ELSE out[i - 1] \o sep \o out[i]]
Stitch(out, overlap, sep) ==
    [i \in DOMAIN out |-> IF i = 1 \/ overlap = 0 THEN out[i]
                          ELSE Ending(Min({overlap, Len(out[i - 1])}), out[i - 1]) \o sep \o out[i]]

MutantFlush(out, buf) == out
Flush(out, buf) == IF buf = <<>> THEN out ELSE Append(out, buf)

(* The loop of _recursive_split: parts are gathered in buf as long as they
   fit, and a part that never fits is split further. *)
Gather(acc, part, size, sep, finer) ==
    LET candidate == IF acc.buf = <<>> THEN part ELSE acc.buf \o sep \o part
    IN  IF Len(candidate) <= size THEN [out |-> acc.out, buf |-> candidate]
        ELSE IF Len(part) <= size THEN [out |-> Flush(acc.out, acc.buf), buf |-> part]
        ELSE [out |-> Flush(acc.out, acc.buf) \o finer[part], buf |-> <<>>]

Gathered(parts, size, sep, finer) ==
    FoldLeft(LAMBDA acc, part : Gather(acc, part, size, sep, finer),
             [out |-> <<>>, buf |-> <<>>], parts)

(* _recursive_split for one separator; `finer` is what it makes of a text with
   the separators that follow. *)
Pieces(text, size, overlap, sep, finer) ==
    IF Len(text) <= size THEN <<text>>
    ELSE IF sep = <<>> THEN Windows(text, size, overlap)
    ELSE LET end == Gathered(SplitAt(sep, text), size, sep, finer)
         IN  Stitch(Flush(end.out, end.buf), overlap, sep)

SplitBy(sep, size, overlap, finer) ==
    [text \in Seq(Int) |-> Pieces(text, size, overlap, sep, finer)]

Split(size, overlap) ==
    FoldRight(LAMBDA sep, finer : SplitBy(sep, size, overlap, finer), Separators,
              SplitBy(<<>>, size, overlap, <<>>))

(* chunk_pages: the chunks of one page after the other, blank pages left out. *)
ChunksOf(p, text, size, overlap) ==
    IF IsBlank(text) THEN <<>>
    ELSE LET pieces == Split(size, overlap)[text]
         IN  [i \in DOMAIN pieces |-> [page |-> p, text |-> Strip(pieces[i])]]

ChunkPages(pages, size, overlap) ==
    FoldLeftDomain(LAMBDA chunks, p : chunks \o ChunksOf(p, pages[p], size, overlap),
                   <<>>, pages)

(* The first steps of ingest_document. *)
Transcribed(pages, failures, size, overlap) ==
    [read |-> Readable(failures),
     chunks |-> IF Readable(failures) THEN ChunkPages(pages, size, overlap) ELSE <<>>]
=============================================================================
