----------------------------- MODULE Containers -----------------------------
(***************************************************************************)
(* services/monitor/containers: is a file the container its header says?   *)
(*                                                                         *)
(* A file is a sequence of units: the pieces its writer would write whole  *)
(* (a header, a box, a marker segment, a directory, a block of data).  A   *)
(* unit's n is what it declares: how many units a box or a segment spans,  *)
(* where an archive's directory starts, 0 if it has none.  A header of     *)
(* which only the magic bytes are sound is a unit of its own ("PK" and the *)
(* like).  head is what was read of the file's start, tail of its end,     *)
(* size what the caller says the file's length is.                         *)
(***************************************************************************)
EXTENDS Integers, Sequences, SequencesExt

Unit ==
  [k : {"PK", "local", "dir", "dirstored", "dir64", "eocd",  \* zip
        "gzmagic", "gz", "deflated", "stored",               \* gzip, or a member
        "pngmagic", "png", "iend",
        "soi", "seg", "sos", "eoi",                          \* jpeg
        "%PDF", "obj", "startxref", "%%EOF",
        "ftyp", "box", "moov", "mdat",                       \* iso-bmff
        "rar",                                               \* no validator
        "text", "media", "cipher"},
   n : Nat]

Kinds(s) == {s[i].k : i \in DOMAIN s}

\* detection.identify_container, of a file's first unit or of nothing.
Format(magic) ==
  LET k == IF magic = <<>> THEN "" ELSE magic[1].k
  IN CASE k \in {"PK", "local", "eocd"} -> "zip"
       [] k \in {"gzmagic", "gz"} -> "gzip"
       [] k \in {"pngmagic", "png"} -> "png"
       [] k = "soi" -> "jpeg"
       [] k = "%PDF" -> "pdf"
       [] k = "ftyp" -> "iso-bmff"
       [] k = "rar" -> "rar"
       [] OTHER -> "none"

-------------------------------------------------------------------------------
(* The validators.                                                         *)

EndsWith(s, k) == s # <<>> /\ Last(s).k = k

\* _bytes_at: the kind of the unit at offset (of 0), if a sample holds it.
KindAt(head, tail, start, offset) ==
  IF offset < Len(head) THEN head[offset + 1].k
  ELSE IF offset >= start /\ offset - start < Len(tail)
  THEN tail[offset - start + 1].k ELSE "nowhere"

Directory == {"dir", "dirstored", "dir64"}

\* Not the code: a header of which the magic is right will do.
ZipMagic(head) == Format(head) = "zip"
ZipHead(head) == head[1].k \in {"local", "eocd"}

\* The record that closes the archive closes the file, and the directory it
\* points to is before it; its place is reckoned from size.
ZipTail(head, tail, size) ==
  LET start == size - Len(tail)
      end == Last(tail)
  IN /\ EndsWith(tail, "eocd")
     /\ end.n = 0
        \/ /\ end.n + 1 <= start + Len(tail) - 1
           /\ KindAt(head, tail, start, end.n) \in Directory \cup {"nowhere"}

Complete(sound, done) ==
  IF ~sound THEN "forged" ELSE IF done THEN "valid" ELSE "incomplete"

\* The header, then an inflate: a member of which the start inflates.
GzipSound(head) ==
  Len(head) > 1 /\ head[1].k = "gz" /\ head[2].k \in {"deflated", "stored"}

\* The marker chain, segment by segment, to the start of scan.
JpegSound(head, size) ==
  LET reaches[i \in 2 .. Len(head) + 1] ==
        IF i > Len(head) THEN FALSE
        ELSE IF head[i].k = "sos" THEN i > 2
        ELSE /\ head[i].k = "seg" /\ i - 1 + head[i].n <= size
             /\ i + head[i].n <= Len(head)
             /\ reaches[i + head[i].n]
  IN head[1].k = "soi" /\ reaches[2]

PdfSound(head) == head[1].k = "%PDF" /\ "obj" \in Kinds(head)
PdfDone(head, tail) ==
  "startxref" \in Kinds(head) \cup Kinds(tail) /\ EndsWith(tail, "%%EOF")

Streaming == {"moov", "mdat"}

\* The boxes tile the file; one that overruns it is forgiven if it streams.
Tiles(head, size) ==
  LET from[i \in 1 .. Len(head) + 1, boxes \in 0 .. Len(head)] ==
        IF i > Len(head) THEN IF boxes >= 2 THEN "valid" ELSE "forged"
        ELSE IF head[i].k \notin {"ftyp", "box"} \cup Streaming THEN "forged"
        ELSE IF head[i].n = 0 THEN IF boxes > 0 THEN "valid" ELSE "forged"
        ELSE IF i - 1 + head[i].n > size
        THEN IF head[i].k \in Streaming THEN "incomplete" ELSE "forged"
        ELSE IF i - 1 + head[i].n = size
        THEN IF boxes > 0 THEN "valid" ELSE "forged"
        ELSE from[IF i + head[i].n > Len(head) THEN Len(head) + 1
                  ELSE i + head[i].n, boxes + 1]
  IN IF head[1].k # "ftyp" THEN "forged" ELSE from[1, 0]

Validated == {"zip", "gzip", "png", "jpeg", "pdf", "iso-bmff"}

\* container_status
ContainerStatus(head, tail, format, size) ==
  CASE format \notin Validated -> "unvalidated"
    [] format \in Validated /\ head = <<>> -> "unreadable"
    [] format = "zip" /\ head # <<>> ->
         Complete(ZipHead(head), ZipTail(head, tail, size))
    [] format = "gzip" /\ head # <<>> -> Complete(GzipSound(head), TRUE)
    [] format = "png" /\ head # <<>> ->
         Complete(head[1].k = "png", EndsWith(tail, "iend"))
    [] format = "jpeg" /\ head # <<>> ->
         Complete(JpegSound(head, size), EndsWith(tail, "eoi"))
    [] format = "pdf" /\ head # <<>> ->
         Complete(PdfSound(head), PdfDone(head, tail))
    [] format = "iso-bmff" /\ head # <<>> -> Tiles(head, size)

Tristate(status) ==
  CASE status = "valid" -> "yes" [] status = "forged" -> "no"
    [] OTHER -> "unknown"

-------------------------------------------------------------------------------
(* What a container says of its payload.                                   *)

\* What a member is packed with, if its header is there to say.
Packed(head) ==
  IF Len(head) > 1 /\ head[1].k \in {"local", "gz"} THEN head[2].k ELSE "none"

\* compression_evidence: the sizes an archive's directory declares, what the
\* start of a gzip member inflates to.
Compressed(head, tail, format) ==
  LET says == IF format = "zip" THEN Kinds(IF tail = <<>> THEN head ELSE tail)
              ELSE {Packed(head)}
  IN CASE format = "zip" /\ "dir" \in says -> "yes"
       [] format = "zip" /\ "dirstored" \in says -> "no"
       [] format = "gzip" /\ "deflated" \in says -> "yes"
       [] format = "gzip" /\ "stored" \in says -> "no"
       [] OTHER -> "unknown"

\* inner_content_evidence: the first member's content is a container too, and
\* its start is not forged.
InnerExplains(head, format) ==
  LET payload == IF Packed(head) \in {"deflated", "stored"}
                 THEN SubSeq(head, 3, Len(head)) ELSE <<>>
      inner == Format(SubSeq(payload, 1, 1))
  IN /\ format \in {"zip", "gzip"} /\ inner # "none"
     /\ ContainerStatus(payload, payload, inner, Len(payload)) # "forged"
=============================================================================
