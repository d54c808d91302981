------------------------------ MODULE MCContents ------------------------------
(* The contents of files in the instances of FileRead. *)
EXTENDS Naturals

One(k) == [k |-> k, n |-> 1]
Long(k, n) == [k |-> k, n |-> n]

Jpeg == <<One("soi"), Long("seg", 1), One("sos"), One("media"), One("media"),
          One("media"), One("eoi")>>
Mp4 == <<One("ftyp"), Long("mdat", 3), One("media"), One("media")>>
Zipped == <<One("local"), One("deflated"), One("media"), One("media"),
            One("dir"), Long("eocd", 4)>>
Pdf == <<One("%PDF"), One("obj"), One("media"), One("media"),
         One("startxref"), One("%%EOF")>>
Png == <<One("png"), One("media"), One("media"), One("iend")>>
Gz == <<One("gz"), One("deflated"), One("media"), One("media")>>
RealFiles == {Jpeg, Mp4, Zipped, Pdf, Png, Gz}

\* Ciphertext under a header, or between a header and a trailer.
ForgedFiles ==
  {<<One("PK"), One("cipher"), One("cipher")>>,
   <<One("soi"), One("cipher"), One("cipher"), One("eoi")>>,
   <<One("ftyp"), One("cipher"), One("cipher")>>,
   <<One("pngmagic"), One("cipher"), One("iend")>>,
   <<One("%PDF"), One("cipher"), One("cipher"), One("%%EOF")>>,
   <<One("gz"), One("cipher"), One("cipher")>>}

ThereBefore == {Gz}
===============================================================================
