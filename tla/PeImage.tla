------------------------------ MODULE PeImage -------------------------------
(***************************************************************************)
(* How sbchooser loads one PE file (load_pe of sbchooser-pe.c): the checks *)
(* of the headers, the signatures in the certificate table (parse_sigs),   *)
(* and the bytes that go into the authenticode digest, in their order      *)
(* (authenticode.c).                                                       *)
(*                                                                         *)
(* Files are measured in units: the DOS header, the PE signature with the  *)
(* file header, the optional header up to the checksum, the checksum, an   *)
(* entry of the data directory, a section header and the header of a       *)
(* certificate are a unit each.  A file is a record:                       *)
(*    id         what the file was before anybody signed it                *)
(*    size       its size; body, its size before it was signed             *)
(*    wellmade   the magic numbers, the file alignment and the flags       *)
(*    lfanew, opt, rvas, image, headers                                    *)
(*               e_lfanew and the sizes the headers claim                  *)
(*    sections   their headers, in the order of the file                   *)
(*    va, dirsize, table                                                   *)
(*               the security directory and the certificates it points to  *)
(* Between body and the certificate table a signed file has zeros.         *)
(*                                                                         *)
(* The file is mapped: its size is a number of 64 bits, what its headers   *)
(* say and the sums over it are unsigned numbers of 32 bits, and both wrap *)
(* around.  A size that wrapped makes the code read behind the map.        *)
(***************************************************************************)
EXTENDS Naturals, Integers, Sequences, FiniteSets, SequencesExt

CONSTANTS
    NumDirs,      \* EFI_IMAGE_NUMBER_OF_DIRECTORY_ENTRIES (16)
    DirSecurity,  \* EFI_IMAGE_DIRECTORY_ENTRY_SECURITY (4)
    Alignment,    \* what the digest is padded to (8)
    Word          \* how far a number of 32 bits counts, in units

ASSUME DirAssumption == DirSecurity \in Nat /\ NumDirs \in Nat /\ DirSecurity < NumDirs
ASSUME AlignmentAssumption == Alignment \in Nat \ {0}
ASSUME WordAssumption == Word \in Nat \ {0}

VARIABLES
    img,      \* the file
    lpc,      \* where load_pe is: "idle", ..., "loaded", "failed", or "killed"
              \* by the read of a page that is not there
    pos,      \* in parse_sigs: the entry of the table, and its offset
    sigs,     \* the signatures found so far
    sorted,   \* section_header: the sections by their place in the file
    index,    \* the sections done
    hashed,   \* the bytes that went into the digest
    sum       \* sum_of_bytes_hashed

peVars == <<img, lpc, pos, sigs, sorted, index, hashed, sum>>

NoImage == [id |-> "none", size |-> 0, body |-> 0]

PeInit ==
    /\ img = NoImage
    /\ lpc = "idle"
    /\ pos = [entry |-> 1, off |-> 0]
    /\ sigs = <<>>
    /\ sorted = <<>>
    /\ index = 0
    /\ hashed = <<>>
    /\ sum = 0

-----------------------------------------------------------------------------
(* The headers                                                             *)

DosHeader == 1
FileHeader == 1
OptFixed == 2

Headers32 == FileHeader + OptFixed + NumDirs

Checksum(i) == i.lfanew + FileHeader + 1

SecDir(i) == i.lfanew + FileHeader + OptFixed + DirSecurity

SectionTable(i) == i.lfanew + FileHeader + i.opt

\* What load_pe wants of the headers before it looks at anything else.
Sane(i) ==
    LET n == Len(i.sections) IN
    /\ i.size >= DosHeader + 2 * Headers32
    /\ i.lfanew < i.size /\ i.wellmade
    /\ i.rvas <= NumDirs /\ i.opt = OptFixed + i.rvas
    /\ i.image - SectionTable(i) > n
    /\ i.headers - SectionTable(i) >= n
    /\ SectionTable(i) + n <= i.size
    /\ i.lfanew + Headers32 <= i.size
    /\ i.image >= i.headers
    /\ SecDir(i) < i.size
    /\ i.va < i.size \/ (i.va = i.size /\ i.dirsize = 0)

\* load_pe is called.
StartLoad(i) ==
    /\ lpc = "idle"
    /\ img' = i
    /\ lpc' = "headers"
    /\ UNCHANGED <<pos, sigs, sorted, index, hashed, sum>>

CheckHeaders ==
    /\ lpc = "headers"
    /\ lpc' = IF Sane(img) THEN "sigs" ELSE "failed"
    /\ UNCHANGED <<img, pos, sigs, sorted, index, hashed, sum>>

-----------------------------------------------------------------------------
(* parse_sigs                                                              *)

\* Where the certificates of a table end, for the first k of them.
TableEnd(t) ==
    LET end[k \in 0 .. Len(t)] == IF k = 0 THEN 0 ELSE end[k - 1] + t[k].len
    IN end

Entry == img.table[pos.entry]

\* The table ends, or there is no room for another certificate header.
TableEnds == pos.off >= img.dirsize

\* The walk is at a certificate that is in the file.
AtCert == lpc = "sigs" /\ ~TableEnds /\ pos.entry <= Len(img.table)

EndSigs ==
    /\ lpc = "sigs" /\ TableEnds
    /\ lpc' = "hash"
    /\ UNCHANGED <<img, pos, sigs, sorted, index, hashed, sum>>

\* Mutant: a length of zero is not looked for.
AdvanceAlways ==
    /\ pos' = IF Entry.len = 0 THEN pos
              ELSE [entry |-> pos.entry + 1, off |-> pos.off + Entry.len]
    /\ UNCHANGED lpc

\* The next certificate, unless this one claims to have no length.
Advance ==
    IF Entry.len = 0 THEN lpc' = "hash" /\ UNCHANGED pos
    ELSE pos' = [entry |-> pos.entry + 1, off |-> pos.off + Entry.len] /\ UNCHANGED lpc

\* Mutant: the first certificate of another kind ends the walk.
SkipCertBreaks ==
    /\ AtCert /\ Entry.kind = "other"
    /\ lpc' = "hash"
    /\ UNCHANGED <<img, pos, sigs, sorted, index, hashed, sum>>

\* A certificate of another revision or type.
SkipCert ==
    /\ AtCert /\ Entry.kind = "other"
    /\ Advance
    /\ UNCHANGED <<img, sigs, sorted, index, hashed, sum>>

\* A signature that PKCS#7 can make nothing of fails the file.
BadSig ==
    /\ AtCert /\ Entry.kind = "bad"
    /\ lpc' = "failed"
    /\ UNCHANGED <<img, pos, sigs, sorted, index, hashed, sum>>

\* add_one_sig and parse_pkcs7: the certificates of the signers.
AddSig ==
    /\ AtCert /\ Entry.kind = "pkcs7"
    /\ sigs' = Append(sigs, Entry.signers)
    /\ Advance
    /\ UNCHANGED <<img, sorted, index, hashed, sum>>

\* The security directory claims more than the file has: what is behind the
\* map ends the walk, fails the file or kills the program (that it is taken
\* for another signature is left out).
StrayCert ==
    /\ lpc = "sigs" /\ ~TableEnds /\ pos.entry > Len(img.table)
    /\ lpc' \in {"hash", "failed", "killed"}
    /\ UNCHANGED <<img, pos, sigs, sorted, index, hashed, sum>>

-----------------------------------------------------------------------------
(* generate_authenticode_digest                                            *)

Zero == -1
Stray == -2

\* The n bytes at a.
Piece(i, a, n) == [k \in 1 .. n |-> IF a + k - 1 < i.body THEN a + k - 1 ELSE Zero]

\* Some of the n bytes at a are not in the file.
Behind(i, a, n) == n > 0 /\ a + n > i.size

\* What a read of the n bytes at a may return: behind the map there are zeros
\* up to the end of the page, and then whatever there is.
Reads(i, a, n) ==
    IF Behind(i, a, n)
    THEN {[k \in 1 .. n |-> IF a + k - 1 < i.size THEN Piece(i, a, n)[k] ELSE b] :
            b \in {Zero, Stray}}
    ELSE {Piece(i, a, n)}

\* update_all_hashes for the n bytes at a, between what is there already and a
\* padding; nothing may be mapped behind the file.
Update(before, a, n, padding, next) ==
    \/ /\ \E r \in Reads(img, a, n) : hashed' = before \o r \o padding
       /\ lpc' = next
    \/ Behind(img, a, n) /\ lpc' = "killed" /\ UNCHANGED hashed

\* Mutant: a byte too many is read.
FitsOneMore(n, room) == room < 0 \/ n <= room + 1

\* No more than what is left of the map, where less than nothing is more than
\* any number of 32 bits.
Fits(n, room) == room < 0 \/ n <= room

\* The headers without the checksum and the entry of the security directory;
\* headers that end before that entry make the size wrap around.
HashHeaders ==
    /\ lpc = "hash"
    /\ LET c == Checksum(img)
           d == SecDir(img)
           n == (img.headers - d - 1) % Word IN
       \/ /\ n <= img.size
          /\ Update(Piece(img, 0, c) \o Piece(img, c + 1, d - c - 1), d + 1, n, <<>>, "sort")
          /\ sum' = img.headers
       \/ n > img.size /\ lpc' = "failed" /\ UNCHANGED <<hashed, sum>>
    /\ UNCHANGED <<img, pos, sigs, sorted, index>>

\* get_section_vma.
VmaOK(s) ==
    /\ s.uninit \/ (s.va >= img.headers /\ s.ptr >= img.headers)
    /\ (s.va + s.vsize - 1) % Word >= s.va

\* sum_of_section_bytes.
SectionBytes == FoldLeft(LAMBDA n, s : (n + s.size) % Word, 0, sorted)

\* Where the insertion sort puts a section: it moves down from the end until
\* the section before it is not behind it in the file.
PlaceOf(s) ==
    CHOOSE p \in 1 .. Len(sorted) + 1 :
        /\ p > 1 => sorted[p - 1].ptr <= s.ptr
        /\ \A k \in p .. Len(sorted) : s.ptr < sorted[k].ptr

SortSection ==
    /\ lpc = "sort" /\ index < Len(img.sections)
    /\ LET s == img.sections[index + 1] IN
       IF VmaOK(s) /\ Fits(s.size, img.size - sum - SectionBytes)
       THEN /\ sorted' = InsertAt(sorted, PlaceOf(s), s)
            /\ index' = index + 1
            /\ UNCHANGED lpc
       ELSE lpc' = "failed" /\ UNCHANGED <<sorted, index>>
    /\ UNCHANGED <<img, pos, sigs, hashed, sum>>

SectionsSorted ==
    /\ lpc = "sort" /\ index = Len(img.sections)
    /\ lpc' = "sections"
    /\ index' = 0
    /\ UNCHANGED <<img, pos, sigs, sorted, hashed, sum>>

HashSection ==
    /\ lpc = "sections" /\ index < Len(sorted)
    /\ LET s == sorted[index + 1] IN
       \/ /\ s.size = 0
          /\ index' = index + 1
          /\ UNCHANGED <<hashed, sum, lpc>>
       \/ /\ s.size > 0 /\ Fits(s.size, img.size - s.ptr)
          /\ Update(hashed, s.ptr, s.size, <<>>, "sections")
          /\ sum' = (sum + s.size) % Word
          /\ index' = index + 1
       \/ /\ s.size > 0 /\ ~Fits(s.size, img.size - s.ptr)
          /\ lpc' = "failed"
          /\ UNCHANGED <<hashed, sum, index>>
    /\ UNCHANGED <<img, pos, sigs, sorted>>

\* What is left before the security directory of a signed file.
HashUpToTable ==
    /\ lpc = "sections" /\ index = Len(sorted)
    /\ LET n == (img.size - img.dirsize - sum) % Word IN
       IF img.size > sum /\ img.dirsize > 0
       THEN Update(hashed, sum, n, <<>>, "rest") /\ sum' = (sum + n) % Word
       ELSE lpc' = "rest" /\ UNCHANGED <<hashed, sum>>
    /\ UNCHANGED <<img, pos, sigs, sorted, index>>

\* Mutant: the digest is not padded.
PaddingNone(n) == <<>>

\* ALIGNMENT_PADDING
Gap(n) == (-n) % Alignment

\* As many zeros.
Padding(n) == [k \in 1 .. Gap(n) |-> Zero]

\* What is left of a file without signatures; it is padded as signing would.
HashRest ==
    /\ lpc = "rest"
    /\ LET n == (img.size - sum - img.dirsize) % Word IN
       IF img.size > (sum + img.dirsize) % Word
       THEN Update(hashed, sum, n, Padding((sum + n) % Word), "loaded") /\ sum' = (sum + n) % Word
       ELSE lpc' = "loaded" /\ UNCHANGED <<hashed, sum>>
    /\ UNCHANGED <<img, pos, sigs, sorted, index>>

\* The three digests of the file, each of the same bytes.
Algorithm == {"SHA256", "SHA384", "SHA512"}

Digest == [of |-> img.id, bytes |-> hashed]

\* load_pe returns, and what it needed on the way is gone.
EndLoad ==
    /\ lpc \in {"loaded", "failed", "killed"}
    /\ img' = NoImage
    /\ lpc' = "idle"
    /\ pos' = [entry |-> 1, off |-> 0]
    /\ sigs' = <<>>
    /\ sorted' = <<>>
    /\ index' = 0
    /\ hashed' = <<>>
    /\ sum' = 0

LoadStep ==
    \/ CheckHeaders \/ EndSigs \/ SkipCert \/ BadSig \/ AddSig \/ StrayCert
    \/ HashHeaders \/ SortSection \/ SectionsSorted \/ HashSection
    \/ HashUpToTable \/ HashRest

-----------------------------------------------------------------------------
(* Properties                                                              *)

\* Every certificate of the table has a length, and the security directory is
\* as large as the table.
Whole(i) ==
    /\ \A k \in DOMAIN i.table : i.table[k].len > 0
    /\ i.dirsize = TableEnd(i.table)[Len(i.table)]

\* The sections with data.
Filled(i) == {k \in DOMAIN i.sections : i.sections[k].size > 0}

SectionEnd(s) == s.ptr + s.size

\* Where the headers and the sections end.
SectionEnds(i) == {i.headers} \cup {SectionEnd(i.sections[k]) : k \in Filled(i)}

\* An unsigned file whose size is no multiple of Alignment has something behind
\* its sections.  The code does not pad the others: HashRest has nothing left.
PaddedAsSigned(i) ==
    i.dirsize = 0 /\ Gap(i.body) # 0 => \A e \in SectionEnds(i) : e < i.body

\* The entry of the security directory is in the headers, and the size of the
\* file is a number of 32 bits.
Headed(i) == SecDir(i) < i.headers /\ i.size < Word

\* The sections follow each other without gaps, and a signed file has the
\* padding and the certificate table behind what it was.
Tidy(i) ==
    /\ Headed(i)
    /\ \A k \in Filled(i) : i.sections[k].ptr \in SectionEnds(i)
    /\ \A j, k \in Filled(i) : i.sections[j].ptr = i.sections[k].ptr => j = k
    /\ \A e \in SectionEnds(i) : e <= i.body
    /\ IF i.dirsize = 0 THEN i.size = i.body
       ELSE i.va = i.body + Gap(i.body) /\ i.size = i.va + i.dirsize

\* The first n bytes of the file before it was signed, and zeros behind them,
\* but for the checksum and the security directory's entry.
Hashable(i, n) == RemoveAt(RemoveAt(Piece(i, 0, n), SecDir(i) + 1), Checksum(i) + 1)

\* Every such byte of the file once and in order, and zeros up to Alignment.
Expected(i) == Hashable(i, i.body + Gap(i.body))

\* The digest of a tidy file (authenticode.c:124) is the digest of the file as
\* it was before it was signed: signing a file, or adding another signature,
\* changes nothing, whatever the order of the section headers, sections
\* without data and data behind the sections.  Left out is the unsigned file
\* that ends with its last section, off Alignment: what is hashed of it lacks
\* the zeros that are hashed once it is signed (authenticode.c:246).
DigestRight == lpc = "loaded" /\ Tidy(img) /\ PaddedAsSigned(img) => hashed = Expected(img)

\* The bytes of the first k sections.
RawBytes(ss) ==
    LET total[k \in 0 .. Len(ss)] == IF k = 0 THEN 0 ELSE total[k - 1] + ss[k].size
    IN total

\* Headers, sections and certificate table are in the file, and there is room
\* for them all.
Inside(i) ==
    /\ Headed(i)
    /\ \A k \in DOMAIN i.sections : i.sections[k].ptr <= i.size
    /\ i.headers + RawBytes(i.sections)[Len(i.sections)] + i.dirsize <= i.size

\* No subtraction of the digest (authenticode.c:155, 192, 221, 234) wraps, and
\* nothing is read that is not in the file, unless the headers claim more than
\* there is: gaps between the sections, sections that overlap and sections in
\* any order do not kill the program.
ReadsInside == lpc = "killed" => ~(Inside(img) /\ Whole(img))

\* The number of signatures among the first k certificates of a table.
NumSigs(t, k) == Cardinality({j \in 1 .. k : t[j].kind = "pkcs7"})

\* Certificates of other kinds in a whole table hide no signature from
\* parse_sigs, and the signatures keep their order, which --first-sig-only
\* relies on.
SigsComplete ==
    lpc = "loaded" /\ Whole(img) =>
        /\ Len(sigs) = NumSigs(img.table, Len(img.table))
        /\ \A k \in DOMAIN img.table :
                img.table[k].kind = "pkcs7" =>
                    sigs[NumSigs(img.table, k)] = img.table[k].signers

\* A file that was loaded is judged by the digest its signer saw and by all of
\* its signatures, and a file that fits its headers can be loaded.
ImageRight == DigestRight /\ SigsComplete /\ ReadsInside
=============================================================================
